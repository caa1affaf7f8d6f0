---------------------------- MODULE TimerThread ----------------------------
(***************************************************************************)
(* The timer threads of rptp/TimerThread.cc and rptp/Timer.cc: a thread    *)
(* polls a timerfd and runs a callback at every expiration.  The user of   *)
(* this module adds the body of the callback, between Read and Return.     *)
(*                                                                         *)
(* isStarted_ of Timer is written by the thread (runTimer) and by whoever  *)
(* cancels it (cancelTimer), with nothing to order the two.                *)
(***************************************************************************)
EXTENDS Naturals

CONSTANTS Timers,   \* the TimerThread objects
          Interval  \* it_interval of each, in seconds: 0 is "only once"

ASSUME TimerAssumption == Interval \in [Timers -> Nat]

VARIABLES tpc,      \* where each timer thread is
          timeSet,  \* whether howlong_ still holds the times of setTime
          armed,    \* whether the timerfd will expire again
          expired,  \* whether it holds an expiration that nobody has read
          looping   \* isStarted_ of Timer

tvars == <<tpc, timeSet, armed, expired, looping>>

TimerStates ==
    {"none", "arm", "enable", "loop", "poll", "read", "callback", "exited"}

TTypeOK ==
    /\ timeSet \in [Timers -> BOOLEAN]
    /\ armed \in [Timers -> BOOLEAN]
    /\ expired \in [Timers -> BOOLEAN]
    /\ looping \in [Timers -> BOOLEAN]

TInit ==
    /\ tpc = [t \in Timers |-> "none"]
    /\ timeSet = [t \in Timers |-> TRUE]
    /\ armed = [t \in Timers |-> FALSE]
    /\ expired = [t \in Timers |-> FALSE]
    /\ looping = [t \in Timers |-> FALSE]

Goto(t, state) == tpc' = [tpc EXCEPT ![t] = state]

\* startTimerThread
StartTimerThread(t) ==
    /\ Goto(t, "arm")
    /\ UNCHANGED <<timeSet, armed, expired, looping>>

-----------------------------------------------------------------------------
(* runTimer                                                                *)

\* timerfd_settime with howlong_: arms the timer unless it was cleared.
Arm(t) ==
    /\ tpc[t] = "arm"
    /\ armed' = [armed EXCEPT ![t] = timeSet[t]]
    /\ expired' = [expired EXCEPT ![t] = FALSE]
    /\ Goto(t, "enable")
    /\ UNCHANGED <<timeSet, looping>>

Enable(t) ==
    /\ tpc[t] = "enable"
    /\ looping' = [looping EXCEPT ![t] = TRUE]
    /\ Goto(t, "loop")
    /\ UNCHANGED <<timeSet, armed, expired>>

CheckLoop(t) ==
    /\ tpc[t] = "loop"
    /\ Goto(t, IF looping[t] THEN "poll" ELSE "exited")
    /\ UNCHANGED <<timeSet, armed, expired, looping>>

PollReady(t) ==
    /\ tpc[t] = "poll"
    /\ expired[t]
    /\ Goto(t, "read")
    /\ UNCHANGED <<timeSet, armed, expired, looping>>

\* A hundred seconds without an expiration.
PollTimeout(t) ==
    /\ tpc[t] = "poll"
    /\ ~expired[t]
    /\ Goto(t, "loop")
    /\ UNCHANGED <<timeSet, armed, expired, looping>>

\* The descriptor is blocking: without an expiration read does not return.
Read(t) ==
    /\ tpc[t] = "read"
    /\ expired[t]
    /\ expired' = [expired EXCEPT ![t] = FALSE]
    /\ Goto(t, "callback")
    /\ UNCHANGED <<timeSet, armed, looping>>

TimerStep(t) ==
    \/ Arm(t) \/ Enable(t) \/ CheckLoop(t)
    \/ PollReady(t) \/ PollTimeout(t) \/ Read(t)

-----------------------------------------------------------------------------
(* The kernel.                                                             *)

Expire(t) ==
    /\ armed[t]
    /\ ~expired[t]
    /\ expired' = [expired EXCEPT ![t] = TRUE]
    /\ armed' = [armed EXCEPT ![t] = Interval[t] # 0]
    /\ UNCHANGED <<tpc, timeSet, looping>>

-----------------------------------------------------------------------------
(* cancelTimerThread: disarm, lower the flag, join.                        *)

\* (ClearTimes is a mutant: howlong_ is cleared, the timerfd goes on.)
ClearTimes(t) ==
    /\ timeSet' = [timeSet EXCEPT ![t] = FALSE]
    /\ UNCHANGED <<tpc, armed, expired, looping>>

Disarm(t) ==
    /\ timeSet' = [timeSet EXCEPT ![t] = FALSE]
    /\ armed' = [armed EXCEPT ![t] = FALSE]
    /\ expired' = [expired EXCEPT ![t] = FALSE]
    /\ UNCHANGED <<tpc, looping>>

LowerFlag(t) ==
    /\ looping' = [looping EXCEPT ![t] = FALSE]
    /\ UNCHANGED <<tpc, timeSet, armed, expired>>

Exited(t) == tpc[t] = "exited"

=============================================================================
