---------------------------- MODULE TaskDispatch ----------------------------
(***************************************************************************)
(* What the thread pool of rptp/ThreadPool.h promises to its callers: a    *)
(* bounded FIFO of pending tasks, handed out one by one, each task it      *)
(* accepted either run exactly once or, after a stop, thrown away before   *)
(* it ran.  No threads, no mutex, no condition variables.                  *)
(***************************************************************************)
EXTENDS Naturals, Sequences, FiniteSets

CONSTANTS Tasks,      \* the closures that can be submitted
          QueueSize,  \* how many may be pending
          PoolSize    \* how many may run at a time

VARIABLES pending,    \* accepted and not yet started, oldest first
          running     \* started and not yet finished

dvars == <<pending, running>>

PendingSet == {pending[i] : i \in 1..Len(pending)}

DInit == pending = <<>> /\ running = {}

\* A closure is accepted while there is room for it.
Submit(t) ==
    /\ t \notin PendingSet \cup running
    /\ Len(pending) < QueueSize
    /\ pending' = Append(pending, t)
    /\ UNCHANGED running

(* A mutant: the newest pending task starts.                               *)
DispatchNewest ==
    /\ pending # <<>>
    /\ Cardinality(running) < PoolSize
    /\ running' = running \cup {pending[Len(pending)]}
    /\ pending' = SubSeq(pending, 1, Len(pending) - 1)

\* The oldest pending task starts, on a free thread.
Dispatch ==
    /\ pending # <<>>
    /\ Cardinality(running) < PoolSize
    /\ running' = running \cup {Head(pending)}
    /\ pending' = Tail(pending)

Finish(t) ==
    /\ t \in running
    /\ running' = running \ {t}
    /\ UNCHANGED pending

\* A stopped pool forgets what it had not started, when nothing runs.
Discard ==
    /\ pending # <<>>
    /\ running = {}
    /\ pending' = Tail(pending)
    /\ UNCHANGED running

DNext ==
    \/ \E t \in Tasks : Submit(t) \/ Finish(t)
    \/ Dispatch
    \/ Discard

DSpec == DInit /\ [][DNext]_dvars

=============================================================================
