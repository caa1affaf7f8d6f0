-------------------------------- MODULE Log --------------------------------
(***************************************************************************)
(* The log of src/MyLog.cc: callers queue entries under a mutex, one       *)
(* thread takes them out and appends them to the log file.                 *)
(*                                                                         *)
(* stop() clears the flag and signals WITHOUT the mutex, so the two can    *)
(* fall anywhere in getLog: in particular between its test of the flag     *)
(* (line 64) and its wait (line 65), while the log thread holds the mutex. *)
(* That instant is the state "decided".  Every other critical section is   *)
(* one action.                                                             *)
(***************************************************************************)
EXTENDS Naturals, Sequences, FiniteSets, SequencesExt

CONSTANTS Entries,     \* what the program logs, each entry once
          StartEntry,  \* "Server is start."
          CloseEntry,  \* "Server is closed."
          NoEntry,     \* the empty string of getLog
          MaxFailures  \* bound: how often the log file cannot be opened

ASSUME LogAssumption ==
    /\ StartEntry \notin Entries
    /\ CloseEntry \notin Entries \cup {StartEntry}
    /\ NoEntry \notin Entries \cup {StartEntry, CloseEntry}
    /\ MaxFailures \in Nat

VARIABLES queue,      \* queue_
          isStarted,  \* isStarted_
          opc,        \* where the owner is, in start() or stop()
          lpc,        \* where the log thread is
          entry,      \* the local s of run()
          file,       \* the lines of the log file
          accepted,   \* history: what addLog has accepted, in order
          failed      \* history: what could not be written

vars == <<queue, isStarted, opc, lpc, entry, file, accepted, failed>>

Loggable == Entries \cup {StartEntry}
OwnerStates ==
    {"new", "starting", "spawning", "started", "flagged", "joining", "stopped"}
\* "get": about to lock the mutex; "decided": holds it, about to wait;
\* "waiting": in cond_.wait(); "woken": that wait returned.
LogStates ==
    {"none", "loop", "get", "decided", "waiting", "woken", "write", "closing",
     "exited"}

TypeOK ==
    /\ queue \in Seq(Loggable)
    /\ isStarted \in BOOLEAN
    /\ opc \in OwnerStates
    /\ lpc \in LogStates
    /\ entry \in Loggable \cup {NoEntry}
    /\ file \in Seq(Loggable \cup {CloseEntry})
    /\ accepted \in Seq(Loggable)
    /\ failed \subseteq Loggable \cup {CloseEntry}

Init ==
    /\ queue = <<>>
    /\ isStarted = FALSE
    /\ opc = "new"
    /\ lpc = "none"
    /\ entry = NoEntry
    /\ file = <<>>
    /\ accepted = <<>>
    /\ failed = {}

MutexFree == lpc # "decided"
Members(s) == {s[i] : i \in 1..Len(s)}

-----------------------------------------------------------------------------
(* signal_one and signal_all: only the log thread ever waits.              *)

Wake == lpc' = IF lpc = "waiting" THEN "woken" ELSE lpc

(* Mutants: no signal (of addLog, of stop), the newest entry first, the    *)
(* empty string written too, and a stop that does not join.                *)
NoSignal == lpc' = lpc
NewestEntry == queue[Len(queue)]
WriteEmpty == TRUE
NoJoin == TRUE

Signal == Wake
StopWakes == Wake
NextEntry == Head(queue)
HasText == entry # NoEntry
LogThreadDone == lpc = "exited"

\* addLog(e), the body of its critical section.
Enqueue(e) ==
    /\ MutexFree
    /\ queue' = Append(queue, e)
    /\ accepted' = Append(accepted, e)
    /\ Signal

\* writeLog(e): when the file cannot be opened the line is lost.
WriteLine(e) ==
    \/ file' = Append(file, e) /\ UNCHANGED failed
    \/ /\ Cardinality(failed) < MaxFailures
       /\ failed' = failed \cup {e}
       /\ UNCHANGED file

-----------------------------------------------------------------------------
(* start() and stop().                                                     *)

StartFlag ==
    /\ opc = "new"
    /\ isStarted' = TRUE
    /\ opc' = "starting"
    /\ UNCHANGED <<queue, lpc, entry, file, accepted, failed>>

StartLine ==
    /\ opc = "starting"
    /\ Enqueue(StartEntry)
    /\ opc' = "spawning"
    /\ UNCHANGED <<isStarted, entry, file, failed>>

StartThread ==
    /\ opc = "spawning"
    /\ lpc' = "loop"
    /\ opc' = "started"
    /\ UNCHANGED <<queue, isStarted, entry, file, accepted, failed>>

StopFlag ==
    /\ opc = "started"
    /\ isStarted' = FALSE
    /\ opc' = "flagged"
    /\ UNCHANGED <<queue, lpc, entry, file, accepted, failed>>

StopSignal ==
    /\ opc = "flagged"
    /\ StopWakes
    /\ opc' = "joining"
    /\ UNCHANGED <<queue, isStarted, entry, file, accepted, failed>>

Join ==
    /\ opc = "joining"
    /\ LogThreadDone
    /\ opc' = "stopped"
    /\ UNCHANGED <<queue, isStarted, lpc, entry, file, accepted, failed>>

-----------------------------------------------------------------------------
(* addLog, called by any thread once start() has returned.                 *)

AddLog(e) ==
    /\ opc \notin {"new", "starting", "spawning"}
    /\ e \notin Members(accepted)
    /\ Enqueue(e)
    /\ UNCHANGED <<isStarted, opc, entry, file, failed>>

-----------------------------------------------------------------------------
(* The log thread: run() and getLog().                                     *)

CheckStarted ==
    /\ lpc = "loop"
    /\ lpc' = IF isStarted THEN "get" ELSE "closing"
    /\ UNCHANGED <<queue, isStarted, opc, entry, file, accepted, failed>>

\* The test of line 64 says wait; the mutex is held from here on.
DecideToWait ==
    /\ lpc \in {"get", "woken"}
    /\ queue = <<>>
    /\ isStarted
    /\ lpc' = "decided"
    /\ UNCHANGED <<queue, isStarted, opc, entry, file, accepted, failed>>

\* Line 65 puts the thread to sleep and releases the mutex at once.
Wait ==
    /\ lpc = "decided"
    /\ lpc' = "waiting"
    /\ UNCHANGED <<queue, isStarted, opc, entry, file, accepted, failed>>

TakeEntry ==
    /\ lpc \in {"get", "woken"}
    /\ queue # <<>>
    /\ entry' = NextEntry
    /\ queue' = Tail(queue)
    /\ lpc' = "write"
    /\ UNCHANGED <<isStarted, opc, file, accepted, failed>>

\* Woken by stop() with nothing to take: the empty string.
TakeNothing ==
    /\ lpc \in {"get", "woken"}
    /\ queue = <<>>
    /\ ~isStarted
    /\ lpc' = "write"
    /\ UNCHANGED <<queue, isStarted, opc, entry, file, accepted, failed>>

WriteEntry ==
    /\ lpc = "write"
    /\ \/ HasText /\ WriteLine(entry)
       \/ ~HasText /\ UNCHANGED <<file, failed>>
    /\ entry' = NoEntry
    /\ lpc' = "loop"
    /\ UNCHANGED <<queue, isStarted, opc, accepted>>

WriteClosed ==
    /\ lpc = "closing"
    /\ WriteLine(CloseEntry)
    /\ lpc' = "exited"
    /\ UNCHANGED <<queue, isStarted, opc, entry, accepted>>

SpuriousWake ==
    /\ lpc = "waiting"
    /\ lpc' = "woken"
    /\ UNCHANGED <<queue, isStarted, opc, entry, file, accepted, failed>>

Owner ==
    \/ StartFlag \/ StartLine \/ StartThread \/ StopFlag \/ StopSignal \/ Join
LogThread ==
    \/ CheckStarted \/ DecideToWait \/ Wait \/ TakeEntry \/ TakeNothing
    \/ WriteEntry \/ WriteClosed

Next ==
    \/ Owner
    \/ \E e \in Entries : AddLog(e)
    \/ LogThread
    \/ SpuriousWake

Spec == Init /\ [][Next]_vars

\* The log thread runs whenever it can; a start() or stop() once begun goes
\* on.
FairSpec ==
    /\ Spec
    /\ WF_vars(LogThread)
    /\ WF_vars(StartLine \/ StartThread \/ StopSignal \/ Join)

-----------------------------------------------------------------------------
(* Properties.                                                             *)

InFlight == IF entry = NoEntry THEN <<>> ELSE <<entry>>

(* Nothing is lost, duplicated or reordered between addLog and the file,   *)
(* whatever the interleaving: the lines written, the entry in flight and   *)
(* the queue are, but for the closing line, what addLog accepted and the   *)
(* file system did not refuse, each once and in that order.                *)
NothingLostOrReordered ==
    LET out == file \o InFlight \o queue
    IN  /\ Members(out) \ {CloseEntry} = Members(accepted) \ failed
        /\ \A i, j \in DOMAIN out : \A m, n \in DOMAIN accepted :
              i < j /\ out[i] = accepted[m] /\ out[j] = accepted[n] => m < n

(* The closing line is the log's last word: it is the last line of the     *)
(* file, it is there (or was refused) when stop() returns, and nobody      *)
(* writes it while the log is in use.                                      *)
ClosedLast ==
    /\ CloseEntry \in Members(file) =>
          /\ Last(file) = CloseEntry
          /\ ~isStarted
    /\ opc = "stopped" => CloseEntry \in Members(file) \cup failed

(* A log that is not being stopped writes every entry it accepted.         *)
EntriesWritten ==
    \A e \in Loggable :
        e \in Members(accepted) ~> (e \in Members(file) \cup failed \/ ~isStarted)

(* stop() returns, provided its store to the flag does not fall between    *)
(* the test and the wait of the log thread.  If it does, and the signal    *)
(* follows before the wait, nobody is woken and stop() joins for ever: it  *)
(* is the one window left open by not taking the mutex.                    *)
StopReturnsUnlessMissed ==
    (opc = "flagged" /\ lpc # "decided") ~> opc = "stopped"

=============================================================================
