----------------------------- MODULE ThreadPool -----------------------------
(***************************************************************************)
(* The worker pool of rptp/ThreadPool.h: a bounded queue guarded by one    *)
(* mutex and two condition variables, full_ (consumers wait for a task)    *)
(* and empty_ (producers wait for a slot).                                 *)
(*                                                                         *)
(* Nothing inside a critical section blocks except the condition waits,    *)
(* which release the mutex, so a critical section is one action and the    *)
(* mutex is no variable.  isStarted_ is read without the mutex by the loop *)
(* of runInThread: that read is an action of its own.  A wait returns when *)
(* its thread was signalled or spuriously; the thread then has to take the *)
(* mutex again and re-evaluates the loop condition.                        *)
(*                                                                         *)
(* stop() empties the queue without the mutex, so no addTask may overlap   *)
(* it.  The one user of the pool (src/MyServer.cc) meets that contract: it *)
(* adds from the thread that owns the pool.  Here StopSignal waits until   *)
(* no addTask is under way and CallAdd until stop() has returned.          *)
(***************************************************************************)
EXTENDS Naturals, Sequences, FiniteSets

CONSTANTS Workers,    \* the threads of threads_, poolSize_ of them
          Producers,  \* the threads that call addTask
          Tasks,      \* the closures; one is submitted again only when done
          NoTask,     \* the empty std::function
          QueueSize   \* queueSize_

ASSUME PoolAssumption ==
    /\ IsFiniteSet(Workers)
    /\ IsFiniteSet(Producers)
    /\ NoTask \notin Tasks
    /\ QueueSize \in Nat

VARIABLES queue,      \* queue_
          isStarted,  \* isStarted_
          owner,      \* where the thread that calls start() and stop() is
          wpc,        \* where each worker is
          task,       \* the closure each worker holds
          ppc,        \* where each producer is
          arg         \* the closure each producer is adding

vars == <<queue, isStarted, owner, wpc, task, ppc, arg>>

\* "get": about to lock the mutex in getTask; "fullWait": inside full_.wait();
\* "woken": that wait returned, the mutex is still to be taken.
WorkerStates == {"none", "loop", "get", "fullWait", "woken", "run", "exited"}
ProducerStates == {"idle", "add", "emptyWait", "woken"}
OwnerStates == {"new", "started", "joining", "clearing", "stopped"}

TypeOK ==
    /\ queue \in Seq(Tasks)
    /\ Len(queue) <= QueueSize
    /\ isStarted \in BOOLEAN
    /\ owner \in OwnerStates
    /\ wpc \in [Workers -> WorkerStates]
    /\ task \in [Workers -> Tasks \cup {NoTask}]
    /\ ppc \in [Producers -> ProducerStates]
    /\ arg \in [Producers -> Tasks \cup {NoTask}]

Init ==
    /\ queue = <<>>
    /\ isStarted = FALSE
    /\ owner = "new"
    /\ wpc = [w \in Workers |-> "none"]
    /\ task = [w \in Workers |-> NoTask]
    /\ ppc = [p \in Producers |-> "idle"]
    /\ arg = [p \in Producers |-> NoTask]

Queued == {queue[i] : i \in 1..Len(queue)}
Running == owner = "started"
Stopping == owner \in {"joining", "clearing"}
Held == {task[w] : w \in Workers} \cup {arg[p] : p \in Producers}

\* The waiters of a condition variable, and those of them that were woken.
SleepingWorkers == {w \in Workers : wpc[w] = "fullWait"}
WokenWorkers == {w \in Workers : wpc[w] = "woken"}
SleepingProducers == {p \in Producers : ppc[p] = "emptyWait"}
WokenProducers == {p \in Producers : ppc[p] = "woken"}

-----------------------------------------------------------------------------
(* Condition::signal_one and signal_all: pc is the pc function of the      *)
(* waiters, sleeping the state of one that waits.                          *)

SignalOne(pc, next, sleeping) ==
    LET waiters == {x \in DOMAIN pc : pc[x] = sleeping}
    IN  IF waiters = {} THEN next = pc
        ELSE \E x \in waiters : next = [pc EXCEPT ![x] = "woken"]

SignalAll(pc, next, sleeping) ==
    next = [x \in DOMAIN pc |-> IF pc[x] = sleeping THEN "woken" ELSE pc[x]]

(* Mutants: an off-by-one in the capacity test, the newest task instead of *)
(* the oldest, the two classical wrong economies of signals (only when the *)
(* queue leaves "empty" or "full"), no signal at all, and one signal where *)
(* all waiters have to be woken.                                           *)
FullBeyond == Len(queue) > QueueSize
NewestTask == queue[Len(queue)]
NotifyConsumerIfEmpty ==
    IF queue = <<>> THEN SignalOne(wpc, wpc', "fullWait") ELSE wpc' = wpc
NotifyProducerIfFull ==
    IF Len(queue) = QueueSize
    THEN SignalOne(ppc, ppc', "emptyWait")
    ELSE ppc' = ppc
NotifyNoConsumer == wpc' = wpc
NotifyNoProducer == ppc' = ppc
WakeOneConsumer == SignalOne(wpc, wpc', "fullWait")

Full == Len(queue) >= QueueSize
NextTask == Head(queue)
NotifyConsumer == SignalOne(wpc, wpc', "fullWait")
NotifyProducer == SignalOne(ppc, ppc', "emptyWait")
WakeConsumers == SignalAll(wpc, wpc', "fullWait")

-----------------------------------------------------------------------------
(* The owner: start() and stop().                                          *)

\* The flag is set first and the threads are created after it.
Start ==
    /\ owner \in {"new", "stopped"}
    /\ isStarted' = TRUE
    /\ wpc' = [w \in Workers |-> "loop"]
    /\ owner' = "started"
    /\ UNCHANGED <<queue, task, ppc, arg>>

\* The critical section of stop(): clear the flag, wake the consumers.
StopSignal ==
    /\ Running
    /\ \A p \in Producers : ppc[p] = "idle"
    /\ isStarted' = FALSE
    /\ WakeConsumers
    /\ owner' = "joining"
    /\ UNCHANGED <<queue, task, ppc, arg>>

Join ==
    /\ owner = "joining"
    /\ \A w \in Workers : wpc[w] = "exited"
    /\ owner' = "clearing"
    /\ UNCHANGED <<queue, isStarted, wpc, task, ppc, arg>>

\* One turn of the loop that empties the queue, without the mutex.
ClearOne ==
    /\ owner = "clearing"
    /\ queue # <<>>
    /\ queue' = Tail(queue)
    /\ UNCHANGED <<isStarted, owner, wpc, task, ppc, arg>>

ClearThreads ==
    /\ owner = "clearing"
    /\ queue = <<>>
    /\ wpc' = [w \in Workers |-> "none"]
    /\ owner' = "stopped"
    /\ UNCHANGED <<queue, isStarted, task, ppc, arg>>

-----------------------------------------------------------------------------
(* A producer: addTask(task).                                              *)

CallAdd(p, t) ==
    /\ ppc[p] = "idle"
    /\ ~Stopping
    /\ t \notin Queued \cup Held
    /\ ppc' = [ppc EXCEPT ![p] = "add"]
    /\ arg' = [arg EXCEPT ![p] = t]
    /\ UNCHANGED <<queue, isStarted, owner, wpc, task>>

Push(p) ==
    /\ ppc[p] \in {"add", "woken"}
    /\ ~Full
    /\ queue' = Append(queue, arg[p])
    /\ NotifyConsumer
    /\ ppc' = [ppc EXCEPT ![p] = "idle"]
    /\ arg' = [arg EXCEPT ![p] = NoTask]
    /\ UNCHANGED <<isStarted, owner, task>>

WaitForSlot(p) ==
    /\ ppc[p] \in {"add", "woken"}
    /\ Full
    /\ ppc' = [ppc EXCEPT ![p] = "emptyWait"]
    /\ UNCHANGED <<queue, isStarted, owner, wpc, task, arg>>

-----------------------------------------------------------------------------
(* A worker: runInThread() and getTask().                                  *)

CheckStarted(w) ==
    /\ wpc[w] = "loop"
    /\ wpc' = [wpc EXCEPT ![w] = IF isStarted THEN "get" ELSE "exited"]
    /\ UNCHANGED <<queue, isStarted, owner, task, ppc, arg>>

WaitForTask(w) ==
    /\ wpc[w] \in {"get", "woken"}
    /\ queue = <<>>
    /\ isStarted
    /\ wpc' = [wpc EXCEPT ![w] = "fullWait"]
    /\ UNCHANGED <<queue, isStarted, owner, task, ppc, arg>>

TakeTask(w) ==
    /\ wpc[w] \in {"get", "woken"}
    /\ queue # <<>>
    /\ task' = [task EXCEPT ![w] = NextTask]
    /\ queue' = Tail(queue)
    /\ NotifyProducer
    /\ wpc' = [wpc EXCEPT ![w] = "run"]
    /\ UNCHANGED <<isStarted, owner, arg>>

\* Woken by stop() with nothing to do: an empty task, which is not run.
TakeNothing(w) ==
    /\ wpc[w] \in {"get", "woken"}
    /\ queue = <<>>
    /\ ~isStarted
    /\ wpc' = [wpc EXCEPT ![w] = "loop"]
    /\ UNCHANGED <<queue, isStarted, owner, task, ppc, arg>>

\* The task returns.
FinishTask(w) ==
    /\ wpc[w] = "run"
    /\ task' = [task EXCEPT ![w] = NoTask]
    /\ wpc' = [wpc EXCEPT ![w] = "loop"]
    /\ UNCHANGED <<queue, isStarted, owner, ppc, arg>>

-----------------------------------------------------------------------------
(* pthread_cond_wait may return without a signal.                          *)

SpuriousWake ==
    \/ \E w \in SleepingWorkers :
          /\ wpc' = [wpc EXCEPT ![w] = "woken"]
          /\ UNCHANGED <<queue, isStarted, owner, task, ppc, arg>>
    \/ \E p \in SleepingProducers :
          /\ ppc' = [ppc EXCEPT ![p] = "woken"]
          /\ UNCHANGED <<queue, isStarted, owner, wpc, task, arg>>

Owner == Start \/ StopSignal \/ Join \/ ClearOne \/ ClearThreads
Producer(p) == (\E t \in Tasks : CallAdd(p, t)) \/ Push(p) \/ WaitForSlot(p)
Worker(w) ==
    \/ CheckStarted(w)
    \/ WaitForTask(w)
    \/ TakeTask(w)
    \/ TakeNothing(w)
    \/ FinishTask(w)

Next ==
    \/ Owner
    \/ \E p \in Producers : Producer(p)
    \/ \E w \in Workers : Worker(w)
    \/ SpuriousWake

Spec == Init /\ [][Next]_vars

\* A thread that can run does run; a task returns; a stop() once begun goes
\* on.  Nobody is obliged to call start(), stop() or addTask.
Fairness ==
    /\ WF_vars(Join \/ ClearOne \/ ClearThreads)
    /\ \A p \in Producers : WF_vars(Push(p) \/ WaitForSlot(p))
    /\ \A w \in Workers : WF_vars(Worker(w))

FairSpec == Spec /\ Fairness

-----------------------------------------------------------------------------
(* Properties.                                                             *)

(* No task waits behind a sleeping worker.  While some worker sleeps in    *)
(* full_.wait(), every queued task has a worker of its own that was woken  *)
(* for it: the one signal per addTask is never lost and never spent twice. *)
NoTaskBehindSleepers ==
    SleepingWorkers # {} => Len(queue) <= Cardinality(WokenWorkers)

(* The same for producers: while one sleeps in empty_.wait(), every free   *)
(* slot has a producer that was woken for it by the getTask that freed it. *)
NoSlotBehindSleepers ==
    SleepingProducers # {} =>
        QueueSize - Len(queue) <= Cardinality(WokenProducers)

(* The pool implements the bounded FIFO dispatcher: tasks start in the     *)
(* order addTask accepted them, none runs twice at once, none is lost      *)
(* except those that stop() discards when no task runs any more.           *)
Dispatcher == INSTANCE TaskDispatch
    WITH pending <- queue,
         running <- {task[w] : w \in Workers} \ {NoTask},
         PoolSize <- Cardinality(Workers)
ImplementsDispatcher == Dispatcher!DSpec

(* An accepted task is started, unless the pool is stopped.                *)
AcceptedTasksStart ==
    \A t \in Tasks : t \in Queued ~> (t \notin Queued \/ ~Running)

(* A running pool drains a full queue, so the caller that addTask blocks   *)
(* is not blocked for ever by sleeping workers.                            *)
FullQueueDrains == Full ~> (~Full \/ ~Running)

(* stop() returns: every worker leaves full_.wait() and its loop, whatever *)
(* it was doing when the flag was cleared.                                 *)
StopReturns == owner = "joining" ~> owner = "stopped"

=============================================================================
