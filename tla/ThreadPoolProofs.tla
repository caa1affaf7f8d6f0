-------------------------- MODULE ThreadPoolProofs --------------------------
(***************************************************************************)
(* Theorems about the thread pool, for any number of workers, producers    *)
(* and tasks and any capacity of the queue.                                *)
(*                                                                         *)
(* IInv is the inductive invariant: the types, and which states of the     *)
(* program counters go with an argument and with a stop.                   *)
(*                                                                         *)
(* That the pool implements the bounded FIFO dispatcher of TaskDispatch    *)
(* needs to know where a closure can be: in the queue once, or with one    *)
(* producer, or with one worker that runs it.  OneHolder says so;          *)
(* HolderStates ties what a thread holds to where the thread is.           *)
(***************************************************************************)
EXTENDS ThreadPool, FiniteSetTheorems, SharedLemmas

\* A producer inside addTask has a closure to add.
ArgHeld == \A p \in Producers : ppc[p] # "idle" => arg[p] \in Tasks

\* The contract of stop(): no addTask is under way.
NoAddDuringStop == Stopping => \A p \in Producers : ppc[p] = "idle"

IInv == TypeOK /\ ArgHeld /\ NoAddDuringStop

-----------------------------------------------------------------------------
(* What a signal does to a pc function.                                    *)

(* signal_one either finds no waiter and changes nothing or moves exactly  *)
(* one of the waiters to "woken" (Condition.h).                            *)
LEMMA SignalOneEffect ==
    ASSUME NEW pc, NEW next, NEW sleeping, SignalOne(pc, next, sleeping)
    PROVE  \/ /\ \A x \in DOMAIN pc : pc[x] # sleeping
              /\ next = pc
           \/ \E x \in DOMAIN pc :
                 /\ pc[x] = sleeping
                 /\ next = [pc EXCEPT ![x] = "woken"]
BY DEF SignalOne

(* getTask removes the head: what is left is one shorter.                  *)
LEMMA TailFacts ==
    ASSUME NEW S, NEW s \in Seq(S), s # <<>>
    PROVE  /\ Head(s) \in S
           /\ Tail(s) \in Seq(S)
           /\ Len(Tail(s)) = Len(s) - 1
           /\ Len(s) >= 1
OBVIOUS

(* A signal keeps the pc function of the workers, or of the producers, well *)
(* typed, and wakes nobody who does not wait.                              *)
LEMMA NotifyConsumerFacts ==
    ASSUME wpc \in [Workers -> WorkerStates], NotifyConsumer
    PROVE  wpc' \in [Workers -> WorkerStates]
BY SignalOneEffect DEF NotifyConsumer, WorkerStates

(* The signal for producers brings nobody into addTask.                    *)
LEMMA NotifyProducerFacts ==
    ASSUME ppc \in [Producers -> ProducerStates], NotifyProducer
    PROVE  /\ ppc' \in [Producers -> ProducerStates]
           /\ \A p \in Producers : ppc'[p] # "idle" => ppc[p] # "idle"
BY SignalOneEffect DEF NotifyProducer, ProducerStates

(* Behind the broadcast of stop() no worker sleeps.                        *)
LEMMA WakeConsumersFacts ==
    ASSUME wpc \in [Workers -> WorkerStates], WakeConsumers
    PROVE  /\ wpc' \in [Workers -> WorkerStates]
           /\ \A w \in Workers : wpc'[w] # "fullWait"
BY DEF WakeConsumers, SignalAll, WorkerStates

(* Taking one element out of a set loses at most one.                      *)
LEMMA RemoveBound ==
    ASSUME NEW S, NEW x, IsFiniteSet(S)
    PROVE  /\ Cardinality(S \ {x}) \in Nat
           /\ Cardinality(S \ {x}) >= Cardinality(S) - 1
<1>1. Cardinality(S) \in Nat /\ Cardinality(S \ {x}) \in Nat
  BY FS_RemoveElement, FS_CardinalityType
<1>2. CASE x \in S
  <2>1. Cardinality(S \ {x}) = Cardinality(S) - 1
    BY <1>2, FS_RemoveElement
  <2> QED BY <1>1, <2>1
<1>3. CASE x \notin S
  <2>1. Cardinality(S \ {x}) = Cardinality(S)
    BY <1>3, FS_RemoveElement
  <2> QED BY <1>1, <2>1
<1> QED BY <1>2, <1>3

-----------------------------------------------------------------------------
(* The inductive invariant.                                                *)

(* At first nobody is inside the pool.                                     *)
LEMMA IInvInit == Init => IInv
<1> SUFFICES ASSUME Init PROVE IInv
  OBVIOUS
<1>1. queue \in Seq(Tasks) /\ Len(queue) <= QueueSize
  BY PoolAssumption DEF Init
<1>2. TypeOK
  BY <1>1 DEF Init, TypeOK, OwnerStates, WorkerStates, ProducerStates
<1>3. ArgHeld /\ NoAddDuringStop
  BY DEF Init, ArgHeld, NoAddDuringStop
<1> QED BY <1>2, <1>3 DEF IInv

(* The steps of the owner: only StopSignal has something to establish, and *)
(* its guard is the contract.                                              *)
LEMMA IInvOwner == IInv /\ Owner => IInv'
<1> USE DEF IInv, TypeOK, ArgHeld, NoAddDuringStop, Stopping
<1>1. ASSUME IInv, Start PROVE IInv'
  BY <1>1 DEF Start, OwnerStates, WorkerStates
<1>2. ASSUME IInv, StopSignal PROVE IInv'
  BY <1>2, WakeConsumersFacts DEF StopSignal, OwnerStates
<1>3. ASSUME IInv, Join PROVE IInv'
  BY <1>3 DEF Join, OwnerStates
<1>4. ASSUME IInv, ClearOne PROVE IInv'
  <2>1. /\ queue' \in Seq(Tasks)
        /\ Len(queue') <= QueueSize
    BY <1>4, TailFacts, PoolAssumption DEF ClearOne
  <2> QED BY <1>4, <2>1 DEF ClearOne
<1>5. ASSUME IInv, ClearThreads PROVE IInv'
  BY <1>5 DEF ClearThreads, OwnerStates, WorkerStates
<1> QED BY <1>1, <1>2, <1>3, <1>4, <1>5 DEF Owner

(* The steps of a producer: the capacity test of addTask is what bounds    *)
(* the queue.                                                              *)
LEMMA IInvProducer ==
    ASSUME IInv, NEW p \in Producers, Producer(p)
    PROVE  IInv'
<1> USE DEF IInv, TypeOK, ArgHeld, NoAddDuringStop, Stopping
<1>1. ASSUME NEW t \in Tasks, CallAdd(p, t) PROVE IInv'
  BY <1>1 DEF CallAdd, ProducerStates
<1>2. CASE Push(p)
  <2>1. arg[p] \in Tasks
    BY <1>2 DEF Push
  <2>2. /\ queue' \in Seq(Tasks)
        /\ Len(queue') <= QueueSize
    BY <1>2, <2>1, PoolAssumption DEF Push, Full
  <2>3. wpc' \in [Workers -> WorkerStates]
    BY <1>2, NotifyConsumerFacts DEF Push
  <2>4. /\ ppc' \in [Producers -> ProducerStates]
        /\ arg' \in [Producers -> Tasks \cup {NoTask}]
    BY <1>2 DEF Push, ProducerStates
  <2> QED BY <1>2, <2>2, <2>3, <2>4 DEF Push
<1>3. CASE WaitForSlot(p)
  BY <1>3 DEF WaitForSlot, ProducerStates
<1> QED BY <1>1, <1>2, <1>3 DEF Producer

(* The steps of a worker.                                                  *)
LEMMA IInvWorker ==
    ASSUME IInv, NEW w \in Workers, Worker(w)
    PROVE  IInv'
<1> USE DEF IInv, TypeOK, ArgHeld, NoAddDuringStop, Stopping
<1>1. CASE CheckStarted(w)
  BY <1>1 DEF CheckStarted, WorkerStates
<1>2. CASE WaitForTask(w)
  BY <1>2 DEF WaitForTask, WorkerStates
<1>3. CASE TakeTask(w)
  <2>1. /\ NextTask \in Tasks
        /\ queue' \in Seq(Tasks)
        /\ Len(queue') <= QueueSize
    BY <1>3, TailFacts, PoolAssumption DEF TakeTask, NextTask
  <2>2. /\ ppc' \in [Producers -> ProducerStates]
        /\ \A p \in Producers : ppc'[p] # "idle" => ppc[p] # "idle"
    BY <1>3, NotifyProducerFacts DEF TakeTask
  <2>3. /\ wpc' \in [Workers -> WorkerStates]
        /\ task' \in [Workers -> Tasks \cup {NoTask}]
    BY <1>3, <2>1 DEF TakeTask, WorkerStates
  <2> QED BY <1>3, <2>1, <2>2, <2>3 DEF TakeTask
<1>4. CASE TakeNothing(w)
  BY <1>4 DEF TakeNothing, WorkerStates
<1>5. CASE FinishTask(w)
  BY <1>5 DEF FinishTask, WorkerStates
<1> QED BY <1>1, <1>2, <1>3, <1>4, <1>5 DEF Worker

(* A spurious wakeup keeps IInv.                                           *)
LEMMA IInvSpurious == IInv /\ SpuriousWake => IInv'
<1> SUFFICES ASSUME IInv, SpuriousWake PROVE IInv'
  OBVIOUS
<1> USE DEF IInv, TypeOK, ArgHeld, NoAddDuringStop, Stopping
<1>1. ASSUME NEW w \in SleepingWorkers,
             wpc' = [wpc EXCEPT ![w] = "woken"],
             UNCHANGED <<queue, isStarted, owner, task, ppc, arg>>
      PROVE  IInv'
  BY <1>1 DEF SleepingWorkers, WorkerStates
<1>2. ASSUME NEW p \in SleepingProducers,
             ppc' = [ppc EXCEPT ![p] = "woken"],
             UNCHANGED <<queue, isStarted, owner, wpc, task, arg>>
      PROVE  IInv'
  BY <1>2 DEF SleepingProducers, ProducerStates
<1> QED BY <1>1, <1>2 DEF SpuriousWake

(* Every step keeps IInv.                                                  *)
LEMMA IInvNext == IInv /\ [Next]_vars => IInv'
<1>1. ASSUME IInv, UNCHANGED vars PROVE IInv'
  BY <1>1
     DEF vars, IInv, TypeOK, ArgHeld, NoAddDuringStop, Stopping
<1> QED
  BY <1>1, IInvOwner, IInvProducer, IInvWorker, IInvSpurious DEF Next

(* IInv is an invariant of the pool.                                       *)
LEMMA IInvAlways == Spec => []IInv
BY IInvInit, IInvNext, PTL DEF Spec

(* The queue never exceeds queueSize_ and every variable keeps its type.   *)
THEOREM TypeCorrect == Spec => []TypeOK
<1>1. IInv => TypeOK
  BY DEF IInv
<1> QED BY <1>1, IInvAlways, PTL

-----------------------------------------------------------------------------
(* No lost wakeup, consumers.                                              *)

(* Woken workers can be counted.                                           *)
LEMMA WokenWorkersFinite ==
    /\ IsFiniteSet(WokenWorkers)
    /\ Cardinality(WokenWorkers) \in Nat
BY PoolAssumption, FS_Subset, FS_CardinalityType DEF WokenWorkers

(* The signal of addTask either wakes one more worker or finds that nobody *)
(* sleeps.                                                                 *)
LEMMA NotifyConsumerWakes ==
    ASSUME wpc \in [Workers -> WorkerStates], NotifyConsumer
    PROVE  \/ SleepingWorkers' = {}
           \/ /\ SleepingWorkers # {}
              /\ Cardinality(WokenWorkers') = Cardinality(WokenWorkers) + 1
<1>1. CASE /\ \A x \in DOMAIN wpc : wpc[x] # "fullWait"
           /\ wpc' = wpc
  BY <1>1 DEF SleepingWorkers
<1>2. ASSUME NEW x \in Workers,
             wpc[x] = "fullWait",
             wpc' = [wpc EXCEPT ![x] = "woken"]
      PROVE  /\ SleepingWorkers # {}
             /\ Cardinality(WokenWorkers') = Cardinality(WokenWorkers) + 1
  <2>1. WokenWorkers' = WokenWorkers \cup {x} /\ x \notin WokenWorkers
    BY <1>2 DEF WokenWorkers
  <2>2. Cardinality(WokenWorkers \cup {x}) = Cardinality(WokenWorkers) + 1
    BY <2>1, WokenWorkersFinite, FS_AddElement
  <2> QED BY <1>2, <2>1, <2>2 DEF SleepingWorkers
<1> QED BY <1>1, <1>2, SignalOneEffect DEF NotifyConsumer

(* A step that leaves every waiter of full_ where it is, apart from one    *)
(* woken worker w that goes on.                                            *)
LEMMA WokenWorkerLeaves ==
    ASSUME wpc \in [Workers -> WorkerStates], NEW w \in Workers,
           NEW s \in WorkerStates \ {"fullWait", "woken"},
           wpc[w] # "fullWait",
           wpc' = [wpc EXCEPT ![w] = s]
    PROVE  /\ SleepingWorkers' = SleepingWorkers
           /\ Cardinality(WokenWorkers') \in Nat
           /\ Cardinality(WokenWorkers') >= Cardinality(WokenWorkers) - 1
           /\ wpc[w] # "woken" => WokenWorkers' = WokenWorkers
<1>1. SleepingWorkers' = SleepingWorkers
  BY DEF SleepingWorkers
<1>2. WokenWorkers' = WokenWorkers \ {w}
  BY DEF WokenWorkers
<1>3. /\ Cardinality(WokenWorkers \ {w}) \in Nat
      /\ Cardinality(WokenWorkers \ {w}) >= Cardinality(WokenWorkers) - 1
  BY WokenWorkersFinite, RemoveBound
<1>4. wpc[w] # "woken" => WokenWorkers' = WokenWorkers
  BY <1>2 DEF WokenWorkers
<1> QED BY <1>1, <1>2, <1>3, <1>4

(* At first there is neither a task nor a sleeper.                         *)
LEMMA NoTaskInit == Init => NoTaskBehindSleepers
BY DEF Init, NoTaskBehindSleepers, SleepingWorkers

(* start() and stop() leave no worker asleep.                              *)
LEMMA NoTaskOwner ==
    ASSUME IInv, NoTaskBehindSleepers, Owner
    PROVE  NoTaskBehindSleepers'
<1> USE DEF NoTaskBehindSleepers, IInv, TypeOK
<1>1. CASE Start \/ ClearThreads
  <2>1. SleepingWorkers' = {}
    BY <1>1 DEF Start, ClearThreads, SleepingWorkers
  <2> QED BY <2>1
<1>2. CASE StopSignal
  <2>1. SleepingWorkers' = {}
    BY <1>2, WakeConsumersFacts DEF StopSignal, SleepingWorkers
  <2> QED BY <2>1
<1>3. CASE Join
  BY <1>3 DEF Join, SleepingWorkers, WokenWorkers
<1>4. CASE ClearOne
  <2>1. Len(queue') = Len(queue) - 1 /\ Len(queue) \in Nat
    BY <1>4, TailFacts DEF ClearOne
  <2>2. SleepingWorkers' = SleepingWorkers /\ WokenWorkers' = WokenWorkers
    BY <1>4 DEF ClearOne, SleepingWorkers, WokenWorkers
  <2> QED BY <2>1, <2>2, WokenWorkersFinite
<1> QED BY <1>1, <1>2, <1>3, <1>4 DEF Owner

(* addTask pays for its task with its signal.                              *)
LEMMA NoTaskProducer ==
    ASSUME IInv, NoTaskBehindSleepers, NEW p \in Producers, Producer(p)
    PROVE  NoTaskBehindSleepers'
<1> USE DEF NoTaskBehindSleepers, IInv, TypeOK
<1>1. CASE (\E t \in Tasks : CallAdd(p, t)) \/ WaitForSlot(p)
  BY <1>1 DEF CallAdd, WaitForSlot, SleepingWorkers, WokenWorkers
<1>2. CASE Push(p)
  <2>1. Len(queue') = Len(queue) + 1 /\ Len(queue) \in Nat
    BY <1>2 DEF Push, ArgHeld
  <2>2. \/ SleepingWorkers' = {}
        \/ /\ SleepingWorkers # {}
           /\ Cardinality(WokenWorkers') = Cardinality(WokenWorkers) + 1
    BY <1>2, NotifyConsumerWakes DEF Push
  <2> QED BY <2>1, <2>2, WokenWorkersFinite
<1> QED BY <1>1, <1>2 DEF Producer

(* Only TakeTask uses up a woken worker, and it takes a task with it; a    *)
(* worker that goes to sleep, or back to its loop, saw the queue empty.    *)
LEMMA NoTaskWorker ==
    ASSUME IInv, NoTaskBehindSleepers, NEW w \in Workers, Worker(w)
    PROVE  NoTaskBehindSleepers'
<1> USE DEF NoTaskBehindSleepers, IInv, TypeOK
<1>1. CASE CheckStarted(w)
  <2>1. wpc[w] = "loop" /\ {"get", "exited"} \subseteq WorkerStates
    BY <1>1 DEF CheckStarted, WorkerStates
  <2>2. SleepingWorkers' = SleepingWorkers /\ WokenWorkers' = WokenWorkers
    <3>1. CASE wpc' = [wpc EXCEPT ![w] = "get"]
      BY <2>1, <3>1, WokenWorkerLeaves
    <3>2. CASE wpc' = [wpc EXCEPT ![w] = "exited"]
      BY <2>1, <3>2, WokenWorkerLeaves
    <3> QED BY <1>1, <3>1, <3>2 DEF CheckStarted
  <2> QED BY <1>1, <2>2 DEF CheckStarted
<1>2. CASE WaitForTask(w) \/ TakeNothing(w)
  <2>1. Len(queue') = 0
    BY <1>2 DEF WaitForTask, TakeNothing
  <2>2. wpc' \in [Workers -> WorkerStates]
    BY <1>2 DEF WaitForTask, TakeNothing, WorkerStates
  <2>3. Cardinality(WokenWorkers') \in Nat
    BY <2>2, PoolAssumption, FS_Subset, FS_CardinalityType DEF WokenWorkers
  <2> QED BY <2>1, <2>3
<1>3. CASE TakeTask(w)
  <2>1. Len(queue') = Len(queue) - 1 /\ Len(queue) \in Nat
    BY <1>3, TailFacts DEF TakeTask
  <2>2. /\ wpc[w] # "fullWait"
        /\ wpc' = [wpc EXCEPT ![w] = "run"]
        /\ "run" \in WorkerStates \ {"fullWait", "woken"}
    BY <1>3 DEF TakeTask, WorkerStates
  <2>3. /\ SleepingWorkers' = SleepingWorkers
        /\ Cardinality(WokenWorkers') \in Nat
        /\ Cardinality(WokenWorkers') >= Cardinality(WokenWorkers) - 1
    BY <2>2, WokenWorkerLeaves
  <2> QED BY <2>1, <2>3, WokenWorkersFinite
<1>4. CASE FinishTask(w)
  <2>1. /\ wpc[w] = "run"
        /\ wpc' = [wpc EXCEPT ![w] = "loop"]
        /\ "loop" \in WorkerStates \ {"fullWait", "woken"}
    BY <1>4 DEF FinishTask, WorkerStates
  <2>2. SleepingWorkers' = SleepingWorkers /\ WokenWorkers' = WokenWorkers
    BY <2>1, WokenWorkerLeaves
  <2> QED BY <1>4, <2>2 DEF FinishTask
<1> QED BY <1>1, <1>2, <1>3, <1>4 DEF Worker

(* A spurious wakeup only helps.                                           *)
LEMMA NoTaskSpurious ==
    ASSUME IInv, NoTaskBehindSleepers, SpuriousWake
    PROVE  NoTaskBehindSleepers'
<1> USE DEF NoTaskBehindSleepers, IInv, TypeOK
<1>1. ASSUME NEW w \in SleepingWorkers,
             wpc' = [wpc EXCEPT ![w] = "woken"],
             UNCHANGED <<queue, isStarted, owner, task, ppc, arg>>
      PROVE  NoTaskBehindSleepers'
  <2>1. WokenWorkers' = WokenWorkers \cup {w} /\ w \notin WokenWorkers
    BY <1>1 DEF WokenWorkers, SleepingWorkers
  <2>2. Cardinality(WokenWorkers \cup {w}) = Cardinality(WokenWorkers) + 1
    BY <2>1, WokenWorkersFinite, FS_AddElement
  <2> QED BY <1>1, <2>1, <2>2, WokenWorkersFinite
<1>2. ASSUME NEW p \in SleepingProducers,
             ppc' = [ppc EXCEPT ![p] = "woken"],
             UNCHANGED <<queue, isStarted, owner, wpc, task, arg>>
      PROVE  NoTaskBehindSleepers'
  BY <1>2 DEF SleepingWorkers, WokenWorkers
<1> QED BY <1>1, <1>2 DEF SpuriousWake

(* No task waits behind a sleeping worker (getTask and addTask never lose  *)
(* a wakeup between them), however many workers and producers there are.   *)
THEOREM NoLostConsumerWakeup == Spec => []NoTaskBehindSleepers
<1>1. IInv /\ NoTaskBehindSleepers /\ [Next]_vars => NoTaskBehindSleepers'
  <2> SUFFICES ASSUME IInv, NoTaskBehindSleepers, [Next]_vars
               PROVE  NoTaskBehindSleepers'
    OBVIOUS
  <2>1. CASE UNCHANGED vars
    BY <2>1 DEF vars, NoTaskBehindSleepers, SleepingWorkers, WokenWorkers
  <2> QED
    BY <2>1, NoTaskOwner, NoTaskProducer, NoTaskWorker, NoTaskSpurious
       DEF Next
<1> QED BY <1>1, NoTaskInit, IInvAlways, PTL DEF Spec

-----------------------------------------------------------------------------
(* No lost wakeup, producers.                                              *)

(* Woken producers can be counted.                                         *)
LEMMA WokenProducersFinite ==
    /\ IsFiniteSet(WokenProducers)
    /\ Cardinality(WokenProducers) \in Nat
BY PoolAssumption, FS_Subset, FS_CardinalityType DEF WokenProducers

(* The signal of getTask either wakes one more producer or finds that      *)
(* nobody sleeps.                                                          *)
LEMMA NotifyProducerWakes ==
    ASSUME ppc \in [Producers -> ProducerStates], NotifyProducer
    PROVE  \/ SleepingProducers' = {}
           \/ /\ SleepingProducers # {}
              /\ Cardinality(WokenProducers') = Cardinality(WokenProducers) + 1
<1>1. CASE /\ \A x \in DOMAIN ppc : ppc[x] # "emptyWait"
           /\ ppc' = ppc
  BY <1>1 DEF SleepingProducers
<1>2. ASSUME NEW x \in Producers,
             ppc[x] = "emptyWait",
             ppc' = [ppc EXCEPT ![x] = "woken"]
      PROVE  /\ SleepingProducers # {}
             /\ Cardinality(WokenProducers') = Cardinality(WokenProducers) + 1
  <2>1. WokenProducers' = WokenProducers \cup {x} /\ x \notin WokenProducers
    BY <1>2 DEF WokenProducers
  <2>2. Cardinality(WokenProducers \cup {x}) = Cardinality(WokenProducers) + 1
    BY <2>1, WokenProducersFinite, FS_AddElement
  <2> QED BY <1>2, <2>1, <2>2 DEF SleepingProducers
<1> QED BY <1>1, <1>2, SignalOneEffect DEF NotifyProducer

(* A step that does not touch the producers and takes nothing from the     *)
(* queue keeps the invariant.                                              *)
LEMMA NoSlotUntouched ==
    ASSUME IInv, NoSlotBehindSleepers, ppc' = ppc,
           Len(queue') \in Nat, Len(queue') >= Len(queue)
    PROVE  NoSlotBehindSleepers'
<1>1. SleepingProducers' = SleepingProducers /\ WokenProducers' = WokenProducers
  BY DEF SleepingProducers, WokenProducers
<1>2. Len(queue) \in Nat
  BY DEF IInv, TypeOK
<1> QED
  BY <1>1, <1>2, WokenProducersFinite, PoolAssumption DEF NoSlotBehindSleepers

(* While stop() runs nobody sleeps in empty_.wait(): that is why the slots *)
(* its loop frees need no signal.                                          *)
LEMMA NoSlotOwner ==
    ASSUME IInv, NoSlotBehindSleepers, Owner
    PROVE  NoSlotBehindSleepers'
<1>1. CASE Start \/ StopSignal \/ Join \/ ClearThreads
  <2>1. ppc' = ppc /\ queue' = queue /\ Len(queue) \in Nat
    BY <1>1 DEF Start, StopSignal, Join, ClearThreads, IInv, TypeOK
  <2> QED BY <2>1, NoSlotUntouched
<1>2. CASE ClearOne
  <2>1. SleepingProducers' = {}
    BY <1>2
       DEF ClearOne, SleepingProducers, IInv, NoAddDuringStop, Stopping
  <2> QED BY <2>1 DEF NoSlotBehindSleepers
<1> QED BY <1>1, <1>2 DEF Owner

(* Only Push uses up a woken producer, and it fills a slot with it; a      *)
(* producer that goes to sleep saw no slot.                                *)
LEMMA NoSlotProducer ==
    ASSUME IInv, NoSlotBehindSleepers, NEW p \in Producers, Producer(p)
    PROVE  NoSlotBehindSleepers'
<1> USE DEF IInv, TypeOK
<1>1. ASSUME NEW t \in Tasks, CallAdd(p, t) PROVE NoSlotBehindSleepers'
  <2>1. SleepingProducers' = SleepingProducers /\ WokenProducers' = WokenProducers
    BY <1>1 DEF CallAdd, SleepingProducers, WokenProducers
  <2> QED BY <1>1, <2>1 DEF CallAdd, NoSlotBehindSleepers
<1>2. CASE Push(p)
  <2>1. Len(queue') = Len(queue) + 1 /\ Len(queue) \in Nat
    BY <1>2 DEF Push, ArgHeld
  <2>2. /\ SleepingProducers' = SleepingProducers
        /\ WokenProducers' = WokenProducers \ {p}
    BY <1>2 DEF Push, SleepingProducers, WokenProducers
  <2>3. /\ Cardinality(WokenProducers \ {p}) \in Nat
        /\ Cardinality(WokenProducers \ {p}) >= Cardinality(WokenProducers) - 1
    BY WokenProducersFinite, RemoveBound
  <2> QED
    BY <2>1, <2>2, <2>3, WokenProducersFinite, PoolAssumption
       DEF NoSlotBehindSleepers
<1>3. CASE WaitForSlot(p)
  <2>1. QueueSize - Len(queue') <= 0 /\ Len(queue') \in Nat
    BY <1>3, PoolAssumption DEF WaitForSlot, Full
  <2>2. ppc' \in [Producers -> ProducerStates]
    BY <1>3 DEF WaitForSlot, ProducerStates
  <2>3. Cardinality(WokenProducers') \in Nat
    BY <2>2, PoolAssumption, FS_Subset, FS_CardinalityType DEF WokenProducers
  <2> QED BY <2>1, <2>3, PoolAssumption DEF NoSlotBehindSleepers
<1> QED BY <1>1, <1>2, <1>3 DEF Producer

(* getTask pays for its slot with its signal.                              *)
LEMMA NoSlotWorker ==
    ASSUME IInv, NoSlotBehindSleepers, NEW w \in Workers, Worker(w)
    PROVE  NoSlotBehindSleepers'
<1> USE DEF IInv, TypeOK
<1>1. CASE CheckStarted(w) \/ WaitForTask(w) \/ TakeNothing(w) \/ FinishTask(w)
  <2>1. ppc' = ppc /\ queue' = queue /\ Len(queue) \in Nat
    BY <1>1 DEF CheckStarted, WaitForTask, TakeNothing, FinishTask
  <2> QED BY <2>1, NoSlotUntouched
<1>2. CASE TakeTask(w)
  <2>1. Len(queue') = Len(queue) - 1 /\ Len(queue) \in Nat
    BY <1>2, TailFacts DEF TakeTask
  <2>2. \/ SleepingProducers' = {}
        \/ /\ SleepingProducers # {}
           /\ Cardinality(WokenProducers') = Cardinality(WokenProducers) + 1
    BY <1>2, NotifyProducerWakes DEF TakeTask
  <2> QED
    BY <2>1, <2>2, WokenProducersFinite, PoolAssumption
       DEF NoSlotBehindSleepers
<1> QED BY <1>1, <1>2 DEF Worker

(* A spurious wakeup only helps.                                           *)
LEMMA NoSlotSpurious ==
    ASSUME IInv, NoSlotBehindSleepers, SpuriousWake
    PROVE  NoSlotBehindSleepers'
<1> USE DEF IInv, TypeOK
<1>1. ASSUME NEW w \in SleepingWorkers,
             UNCHANGED <<queue, isStarted, owner, task, ppc, arg>>
      PROVE  NoSlotBehindSleepers'
  BY <1>1, NoSlotUntouched
<1>2. ASSUME NEW p \in SleepingProducers,
             ppc' = [ppc EXCEPT ![p] = "woken"],
             UNCHANGED <<queue, isStarted, owner, wpc, task, arg>>
      PROVE  NoSlotBehindSleepers'
  <2>1. WokenProducers' = WokenProducers \cup {p} /\ p \notin WokenProducers
    BY <1>2 DEF WokenProducers, SleepingProducers
  <2>2. Cardinality(WokenProducers \cup {p}) = Cardinality(WokenProducers) + 1
    BY <2>1, WokenProducersFinite, FS_AddElement
  <2> QED
    BY <1>2, <2>1, <2>2, WokenProducersFinite, PoolAssumption
       DEF NoSlotBehindSleepers
<1> QED BY <1>1, <1>2 DEF SpuriousWake

(* No slot stays free behind a sleeping producer (addTask and getTask      *)
(* never lose the wakeup of a blocked addTask), at any capacity.           *)
THEOREM NoLostProducerWakeup == Spec => []NoSlotBehindSleepers
<1>1. Init => NoSlotBehindSleepers
  BY DEF Init, NoSlotBehindSleepers, SleepingProducers
<1>2. IInv /\ NoSlotBehindSleepers /\ [Next]_vars => NoSlotBehindSleepers'
  <2> SUFFICES ASSUME IInv, NoSlotBehindSleepers, [Next]_vars
               PROVE  NoSlotBehindSleepers'
    OBVIOUS
  <2>1. CASE UNCHANGED vars
    BY <2>1 DEF vars, NoSlotBehindSleepers, SleepingProducers, WokenProducers
  <2> QED
    BY <2>1, NoSlotOwner, NoSlotProducer, NoSlotWorker, NoSlotSpurious
       DEF Next
<1> QED BY <1>1, <1>2, IInvAlways, PTL DEF Spec

-----------------------------------------------------------------------------
(* The refinement of TaskDispatch.                                         *)

\* A producer holds a closure inside addTask only, a worker while it runs.
HolderStates ==
    /\ \A p \in Producers : ppc[p] = "idle" => arg[p] = NoTask
    /\ \A w \in Workers : wpc[w] = "run" <=> task[w] # NoTask

\* Before start() there are no threads, behind join() all have left.
ThreadsOfOwner ==
    /\ owner \in {"new", "stopped"} => \A w \in Workers : wpc[w] = "none"
    /\ owner = "clearing" => \A w \in Workers : wpc[w] = "exited"

ArgApart ==
    \A p \in Producers : arg[p] # NoTask =>
        /\ arg[p] \notin Elems(queue)
        /\ \A q \in Producers : arg[q] = arg[p] => q = p
        /\ \A w \in Workers : task[w] # arg[p]

TaskApart ==
    \A w \in Workers : task[w] # NoTask =>
        /\ task[w] \notin Elems(queue)
        /\ \A v \in Workers : task[v] = task[w] => v = w

OneHolder == Distinct(queue) /\ ArgApart /\ TaskApart

HInv == HolderStates /\ ThreadsOfOwner /\ OneHolder

-----------------------------------------------------------------------------
(* HInv is inductive relative to IInv.                                     *)

(* At first nobody holds a closure.                                        *)
LEMMA HInvInit == Init => HInv
<1> SUFFICES ASSUME Init PROVE HInv
  OBVIOUS
<1>1. HolderStates /\ ThreadsOfOwner
  BY DEF Init, HolderStates, ThreadsOfOwner
<1>2. Distinct(queue)
  BY DEF Init, Distinct
<1>3. ArgApart /\ TaskApart
  BY DEF Init, ArgApart, TaskApart
<1> QED BY <1>1, <1>2, <1>3 DEF HInv, OneHolder

(* start() and stop(): no closure moves but those stop() drops from the    *)
(* queue.                                                                  *)
LEMMA HInvOwner ==
    ASSUME IInv, HInv, Owner
    PROVE  HInv'
<1> USE DEF HInv, IInv, TypeOK, HolderStates, ThreadsOfOwner
<1>1. CASE Start
  <2>1. OneHolder'
    BY <1>1 DEF Start, OneHolder, Distinct, ArgApart, TaskApart, Elems
  <2> QED BY <1>1, <2>1 DEF Start
<1>2. CASE StopSignal
  <2>1. OneHolder'
    BY <1>2 DEF StopSignal, OneHolder, Distinct, ArgApart, TaskApart, Elems
  <2>2. \A w \in Workers : wpc'[w] = "run" <=> wpc[w] = "run"
    BY <1>2 DEF StopSignal, WakeConsumers, SignalAll
  <2> QED BY <1>2, <2>1, <2>2 DEF StopSignal, Running
<1>3. CASE Join
  <2>1. OneHolder'
    BY <1>3 DEF Join, OneHolder, Distinct, ArgApart, TaskApart, Elems
  <2> QED BY <1>3, <2>1 DEF Join
<1>4. CASE ClearOne
  <2>1. /\ Distinct(queue')
        /\ Elems(queue') \subseteq Elems(queue)
    BY <1>4, TailElems DEF ClearOne, OneHolder
  <2>2. OneHolder'
    BY <1>4, <2>1 DEF ClearOne, OneHolder, ArgApart, TaskApart
  <2> QED BY <1>4, <2>2 DEF ClearOne
<1>5. CASE ClearThreads
  <2>1. OneHolder'
    BY <1>5 DEF ClearThreads, OneHolder, Distinct, ArgApart, TaskApart, Elems
  <2> QED BY <1>5, <2>1 DEF ClearThreads
<1> QED BY <1>1, <1>2, <1>3, <1>4, <1>5 DEF Owner

(* A signal moves no worker into or out of "run", "none" and "exited".     *)
LEMMA NotifyConsumerKeeps ==
    ASSUME wpc \in [Workers -> WorkerStates], NotifyConsumer, NEW w \in Workers
    PROVE  \/ wpc'[w] = wpc[w]
           \/ wpc[w] = "fullWait" /\ wpc'[w] = "woken"
BY SignalOneEffect DEF NotifyConsumer

(* The signal for producers moves a sleeper and nobody else.               *)
LEMMA NotifyProducerKeeps ==
    ASSUME ppc \in [Producers -> ProducerStates], NotifyProducer,
           NEW p \in Producers
    PROVE  \/ ppc'[p] = ppc[p]
           \/ ppc[p] = "emptyWait" /\ ppc'[p] = "woken"
BY SignalOneEffect DEF NotifyProducer

(* addTask: a closure enters with one producer, and Push moves it from     *)
(* there to the queue.                                                     *)
LEMMA HInvProducer ==
    ASSUME IInv, HInv, NEW p \in Producers, Producer(p)
    PROVE  HInv'
<1> USE DEF HInv, IInv, TypeOK, HolderStates, ThreadsOfOwner
<1>1. ASSUME NEW t \in Tasks, CallAdd(p, t) PROVE HInv'
  <2>1. /\ t \notin Elems(queue)
        /\ \A w \in Workers : task[w] # t
        /\ \A q \in Producers : arg[q] # t
    BY <1>1 DEF CallAdd, Queued, Held, Elems
  <2>2. OneHolder'
    BY <1>1, <2>1 DEF CallAdd, OneHolder, Distinct, ArgApart, TaskApart, Elems
  <2> QED BY <1>1, <2>2 DEF CallAdd
<1>2. CASE Push(p)
  <2>1. arg[p] \in Tasks /\ arg[p] # NoTask
    BY <1>2, PoolAssumption DEF Push, ArgHeld
  <2>2. /\ Elems(queue') = Elems(queue) \cup {arg[p]}
        /\ Distinct(queue')
    BY <1>2, <2>1, AppendElems DEF Push, OneHolder, ArgApart
  <2>3. OneHolder'
    BY <1>2, <2>1, <2>2 DEF Push, OneHolder, ArgApart, TaskApart
  <2>4. ThreadsOfOwner'
    BY <1>2, NotifyConsumerKeeps DEF Push
  <2>5. HolderStates'
    BY <1>2, NotifyConsumerKeeps DEF Push
  <2> QED BY <2>3, <2>4, <2>5
<1>3. CASE WaitForSlot(p)
  <2>1. OneHolder'
    BY <1>3 DEF WaitForSlot, OneHolder, Distinct, ArgApart, TaskApart, Elems
  <2> QED BY <1>3, <2>1 DEF WaitForSlot
<1> QED BY <1>1, <1>2, <1>3 DEF Producer

(* getTask: TakeTask moves the head of the queue to one worker.            *)
LEMMA HInvWorker ==
    ASSUME IInv, HInv, NEW w \in Workers, Worker(w)
    PROVE  HInv'
<1> USE DEF HInv, IInv, TypeOK, HolderStates, ThreadsOfOwner
<1>1. CASE CheckStarted(w) \/ WaitForTask(w) \/ TakeNothing(w)
  <2>1. OneHolder'
    BY <1>1 DEF CheckStarted, WaitForTask, TakeNothing, OneHolder, Distinct,
                ArgApart, TaskApart, Elems
  <2> QED BY <1>1, <2>1 DEF CheckStarted, WaitForTask, TakeNothing
<1>2. CASE TakeTask(w)
  <2>1. /\ NextTask \in Elems(queue)
        /\ Elems(queue') = Elems(queue) \ {NextTask}
        /\ Distinct(queue')
    BY <1>2, TailElems DEF TakeTask, NextTask, OneHolder
  <2>2. NextTask \in Tasks /\ NextTask # NoTask
    BY <1>2, TailFacts, PoolAssumption DEF TakeTask, NextTask
  <2>3. \A p \in Producers : arg[p] # NextTask
    BY <2>1, <2>2 DEF OneHolder, ArgApart
  <2>4. \A v \in Workers : task[v] # NextTask
    BY <2>1, <2>2 DEF OneHolder, TaskApart
  <2>5. OneHolder'
    BY <1>2, <2>1, <2>2, <2>3, <2>4 DEF TakeTask, OneHolder, ArgApart, TaskApart
  <2>6. HolderStates'
    BY <1>2, <2>2, NotifyProducerKeeps DEF TakeTask
  <2>7. ThreadsOfOwner'
    BY <1>2 DEF TakeTask
  <2> QED BY <2>5, <2>6, <2>7
<1>3. CASE FinishTask(w)
  <2>1. OneHolder'
    BY <1>3 DEF FinishTask, OneHolder, Distinct, ArgApart, TaskApart, Elems
  <2> QED BY <1>3, <2>1 DEF FinishTask
<1> QED BY <1>1, <1>2, <1>3 DEF Worker

(* A spurious wakeup moves no closure.                                     *)
LEMMA HInvSpurious ==
    ASSUME IInv, HInv, SpuriousWake
    PROVE  HInv'
<1> USE DEF HInv, IInv, TypeOK, HolderStates, ThreadsOfOwner
<1>1. OneHolder'
  BY DEF SpuriousWake, OneHolder, Distinct, ArgApart, TaskApart, Elems
<1>2. HolderStates' /\ ThreadsOfOwner'
  BY DEF SpuriousWake, SleepingWorkers, SleepingProducers
<1> QED BY <1>1, <1>2

(* Every step keeps HInv where IInv holds.                                 *)
LEMMA HInvNext == IInv /\ HInv /\ [Next]_vars => HInv'
<1> SUFFICES ASSUME IInv, HInv, [Next]_vars PROVE HInv'
  OBVIOUS
<1>1. CASE UNCHANGED vars
  BY <1>1 DEF vars, HInv, HolderStates, ThreadsOfOwner, OneHolder, Distinct,
              ArgApart, TaskApart, Elems
<1> QED BY <1>1, HInvOwner, HInvProducer, HInvWorker, HInvSpurious DEF Next

(* Both are invariants of the pool.                                        *)
LEMMA HInvAlways == Spec => [](IInv /\ HInv)
BY HInvInit, HInvNext, IInvAlways, PTL DEF Spec

-----------------------------------------------------------------------------
(* The steps of the pool as steps of the dispatcher.                       *)

RunSet == {task[w] : w \in Workers} \ {NoTask}

(* Nobody but a producer in Push adds to the queue, and it submits.        *)
LEMMA PushSubmits ==
    ASSUME IInv, HInv, NEW p \in Producers, Push(p)
    PROVE  \E t \in Tasks : Dispatcher!Submit(t)
<1>1. arg[p] \in Tasks /\ arg[p] # NoTask
  BY PoolAssumption DEF Push, IInv, TypeOK, ArgHeld
<1>2. arg[p] \notin Dispatcher!PendingSet \cup RunSet
  BY <1>1 DEF HInv, OneHolder, ArgApart, Elems, Dispatcher!PendingSet, RunSet
<1>3. Len(queue) < QueueSize
  BY PoolAssumption DEF Push, Full, IInv, TypeOK
<1> QED BY <1>1, <1>2, <1>3 DEF Push, Dispatcher!Submit, RunSet

(* A free worker means that fewer closures run than there are workers.     *)
LEMMA FreeWorker ==
    ASSUME IInv, NEW w \in Workers, task[w] = NoTask
    PROVE  Cardinality(RunSet) < Cardinality(Workers)
<1> DEFINE others == Workers \ {w}
<1>1. /\ IsFiniteSet(others)
      /\ Cardinality(others) = Cardinality(Workers) - 1
      /\ Cardinality(Workers) \in Nat /\ Cardinality(others) \in Nat
  BY PoolAssumption, FS_RemoveElement, FS_CardinalityType
<1>2. /\ IsFiniteSet({task[v] : v \in others})
      /\ Cardinality({task[v] : v \in others}) <= Cardinality(others)
  <2> DEFINE f == [v \in others |-> task[v]]
  <2>1. f \in Surjection(others, {task[v] : v \in others})
    BY DEF Surjection
  <2> QED BY <1>1, <2>1, FS_Surjection
<1>3. RunSet \subseteq {task[v] : v \in others}
  BY DEF RunSet
<1>4. /\ Cardinality(RunSet) <= Cardinality({task[v] : v \in others})
      /\ Cardinality(RunSet) \in Nat
      /\ Cardinality({task[v] : v \in others}) \in Nat
  BY <1>2, <1>3, FS_Subset, FS_CardinalityType
<1> QED BY <1>1, <1>2, <1>4

(* TaskDispatch counts with its own instance of Cardinality.               *)
LEMMA SameCardinality ==
    ASSUME NEW S
    PROVE  Dispatcher!Cardinality(S) = Cardinality(S)
BY DEF Cardinality, Dispatcher!Cardinality

(* A worker that takes the head of the queue dispatches it.                *)
LEMMA TakeDispatches ==
    ASSUME IInv, HInv, NEW w \in Workers, TakeTask(w)
    PROVE  Dispatcher!Dispatch
<1>1. task[w] = NoTask /\ wpc[w] # "run"
  BY DEF TakeTask, HInv, HolderStates
<1>2. NextTask \in Tasks /\ NextTask # NoTask
  BY TailFacts, PoolAssumption DEF TakeTask, NextTask, IInv, TypeOK
<1>3. task' = [task EXCEPT ![w] = NextTask] /\ task \in [Workers -> Tasks \cup {NoTask}]
  BY DEF TakeTask, IInv, TypeOK
<1>4. RunSet' = RunSet \cup {NextTask}
  BY <1>1, <1>2, <1>3 DEF RunSet
<1>5. Dispatcher!Cardinality(RunSet) < Cardinality(Workers)
  BY <1>1, FreeWorker, SameCardinality
<1> QED
  BY <1>4, <1>5 DEF TakeTask, NextTask, RunSet, Dispatcher!Dispatch

(* A worker that is done with its task finishes it, and no other runs the  *)
(* same.                                                                   *)
LEMMA FinishFinishes ==
    ASSUME IInv, HInv, NEW w \in Workers, FinishTask(w)
    PROVE  \E t \in Tasks : Dispatcher!Finish(t)
<1>1. task[w] \in Tasks /\ task[w] # NoTask
  BY DEF FinishTask, HInv, HolderStates, IInv, TypeOK
<1>2. /\ task' = [task EXCEPT ![w] = NoTask]
      /\ task \in [Workers -> Tasks \cup {NoTask}]
      /\ \A v \in Workers : task[v] = task[w] => v = w
  BY <1>1 DEF FinishTask, IInv, TypeOK, HInv, OneHolder, TaskApart
<1>3. task[w] \in RunSet /\ RunSet' = RunSet \ {task[w]}
  BY <1>1, <1>2 DEF RunSet
<1> QED BY <1>1, <1>3 DEF FinishTask, RunSet, Dispatcher!Finish

(* stop() drops tasks only behind join(), when no worker holds one.        *)
LEMMA ClearDiscards ==
    ASSUME IInv, HInv, ClearOne
    PROVE  Dispatcher!Discard
<1>1. \A w \in Workers : task[w] = NoTask
  BY DEF ClearOne, HInv, HolderStates, ThreadsOfOwner
<1>2. RunSet = {}
  BY <1>1 DEF RunSet
<1> QED BY <1>2 DEF ClearOne, RunSet, Dispatcher!Discard

(* Every step of the pool is a step of the dispatcher or none.             *)
LEMMA StepSimulates ==
    ASSUME IInv, HInv, [Next]_vars
    PROVE  [Dispatcher!DNext]_(Dispatcher!dvars)
<1> USE DEF Dispatcher!DNext, Dispatcher!dvars
<1>1. CASE UNCHANGED <<queue, task>>
  BY <1>1
<1>2. ASSUME NEW p \in Producers, Push(p) PROVE Dispatcher!DNext
  BY <1>2, PushSubmits
<1>3. ASSUME NEW w \in Workers, TakeTask(w) PROVE Dispatcher!DNext
  BY <1>3, TakeDispatches
<1>4. ASSUME NEW w \in Workers, FinishTask(w) PROVE Dispatcher!DNext
  BY <1>4, FinishFinishes
<1>5. CASE ClearOne
  BY <1>5, ClearDiscards
<1>6. CASE Owner
  <2>1. ClearOne \/ UNCHANGED <<queue, task>>
    BY <1>6 DEF Owner, Start, StopSignal, Join, ClearThreads
  <2> QED BY <1>1, <1>5, <2>1
<1>7. ASSUME NEW p \in Producers, Producer(p)
      PROVE  Push(p) \/ UNCHANGED <<queue, task>>
  BY <1>7 DEF Producer, CallAdd, WaitForSlot
<1>8. ASSUME NEW w \in Workers, Worker(w)
      PROVE  TakeTask(w) \/ FinishTask(w) \/ UNCHANGED <<queue, task>>
  BY <1>8 DEF Worker, CheckStarted, WaitForTask, TakeNothing
<1>9. CASE SpuriousWake \/ UNCHANGED vars
  <2>1. UNCHANGED <<queue, task>>
    BY <1>9 DEF SpuriousWake, vars
  <2> QED BY <1>1, <2>1
<1> QED BY <1>1, <1>2, <1>3, <1>4, <1>6, <1>7, <1>8, <1>9 DEF Next

(* Every behaviour of the pool is one of the bounded FIFO dispatcher:      *)
(* tasks start in the order addTask accepted them, each at most once at a  *)
(* time and on a worker of its own, and stop() discards only what nobody   *)
(* runs.                                                                   *)
THEOREM PoolImplementsDispatcher == Spec => ImplementsDispatcher
<1>1. Init => Dispatcher!DInit
  BY DEF Init, Dispatcher!DInit
<1>2. IInv /\ HInv /\ [Next]_vars => [Dispatcher!DNext]_(Dispatcher!dvars)
  BY StepSimulates
<1> QED
  BY <1>1, <1>2, HInvAlways, PTL
     DEF Spec, ImplementsDispatcher, Dispatcher!DSpec

=============================================================================
