---------------------------- MODULE CacheManager ----------------------------
(***************************************************************************)
(* The two caches of src/MyCacheManager.cc: the workers look words up in   *)
(* the slave and put every answer into the master; a timer thread (Two)    *)
(* copies the master to the slave, another (One) writes the slave to the   *)
(* cache file.  The process may be killed and started again.               *)
(*                                                                         *)
(* The callbacks exclude each other by mutex_ of CacheManager, the puts    *)
(* exclude each other by cache_mutex_ of Server (src/MyServer.cc), lookups *)
(* take no lock at all.  So a copy walks the list of the master node by    *)
(* node while puts move the nodes, and a lookup can meet a slave that is   *)
(* being rebuilt.  Both are data races:                                    *)
(*  - the copy reads the node it has reached three times, key, answer and  *)
(*    key again, and goes on from it wherever a put has moved it (a put    *)
(*    frees a node and allocates the next one from the same thread, which  *)
(*    hands out the same block: see FreeId);                               *)
(*  - a lookup during a copy may miss, or return any answer;               *)
(*  - either may kill the process, which Crash covers.                     *)
(***************************************************************************)
EXTENDS TimerThread, LruCacheOps

CONSTANTS One, Two,    \* timer_one_ and timer_two_
          Frequence,   \* updateFrequence
          Workers,     \* the threads that run Server::compute
          Keys,        \* the words clients ask for
          Answer,      \* what the dictionary answers to each
          MaxSize,     \* maxSize_
          FirstFiles,  \* what the cache file may hold at first
          Counted,     \* which of "query", "crash" and "open" are bounded
          MaxEvents,   \* bound: queries, crashes and failures to open
          MaxCopy      \* bound: nodes of a copy that puts may still disturb

ASSUME ManagerAssumption ==
    /\ One # Two
    /\ {One, Two} \cap {"free", "owner"} = {}
    /\ Timers = {One, Two}
    /\ Frequence \in Nat
    /\ Interval = [t \in Timers |->
                      IF t = One THEN Frequence ELSE Frequence \div 3]
    /\ MaxSize \in Nat \ {0}
    /\ MaxCopy \in Nat
    /\ \A f \in FirstFiles : f \in Seq(Range(f))

VARIABLES master,    \* master_global_cache_
          slave,     \* slave_global_cache_
          file,      \* the lines of the cache file
          mutex,     \* the holder of mutex_, or "free"
          opc,       \* where the owner is, in start() or stop()
          target,    \* the timer stop() is cancelling
          cursor,    \* iter of copyLruCache: a node, 0 at the end
          job,       \* per worker: the answer it has sent and not yet put
          events,    \* how many events there were, for the bound
          copied,    \* history: the lines of the last complete slave
          crossed,   \* history: words put under the cursor of this copy
          saving,    \* history: the lines the last write set out to write
          torn       \* history: whether the process died in that write

cvars == <<master, slave, file, mutex, opc, target, cursor, job>>
history == <<copied, crossed, saving, torn>>
vars == <<tvars, cvars, events, history>>

NoJob == <<>>
Vals == {Answer[k] : k \in Keys}

\* tpc takes more values, of a callback that holds mutex_: the copy is about
\* to test its iterator and to copy a key, to copy the answer, to make the map
\* entry, or to advance the iterator.
CopyStates == {"copy", "val", "map", "next"}
CallbackStates == {"write"} \cup CopyStates
Writing == tpc[One] = "write"
Copying == tpc[Two] \in CopyStates

OwnerStates ==
    {"new", "spawnOne", "spawnTwo", "started", "stopping", "disarm", "lower",
     "join", "stopped"}

TypeOK ==
    /\ TTypeOK
    /\ tpc \in [Timers -> TimerStates \cup CallbackStates]
    /\ mutex \in {"free", "owner"} \cup Timers
    /\ mutex = One <=> Writing
    /\ mutex = Two <=> Copying
    /\ opc \in OwnerStates
    /\ target \in Timers

Init ==
    /\ TInit
    /\ master = EmptyCache
    /\ slave = EmptyCache
    /\ file \in FirstFiles
    /\ mutex = "free"
    /\ opc = "new"
    /\ target = One
    /\ cursor = 0
    /\ job = [w \in Workers |-> NoJob]
    /\ events = 0
    /\ copied = <<>>
    /\ crossed = {}
    /\ saving = file
    /\ torn = FALSE

-----------------------------------------------------------------------------
(* Mutants: a callback that does not lock mutex_, and a copy whose loop    *)
(* ends at the last node instead of after it.                              *)
NoLock(t) == mutex' = t
AfterLast(list, i) == IF i >= Len(list) - 1 THEN 0 ELSE list[i + 1].id

Event(kind) ==
    IF kind \in Counted THEN events < MaxEvents /\ events' = events + 1
    ELSE UNCHANGED events

Lock(t) == mutex = "free" /\ mutex' = t
FirstOf(list) == IF list = <<>> THEN 0 ELSE list[1].id
After(list, i) == IF i = Len(list) THEN 0 ELSE list[i + 1].id
Here == NodeAt(master, cursor)

-----------------------------------------------------------------------------
(* start()                                                                 *)

\* readCacheFile leaves the cache alone when the file cannot be opened.
ReadCacheFile(c, opened) == IF opened THEN ReadLines(c, file) ELSE c

\* Each cache opens the file anew.
Load ==
    /\ opc = "new"
    /\ \E first, second \in BOOLEAN :
          /\ master' = ReadCacheFile(master, first)
          /\ slave' = ReadCacheFile(slave, second)
          /\ IF first /\ second THEN UNCHANGED events ELSE Event("open")
    /\ copied' = WriteLines(slave')
    /\ opc' = "spawnOne"
    /\ UNCHANGED <<tvars, file, mutex, target, cursor, job, crossed, saving,
                   torn>>

Spawn(t) ==
    /\ \/ opc = "spawnOne" /\ t = One /\ opc' = "spawnTwo"
       \/ opc = "spawnTwo" /\ t = Two /\ opc' = "started"
    /\ StartTimerThread(t)
    /\ UNCHANGED <<master, slave, file, mutex, target, cursor, job, events,
                   history>>

-----------------------------------------------------------------------------
(* stop(), called when the pool has been stopped (~Server).                *)

CallStop ==
    /\ opc = "started"
    /\ \A w \in Workers : job[w] = NoJob
    /\ opc' = "stopping"
    /\ UNCHANGED <<tvars, master, slave, file, mutex, target, cursor, job,
                   events, history>>

LockStop ==
    /\ opc = "stopping"
    /\ mutex = "free"
    /\ mutex' = "owner"
    /\ target' = One
    /\ opc' = "disarm"
    /\ UNCHANGED <<tvars, master, slave, file, cursor, job, events, history>>

CancelDisarm ==
    /\ opc = "disarm"
    /\ Disarm(target)
    /\ opc' = "lower"
    /\ UNCHANGED <<master, slave, file, mutex, target, cursor, job, events,
                   history>>

CancelLower ==
    /\ opc = "lower"
    /\ LowerFlag(target)
    /\ opc' = "join"
    /\ UNCHANGED <<master, slave, file, mutex, target, cursor, job, events,
                   history>>

\* After the second join stop() returns, and mutex_ is released.
CancelJoin ==
    /\ opc = "join"
    /\ Exited(target)
    /\ \/ /\ target = One
          /\ target' = Two
          /\ opc' = "disarm"
          /\ UNCHANGED mutex
       \/ /\ target = Two
          /\ opc' = "stopped"
          /\ mutex' = "free"
          /\ UNCHANGED target
    /\ UNCHANGED <<tvars, master, slave, file, cursor, job, events, history>>

-----------------------------------------------------------------------------
(* The timer threads: what TimerThread says, and the two callbacks.        *)

Timer(t) ==
    /\ TimerStep(t)
    /\ UNCHANGED <<cvars, events, history>>

Tick(t) ==
    /\ Expire(t)
    /\ UNCHANGED <<cvars, events, history>>

\* writeToFile and writeCacheFile: lock, open (which truncates) ...
BeginWrite ==
    /\ tpc[One] = "callback"
    /\ Lock(One)
    /\ Goto(One, "write")
    /\ \/ /\ file' = <<>>
          /\ saving' = WriteLines(slave)
          /\ UNCHANGED events
       \/ Event("open") /\ saving' = file /\ UNCHANGED file
    /\ torn' = FALSE
    /\ UNCHANGED <<timeSet, armed, expired, looping, master, slave, opc,
                   target, cursor, job, copied, crossed>>

\* ... one flushed line per node ...
WriteLine ==
    /\ Writing
    /\ Len(file) < Len(saving)
    /\ file' = Append(file, LineOf(slave.list[Len(file) + 1]))
    /\ UNCHANGED <<tvars, master, slave, mutex, opc, target, cursor, job,
                   events, history>>

\* ... close and unlock.
EndWrite ==
    /\ Writing
    /\ Len(file) >= Len(saving)
    /\ mutex' = "free"
    /\ Goto(One, "loop")
    /\ UNCHANGED <<timeSet, armed, expired, looping, master, slave, file, opc,
                   target, cursor, job, events, history>>

\* copyMasterToSlave and copyLruCache: lock, clear, cbegin() ...
BeginCopy ==
    /\ tpc[Two] = "callback"
    /\ Lock(Two)
    /\ Goto(Two, "copy")
    /\ slave' = EmptyCache
    /\ cursor' = FirstOf(master.list)
    /\ crossed' = {}
    /\ UNCHANGED <<timeSet, armed, expired, looping, master, file, opc,
                   target, job, events, copied, saving, torn>>

\* ... push_back(*iter), which copies key_ (and val_, see CopyVal) ...
CopyKey ==
    /\ tpc[Two] = "copy"
    /\ cursor # 0
    /\ slave' = AddNode(slave, Here.key, Here.val)
    /\ Goto(Two, "val")
    /\ UNCHANGED <<timeSet, armed, expired, looping, master, file, mutex, opc,
                   target, cursor, job, events, history>>

\* ... and then val_, as it is by then ...
CopyVal ==
    /\ tpc[Two] = "val"
    /\ slave' = SetVal(slave, Here.val)
    /\ Goto(Two, "map")
    /\ UNCHANGED <<timeSet, armed, expired, looping, master, file, mutex, opc,
                   target, cursor, job, events, history>>

\* ... the map entry, under the key that the node has by then ...
MapNode ==
    /\ tpc[Two] = "map"
    /\ slave' = MapLast(slave, Here.key)
    /\ Goto(Two, "next")
    /\ UNCHANGED <<timeSet, armed, expired, looping, master, file, mutex, opc,
                   target, cursor, job, events, history>>

\* ... and on to the one behind it, wherever it is by now ...
NextNode ==
    /\ tpc[Two] = "next"
    /\ cursor' = After(master.list, Position(master, cursor))
    /\ Goto(Two, "copy")
    /\ UNCHANGED <<timeSet, armed, expired, looping, master, slave, file,
                   mutex, opc, target, job, events, history>>

\* ... unlock.
EndCopy ==
    /\ tpc[Two] = "copy"
    /\ cursor = 0
    /\ mutex' = "free"
    /\ copied' = WriteLines(slave)
    /\ Goto(Two, "loop")
    /\ UNCHANGED <<timeSet, armed, expired, looping, master, slave, file, opc,
                   target, cursor, job, events, crossed, saving, torn>>

-----------------------------------------------------------------------------
(* A worker in Server::compute: look up, answer, put.                      *)

Lookup(w, k) ==
    /\ opc = "started"
    /\ job[w] = NoJob
    /\ Event("query")
    /\ \E v \in IF Copying THEN Vals
                ELSE IF Found(slave, k) THEN {FoundVal(slave, k)}
                ELSE {Answer[k]} :
          job' = [job EXCEPT ![w] = [key |-> k, val |-> v]]
    /\ UNCHANGED <<tvars, master, slave, file, mutex, opc, target, cursor,
                   history>>

\* The copy has read the node it stands on, will read it again, and finds
\* another one there: the put evicted it, and its own node has its place.
Crosses == tpc[Two] \in {"val", "map"} /\ Here'.key # Here.key

\* Puts can keep a copy from ever ending: past MaxCopy nodes they wait.
PutIntoMaster(w) ==
    /\ job[w] # NoJob
    /\ Copying => Len(slave.list) < MaxCopy
    /\ master' = Put(master, job[w].key, job[w].val, MaxSize)
    /\ job' = [job EXCEPT ![w] = NoJob]
    /\ UNCHANGED <<tvars, slave, file, mutex, opc, target, cursor, events,
                   copied, saving, torn>>
    /\ crossed' = IF Crosses THEN crossed \cup {job[w].key} ELSE crossed

-----------------------------------------------------------------------------
(* The process is killed; the next one finds the file as it was.           *)

Crash ==
    /\ opc # "new"
    /\ Event("crash")
    /\ tpc' = [t \in Timers |-> "none"]
    /\ timeSet' = [t \in Timers |-> TRUE]
    /\ armed' = [t \in Timers |-> FALSE]
    /\ expired' = [t \in Timers |-> FALSE]
    /\ looping' = [t \in Timers |-> FALSE]
    /\ master' = EmptyCache
    /\ slave' = EmptyCache
    /\ mutex' = "free"
    /\ opc' = "new"
    /\ target' = One
    /\ cursor' = 0
    /\ job' = [w \in Workers |-> NoJob]
    /\ copied' = <<>>
    /\ crossed' = {}
    /\ torn' = (torn \/ Writing)
    /\ UNCHANGED <<file, saving>>

-----------------------------------------------------------------------------
Stop == LockStop \/ CancelDisarm \/ CancelLower \/ CancelJoin
Start == Load \/ \E t \in Timers : Spawn(t)
Copy == CopyKey \/ CopyVal \/ MapNode \/ NextNode \/ EndCopy
Callback == WriteLine \/ EndWrite \/ Copy

Next ==
    \/ Start
    \/ CallStop
    \/ Stop
    \/ \E t \in Timers : Timer(t) \/ Tick(t)
    \/ BeginWrite
    \/ BeginCopy
    \/ Callback
    \/ \E w \in Workers : (\E k \in Keys : Lookup(w, k)) \/ PutIntoMaster(w)
    \/ Crash

Spec == Init /\ [][Next]_vars

\* Threads that can run do; armed timers expire; a callback that waits for
\* mutex_ gets it, because the timers leave it free for seconds at a time.
Fairness ==
    /\ WF_vars(Start)
    /\ WF_vars(Stop)
    /\ WF_vars(Callback)
    /\ SF_vars(BeginWrite)
    /\ SF_vars(BeginCopy)
    /\ \A t \in Timers : WF_vars(Timer(t)) /\ WF_vars(Tick(t))
    /\ \A w \in Workers : WF_vars(PutIntoMaster(w))

FairSpec == Spec /\ Fairness

-----------------------------------------------------------------------------
(* Properties.                                                             *)

\* Every map entry leads to a live node, and but for some words to one with
\* its key; no two nodes share an address.
SoundBut(c, words) ==
    /\ \A k \in DOMAIN c.map :
          \E n \in Nodes(c) : n.id = c.map[k] /\ (n.key = k \/ k \in words)
    /\ \A i, j \in DOMAIN c.list : i # j => c.list[i].id # c.list[j].id

(* No iterator in a map dangles, in the master at any time and in the      *)
(* slave whenever no copy is rebuilding it: not even when a file with      *)
(* repeated keys was loaded, or a copy went over the same nodes twice.     *)
(* Each leads to a node with its key, except that in the slave the entry   *)
(* of a word may lead to a node of another, if the word was put and took   *)
(* the place of the node the copy was reading.                             *)
NoDanglingIterator ==
    /\ SoundBut(master, {})
    /\ ~Copying => SoundBut(slave, crossed)

(* The file is the image of one complete slave.  While it is written the   *)
(* slave stays what the last copy or load left; afterwards the file holds  *)
(* all of it, and, if the process was killed meanwhile, its first lines.   *)
FileIsOneCompleteCopy ==
    /\ IsPrefix(file, saving)
    /\ Writing => WriteLines(slave) = copied
    /\ ~Writing /\ ~torn => file = saving

(* Nothing cached stays in memory for ever: a word in the master reaches   *)
(* the file, unless it is evicted first or the process stops or dies, and  *)
(* whatever is asked meanwhile, with two exceptions.  A copy passes over a *)
(* word that is put, and so moved to the front, while the copy is on its   *)
(* way to it; a word to which this happens in copy after copy never leaves *)
(* the memory.  And a copy of three nodes or more does not end while puts  *)
(* go on to move each node it comes to.                                    *)
InFile(k) == \E n \in Nodes(slave) : n.key = k /\ LineOf(n) \in Range(file)
PutInCopy(k) ==
    Copying /\ \E w \in Workers :
                  job[w] # NoJob /\ job[w].key = k /\ PutIntoMaster(w)
EventuallyInFile ==
    \A k \in Keys :
        <>[][~PutInCopy(k)]_vars /\ []<>~Copying =>
            (k \in NodeKeys(master) ~>
                (InFile(k) \/ k \notin NodeKeys(master) \/ opc # "started"))

(* A copy gives the slave the content of the master (src/MyCache.cc:116):  *)
(* a slave that is not being rebuilt has, like the master, one node per    *)
(* key.  Checked from an empty file and with queries of one word.          *)
SlaveIsACopy ==
    ~Copying => \A i, j \in DOMAIN slave.list :
                   slave.list[i].key = slave.list[j].key => i = j

(* Each join of stop() returns (src/MyCacheManager.cc:37) unless the       *)
(* cancel caught the timer thread where it cannot be stopped.  It is not   *)
(* in its loop yet, and raises the flag that the cancel has just lowered;  *)
(* or poll has told it to read, and the cancel took away what there was;   *)
(* or its callback waits for mutex_, which stop() holds.  From each of     *)
(* these stop() never returns.                                             *)
StopReturnsUnlessCaught ==
    (opc = "join" /\ tpc[target] \in {"loop", "poll"} /\ ~looping[target])
        ~> opc # "join"

=============================================================================
