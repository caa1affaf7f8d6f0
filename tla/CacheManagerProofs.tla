------------------------- MODULE CacheManagerProofs -------------------------
(***************************************************************************)
(* Who holds mutex_ of the cache manager, for any timers' interval, any    *)
(* workers, words and answers, any size of the caches and any number of    *)
(* crashes: the callbacks and stop() exclude each other, and so the slave  *)
(* that is written to the file is the last one that was complete.          *)
(***************************************************************************)
EXTENDS CacheManager, SharedLemmas, TLAPS
USE DEF CopyStates

\* stop() holds mutex_ from its lock to its return.
Closing == {"disarm", "lower", "join"}
StopHolds == mutex = "owner" <=> opc \in Closing

\* The slave changes only in Load and in the body of a copy.
SlaveComplete == ~Copying => WriteLines(slave) = copied

Callbacks ==
    /\ tpc \in [Timers -> TimerStates \cup CallbackStates]
    /\ mutex \in {"free", "owner"} \cup Timers
    /\ mutex = One <=> tpc[One] = "write"
    /\ mutex = Two <=> tpc[Two] \in CopyStates
    /\ tpc[One] \notin CopyStates
    /\ tpc[Two] # "write"

Places == opc \in OwnerStates /\ target \in Timers

\* A timer thread exists once start() has created it.
Unspawned ==
    /\ opc \in {"new", "spawnOne"} => tpc[One] = "none"
    /\ opc \in {"new", "spawnOne", "spawnTwo"} => tpc[Two] = "none"

IInv ==
    /\ TTypeOK
    /\ Callbacks
    /\ Places
    /\ StopHolds
    /\ Unspawned
    /\ SlaveComplete

-----------------------------------------------------------------------------
(* The two timers, and that none of them is another holder of the mutex.   *)
LEMMA TimersAre ==
    /\ Timers = {One, Two} /\ One # Two
    /\ One \notin {"free", "owner"} /\ Two \notin {"free", "owner"}
BY ManagerAssumption

(* An empty cache has no line.                                             *)
LEMMA EmptyLines == WriteLines(EmptyCache) = <<>>
BY DEF WriteLines, EmptyCache

(* A process begins with its mutex free and its caches empty.              *)
LEMMA IInvInit == Init => IInv
<1> SUFFICES ASSUME Init PROVE IInv
  OBVIOUS
<1>1. TTypeOK
  <2>1. \A b \in BOOLEAN : [t \in Timers |-> b] \in [Timers -> BOOLEAN]
    OBVIOUS
  <2>2. /\ timeSet = [t \in Timers |-> TRUE]
        /\ armed = [t \in Timers |-> FALSE]
        /\ expired = [t \in Timers |-> FALSE]
        /\ looping = [t \in Timers |-> FALSE]
    BY DEF Init, TInit
  <2> QED BY <2>1, <2>2 DEF TTypeOK
<1>2. Callbacks /\ Places
  BY TimersAre DEF Init, TInit, Callbacks, Places, TimerStates, OwnerStates
<1>3. StopHolds /\ Unspawned
  BY TimersAre DEF Init, TInit, StopHolds, Closing, Unspawned
<1>4. SlaveComplete
  BY EmptyLines DEF Init, SlaveComplete
<1> QED BY <1>1, <1>2, <1>3, <1>4 DEF IInv

-----------------------------------------------------------------------------
(* The steps.  A timer thread outside its callback does not touch mutex_.  *)

(* A timer thread that goes on leaves the other where it is.               *)
LEMMA GotoFacts ==
    ASSUME Callbacks, NEW t \in Timers, NEW state, Goto(t, state)
    PROVE  /\ tpc'[t] = state
           /\ \A u \in Timers : u # t => tpc'[u] = tpc[u]
           /\ state \in TimerStates \cup CallbackStates =>
                 tpc' \in [Timers -> TimerStates \cup CallbackStates]
BY DEF Callbacks, Goto

(* A function to BOOLEAN stays one when it is changed at a point.          *)
LEMMA BooleanSet ==
    ASSUME NEW f \in [Timers -> BOOLEAN], NEW t, NEW b \in BOOLEAN
    PROVE  [f EXCEPT ![t] = b] \in [Timers -> BOOLEAN]
OBVIOUS

(* What timers do keeps their variables' types.                            *)
LEMMA TimersTyped ==
    ASSUME TTypeOK, NEW t \in Timers
    PROVE  /\ TimerStep(t) => TTypeOK'
           /\ Expire(t) => TTypeOK'
           /\ Disarm(t) => TTypeOK'
           /\ LowerFlag(t) => TTypeOK'
<1> USE DEF TTypeOK
<1>1. \A f \in [Timers -> BOOLEAN] : \A b \in BOOLEAN :
         [f EXCEPT ![t] = b] \in [Timers -> BOOLEAN]
  BY BooleanSet
<1>2. timeSet[t] \in BOOLEAN /\ (Interval[t] # 0) \in BOOLEAN
  OBVIOUS
<1>3. ASSUME TimerStep(t) PROVE TTypeOK'
  BY <1>1, <1>2, <1>3
     DEF TimerStep, Arm, Enable, CheckLoop, PollReady, PollTimeout, Read
<1>4. ASSUME Expire(t) PROVE TTypeOK'
  BY <1>1, <1>2, <1>4 DEF Expire
<1>5. ASSUME Disarm(t) PROVE TTypeOK'
  BY <1>1, <1>5 DEF Disarm
<1>6. ASSUME LowerFlag(t) PROVE TTypeOK'
  BY <1>1, <1>6 DEF LowerFlag
<1> QED BY <1>3, <1>4, <1>5, <1>6

(* start() loads both caches and spawns the timers; nobody is inside a     *)
(* callback before.                                                        *)
LEMMA IInvStart ==
    ASSUME IInv, Start
    PROVE  IInv'
<1> USE DEF IInv
<1>1. CASE Load
  <2>1. TTypeOK'
    BY <1>1 DEF Load, tvars, TTypeOK
  <2> QED
    BY <1>1, <2>1 DEF Load, tvars, Callbacks, Places, OwnerStates, StopHolds,
                      Closing, Unspawned, SlaveComplete
<1>2. ASSUME NEW t \in Timers, Spawn(t) PROVE IInv'
  <2>1. Goto(t, "arm") /\ UNCHANGED <<timeSet, armed, expired, looping>>
    BY <1>2 DEF Spawn, StartTimerThread
  <2>2. TTypeOK'
    BY <2>1 DEF TTypeOK
  <2>3. /\ UNCHANGED <<mutex, target, slave, copied>>
        /\ opc \notin Closing /\ opc' \notin Closing /\ opc' \in OwnerStates
        /\ tpc[t] = "none"
    BY <1>2 DEF Spawn, history, Closing, OwnerStates, Unspawned
  <2>4. /\ tpc'[t] = "arm"
        /\ \A u \in Timers : u # t => tpc'[u] = tpc[u]
        /\ tpc' \in [Timers -> TimerStates \cup CallbackStates]
    BY <2>1, GotoFacts DEF TimerStates
  <2>5. Callbacks' /\ Places' /\ StopHolds'
    BY <2>3, <2>4, TimersAre DEF Callbacks, Places, StopHolds
  <2>6. Unspawned'
    BY <1>2, <2>4, TimersAre DEF Spawn, Unspawned
  <2>7. SlaveComplete'
    BY <2>3, <2>4, TimersAre DEF SlaveComplete, Copying, WriteLines
  <2> QED BY <2>2, <2>5, <2>6, <2>7
<1> QED BY <1>1, <1>2 DEF Start

(* stop() holds the mutex from its lock to its return.                     *)
LEMMA IInvStop ==
    ASSUME IInv, CallStop \/ Stop
    PROVE  IInv'
<1> USE DEF IInv
<1>1. /\ UNCHANGED <<tpc, slave, copied>>
      /\ opc \notin {"new", "spawnOne", "spawnTwo"}
      /\ opc' \in OwnerStates /\ opc' \notin {"new", "spawnOne", "spawnTwo"}
  BY DEF CallStop, Stop, LockStop, CancelDisarm, CancelLower, CancelJoin,
         Disarm, LowerFlag, tvars, history, OwnerStates
<1>2. TTypeOK'
  <2>1. \/ UNCHANGED tvars
        \/ Disarm(target)
        \/ LowerFlag(target)
    BY DEF CallStop, Stop, LockStop, CancelDisarm, CancelLower, CancelJoin
  <2>2. CASE UNCHANGED tvars
    BY <2>2 DEF tvars, TTypeOK
  <2> QED BY <2>1, <2>2, TimersTyped DEF Places
<1>3. /\ mutex' \in {mutex, "owner", "free"}
      /\ mutex' # mutex => mutex \in {"owner", "free"}
      /\ mutex' = "owner" <=> opc' \in Closing
      /\ target' \in Timers
  BY TimersAre DEF CallStop, Stop, LockStop, CancelDisarm, CancelLower,
         CancelJoin, StopHolds, Closing, Places
<1>4. Callbacks'
  BY <1>1, <1>3, TimersAre DEF Callbacks
<1>5. Places' /\ StopHolds' /\ Unspawned'
  BY <1>1, <1>3 DEF Places, StopHolds, Unspawned
<1>6. SlaveComplete'
  BY <1>1 DEF SlaveComplete, Copying, WriteLines
<1> QED BY <1>2, <1>4, <1>5, <1>6

(* Outside its callbacks a timer thread leaves mutex and caches alone.     *)
LEMMA IInvTimer ==
    ASSUME IInv, NEW t \in Timers, Timer(t) \/ Tick(t)
    PROVE  IInv'
<1> USE DEF IInv
<1>1. UNCHANGED <<mutex, opc, target, slave, copied>>
  BY DEF Timer, Tick, cvars, history
<1>2. TTypeOK'
  BY TimersTyped DEF Timer, Tick
<1>3. \/ tpc' = tpc
      \/ /\ tpc[t] \notin CallbackStates \cup {"none"}
         /\ \E state \in TimerStates : Goto(t, state)
  BY DEF Timer, Tick, TimerStep, Arm, Enable, CheckLoop, PollReady,
         PollTimeout, Read, Expire, TimerStates, CallbackStates
<1>4. CASE tpc' = tpc
  BY <1>1, <1>2, <1>4 DEF Callbacks, Places, StopHolds, Unspawned,
                          SlaveComplete, Copying, WriteLines
<1>5. ASSUME NEW state \in TimerStates, Goto(t, state),
             tpc[t] \notin CallbackStates \cup {"none"}
      PROVE  IInv'
  <2>1. /\ tpc'[t] = state
        /\ \A u \in Timers : u # t => tpc'[u] = tpc[u]
        /\ tpc' \in [Timers -> TimerStates \cup CallbackStates]
    BY <1>5, GotoFacts
  <2>2. state \notin CallbackStates
    BY DEF TimerStates, CallbackStates
  <2>3. Callbacks'
    BY <1>1, <1>5, <2>1, <2>2, TimersAre DEF Callbacks, CallbackStates
  <2>4. Places' /\ StopHolds' /\ Unspawned'
    BY <1>1, <1>5, <2>1, TimersAre DEF Places, StopHolds, Unspawned
  <2>5. SlaveComplete'
    BY <1>1, <1>5, <2>1, <2>2, TimersAre
       DEF SlaveComplete, Copying, WriteLines, CallbackStates
  <2> QED BY <1>2, <2>3, <2>4, <2>5
<1> QED BY <1>3, <1>4, <1>5

(* The callbacks: each locks mutex_ before its body, and only the body of  *)
(* the copy changes the slave.                                             *)
LEMMA IInvCallback ==
    ASSUME IInv, BeginWrite \/ BeginCopy \/ Callback
    PROVE  IInv'
<1> USE DEF IInv
<1>1. UNCHANGED <<timeSet, armed, expired, looping, opc, target>>
  BY DEF BeginWrite, BeginCopy, Callback, Copy, WriteLine, EndWrite, CopyKey,
         CopyVal, MapNode, NextNode, EndCopy, tvars
<1>2. TTypeOK' /\ Places'
  BY <1>1 DEF TTypeOK, Places
<1>3. CASE BeginWrite
  <2>1. /\ mutex = "free" /\ mutex' = One /\ tpc[One] = "callback"
        /\ Goto(One, "write") /\ UNCHANGED <<slave, copied>>
    BY <1>3 DEF BeginWrite, Lock
  <2>2. /\ tpc'[One] = "write" /\ tpc'[Two] = tpc[Two]
        /\ tpc' \in [Timers -> TimerStates \cup CallbackStates]
    BY <2>1, GotoFacts, TimersAre DEF CallbackStates
  <2> QED
    BY <1>1, <1>2, <2>1, <2>2, TimersAre
       DEF Callbacks, StopHolds, Unspawned, SlaveComplete, Copying, WriteLines
<1>4. CASE BeginCopy
  <2>1. /\ mutex = "free" /\ mutex' = Two /\ tpc[Two] = "callback"
        /\ Goto(Two, "copy")
    BY <1>4 DEF BeginCopy, Lock
  <2>2. /\ tpc'[Two] = "copy" /\ tpc'[One] = tpc[One]
        /\ tpc' \in [Timers -> TimerStates \cup CallbackStates]
    BY <2>1, GotoFacts, TimersAre DEF CallbackStates
  <2> QED
    BY <1>1, <1>2, <2>1, <2>2, TimersAre
       DEF Callbacks, StopHolds, Unspawned, SlaveComplete, Copying
<1>5. CASE WriteLine
  BY <1>1, <1>2, <1>5
     DEF WriteLine, tvars, history, Callbacks, StopHolds, Unspawned,
         SlaveComplete, Copying, WriteLines
<1>6. CASE EndWrite
  <2>1. /\ tpc[One] = "write" /\ mutex' = "free"
        /\ Goto(One, "loop") /\ UNCHANGED <<slave, copied>>
    BY <1>6 DEF EndWrite, Writing, history
  <2>2. /\ tpc'[One] = "loop" /\ tpc'[Two] = tpc[Two]
        /\ tpc' \in [Timers -> TimerStates \cup CallbackStates]
    BY <2>1, GotoFacts, TimersAre DEF TimerStates
  <2> QED
    BY <1>1, <1>2, <2>1, <2>2, TimersAre
       DEF Callbacks, StopHolds, Unspawned, SlaveComplete, Copying, WriteLines
<1>7. CASE CopyKey \/ CopyVal \/ MapNode \/ NextNode
  <2>1. \E state \in CopyStates :
           /\ tpc[Two] \in CopyStates /\ UNCHANGED mutex
           /\ Goto(Two, state)
    BY <1>7 DEF CopyKey, CopyVal, MapNode, NextNode
  <2>2. /\ tpc'[Two] \in CopyStates /\ tpc'[One] = tpc[One]
        /\ tpc' \in [Timers -> TimerStates \cup CallbackStates]
    BY <2>1, GotoFacts, TimersAre DEF CallbackStates
  <2> QED
    BY <1>1, <1>2, <2>1, <2>2, TimersAre
       DEF Callbacks, StopHolds, Unspawned, SlaveComplete, Copying
<1>8. CASE EndCopy
  <2>1. /\ tpc[Two] = "copy" /\ mutex' = "free" /\ Goto(Two, "loop")
        /\ copied' = WriteLines(slave) /\ UNCHANGED slave
    BY <1>8 DEF EndCopy
  <2>2. /\ tpc'[Two] = "loop" /\ tpc'[One] = tpc[One]
        /\ tpc' \in [Timers -> TimerStates \cup CallbackStates]
    BY <2>1, GotoFacts, TimersAre DEF TimerStates
  <2>3. SlaveComplete'
    BY <2>1 DEF SlaveComplete, WriteLines
  <2> QED
    BY <1>1, <1>2, <2>1, <2>2, <2>3, TimersAre
       DEF Callbacks, StopHolds, Unspawned
<1> QED BY <1>3, <1>4, <1>5, <1>6, <1>7, <1>8 DEF Callback, Copy

(* What is left of a crash is the file; the process begins anew.           *)
LEMMA IInvCrash ==
    ASSUME IInv, Crash
    PROVE  IInv'
<1>1. TTypeOK'
  <2>1. \A b \in BOOLEAN : [t \in Timers |-> b] \in [Timers -> BOOLEAN]
    OBVIOUS
  <2>2. /\ timeSet' = [t \in Timers |-> TRUE]
        /\ armed' = [t \in Timers |-> FALSE]
        /\ expired' = [t \in Timers |-> FALSE]
        /\ looping' = [t \in Timers |-> FALSE]
    BY DEF Crash
  <2> QED BY <2>1, <2>2 DEF TTypeOK
<1>2. Callbacks' /\ Places' /\ StopHolds' /\ Unspawned'
  BY TimersAre DEF Crash, Callbacks, Places, StopHolds, Unspawned, Closing,
                   TimerStates, OwnerStates
<1>3. SlaveComplete'
  <2>1. slave' = EmptyCache /\ copied' = <<>>
    BY DEF Crash
  <2>2. WriteLines(slave') = <<>>
    BY <2>1, EmptyLines
  <2> QED BY <2>1, <2>2 DEF SlaveComplete, WriteLines
<1> QED BY <1>1, <1>2, <1>3 DEF IInv

(* Every step keeps IInv.                                                  *)
LEMMA IInvNext == IInv /\ [Next]_vars => IInv'
<1> SUFFICES ASSUME IInv, [Next]_vars PROVE IInv'
  OBVIOUS
<1>1. ASSUME UNCHANGED <<tvars, mutex, opc, target, slave, copied>>
      PROVE  IInv'
  BY <1>1 DEF tvars, IInv, TTypeOK, Callbacks, Places, StopHolds, Unspawned,
              SlaveComplete, Copying, WriteLines
<1>2. ASSUME NEW w \in Workers,
             (\E k \in Keys : Lookup(w, k)) \/ PutIntoMaster(w)
      PROVE  IInv'
  BY <1>1, <1>2 DEF Lookup, PutIntoMaster, history
<1>3. CASE UNCHANGED vars
  BY <1>1, <1>3 DEF vars, cvars, history
<1> QED
  BY <1>2, <1>3, IInvStart, IInvStop, IInvTimer, IInvCallback, IInvCrash
     DEF Next

(* IInv is an invariant of the cache manager.                              *)
LEMMA IInvAlways == Spec => []IInv
BY IInvInit, IInvNext, PTL DEF Spec

-----------------------------------------------------------------------------
(* The contents.  Both caches are whole at any time, the slave that a copy *)
(* is rebuilding too, but for the entries of words that puts crossed; the  *)
(* copy stands at a node the master still has; the node it finds there has *)
(* the key it has read, or that of a put that crossed; and the file is     *)
(* what a write has set out to save, as far as it has come.                *)

\* start() finds the caches empty, and no worker is computing.
Fresh ==
    opc = "new" =>
        /\ master = EmptyCache
        /\ slave = EmptyCache
        /\ \A w \in Workers : job[w] = NoJob

WholeCaches == Whole(master) /\ WholeBut(slave, crossed)

\* A put leaves the addresses the master has, so none of them is lost.
CursorLive ==
    /\ cursor \in 0..Len(master.list)
    /\ tpc[Two] \in {"val", "map", "next"} => cursor # 0

\* The slave ends with the node that the copy is at, whose key is still the one
\* that was read unless a put has replaced it by a word that is in crossed.
AtNode ==
    tpc[Two] \in {"val", "map"} =>
        /\ Len(slave.list) > 0
        /\ \E k, v : /\ slave.list[Len(slave.list)] = Node(Len(slave.list), k, v)
                     /\ Here.key = k \/ Here.key \in crossed

Saved ==
    /\ \E S : file \in Seq(S)
    /\ \E S : saving \in Seq(S)
    /\ Len(file) <= Len(saving)
    /\ \A i \in 1..Len(file) : file[i] = saving[i]
    /\ Writing => saving = WriteLines(slave) \/ Len(file) = Len(saving)
    /\ ~Writing /\ ~torn => file = saving

CInv == Fresh /\ WholeCaches /\ CursorLive /\ AtNode /\ Saved

(* Equal sequences.                                                        *)
LEMMA SameLines ==
    ASSUME NEW s, NEW t, \E S : s \in Seq(S), \E S : t \in Seq(S),
           Len(s) <= Len(t), \A i \in 1..Len(s) : s[i] = t[i]
    PROVE  /\ IsPrefix(s, t)
           /\ Len(s) = Len(t) => s = t
<1>1. PICK S : s \in Seq(S)
  OBVIOUS
<1>2. PICK T : t \in Seq(T)
  OBVIOUS
<1> DEFINE R == S \cup T
           n == Len(s)
<1>3. s \in Seq(R) /\ t \in Seq(R)
  <2>1. S \subseteq R /\ T \subseteq R
    OBVIOUS
  <2> QED BY <1>1, <1>2, <2>1, SeqMonotonic
<1> HIDE DEF R
<1>4. n \in Nat /\ Len(t) \in Nat
  BY <1>3
<1>5. \A i \in 1..n : s[i] \in R /\ t[i] \in R
  BY <1>3, <1>4
<1>6. /\ SubSeq(s, 1, n) \in Seq(R)
      /\ Len(SubSeq(s, 1, n)) = IF 1 <= n THEN n - 1 + 1 ELSE 0
      /\ \A i \in 1..(n - 1 + 1) : SubSeq(s, 1, n)[i] = s[1 + i - 1]
  BY <1>4, <1>5, SubSeqProperties
<1>7. /\ SubSeq(t, 1, n) \in Seq(R)
      /\ Len(SubSeq(t, 1, n)) = IF 1 <= n THEN n - 1 + 1 ELSE 0
      /\ \A i \in 1..(n - 1 + 1) : SubSeq(t, 1, n)[i] = t[1 + i - 1]
  BY <1>4, <1>5, SubSeqProperties
<1> DEFINE a == SubSeq(s, 1, n)
           b == SubSeq(t, 1, n)
<1>8. a \in Seq(R) /\ b \in Seq(R) /\ Len(a) = n /\ Len(b) = n
  BY <1>4, <1>6, <1>7
<1>9. ASSUME NEW i \in 1..n PROVE a[i] = b[i]
  <2>1. i \in 1..(n - 1 + 1) /\ 1 + i - 1 = i
    BY <1>4
  <2>2. a[i] = s[i] /\ b[i] = t[i]
    BY <1>6, <1>7, <2>1
  <2> QED BY <2>2
<1> HIDE DEF a, b
<1>10. a = b
  BY <1>8, <1>9, SeqEqual
<1>11. Len(s) = Len(t) => s = t
  BY <1>3, SeqEqual
<1> QED BY <1>10, <1>11 DEF IsPrefix, a, b

(* A whole cache has no dangling entry and no shared address.              *)
LEMMA WholeSound ==
    ASSUME NEW c, NEW words, WholeBut(c, words)
    PROVE  SoundBut(c, words)
<1>1. DOMAIN c.list = 1..Len(c.list)
  BY NodesAre DEF WholeBut, NodesPlaced
<1> QED BY <1>1 DEF WholeBut, NodesPlaced, SoundBut

(* The process begins with empty caches and the file it finds.             *)
LEMMA CInvInit == Init => CInv
<1> SUFFICES ASSUME Init PROVE CInv
  OBVIOUS
<1>1. Fresh /\ WholeCaches
  BY EmptyWhole, WholeIs DEF Init, Fresh, WholeCaches
<1>2. CursorLive /\ AtNode
  <2>1. master.list = <<>> /\ cursor = 0 /\ tpc[Two] = "none"
    BY TimersAre DEF Init, TInit, EmptyCache
  <2> QED BY <2>1 DEF CursorLive, AtNode
<1>3. Saved
  <2>1. file \in Seq(Range(file)) /\ saving = file
    BY ManagerAssumption DEF Init
  <2>2. Len(file) \in Nat
    BY <2>1
  <2>3. ~Writing
    BY TimersAre DEF Init, TInit, Writing
  <2> QED BY <2>1, <2>2, <2>3 DEF Saved
<1> QED BY <1>1, <1>2, <1>3 DEF CInv

(* The node under the copy is the same if the master and the cursor are.   *)
LEMMA HereSame == UNCHANGED <<master, cursor>> => Here' = Here
BY DEF Here, NodeAt, Position

(* A step that leaves caches, file and copy alone, and the state of no     *)
(* callback, keeps CInv.                                                   *)
LEMMA CInvSame ==
    ASSUME CInv,
           UNCHANGED <<master, slave, file, cursor, crossed, saving, torn>>,
           opc' = "new" => opc = "new" /\ job' = job,
           \A state \in {"val", "map", "next"} :
              tpc'[Two] = state => tpc[Two] = state,
           tpc'[One] = "write" <=> tpc[One] = "write"
    PROVE  CInv'
<1>1. Writing' <=> Writing
  BY DEF Writing
<1>2. WriteLines(slave)' = WriteLines(slave)
  BY DEF WriteLines
<1>3. Fresh' /\ WholeCaches' /\ CursorLive'
  BY DEF CInv, Fresh, WholeCaches, CursorLive
<1>4. AtNode'
  BY HereSame DEF CInv, AtNode
<1>5. Saved'
  BY <1>1, <1>2 DEF CInv, Saved
<1> QED BY <1>3, <1>4, <1>5 DEF CInv

(* start() reads the file, which is a sequence of lines whatever happened  *)
(* before.                                                                 *)
LEMMA CInvLoad ==
    ASSUME IInv, CInv, Load
    PROVE  CInv'
<1>1. /\ opc = "new" /\ opc' # "new"
      /\ master = EmptyCache /\ slave = EmptyCache
      /\ UNCHANGED <<tpc, file, saving, torn, cursor>>
      /\ tpc[One] = "none" /\ tpc[Two] = "none"
  BY DEF Load, CInv, Fresh, IInv, Unspawned, tvars
<1>2. PICK S : file \in Seq(S)
  BY DEF CInv, Saved
<1>3. Whole(ReadLines(EmptyCache, file))
  BY <1>2, EmptyWhole, ReadWhole
<1>4. Whole(master') /\ Whole(slave')
  BY <1>1, <1>3, EmptyWhole DEF Load, ReadCacheFile
<1>5. cursor = 0 /\ Len(master'.list) \in Nat
  <2>1. Len(EmptyCache.list) = 0
    BY DEF EmptyCache
  <2>2. cursor = 0
    BY <1>1, <2>1 DEF CInv, CursorLive
  <2>3. Len(master'.list) \in Nat
    BY <1>4, WriteLinesIs
  <2> QED BY <2>2, <2>3
<1>6. Fresh' /\ WholeCaches' /\ CursorLive' /\ AtNode'
  BY <1>1, <1>4, <1>5, WholeIs DEF Fresh, WholeCaches, CursorLive, AtNode
<1>7. Saved'
  BY <1>1 DEF CInv, Saved, Writing
<1> QED BY <1>6, <1>7 DEF CInv

(* start()'s threads, stop(), and the timers outside their callbacks leave *)
(* the contents alone.                                                     *)
LEMMA CInvThreads ==
    ASSUME IInv, CInv,
           \/ CallStop \/ Stop
           \/ \E t \in Timers : Spawn(t) \/ Timer(t) \/ Tick(t)
    PROVE  CInv'
<1>1. CASE CallStop \/ Stop
  <2>1. /\ UNCHANGED <<tpc, master, slave, file, cursor, crossed, saving,
                        torn>>
        /\ opc' # "new"
    BY <1>1 DEF CallStop, Stop, LockStop, CancelDisarm, CancelLower,
                CancelJoin, Disarm, LowerFlag, tvars, history
  <2> QED BY <2>1, CInvSame
<1>2. ASSUME NEW t \in Timers, Spawn(t) \/ Timer(t) \/ Tick(t)
      PROVE  CInv'
  <2>1. /\ UNCHANGED <<master, slave, file, cursor, crossed, saving, torn>>
        /\ opc' = "new" => opc = "new" /\ job' = job
    BY <1>2 DEF Spawn, Timer, Tick, cvars, history
  <2>2. \/ tpc' = tpc
        \/ \E state \in TimerStates : Goto(t, state) /\ tpc[t] \notin CallbackStates
    BY <1>2 DEF Spawn, StartTimerThread, Timer, Tick, TimerStep, Arm, Enable,
                CheckLoop, PollReady, PollTimeout, Read, Expire, TimerStates,
                CallbackStates, Unspawned, IInv
  <2>3. CASE tpc' = tpc
    BY <2>1, <2>3, CInvSame
  <2>4. ASSUME NEW state \in TimerStates, Goto(t, state),
               tpc[t] \notin CallbackStates
        PROVE  CInv'
    <3>1. /\ tpc'[t] = state
          /\ \A u \in Timers : u # t => tpc'[u] = tpc[u]
      BY <2>4, GotoFacts DEF IInv
    <3>2. state \notin CallbackStates /\ One \in Timers /\ Two \in Timers
      BY TimersAre DEF TimerStates, CallbackStates
    <3>3. /\ \A place \in {"val", "map", "next"} :
                tpc'[Two] = place => tpc[Two] = place
          /\ tpc'[One] = "write" <=> tpc[One] = "write"
      BY <2>4, <3>1, <3>2 DEF CallbackStates
    <3> QED BY <2>1, <3>3, CInvSame
  <2> QED BY <2>2, <2>3, <2>4
<1> QED BY <1>1, <1>2

(* A write truncates the file, adds a line for each node of the slave and  *)
(* ends when all are there.                                                *)
LEMMA CInvWrite ==
    ASSUME IInv, CInv, BeginWrite \/ WriteLine \/ EndWrite
    PROVE  CInv'
<1>1. UNCHANGED <<master, slave, cursor, crossed, opc, job>>
  BY DEF BeginWrite, WriteLine, EndWrite, tvars, history
<1>2. tpc'[Two] = tpc[Two]
  <2>1. One \in Timers /\ One # Two
    BY TimersAre
  <2>2. tpc' = tpc \/ \E state : Goto(One, state)
    BY DEF BeginWrite, WriteLine, EndWrite, tvars
  <2> QED BY <2>1, <2>2, GotoFacts, TimersAre DEF IInv
<1>3. Fresh' /\ WholeCaches' /\ CursorLive' /\ AtNode'
  <2>1. Fresh' /\ WholeCaches' /\ CursorLive'
    BY <1>1, <1>2 DEF CInv, Fresh, WholeCaches, CursorLive
  <2>2. AtNode'
    BY <1>1, <1>2, HereSame DEF CInv, AtNode
  <2> QED BY <2>1, <2>2
<1>4. /\ \E S : file \in Seq(S)
      /\ \E S : saving \in Seq(S)
      /\ Len(file) \in Nat /\ Len(saving) \in Nat
  BY DEF CInv, Saved
<1>5. /\ \E S : WriteLines(slave) \in Seq(S)
      /\ Len(WriteLines(slave)) = Len(slave.list)
      /\ Len(slave.list) \in Nat
      /\ \A h \in 1..Len(slave.list) : WriteLines(slave)[h] = LineOf(slave.list[h])
      /\ WriteLines(slave)' = WriteLines(slave)
  BY <1>1, PlacedLines DEF CInv, WholeCaches, WholeBut, WriteLines
<1>6. CASE BeginWrite
  <2>1. tpc'[One] = "write"
    <3>1. Goto(One, "write")
      BY <1>6 DEF BeginWrite
    <3> QED BY <3>1, GotoFacts, TimersAre DEF IInv
  <2>2. CASE file' = <<>> /\ saving' = WriteLines(slave)
    <3>1. file' \in Seq({}) /\ Len(file') = 0
      BY <2>2
    <3>2. Saved'
      BY <1>5, <2>1, <2>2, <3>1 DEF Saved, Writing
    <3> QED BY <1>3, <3>2 DEF CInv
  <2>3. CASE saving' = file /\ UNCHANGED file
    <3>1. Saved'
      BY <1>4, <2>1, <2>3 DEF Saved, Writing
    <3> QED BY <1>3, <3>1 DEF CInv
  <2> QED BY <1>6, <2>2, <2>3 DEF BeginWrite
<1>7. CASE WriteLine
  <2> DEFINE n == Len(file)
  <2>1. /\ Writing /\ n < Len(saving) /\ UNCHANGED <<tpc, saving, torn>>
        /\ file' = Append(file, LineOf(slave.list[n + 1]))
    BY <1>7 DEF WriteLine, tvars, history
  <2>2. saving = WriteLines(slave) /\ n + 1 \in 1..Len(slave.list)
    BY <1>4, <1>5, <2>1 DEF CInv, Saved
  <2>3. saving[n + 1] = LineOf(slave.list[n + 1])
    BY <1>5, <2>2
  <2>4. PICK S : file \in Seq(S)
    BY <1>4
  <2> DEFINE line == LineOf(slave.list[n + 1])
             T == S \cup {line}
  <2>5. line \in T /\ file \in Seq(T)
    <3>1. S \subseteq T
      OBVIOUS
    <3> QED BY <2>4, <3>1, SeqMonotonic
  <2> HIDE DEF line, T
  <2>6. /\ file' \in Seq(T) /\ Len(file') = n + 1 /\ file'[n + 1] = line
        /\ \A i \in 1..n : file'[i] = file[i]
    <3>1. file' = Append(file, line)
      BY <2>1 DEF line
    <3> QED BY <2>5, <3>1, AppendProperties
  <2>7. \A i \in 1..(n + 1) : file'[i] = saving[i]
    BY <1>4, <2>3, <2>6 DEF CInv, Saved, line
  <2>8. n + 1 <= Len(saving)
    BY <1>4, <2>1
  <2>9. Saved'
    BY <1>4, <1>5, <2>1, <2>2, <2>6, <2>7, <2>8 DEF CInv, Saved, Writing
  <2> QED BY <1>3, <2>9 DEF CInv
<1>8. CASE EndWrite
  <2>1. /\ Len(file) >= Len(saving) /\ UNCHANGED <<file, saving, torn>>
        /\ Goto(One, "loop")
    BY <1>8 DEF EndWrite, history
  <2>2. tpc'[One] = "loop"
    BY <2>1, GotoFacts, TimersAre DEF IInv
  <2>3. Len(file) = Len(saving)
    BY <1>4, <2>1 DEF CInv, Saved
  <2>4. file = saving
    BY <1>4, <2>3, SameLines DEF CInv, Saved
  <2>5. Saved'
    BY <2>1, <2>2, <2>4 DEF CInv, Saved, Writing
  <2> QED BY <1>3, <2>5 DEF CInv
<1> QED BY <1>6, <1>7, <1>8

(* A copy starts from the front of the master.                             *)
LEMMA CInvBeginCopy ==
    ASSUME IInv, CInv, BeginCopy
    PROVE  CInv'
<1>1. /\ UNCHANGED <<master, file, opc, job, saving, torn>>
      /\ slave' = EmptyCache /\ crossed' = {}
      /\ cursor' = FirstOf(master.list)
      /\ tpc[Two] = "callback" /\ mutex = "free" /\ Goto(Two, "copy")
  BY DEF BeginCopy, Lock
<1>2. tpc'[Two] = "copy" /\ tpc'[One] = tpc[One] /\ tpc[One] # "write"
  BY <1>1, GotoFacts, TimersAre DEF IInv, Callbacks
<1>3. opc # "new"
  BY <1>1 DEF IInv, Unspawned
<1>4. Whole(master) /\ Len(master.list) \in Nat
  BY WriteLinesIs DEF CInv, WholeCaches
<1>5. \A i \in 1..Len(master.list) : master.list[i].id \in 1..Len(master.list)
  BY <1>4, WriteLinesIs DEF Whole
<1>6. cursor' \in 0..Len(master.list)
  <2>1. master.list # <<>> => 1 \in 1..Len(master.list)
    BY <1>4 DEF Whole
  <2> QED BY <1>1, <1>4, <1>5, <2>1 DEF FirstOf
<1>7. Fresh' /\ WholeCaches'
  BY <1>1, <1>3, <1>4, EmptyWhole, WholeIs DEF Fresh, WholeCaches
<1>8. CursorLive' /\ AtNode'
  BY <1>1, <1>2, <1>6 DEF CursorLive, AtNode
<1>9. Saved'
  BY <1>1, <1>2 DEF CInv, Saved, Writing
<1> QED BY <1>7, <1>8, <1>9 DEF CInv

(* The rest of a copy leaves all but the slave and its own place alone.    *)
LEMMA CInvWalk ==
    ASSUME IInv, CInv, NEW state \in {"copy", "val", "map", "next", "loop"},
           Goto(Two, state), tpc[Two] \in CopyStates,
           UNCHANGED <<master, file, opc, job, crossed, saving, torn>>
    PROVE  /\ tpc'[Two] = state
           /\ Fresh' /\ Saved'
           /\ Whole(master) /\ WholeBut(slave, crossed)
           /\ Len(master.list) \in Nat /\ Len(slave.list) \in Nat
<1>1. tpc'[Two] = state /\ tpc'[One] = tpc[One]
  BY GotoFacts, TimersAre DEF IInv
<1>2. tpc[One] # "write" /\ opc # "new"
  BY TimersAre DEF IInv, Callbacks, Unspawned
<1>3. Fresh'
  BY <1>2 DEF Fresh
<1>4. Saved'
  BY <1>1, <1>2 DEF CInv, Saved, Writing
<1>5. Whole(master) /\ WholeBut(slave, crossed)
  BY DEF CInv, WholeCaches
<1> QED BY <1>1, <1>3, <1>4, <1>5, WriteLinesIs, PlacedLines DEF WholeBut

(* The copy adds the node it stands on to the slave, reads it again for    *)
(* the answer and for the key of the map entry, and goes on to the next.   *)
LEMMA CInvCopy ==
    ASSUME IInv, CInv, BeginCopy \/ Copy
    PROVE  CInv'
<1>1. CASE CopyKey
  <2> DEFINE k == Here.key
             v == Here.val
             L == Len(slave.list)
  <2>1. /\ UNCHANGED <<master, file, opc, job, crossed, saving, torn, cursor>>
        /\ slave' = AddNode(slave, k, v) /\ cursor # 0
        /\ Goto(Two, "val") /\ tpc[Two] = "copy"
    BY <1>1 DEF CopyKey, history
  <2>2. /\ tpc'[Two] = "val" /\ Fresh' /\ Saved'
        /\ Whole(master) /\ WholeBut(slave, crossed) /\ L \in Nat
    BY <2>1, CInvWalk
  <2>3. /\ NodesPlaced(slave') /\ slave'.map = slave.map
        /\ Len(slave'.list) = L + 1
        /\ slave'.list[L + 1] = Node(L + 1, k, v)
        /\ Nodes(slave') = Nodes(slave) \cup {Node(L + 1, k, v)}
    BY <2>1, <2>2, AddNodeIs DEF WholeBut
  <2>4. WholeBut(slave', crossed)
    <3>1. \A x \in DOMAIN slave'.map :
             \E n \in Nodes(slave') :
                n.id = slave'.map[x] /\ (n.key = x \/ x \in crossed)
      BY <2>2, <2>3 DEF WholeBut
    <3> QED BY <2>3, <3>1 DEF WholeBut
  <2>5. Here'.key = k
    BY <2>1 DEF Here, NodeAt, Position
  <2>6. AtNode'
    <3>1. Len(slave'.list) > 0
      BY <2>2, <2>3
    <3> QED BY <2>3, <2>5, <3>1 DEF AtNode
  <2>7. WholeCaches' /\ CursorLive'
    BY <2>1, <2>2, <2>4 DEF CInv, WholeCaches, CursorLive
  <2> QED BY <2>2, <2>6, <2>7 DEF CInv
<1>2. CASE CopyVal
  <2> DEFINE v == Here.val
             L == Len(slave.list)
  <2>1. /\ UNCHANGED <<master, file, opc, job, crossed, saving, torn, cursor>>
        /\ slave' = SetVal(slave, v)
        /\ Goto(Two, "map") /\ tpc[Two] = "val"
    BY <1>2 DEF CopyVal, history
  <2>2. /\ tpc'[Two] = "map" /\ Fresh' /\ Saved'
        /\ Whole(master) /\ WholeBut(slave, crossed) /\ L \in Nat
    BY <2>1, CInvWalk
  <2>3. PICK k, u : /\ L > 0 /\ slave.list[L] = Node(L, k, u)
                    /\ Here.key = k \/ Here.key \in crossed
    BY <2>1 DEF CInv, AtNode
  <2> HIDE DEF v
  <2>4. /\ WholeBut(slave', crossed) /\ Len(slave'.list) = L
        /\ slave'.list[L] = Node(L, k, v)
    <3>1. /\ Len(slave.list) > 0 /\ WholeBut(slave, crossed)
          /\ slave.list[Len(slave.list)] = Node(Len(slave.list), k, u)
      BY <2>2, <2>3
    <3>2. /\ WholeBut(SetVal(slave, v), crossed)
          /\ LastSet(slave, SetVal(slave, v), k, v)
      BY <3>1, SetValIs
    <3> QED BY <2>1, <3>2 DEF LastSet
  <2>5. Here' = Here
    BY <2>1 DEF Here, NodeAt, Position
  <2>6. AtNode'
    BY <2>1, <2>3, <2>4, <2>5 DEF AtNode
  <2>7. WholeCaches' /\ CursorLive'
    BY <2>1, <2>2, <2>4 DEF CInv, WholeCaches, CursorLive
  <2> QED BY <2>2, <2>6, <2>7 DEF CInv
<1>3. CASE MapNode
  <2> DEFINE h == Here.key
             L == Len(slave.list)
  <2>1. /\ UNCHANGED <<master, file, opc, job, crossed, saving, torn, cursor>>
        /\ slave' = MapLast(slave, h)
        /\ Goto(Two, "next") /\ tpc[Two] = "map"
    BY <1>3 DEF MapNode, history
  <2>2. /\ tpc'[Two] = "next" /\ Fresh' /\ Saved'
        /\ Whole(master) /\ WholeBut(slave, crossed) /\ L \in Nat
    BY <2>1, CInvWalk
  <2>3. PICK k, u : /\ L > 0 /\ slave.list[L] = Node(L, k, u)
                    /\ h = k \/ h \in crossed
    BY <2>1 DEF CInv, AtNode
  <2> HIDE DEF h
  <2>4. Last(slave.list).id = L /\ (Last(slave.list).key = h \/ h \in crossed)
    BY <2>3 DEF Last, Node
  <2>5. WholeBut(slave', crossed)
    BY <2>1, <2>2, <2>3, <2>4, MapLastIs
  <2>6. WholeCaches' /\ CursorLive' /\ AtNode'
    BY <2>1, <2>2, <2>5 DEF CInv, WholeCaches, CursorLive, AtNode
  <2> QED BY <2>2, <2>6 DEF CInv
<1>4. CASE NextNode
  <2>1. /\ UNCHANGED <<master, slave, file, opc, job, crossed, saving, torn>>
        /\ cursor' = After(master.list, Position(master, cursor))
        /\ Goto(Two, "copy") /\ tpc[Two] = "next"
    BY <1>4 DEF NextNode, history
  <2>2. /\ tpc'[Two] = "copy" /\ Fresh' /\ Saved'
        /\ Whole(master) /\ WholeBut(slave, crossed)
        /\ Len(master.list) \in Nat
    BY <2>1, CInvWalk
  <2>3. cursor \in 1..Len(master.list)
    BY <2>1, <2>2 DEF CInv, CursorLive
  <2>4. Position(master, cursor) \in 1..Len(master.list)
    BY <2>2, <2>3, PositionIs
  <2>5. \A i \in 1..Len(master.list) : master.list[i].id \in 1..Len(master.list)
    BY <2>2, WriteLinesIs DEF Whole
  <2>6. cursor' \in 0..Len(master.list)
    BY <2>1, <2>2, <2>4, <2>5 DEF After
  <2>7. WholeCaches' /\ CursorLive' /\ AtNode'
    BY <2>1, <2>2, <2>6 DEF WholeCaches, CursorLive, AtNode
  <2> QED BY <2>2, <2>7 DEF CInv
<1>5. CASE EndCopy
  <2>1. /\ UNCHANGED <<master, slave, file, opc, job, crossed, saving, torn,
                        cursor>>
        /\ Goto(Two, "loop") /\ tpc[Two] = "copy"
    BY <1>5 DEF EndCopy
  <2>2. /\ tpc'[Two] = "loop" /\ Fresh' /\ Saved'
        /\ Whole(master) /\ WholeBut(slave, crossed)
    BY <2>1, CInvWalk
  <2>3. WholeCaches' /\ CursorLive' /\ AtNode'
    BY <2>1, <2>2 DEF CInv, WholeCaches, CursorLive, AtNode
  <2> QED BY <2>2, <2>3 DEF CInv
<1> QED BY <1>1, <1>2, <1>3, <1>4, <1>5, CInvBeginCopy DEF Copy

(* A worker's put keeps the master whole and no smaller.  When it has put  *)
(* its own node where the copy stands, the history says so.                *)
LEMMA CInvPut ==
    ASSUME IInv, CInv, NEW w \in Workers, PutIntoMaster(w)
    PROVE  CInv'
<1> DEFINE k == job[w].key
           v == job[w].val
<1>1. /\ master' = Put(master, k, v, MaxSize)
      /\ UNCHANGED <<tpc, slave, file, opc, cursor, saving, torn>>
      /\ crossed' = IF Crosses THEN crossed \cup {k} ELSE crossed
  BY DEF PutIntoMaster, tvars
<1>2. Whole(master') /\ Len(master'.list) \in Nat /\ Len(master'.list) >= Len(master.list)
  BY <1>1, PutWhole, ManagerAssumption DEF CInv, WholeCaches
<1>3. opc # "new"
  BY DEF PutIntoMaster, CInv, Fresh
<1>4. WriteLines(slave)' = WriteLines(slave)
  BY <1>1 DEF WriteLines
<1>5. crossed \subseteq crossed'
  BY <1>1
<1>6. Fresh' /\ WholeCaches'
  <2>1. WholeBut(slave, crossed')
    BY <1>5, MoreWords DEF CInv, WholeCaches
  <2> QED BY <1>1, <1>2, <1>3, <2>1 DEF Fresh, WholeCaches
<1>7. Len(master.list) \in Nat
  BY WriteLinesIs DEF CInv, WholeCaches
<1>8. CursorLive'
  BY <1>1, <1>2, <1>7 DEF CInv, CursorLive
<1>9. AtNode'
  <2>1. CASE tpc[Two] \notin {"val", "map"}
    BY <1>1, <2>1 DEF AtNode
  <2>2. CASE tpc[Two] \in {"val", "map"}
    <3>1. cursor \in 1..Len(master.list)
      BY <1>7, <2>2 DEF CInv, CursorLive
    <3>2. Here' = NodeAt(Put(master, k, v, MaxSize), cursor)
      BY <1>1 DEF Here, NodeAt, Position
    <3> HIDE DEF k, v
    <3>3. Here' = Here \/ Here'.key = k
      BY <3>1, <3>2, PutAt, ManagerAssumption DEF Here, CInv, WholeCaches
    <3>4. Here'.key = Here.key \/ Here'.key \in crossed'
      BY <1>1, <2>2, <3>3 DEF Crosses
    <3> QED BY <1>1, <1>5, <2>2, <3>4 DEF CInv, AtNode
  <2> QED BY <2>1, <2>2
<1>10. Saved'
  BY <1>1, <1>4 DEF CInv, Saved, Writing
<1> QED BY <1>6, <1>8, <1>9, <1>10 DEF CInv

(* A crash leaves the file and empties everything else; whether it tore a  *)
(* write is remembered.                                                    *)
LEMMA CInvCrash ==
    ASSUME CInv, Crash
    PROVE  CInv'
<1>1. /\ master' = EmptyCache /\ slave' = EmptyCache /\ cursor' = 0
      /\ job' = [w \in Workers |-> NoJob]
      /\ tpc' = [t \in Timers |-> "none"]
      /\ torn' = (torn \/ Writing) /\ UNCHANGED <<file, saving>>
  BY DEF Crash
<1>2. Fresh' /\ WholeCaches'
  BY <1>1, EmptyWhole, WholeIs DEF Fresh, WholeCaches
<1>3. CursorLive' /\ AtNode'
  BY <1>1, <1>2, WriteLinesIs, TimersAre DEF CursorLive, WholeCaches, AtNode
<1>4. Saved'
  BY <1>1, TimersAre DEF CInv, Saved, Writing
<1> QED BY <1>2, <1>3, <1>4 DEF CInv

(* Every step keeps CInv.                                                  *)
LEMMA CInvNext == IInv /\ CInv /\ [Next]_vars => CInv'
<1> SUFFICES ASSUME IInv, CInv, [Next]_vars PROVE CInv'
  OBVIOUS
<1>1. CASE Load
  BY <1>1, CInvLoad
<1>2. CASE \/ CallStop \/ Stop
           \/ \E t \in Timers : Spawn(t) \/ Timer(t) \/ Tick(t)
  BY <1>2, CInvThreads
<1>3. CASE BeginWrite \/ WriteLine \/ EndWrite
  BY <1>3, CInvWrite
<1>4. CASE BeginCopy \/ Copy
  BY <1>4, CInvCopy
<1>5. ASSUME NEW w \in Workers, NEW k \in Keys, Lookup(w, k)
      PROVE  CInv'
  <2>1. /\ UNCHANGED <<tpc, master, slave, file, opc, cursor, crossed, saving,
                        torn>>
        /\ opc # "new"
    BY <1>5 DEF Lookup, tvars, history
  <2> QED BY <2>1, CInvSame
<1>6. ASSUME NEW w \in Workers, PutIntoMaster(w) PROVE CInv'
  BY <1>6, CInvPut
<1>7. CASE Crash
  BY <1>7, CInvCrash
<1>8. CASE UNCHANGED vars
  BY <1>8, CInvSame DEF vars, tvars, cvars, history
<1> QED
  BY <1>1, <1>2, <1>3, <1>4, <1>5, <1>6, <1>7, <1>8 DEF Next, Start, Callback

(* Both invariants together.                                               *)
LEMMA CInvAlways == Spec => [](IInv /\ CInv)
<1>1. Init => IInv /\ CInv
  BY IInvInit, CInvInit
<1>2. (IInv /\ CInv) /\ [Next]_vars => (IInv /\ CInv)'
  BY IInvNext, CInvNext
<1> QED BY <1>1, <1>2, PTL DEF Spec

(* No iterator in a map dangles, in either cache, and each leads to a node *)
(* with its key but for words that a put has given the place of the node   *)
(* the copy was reading: whatever the file held, however puts moved and    *)
(* replaced the nodes a copy was walking over.                             *)
THEOREM IteratorsLive == Spec => []NoDanglingIterator
<1>1. CInv => NoDanglingIterator
  BY WholeSound, WholeIs DEF CInv, WholeCaches, NoDanglingIterator
<1> QED BY <1>1, CInvAlways, PTL

(* The file is the image of one complete slave, or as much of it as was    *)
(* written when the process died: for any crash between two lines.         *)
THEOREM FileIsOneCopy == Spec => []FileIsOneCompleteCopy
<1>1. IInv /\ CInv => FileIsOneCompleteCopy
  <2> SUFFICES ASSUME IInv, CInv PROVE FileIsOneCompleteCopy
    OBVIOUS
  <2>1. IsPrefix(file, saving)
    BY SameLines DEF CInv, Saved
  <2>2. Writing => WriteLines(slave) = copied
    BY TimersAre DEF IInv, Callbacks, SlaveComplete, Writing, Copying
  <2>3. ~Writing /\ ~torn => file = saving
    BY DEF CInv, Saved
  <2> QED BY <2>1, <2>2, <2>3 DEF FileIsOneCompleteCopy
<1> QED BY <1>1, CInvAlways, PTL

(* The two callbacks and stop() exclude each other: whoever is inside      *)
(* holds mutex_, whatever the timers, the workers and crashes do.          *)
THEOREM CallbacksExclusive == Spec => []TypeOK
<1>1. IInv => TypeOK
  BY DEF IInv, Callbacks, Places, TypeOK, Writing, Copying
<1> QED BY <1>1, IInvAlways, PTL

(* While the file is written the slave is the last complete one, so a      *)
(* write never saves half a copy: puts touch the master only, and the copy *)
(* waits for mutex_.                                                       *)
THEOREM WriteMeetsNoCopy == Spec => [](Writing => WriteLines(slave) = copied)
<1>1. IInv => (Writing => WriteLines(slave) = copied)
  BY TimersAre DEF IInv, Callbacks, SlaveComplete, Writing, Copying
<1> QED BY <1>1, IInvAlways, PTL

=============================================================================
