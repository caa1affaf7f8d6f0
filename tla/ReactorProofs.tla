--------------------------- MODULE ReactorProofs ---------------------------
(***************************************************************************)
(* Theorems about the network side, for any clients and lines, any size of *)
(* the table of slots, of the pool and of the sockets' buffers: slots, map *)
(* and connections agree, and no answer goes astray or comes twice.        *)
(*                                                                         *)
(* The heart of IInv is Descriptors: connections that are held have        *)
(* different descriptors, so the owner of a task's descriptor is the       *)
(* task's connection even when the poller has let that connection go and   *)
(* has accepted others since.                                              *)
(***************************************************************************)
EXTENDS Reactor, FiniteSetTheorems, SharedLemmas

Replies == [conn : Clients, line : Nat]
PoolTasks == Elems(pending) \cup running

Typed ==
    /\ peer \in [Clients -> {"away", "here", "gone"}]
    /\ backlog \in Seq(Clients)
    /\ answers \in [Clients -> Seq(Replies)]
    /\ fd \in [Clients -> Nat]
    /\ taken \in [Clients -> Nat]
    /\ slots \in Seq(Nat)
    /\ maxi \in 0..Len(slots)
    /\ pending \in Seq(Replies)
    /\ running \subseteq Replies

\* Where the IO thread is among the slots.
Place ==
    /\ 0 \in DOMAIN revents
    /\ pc = "accept" /\ revents[0] => backlog # <<>>
    /\ pc = "data" => at \in Nat \ {0}
    /\ pc \in {"read", "submit"} => at \in 1..Len(slots) /\ slots[at] # 0

SlotsAndMap ==
    /\ DOMAIN itmap = Elems(slots) \ {0}
    /\ \A i \in 1..Len(slots) : slots[i] # 0 =>
          i <= maxi /\ \A j \in 1..Len(slots) : slots[j] = slots[i] => j = i
    /\ \A f \in DOMAIN itmap : itmap[f] \in Clients /\ fd[itmap[f]] = f

Descriptors ==
    \A c \in Clients : Held(c) =>
        /\ fd[c] \in 1..Cardinality(Clients)
        /\ \A d \in Clients : Held(d) /\ fd[d] = fd[c] => d = c

\* A client not accepted yet has no descriptor and was told nothing.
Unaccepted ==
    /\ Distinct(backlog)
    /\ \A c \in Clients :
          /\ peer[c] = "away" => c \notin Elems(backlog)
          /\ peer[c] = "away" \/ c \in Elems(backlog) =>
                ~Held(c) /\ answers[c] = <<>>

\* The line in hand was answered by nobody and is no task yet.
Submitting(c) == pc = "submit" /\ c = itmap[slots[at]]
Within(c, n) == n <= taken[c] /\ (Submitting(c) => n < taken[c])

LinesTaken ==
    \A c \in Clients :
        /\ Submitting(c) => taken[c] >= 1
        /\ \A r \in Elems(answers[c]) : r.conn = c /\ Within(c, r.line)
        /\ \A t \in PoolTasks : t.conn = c => t.line >= 1 /\ Within(c, t.line)

Once ==
    /\ Distinct(pending)
    /\ Elems(pending) \cap running = {}
    /\ \A c \in Clients :
          /\ Distinct(answers[c])
          /\ \A t \in PoolTasks : t.conn = c => t \notin Elems(answers[c])

IInv ==
    Typed /\ Place /\ SlotsAndMap /\ Descriptors /\ Unaccepted /\ LinesTaken /\ Once

-----------------------------------------------------------------------------
(* Descriptors, and what holds a connection.                               *)

(* The map or a task of the pool is what holds a connection.               *)
LEMMA HeldBy ==
    ASSUME NEW c
    PROVE  Held(c) <=> \/ \E f \in DOMAIN itmap : itmap[f] = c
                       \/ \E t \in PoolTasks : t.conn = c
BY DEF Held, Range, PoolTasks, Elems, Pool!PendingSet

(* Who owns a descriptor.                                                  *)
LEMMA OwnersAre ==
    ASSUME NEW f, NEW c
    PROVE  c \in Owners(f) <=> c \in Clients /\ fd[c] = f /\ Held(c)
BY DEF Owners

(* A connection that nothing holds leaves a descriptor free: there are as  *)
(* many descriptors as clients.                                            *)
LEMMA FreeFdFacts ==
    ASSUME NEW c \in Clients, ~Held(c)
    PROVE  FreeFd \in 1..Cardinality(Clients) /\ Owners(FreeFd) = {}
<1> DEFINE N == Cardinality(Clients)
           others == Clients \ {c}
           free == {f \in 1..N : Owners(f) = {}}
<1>1. /\ N \in Nat
      /\ IsFiniteSet(others) /\ Cardinality(others) = N - 1
  BY ReactorAssumption, FS_CardinalityType, FS_RemoveElement
<1>2. IsFiniteSet(1..N) /\ Cardinality(1..N) = N
  <2>1. /\ IsFiniteSet(1..N)
        /\ Cardinality(1..N) = IF 1 > N THEN 0 ELSE N - 1 + 1
    BY <1>1, FS_Interval, SMTT(30)
  <2> QED BY <1>1, <2>1
<1>3. ASSUME free = {} PROVE FALSE
  <2> DEFINE h == [f \in 1..N |-> CHOOSE d : d \in Owners(f)]
  <2>1. \A f \in 1..N : h[f] \in Owners(f)
    BY <1>3
  <2>2. \A f \in 1..N : h[f] \in others /\ fd[h[f]] = f
    BY <2>1, OwnersAre
  <2> HIDE DEF h
  <2>3. h \in [1..N -> others]
    BY <2>2 DEF h
  <2>4. \E f, g \in 1..N : f # g /\ h[f] = h[g]
    <3>1. Cardinality(others) < Cardinality(1..N)
      BY <1>1, <1>2
    <3> QED BY <1>1, <1>2, <2>3, <3>1, FS_PigeonHole
  <2> QED BY <2>2, <2>4
<1>4. free # {} /\ free \subseteq Nat
  BY <1>3
<1>5. Min(free) \in free
  BY <1>4, MinFacts
<1> QED BY <1>5 DEF FreeFd

(* What a write does to the answers.                                       *)
LEMMA WriteFacts ==
    ASSUME Typed, NEW c \in Clients, NEW r \in Replies, Write(c, r)
    PROVE  /\ answers' \in [Clients -> Seq(Replies)]
           /\ \A d \in Clients : d # c => answers'[d] = answers[d]
           /\ \/ answers'[c] = answers[c]
              \/ /\ answers'[c] = Append(answers[c], r)
                 /\ Elems(answers'[c]) = Elems(answers[c]) \cup {r}
                 /\ Distinct(answers[c]) /\ r \notin Elems(answers[c]) =>
                       Distinct(answers'[c])
<1>1. answers \in [Clients -> Seq(Replies)] /\ answers[c] \in Seq(Replies)
  BY DEF Typed
<1>2. CASE answers' = answers
  BY <1>1, <1>2
<1>3. CASE answers' = [answers EXCEPT ![c] = Append(answers[c], r)]
  <2>1. /\ Elems(Append(answers[c], r)) = Elems(answers[c]) \cup {r}
        /\ Distinct(answers[c]) /\ r \notin Elems(answers[c]) =>
              Distinct(Append(answers[c], r))
    BY <1>1, AppendElems
  <2>2. Append(answers[c], r) \in Seq(Replies)
    BY <1>1
  <2> QED BY <1>1, <1>3, <2>1, <2>2
<1> QED BY <1>2, <1>3 DEF Write

-----------------------------------------------------------------------------
(* The inductive invariant.                                                *)

(* The empty sequence holds nothing, and nothing twice.                    *)
LEMMA EmptyElems == Elems(<<>>) = {} /\ Distinct(<<>>)
BY DEF Elems, Distinct

(* At first there are no connections and no tasks.                         *)
LEMMA IInvInit == Init => IInv
<1> SUFFICES ASSUME Init PROVE IInv
  OBVIOUS
<1>1. /\ pending = <<>> /\ running = {} /\ backlog = <<>>
      /\ PoolTasks = {}
  BY EmptyElems DEF Init, Pool!DInit, PoolTasks
<1>2. slots \in Seq(Nat) /\ \A i \in 1..Len(slots) : slots[i] = 0
  BY ReactorAssumption DEF Init
<1>3. itmap = <<>> /\ DOMAIN itmap = {}
  BY DEF Init
<1>4. Typed
  BY <1>1, <1>2 DEF Init, Typed
<1>5. Place /\ SlotsAndMap
  BY <1>2, <1>3 DEF Init, Place, SlotsAndMap, Elems
<1>6. \A c \in Clients : ~Held(c)
  BY <1>1, <1>3, HeldBy
<1>7. \A c \in Clients : answers[c] = <<>>
  BY DEF Init
<1>8. Descriptors /\ Unaccepted
  BY <1>1, <1>6, <1>7, EmptyElems DEF Descriptors, Unaccepted
<1>9. LinesTaken
  BY <1>1, <1>7, EmptyElems DEF Init, LinesTaken, Submitting
<1>10. Once
  BY <1>1, <1>7, EmptyElems DEF Once
<1> QED BY <1>4, <1>5, <1>8, <1>9, <1>10 DEF IInv

(* Steps of clients: only Connect changes who is accepted.                 *)
LEMMA IInvClient ==
    ASSUME IInv, NEW c \in Clients, Client(c)
    PROVE  IInv'
<1> USE DEF IInv
<1>1. UNCHANGED <<answers, fd, taken, slots, revents, maxi, itmap, pc, at,
                  pending, running>>
  BY DEF Client, Connect, Speak, SendBytes, ShutdownWrite, Close, ReadAnswers,
         poller, reader, iothread, tasks
<1>2. SlotsAndMap' /\ LinesTaken' /\ Once' /\ PoolTasks' = PoolTasks
  BY <1>1 DEF SlotsAndMap, LinesTaken, Once, PoolTasks, Submitting, Within
<1>3. \A d \in Clients : Held(d)' <=> Held(d)
  BY <1>1 DEF Held, Pool!PendingSet
<1>4. Descriptors'
  BY <1>1, <1>3 DEF Descriptors
<1>5. CASE Connect(c)
  <2>1. /\ peer[c] = "away" /\ peer' = [peer EXCEPT ![c] = "here"]
        /\ backlog' = Append(backlog, c)
    BY <1>5 DEF Connect
  <2>2. backlog \in Seq(Clients) /\ c \notin Elems(backlog)
    BY <2>1 DEF Typed, Unaccepted
  <2>3. /\ backlog' \in Seq(Clients)
        /\ Elems(backlog') = Elems(backlog) \cup {c}
        /\ Distinct(backlog')
    BY <2>1, <2>2, AppendElems DEF Unaccepted
  <2>4. Typed' /\ backlog' # <<>>
    BY <1>1, <2>1, <2>2, <2>3 DEF Typed
  <2>5. Unaccepted'
    BY <1>1, <1>3, <2>1, <2>2, <2>3 DEF Unaccepted, Typed
  <2>6. Place'
    BY <1>1, <2>4 DEF Place
  <2> QED BY <1>2, <1>4, <2>4, <2>5, <2>6
<1>6. CASE ~Connect(c)
  <2>1. /\ backlog' = backlog
        /\ \/ peer' = peer
           \/ peer[c] = "here" /\ peer' = [peer EXCEPT ![c] = "gone"]
    BY <1>6 DEF Client, Speak, SendBytes, ShutdownWrite, Close, ReadAnswers, Here
  <2>2. Typed' /\ Place'
    BY <1>1, <2>1 DEF Typed, Place
  <2>3. \A d \in Clients : peer'[d] = "away" => peer[d] = "away"
    BY <2>1 DEF Typed
  <2>4. Unaccepted'
    BY <1>1, <1>3, <2>1, <2>3 DEF Unaccepted
  <2> QED BY <1>2, <1>4, <2>2, <2>4
<1> QED BY <1>5, <1>6

(* Steps that move the IO thread only.                                     *)
LEMMA IInvMove ==
    ASSUME IInv, Place', pc' # "submit" \/ UNCHANGED <<pc, at>>,
           UNCHANGED <<peer, backlog, answers, fd, taken, slots, maxi, itmap,
                       pending, running>>
    PROVE  IInv'
<1> USE DEF IInv
<1>1. Typed'
  BY DEF Typed
<1>2. PoolTasks' = PoolTasks /\ Once'
  BY DEF PoolTasks, Once
<1>3. \A c \in Clients : Held(c)' <=> Held(c)
  BY DEF Held, Pool!PendingSet
<1>4. SlotsAndMap' /\ Descriptors' /\ Unaccepted'
  BY <1>3 DEF SlotsAndMap, Descriptors, Unaccepted
<1>5. \A c \in Clients : Submitting(c)' => Submitting(c)
  BY DEF Submitting
<1>6. \A c \in Clients : \A n : Within(c, n) => Within(c, n)'
  BY <1>5 DEF Within
<1>7. LinesTaken'
  BY <1>2, <1>5, <1>6 DEF LinesTaken
<1> QED BY <1>1, <1>2, <1>4, <1>7

(* The slot that is due is used, and the map knows its descriptor.         *)
LEMMA DueFacts ==
    ASSUME IInv, pc = "data", Due # {}
    PROVE  LET i == Min(Due)
           IN  i \in 1..Len(slots) /\ slots[i] # 0 /\ slots[i] \in DOMAIN itmap
<1>1. at \in Nat \ {0} /\ maxi \in 0..Len(slots)
  BY DEF IInv, Place, Typed
<1>2. Due \subseteq Nat
  BY <1>1 DEF Due
<1>3. Min(Due) \in Due
  BY <1>2, MinFacts
<1>4. Min(Due) \in 1..Len(slots) /\ slots[Min(Due)] # 0
  BY <1>1, <1>3 DEF Due
<1> QED BY <1>4 DEF IInv, SlotsAndMap, Elems

(* A new connection: its descriptor is one nobody owns.                    *)
LEMMA IInvAccept ==
    ASSUME IInv, HandleAccept
    PROVE  IInv'
<1> USE DEF IInv
<1>0. PICK c, i, f : c = Head(backlog) /\ i = Min(FreeSlots) /\ f = FreeFd
  OBVIOUS
<1>1. /\ FreeSlots # {} /\ backlog' = Tail(backlog)
      /\ slots' = [slots EXCEPT ![i] = f]
      /\ maxi' = IF i > maxi THEN i ELSE maxi
      /\ fd' = [fd EXCEPT ![c] = f]
      /\ itmap' = [g \in DOMAIN itmap \cup {f} |->
                      IF g \in DOMAIN itmap THEN itmap[g] ELSE c]
      /\ Write(c, Reply(c, 0))
      /\ pc' = "data" /\ at' = 1
      /\ UNCHANGED <<peer, taken, revents, pending, running>>
  BY <1>0 DEF HandleAccept, Covering, Greet, reader, tasks
<1>2. /\ c \in Clients /\ c \in Elems(backlog)
      /\ backlog' \in Seq(Clients)
      /\ Elems(backlog') = Elems(backlog) \ {c}
      /\ Distinct(backlog')
  <2>1. /\ backlog \in Seq(Clients) /\ Distinct(backlog)
        /\ backlog # <<>>
    BY DEF Typed, Unaccepted, Place, HandleAccept, Accepting, At
  <2>2. c \in Clients /\ Tail(backlog) \in Seq(Clients)
    BY <1>0, <2>1
  <2> QED BY <1>0, <1>1, <2>1, <2>2, TailElems
<1>3. ~Held(c) /\ answers[c] = <<>> /\ peer[c] # "away"
  BY <1>2 DEF Unaccepted
<1>4. f \in 1..Cardinality(Clients) /\ Owners(f) = {} /\ f \in Nat /\ f # 0
  <2>1. Cardinality(Clients) \in Nat
    BY ReactorAssumption, FS_CardinalityType
  <2> QED BY <1>0, <1>2, <1>3, <2>1, FreeFdFacts
<1>5. i \in 1..Len(slots) /\ slots[i] = 0
  <2>1. FreeSlots \subseteq Nat /\ FreeSlots \subseteq 1..Len(slots)
    BY DEF FreeSlots, Typed
  <2>2. i \in FreeSlots
    BY <1>0, <1>1, <2>1, MinFacts
  <2> QED BY <2>1, <2>2 DEF FreeSlots
<1>6. f \notin DOMAIN itmap
  <2> SUFFICES ASSUME f \in DOMAIN itmap PROVE FALSE
    OBVIOUS
  <2>1. itmap[f] \in Clients /\ fd[itmap[f]] = f /\ Held(itmap[f])
    BY HeldBy DEF SlotsAndMap
  <2> QED BY <1>4, <2>1, OwnersAre
<1>7. /\ DOMAIN itmap' = DOMAIN itmap \cup {f}
      /\ itmap'[f] = c
      /\ \A g \in DOMAIN itmap : itmap'[g] = itmap[g]
  BY <1>1, <1>6
<1>8. PoolTasks' = PoolTasks
  BY <1>1 DEF PoolTasks
<1>9. /\ Held(c)'
      /\ \A d \in Clients : d # c => (Held(d)' <=> Held(d))
  <2>1. \A d : Held(d)' <=> \/ \E g \in DOMAIN itmap' : itmap'[g] = d
                            \/ \E t \in PoolTasks' : t.conn = d
    BY <1>1 DEF Held, Range, PoolTasks, Elems, Pool!PendingSet
  <2>2. Held(c)'
    BY <1>7, <2>1
  <2>3. \A d \in Clients : d # c =>
           ((\E g \in DOMAIN itmap' : itmap'[g] = d) <=>
                \E g \in DOMAIN itmap : itmap[g] = d)
    BY <1>7
  <2> QED BY <1>8, <2>1, <2>2, <2>3, HeldBy
<1>10. /\ fd' \in [Clients -> Nat] /\ fd'[c] = f
       /\ \A d \in Clients : d # c => fd'[d] = fd[d]
  BY <1>1, <1>2, <1>4 DEF Typed
<1>11. /\ slots' \in Seq(Nat) /\ Len(slots') = Len(slots) /\ slots'[i] = f
       /\ \A j \in 1..Len(slots) : j # i => slots'[j] = slots[j]
  BY <1>1, <1>4, <1>5 DEF Typed
<1>12. /\ Reply(c, 0) \in Replies
       /\ Reply(c, 0).conn = c /\ Reply(c, 0).line = 0
  BY <1>2 DEF Reply, Replies
<1>13. /\ answers' \in [Clients -> Seq(Replies)]
       /\ \A d \in Clients : d # c => answers'[d] = answers[d]
       /\ Elems(answers'[c]) \subseteq {Reply(c, 0)}
       /\ Distinct(answers'[c])
  BY <1>1, <1>2, <1>3, <1>12, WriteFacts, EmptyElems, ZenonT(40)
<1>14. Typed'
  <2>1. maxi' \in 0..Len(slots')
    BY <1>1, <1>5, <1>11 DEF Typed
  <2> QED BY <1>1, <1>2, <1>10, <1>11, <1>13, <2>1 DEF Typed
<1>15. Place'
  BY <1>1 DEF Place
<1>16. SlotsAndMap'
  <2>1. \A j \in 1..Len(slots) : slots[j] # f
    BY <1>4, <1>6 DEF SlotsAndMap, Elems
  <2>2. Elems(slots') \ {0} = (Elems(slots) \ {0}) \cup {f}
    BY <1>4, <1>5, <1>11 DEF Elems
  <2>3. /\ maxi \in Nat /\ i \in Nat /\ maxi' \in Nat
        /\ maxi <= maxi' /\ i <= maxi'
    BY <1>1, <1>5 DEF Typed
  <2>4. \A j \in 1..Len(slots) : slots'[j] # 0 =>
           j <= maxi' /\ \A k \in 1..Len(slots) : slots'[k] = slots'[j] => k = j
    <3> SUFFICES ASSUME NEW j \in 1..Len(slots), slots'[j] # 0
                 PROVE  /\ j <= maxi'
                        /\ \A k \in 1..Len(slots) : slots'[k] = slots'[j] => k = j
      OBVIOUS
    <3>1. CASE j = i
      BY <1>11, <2>1, <2>3, <3>1
    <3>2. CASE j # i
      <4>1. slots'[j] = slots[j] /\ slots[j] # 0 /\ slots[j] # f
        BY <1>11, <2>1, <3>2
      <4>2. j <= maxi /\ \A k \in 1..Len(slots) : slots[k] = slots[j] => k = j
        BY <4>1 DEF SlotsAndMap
      <4> QED BY <1>11, <2>3, <4>1, <4>2
    <3> QED BY <3>1, <3>2
  <2>5. \A g \in DOMAIN itmap' : itmap'[g] \in Clients /\ fd'[itmap'[g]] = g
    <3>1. \A g \in DOMAIN itmap : itmap[g] # c
      BY <1>3, HeldBy
    <3> QED BY <1>2, <1>7, <1>10, <3>1 DEF SlotsAndMap
  <2> QED BY <1>7, <1>11, <2>2, <2>4, <2>5 DEF SlotsAndMap
<1>17. Descriptors'
  <2>1. \A d \in Clients : Held(d) => fd[d] # f
    BY <1>4, OwnersAre
  <2> QED BY <1>2, <1>3, <1>4, <1>9, <1>10, <2>1 DEF Descriptors
<1>18. Unaccepted'
  BY <1>1, <1>2, <1>3, <1>9, <1>13 DEF Unaccepted
<1>19. \A d \in Clients : ~Submitting(d)'
  BY <1>1 DEF Submitting
<1>20. \A t \in PoolTasks : t.conn # c
  BY <1>3, HeldBy
<1>21. LinesTaken'
  <2>1. taken[c] \in Nat
    BY <1>2 DEF Typed
  <2>2. \A d \in Clients : \A n : Within(d, n) => Within(d, n)'
    BY <1>1, <1>19 DEF Within
  <2>3. Within(c, 0)'
    BY <1>1, <1>2, <1>19, <2>1 DEF Within
  <2> QED
    BY <1>8, <1>12, <1>13, <1>19, <1>20, <2>2, <2>3 DEF LinesTaken
<1>22. Once'
  BY <1>1, <1>8, <1>13, <1>20 DEF Once
<1> QED BY <1>14, <1>15, <1>16, <1>17, <1>18, <1>21, <1>22

(* A closed slot takes its descriptor from the map and nothing else.       *)
LEMMA IInvClose ==
    ASSUME IInv, pc = "data", NEW i \in 1..Len(slots), slots[i] # 0,
           CloseSlot(i), at' = i + 1,
           UNCHANGED <<peer, backlog, answers, fd, taken, revents, maxi, pc,
                       pending, running>>
    PROVE  IInv'
<1> USE DEF IInv
<1>1. /\ slots' = [slots EXCEPT ![i] = 0]
      /\ itmap' = [g \in DOMAIN itmap \ {slots[i]} |-> itmap[g]]
  BY DEF CloseSlot, Erased
<1>2. /\ slots' \in Seq(Nat) /\ Len(slots') = Len(slots) /\ slots'[i] = 0
      /\ \A j \in 1..Len(slots) : j # i => slots'[j] = slots[j]
  BY <1>1 DEF Typed
<1>3. /\ DOMAIN itmap' = DOMAIN itmap \ {slots[i]}
      /\ \A g \in DOMAIN itmap' : itmap'[g] = itmap[g]
  BY <1>1
<1>4. Typed'
  BY <1>2 DEF Typed
<1>5. Place'
  BY DEF Place
<1>6. SlotsAndMap'
  <2>1. \A j \in 1..Len(slots) : slots[j] = slots[i] => j = i
    BY DEF SlotsAndMap
  <2>2. Elems(slots') \ {0} = (Elems(slots) \ {0}) \ {slots[i]}
    BY <1>2, <2>1, ZenonT(40) DEF Elems
  <2>3. DOMAIN itmap' = Elems(slots') \ {0}
    BY <1>3, <2>2 DEF SlotsAndMap
  <2>4. \A j \in 1..Len(slots) : slots'[j] # 0 =>
           j <= maxi /\ \A k \in 1..Len(slots) : slots'[k] = slots'[j] => k = j
    <3>1. SUFFICES ASSUME NEW j \in 1..Len(slots), slots'[j] # 0
                   PROVE  j <= maxi /\ \A k \in 1..Len(slots) :
                                          slots'[k] = slots'[j] => k = j
      OBVIOUS
    <3>2. j # i /\ slots'[j] = slots[j] /\ slots[j] # 0
      BY <1>2, <3>1
    <3>3. j <= maxi /\ \A k \in 1..Len(slots) : slots[k] = slots[j] => k = j
      BY <3>2 DEF SlotsAndMap
    <3>4. \A k \in 1..Len(slots) : slots'[k] = slots'[j] => slots[k] = slots[j]
      BY <1>2, <3>1, <3>2
    <3> QED BY <3>3, <3>4
  <2>5. \A f \in DOMAIN itmap' : itmap'[f] \in Clients /\ fd[itmap'[f]] = f
    BY <1>3 DEF SlotsAndMap
  <2> QED BY <1>2, <2>3, <2>4, <2>5 DEF SlotsAndMap
<1>7. PoolTasks' = PoolTasks
  BY DEF PoolTasks
<1>8. \A d \in Clients : Held(d)' => Held(d)
  <2>1. \A d : Held(d)' <=> \/ \E g \in DOMAIN itmap' : itmap'[g] = d
                            \/ \E t \in PoolTasks' : t.conn = d
    BY DEF Held, Range, PoolTasks, Elems, Pool!PendingSet
  <2> QED BY <1>3, <1>7, <2>1, HeldBy
<1>9. Descriptors' /\ Unaccepted'
  BY <1>8 DEF Descriptors, Unaccepted
<1>10. LinesTaken' /\ Once'
  BY <1>7 DEF LinesTaken, Once, Within, Submitting
<1> QED BY <1>4, <1>5, <1>6, <1>9, <1>10

(* A due slot is read or closed, or its recv ends the process.             *)
LEMMA IInvHandleData ==
    ASSUME IInv, HandleData
    PROVE  IInv'
<1>1. PICK i : i = Min(Due)
  OBVIOUS
<1>2. /\ pc = "data" /\ Due # {}
      /\ \/ HandleMessageEvent(i)
         \/ CloseSlot(i) /\ at' = i + 1 /\ UNCHANGED pc
         \/ UNCHANGED <<slots, itmap, pc, at>>
      /\ UNCHANGED <<peer, backlog, answers, revents, maxi, fd, taken,
                     pending, running>>
  BY <1>1 DEF HandleData, At, network, reader, tasks, iothread
<1>3. i \in 1..Len(slots) /\ slots[i] # 0
  BY <1>1, <1>2, DueFacts
<1>4. CASE HandleMessageEvent(i)
  <2>1. pc' = "read" /\ at' = i /\ UNCHANGED <<slots, itmap>>
    BY <1>4 DEF HandleMessageEvent
  <2>2. Place'
    BY <1>2, <1>3, <2>1 DEF IInv, Place
  <2> QED BY <1>2, <2>1, <2>2, IInvMove
<1>5. CASE CloseSlot(i) /\ at' = i + 1 /\ UNCHANGED pc
  BY <1>2, <1>3, <1>5, IInvClose
<1>6. CASE UNCHANGED <<slots, itmap, pc, at>>
  <2>1. Place'
    BY <1>2, <1>6 DEF IInv, Place
  <2> QED BY <1>2, <1>6, <2>1, IInvMove
<1> QED BY <1>2, <1>4, <1>5, <1>6

(* The connection at a slot in hand.                                       *)
LEMMA InHand ==
    ASSUME IInv, pc \in {"read", "submit"}
    PROVE  itmap[slots[at]] \in Clients /\ Held(itmap[slots[at]])
<1>1. slots[at] \in DOMAIN itmap
  BY DEF IInv, Place, SlotsAndMap, Elems
<1> QED BY <1>1, HeldBy DEF IInv, SlotsAndMap

(* The line taken is newer than any that was answered or is a task.        *)
LEMMA IInvTakeLine ==
    ASSUME IInv, NEW c \in Clients, NEW n, Reading(c), TakeLine(c, n)
    PROVE  IInv'
<1> USE DEF IInv
<1>1. /\ pc = "read" /\ c = itmap[slots[at]] /\ pc' = "submit"
      /\ taken' = [taken EXCEPT ![c] = @ + 1]
      /\ UNCHANGED <<peer, backlog, answers, fd, slots, revents, maxi, itmap,
                     at, pending, running>>
  BY DEF Reading, At, TakeLine, network, poller, tasks
<1>2. /\ taken' \in [Clients -> Nat]
      /\ taken[c] \in Nat /\ taken'[c] = taken[c] + 1
      /\ \A d \in Clients : d # c => taken'[d] = taken[d]
  BY <1>1 DEF Typed
<1>3. Typed' /\ SlotsAndMap'
  BY <1>1, <1>2, ZenonT(40) DEF Typed, SlotsAndMap
<1>4. Place'
  BY <1>1 DEF Place
<1>5. PoolTasks' = PoolTasks /\ Once'
  BY <1>1 DEF PoolTasks, Once
<1>6. \A d \in Clients : Held(d)' <=> Held(d)
  BY <1>1 DEF Held, Pool!PendingSet
<1>7. Descriptors' /\ Unaccepted'
  BY <1>1, <1>6 DEF Descriptors, Unaccepted
<1>8. \A d \in Clients : Submitting(d)' <=> d = c
  BY <1>1 DEF Submitting
<1>9. \A d \in Clients : \A k \in Nat : Within(d, k) => Within(d, k)'
  BY <1>2, <1>8 DEF Within
<1>10. PoolTasks \subseteq Replies
  BY DEF PoolTasks, Elems, Typed
<1>11. \A d \in Clients : \A r \in Elems(answers[d]) : r.line \in Nat
  <2>1. \A d \in Clients : answers[d] \in Seq(Replies)
    BY DEF Typed
  <2>2. \A d \in Clients : \A r \in Elems(answers[d]) : r \in Replies
    BY <2>1 DEF Elems
  <2> QED BY <2>2 DEF Replies
<1>12. \A t \in PoolTasks : t.line \in Nat
  BY <1>10 DEF Replies
<1>13. LinesTaken'
  <2>1. \A d \in Clients : Submitting(d)' => taken'[d] >= 1
    BY <1>2, <1>8
  <2>2. \A d \in Clients : \A r \in Elems(answers[d]) :
           r.conn = d /\ Within(d, r.line)'
    BY <1>9, <1>11 DEF LinesTaken
  <2>3. \A d \in Clients : \A t \in PoolTasks :
           t.conn = d => t.line >= 1 /\ Within(d, t.line)'
    BY <1>9, <1>12 DEF LinesTaken
  <2> QED BY <1>1, <1>5, <2>1, <2>2, <2>3 DEF LinesTaken
<1> QED BY <1>3, <1>4, <1>5, <1>7, <1>13

(* The line in hand becomes a task, the only one of its number.            *)
LEMMA IInvAddTask ==
    ASSUME IInv, AddTask
    PROVE  IInv'
<1> USE DEF IInv
<1>0. PICK c, t : c = itmap[slots[at]] /\ t = Reply(c, taken[c])
  OBVIOUS
<1>1. /\ pc = "submit" /\ pc' = "data" /\ at' = at + 1
      /\ t \notin Elems(pending) /\ t \notin running
      /\ pending' = Append(pending, t) /\ running' = running
      /\ UNCHANGED <<peer, backlog, answers, fd, taken, slots, revents, maxi,
                     itmap>>
  BY <1>0 DEF AddTask, At, Pool!Submit, Pool!PendingSet, Elems, network,
              poller, reader
<1>2. c \in Clients /\ Held(c) /\ Submitting(c)
  BY <1>0, <1>1, InHand DEF Submitting
<1>3. t \in Replies /\ t.conn = c /\ t.line = taken[c] /\ taken[c] \in Nat
  BY <1>0, <1>2 DEF Reply, Replies, Typed
<1>4. /\ pending' \in Seq(Replies) /\ Distinct(pending')
      /\ Elems(pending') = Elems(pending) \cup {t}
  BY <1>1, <1>3, AppendElems DEF Typed, Once
<1>5. Typed' /\ SlotsAndMap'
  BY <1>1, <1>4 DEF Typed, SlotsAndMap
<1>6. Place'
  BY <1>1 DEF Place
<1>7. PoolTasks' = PoolTasks \cup {t}
  BY <1>1, <1>4 DEF PoolTasks
<1>8. \A d \in Clients : Held(d)' <=> Held(d)
  <2>1. \A d : Held(d)' <=> \/ \E g \in DOMAIN itmap' : itmap'[g] = d
                            \/ \E u \in PoolTasks' : u.conn = d
    BY <1>1 DEF Held, Range, PoolTasks, Elems, Pool!PendingSet
  <2> QED BY <1>1, <1>2, <1>3, <1>7, <2>1, HeldBy
<1>9. Descriptors' /\ Unaccepted'
  BY <1>1, <1>8 DEF Descriptors, Unaccepted
<1>10. \A d \in Clients : ~Submitting(d)'
  BY <1>1 DEF Submitting
<1>11. \A d \in Clients : \A k : Within(d, k) => Within(d, k)'
  BY <1>1, <1>10 DEF Within
<1>12. LinesTaken'
  <2>1. t.line >= 1 /\ Within(t.conn, t.line)'
    BY <1>1, <1>2, <1>3, <1>10 DEF LinesTaken, Within
  <2>2. \A d \in Clients : \A r \in Elems(answers[d]) :
           r.conn = d /\ Within(d, r.line)'
    BY <1>11 DEF LinesTaken
  <2>3. \A d \in Clients : \A u \in PoolTasks :
           u.conn = d => u.line >= 1 /\ Within(d, u.line)'
    BY <1>11 DEF LinesTaken
  <2> QED BY <1>1, <1>3, <1>7, <1>10, <2>1, <2>2, <2>3 DEF LinesTaken
<1>13. Once'
  <2>1. t \notin Elems(answers[c])
    BY <1>2, <1>3 DEF LinesTaken, Within
  <2>2. Elems(pending') \cap running' = {}
    BY <1>1, <1>4 DEF Once
  <2> QED BY <1>1, <1>3, <1>4, <1>7, <2>1, <2>2 DEF Once
<1> QED BY <1>5, <1>6, <1>9, <1>12, <1>13

(* A task that starts is still the pool's.                                 *)
LEMMA IInvStartTask ==
    ASSUME IInv, StartTask
    PROVE  IInv'
<1> USE DEF IInv
<1>0. PICK t : t = Head(pending)
  OBVIOUS
<1>1. /\ pending # <<>> /\ pending' = Tail(pending)
      /\ running' = running \cup {t}
      /\ UNCHANGED <<peer, backlog, answers, fd, taken, slots, revents, maxi,
                     itmap, pc, at>>
  BY <1>0 DEF StartTask, Pool!Dispatch, network, poller, reader, iothread
<1>2. pending \in Seq(Replies) /\ Distinct(pending)
  BY DEF Typed, Once
<1>3. /\ t \in Replies /\ pending' \in Seq(Replies)
      /\ t \in Elems(pending)
      /\ Elems(pending') = Elems(pending) \ {t}
      /\ Distinct(pending')
  BY <1>0, <1>1, <1>2, TailElems
<1>4. PoolTasks' = PoolTasks
  BY <1>1, <1>3 DEF PoolTasks
<1>5. Typed' /\ SlotsAndMap'
  BY <1>1, <1>3 DEF Typed, SlotsAndMap
<1>6. Place'
  BY <1>1 DEF Place
<1>7. \A d \in Clients : Held(d)' <=> Held(d)
  <2>1. \A d : Held(d)' <=> \/ \E g \in DOMAIN itmap' : itmap'[g] = d
                            \/ \E u \in PoolTasks' : u.conn = d
    BY <1>1 DEF Held, Range, PoolTasks, Elems, Pool!PendingSet
  <2> QED BY <1>1, <1>4, <2>1, HeldBy
<1>8. Descriptors' /\ Unaccepted'
  BY <1>1, <1>7 DEF Descriptors, Unaccepted
<1>9. LinesTaken'
  BY <1>1, <1>4 DEF LinesTaken, Within, Submitting
<1>10. Once'
  BY <1>1, <1>3, <1>4 DEF Once
<1> QED BY <1>5, <1>6, <1>8, <1>9, <1>10

(* The answer goes to the owner of the descriptor: the task's connection.  *)
LEMMA IInvCompute ==
    ASSUME IInv, NEW t, Compute(t)
    PROVE  IInv'
<1> USE DEF IInv
<1>1. /\ t \in running /\ running' = running \ {t} /\ pending' = pending
      /\ UNCHANGED <<peer, backlog, fd, taken, slots, revents, maxi, itmap,
                     pc, at>>
  BY DEF Compute, Pool!Finish, poller, reader, iothread
<1>2. t \in PoolTasks /\ t \in Replies /\ t.conn \in Clients
  BY <1>1 DEF PoolTasks, Typed, Replies
<1>3. PICK c \in Owners(fd[t.conn]) : Write(c, t)
  BY DEF Compute
<1>4. c = t.conn /\ c \in Clients /\ Held(c)
  <2>1. Held(t.conn)
    BY <1>2, HeldBy
  <2>2. c \in Clients /\ fd[c] = fd[t.conn] /\ Held(c)
    BY <1>3, OwnersAre
  <2> QED BY <1>2, <2>1, <2>2 DEF Descriptors
<1>5. /\ t \notin Elems(answers[c]) /\ Distinct(answers[c])
      /\ Within(c, t.line)
  BY <1>2, <1>4 DEF Once, LinesTaken
<1>6. /\ answers' \in [Clients -> Seq(Replies)]
      /\ \A d \in Clients : d # c => answers'[d] = answers[d]
      /\ Elems(answers'[c]) \subseteq Elems(answers[c]) \cup {t}
      /\ Distinct(answers'[c])
  BY <1>2, <1>3, <1>4, <1>5, WriteFacts
<1>7. PoolTasks' = PoolTasks \ {t}
  BY <1>1 DEF PoolTasks, Once
<1>8. Typed' /\ SlotsAndMap'
  BY <1>1, <1>6 DEF Typed, SlotsAndMap
<1>9. Place'
  BY <1>1 DEF Place
<1>10. \A d \in Clients : Held(d)' => Held(d)
  <2>1. \A d : Held(d)' <=> \/ \E g \in DOMAIN itmap' : itmap'[g] = d
                            \/ \E u \in PoolTasks' : u.conn = d
    BY <1>1 DEF Held, Range, PoolTasks, Elems, Pool!PendingSet
  <2> QED BY <1>1, <1>7, <2>1, HeldBy
<1>11. Descriptors'
  BY <1>1, <1>10 DEF Descriptors
<1>12. Unaccepted'
  <2>1. ~(peer[c] = "away" \/ c \in Elems(backlog))
    BY <1>4 DEF Unaccepted
  <2> QED BY <1>1, <1>6, <1>10, <2>1 DEF Unaccepted
<1>13. \A d \in Clients :
          /\ Submitting(d)' <=> Submitting(d)
          /\ \A k : Within(d, k)' <=> Within(d, k)
  BY <1>1 DEF Submitting, Within
<1>14. LinesTaken'
  <2>1. \A d \in Clients : \A r \in Elems(answers'[d]) :
           r.conn = d /\ Within(d, r.line)'
    BY <1>4, <1>5, <1>6, <1>13 DEF LinesTaken
  <2>2. \A d \in Clients : \A u \in PoolTasks' :
           u.conn = d => u.line >= 1 /\ Within(d, u.line)'
    BY <1>7, <1>13 DEF LinesTaken
  <2> QED BY <1>1, <1>13, <2>1, <2>2 DEF LinesTaken
<1>15. Once'
  <2>1. \A d \in Clients : \A u \in PoolTasks' :
           u.conn = d => u \notin Elems(answers'[d])
    BY <1>4, <1>6, <1>7 DEF Once
  <2>2. Distinct(pending') /\ Elems(pending') \cap running' = {}
    BY <1>1 DEF Once
  <2> QED BY <1>6, <2>1, <2>2 DEF Once
<1> QED BY <1>8, <1>9, <1>11, <1>12, <1>14, <1>15

(* Steps of the IO thread that touch neither slots, answers nor lines.     *)
LEMMA IInvQuiet ==
    ASSUME IInv,
           \/ Poll \/ NoAccept \/ TooManyClients \/ EndRound \/ OneByteLine
           \/ \E c \in Clients : Fill(c) \/ ReadError(c)
           \/ UNCHANGED vars
    PROVE  IInv'
<1> USE DEF IInv
<1>1. UNCHANGED <<peer, backlog, answers, fd, taken, slots, maxi, itmap,
                  pending, running>>
  BY DEF Poll, NoAccept, TooManyClients, EndRound, OneByteLine, Fill,
         ReadError, vars, network, poller, reader, iothread, tasks
<1>2. CASE Poll
  <2>1. /\ pc' = "accept" /\ DOMAIN revents' = DOMAIN revents
        /\ revents'[0] = (backlog # <<>>)
    BY <1>2 DEF Poll, Place
  <2>2. Place'
    BY <1>1, <2>1 DEF Place
  <2> QED BY <1>1, <2>1, <2>2, IInvMove
<1>3. CASE NoAccept \/ EndRound
  <2>1. revents' = revents /\ ((pc' = "data" /\ at' = 1) \/ pc' = "poll")
    BY <1>3 DEF NoAccept, EndRound, poller
  <2>2. Place'
    BY <1>1, <2>1 DEF Place
  <2> QED BY <1>1, <2>1, <2>2, IInvMove
<1>4. CASE \/ TooManyClients \/ OneByteLine \/ UNCHANGED vars
           \/ \E c \in Clients : Fill(c) \/ ReadError(c)
  <2>1. UNCHANGED <<revents, pc, at>>
    BY <1>4 DEF TooManyClients, OneByteLine, Fill, ReadError, vars, poller,
                iothread
  <2>2. Place'
    BY <1>1, <2>1 DEF Place
  <2> QED BY <1>1, <2>1, <2>2, IInvMove
<1> QED BY <1>2, <1>3, <1>4

(* Every step keeps IInv.                                                  *)
LEMMA IInvNext == IInv /\ [Next]_vars => IInv'
<1> SUFFICES ASSUME IInv, [Next]_vars PROVE IInv'
  OBVIOUS
<1>1. ASSUME NEW c \in Clients, Client(c) PROVE IInv'
  BY <1>1, IInvClient
<1>2. ASSUME NEW c \in Clients, ReceiveLine(c) \/ ReceiveRest(c) PROVE IInv'
  <2>1. Reading(c) /\ (OneByteLine \/ \E n : TakeLine(c, n))
    BY <1>2 DEF ReceiveLine, ReceiveRest
  <2> QED BY <2>1, IInvTakeLine, IInvQuiet
<1>3. CASE HandleAccept \/ HandleData \/ AddTask
  BY <1>3, IInvAccept, IInvHandleData, IInvAddTask
<1>4. CASE \/ Poll \/ NoAccept \/ TooManyClients \/ EndRound \/ UNCHANGED vars
           \/ \E c \in Clients : Fill(c) \/ ReadError(c)
  BY <1>4, IInvQuiet
<1>5. CASE StartTask \/ \E t \in Tasks : Compute(t)
  BY <1>5, IInvStartTask, IInvCompute
<1> QED BY <1>1, <1>2, <1>3, <1>4, <1>5 DEF Next, IoThread

(* IInv is an invariant of the network side.                               *)
LEMMA IInvAlways == Spec => []IInv
<1>1. Init => IInv
  BY IInvInit
<1>2. IInv /\ [Next]_vars => IInv'
  BY IInvNext
<1> QED BY <1>1, <1>2, PTL DEF Spec

-----------------------------------------------------------------------------
(* The theorems.                                                           *)

(* IInv says what slots, map and descriptors have to do with each other.   *)
LEMMA IInvMapMatchesSlots == IInv => MapMatchesSlots
<1> SUFFICES ASSUME IInv PROVE MapMatchesSlots
  OBVIOUS
<1> USE DEF IInv
<1>1. DOMAIN slots = 1..Len(slots) /\ Range(slots) = Elems(slots)
  BY DEF Typed, Range, Elems
<1>2. DOMAIN itmap = Range(slots) \ {0}
  BY <1>1 DEF SlotsAndMap
<1>3. \A i, j \in DOMAIN slots :
         slots[i] # 0 => /\ i <= maxi
                         /\ fd[itmap[slots[i]]] = slots[i]
                         /\ slots[i] = slots[j] => i = j
  BY <1>1 DEF SlotsAndMap, Elems
<1>4. ASSUME NEW f \in 1..Cardinality(Clients)
      PROVE  Cardinality(Owners(f)) <= 1
  <2>1. CASE Owners(f) = {}
    BY <2>1, FS_EmptySet
  <2>2. CASE Owners(f) # {}
    <3>1. PICK c : c \in Owners(f)
      BY <2>2
    <3>2. \A d \in Owners(f) : d = c
      BY <3>1, OwnersAre DEF Descriptors
    <3>3. Owners(f) = {c}
      BY <3>1, <3>2
    <3>4. Cardinality({c}) = 1
      BY FS_Singleton
    <3> QED BY <3>3, <3>4
  <2> QED BY <2>1, <2>2
<1> QED BY <1>2, <1>3, <1>4 DEF MapMatchesSlots

(* Slots, map and connections agree whenever the IO thread polls, accepts, *)
(* closes or reads, and a descriptor belongs to one connection, whatever   *)
(* the tasks of the pool still hold: the assertions of PollPoller.cc never *)
(* fail.                                                                   *)
THEOREM SlotsAgree == Spec => []MapMatchesSlots
BY IInvAlways, IInvMapMatchesSlots, PTL

(* IInv says whose the answers are, and that none comes twice.             *)
LEMMA IInvAnswersAreOwn == IInv => AnswersAreOwn
<1> SUFFICES ASSUME IInv, NEW c \in Clients
             PROVE  /\ \A i \in DOMAIN answers[c] : answers[c][i].conn = c
                    /\ \A i, j \in DOMAIN answers[c] :
                          answers[c][i] = answers[c][j] => i = j
  BY DEF AnswersAreOwn
<1>1. answers[c] \in Seq(Replies) /\ DOMAIN answers[c] = 1..Len(answers[c])
  BY DEF IInv, Typed
<1>2. \A i \in DOMAIN answers[c] : answers[c][i].conn = c
  BY <1>1 DEF IInv, LinesTaken, Elems
<1>3. \A i, j \in DOMAIN answers[c] : answers[c][i] = answers[c][j] => i = j
  BY <1>1 DEF IInv, Once, Distinct
<1> QED BY <1>2, <1>3

(* A client gets answers to its own lines only, each at most once, also    *)
(* when a task answers after the close event of its connection and the     *)
(* poller has accepted others since.                                       *)
THEOREM AnswersReachTheirClient == Spec => []AnswersAreOwn
BY IInvAlways, IInvAnswersAreOwn, PTL

-----------------------------------------------------------------------------
(* Who ends the server.  A connection is reset only by a client that is    *)
(* gone, and only a reset connection fails.                                *)

ResetByGone ==
    /\ fin \in [Clients -> BOOLEAN]
    /\ rst \in [Clients -> BOOLEAN]
    /\ \A c \in Clients : rst[c] => peer[c] = "gone"

(* A write resets only what is gone, and fails only on what was reset.     *)
LEMMA WriteHarmless ==
    ASSUME IInv, ResetByGone, NEW c \in Clients, NEW r, Write(c, r),
           peer' = peer, fin' = fin
    PROVE  /\ ResetByGone'
           /\ down' = down \/ \E d \in Clients : peer[d] = "gone"
<1>1. CASE rst[c]
  <2>1. rst' = rst \/ peer[c] # "gone"
    BY <1>1 DEF Write
  <2> QED BY <1>1, <2>1 DEF ResetByGone
<1>2. CASE ~rst[c]
  <2>1. /\ down' = down
        /\ rst' = rst \/ (peer[c] = "gone" /\ rst' = [rst EXCEPT ![c] = TRUE])
    BY <1>2 DEF Write
  <2>2. CASE rst' = rst
    BY <2>1, <2>2 DEF ResetByGone
  <2>3. CASE peer[c] = "gone" /\ rst' = [rst EXCEPT ![c] = TRUE]
    BY <2>1, <2>3 DEF ResetByGone
  <2> QED BY <2>1, <2>2, <2>3
<1> QED BY <1>1, <1>2

(* Clients: only a client that closes resets its connection.               *)
LEMMA ClientHarmless ==
    ASSUME IInv, ResetByGone, NEW c \in Clients, Client(c)
    PROVE  /\ ResetByGone'
           /\ down' = down
           /\ \A d \in Clients : peer[d] = "gone" => peer'[d] = "gone"
<1>1. peer \in [Clients -> {"away", "here", "gone"}]
  BY DEF IInv, Typed
<1>2. CASE Connect(c) \/ SendBytes(c, <<"w">>) \/ SendBytes(c, <<"n">>)
           \/ SendBytes(c, <<"w", "n">>) \/ ReadAnswers(c)
  <2>1. /\ UNCHANGED <<fin, rst, down>>
        /\ peer' = peer \/ (peer[c] = "away" /\ peer' = [peer EXCEPT ![c] = "here"])
    BY <1>2 DEF Connect, SendBytes, ReadAnswers
  <2> QED BY <1>1, <2>1 DEF ResetByGone
<1>3. CASE ShutdownWrite(c)
  BY <1>1, <1>3 DEF ShutdownWrite, ResetByGone
<1>4. CASE Close(c)
  <2>1. /\ peer' = [peer EXCEPT ![c] = "gone"] /\ down' = down
        /\ fin' = [fin EXCEPT ![c] = @ \/ unread[c] = 0]
        /\ rst' = [rst EXCEPT ![c] = unread[c] > 0]
    BY <1>4 DEF Close
  <2>2. \A x, y : (x \/ y) \in BOOLEAN
    OBVIOUS
  <2>4. (fin[c] \/ unread[c] = 0) \in BOOLEAN
    BY <2>2
  <2>5. (unread[c] > 0) \in BOOLEAN
    OBVIOUS
  <2>3. fin' \in [Clients -> BOOLEAN] /\ rst' \in [Clients -> BOOLEAN]
    BY <2>1, <2>4, <2>5, Zenon DEF ResetByGone
  <2> QED BY <1>1, <2>1, <2>3 DEF ResetByGone
<1> QED BY <1>2, <1>3, <1>4 DEF Client, Speak

(* A failed read is one of a connection that was reset.                    *)
LEMMA ReadHarmless ==
    ASSUME IInv, ResetByGone,
           \/ Poll \/ NoAccept \/ TooManyClients \/ EndRound \/ HandleData
           \/ \E c \in Clients :
                 Fill(c) \/ ReadError(c) \/ ReceiveLine(c) \/ ReceiveRest(c)
           \/ AddTask \/ StartTask \/ UNCHANGED vars
    PROVE  /\ UNCHANGED <<peer, fin, rst>>
           /\ \/ down' = down \/ down' \in {"slots", "word"}
              \/ \E d \in Clients : peer[d] = "gone"
<1>1. UNCHANGED <<peer, fin, rst>>
  BY DEF Poll, NoAccept, TooManyClients, EndRound, HandleData, Fill, ReadError,
         ReceiveLine, ReceiveRest, TakeLine, OneByteLine, AddTask, StartTask,
         vars, network
<1>2. CASE HandleData
  <2>1. PICK c : c = itmap[slots[Min(Due)]]
    OBVIOUS
  <2>2. down' = down \/ Failed(c)
    BY <1>2, <2>1 DEF HandleData, HandleMessageEvent
  <2>3. c \in Clients
    <3>1. slots[Min(Due)] \in DOMAIN itmap
      BY <1>2, DueFacts DEF HandleData, At
    <3> QED BY <2>1, <3>1 DEF IInv, SlotsAndMap
  <2> QED BY <1>1, <2>2, <2>3 DEF Failed, ResetByGone
<1>3. ASSUME NEW c \in Clients, ReadError(c)
      PROVE  \E d \in Clients : peer[d] = "gone"
  BY <1>3 DEF ReadError, Failed, ResetByGone
<1>4. ASSUME NEW c \in Clients, Fill(c) \/ ReceiveLine(c) \/ ReceiveRest(c)
      PROVE  down' = down \/ down' = "word"
  BY <1>4 DEF Fill, ReceiveLine, ReceiveRest, TakeLine, OneByteLine
<1>5. CASE Poll \/ NoAccept \/ TooManyClients \/ EndRound \/ AddTask
           \/ StartTask \/ UNCHANGED vars
  BY <1>1, <1>5
  DEF Poll, NoAccept, TooManyClients, EndRound, AddTask, StartTask, vars
<1> QED BY <1>1, <1>2, <1>3, <1>4, <1>5

(* The server is ended by a failed read or write only behind a client that *)
(* has closed: for any number of clients and lines, whatever they leave    *)
(* unread, and however the tasks outlive their connections.                *)
THEOREM OnlyGoneClientsHarm == Spec => []StayingIsHarmless
<1> DEFINE HInv == ResetByGone /\ StayingIsHarmless
<1>1. Init => HInv
  <2> SUFFICES ASSUME Init PROVE HInv
    OBVIOUS
  <2>1. fin \in [Clients -> BOOLEAN] /\ rst \in [Clients -> BOOLEAN]
    BY DEF Init
  <2> QED BY <2>1 DEF Init, ResetByGone, StayingIsHarmless
<1>2. IInv /\ HInv /\ [Next]_vars => HInv'
  <2> SUFFICES ASSUME IInv, HInv, [Next]_vars PROVE HInv'
    OBVIOUS
  <2>1. ASSUME NEW c \in Clients, Client(c) PROVE HInv'
    BY <2>1, ClientHarmless DEF StayingIsHarmless
  <2>2. CASE HandleAccept
    <3>1. Head(backlog) \in Clients
      BY <2>2 DEF IInv, Typed, Place, HandleAccept, Accepting, At
    <3>2. /\ Write(Head(backlog), Reply(Head(backlog), 0))
          /\ peer' = peer /\ fin' = fin
      BY <2>2 DEF HandleAccept, Greet
    <3> QED BY <3>1, <3>2, WriteHarmless DEF StayingIsHarmless
  <2>3. ASSUME NEW t \in Tasks, Compute(t) PROVE HInv'
    <3>1. PICK c \in Owners(fd[t.conn]) : Write(c, t)
      BY <2>3 DEF Compute
    <3>2. c \in Clients /\ peer' = peer /\ fin' = fin
      BY <2>3, OwnersAre DEF Compute
    <3> QED BY <3>1, <3>2, WriteHarmless DEF StayingIsHarmless
  <2>4. CASE \/ Poll \/ NoAccept \/ TooManyClients \/ EndRound \/ HandleData
             \/ \E c \in Clients :
                   Fill(c) \/ ReadError(c) \/ ReceiveLine(c) \/ ReceiveRest(c)
             \/ AddTask \/ StartTask \/ UNCHANGED vars
    <3>1. /\ UNCHANGED <<peer, fin, rst>>
          /\ \/ down' = down \/ down' \in {"slots", "word"}
             \/ \E d \in Clients : peer[d] = "gone"
      BY <2>4, ReadHarmless
    <3> QED BY <3>1 DEF ResetByGone, StayingIsHarmless
  <2> QED BY <2>1, <2>2, <2>3, <2>4 DEF Next, IoThread
<1>3. HInv => StayingIsHarmless
  OBVIOUS
<1> QED BY <1>1, <1>2, <1>3, IInvAlways, PTL DEF Spec

-----------------------------------------------------------------------------
(* Types, and what a client has written.  The bytes that wait, in the      *)
(* buffer and in the socket, are lines of at most one text byte; a line    *)
(* not ended yet is counted, so no connection ever returns more lines than *)
(* its client wrote.                                                       *)

Bytes == {"w", "n"}
EndsInText(s) == s # <<>> /\ s[Len(s)] = "w"
OneByteTexts(s) == \A i \in 1..Len(s) - 1 : s[i] = "w" => s[i + 1] = "n"

\* With t lines taken, the bytes s still make no more than m lines.
Makes(s, t, m) ==
    /\ s \in Seq(Bytes)
    /\ OneByteTexts(s)
    /\ t + Newlines(s) <= m
    /\ EndsInText(s) => t + Newlines(s) < m

(* A byte string has a finite number of newlines.                          *)
LEMMA NewlinesType ==
    ASSUME NEW s \in Seq(Bytes)
    PROVE  /\ IsFiniteSet({i \in DOMAIN s : s[i] = "n"})
           /\ Newlines(s) \in Nat
<1> DEFINE N == {i \in DOMAIN s : s[i] = "n"}
<1>1. N \in SUBSET (1..Len(s)) /\ Len(s) \in Nat
  OBVIOUS
<1>2. IsFiniteSet(1..Len(s))
  BY <1>1, FS_Interval
<1>3. IsFiniteSet(N)
  BY <1>1, <1>2, FS_Subset
<1> QED BY <1>3, FS_CardinalityType DEF Newlines

(* Without a newline there are none to count.                              *)
LEMMA NoNewline ==
    ASSUME NEW s \in Seq(Bytes), "n" \notin Range(s)
    PROVE  Newlines(s) = 0
<1>1. {i \in DOMAIN s : s[i] = "n"} = {}
  BY DEF Range
<1> QED BY <1>1, FS_EmptySet DEF Newlines

(* One more byte is one more newline, or none.                             *)
LEMMA NewlinesAppend ==
    ASSUME NEW s \in Seq(Bytes), NEW b \in Bytes
    PROVE  Newlines(Append(s, b)) = Newlines(s) + (IF b = "n" THEN 1 ELSE 0)
<1> DEFINE N == {i \in DOMAIN s : s[i] = "n"}
           t == Append(s, b)
           M == {i \in DOMAIN t : t[i] = "n"}
<1>1. /\ Len(s) \in Nat /\ DOMAIN s = 1..Len(s)
      /\ DOMAIN t = 1..(Len(s) + 1)
      /\ t[Len(s) + 1] = b
      /\ \A i \in 1..Len(s) : t[i] = s[i]
  OBVIOUS
<1>2. IsFiniteSet(N) /\ Cardinality(N) \in Nat
  BY NewlinesType DEF Newlines
<1> HIDE DEF t
<1>3. CASE b = "n"
  <2>1. M = N \cup {Len(s) + 1} /\ Len(s) + 1 \notin N
    BY <1>1, <1>3
  <2> HIDE DEF M, N
  <2>2. Cardinality(M) = Cardinality(N) + 1
    BY <1>2, <2>1, FS_AddElement
  <2> QED BY <1>3, <2>2 DEF Newlines, M, N, t
<1>4. CASE b # "n"
  <2>1. M = N
    BY <1>1, <1>4
  <2>2. Newlines(t) = Newlines(s) /\ Newlines(s) \in Nat
    BY <2>1, NewlinesType DEF Newlines
  <2> QED BY <1>4, <2>2 DEF t
<1> QED BY <1>3, <1>4

(* The bytes behind a line of two.                                         *)
LEMMA BehindLine ==
    ASSUME NEW s \in Seq(Bytes), Len(s) >= 2
    PROVE  LET t == SubSeq(s, 3, Len(s))
           IN  /\ t \in Seq(Bytes)
               /\ Len(t) = Len(s) - 2 /\ DOMAIN t = 1..(Len(s) - 2)
               /\ \A i \in 1..Len(t) : t[i] = s[i + 2]
<1> DEFINE t == SubSeq(s, 3, Len(s))
<1>1. Len(s) \in Nat /\ 3 \in Int /\ Len(s) \in Int
  OBVIOUS
<1>2. \A i \in 3..Len(s) : s[i] \in Bytes
  BY <1>1
<1>3. /\ t \in Seq(Bytes)
      /\ Len(t) = IF 3 <= Len(s) THEN Len(s) - 3 + 1 ELSE 0
      /\ \A i \in 1..Len(s) - 3 + 1 : t[i] = s[3 + i - 1]
  BY <1>1, <1>2, SubSeqProperties
<1> HIDE DEF t
<1>4. Len(t) = Len(s) - 2 /\ \A i \in 1..Len(t) : t[i] = s[i + 2]
  <2>0. PICK n : n = Len(s)
    OBVIOUS
  <2>1. Len(t) = Len(s) - 2 /\ Len(s) - 3 + 1 = Len(s) - 2
    <3>1. n \in Nat /\ n >= 2 /\ Len(t) = IF 3 <= n THEN n - 3 + 1 ELSE 0
      BY <1>1, <1>3, <2>0
    <3> HIDE <2>0
    <3>2. n - 3 + 1 = n - 2 /\ Len(t) = n - 2
      BY <3>1
    <3> QED BY <2>0, <3>2
  <2>2. ASSUME NEW i \in 1..Len(t) PROVE t[i] = s[i + 2]
    <3>1. i \in 1..Len(s) - 3 + 1 /\ 3 + i - 1 = i + 2
      BY <1>1, <2>1
    <3> QED BY <1>3, <3>1
  <2> QED BY <2>1, <2>2
<1>5. DOMAIN t = 1..(Len(s) - 2)
  BY <1>3, <1>4
<1> QED BY <1>3, <1>4, <1>5 DEF t

(* What follows in the socket follows what is behind the line.             *)
LEMMA BehindJoined ==
    ASSUME NEW s \in Seq(Bytes), NEW t \in Seq(Bytes), Len(s) >= 2
    PROVE  SubSeq(s \o t, 3, Len(s \o t)) = SubSeq(s, 3, Len(s)) \o t
<1> DEFINE a == SubSeq(s, 3, Len(s))
           b == SubSeq(s \o t, 3, Len(s \o t))
<1>1. /\ Len(s) \in Nat /\ Len(t) \in Nat
      /\ s \o t \in Seq(Bytes)
      /\ Len(s \o t) = Len(s) + Len(t) /\ Len(s \o t) >= 2
      /\ \A i \in 1..Len(s) : (s \o t)[i] = s[i]
      /\ \A i \in 1..Len(t) : (s \o t)[Len(s) + i] = t[i]
  OBVIOUS
<1>2. /\ a \in Seq(Bytes) /\ Len(a) = Len(s) - 2
      /\ \A i \in 1..Len(a) : a[i] = s[i + 2]
  BY BehindLine
<1>3. /\ b \in Seq(Bytes) /\ Len(b) = (Len(s) + Len(t)) - 2
      /\ \A i \in 1..Len(b) : b[i] = (s \o t)[i + 2]
  BY <1>1, BehindLine
<1> HIDE DEF a, b
<1>4. /\ a \o t \in Seq(Bytes) /\ Len(a \o t) = Len(a) + Len(t)
      /\ \A i \in 1..Len(a) : (a \o t)[i] = a[i]
      /\ \A i \in 1..Len(t) : (a \o t)[Len(a) + i] = t[i]
  <2>1. a \in Seq(Bytes) /\ t \in Seq(Bytes)
    BY <1>2
  <2> HIDE <1>2
  <2> QED BY <2>1
<1>5. ASSUME NEW i \in 1..Len(b) PROVE b[i] = (a \o t)[i]
  <2>1. CASE i <= Len(a)
    <3>1. i \in 1..Len(a) /\ i + 2 \in 1..Len(s)
      BY <1>1, <1>2, <2>1
    <3> QED BY <1>1, <1>2, <1>3, <1>4, <3>1
  <2>2. CASE ~(i <= Len(a))
    <3>1. PICK j : j = i - Len(a)
      OBVIOUS
    <3>2. j \in 1..Len(t) /\ i = Len(a) + j /\ i + 2 = Len(s) + j
      BY <1>1, <1>2, <1>3, <2>2, <3>1
    <3> QED BY <1>1, <1>3, <1>4, <3>2, ZenonT(40)
  <2> QED BY <2>1, <2>2
<1>6. Len(b) = Len(a \o t)
  BY <1>1, <1>2, <1>3, <1>4
<1>7. b = a \o t
  BY <1>3, <1>4, <1>5, <1>6, SeqEqual
<1> QED BY <1>7 DEF a, b

(* Behind a whole line, there is one newline less.                         *)
LEMMA NewlinesBehindLine ==
    ASSUME NEW s \in Seq(Bytes), Len(s) >= 2, s[1] # "n", s[2] = "n"
    PROVE  Newlines(s) = Newlines(SubSeq(s, 3, Len(s))) + 1
<1> DEFINE t == SubSeq(s, 3, Len(s))
           N == {i \in DOMAIN s : s[i] = "n"}
           M == {i \in DOMAIN t : t[i] = "n"}
           f == [i \in M |-> i + 2]
<1>1. /\ Len(s) \in Nat /\ DOMAIN s = 1..Len(s)
      /\ t \in Seq(Bytes)
      /\ Len(t) = Len(s) - 2 /\ DOMAIN t = 1..(Len(s) - 2)
  BY BehindLine
<1>2. \A i \in 1..(Len(s) - 2) : t[i] = s[i + 2]
  BY <1>1, BehindLine
<1>3. IsFiniteSet(M) /\ IsFiniteSet(N)
  BY <1>1, NewlinesType
<1> HIDE DEF t
<1>4. f \in [M -> N \ {2}]
  BY <1>1, <1>2
<1>5. \A i, j \in M : f[i] = f[j] => i = j
  BY <1>1
<1>6. \A j \in N \ {2} : \E i \in M : f[i] = j
  <2> SUFFICES ASSUME NEW j \in N \ {2} PROVE \E i \in M : f[i] = j
    OBVIOUS
  <2>1. j \in 1..Len(s) /\ s[j] = "n" /\ j # 1 /\ j # 2
    BY <1>1
  <2>2. j - 2 \in 1..(Len(s) - 2) /\ (j - 2) + 2 = j
    BY <1>1, <2>1
  <2>3. j - 2 \in M
    BY <1>1, <1>2, <2>1, <2>2
  <2>4. f[j - 2] = (j - 2) + 2
    BY <2>3
  <2> QED BY <2>2, <2>3, <2>4
<1>7. f \in Bijection(M, N \ {2})
  BY <1>4, <1>5, <1>6 DEF Bijection, Injection, Surjection, IsInjective
<1>8. Cardinality(N \ {2}) = Cardinality(M)
  BY <1>3, <1>7, FS_Bijection DEF ExistsBijection
<1>9. 2 \in N
  BY <1>1
<1>10. Cardinality(N \ {2}) = Cardinality(N) - 1 /\ Cardinality(N) \in Nat
  BY <1>3, <1>9, FS_RemoveElement, FS_CardinalityType
<1>11. Newlines(s) = Cardinality(N) /\ Newlines(t) = Cardinality(M)
  BY DEF Newlines
<1> HIDE DEF M, N
<1>12. Newlines(s) = Newlines(t) + 1
  BY <1>8, <1>10, <1>11
<1> QED BY <1>12 DEF t

(* A byte is written only where a line is to be begun or ended.            *)
LEMMA MakesMore ==
    ASSUME NEW s, NEW t \in Nat, NEW m \in Nat, Makes(s, t, m),
           t + Newlines(s) < m
    PROVE  /\ Makes(Append(s, "n"), t, m)
           /\ ~EndsInText(s) => /\ Makes(Append(s, "w"), t, m)
                                /\ Newlines(Append(s, "w")) = Newlines(s)
<1>0. s \in Seq(Bytes)
  BY DEF Makes
<1>1. s \in Seq(Bytes) /\ Newlines(s) \in Nat /\ Len(s) \in Nat
  <2>1. Newlines(s) \in Nat
    BY <1>0, NewlinesType
  <2> QED BY <1>0, <2>1
<1>2. ASSUME NEW b \in Bytes, b = "n" \/ ~EndsInText(s)
      PROVE  OneByteTexts(Append(s, b)) /\ Append(s, b) \in Seq(Bytes)
  <2> DEFINE u == Append(s, b)
  <2>1. /\ u \in Seq(Bytes) /\ Len(u) = Len(s) + 1
        /\ u[Len(s) + 1] = b
        /\ \A i \in 1..Len(s) : u[i] = s[i]
    BY <1>1
  <2> HIDE DEF u
  <2>2. ASSUME NEW i \in 1..Len(u) - 1, u[i] = "w" PROVE u[i + 1] = "n"
    <3>1. CASE i = Len(s)
      <4>1. s[Len(s)] = "w" /\ s # <<>>
        BY <1>1, <2>1, <2>2, <3>1
      <4> QED BY <1>2, <2>1, <3>1, <4>1 DEF EndsInText
    <3>2. CASE i # Len(s)
      <4>1. i \in 1..Len(s) - 1 /\ i + 1 \in 1..Len(s) /\ i \in 1..Len(s)
        BY <1>1, <2>1, <3>2
      <4>2. s[i] = "w" => s[i + 1] = "n"
        BY <4>1 DEF Makes, OneByteTexts
      <4> QED BY <2>1, <2>2, <4>1, <4>2
    <3> QED BY <3>1, <3>2
  <2>3. OneByteTexts(u)
    BY <2>2 DEF OneByteTexts
  <2> QED BY <2>1, <2>3 DEF u
<1>3. "n" \in Bytes /\ "w" \in Bytes /\ "w" # "n"
  BY DEF Bytes
<1>4. Makes(Append(s, "n"), t, m)
  <2>1. Newlines(Append(s, "n")) = Newlines(s) + 1
    BY <1>1, <1>3, NewlinesAppend
  <2>2. ~EndsInText(Append(s, "n"))
    BY <1>1, <1>3 DEF EndsInText
  <2>3. t + (Newlines(s) + 1) <= m
    BY <1>1
  <2> QED BY <1>2, <1>3, <2>1, <2>2, <2>3 DEF Makes
<1>5. ASSUME ~EndsInText(s)
      PROVE  Makes(Append(s, "w"), t, m) /\ Newlines(Append(s, "w")) = Newlines(s)
  <2>1. Newlines(Append(s, "w")) = Newlines(s)
    BY <1>1, <1>3, NewlinesAppend
  <2>2. t + Newlines(s) <= m
    BY <1>1
  <2> QED BY <1>2, <1>3, <1>5, <2>1, <2>2 DEF Makes
<1> QED BY <1>4, <1>5

(* What a client may write leaves it within its lines.                     *)
LEMMA MakesSent ==
    ASSUME NEW s, NEW t \in Nat, NEW m \in Nat, Makes(s, t, m),
           t + Newlines(s) < m,
           NEW bytes \in {<<"w">>, <<"n">>, <<"w", "n">>},
           EndsInText(s) => bytes = <<"n">>
    PROVE  Makes(s \o bytes, t, m)
<1>1. s \in Seq(Bytes) /\ "w" \in Bytes /\ "n" \in Bytes
  BY DEF Makes, Bytes
<1>2. CASE bytes = <<"n">>
  <2>1. s \o <<"n">> = Append(s, "n")
    BY <1>1
  <2> QED BY <1>2, <2>1, MakesMore
<1>3. CASE bytes # <<"n">>
  <2>1. ~EndsInText(s)
    BY <1>3
  <2>2. Makes(Append(s, "w"), t, m) /\ t + Newlines(Append(s, "w")) < m
    BY <2>1, MakesMore
  <2>3. Makes(Append(Append(s, "w"), "n"), t, m)
    BY <2>2, MakesMore
  <2>4. s \o <<"w">> = Append(s, "w")
    BY <1>1
  <2>5. s \o <<"w", "n">> = Append(Append(s, "w"), "n")
    BY <1>1
  <2> QED BY <1>3, <2>2, <2>3, <2>4, <2>5
<1> QED BY <1>2, <1>3

(* A line that was read and taken is counted as before.                    *)
LEMMA MakesBehindLine ==
    ASSUME NEW s, NEW t \in Nat, NEW m \in Nat, Makes(s, t, m),
           Len(s) >= 2, s[1] # "n"
    PROVE  s[2] = "n" /\ Makes(SubSeq(s, 3, Len(s)), t + 1, m)
<1> DEFINE u == SubSeq(s, 3, Len(s))
<1>1. s \in Seq(Bytes) /\ Len(s) \in Nat /\ OneByteTexts(s)
  BY DEF Makes
<1>2. s[1] = "w"
  <2>1. s[1] \in Bytes
    BY <1>1
  <2> QED BY <2>1 DEF Bytes
<1>3. s[2] = "n"
  <2>1. 1 \in 1..Len(s) - 1 /\ 1 + 1 = 2
    BY <1>1
  <2> QED BY <1>1, <1>2, <2>1 DEF OneByteTexts
<1>4. /\ u \in Seq(Bytes) /\ Len(u) = Len(s) - 2
      /\ \A i \in 1..Len(u) : u[i] = s[i + 2]
  BY <1>1, BehindLine
<1>5. Newlines(s) = Newlines(u) + 1
  BY <1>1, <1>3, NewlinesBehindLine
<1> HIDE DEF u
<1>6. OneByteTexts(u)
  <2> SUFFICES ASSUME NEW i \in 1..Len(u) - 1, u[i] = "w" PROVE u[i + 1] = "n"
    BY DEF OneByteTexts
  <2>1. /\ i + 2 \in 1..Len(s) - 1 /\ (i + 2) + 1 = (i + 1) + 2
        /\ i \in 1..Len(u) /\ i + 1 \in 1..Len(u)
    BY <1>1, <1>4
  <2>2. s[i + 2] = "w" /\ u[i + 1] = s[(i + 1) + 2]
    BY <1>4, <2>1
  <2>3. s[(i + 2) + 1] = "n"
    BY <1>1, <2>1, <2>2 DEF OneByteTexts
  <2> QED BY <2>1, <2>2, <2>3
<1>7. EndsInText(u) => EndsInText(s)
  <2> SUFFICES ASSUME EndsInText(u) PROVE EndsInText(s)
    OBVIOUS
  <2>1. Len(u) \in Nat /\ Len(u) # 0
    BY <1>4 DEF EndsInText
  <2>2. Len(u) \in 1..Len(u) /\ Len(u) + 2 = Len(s) /\ s # <<>>
    BY <1>1, <1>4, <2>1
  <2> QED BY <1>4, <2>2 DEF EndsInText
<1>8. Newlines(u) \in Nat
  BY <1>4, NewlinesType
<1>9. (t + 1) + Newlines(u) = t + Newlines(s)
  BY <1>5, <1>8
<1> QED BY <1>3, <1>4, <1>6, <1>7, <1>9 DEF Makes, u

(* An unended rest, when it is all there is, was counted.                  *)
LEMMA MakesRest ==
    ASSUME NEW s, NEW t \in Nat, NEW m \in Nat, Makes(s, t, m),
           s # <<>>, "n" \notin Range(s)
    PROVE  Makes(<<>>, t + 1, m)
<1>1. s \in Seq(Bytes) /\ Len(s) \in Nat /\ Len(s) >= 1
  BY DEF Makes
<1>2. s[Len(s)] \in Bytes /\ s[Len(s)] # "n"
  BY <1>1 DEF Range
<1>3. EndsInText(s)
  BY <1>2 DEF EndsInText, Bytes
<1>4. Newlines(s) = 0
  BY <1>1, NoNewline
<1>5. t + 1 <= m
  BY <1>3, <1>4 DEF Makes
<1>6. <<>> \in Seq(Bytes) /\ OneByteTexts(<<>>) /\ ~EndsInText(<<>>)
  BY DEF OneByteTexts, EndsInText
<1>7. Newlines(<<>>) = 0
  <2>1. "n" \notin Range(<<>>)
    BY DEF Range
  <2> QED BY <1>6, <2>1, NoNewline
<1> QED BY <1>5, <1>6, <1>7 DEF Makes

Sizes ==
    /\ unread \in [Clients -> 0..SendBuffer]
    /\ Len(slots) \in 1..Slots
    /\ revents \in [{0} \cup 1..Len(slots) -> BOOLEAN]
    /\ pc \in {"poll", "accept", "data", "read", "submit"}
    /\ down \in {"up", "slots", "recv", "read", "word", "write"}
    /\ Len(pending) <= QueueSize
    /\ IsFiniteSet(running) /\ Cardinality(running) <= PoolSize

LineCount ==
    /\ buf \in [Clients -> Seq(Bytes)]
    /\ inbound \in [Clients -> Seq(Bytes)]
    /\ \A c \in Clients : Makes(Unserved(c), taken[c], Lines[c])
    /\ pc = "read" => Unserved(itmap[slots[at]]) # <<>>

(* At first nothing is written, and the table of slots has any size.       *)
LEMMA CountInit == Init => Sizes /\ LineCount
<1> SUFFICES ASSUME Init PROVE Sizes /\ LineCount
  OBVIOUS
<1>1. PICK n \in 1..Slots : slots = [i \in 1..n |-> 0]
  BY DEF Init
<1>2. n \in Nat /\ DOMAIN slots = 1..n /\ Len(slots) = n
  BY <1>1, ReactorAssumption
<1>3. revents \in [{0} \cup 1..Len(slots) -> BOOLEAN]
  BY <1>2 DEF Init
<1>4. unread \in [Clients -> 0..SendBuffer]
  BY ReactorAssumption DEF Init
<1>5. Len(pending) <= QueueSize
  BY ReactorAssumption DEF Init, Pool!DInit
<1>6. IsFiniteSet(running) /\ Cardinality(running) <= PoolSize
  BY ReactorAssumption, FS_EmptySet DEF Init, Pool!DInit
<1>7. Sizes
  BY <1>1, <1>2, <1>3, <1>4, <1>5, <1>6 DEF Init, Sizes
<1>8. <<>> \in Seq(Bytes)
  OBVIOUS
<1>9. \A c \in Clients : Unserved(c) = <<>> /\ taken[c] = 0
  <2>1. <<>> \o <<>> = <<>>
    OBVIOUS
  <2> QED BY <2>1 DEF Init, Unserved
<1>10. \A m \in Nat : Makes(<<>>, 0, m)
  <2>1. "n" \notin Range(<<>>)
    BY DEF Range
  <2>2. Newlines(<<>>) = 0
    BY <1>8, <2>1, NoNewline
  <2> QED BY <1>8, <2>2 DEF Makes, OneByteTexts, EndsInText
<1>11. buf \in [Clients -> Seq(Bytes)] /\ inbound \in [Clients -> Seq(Bytes)]
  BY <1>8 DEF Init
<1>12. pc # "read"
  BY DEF Init
<1> QED BY <1>7, <1>9, <1>10, <1>11, <1>12, ReactorAssumption DEF LineCount

(* A write goes to a socket with room, or ends the process.                *)
LEMMA WriteSizes ==
    ASSUME Sizes, NEW c \in Clients, NEW r, Write(c, r)
    PROVE  /\ unread' \in [Clients -> 0..SendBuffer]
           /\ down' \in {"up", "slots", "recv", "read", "word", "write"}
<1>1. unread \in [Clients -> 0..SendBuffer] /\ SendBuffer \in Nat
  BY ReactorAssumption DEF Sizes
<1>2. CASE unread' = unread
  BY <1>1, <1>2 DEF Write, Sizes
<1>3. CASE /\ unread[c] < SendBuffer /\ down' = down
           /\ unread' = [unread EXCEPT ![c] = @ + 1]
  <2>1. unread[c] + 1 \in 0..SendBuffer
    BY <1>1, <1>3
  <2>2. unread' \in [Clients -> 0..SendBuffer]
    BY <1>1, <1>3, <2>1
  <2> QED BY <1>3, <2>2 DEF Sizes
<1> QED BY <1>2, <1>3 DEF Write

(* Every step keeps queue, pool, slots and sockets within their sizes.     *)
LEMMA SizesNext == IInv /\ Sizes /\ [Next]_vars => Sizes'
<1> SUFFICES ASSUME IInv, Sizes, [Next]_vars PROVE Sizes'
  OBVIOUS
<1>1. ASSUME NEW c \in Clients, Client(c) PROVE Sizes'
  <2>1. /\ UNCHANGED <<slots, revents, pc, down, pending, running>>
        /\ unread' = unread \/ unread' = [unread EXCEPT ![c] = 0]
    BY <1>1 DEF Client, Connect, Speak, SendBytes, ShutdownWrite, Close,
                ReadAnswers, poller, iothread, tasks
  <2>2. unread' \in [Clients -> 0..SendBuffer]
    BY <2>1, ReactorAssumption DEF Sizes
  <2> QED BY <2>1, <2>2 DEF Sizes
<1>2. CASE HandleAccept
  <2>1. Head(backlog) \in Clients
    BY <1>2 DEF IInv, Typed, Place, HandleAccept, Accepting, At
  <2>2. /\ Write(Head(backlog), Reply(Head(backlog), 0))
        /\ \E i, f : slots' = [slots EXCEPT ![i] = f]
        /\ pc' = "data" /\ UNCHANGED <<revents, pending, running>>
    BY <1>2 DEF HandleAccept, Greet, tasks
  <2>3. Len(slots') = Len(slots)
    BY <2>2 DEF IInv, Typed
  <2> QED BY <2>1, <2>2, <2>3, WriteSizes DEF Sizes
<1>3. ASSUME NEW t \in Tasks, Compute(t) PROVE Sizes'
  <2>1. PICK c \in Owners(fd[t.conn]) : Write(c, t)
    BY <1>3 DEF Compute
  <2>2. c \in Clients
    BY <2>1, OwnersAre
  <2>3. /\ running' = running \ {t} /\ pending' = pending
        /\ UNCHANGED <<slots, revents, pc>>
    BY <1>3 DEF Compute, Pool!Finish, poller, iothread
  <2>4. IsFiniteSet(running) /\ Cardinality(running) <= PoolSize
    BY DEF Sizes
  <2>5. /\ IsFiniteSet(running \ {t})
        /\ Cardinality(running \ {t}) <= Cardinality(running)
        /\ Cardinality(running \ {t}) \in Nat /\ Cardinality(running) \in Nat
    BY <2>4, FS_Subset, FS_CardinalityType
  <2>6. IsFiniteSet(running') /\ Cardinality(running') <= PoolSize
    BY <2>3, <2>4, <2>5, ReactorAssumption
  <2> QED BY <2>1, <2>2, <2>3, <2>6, WriteSizes DEF Sizes
<1>4. CASE StartTask
  <2>1. PICK t : running' = running \cup {t}
    BY <1>4 DEF StartTask, Pool!Dispatch
  <2>2. /\ pending # <<>> /\ pending' = Tail(pending)
        /\ Cardinality(running) < PoolSize
        /\ UNCHANGED <<unread, slots, revents, pc, down>>
    BY <1>4 DEF StartTask, Pool!Dispatch, Cardinality, Pool!Cardinality,
                network, poller, iothread
  <2>3. Len(pending') <= QueueSize
    <3>1. pending \in Seq(Replies) /\ Len(pending) <= QueueSize
      BY DEF IInv, Typed, Sizes
    <3>2. Len(pending) \in Nat /\ Len(Tail(pending)) = Len(pending) - 1
      BY <2>2, <3>1
    <3> QED BY <2>2, <3>1, <3>2, ReactorAssumption
  <2>4. IsFiniteSet(running) /\ Cardinality(running) \in Nat
    BY FS_CardinalityType DEF Sizes
  <2>5. /\ IsFiniteSet(running \cup {t})
        /\ \/ Cardinality(running \cup {t}) = Cardinality(running)
           \/ Cardinality(running \cup {t}) = Cardinality(running) + 1
    BY <2>4, FS_AddElement
  <2>6. IsFiniteSet(running') /\ Cardinality(running') <= PoolSize
    BY <2>1, <2>2, <2>4, <2>5, ReactorAssumption
  <2> QED BY <2>2, <2>3, <2>6 DEF Sizes
<1>5. CASE AddTask
  <2>1. /\ Len(pending) < QueueSize /\ \E t : pending' = Append(pending, t)
        /\ pc' = "data"
        /\ UNCHANGED <<unread, slots, revents, down, running>>
    BY <1>5 DEF AddTask, Pool!Submit, network, poller
  <2>2. Len(pending) \in Nat /\ Len(pending') = Len(pending) + 1
    BY <2>1 DEF IInv, Typed
  <2>3. Len(pending') <= QueueSize
    BY <2>1, <2>2, ReactorAssumption
  <2> QED BY <2>1, <2>3 DEF Sizes
<1>6. CASE Poll
  <2>1. /\ DOMAIN revents' = DOMAIN revents
        /\ \A i \in DOMAIN revents : revents'[i] \in BOOLEAN
        /\ revents' = [i \in DOMAIN revents |-> revents'[i]]
    <3>1. DOMAIN revents = {0} \cup 1..Len(slots)
      BY DEF Sizes
    <3>2. \A i \in DOMAIN revents : revents[i] \in BOOLEAN
      BY DEF Sizes
    <3> QED BY <1>6, <3>1, <3>2 DEF Poll
  <2>2. pc' = "accept" /\ UNCHANGED <<unread, slots, down, pending, running>>
    BY <1>6 DEF Poll, network, tasks
  <2>3. revents' \in [{0} \cup 1..Len(slots') -> BOOLEAN]
    BY <2>1, <2>2 DEF Sizes
  <2> QED BY <2>2, <2>3 DEF Sizes
<1>7. CASE HandleData
  <2>1. /\ \/ slots' = slots \/ \E i : slots' = [slots EXCEPT ![i] = 0]
        /\ pc' \in {pc, "read"} /\ down' \in {down, "recv"}
        /\ UNCHANGED <<unread, revents, pending, running>>
    BY <1>7 DEF HandleData, HandleMessageEvent, CloseSlot, network, iothread,
                tasks
  <2>2. Len(slots') = Len(slots)
    BY <2>1 DEF IInv, Typed
  <2> QED BY <2>1, <2>2 DEF Sizes
<1>8. CASE \/ NoAccept \/ TooManyClients \/ EndRound \/ UNCHANGED vars
           \/ \E c \in Clients : Fill(c) \/ ReadError(c) \/ ReceiveLine(c)
                                 \/ ReceiveRest(c)
  <2>1. /\ UNCHANGED <<unread, slots, revents, pending, running>>
        /\ pc' \in {pc, "data", "poll", "submit"}
        /\ down' \in {down, "slots", "read", "word"}
    BY <1>8 DEF NoAccept, TooManyClients, EndRound, Fill, ReadError,
                ReceiveLine, ReceiveRest, TakeLine, OneByteLine, network,
                poller, iothread, tasks, vars
  <2> QED BY <2>1 DEF Sizes
<1> QED BY <1>1, <1>2, <1>3, <1>4, <1>5, <1>6, <1>7, <1>8 DEF Next, IoThread

(* Clients write within their lines.                                       *)
LEMMA LineCountClient ==
    ASSUME IInv, LineCount, NEW c \in Clients, Client(c)
    PROVE  LineCount'
<1>1. UNCHANGED <<buf, taken, pc, at, slots, itmap>>
  BY DEF Client, Connect, Speak, SendBytes, ShutdownWrite, Close, ReadAnswers,
         poller, reader, iothread
<1>2. CASE \E bytes \in {<<"w">>, <<"n">>, <<"w", "n">>} : SendBytes(c, bytes)
  <2>1. PICK bytes \in {<<"w">>, <<"n">>, <<"w", "n">>} : SendBytes(c, bytes)
    BY <1>2
  <2>2. /\ inbound' = [inbound EXCEPT ![c] = inbound[c] \o bytes]
        /\ taken[c] + Newlines(Unserved(c)) < Lines[c]
        /\ EndsInText(Unserved(c)) => bytes = <<"n">>
    BY <2>1 DEF SendBytes, Sent, Begun, EndsInText, Last
  <2>3. buf[c] \in Seq(Bytes) /\ inbound[c] \in Seq(Bytes) /\ bytes \in Seq(Bytes)
    <3>1. "w" \in Bytes /\ "n" \in Bytes
      BY DEF Bytes
    <3>2. <<"w">> \in Seq(Bytes) /\ <<"n">> \in Seq(Bytes)
      BY <3>1
    <3>3. <<"w", "n">> \in Seq(Bytes)
      BY <3>1
    <3> QED BY <2>1, <3>2, <3>3 DEF LineCount
  <2>4. /\ inbound' \in [Clients -> Seq(Bytes)]
        /\ inbound'[c] = inbound[c] \o bytes
        /\ \A d \in Clients : d # c => inbound'[d] = inbound[d]
    BY <2>2, <2>3 DEF LineCount
  <2>5. Unserved(c)' = Unserved(c) \o bytes
    <3>1. buf[c] \o (inbound[c] \o bytes) = (buf[c] \o inbound[c]) \o bytes
      <4>1. \A x, y, z \in Seq(Bytes) : x \o (y \o z) = (x \o y) \o z
        BY ConcatAssociative
      <4> QED BY <2>3, <4>1
    <3> QED BY <1>1, <2>4, <3>1 DEF Unserved
  <2>6. taken[c] \in Nat /\ Lines[c] \in Nat
    BY ReactorAssumption DEF IInv, Typed
  <2>7. Makes(Unserved(c), taken[c], Lines[c])
    BY DEF LineCount
  <2>8. Makes(Unserved(c) \o bytes, taken[c], Lines[c])
    BY <2>1, <2>2, <2>6, <2>7, MakesSent
  <2>9. \A d \in Clients : d # c => Unserved(d)' = Unserved(d)
    BY <1>1, <2>4 DEF Unserved
  <2>10. Unserved(c) # <<>> => Unserved(c) \o bytes # <<>>
    <3>1. Unserved(c) \in Seq(Bytes)
      BY <2>7 DEF Makes
    <3> QED BY <2>3, <3>1
  <2>11. \A d \in Clients : Makes(Unserved(d)', taken'[d], Lines[d])
    BY <1>1, <2>5, <2>8, <2>9 DEF LineCount
  <2>12. pc' = "read" => Unserved(itmap[slots[at]])' # <<>>
    <3> SUFFICES ASSUME pc = "read"
                 PROVE  Unserved(itmap[slots[at]])' # <<>>
      BY <1>1
    <3>1. PICK d \in Clients : d = itmap[slots[at]]
      BY InHand
    <3>2. Unserved(d) # <<>>
      BY <3>1 DEF LineCount
    <3>3. d = itmap'[slots'[at']]
      BY <1>1, <3>1
    <3>4. Unserved(d)' # <<>>
      BY <2>5, <2>9, <2>10, <3>2
    <3> QED BY <3>3, <3>4 DEF Unserved
  <2> QED BY <1>1, <2>4, <2>11, <2>12 DEF LineCount, Unserved
<1>3. CASE inbound' = inbound
  BY <1>1, <1>3 DEF LineCount, Unserved
<1> QED BY <1>2, <1>3 DEF Client, Connect, Speak, ShutdownWrite, Close,
                          ReadAnswers

(* A fill moves bytes from the socket to the buffer.                       *)
LEMMA LineCountFill ==
    ASSUME IInv, LineCount, NEW c \in Clients, Fill(c)
    PROVE  LineCount'
<1>1. /\ UNCHANGED <<taken, pc, at, slots, itmap>>
      /\ buf' = [buf EXCEPT ![c] = buf[c] \o inbound[c]]
      /\ inbound' = [inbound EXCEPT ![c] = <<>>]
  BY DEF Fill, poller, iothread
<1>2. buf[c] \in Seq(Bytes) /\ inbound[c] \in Seq(Bytes) /\ <<>> \in Seq(Bytes)
  BY DEF LineCount
<1>3. buf[c] \o inbound[c] \in Seq(Bytes)
  BY <1>2
<1>4. buf' \in [Clients -> Seq(Bytes)] /\ inbound' \in [Clients -> Seq(Bytes)]
  BY <1>1, <1>2, <1>3 DEF LineCount
<1>5. (buf[c] \o inbound[c]) \o <<>> = buf[c] \o inbound[c]
  BY <1>3
<1>6. \A d \in Clients : buf'[d] \o inbound'[d] = buf[d] \o inbound[d]
  BY <1>1, <1>5 DEF LineCount
<1>7. \A d \in Clients : Makes(buf'[d] \o inbound'[d], taken'[d], Lines[d])
  BY <1>1, <1>6 DEF LineCount, Unserved
<1>8. ASSUME pc' = "read"
      PROVE  buf'[itmap'[slots'[at']]] \o inbound'[itmap'[slots'[at']]] # <<>>
  <2>1. itmap[slots[at]] \in Clients
    BY <1>1, <1>8, InHand
  <2> QED BY <1>1, <1>6, <1>8, <2>1 DEF LineCount, Unserved
<1> QED BY <1>4, <1>7, <1>8 DEF LineCount, Unserved

(* The line taken was one of those counted.                                *)
LEMMA LineCountTake ==
    ASSUME IInv, LineCount, NEW c \in Clients, NEW n, TakeLine(c, n),
           Reading(c),
           \/ n = 2 /\ "n" \in Range(buf[c]) /\ Head(buf[c]) # "n"
           \/ n = Len(buf[c]) /\ "n" \notin Range(buf[c]) /\ inbound[c] = <<>>
    PROVE  LineCount'
<1> DEFINE rest == SubSeq(buf[c], n + 1, Len(buf[c]))
           u == Unserved(c)
<1>1. /\ buf' = [buf EXCEPT ![c] = rest]
      /\ taken' = [taken EXCEPT ![c] = taken[c] + 1]
      /\ pc' = "submit" /\ inbound' = inbound
      /\ pc = "read" /\ c = itmap[slots[at]]
  BY DEF TakeLine, network, Reading, At
<1>2. /\ buf[c] \in Seq(Bytes) /\ inbound[c] \in Seq(Bytes)
      /\ Len(buf[c]) \in Nat /\ u \in Seq(Bytes)
      /\ taken[c] \in Nat /\ Lines[c] \in Nat
  BY ReactorAssumption DEF LineCount, Unserved, IInv, Typed
<1>3. Makes(u, taken[c], Lines[c]) /\ u # <<>>
  BY <1>1 DEF LineCount
<1>4. rest \in Seq(Bytes) /\ Makes(rest \o inbound[c], taken[c] + 1, Lines[c])
  <2>1. CASE n = 2 /\ "n" \in Range(buf[c]) /\ Head(buf[c]) # "n"
    <3>1. PICK i \in 1..Len(buf[c]) : buf[c][i] = "n"
      BY <1>2, <2>1 DEF Range
    <3>2. Len(buf[c]) >= 2 /\ buf[c][1] # "n"
      <4>1. buf[c] # <<>>
        BY <1>2, <3>1
      <4>2. Head(buf[c]) = buf[c][1]
        BY <1>2, <4>1
      <4>3. i # 1
        BY <2>1, <3>1, <4>2
      <4> QED BY <1>2, <2>1, <3>1, <4>2, <4>3
    <3>3. Len(u) >= 2 /\ u[1] # "n"
      <4>1. \A x, y \in Seq(Bytes) :
               Len(x) >= 2 => Len(x \o y) >= 2 /\ (x \o y)[1] = x[1]
        OBVIOUS
      <4>2. u = buf[c] \o inbound[c]
        BY DEF Unserved
      <4> QED BY <1>2, <3>2, <4>1, <4>2
    <3>4. Makes(SubSeq(u, 3, Len(u)), taken[c] + 1, Lines[c])
      BY <1>2, <1>3, <3>3, MakesBehindLine
    <3>5. SubSeq(u, 3, Len(u)) = SubSeq(buf[c], 3, Len(buf[c])) \o inbound[c]
      BY <1>2, <3>2, BehindJoined DEF Unserved
    <3>6. rest = SubSeq(buf[c], 3, Len(buf[c]))
      BY <2>1
    <3>7. rest \in Seq(Bytes)
      BY <1>2, <3>2, <3>6, BehindLine
    <3> HIDE DEF rest, u
    <3> QED BY <3>4, <3>5, <3>6, <3>7
  <2>2. CASE n = Len(buf[c]) /\ "n" \notin Range(buf[c]) /\ inbound[c] = <<>>
    <3>1. u = buf[c]
      BY <1>2, <2>2 DEF Unserved
    <3>2. Makes(<<>>, taken[c] + 1, Lines[c])
      BY <1>2, <1>3, <2>2, <3>1, MakesRest
    <3>3. rest = <<>>
      BY <1>2, <2>2, SubSeqEmpty
    <3>4. <<>> \o inbound[c] = <<>>
      BY <2>2
    <3> QED BY <3>2, <3>3, <3>4 DEF Makes
  <2> QED BY <2>1, <2>2
<1> HIDE DEF rest, u
<1>5. buf' \in [Clients -> Seq(Bytes)] /\ inbound' \in [Clients -> Seq(Bytes)]
  BY <1>1, <1>4 DEF LineCount
<1>6. /\ buf'[c] = rest /\ taken'[c] = taken[c] + 1
      /\ \A d \in Clients : d # c => buf'[d] = buf[d] /\ taken'[d] = taken[d]
  BY <1>1 DEF LineCount, IInv, Typed
<1>7. \A d \in Clients : Makes(buf'[d] \o inbound'[d], taken'[d], Lines[d])
  BY <1>1, <1>4, <1>6 DEF LineCount, Unserved
<1> QED BY <1>1, <1>5, <1>7 DEF LineCount, Unserved

(* Every step keeps the count of lines.                                    *)
LEMMA LineCountNext == IInv /\ LineCount /\ [Next]_vars => LineCount'
<1> SUFFICES ASSUME IInv, LineCount, [Next]_vars PROVE LineCount'
  OBVIOUS
<1>1. ASSUME NEW c \in Clients, Client(c) PROVE LineCount'
  BY <1>1, LineCountClient
<1>2. ASSUME NEW c \in Clients, Fill(c) PROVE LineCount'
  BY <1>2, LineCountFill
<1>3. CASE \/ Poll \/ NoAccept \/ HandleAccept \/ TooManyClients \/ EndRound
           \/ AddTask \/ StartTask \/ OneByteLine \/ UNCHANGED vars
           \/ \E c \in Clients : ReadError(c)
           \/ \E t \in Tasks : Compute(t)
  <2>1. /\ UNCHANGED <<buf, taken, inbound>>
        /\ pc' \in {"accept", "data", "poll"} \/ UNCHANGED <<pc, at, slots, itmap>>
    BY <1>3 DEF Poll, NoAccept, HandleAccept, TooManyClients, EndRound, AddTask,
                StartTask, OneByteLine, ReadError, Compute, network, poller,
                reader, iothread, vars
  <2> QED BY <2>1 DEF LineCount, Unserved
<1>4. CASE HandleData
  <2>1. PICK i, c : i = Min(Due) /\ c = itmap[slots[i]]
    OBVIOUS
  <2>2. UNCHANGED <<buf, taken, inbound>> /\ pc = "data"
    BY <1>4 DEF HandleData, At, network, reader
  <2>3. \/ pc' = "data"
        \/ /\ inbound[c] # <<>> /\ pc' = "read" /\ at' = i
           /\ UNCHANGED <<slots, itmap>>
    BY <1>4, <2>1 DEF HandleData, HandleMessageEvent, At, iothread
  <2>4. c \in Clients
    <3>1. slots[i] \in DOMAIN itmap
      BY <1>4, <2>1, <2>2, DueFacts DEF HandleData
    <3> QED BY <2>1, <3>1 DEF IInv, SlotsAndMap
  <2>5. inbound[c] # <<>> => buf[c] \o inbound[c] # <<>>
    BY <2>4 DEF LineCount
  <2> QED BY <2>1, <2>2, <2>3, <2>5 DEF LineCount, Unserved
<1>5. ASSUME NEW c \in Clients, ReceiveLine(c) \/ ReceiveRest(c)
      PROVE  OneByteLine \/ LineCount'
  BY <1>5, LineCountTake DEF ReceiveLine, ReceiveRest, NoLine, AtEnd
<1> QED BY <1>1, <1>2, <1>3, <1>4, <1>5 DEF Next, IoThread

(* The table of slots never outgrows POLL_EVENT_SIZE, the queue its size,  *)
(* the pool its threads, a socket its buffer; descriptors are those of the *)
(* map; and no connection returns more lines than its client has written.  *)
THEOREM ReactorTypes == Spec => []TypeOK
<1>1. Init => Sizes /\ LineCount
  BY CountInit
<1>2. IInv /\ Sizes /\ LineCount /\ [Next]_vars => (Sizes /\ LineCount)'
  BY SizesNext, LineCountNext
<1>3. IInv /\ Sizes /\ LineCount => TypeOK
  <2> SUFFICES ASSUME IInv, Sizes, LineCount PROVE TypeOK
    OBVIOUS
  <2>1. slots \in Seq(Nat) /\ DOMAIN slots = 1..Len(slots)
    BY DEF IInv, Typed
  <2>2. DOMAIN itmap \subseteq 1..Cardinality(Clients)
    <3> SUFFICES ASSUME NEW f \in DOMAIN itmap
                 PROVE  f \in 1..Cardinality(Clients)
      OBVIOUS
    <3>1. itmap[f] \in Clients /\ fd[itmap[f]] = f /\ Held(itmap[f])
      BY HeldBy DEF IInv, SlotsAndMap
    <3> QED BY <3>1 DEF IInv, Descriptors
  <2>3. \A i \in 1..Len(slots) : slots[i] \in 0..Cardinality(Clients)
    <3> SUFFICES ASSUME NEW i \in 1..Len(slots)
                 PROVE  slots[i] \in 0..Cardinality(Clients)
      OBVIOUS
    <3>1. Cardinality(Clients) \in Nat
      BY ReactorAssumption, FS_CardinalityType
    <3>2. slots[i] = 0 \/ slots[i] \in DOMAIN itmap
      BY DEF IInv, SlotsAndMap, Elems
    <3> QED BY <2>2, <3>1, <3>2
  <2>4. \E n \in 1..Slots : slots \in [1..n -> 0..Cardinality(Clients)]
    <3>1. slots \in [1..Len(slots) -> 0..Cardinality(Clients)]
      BY <2>1, <2>3
    <3>2. Len(slots) \in 1..Slots
      BY DEF Sizes
    <3> QED BY <3>1, <3>2
  <2>5. \A c \in Clients : taken[c] <= Lines[c]
    <3> SUFFICES ASSUME NEW c \in Clients PROVE taken[c] <= Lines[c]
      OBVIOUS
    <3>1. Makes(Unserved(c), taken[c], Lines[c])
      BY DEF LineCount
    <3>2. Newlines(Unserved(c)) \in Nat
      BY <3>1, NewlinesType DEF Makes
    <3>3. taken[c] + Newlines(Unserved(c)) <= Lines[c]
      BY <3>1 DEF Makes
    <3>4. taken[c] \in Nat /\ Lines[c] \in Nat
      BY ReactorAssumption DEF IInv, Typed
    <3> QED BY <3>2, <3>3, <3>4
  <2>6. maxi \in {0} \cup DOMAIN slots
    BY <2>1 DEF IInv, Typed
  <2> QED BY <2>1, <2>2, <2>4, <2>5, <2>6 DEF TypeOK, IInv, Typed, Sizes
<1> QED BY <1>1, <1>2, <1>3, IInvAlways, PTL DEF Spec

=============================================================================
