--------------------------- MODULE SharedLemmas ----------------------------
(***************************************************************************)
(* What several of the proofs need: induction up to a number, what is in a *)
(* sequence without repetition, and what the operations of LruCache        *)
(* (LruCacheOps) keep of a cache, for any keys, values and sizes.          *)
(***************************************************************************)
EXTENDS LruCacheOps, SequenceTheorems, WellFoundedInduction, TLAPS

(* Induction.  The provers take no induction principle with an operator as *)
(* its parameter, so a predicate is given by the set where it holds.       *)

(* The order of the naturals is well-founded.                              *)
LEMMA LessWellFounded ==
    IsWellFoundedOn({ss \in Nat \X Nat : ss[1] < ss[2]}, Nat)
BY NatLessThanWellFounded DEF OpToRel

(* A set of naturals that is not empty holds its minimum, which is not     *)
(* above any other.                                                        *)
LEMMA MinFacts ==
    ASSUME NEW S, S \subseteq Nat, S # {}
    PROVE  /\ Min(S) \in S
           /\ \A n \in S : Min(S) <= n
<1> DEFINE R == {ss \in Nat \X Nat : ss[1] < ss[2]}
<1>1. \E x \in S : \A y \in S : ~(<<y, x>> \in R)
  <2>1. IsWellFoundedOn(R, Nat)
    BY LessWellFounded
  <2> HIDE DEF R
  <2> QED BY <2>1, WFMin
<1>2. PICK m \in S : \A n \in S : ~(<<n, m>> \in R)
  BY <1>1
<1>3. ASSUME NEW n \in S PROVE m <= n
  <2>1. n \in Nat /\ m \in Nat
    OBVIOUS
  <2>2. ~(n < m)
    BY <1>2, <2>1
  <2> QED BY <2>1, <2>2
<1>4. \E x \in S : \A y \in S : x <= y
  BY <1>3
<1> QED BY <1>4 DEF Min

(* A set that holds 0 and, with a number below n, the next one, holds all  *)
(* the numbers up to n: otherwise there is a least one it lacks.           *)
LEMMA UpTo ==
    ASSUME NEW n \in Nat, NEW S, 0 \in S,
           \A m \in 0..n : m < n /\ m \in S => m + 1 \in S
    PROVE  \A m \in 0..n : m \in S
<1> DEFINE R == {ss \in Nat \X Nat : ss[1] < ss[2]}
           T == {m \in 0..n : m \notin S}
<1> SUFFICES ASSUME T # {} PROVE FALSE
  OBVIOUS
<1>1. \E x \in T : \A y \in T : ~(<<y, x>> \in R)
  <2>1. IsWellFoundedOn(R, Nat)
    BY LessWellFounded
  <2>2. T \subseteq Nat /\ T # {}
    OBVIOUS
  <2> HIDE DEF R, T
  <2> QED BY <2>1, <2>2, WFMin
<1>2. PICK x \in T : \A y \in T : ~(<<y, x>> \in R)
  BY <1>1
<1>3. x # 0 /\ x \in 0..n
  OBVIOUS
<1>4. x - 1 \in 0..n /\ x - 1 < n /\ (x - 1) + 1 = x /\ x - 1 < x
  BY <1>3
<1>5. x - 1 \in S
  <2>1. <<x - 1, x>> \in R
    BY <1>3, <1>4
  <2>2. x - 1 \notin T
    BY <1>2, <2>1
  <2> QED BY <1>4, <2>2
<1> QED BY <1>4, <1>5

-----------------------------------------------------------------------------
(* Sequences without repetition, as the queues and the answers to a client *)
(* are.                                                                    *)

Elems(s) == {s[i] : i \in 1..Len(s)}
Distinct(s) == \A i, j \in 1..Len(s) : s[i] = s[j] => i = j

(* An appended element is added to the others, and repeats none of them if *)
(* it was not among them.                                                  *)
LEMMA AppendElems ==
    ASSUME NEW S, NEW s \in Seq(S), NEW x \in S
    PROVE  /\ Elems(Append(s, x)) = Elems(s) \cup {x}
           /\ Distinct(s) /\ x \notin Elems(s) => Distinct(Append(s, x))
<1> DEFINE t == Append(s, x)
<1>1. /\ Len(s) \in Nat
      /\ Len(t) = Len(s) + 1
      /\ t[Len(s) + 1] = x
      /\ \A i \in 1..Len(s) : t[i] = s[i]
  OBVIOUS
<1> HIDE DEF t
<1>2. Elems(s) \cup {x} \subseteq Elems(t)
  BY <1>1 DEF Elems
<1>3. Elems(t) \subseteq Elems(s) \cup {x}
  BY <1>1 DEF Elems
<1>4. ASSUME Distinct(s), x \notin Elems(s) PROVE Distinct(t)
  BY <1>1, <1>4 DEF Elems, Distinct
<1> QED BY <1>2, <1>3, <1>4 DEF t

(* Behind its head, a sequence without repetition holds all but its head.  *)
LEMMA TailElems ==
    ASSUME NEW S, NEW s \in Seq(S), s # <<>>, Distinct(s)
    PROVE  /\ Head(s) \in Elems(s)
           /\ Elems(Tail(s)) = Elems(s) \ {Head(s)}
           /\ Distinct(Tail(s))
<1> DEFINE t == Tail(s)
<1>1. /\ Len(s) \in Nat /\ Len(s) >= 1
      /\ Len(t) = Len(s) - 1
      /\ Head(s) = s[1]
      /\ \A i \in 1..Len(t) : t[i] = s[i + 1]
  OBVIOUS
<1> HIDE DEF t
<1>2. Head(s) \in Elems(s)
  BY <1>1 DEF Elems
<1>3. Elems(t) \subseteq Elems(s) \ {Head(s)}
  BY <1>1 DEF Elems, Distinct
<1>4. ASSUME NEW e \in Elems(s), e # Head(s) PROVE e \in Elems(t)
  <2>1. PICK i \in 1..Len(s) : s[i] = e
    BY DEF Elems
  <2>2. i # 1 /\ i - 1 \in 1..Len(t) /\ t[i - 1] = s[(i - 1) + 1]
    BY <1>1, <1>4, <2>1
  <2>3. (i - 1) + 1 = i
    BY <2>1
  <2> QED BY <2>1, <2>2, <2>3 DEF Elems
<1>5. Distinct(t)
  BY <1>1 DEF Distinct
<1> QED BY <1>2, <1>3, <1>4, <1>5 DEF t

-----------------------------------------------------------------------------
(* Caches.  In a whole cache the nodes have the addresses 1..n, one each,  *)
(* and every map entry leads to a node with its key; an operation takes at *)
(* most one node out and puts one in, which gets the address that is       *)
(* missing.                                                                *)

\* The map entry of k leads to a node with key k.
Leads(c, k) == \E n \in Nodes(c) : n.id = c.map[k] /\ n.key = k

\* One address is missing, and the entry of k may dangle.
Lacks(c, id, k) ==
    /\ \E S : c.list \in Seq(S)
    /\ id \in 1..(Len(c.list) + 1)
    /\ {n.id : n \in Nodes(c)} = 1..(Len(c.list) + 1) \ {id}
    /\ \A i, j \in 1..Len(c.list) : c.list[i].id = c.list[j].id => i = j
    /\ \A x \in DOMAIN c.map \ {k} : Leads(c, x)

Whole(c) ==
    /\ c = [list |-> c.list, map |-> c.map]
    /\ \E S : c.list \in Seq(S)
    /\ {n.id : n \in Nodes(c)} = 1..Len(c.list)
    /\ \A i, j \in 1..Len(c.list) : c.list[i].id = c.list[j].id => i = j
    /\ \A x \in DOMAIN c.map : Leads(c, x)

\* The addresses alone; and a cache whose entries for some words may lead to
\* nodes of other keys.
NodesPlaced(c) ==
    /\ c = [list |-> c.list, map |-> c.map]
    /\ \E S : c.list \in Seq(S)
    /\ {n.id : n \in Nodes(c)} = 1..Len(c.list)
    /\ \A i, j \in 1..Len(c.list) : c.list[i].id = c.list[j].id => i = j

WholeBut(c, words) ==
    /\ NodesPlaced(c)
    /\ \A x \in DOMAIN c.map :
          \E n \in Nodes(c) : n.id = c.map[x] /\ (n.key = x \/ x \in words)

Node(id, k, v) == [id |-> id, key |-> k, val |-> v]

\* s without its p-th element is t.
SkipsAt(s, p, t) ==
    /\ \E S : t \in Seq(S)
    /\ Len(t) = Len(s) - 1
    /\ \A i \in 1..(Len(s) - 1) : t[i] = IF i < p THEN s[i] ELSE s[i + 1]

\* No entry of d but k's is new or leads to a node with the given key.
KeepsMap(c, d, k, key) ==
    \A x \in DOMAIN d.map \ {k} :
        x \in DOMAIN c.map /\ d.map[x] = c.map[x] /\ x # key

\* d is c with a node pushed in front and an entry that leads to it.
InFront(c, id, k, v, d) ==
    /\ Whole(d)
    /\ d.map = Points(c.map, k, id)
    /\ Len(d.list) = Len(c.list) + 1
    /\ d.list[1] = Node(id, k, v)
    /\ \A i \in 1..Len(c.list) : d.list[i + 1] = c.list[i]
    /\ Nodes(d) = Nodes(c) \cup {Node(id, k, v)}

\* d is c with a last node of key k and answer v.
LastSet(c, d, k, v) ==
    /\ Len(d.list) = Len(c.list)
    /\ d.list[Len(c.list)] = Node(Len(c.list), k, v)
    /\ \A n \in Nodes(d) : n \in Nodes(c) \/ n = Node(Len(c.list), k, v)

-----------------------------------------------------------------------------
(* Nodes in, nodes out.                                                    *)

(* The nodes of a cache whose list is a sequence.                          *)
LEMMA NodesAre ==
    ASSUME NEW c, NEW S, c.list \in Seq(S)
    PROVE  /\ Len(c.list) \in Nat /\ DOMAIN c.list = 1..Len(c.list)
           /\ Nodes(c) = {c.list[i] : i \in 1..Len(c.list)}
BY DEF Nodes

(* A sequence without its p-th element.                                    *)
LEMMA RemoveAtFacts ==
    ASSUME NEW S, NEW s \in Seq(S), NEW p \in 1..Len(s)
    PROVE  /\ RemoveAt(s, p) \in Seq(S)
           /\ Len(RemoveAt(s, p)) = Len(s) - 1
           /\ \A i \in 1..(Len(s) - 1) :
                 RemoveAt(s, p)[i] = IF i < p THEN s[i] ELSE s[i + 1]
           /\ SkipsAt(s, p, RemoveAt(s, p))
<1> DEFINE a == SubSeq(s, 1, p - 1)
           b == SubSeq(s, p + 1, Len(s))
<1>1. Len(s) \in Nat /\ \A i \in 1..Len(s) : s[i] \in S
  OBVIOUS
<1>2. /\ a \in Seq(S) /\ Len(a) = p - 1
      /\ \A i \in 1..(p - 1) : a[i] = s[i]
  <2>1. /\ a \in Seq(S)
        /\ Len(a) = IF 1 <= p - 1 THEN (p - 1) - 1 + 1 ELSE 0
        /\ \A i \in 1..((p - 1) - 1 + 1) : a[i] = s[1 + i - 1]
    BY <1>1, SubSeqProperties
  <2> QED BY <2>1
<1>3. /\ b \in Seq(S) /\ Len(b) = Len(s) - p
      /\ \A i \in 1..(Len(s) - p) : b[i] = s[p + i]
  <2>1. /\ b \in Seq(S)
        /\ Len(b) = IF p + 1 <= Len(s) THEN Len(s) - (p + 1) + 1 ELSE 0
        /\ \A i \in 1..(Len(s) - (p + 1) + 1) : b[i] = s[(p + 1) + i - 1]
    BY <1>1, SubSeqProperties
  <2> QED BY <2>1, <1>1
<1> HIDE DEF a, b
<1>4. /\ a \o b \in Seq(S)
      /\ Len(a \o b) = Len(a) + Len(b)
      /\ \A i \in 1..(Len(a) + Len(b)) :
            (a \o b)[i] = IF i <= Len(a) THEN a[i] ELSE b[i - Len(a)]
  BY <1>2, <1>3, ConcatProperties
<1>5. RemoveAt(s, p) = a \o b
  BY DEF RemoveAt, a, b
<1>6. ASSUME NEW i \in 1..(Len(s) - 1)
      PROVE  (a \o b)[i] = IF i < p THEN s[i] ELSE s[i + 1]
  <2>1. i \in 1..(Len(a) + Len(b))
    BY <1>1, <1>2, <1>3
  <2>2. CASE i < p
    <3>1. i \in 1..(p - 1) /\ i <= Len(a)
      BY <2>2, <1>1, <1>2
    <3> QED BY <2>1, <2>2, <3>1, <1>2, <1>4
  <2>3. CASE ~(i < p)
    <3>1. i - Len(a) \in 1..(Len(s) - p) /\ p + (i - Len(a)) = i + 1
      BY <2>3, <1>1, <1>2
    <3> QED BY <2>1, <2>3, <3>1, <1>1, <1>2, <1>3, <1>4
  <2> QED BY <2>2, <2>3
<1>7. a \o b \in Seq(S) /\ Len(a \o b) = Len(s) - 1
  BY <1>1, <1>2, <1>3, <1>4
<1> QED BY <1>5, <1>6, <1>7 DEF SkipsAt

(* A new node gets the address that is missing.                            *)
LEMMA FreeIdIs ==
    ASSUME NEW c, NEW id, NEW k, Lacks(c, id, k)
    PROVE  FreeId(c.list) = id
<1> DEFINE L == Len(c.list)
           Free(x) == /\ \A i \in DOMAIN c.list : c.list[i].id # x
                      /\ \A j \in 1..(x - 1) :
                            \E i \in DOMAIN c.list : c.list[i].id = j
<1>1. PICK S : c.list \in Seq(S)
  BY DEF Lacks
<1>2. /\ L \in Nat /\ DOMAIN c.list = 1..L
      /\ {c.list[i].id : i \in DOMAIN c.list} = 1..(L + 1) \ {id}
      /\ id \in 1..(L + 1)
  BY <1>1, NodesAre DEF Lacks, Nodes
<1>3. Free(id)
  <2>1. \A i \in DOMAIN c.list : c.list[i].id # id
    BY <1>2
  <2>2. ASSUME NEW j \in 1..(id - 1)
        PROVE  \E i \in DOMAIN c.list : c.list[i].id = j
    <3>1. j \in 1..(L + 1) \ {id}
      BY <1>2
    <3> QED BY <1>2, <3>1
  <2> QED BY <2>1, <2>2
<1>4. ASSUME NEW x \in 1..(L + 1), Free(x) PROVE x = id
  <2>1. x \notin {c.list[i].id : i \in DOMAIN c.list}
    BY <1>4
  <2> QED BY <2>1, <1>2
<1> QED BY <1>2, <1>3, <1>4 DEF FreeId

(* push_front and its map entry make the cache whole.                      *)
LEMMA PushFrontWhole ==
    ASSUME NEW c, NEW id, NEW k, NEW v, Lacks(c, id, k)
    PROVE  InFront(c, id, k, v, PushFront(c, k, v))
<1> DEFINE L == Len(c.list)
           n == Node(id, k, v)
           d == PushFront(c, k, v)
           s == <<n>> \o c.list
<1>1. PICK S : c.list \in Seq(S)
  BY DEF Lacks
<1>2. /\ L \in Nat /\ DOMAIN c.list = 1..L
      /\ Nodes(c) = {c.list[i] : i \in 1..L}
  BY <1>1, NodesAre
<1>3. /\ d.list = s
      /\ d.map = Points(c.map, k, id)
  BY FreeIdIs DEF PushFront, NewNode, Node
<1>4. n.id = id /\ n.key = k
  BY DEF Node
<1> HIDE DEF n, d
<1>5. /\ s \in Seq(S \cup {n}) /\ Len(s) = L + 1 /\ s[1] = n
      /\ \A i \in 1..L : s[i + 1] = c.list[i]
  <2>1. /\ <<n>> \in Seq(S \cup {n}) /\ c.list \in Seq(S \cup {n})
        /\ Len(<<n>>) = 1 /\ <<n>>[1] = n
    <3>1. n \in S \cup {n} /\ S \subseteq S \cup {n}
      OBVIOUS
    <3>2. c.list \in Seq(S \cup {n})
      BY <1>1, <3>1, SeqMonotonic
    <3> QED BY <3>1, <3>2
  <2>2. /\ s \in Seq(S \cup {n}) /\ Len(s) = 1 + L
        /\ \A i \in 1..(1 + L) :
              s[i] = IF i <= 1 THEN <<n>>[i] ELSE c.list[i - 1]
    BY <2>1, ConcatProperties
  <2> HIDE DEF s
  <2> QED BY <1>2, <2>1, <2>2
<1> HIDE DEF s
<1>6. Nodes(d) = Nodes(c) \cup {n}
  <2>1. Nodes(d) = {s[i] : i \in 1..(L + 1)}
    <3>1. d.list \in Seq(S \cup {n}) /\ Len(d.list) = L + 1
      BY <1>3, <1>5
    <3> QED BY <3>1, <1>3, NodesAre, SMTT(30)
  <2>2. \A i \in 1..(L + 1) : i = 1 \/ (i - 1 \in 1..L /\ (i - 1) + 1 = i)
    BY <1>2
  <2>3. \A i \in 1..L : i + 1 \in 1..(L + 1)
    BY <1>2
  <2>4. 1 \in 1..(L + 1)
    BY <1>2
  <2>5. ASSUME NEW i \in 1..(L + 1), i # 1 PROVE s[i] \in Nodes(c)
    <3>1. i - 1 \in 1..L /\ (i - 1) + 1 = i
      BY <2>2, <2>5
    <3>2. s[(i - 1) + 1] = c.list[i - 1]
      BY <3>1, <1>5
    <3> QED BY <3>1, <3>2, <1>2
  <2>6. \A i \in 1..L : c.list[i] \in Nodes(d)
    BY <2>1, <2>3, <1>5
  <2>7. n \in Nodes(d)
    BY <2>1, <2>4, <1>5
  <2>8. \A i \in 1..(L + 1) : s[i] \in Nodes(c) \cup {n}
    BY <2>5, <1>5
  <2>9. Nodes(d) \subseteq Nodes(c) \cup {n}
    BY <2>1, <2>8
  <2>10. Nodes(c) \subseteq Nodes(d)
    BY <2>6, <1>2
  <2> QED BY <2>7, <2>9, <2>10
<1>7. {m.id : m \in Nodes(d)} = 1..(L + 1)
  BY <1>4, <1>6 DEF Lacks
<1>8. ASSUME NEW i \in 1..(L + 1), NEW j \in 1..(L + 1), s[i].id = s[j].id
      PROVE  i = j
  <2>1. \A h \in 1..(L + 1) : h # 1 =>
           /\ h - 1 \in 1..L /\ s[h] = c.list[h - 1]
           /\ c.list[h - 1].id # id
    <3>1. ASSUME NEW h \in 1..(L + 1), h # 1
          PROVE  h - 1 \in 1..L /\ s[h] = c.list[h - 1]
      <4>1. h - 1 \in 1..L /\ (h - 1) + 1 = h
        BY <3>1, <1>2
      <4> QED BY <4>1, <1>5
    <3>2. \A m \in Nodes(c) : m.id # id
      BY DEF Lacks
    <3> QED BY <3>1, <3>2, <1>2 DEF Nodes
  <2>2. CASE i = 1 \/ j = 1
    BY <1>4, <1>5, <1>8, <2>1, <2>2
  <2>3. CASE i # 1 /\ j # 1
    <3>1. i - 1 = j - 1
      BY <1>8, <2>1, <2>3 DEF Lacks
    <3> QED BY <3>1
  <2> QED BY <2>2, <2>3
<1>9. \A x \in DOMAIN d.map : Leads(d, x)
  <2>1. DOMAIN d.map = DOMAIN c.map \cup {k} /\ d.map[k] = id
        /\ \A x \in DOMAIN c.map \ {k} : d.map[x] = c.map[x]
    BY <1>3 DEF Points
  <2>2. \A x \in DOMAIN c.map \ {k} : Leads(c, x)
    BY DEF Lacks
  <2> QED BY <2>1, <2>2, <1>4, <1>6 DEF Leads
<1>10. Whole(d)
  <2>1. d = [list |-> d.list, map |-> d.map]
    BY DEF d, PushFront
  <2> QED BY <2>1, <1>3, <1>5, <1>7, <1>8, <1>9 DEF Whole
<1> QED BY <1>3, <1>5, <1>6, <1>10 DEF InFront, n, d, s

(* A whole cache lacks the next address and no entry.                      *)
LEMMA WholeLacks ==
    ASSUME NEW c, NEW k, Whole(c)
    PROVE  Lacks(c, Len(c.list) + 1, k)
<1>1. PICK S : c.list \in Seq(S)
  BY DEF Whole
<1>2. Len(c.list) \in Nat
  BY <1>1, NodesAre
<1>3. 1..Len(c.list) = 1..(Len(c.list) + 1) \ {Len(c.list) + 1}
  BY <1>2
<1> QED BY <1>1, <1>2, <1>3 DEF Whole, Lacks

(* A whole cache is one without exceptions.                                *)
LEMMA WholeIs ==
    ASSUME NEW c, Whole(c)
    PROVE  NodesPlaced(c) /\ \A words : WholeBut(c, words)
BY DEF Whole, NodesPlaced, WholeBut, Leads

(* More exceptions are no less.                                            *)
LEMMA MoreWords ==
    ASSUME NEW c, NEW words, NEW more, WholeBut(c, words), words \subseteq more
    PROVE  WholeBut(c, more)
BY DEF WholeBut

(* A new node gets the next address and comes last.                        *)
LEMMA AddNodeIs ==
    ASSUME NEW c, NEW k, NEW v, NodesPlaced(c)
    PROVE  LET d == AddNode(c, k, v)
               L == Len(c.list)
           IN  /\ NodesPlaced(d)
               /\ d.map = c.map
               /\ d.list = Append(c.list, Node(L + 1, k, v))
               /\ Len(d.list) = L + 1 /\ L \in Nat
               /\ d.list[L + 1] = Node(L + 1, k, v)
               /\ Last(d.list) = Node(L + 1, k, v)
               /\ Nodes(d) = Nodes(c) \cup {Node(L + 1, k, v)}
<1> DEFINE L == Len(c.list)
           n == Node(L + 1, k, v)
           d == AddNode(c, k, v)
           s == Append(c.list, n)
<1>1. PICK S : c.list \in Seq(S)
  BY DEF NodesPlaced
<1>2. /\ L \in Nat /\ DOMAIN c.list = 1..L
      /\ Nodes(c) = {c.list[i] : i \in 1..L}
  BY <1>1, NodesAre
<1>0. \A h \in 1..L : c.list[h].id # L + 1
  <2>1. \A m \in Nodes(c) : m.id \in 1..L
    BY DEF NodesPlaced
  <2> QED BY <2>1, <1>2
<1>3. FreeId(c.list) = L + 1
  <2>1. 1..L = 1..(L + 1) \ {L + 1}
    BY <1>2
  <2> DEFINE e == [list |-> c.list, map |-> <<>>]
  <2>2. e.list = c.list /\ Nodes(e) = Nodes(c) /\ DOMAIN e.map = {}
    BY DEF Nodes
  <2> HIDE DEF e
  <2>3. Lacks(e, L + 1, k)
    BY <2>1, <2>2, <1>1, <1>2 DEF NodesPlaced, Lacks
  <2> QED BY <2>2, <2>3, FreeIdIs
<1>4. d.list = s /\ d.map = c.map
  BY <1>3 DEF AddNode, NewNode, Node
<1>5. n.id = L + 1
  BY DEF Node
<1> HIDE DEF n, d
<1>6. /\ s \in Seq(S \cup {n}) /\ Len(s) = L + 1 /\ s[L + 1] = n
      /\ \A i \in 1..L : s[i] = c.list[i]
  <2>1. n \in S \cup {n} /\ S \subseteq S \cup {n}
    OBVIOUS
  <2>2. c.list \in Seq(S \cup {n})
    BY <1>1, <2>1, SeqMonotonic
  <2> QED BY <2>1, <2>2, AppendProperties
<1> HIDE DEF s
<1>7. Nodes(d) = Nodes(c) \cup {n}
  <2>1. Nodes(d) = {s[i] : i \in 1..(L + 1)}
    <3>1. d.list \in Seq(S \cup {n}) /\ Len(d.list) = L + 1
      BY <1>4, <1>6
    <3> QED BY <3>1, <1>4, NodesAre
  <2>2. \A i \in 1..(L + 1) : s[i] \in Nodes(c) \cup {n}
    BY <1>2, <1>6
  <2>3. n \in Nodes(d) /\ Nodes(c) \subseteq Nodes(d)
    BY <2>1, <1>2, <1>6
  <2> QED BY <2>1, <2>2, <2>3
<1>8. {m.id : m \in Nodes(d)} = 1..(L + 1)
  <2>1. {m.id : m \in Nodes(d)} = {m.id : m \in Nodes(c)} \cup {L + 1}
    BY <1>5, <1>7
  <2>2. 1..(L + 1) = 1..L \cup {L + 1}
    BY <1>2
  <2>3. {m.id : m \in Nodes(c)} = 1..L
    BY DEF NodesPlaced
  <2> QED BY <2>1, <2>2, <2>3
<1>9. ASSUME NEW i \in 1..(L + 1), NEW j \in 1..(L + 1), s[i].id = s[j].id
      PROVE  i = j
  <2>1. \A h \in 1..L : s[h] = c.list[h] /\ c.list[h].id # L + 1
    BY <1>0, <1>6
  <2>4. s[L + 1].id = L + 1
    BY <1>5, <1>6
  <2>5. \A h \in 1..(L + 1) : h # L + 1 => h \in 1..L
    BY <1>2
  <2>2. CASE i = L + 1 \/ j = L + 1
    BY <1>9, <2>1, <2>2, <2>4, <2>5
  <2>3. CASE i # L + 1 /\ j # L + 1
    BY <1>9, <2>1, <2>3, <2>5 DEF NodesPlaced
  <2> QED BY <2>2, <2>3
<1>10. NodesPlaced(d)
  <2>1. d = [list |-> d.list, map |-> d.map]
    BY DEF d, AddNode
  <2> QED BY <2>1, <1>4, <1>6, <1>8, <1>9 DEF NodesPlaced
<1>11. Last(d.list) = n
  BY <1>4, <1>6 DEF Last
<1> QED BY <1>2, <1>4, <1>6, <1>7, <1>10, <1>11 DEF n, d, s

(* An entry for the node that is last.                                     *)
LEMMA MapLastIs ==
    ASSUME NEW c, NEW k, NEW words, WholeBut(c, words), Len(c.list) > 0,
           Last(c.list).id = Len(c.list),
           Last(c.list).key = k \/ k \in words
    PROVE  LET d == MapLast(c, k)
           IN  /\ WholeBut(d, words)
               /\ d.list = c.list
               /\ d.map = Points(c.map, k, Len(c.list))
               /\ Nodes(d) = Nodes(c)
<1> DEFINE L == Len(c.list)
           d == MapLast(c, k)
<1>1. /\ d.list = c.list /\ d.map = Points(c.map, k, L)
      /\ d = [list |-> d.list, map |-> d.map]
  BY DEF MapLast
<1> HIDE DEF d
<1>2. Nodes(d) = Nodes(c)
  BY <1>1 DEF Nodes
<1>3. Last(c.list) \in Nodes(c)
  <2>1. PICK S : c.list \in Seq(S)
    BY DEF WholeBut, NodesPlaced
  <2>2. Len(c.list) \in 1..Len(c.list)
    BY <2>1
  <2> QED BY <2>1, <2>2, NodesAre DEF Last
<1>4. NodesPlaced(d)
  BY <1>1, <1>2 DEF WholeBut, NodesPlaced
<1>5. /\ DOMAIN d.map = DOMAIN c.map \cup {k} /\ d.map[k] = L
      /\ \A x \in DOMAIN c.map \ {k} : d.map[x] = c.map[x]
  BY <1>1 DEF Points
<1>6. WholeBut(d, words)
  BY <1>2, <1>3, <1>4, <1>5 DEF WholeBut
<1> QED BY <1>1, <1>2, <1>6 DEF d

(* The answer of the node that is last is replaced.                        *)
LEMMA SetValIs ==
    ASSUME NEW c, NEW words, WholeBut(c, words), NEW k, NEW u, NEW v,
           Len(c.list) > 0,
           c.list[Len(c.list)] = Node(Len(c.list), k, u)
    PROVE  /\ WholeBut(SetVal(c, v), words)
           /\ LastSet(c, SetVal(c, v), k, v)
<1> DEFINE L == Len(c.list)
           d == SetVal(c, v)
           m == Node(L, k, v)
           s == [c.list EXCEPT ![L] = m]
<1>1. PICK S : c.list \in Seq(S)
  BY DEF WholeBut, NodesPlaced
<1>2. /\ L \in Nat /\ L \in 1..L /\ DOMAIN c.list = 1..L
      /\ Nodes(c) = {c.list[i] : i \in 1..L}
  BY <1>1, NodesAre
<1>3. /\ d.list = [c.list EXCEPT ![L].val = v]
      /\ d.map = c.map /\ d = [list |-> d.list, map |-> d.map]
  <2>1. c = [list |-> c.list, map |-> c.map]
    BY DEF WholeBut, NodesPlaced
  <2> QED BY <2>1 DEF SetVal
<1>4. d.list = s
  <2>1. [c.list[L] EXCEPT !.val = v] = m
    BY DEF Node
  <2>2. d.list = [c.list EXCEPT ![L] = [c.list[L] EXCEPT !.val = v]]
    BY <1>3
  <2> HIDE DEF m, d
  <2> QED BY <2>1, <2>2
<1>5. m.id = L /\ m.key = k
  BY DEF Node
<1>6. c.list[L].id = L /\ c.list[L].key = k
  BY DEF Node
<1> HIDE DEF d, m
<1>7. /\ s \in Seq(S \cup {m}) /\ Len(s) = L /\ s[L] = m
      /\ \A i \in 1..L : i # L => s[i] = c.list[i]
  <2>1. m \in S \cup {m} /\ S \subseteq S \cup {m}
    OBVIOUS
  <2>2. c.list \in Seq(S \cup {m})
    BY <1>1, <2>1, SeqMonotonic
  <2> QED BY <2>1, <2>2, <1>2, ExceptSeq
<1> HIDE DEF s
<1>8. Nodes(d) = {s[i] : i \in 1..L}
  <2>1. d.list \in Seq(S \cup {m}) /\ Len(d.list) = L
    BY <1>4, <1>7
  <2> QED BY <2>1, <1>4, NodesAre
<1>9. \A i \in 1..L : s[i].id = c.list[i].id /\ s[i].key = c.list[i].key
  BY <1>5, <1>6, <1>7
<1>10. {n.id : n \in Nodes(d)} = 1..L
  <2>1. {n.id : n \in Nodes(d)} = {s[i].id : i \in 1..L}
    BY <1>8
  <2>2. {n.id : n \in Nodes(c)} = {c.list[i].id : i \in 1..L}
    BY <1>2
  <2>3. {s[i].id : i \in 1..L} = {c.list[i].id : i \in 1..L}
    BY <1>9
  <2> QED BY <2>1, <2>2, <2>3 DEF WholeBut, NodesPlaced
<1>11. NodesPlaced(d)
  BY <1>3, <1>4, <1>7, <1>9, <1>10 DEF WholeBut, NodesPlaced
<1>12. ASSUME NEW x \in DOMAIN d.map
       PROVE  \E n \in Nodes(d) : n.id = d.map[x] /\ (n.key = x \/ x \in words)
  <2>1. PICK n \in Nodes(c) : n.id = c.map[x] /\ (n.key = x \/ x \in words)
    BY <1>3 DEF WholeBut
  <2>2. PICK i \in 1..L : n = c.list[i]
    BY <1>2
  <2>3. s[i] \in Nodes(d) /\ s[i].id = n.id /\ s[i].key = n.key
    BY <1>8, <1>9, <2>2
  <2> QED BY <1>3, <2>1, <2>3
<1>13. WholeBut(d, words)
  BY <1>11, <1>12 DEF WholeBut
<1>14. \A n \in Nodes(d) : n \in Nodes(c) \/ n = m
  BY <1>2, <1>7, <1>8
<1> QED BY <1>4, <1>7, <1>13, <1>14 DEF LastSet, d, m, s

(* push_back and its map entry keep a cache whole.                         *)
LEMMA PushBackWhole ==
    ASSUME NEW c, NEW k, NEW v, Whole(c)
    PROVE  /\ Whole(PushBack(c, k, v))
           /\ PushBack(c, k, v).list =
                 Append(c.list, Node(Len(c.list) + 1, k, v))
           /\ PushBack(c, k, v).map = Points(c.map, k, Len(c.list) + 1)
           /\ Len(PushBack(c, k, v).list) = Len(c.list) + 1
           /\ Nodes(PushBack(c, k, v)) =
                 Nodes(c) \cup {Node(Len(c.list) + 1, k, v)}
<1> DEFINE L == Len(c.list)
           n == Node(L + 1, k, v)
           a == AddNode(c, k, v)
           d == PushBack(c, k, v)
<1>1. /\ NodesPlaced(a) /\ a.map = c.map /\ a.list = Append(c.list, n)
      /\ Len(a.list) = L + 1 /\ L \in Nat
      /\ a.list[L + 1] = n /\ Last(a.list) = n
      /\ Nodes(a) = Nodes(c) \cup {n}
  BY WholeIs, AddNodeIs
<1>2. n.id = L + 1 /\ n.key = k
  BY DEF Node
<1>3. d = MapLast(a, k)
  BY DEF PushBack
<1> HIDE DEF a, d, n
<1>4. WholeBut(a, {})
  <2>1. WholeBut(c, {})
    BY WholeIs
  <2>2. \A x \in DOMAIN a.map :
           \E m \in Nodes(a) : m.id = a.map[x] /\ (m.key = x \/ x \in {})
    BY <1>1, <2>1 DEF WholeBut
  <2> QED BY <1>1, <2>2 DEF WholeBut
<1>5. /\ WholeBut(d, {}) /\ d.list = a.list
      /\ d.map = Points(a.map, k, L + 1) /\ Nodes(d) = Nodes(a)
  <2>1. Len(a.list) > 0
    BY <1>1
  <2>2. Last(a.list).id = Len(a.list) /\ Last(a.list).key = k
    BY <1>1, <1>2
  <2> HIDE DEF L
  <2> QED BY <1>1, <1>3, <1>4, <2>1, <2>2, MapLastIs
<1>6. Whole(d)
  BY <1>5 DEF Whole, WholeBut, NodesPlaced, Leads
<1> QED BY <1>1, <1>5, <1>6 DEF n, d

(* The empty cache is whole.                                               *)
LEMMA EmptyWhole == Whole(EmptyCache) /\ Nodes(EmptyCache) = {}
<1>1. EmptyCache.list = <<>> /\ EmptyCache.map = <<>>
  BY DEF EmptyCache
<1>2. /\ <<>> \in Seq({}) /\ Len(<<>>) = 0
      /\ DOMAIN <<>> = {} /\ 1..0 = {}
  OBVIOUS
<1>3. Nodes(EmptyCache) = {}
  BY <1>1, <1>2 DEF Nodes
<1>4. {n.id : n \in Nodes(EmptyCache)} = {}
  BY <1>3
<1>5. EmptyCache = [list |-> EmptyCache.list, map |-> EmptyCache.map]
  BY DEF EmptyCache
<1> QED BY <1>1, <1>2, <1>3, <1>4, <1>5 DEF Whole

(* Every address has its place in the list, and its node.                  *)
LEMMA NodeAtIs ==
    ASSUME NEW c, NEW id, NodesPlaced(c), id \in 1..Len(c.list)
    PROVE  /\ Position(c, id) \in 1..Len(c.list)
           /\ c.list[Position(c, id)].id = id
           /\ NodeAt(c, id) \in Nodes(c) /\ NodeAt(c, id).id = id
           /\ \A n \in Nodes(c) : n.id = id => n = NodeAt(c, id)
<1>1. PICK S : c.list \in Seq(S)
  BY DEF NodesPlaced
<1>2. /\ DOMAIN c.list = 1..Len(c.list)
      /\ Nodes(c) = {c.list[i] : i \in 1..Len(c.list)}
  BY <1>1, NodesAre
<1>3. \E n \in Nodes(c) : n.id = id
  BY DEF NodesPlaced
<1>4. \E i \in DOMAIN c.list : c.list[i].id = id
  BY <1>2, <1>3
<1>5. Position(c, id) \in 1..Len(c.list) /\ c.list[Position(c, id)].id = id
  BY <1>2, <1>4 DEF Position
<1>6. \A n \in Nodes(c) : n.id = id => n = c.list[Position(c, id)]
  BY <1>2, <1>5 DEF NodesPlaced
<1> QED BY <1>2, <1>5, <1>6 DEF NodeAt

(* Every address of a whole cache has its place in the list.               *)
LEMMA PositionIs ==
    ASSUME NEW c, NEW id, Whole(c), id \in 1..Len(c.list)
    PROVE  /\ Position(c, id) \in 1..Len(c.list)
           /\ c.list[Position(c, id)].id = id
BY WholeIs, NodeAtIs

(* A lookup that hits returns the value of a node with its key.            *)
LEMMA FoundIs ==
    ASSUME NEW c, NEW k, Whole(c), Found(c, k)
    PROVE  /\ c.map[k] \in 1..Len(c.list)
           /\ Position(c, c.map[k]) \in 1..Len(c.list)
           /\ c.list[Position(c, c.map[k])].id = c.map[k]
           /\ c.list[Position(c, c.map[k])].key = k
           /\ \E n \in Nodes(c) : n.key = k /\ n.val = FoundVal(c, k)
<1>1. PICK S : c.list \in Seq(S)
  BY DEF Whole
<1>2. Nodes(c) = {c.list[i] : i \in 1..Len(c.list)}
  BY <1>1, NodesAre
<1>3. PICK n \in Nodes(c) : n.id = c.map[k] /\ n.key = k
  BY DEF Whole, Found, Leads
<1>4. c.map[k] \in 1..Len(c.list)
  BY <1>3 DEF Whole
<1> DEFINE p == Position(c, c.map[k])
<1>5. p \in 1..Len(c.list) /\ c.list[p].id = c.map[k]
  BY <1>4, PositionIs
<1> HIDE DEF p
<1>6. PICK i \in 1..Len(c.list) : n = c.list[i]
  BY <1>2, <1>3
<1>7. i = p
  BY <1>3, <1>5, <1>6 DEF Whole
<1>8. c.list[p] \in Nodes(c) /\ c.list[p].key = k
  BY <1>2, <1>3, <1>5, <1>6, <1>7
<1>9. \E m \in Nodes(c) : m.key = k /\ m.val = c.list[p].val
  BY <1>8
<1> QED BY <1>4, <1>5, <1>8, <1>9 DEF p, FoundVal, NodeAt

(* Taking out the p-th node, and every entry that leads to it except k's.  *)
LEMMA TakeOut ==
    ASSUME NEW c, Whole(c), NEW d, NEW k, NEW p \in 1..Len(c.list),
           SkipsAt(c.list, p, d.list),
           KeepsMap(c, d, k, c.list[p].key)
    PROVE  /\ Lacks(d, c.list[p].id, k)
           /\ Nodes(d) = Nodes(c) \ {c.list[p]}
<1> DEFINE L == Len(c.list)
           out == c.list[p]
<1>1. PICK R : c.list \in Seq(R)
  BY DEF Whole
<1>0. /\ \E S : d.list \in Seq(S)
      /\ Len(d.list) = L - 1
      /\ \A i \in 1..(L - 1) :
            d.list[i] = IF i < p THEN c.list[i] ELSE c.list[i + 1]
  BY DEF SkipsAt
<1>2. /\ L \in Nat /\ Nodes(c) = {c.list[i] : i \in 1..L}
      /\ Nodes(d) = {d.list[i] : i \in 1..(L - 1)}
  <2>1. Nodes(d) = {d.list[i] : i \in 1..Len(d.list)}
    BY <1>0, NodesAre
  <2> QED BY <1>0, <1>1, <2>1, NodesAre
<1>3. \A i, j \in 1..L : c.list[i].id = c.list[j].id => i = j
  BY DEF Whole
<1>4. ASSUME NEW i \in 1..(L - 1)
      PROVE  \E h \in 1..L : h # p /\ d.list[i] = c.list[h]
                             /\ h = IF i < p THEN i ELSE i + 1
  <2>1. i \in 1..L /\ i + 1 \in 1..L /\ p \in Nat
    BY <1>2
  <2>2. CASE i < p
    BY <1>0, <2>1, <2>2
  <2>3. CASE ~(i < p)
    BY <1>0, <2>1, <2>3
  <2> QED BY <2>2, <2>3
<1>5. ASSUME NEW h \in 1..L, h # p
      PROVE  \E i \in 1..(L - 1) : d.list[i] = c.list[h]
  <2>1. CASE h < p
    <3>1. h \in 1..(L - 1)
      BY <1>2, <2>1
    <3> QED BY <1>0, <2>1, <3>1
  <2>2. CASE ~(h < p)
    <3>1. h - 1 \in 1..(L - 1) /\ ~(h - 1 < p) /\ (h - 1) + 1 = h
      BY <1>2, <1>5, <2>2
    <3>2. d.list[h - 1] = c.list[(h - 1) + 1]
      BY <1>0, <3>1
    <3> QED BY <3>1, <3>2
  <2> QED BY <2>1, <2>2
<1>6. Nodes(d) = Nodes(c) \ {out}
  <2>1. ASSUME NEW m \in Nodes(d) PROVE m \in Nodes(c) \ {out}
    <3>1. PICK i \in 1..(L - 1) : m = d.list[i]
      BY <1>2
    <3>2. PICK h \in 1..L : h # p /\ m = c.list[h]
      BY <1>4, <3>1
    <3>3. m.id # out.id
      BY <1>3, <3>2
    <3> QED BY <1>2, <3>2, <3>3
  <2>2. ASSUME NEW m \in Nodes(c), m # out PROVE m \in Nodes(d)
    <3>1. PICK h \in 1..L : m = c.list[h]
      BY <1>2
    <3>2. h # p
      BY <2>2, <3>1
    <3>3. PICK i \in 1..(L - 1) : d.list[i] = c.list[h]
      BY <1>5, <3>2
    <3> QED BY <1>2, <3>1, <3>3
  <2> QED BY <2>1, <2>2
<1>7. \A m, n \in Nodes(c) : m.id = n.id => m = n
  BY <1>2, <1>3
<1>8. out \in Nodes(c)
  BY <1>2
<1>9. {m.id : m \in Nodes(d)} = {m.id : m \in Nodes(c)} \ {out.id}
  BY <1>6, <1>7, <1>8
<1>10. ASSUME NEW i \in 1..(L - 1), NEW j \in 1..(L - 1),
              d.list[i].id = d.list[j].id
       PROVE  i = j
  <2>1. PICK g \in 1..L : d.list[i] = c.list[g] /\ g # p
                          /\ g = IF i < p THEN i ELSE i + 1
    BY <1>4
  <2>2. PICK h \in 1..L : d.list[j] = c.list[h] /\ h # p
                          /\ h = IF j < p THEN j ELSE j + 1
    BY <1>4
  <2>3. g = h
    BY <1>3, <1>10, <2>1, <2>2
  <2>4. p \in Int /\ i \in Int /\ j \in Int
    OBVIOUS
  <2> QED BY <2>1, <2>2, <2>3, <2>4
<1>11. \A x \in DOMAIN d.map \ {k} : Leads(d, x)
  <2> SUFFICES ASSUME NEW x \in DOMAIN d.map \ {k} PROVE Leads(d, x)
    OBVIOUS
  <2>1. x \in DOMAIN c.map /\ d.map[x] = c.map[x] /\ x # out.key
    BY DEF KeepsMap
  <2>2. PICK m \in Nodes(c) : m.id = c.map[x] /\ m.key = x
    BY <2>1 DEF Whole, Leads
  <2>3. m \in Nodes(d)
    BY <1>6, <2>1, <2>2
  <2> QED BY <2>1, <2>2, <2>3 DEF Leads
<1>12. out.id \in 1..L /\ {m.id : m \in Nodes(d)} = 1..L \ {out.id}
  <2>1. {m.id : m \in Nodes(c)} = 1..L
    BY DEF Whole
  <2> QED BY <1>8, <1>9, <2>1
<1>13. Len(d.list) = L - 1 /\ (L - 1) + 1 = L
  BY <1>0, <1>2
<1> HIDE DEF L, out
<1> QED BY <1>0, <1>6, <1>10, <1>11, <1>12, <1>13 DEF Lacks, L, out

(* Erasing the node a hit has found leaves its entry dangling, which       *)
(* push_front then replaces.                                               *)
LEMMA EraseLacks ==
    ASSUME NEW c, NEW k, Whole(c), Found(c, k)
    PROVE  LET d == Erase(c, c.map[k])
               p == Position(c, c.map[k])
           IN  /\ p \in 1..Len(c.list)
               /\ c.list[p].id = c.map[k] /\ c.list[p].key = k
               /\ Lacks(d, c.map[k], k)
               /\ Nodes(d) = Nodes(c) \ {c.list[p]}
               /\ d.map = c.map
               /\ Len(d.list) = Len(c.list) - 1
               /\ \A i \in 1..(Len(c.list) - 1) :
                     d.list[i] = IF i < p THEN c.list[i] ELSE c.list[i + 1]
<1> DEFINE id == c.map[k]
           d == Erase(c, id)
           p == Position(c, id)
<1>1. PICK S : c.list \in Seq(S)
  BY DEF Whole
<1>2. p \in 1..Len(c.list) /\ c.list[p].id = id /\ c.list[p].key = k
  BY FoundIs
<1>3. d = [c EXCEPT !.list = RemoveAt(c.list, p)]
  BY DEF Erase
<1>4. d.list = RemoveAt(c.list, p) /\ d.map = c.map
  <2>1. c = [list |-> c.list, map |-> c.map]
    BY DEF Whole
  <2> HIDE DEF p, d
  <2> QED BY <1>3, <2>1
<1>5. Len(c.list) \in Nat
  BY <1>1, NodesAre
<1> HIDE DEF p, d
<1>6. /\ d.list \in Seq(S)
      /\ Len(d.list) = Len(c.list) - 1
      /\ \A i \in 1..(Len(c.list) - 1) :
            d.list[i] = IF i < p THEN c.list[i] ELSE c.list[i + 1]
      /\ SkipsAt(c.list, p, d.list)
  BY <1>1, <1>2, <1>4, RemoveAtFacts, ZenonT(40)
<1>7. /\ Lacks(d, c.list[p].id, k)
      /\ Nodes(d) = Nodes(c) \ {c.list[p]}
  <2>1. KeepsMap(c, d, k, c.list[p].key)
    BY <1>2, <1>4 DEF KeepsMap
  <2>2. p \in 1..Len(c.list) /\ SkipsAt(c.list, p, d.list)
    BY <1>2, <1>6
  <2> QED BY <2>1, <2>2, TakeOut
<1> QED BY <1>2, <1>4, <1>6, <1>7 DEF p, d

(* Dropping the last node takes the entry of its key out of the map.       *)
LEMMA DropLastLacks ==
    ASSUME NEW c, NEW k, Whole(c), Len(c.list) > 0
    PROVE  LET d == DropLast(c)
               last == c.list[Len(c.list)]
           IN  /\ last \in Nodes(c)
               /\ Lacks(d, last.id, k)
               /\ Nodes(d) = Nodes(c) \ {last}
               /\ d.map = Unmaps(c.map, last.key)
               /\ Len(d.list) = Len(c.list) - 1
               /\ \A i \in 1..(Len(c.list) - 1) : d.list[i] = c.list[i]
<1> DEFINE L == Len(c.list)
           d == DropLast(c)
           last == c.list[L]
<1>1. PICK S : c.list \in Seq(S)
  BY DEF Whole
<1>2. L \in Nat /\ Nodes(c) = {c.list[i] : i \in 1..L}
  BY <1>1, NodesAre
<1>3. L \in 1..L /\ last \in Nodes(c)
  BY <1>2
<1>4. d.list = SubSeq(c.list, 1, L - 1) /\ d.map = Unmaps(c.map, last.key)
  BY DEF DropLast, Front, Last
<1> HIDE DEF d
<1>5. /\ d.list \in Seq(S) /\ Len(d.list) = L - 1
      /\ \A i \in 1..(L - 1) : d.list[i] = c.list[i]
  <2>1. \A i \in 1..(L - 1) : c.list[i] \in S
    BY <1>1, <1>2
  <2>2. /\ SubSeq(c.list, 1, L - 1) \in Seq(S)
        /\ Len(SubSeq(c.list, 1, L - 1)) =
              IF 1 <= L - 1 THEN (L - 1) - 1 + 1 ELSE 0
        /\ \A i \in 1..((L - 1) - 1 + 1) :
              SubSeq(c.list, 1, L - 1)[i] = c.list[1 + i - 1]
    BY <1>2, <2>1, SubSeqProperties
  <2> QED BY <1>2, <1>4, <2>2
<1>6. SkipsAt(c.list, L, d.list)
  BY <1>2, <1>5 DEF SkipsAt
<1>7. KeepsMap(c, d, k, last.key)
  BY <1>4 DEF Unmaps, KeepsMap
<1>8. Lacks(d, last.id, k) /\ Nodes(d) = Nodes(c) \ {last}
  BY <1>3, <1>6, <1>7, TakeOut
<1> QED BY <1>3, <1>4, <1>5, <1>8 DEF d

(* What a put leaves: a whole cache that holds its pair, no other new      *)
(* node, and does not get smaller; a size within the bound stays there.    *)
LEMMA PutWhole ==
    ASSUME NEW c, NEW k, NEW v, NEW m \in Nat \ {0}, Whole(c)
    PROVE  LET d == Put(c, k, v, m)
           IN  /\ Whole(d)
               /\ Len(d.list) \in Nat
               /\ Len(d.list) >= Len(c.list)
               /\ Len(c.list) <= m => Len(d.list) <= m
               /\ \A n \in Nodes(d) : n \in Nodes(c) \/ (n.key = k /\ n.val = v)
<1>1. PICK S : c.list \in Seq(S)
  BY DEF Whole
<1>2. Len(c.list) \in Nat
  BY <1>1, NodesAre
<1>3. \A id : Node(id, k, v).key = k /\ Node(id, k, v).val = v
  BY DEF Node
<1>4. ASSUME NEW e, NEW id, Lacks(e, id, k),
             Nodes(e) \subseteq Nodes(c), Len(e.list) \in Nat
      PROVE  /\ Whole(PushFront(e, k, v))
             /\ Len(PushFront(e, k, v).list) = Len(e.list) + 1
             /\ \A n \in Nodes(PushFront(e, k, v)) :
                   n \in Nodes(c) \/ (n.key = k /\ n.val = v)
  <2>1. InFront(e, id, k, v, PushFront(e, k, v))
    BY <1>4, PushFrontWhole
  <2> QED BY <1>3, <1>4, <2>1 DEF InFront
<1>5. CASE Found(c, k)
  <2> DEFINE e == Erase(c, c.map[k])
  <2>1. Put(c, k, v, m) = PushFront(e, k, v)
    BY <1>5 DEF Put, Hit
  <2>2. /\ Lacks(e, c.map[k], k) /\ Nodes(e) \subseteq Nodes(c)
        /\ Len(e.list) = Len(c.list) - 1 /\ Len(c.list) > 0
    BY <1>2, <1>5, EraseLacks
  <2> HIDE DEF e
  <2> QED BY <1>2, <1>4, <2>1, <2>2
<1>6. CASE ~Found(c, k) /\ Len(c.list) = m
  <2> DEFINE e == DropLast(c)
             last == c.list[Len(c.list)]
  <2>1. Put(c, k, v, m) = PushFront(e, k, v)
    BY <1>6 DEF Put, Miss, IsFull
  <2>3. Len(c.list) > 0
    BY <1>2, <1>6
  <2>2. /\ Lacks(e, last.id, k) /\ Nodes(e) \subseteq Nodes(c)
        /\ Len(e.list) = Len(c.list) - 1
    BY <2>3, DropLastLacks
  <2> HIDE DEF e, last
  <2> QED BY <1>2, <1>4, <1>6, <2>1, <2>2, <2>3
<1>7. CASE ~Found(c, k) /\ Len(c.list) # m
  <2>1. Put(c, k, v, m) = PushFront(c, k, v)
    BY <1>7 DEF Put, Miss, IsFull
  <2>2. Lacks(c, Len(c.list) + 1, k)
    BY WholeLacks
  <2>3. /\ Whole(PushFront(c, k, v))
        /\ Len(PushFront(c, k, v).list) = Len(c.list) + 1
        /\ \A n \in Nodes(PushFront(c, k, v)) :
              n \in Nodes(c) \/ (n.key = k /\ n.val = v)
    BY <1>2, <1>4, <2>2
  <2> QED BY <1>2, <1>7, <2>1, <2>3
<1> QED BY <1>5, <1>6, <1>7

(* At the address of a node that a put does not find there any more is its *)
(* own.                                                                    *)
LEMMA PutAt ==
    ASSUME NEW c, NEW k, NEW v, NEW m \in Nat \ {0}, Whole(c),
           NEW id \in 1..Len(c.list)
    PROVE  LET new == NodeAt(Put(c, k, v, m), id)
           IN  new = NodeAt(c, id) \/ (new.key = k /\ new.val = v)
<1> DEFINE d == Put(c, k, v, m)
<1>1. /\ Whole(d) /\ Len(d.list) \in Nat /\ Len(d.list) >= Len(c.list)
      /\ \A n \in Nodes(d) : n \in Nodes(c) \/ (n.key = k /\ n.val = v)
  BY PutWhole
<1> HIDE DEF d
<1>2. Len(c.list) \in Nat
  BY NodesAre DEF Whole
<1>3. id \in 1..Len(d.list)
  BY <1>1, <1>2
<1>4. NodeAt(d, id) \in Nodes(d) /\ NodeAt(d, id).id = id
  BY <1>1, <1>3, WholeIs, NodeAtIs
<1>5. \A n \in Nodes(c) : n.id = id => n = NodeAt(c, id)
  BY WholeIs, NodeAtIs
<1> QED BY <1>1, <1>4, <1>5 DEF d

-----------------------------------------------------------------------------
(* Reading the file line by line.  ReadLines is a fold, a recursive        *)
(* function on the sets of indices; it exists because functions that       *)
(* satisfy its equation on the subsets of 1..m extend to those of 1..m + 1.*)

Largest(s) == CHOOSE x \in s : \A y \in s : x >= y
StartOf(c) == [key |-> NoWords, val |-> NoWords, cache |-> c]
ReadUpTo(c, lines, g, s) ==
    IF s = {} THEN StartOf(c)
    ELSE ReadLine(g[s \ {Largest(s)}], lines[Largest(s)])
Solves(c, lines, g, D) ==
    g = [s \in SUBSET D |-> ReadUpTo(c, lines, g, s)]

(* A set of indices that is not empty has a largest one.                   *)
LEMMA LargestIs ==
    ASSUME NEW n \in Nat, NEW s \in SUBSET (1..n), s # {}
    PROVE  Largest(s) \in s /\ \A y \in s : Largest(s) >= y
<1> DEFINE Good == {m \in 0..n : \A t \in SUBSET (1..m) :
                       t # {} => \E x \in t : \A y \in t : x >= y}
<1>1. 0 \in Good
  <2>1. \A t \in SUBSET (1..0) : t = {}
    OBVIOUS
  <2>2. 0 \in 0..n
    OBVIOUS
  <2> QED BY <2>1, <2>2
<1>2. ASSUME NEW m \in 0..n, m < n, m \in Good PROVE m + 1 \in Good
  <2>1. ASSUME NEW t \in SUBSET (1..(m + 1)), t # {}
        PROVE  \E x \in t : \A y \in t : x >= y
    <3>1. CASE m + 1 \in t
      BY <3>1
    <3>2. CASE m + 1 \notin t
      <4>1. t \in SUBSET (1..m)
        BY <3>2
      <4> QED BY <1>2, <2>1, <4>1
    <3> QED BY <3>1, <3>2
  <2>2. m + 1 \in 0..n
    BY <1>2
  <2> QED BY <2>1, <2>2
<1>3. n \in Good
  <2> HIDE DEF Good
  <2>1. \A m \in 0..n : m \in Good
    BY <1>1, <1>2, UpTo
  <2> QED BY <2>1
<1>4. \E x \in s : \A y \in s : x >= y
  BY <1>3
<1> QED BY <1>4 DEF Largest

(* The equation of the fold has a solution.                                *)
LEMMA SolutionExists ==
    ASSUME NEW c, NEW lines, NEW n \in Nat
    PROVE  \E g : Solves(c, lines, g, 1..n)
<1> DEFINE Good == {m \in 0..n : \E g : Solves(c, lines, g, 1..m)}
<1>1. 0 \in Good
  <2> DEFINE g == [s \in SUBSET (1..0) |-> StartOf(c)]
  <2>1. \A s \in SUBSET (1..0) : s = {}
    OBVIOUS
  <2>2. Solves(c, lines, g, 1..0)
    BY <2>1 DEF Solves, ReadUpTo
  <2> HIDE DEF g
  <2> QED BY <2>2
<1>2. ASSUME NEW m \in 0..n, m < n, m \in Good PROVE m + 1 \in Good
  <2>1. PICK g : Solves(c, lines, g, 1..m)
    BY <1>2
  <2> DEFINE h == [s \in SUBSET (1..(m + 1)) |->
                     IF s \in SUBSET (1..m) THEN g[s]
                     ELSE ReadLine(g[s \ {m + 1}], lines[m + 1])]
  <2>2. ASSUME NEW s \in SUBSET (1..(m + 1))
        PROVE  h[s] = ReadUpTo(c, lines, h, s)
    <3>1. CASE s = {}
      <4>1. s \in SUBSET (1..m) /\ g[s] = ReadUpTo(c, lines, g, s)
        BY <2>1, <3>1 DEF Solves
      <4> QED BY <3>1, <4>1 DEF ReadUpTo
    <3>2. CASE s # {} /\ s \in SUBSET (1..m)
      <4>1. g[s] = ReadUpTo(c, lines, g, s)
        BY <2>1, <3>2 DEF Solves
      <4>2. s \ {Largest(s)} \in SUBSET (1..m)
        BY <3>2
      <4>3. h[s] = g[s] /\ h[s \ {Largest(s)}] = g[s \ {Largest(s)}]
        BY <3>2, <4>2
      <4> HIDE DEF h
      <4> QED BY <3>2, <4>1, <4>3 DEF ReadUpTo
    <3>3. CASE s \notin SUBSET (1..m)
      <4>1. m + 1 \in s /\ s # {} /\ m + 1 \in Nat
        BY <3>3
      <4>2. Largest(s) = m + 1
        <5>1. Largest(s) \in s /\ \A y \in s : Largest(s) >= y
          BY <4>1, LargestIs
        <5>2. Largest(s) >= m + 1 /\ Largest(s) \in 1..(m + 1)
          BY <4>1, <5>1
        <5> QED BY <5>2
      <4>3. s \ {m + 1} \in SUBSET (1..m)
        OBVIOUS
      <4>4. /\ h[s] = ReadLine(g[s \ {m + 1}], lines[m + 1])
            /\ h[s \ {m + 1}] = g[s \ {m + 1}]
        BY <3>3, <4>3
      <4> HIDE DEF h
      <4> QED BY <4>1, <4>2, <4>4 DEF ReadUpTo
    <3> QED BY <3>1, <3>2, <3>3
  <2>3. Solves(c, lines, h, 1..(m + 1))
    <3>1. h = [s \in SUBSET (1..(m + 1)) |-> h[s]]
      OBVIOUS
    <3> HIDE DEF h
    <3> QED BY <2>2, <3>1 DEF Solves
  <2>4. m + 1 \in 0..n
    BY <1>2
  <2> HIDE DEF h
  <2> QED BY <2>3, <2>4
<1> HIDE DEF Good
<1>3. \A m \in 0..n : m \in Good
  BY <1>1, <1>2, UpTo
<1> QED BY <1>3 DEF Good

(* ReadLines goes from the first line to the last.                         *)
LEMMA ReadSteps ==
    ASSUME NEW c, NEW lines, NEW S, lines \in Seq(S)
    PROVE  \E r : /\ r[0] = StartOf(c)
                  /\ \A i \in 1..Len(lines) :
                        r[i] = ReadLine(r[i - 1], lines[i])
                  /\ ReadLines(c, lines) = r[Len(lines)].cache
<1> DEFINE n == Len(lines)
           f == CHOOSE g : g = [s \in SUBSET (DOMAIN lines) |->
                                   ReadUpTo(c, lines, g, s)]
           r == [i \in 0..n |-> f[1..i]]
<1>1. n \in Nat /\ DOMAIN lines = 1..n
  OBVIOUS
<1>2. ReadLines(c, lines) = f[DOMAIN lines].cache
  BY DEF ReadLines, FoldLeft, MapThenFoldSet, Max, Largest, StartOf, ReadUpTo
<1>3. f = [s \in SUBSET (1..n) |-> ReadUpTo(c, lines, f, s)]
  <2>1. \E g : g = [s \in SUBSET (DOMAIN lines) |-> ReadUpTo(c, lines, g, s)]
    <3>1. PICK g : Solves(c, lines, g, 1..n)
      BY <1>1, SolutionExists
    <3>2. Solves(c, lines, g, DOMAIN lines)
      BY <1>1, <3>1
    <3> QED BY <3>2 DEF Solves
  <2>2. f = [s \in SUBSET (DOMAIN lines) |-> ReadUpTo(c, lines, f, s)]
    BY <2>1
  <2> HIDE DEF f
  <2> QED BY <1>1, <2>2
<1> HIDE DEF f
<1>4. ASSUME NEW i \in 0..n PROVE f[1..i] = ReadUpTo(c, lines, f, 1..i)
  <2>1. 1..i \in SUBSET (1..n)
    BY <1>1
  <2> QED BY <1>3, <2>1
<1>5. r[0] = StartOf(c)
  <2>1. 1..0 = {} /\ 0 \in 0..n
    BY <1>1
  <2> QED BY <1>4, <2>1 DEF ReadUpTo
<1>6. ASSUME NEW i \in 1..n PROVE r[i] = ReadLine(r[i - 1], lines[i])
  <2>0. i \in Nat /\ i >= 1 /\ i <= n
    BY <1>1
  <2>1. /\ i \in 0..n /\ i - 1 \in 0..n /\ i \in 1..i /\ 1..i # {}
        /\ (1..i) \ {i} = 1..(i - 1)
    <3>1. i \in 0..n /\ i - 1 \in 0..n /\ i \in 1..i
      BY <1>1, <2>0
    <3>2. (1..i) \ {i} = 1..(i - 1)
      BY <2>0
    <3> QED BY <3>1, <3>2
  <2>2. Largest(1..i) = i
    <3>1. Largest(1..i) \in 1..i /\ \A y \in 1..i : Largest(1..i) >= y
      BY <2>0, <2>1, LargestIs
    <3>2. Largest(1..i) >= i
      BY <2>1, <3>1
    <3> QED BY <2>0, <3>1, <3>2
  <2>3. f[1..i] = ReadLine(f[1..(i - 1)], lines[i])
    BY <1>4, <2>1, <2>2 DEF ReadUpTo
  <2> QED BY <2>1, <2>3
<1>7. ReadLines(c, lines) = r[n].cache
  BY <1>1, <1>2
<1> HIDE DEF r
<1> QED BY <1>5, <1>6, <1>7

\* What one line of the file makes of the strings key and val.
KeyRead(line, key) == IF Len(line) >= 1 THEN <<line[1]>> ELSE key
ValRead(line, val) == IF Len(line) >= 2 THEN <<line[2]>> ELSE val

(* A line is read into key and val, and they are pushed back.              *)
LEMMA ReadLineIs ==
    ASSUME NEW r, NEW line
    PROVE  /\ ReadLine(r, line).key = KeyRead(line, r.key)
           /\ ReadLine(r, line).val = ValRead(line, r.val)
           /\ ReadLine(r, line).cache =
                 PushBack(r.cache, KeyRead(line, r.key), ValRead(line, r.val))
BY DEF ReadLine, KeyRead, ValRead

(* A file read into a whole cache, whatever is in it, leaves it whole, one *)
(* node longer for each line.                                              *)
LEMMA ReadWhole ==
    ASSUME NEW c, NEW lines, NEW S, lines \in Seq(S), Whole(c)
    PROVE  /\ Whole(ReadLines(c, lines))
           /\ Len(ReadLines(c, lines).list) = Len(c.list) + Len(lines)
<1> DEFINE n == Len(lines)
<1>1. n \in Nat /\ Len(c.list) \in Nat
  BY NodesAre DEF Whole
<1>2. PICK r : /\ r[0] = StartOf(c)
               /\ \A i \in 1..n : r[i] = ReadLine(r[i - 1], lines[i])
               /\ ReadLines(c, lines) = r[n].cache
  BY ReadSteps
<1> DEFINE Good == {m \in 0..n : /\ Whole(r[m].cache)
                                 /\ Len(r[m].cache.list) = Len(c.list) + m}
<1>3. 0 \in Good
  <2>1. r[0].cache = c
    BY <1>2 DEF StartOf
  <2> QED BY <1>1, <2>1
<1>4. ASSUME NEW m \in 0..n, m < n, m \in Good PROVE m + 1 \in Good
  <2>1. m + 1 \in 1..n /\ m + 1 \in 0..n /\ (m + 1) - 1 = m
    BY <1>1, <1>4
  <2>2. r[m + 1] = ReadLine(r[m], lines[m + 1])
    BY <1>2, <2>1
  <2>3. \E k, v : r[m + 1].cache = PushBack(r[m].cache, k, v)
    BY <2>2, ReadLineIs
  <2>4. /\ Whole(r[m + 1].cache)
        /\ Len(r[m + 1].cache.list) = Len(r[m].cache.list) + 1
    BY <1>4, <2>3, PushBackWhole, SMTT(30)
  <2>5. Len(r[m].cache.list) = Len(c.list) + m
    BY <1>4
  <2> QED BY <1>1, <2>1, <2>4, <2>5
<1> HIDE DEF Good
<1>5. \A m \in 0..n : m \in Good
  BY <1>1, <1>3, <1>4, UpTo
<1>6. n \in Good
  BY <1>1, <1>5
<1> QED BY <1>2, <1>6 DEF Good

(* The pairs that are read come from the lines: if every line makes pairs  *)
(* of G, from nothing or from another pair of G, the nodes hold such pairs.*)
LEMMA ReadPairs ==
    ASSUME NEW lines, NEW S, lines \in Seq(S), NEW G,
           \A i \in 1..Len(lines) : \A key, val :
              <<key, val>> \in G \cup {<<NoWords, NoWords>>} =>
                 <<KeyRead(lines[i], key), ValRead(lines[i], val)>> \in G
    PROVE  \A n \in Nodes(ReadLines(EmptyCache, lines)) : <<n.key, n.val>> \in G
<1> DEFINE n == Len(lines)
<1>1. n \in Nat
  OBVIOUS
<1>2. PICK r : /\ r[0] = StartOf(EmptyCache)
               /\ \A i \in 1..n : r[i] = ReadLine(r[i - 1], lines[i])
               /\ ReadLines(EmptyCache, lines) = r[n].cache
  BY ReadSteps
<1> DEFINE Good == {m \in 0..n :
                       /\ Whole(r[m].cache)
                       /\ <<r[m].key, r[m].val>> \in G \cup {<<NoWords, NoWords>>}
                       /\ \A d \in Nodes(r[m].cache) : <<d.key, d.val>> \in G}
<1>3. 0 \in Good
  <2>1. r[0].cache = EmptyCache /\ r[0].key = NoWords /\ r[0].val = NoWords
    BY <1>2 DEF StartOf
  <2> QED BY <1>1, <2>1, EmptyWhole
<1>4. ASSUME NEW m \in 0..n, m < n, m \in Good PROVE m + 1 \in Good
  <2>1. m + 1 \in 1..n /\ m + 1 \in 0..n /\ (m + 1) - 1 = m
    BY <1>1, <1>4
  <2>2. r[m + 1] = ReadLine(r[m], lines[m + 1])
    BY <1>2, <2>1
  <2> DEFINE k == KeyRead(lines[m + 1], r[m].key)
             v == ValRead(lines[m + 1], r[m].val)
  <2>3. /\ r[m + 1].key = k /\ r[m + 1].val = v
        /\ r[m + 1].cache = PushBack(r[m].cache, k, v)
    BY <2>2, ReadLineIs
  <2>4. <<k, v>> \in G
    BY <1>4, <2>1
  <2> HIDE DEF k, v
  <2>5. /\ Whole(r[m + 1].cache)
        /\ \E id : Nodes(r[m + 1].cache) =
                      Nodes(r[m].cache) \cup {Node(id, k, v)}
    BY <1>4, <2>3, PushBackWhole
  <2>6. \A id : Node(id, k, v).key = k /\ Node(id, k, v).val = v
    BY DEF Node
  <2>7. \A d \in Nodes(r[m + 1].cache) : <<d.key, d.val>> \in G
    BY <1>4, <2>4, <2>5, <2>6
  <2> QED BY <2>1, <2>3, <2>4, <2>5, <2>7
<1> HIDE DEF Good
<1>5. \A m \in 0..n : m \in Good
  BY <1>1, <1>3, <1>4, UpTo
<1>6. n \in Good
  BY <1>1, <1>5
<1> QED BY <1>2, <1>6 DEF Good

(* What a cache writes is a sequence, one line for each node.              *)
LEMMA PlacedLines ==
    ASSUME NEW c, NodesPlaced(c)
    PROVE  /\ \E S : WriteLines(c) \in Seq(S)
           /\ Len(WriteLines(c)) = Len(c.list)
           /\ Len(c.list) \in Nat
           /\ \A i \in 1..Len(c.list) : WriteLines(c)[i] = LineOf(c.list[i])
           /\ \A i \in 1..Len(c.list) : c.list[i] \in Nodes(c)
<1>1. PICK S : c.list \in Seq(S)
  BY DEF NodesPlaced
<1>2. /\ Len(c.list) \in Nat /\ DOMAIN c.list = 1..Len(c.list)
      /\ Nodes(c) = {c.list[i] : i \in 1..Len(c.list)}
  BY <1>1, NodesAre
<1> DEFINE L == Len(c.list)
           T == {LineOf(c.list[i]) : i \in 1..L}
           w == [i \in 1..L |-> LineOf(c.list[i])]
<1>3. WriteLines(c) = w
  BY <1>2 DEF WriteLines
<1>4. w \in [1..L -> T]
  OBVIOUS
<1>5. w \in Seq(T) /\ Len(w) = L
  <2> HIDE DEF w, T
  <2> QED BY <1>2, <1>4
<1> QED BY <1>2, <1>3, <1>5

(* A whole cache does.                                                     *)
LEMMA WriteLinesIs ==
    ASSUME NEW c, Whole(c)
    PROVE  /\ \E S : WriteLines(c) \in Seq(S)
           /\ Len(WriteLines(c)) = Len(c.list)
           /\ Len(c.list) \in Nat
           /\ \A i \in 1..Len(c.list) : WriteLines(c)[i] = LineOf(c.list[i])
           /\ \A i \in 1..Len(c.list) : c.list[i] \in Nodes(c)
BY WholeIs, PlacedLines

============================================================================
