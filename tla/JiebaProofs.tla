---------------------------- MODULE JiebaProofs ----------------------------
(***************************************************************************)
(* Theorems about the segmenter, for any dictionaries and model that load, *)
(* any sentences and any limits: what it makes of a sentence covers it, in *)
(* the right places, finds every entry, keeps the runes of the user and is *)
(* the heaviest choice.                                                    *)
(*                                                                         *)
(* The loops of the code are recursive functions here.  So the first parts *)
(* prove that such a function is defined and what its values have in       *)
(* common (WalkInduction, RecursExists, ChoosesExists), always by UpTo.    *)
(* Then, in the order of a request: the bytes of a string and its runes,   *)
(* the trie and the weights of the dictionary (DictOK), the path and the   *)
(* walk along it (MPCutIs), the labels, the mix, the full segmentation,    *)
(* the ranges of the prefilter.  JInv is the invariant; the ends of the    *)
(* words (EndAt) and the bytes read back (RoundTrip) give the positions,   *)
(* the weights of all the ways to take a text apart (IsSeg) the heaviest   *)
(* path.                                                                   *)
(***************************************************************************)
EXTENDS Jieba, SharedLemmas, FiniteSetTheorems

-----------------------------------------------------------------------------
(* Runs and walks.                                                         *)

\* RunEnd, given the positions of the elements with the property.
EndOf(n, i, run) == CHOOSE j \in i..n + 1 : i..j - 1 \subseteq run /\ j \notin run

(* A run ends behind its last position or where the sequence ends.         *)
LEMMA EndOfIs ==
    ASSUME NEW n \in Nat, NEW i \in 1..n + 1, NEW run, run \subseteq 1..n
    PROVE  /\ EndOf(n, i, run) \in i..n + 1
           /\ i..EndOf(n, i, run) - 1 \subseteq run
           /\ EndOf(n, i, run) \notin run
<1> DEFINE Outside == {j \in i..n + 1 : j \notin run}
           m == Min(Outside)
<1>1. n + 1 \in Outside
  OBVIOUS
<1>2. Outside \subseteq Nat
  OBVIOUS
<1>3. m \in Outside /\ \A j \in Outside : m <= j
  BY <1>1, <1>2, MinFacts
<1> HIDE DEF m
<1>4. ASSUME NEW k \in i..m - 1 PROVE k \in run
  <2>1. k \in i..n + 1 /\ ~(m <= k)
    BY <1>3
  <2> QED BY <1>3, <2>1
<1>5. \E j \in i..n + 1 : i..j - 1 \subseteq run /\ j \notin run
  BY <1>3, <1>4
<1> QED BY <1>5 DEF EndOf

\* next leads on from every position.
Onward(next) ==
    /\ Len(next) \in Nat
    /\ \A i \in 1..Len(next) : next[i] \in i + 1..Len(next) + 1

\* f is the loop from position a on.
Loops(made, next, a, f) ==
    f = [i \in a..Len(next) + 1 |->
            IF i > Len(next) THEN <<>> ELSE made[i] \o f[next[i]]]

(* The loop is defined: every position but the last leads to a later one.  *)
LEMMA WalkExists ==
    ASSUME NEW made, NEW next, Onward(next)
    PROVE  \E f : Loops(made, next, 1, f)
<1> DEFINE n == Len(next)
           Good == {m \in 0..n : \E f : Loops(made, next, n + 1 - m, f)}
<1>0. n \in Nat /\ \A i \in 1..n : next[i] \in i + 1..n + 1
  BY DEF Onward
<1> HIDE DEF n
<1>1. 0 \in Good
  <2> DEFINE f == [i \in (n + 1 - 0)..n + 1 |-> <<>>]
  <2>0. \A i \in (n + 1 - 0)..n + 1 : i > n
    BY <1>0
  <2>1. f = [i \in (n + 1 - 0)..n + 1 |-> IF i > n THEN <<>> ELSE made[i] \o f[next[i]]]
    BY <2>0
  <2> HIDE DEF f
  <2>2. Loops(made, next, n + 1 - 0, f)
    BY <2>1 DEF Loops, n
  <2> QED BY <1>0, <2>2
<1>2. ASSUME NEW m \in 0..n, m < n, m \in Good PROVE m + 1 \in Good
  <2> DEFINE a == n + 1 - m
             b == n + 1 - (m + 1)
  <2>0. b \in 1..n /\ a = b + 1 /\ b..n + 1 = {b} \cup (a..n + 1) /\ a \in 1..n + 1
    BY <1>0, <1>2
  <2>1. PICK f : f = [i \in a..n + 1 |-> IF i > n THEN <<>> ELSE made[i] \o f[next[i]]]
    BY <1>2 DEF Loops, n
  <2> DEFINE g == [i \in b..n + 1 |-> IF i = b THEN made[b] \o f[next[b]] ELSE f[i]]
  <2> HIDE DEF a, b
  <2>2. ASSUME NEW i \in b..n + 1
        PROVE  g[i] = IF i > n THEN <<>> ELSE made[i] \o g[next[i]]
    <3>1. CASE i = b
      <4>1. next[b] \in a..n + 1 /\ next[b] # b /\ next[b] \in b..n + 1 /\ ~(i > n)
        BY <1>0, <2>0, <3>1
      <4>2. g[next[b]] = f[next[b]]
        BY <4>1
      <4> QED BY <3>1, <4>1, <4>2
    <3>2. CASE i # b
      <4>1. i \in a..n + 1 /\ g[i] = f[i]
        BY <2>0, <3>2
      <4>2. f[i] = IF i > n THEN <<>> ELSE made[i] \o f[next[i]]
        BY <2>1, <4>1
      <4>3. ASSUME ~(i > n) PROVE g[next[i]] = f[next[i]]
        <5>1. next[i] \in b..n + 1 /\ next[i] # b
          BY <1>0, <2>0, <4>1, <4>3
        <5> QED BY <5>1
      <4> HIDE DEF g
      <4> QED BY <4>1, <4>2, <4>3
    <3> QED BY <3>1, <3>2
  <2>3. g = [i \in b..n + 1 |-> g[i]]
    OBVIOUS
  <2> HIDE DEF g
  <2>4. g = [i \in b..n + 1 |-> IF i > n THEN <<>> ELSE made[i] \o g[next[i]]]
    BY <2>2, <2>3
  <2>5. Loops(made, next, b, g)
    BY <2>4 DEF Loops, n
  <2>6. m + 1 \in 0..n
    BY <1>0, <1>2
  <2> QED BY <2>5, <2>6 DEF b
<1> HIDE DEF Good
<1>3. n \in Good
  <2>1. \A m \in 0..n : m \in Good
    BY <1>0, <1>1, <1>2, UpTo
  <2> QED BY <1>0, <2>1
<1>4. n + 1 - n = 1
  BY <1>0
<1> QED BY <1>3, <1>4 DEF Good, n

(* Induction along a loop, from its end: what holds behind the last        *)
(* position, and at each position if it holds at the next, holds of the    *)
(* whole.                                                                  *)
LEMMA WalkInduction ==
    ASSUME NEW made, NEW next, Onward(next), NEW G,
           <<>> \in G[Len(next) + 1],
           \A i \in 1..Len(next) : \A w \in G[next[i]] : made[i] \o w \in G[i]
    PROVE  Walk(made, next) \in G[1]
<1> DEFINE n == Len(next)
           from == CHOOSE f : Loops(made, next, 1, f)
           Good == {m \in 0..n : \A i \in (n + 1 - m)..n + 1 : from[i] \in G[i]}
<1>0. n \in Nat /\ \A i \in 1..n : next[i] \in i + 1..n + 1
  BY DEF Onward
<1>1. Loops(made, next, 1, from)
  BY WalkExists
<1>2. Walk(made, next) = from[1]
  BY DEF Walk, Loops
<1>a. from = [i \in 1..n + 1 |-> IF i > n THEN <<>> ELSE made[i] \o from[next[i]]]
  BY <1>1 DEF Loops
<1>3. <<>> \in G[n + 1] /\ \A i \in 1..n : \A w \in G[next[i]] : made[i] \o w \in G[i]
  OBVIOUS
<1> HIDE DEF n, from
<1>4. 0 \in Good
  <2>1. from[n + 1] = <<>>
    BY <1>0, <1>a
  <2> QED BY <1>0, <1>3, <2>1
<1>5. ASSUME NEW m \in 0..n, m < n, m \in Good PROVE m + 1 \in Good
  <2>1. ASSUME NEW i \in (n + 1 - (m + 1))..n + 1 PROVE from[i] \in G[i]
    <3>1. CASE i \in (n + 1 - m)..n + 1
      BY <1>5, <3>1
    <3>2. CASE i \notin (n + 1 - m)..n + 1
      <4>1. i \in 1..n /\ next[i] \in (n + 1 - m)..n + 1
        BY <1>0, <1>5, <3>2
      <4>2. from[next[i]] \in G[next[i]]
        BY <1>5, <4>1
      <4>3. from[i] = made[i] \o from[next[i]]
        <5>1. i \in 1..n + 1 /\ ~(i > n)
          BY <1>0, <4>1
        <5> QED BY <1>a, <5>1
      <4> QED BY <1>3, <4>1, <4>2, <4>3
    <3> QED BY <3>1, <3>2
  <2>2. m + 1 \in 0..n
    BY <1>0, <1>5
  <2> QED BY <2>1, <2>2
<1> HIDE DEF Good
<1>6. n \in Good
  <2>1. \A m \in 0..n : m \in Good
    BY <1>0, <1>4, <1>5, UpTo
  <2> QED BY <1>0, <2>1
<1>7. 1 \in (n + 1 - n)..n + 1
  BY <1>0
<1> QED BY <1>2, <1>6, <1>7 DEF Good

(* What every position adds is of one kind: so is the whole.               *)
LEMMA WalkTyped ==
    ASSUME NEW made, NEW next, Onward(next), NEW A,
           \A i \in 1..Len(next) : made[i] \in Seq(A)
    PROVE  Walk(made, next) \in Seq(A)
<1> DEFINE G == [i \in 1..Len(next) + 1 |-> Seq(A)]
<1>0. Len(next) \in Nat /\ \A i \in 1..Len(next) : next[i] \in 1..Len(next) + 1
  BY DEF Onward
<1>1. <<>> \in Seq(A)
  OBVIOUS
<1>2. <<>> \in G[Len(next) + 1]
  BY <1>0, <1>1
<1>3. ASSUME NEW i \in 1..Len(next), NEW w \in G[next[i]] PROVE made[i] \o w \in G[i]
  <2>1. w \in Seq(A) /\ made[i] \in Seq(A) /\ i \in 1..Len(next) + 1
    BY <1>0
  <2>2. made[i] \o w \in Seq(A)
    BY <2>1, ConcatProperties
  <2> QED BY <2>1, <2>2
<1>4. G[1] = Seq(A)
  BY <1>0
<1> HIDE DEF G
<1>5. Walk(made, next) \in G[1]
  BY <1>2, <1>3, WalkInduction
<1> QED BY <1>4, <1>5

-----------------------------------------------------------------------------
(* FlattenSeq.                                                             *)

\* f[i] is the first i elements of ss in a row.
Sums(ss, f, A) ==
    /\ f \in [0..Len(ss) -> Seq(A)]
    /\ f[0] = <<>>
    /\ \A i \in 1..Len(ss) : f[i] = f[i - 1] \o ss[i]

\* The function by which FlattenSeq is defined.
Flattens(ss, f) ==
    f = [i \in 1..Len(ss) |-> IF i = 1 THEN ss[i] ELSE f[i - 1] \o ss[i]]

(* Sequences can be put in a row one after the other.                      *)
LEMMA SumsExist ==
    ASSUME NEW A, NEW ss \in Seq(Seq(A))
    PROVE  \E f : Sums(ss, f, A)
<1> DEFINE n == Len(ss)
           Up(m, f) == /\ f \in [0..m -> Seq(A)]
                       /\ f[0] = <<>>
                       /\ \A i \in 1..m : f[i] = f[i - 1] \o ss[i]
           Good == {m \in 0..n : \E f : Up(m, f)}
<1>0. n \in Nat /\ \A i \in 1..n : ss[i] \in Seq(A)
  OBVIOUS
<1> HIDE DEF n
<1>1. 0 \in Good
  <2> DEFINE f == [i \in 0..0 |-> <<>>]
  <2>1. <<>> \in Seq(A)
    OBVIOUS
  <2>2. Up(0, f)
    BY <2>1
  <2> HIDE DEF f, Up
  <2> QED BY <1>0, <2>2
<1>2. ASSUME NEW m \in 0..n, m < n, m \in Good PROVE m + 1 \in Good
  <2>1. PICK f : Up(m, f)
    BY <1>2
  <2> DEFINE g == [i \in 0..m + 1 |-> IF i = m + 1 THEN f[m] \o ss[m + 1] ELSE f[i]]
  <2>2. m \in Nat /\ m + 1 \in 1..n /\ m \in 0..m
    BY <1>0, <1>2
  <2>3. f[m] \in Seq(A) /\ ss[m + 1] \in Seq(A)
    BY <1>0, <2>1, <2>2
  <2>4. f[m] \o ss[m + 1] \in Seq(A)
    BY <2>3, ConcatProperties
  <2>5. \A i \in 0..m + 1 : i # m + 1 => i \in 0..m
    BY <2>2
  <2>6. g \in [0..m + 1 -> Seq(A)]
    BY <2>1, <2>4, <2>5
  <2>7. g[0] = <<>>
    BY <2>1, <2>2
  <2>8. ASSUME NEW i \in 1..m + 1 PROVE g[i] = g[i - 1] \o ss[i]
    <3>1. i - 1 \in 0..m /\ i \in 0..m + 1 /\ i - 1 \in 0..m + 1 /\ i - 1 # m + 1
      BY <2>2
    <3>2. g[i - 1] = f[i - 1]
      BY <3>1
    <3>3. CASE i = m + 1
      <4>0. i \in 0..m + 1 => g[i] = f[m] \o ss[m + 1]
        BY <3>3
      <4> HIDE DEF g
      <4>2. i - 1 = m
        BY <2>2, <3>3
      <4>1. i - 1 = m /\ g[i] = f[m] \o ss[m + 1]
        BY <3>1, <4>0, <4>2
      <4> HIDE DEF g
      <4> QED BY <3>2, <3>3, <4>1
    <3>4. CASE i # m + 1
      <4>1. i \in 1..m /\ g[i] = f[i]
        BY <2>2, <3>1, <3>4
      <4>2. f[i] = f[i - 1] \o ss[i]
        BY <2>1, <4>1
      <4> HIDE DEF g
      <4> QED BY <3>2, <4>1, <4>2
    <3> QED BY <3>3, <3>4
  <2> HIDE DEF g
  <2>9. Up(m + 1, g)
    BY <2>6, <2>7, <2>8
  <2>10. m + 1 \in 0..n
    BY <1>0, <1>2
  <2> HIDE DEF Up
  <2> QED BY <2>9, <2>10
<1> HIDE DEF Good
<1>3. n \in Good
  <2>1. \A m \in 0..n : m \in Good
    BY <1>0, <1>1, <1>2, UpTo
  <2> QED BY <1>0, <2>1
<1> QED BY <1>3 DEF Good, n, Sums

(* The last of them is what FlattenSeq makes of all.                       *)
LEMMA FlattenIs ==
    ASSUME NEW A, NEW ss \in Seq(Seq(A)), NEW f, Sums(ss, f, A)
    PROVE  FlattenSeq(ss) = f[Len(ss)] /\ FlattenSeq(ss) \in Seq(A)
<1> DEFINE n == Len(ss)
           fl == CHOOSE g : Flattens(ss, g)
           Good == {m \in 0..n : m = 0 \/ fl[m] = f[m]}
<1>0. n \in Nat /\ \A i \in 1..n : ss[i] \in Seq(A)
  OBVIOUS
<1>1. /\ f \in [0..n -> Seq(A)] /\ f[0] = <<>>
      /\ \A i \in 1..n : f[i] = f[i - 1] \o ss[i]
  BY DEF Sums
<1>2. CASE n = 0
  <2>1. ss = <<>>
    BY <1>2
  <2>2. FlattenSeq(ss) = <<>>
    BY <1>2, <2>1 DEF FlattenSeq
  <2> QED BY <1>1, <1>2, <2>2
<1>3. CASE n # 0
  <2>1. FlattenSeq(ss) = fl[n]
    BY <1>3 DEF FlattenSeq, Flattens
  <2> HIDE DEF n
  <2>2. \A i \in 1..n : i = 1 => f[i] = ss[i]
    <3>1. ASSUME 1 \in 1..n PROVE f[1] = ss[1]
      <4>0. 1 - 1 = 0
        OBVIOUS
      <4>1. f[1] = f[1 - 1] \o ss[1] /\ f[1 - 1] = <<>> /\ ss[1] \in Seq(A)
        BY <1>0, <1>1, <3>1, <4>0
      <4>2. <<>> \o ss[1] = ss[1]
        BY <4>1, ConcatEmptySeq
      <4> QED BY <4>1, <4>2
    <3> QED BY <3>1
  <2>3. \E g : Flattens(ss, g)
    <3> DEFINE g == [i \in 1..n |-> f[i]]
    <3>1. ASSUME NEW i \in 1..n
          PROVE  g[i] = IF i = 1 THEN ss[i] ELSE g[i - 1] \o ss[i]
      <4>1. CASE i = 1
        BY <2>2, <4>1
      <4>2. CASE i # 1
        <5>1. i - 1 \in 1..n
          BY <1>0, <4>2
        <5>2. g[i - 1] = f[i - 1] /\ g[i] = f[i]
          BY <5>1
        <5> HIDE DEF g
        <5> QED BY <1>1, <4>2, <5>2
      <4> QED BY <4>1, <4>2
    <3>2. g = [i \in 1..n |-> g[i]]
      OBVIOUS
    <3> HIDE DEF g
    <3>3. g = [i \in 1..n |-> IF i = 1 THEN ss[i] ELSE g[i - 1] \o ss[i]]
      BY <3>1, <3>2
    <3>4. Flattens(ss, g)
      BY <3>3 DEF Flattens, n
    <3> QED BY <3>4
  <2>4. Flattens(ss, fl)
    BY <2>3
  <2>5. fl = [i \in 1..n |-> IF i = 1 THEN ss[i] ELSE fl[i - 1] \o ss[i]]
    BY <2>4 DEF Flattens, n
  <2> HIDE DEF fl
  <2>6. 0 \in Good
    BY <1>0
  <2>7. ASSUME NEW m \in 0..n, m < n, m \in Good PROVE m + 1 \in Good
    <3>1. m + 1 \in 1..n /\ m + 1 \in 0..n /\ (m + 1) - 1 = m
      BY <1>0, <2>7
    <3>2. fl[m + 1] = IF m + 1 = 1 THEN ss[m + 1] ELSE fl[(m + 1) - 1] \o ss[m + 1]
      BY <2>5, <3>1
    <3>3. CASE m = 0
      <4>1. fl[m + 1] = ss[m + 1] /\ f[m + 1] = ss[m + 1]
        BY <2>2, <3>1, <3>2, <3>3
      <4> QED BY <3>1, <4>1
    <3>4. CASE m # 0
      <4>0. fl[m] = f[m] /\ m + 1 # 1
        BY <1>0, <2>7, <3>4
      <4>2. f[m + 1] = f[(m + 1) - 1] \o ss[m + 1]
        BY <1>1, <3>1
      <4>1. fl[m + 1] = f[m] \o ss[m + 1] /\ f[m + 1] = f[m] \o ss[m + 1]
        BY <3>1, <3>2, <4>0, <4>2
      <4> QED BY <3>1, <4>1
    <3> QED BY <3>3, <3>4
  <2> HIDE DEF Good
  <2>8. n \in Good
    <3>1. \A m \in 0..n : m \in Good
      BY <1>0, <2>6, <2>7, UpTo
    <3> QED BY <1>0, <3>1
  <2>9. fl[n] = f[n] /\ f[n] \in Seq(A)
    BY <1>0, <1>1, <1>3, <2>8 DEF Good
  <2> QED BY <2>1, <2>9 DEF n
<1> QED BY <1>2, <1>3

(* FlattenSeq makes a sequence of the elements.                            *)
LEMMA FlattenTyped ==
    ASSUME NEW A, NEW ss \in Seq(Seq(A))
    PROVE  FlattenSeq(ss) \in Seq(A)
<1>1. PICK f : Sums(ss, f, A)
  BY SumsExist
<1> QED BY <1>1, FlattenIs

(* Nothing in a row is nothing, and one sequence is itself.                *)
LEMMA FlattenOne ==
    ASSUME NEW A, NEW s \in Seq(A)
    PROVE  FlattenSeq(<<>>) = <<>> /\ FlattenSeq(<<s>>) = s
<1>1. FlattenSeq(<<>>) = <<>>
  BY DEF FlattenSeq
<1> DEFINE f == [i \in 0..1 |-> IF i = 0 THEN <<>> ELSE s]
           ss == <<s>>
<1>2. ss \in Seq(Seq(A)) /\ Len(ss) = 1 /\ ss[1] = s
  OBVIOUS
<1>3. <<>> \in Seq(A) /\ <<>> \o s = s
  BY ConcatEmptySeq
<1>4. f \in [0..1 -> Seq(A)] /\ f[0] = <<>> /\ f[1] = s
  BY <1>3
<1> HIDE DEF f, ss
<1>5. \A i \in 1..1 : f[i] = f[i - 1] \o ss[i]
  BY <1>2, <1>3, <1>4
<1>6. Sums(ss, f, A)
  BY <1>2, <1>4, <1>5 DEF Sums
<1>7. FlattenSeq(ss) = s
  BY <1>2, <1>4, <1>6, FlattenIs
<1> QED BY <1>1, <1>7 DEF ss

(* Two sequences of sequences in a row.                                    *)
LEMMA FlattenConcat ==
    ASSUME NEW A, NEW a \in Seq(Seq(A)), NEW b \in Seq(Seq(A))
    PROVE  FlattenSeq(a \o b) = FlattenSeq(a) \o FlattenSeq(b)
<1>1. PICK f : Sums(a, f, A)
  BY SumsExist
<1>2. PICK g : Sums(b, g, A)
  BY SumsExist
<1> DEFINE c == a \o b
           la == Len(a)
           lb == Len(b)
           h == [i \in 0..la + lb |-> IF i <= la THEN f[i] ELSE f[la] \o g[i - la]]
<1>3. /\ c \in Seq(Seq(A)) /\ Len(c) = la + lb
      /\ \A i \in 1..la + lb : c[i] = IF i <= la THEN a[i] ELSE b[i - la]
  BY ConcatProperties
<1>4. la \in Nat /\ lb \in Nat
      /\ (\A i \in 1..la : a[i] \in Seq(A)) /\ (\A i \in 1..lb : b[i] \in Seq(A))
  OBVIOUS
<1>5. /\ f \in [0..la -> Seq(A)] /\ f[0] = <<>>
      /\ \A i \in 1..la : f[i] = f[i - 1] \o a[i]
  BY <1>1 DEF Sums
<1>6. /\ g \in [0..lb -> Seq(A)] /\ g[0] = <<>>
      /\ \A i \in 1..lb : g[i] = g[i - 1] \o b[i]
  BY <1>2 DEF Sums
<1>7. FlattenSeq(a) = f[la] /\ FlattenSeq(b) = g[lb]
  BY <1>1, <1>2, FlattenIs
<1> HIDE DEF c, la, lb
<1>8. f[la] \in Seq(A) /\ f[la] \o <<>> = f[la]
  <2>1. f[la] \in Seq(A)
    BY <1>4, <1>5
  <2> QED BY <2>1, ConcatEmptySeq
<1>9. ASSUME NEW i \in 0..la + lb PROVE h[i] \in Seq(A)
  <2>1. CASE i <= la
    <3>1. i \in 0..la
      BY <1>4, <2>1
    <3> QED BY <1>5, <2>1, <3>1
  <2>2. CASE ~(i <= la)
    <3>1. i - la \in 0..lb
      BY <1>4, <2>2
    <3>2. g[i - la] \in Seq(A)
      BY <1>6, <3>1
    <3>3. f[la] \o g[i - la] \in Seq(A)
      BY <1>8, <3>2, ConcatProperties
    <3> QED BY <2>2, <3>3
  <2> QED BY <2>1, <2>2
<1>10. ASSUME NEW i \in 1..la + lb PROVE h[i] = h[i - 1] \o c[i]
  <2>0. i \in 0..la + lb /\ i - 1 \in 0..la + lb
    BY <1>4
  <2>1. CASE i <= la
    <3>1. i \in 1..la /\ i - 1 <= la
      BY <1>4, <2>1
    <3>2. h[i] = f[i] /\ h[i - 1] = f[i - 1] /\ c[i] = a[i]
      BY <1>3, <2>0, <2>1, <3>1
    <3> HIDE DEF h
    <3> QED BY <1>5, <3>1, <3>2
  <2>2. CASE ~(i <= la)
    <3>1. i - la \in 1..lb /\ (i - la) - 1 = (i - 1) - la /\ (i - la) - 1 \in 0..lb
      BY <1>4, <2>2
    <3>2. h[i - 1] = f[la] \o g[(i - la) - 1]
      <4>1. CASE i - 1 <= la
        <5>1. i - 1 = la /\ (i - la) - 1 = 0
          BY <1>4, <2>2, <4>1
        <5>2. h[i - 1] = f[i - 1]
          BY <2>0, <4>1
        <5> HIDE DEF h
        <5> QED BY <1>6, <1>8, <5>1, <5>2
      <4>2. CASE ~(i - 1 <= la)
        BY <2>0, <3>1, <4>2
      <4> QED BY <4>1, <4>2
    <3>3. h[i] = f[la] \o g[i - la] /\ c[i] = b[i - la]
      BY <1>3, <2>0, <2>2
    <3> HIDE DEF h
    <3>4. g[i - la] = g[(i - la) - 1] \o b[i - la]
      BY <1>6, <3>1
    <3>5. g[(i - la) - 1] \in Seq(A) /\ b[i - la] \in Seq(A)
      BY <1>4, <1>6, <3>1
    <3>7. \A x, y, z \in Seq(A) : (x \o y) \o z = x \o (y \o z)
      BY ConcatAssociative
    <3>6. (f[la] \o g[(i - la) - 1]) \o b[i - la] = f[la] \o (g[(i - la) - 1] \o b[i - la])
      BY <1>8, <3>5, <3>7
    <3> QED BY <3>2, <3>3, <3>4, <3>6
  <2> QED BY <2>1, <2>2
<1>11. h[0] = <<>> /\ h[la + lb] = f[la] \o g[lb]
  <2>1. h[0] = <<>>
    BY <1>4, <1>5
  <2>2. CASE lb = 0
    <3>1. la + lb = la /\ la \in 0..la + lb
      BY <1>4, <2>2
    <3>2. h[la + lb] = f[la] /\ g[lb] = <<>>
      BY <1>4, <1>6, <2>2, <3>1
    <3> HIDE DEF h
    <3> QED BY <1>8, <2>1, <3>2
  <2>3. CASE lb # 0
    <3>1. ~(la + lb <= la) /\ (la + lb) - la = lb /\ la + lb \in 0..la + lb
      BY <1>4, <2>3
    <3>2. h[la + lb] = f[la] \o g[lb]
      BY <3>1
    <3> HIDE DEF h
    <3> QED BY <2>1, <3>2
  <2> QED BY <2>2, <2>3
<1>12. h \in [0..la + lb -> Seq(A)]
  BY <1>9
<1> HIDE DEF h
<1>13. Sums(c, h, A)
  BY <1>3, <1>10, <1>11, <1>12 DEF Sums
<1>14. FlattenSeq(c) = h[la + lb]
  BY <1>3, <1>13, FlattenIs
<1> QED BY <1>7, <1>11, <1>14 DEF c, la, lb

(* What is in a concatenation, and what in a row.                          *)
LEMMA ConcatElems ==
    ASSUME NEW A, NEW a \in Seq(A), NEW b \in Seq(A)
    PROVE  Elems(a \o b) = Elems(a) \cup Elems(b)
<1> DEFINE c == a \o b
<1>1. /\ Len(a) \in Nat /\ Len(b) \in Nat
      /\ Len(c) = Len(a) + Len(b)
      /\ \A i \in 1..Len(a) + Len(b) : c[i] = IF i <= Len(a) THEN a[i] ELSE b[i - Len(a)]
  BY ConcatProperties
<1> HIDE DEF c
<1>2. ASSUME NEW i \in 1..Len(c) PROVE c[i] \in Elems(a) \cup Elems(b)
  <2>1. CASE i <= Len(a)
    <3>1. i \in 1..Len(a) /\ c[i] = a[i]
      BY <1>1, <2>1
    <3> QED BY <3>1 DEF Elems
  <2>2. CASE ~(i <= Len(a))
    <3>1. i - Len(a) \in 1..Len(b) /\ c[i] = b[i - Len(a)]
      BY <1>1, <2>2
    <3> QED BY <3>1 DEF Elems
  <2> QED BY <2>1, <2>2
<1>3. ASSUME NEW i \in 1..Len(a) PROVE a[i] \in Elems(c)
  <2>1. i \in 1..Len(c) /\ c[i] = a[i]
    BY <1>1
  <2> QED BY <2>1 DEF Elems
<1>4. ASSUME NEW i \in 1..Len(b) PROVE b[i] \in Elems(c)
  <2>1. i + Len(a) \in 1..Len(c) /\ ~(i + Len(a) <= Len(a)) /\ (i + Len(a)) - Len(a) = i
    BY <1>1
  <2>2. c[i + Len(a)] = b[i]
    BY <1>1, <2>1
  <2> QED BY <2>1, <2>2 DEF Elems
<1>5. Elems(c) = {c[i] : i \in 1..Len(c)} /\ Elems(a) = {a[i] : i \in 1..Len(a)}
      /\ Elems(b) = {b[i] : i \in 1..Len(b)}
  BY DEF Elems
<1> QED BY <1>2, <1>3, <1>4, <1>5 DEF c

(* The elements of a row are those of the sequences in it.                 *)
LEMMA FlattenElems ==
    ASSUME NEW A, NEW ss \in Seq(Seq(A))
    PROVE  \A x : x \in Elems(FlattenSeq(ss)) <=>
                    \E i \in 1..Len(ss) : x \in Elems(ss[i])
<1>1. PICK f : Sums(ss, f, A)
  BY SumsExist
<1> DEFINE n == Len(ss)
           Of(m, x) == \E i \in 1..m : x \in Elems(ss[i])
           Good == {m \in 0..n : \A x : x \in Elems(f[m]) <=> Of(m, x)}
<1>0. n \in Nat /\ \A i \in 1..n : ss[i] \in Seq(A)
  OBVIOUS
<1>2. /\ f \in [0..n -> Seq(A)] /\ f[0] = <<>>
      /\ \A i \in 1..n : f[i] = f[i - 1] \o ss[i]
  BY <1>1 DEF Sums
<1>3. FlattenSeq(ss) = f[n]
  BY <1>1, FlattenIs
<1> HIDE DEF n
<1>4. 0 \in Good
  <2>1. Elems(f[0]) = {}
    BY <1>2 DEF Elems
  <2> QED BY <1>0, <2>1
<1>5. ASSUME NEW m \in 0..n, m < n, m \in Good PROVE m + 1 \in Good
  <2>1. m + 1 \in 1..n /\ m + 1 \in 0..n /\ (m + 1) - 1 = m /\ m \in Nat
    BY <1>0, <1>5
  <2>2. f[m] \in Seq(A) /\ ss[m + 1] \in Seq(A) /\ f[m + 1] = f[m] \o ss[m + 1]
    BY <1>0, <1>2, <2>1
  <2>3. Elems(f[m + 1]) = Elems(f[m]) \cup Elems(ss[m + 1])
    BY <2>2, ConcatElems
  <2>4. \A x : x \in Elems(f[m]) <=> Of(m, x)
    BY <1>5
  <2>5. \A x : Of(m + 1, x) <=> Of(m, x) \/ x \in Elems(ss[m + 1])
    BY <2>1
  <2> HIDE DEF Of
  <2> QED BY <2>1, <2>3, <2>4, <2>5
<1> HIDE DEF Good
<1>6. n \in Good
  <2>1. \A m \in 0..n : m \in Good
    BY <1>0, <1>4, <1>5, UpTo
  <2> QED BY <1>0, <2>1
<1> QED BY <1>3, <1>6 DEF Good, n

(* A set of numbers that has a bound holds its maximum.                    *)
LEMMA MaxFacts ==
    ASSUME NEW n \in Nat, NEW T, T \subseteq 0..n, T # {}
    PROVE  Max(T) \in T /\ \A x \in T : x <= Max(T)
<1> DEFINE U == {n - x : x \in T}
           m == n - Min(U)
<1>1. U \subseteq Nat /\ U # {}
  <2>1. \A x \in T : n - x \in Nat
    OBVIOUS
  <2> QED BY <2>1
<1>2. Min(U) \in U /\ \A y \in U : Min(U) <= y
  BY <1>1, MinFacts
<1>3. PICK x \in T : Min(U) = n - x
  BY <1>2
<1>4. m = x
  BY <1>3
<1>5. ASSUME NEW y \in T PROVE y <= x
  <2>1. Min(U) <= n - y
    BY <1>2
  <2> QED BY <1>3, <2>1
<1>6. \E z \in T : \A y \in T : z >= y
  BY <1>5
<1>7. Max(T) \in T /\ \A y \in T : Max(T) >= y
  BY <1>6 DEF Max
<1> QED BY <1>7

-----------------------------------------------------------------------------
(* Text: what the files and the sentences become.                          *)

(* A sequence of bytes is trimmed to bytes.                                *)
LEMMA TrimTyped ==
    ASSUME NEW str \in Seq(Byte)
    PROVE  Trim(str) \in Seq(Byte)
<1> DEFINE n == Len(str)
           blank == {k \in DOMAIN str : IsSpace(str[k])}
           kept == {i \in DOMAIN str : ~IsSpace(str[i])}
<1>1. n \in Nat /\ DOMAIN str = 1..n /\ \A i \in 1..n : str[i] \in Byte
  OBVIOUS
<1>2. RunEnd(str, 1, IsSpace) = EndOf(n, 1, blank)
  BY DEF RunEnd, EndOf
<1>3. EndOf(n, 1, blank) \in 1..n + 1
  BY <1>1, EndOfIs
<1>4. Max(kept \cup {0}) \in 0..n
  <2>1. kept \cup {0} \subseteq 0..n /\ kept \cup {0} # {}
    BY <1>1
  <2> QED BY <1>1, <2>1, MaxFacts
<1>5. Trim(str) = SubSeq(str, EndOf(n, 1, blank), Max(kept \cup {0}))
  BY <1>2 DEF Trim
<1> DEFINE a == EndOf(n, 1, blank)
           b == Max(kept \cup {0})
<1>a. a \in 1..n + 1 /\ b \in 0..n
  BY <1>3, <1>4
<1> HIDE DEF a, b, n
<1>6. a \in Int /\ b \in Int /\ \A i \in a..b : i \in 1..n
  BY <1>1, <1>a
<1>7. SubSeq(str, a, b) \in Seq(Byte)
  BY <1>1, <1>6, SubSeqProperties
<1> QED BY <1>5, <1>7 DEF a, b, n

(* The fields of a line, one at least if the line is not empty.            *)
LEMMA SplitTyped ==
    ASSUME NEW src \in Seq(Byte), NEW pattern
    PROVE  /\ Split(src, pattern) \in Seq(Seq(Byte))
           /\ src # <<>> => Len(Split(src, pattern)) >= 1
<1> DEFINE n == Len(src)
           run == {k \in DOMAIN src : src[k] \notin pattern}
           end == [i \in DOMAIN src |-> RunEnd(src, i, LAMBDA byte : byte \notin pattern)]
           made == [i \in DOMAIN src |-> <<Trim(SubSeq(src, i, end[i] - 1))>>]
           next == [i \in DOMAIN src |-> IF end[i] > Len(src) THEN end[i] ELSE end[i] + 1]
           G == [i \in 1..n + 1 |-> {w \in Seq(Seq(Byte)) : i <= n => Len(w) >= 1}]
<1>1. n \in Nat /\ DOMAIN src = 1..n /\ \A i \in 1..n : src[i] \in Byte
  OBVIOUS
<1>2. Split(src, pattern) = Walk(made, next)
  BY DEF Split
<1>3. ASSUME NEW i \in 1..n
      PROVE  end[i] \in i..n + 1 /\ (i \notin run \/ end[i] # i)
  <2>1. end[i] = EndOf(n, i, run)
    BY <1>1 DEF RunEnd, EndOf
  <2>2. /\ EndOf(n, i, run) \in i..n + 1
        /\ EndOf(n, i, run) \notin run
    BY <1>1, EndOfIs
  <2> QED BY <2>1, <2>2
<1>4. ASSUME NEW i \in 1..n PROVE next[i] \in i + 1..n + 1
  <2>1. next[i] = IF end[i] > n THEN end[i] ELSE end[i] + 1
    BY <1>1
  <2> HIDE DEF end, next
  <2> QED BY <1>1, <1>3, <2>1
<1>5. Len(next) = n
  BY <1>1
<1>6. Onward(next)
  BY <1>1, <1>4, <1>5 DEF Onward
<1>7. ASSUME NEW i \in 1..n
      PROVE  made[i] \in Seq(Seq(Byte)) /\ Len(made[i]) = 1
  <2>1. made[i] = <<Trim(SubSeq(src, i, end[i] - 1))>>
    BY <1>1
  <2>2. SubSeq(src, i, end[i] - 1) \in Seq(Byte)
    <3>0. n \in Nat /\ end[i] \in i..n + 1
      BY <1>1, <1>3
    <3> HIDE DEF end, n
    <3>1. end[i] - 1 \in Int /\ i \in Int /\ \A k \in i..end[i] - 1 : k \in 1..n
      BY <3>0
    <3> QED BY <1>1, <3>1, SubSeqProperties
  <2>3. Trim(SubSeq(src, i, end[i] - 1)) \in Seq(Byte)
    BY <2>2, TrimTyped
  <2> QED BY <2>1, <2>3
<1>8. <<>> \in G[n + 1]
  <2>1. <<>> \in Seq(Seq(Byte))
    OBVIOUS
  <2> QED BY <1>1, <2>1
<1> HIDE DEF made, next
<1>9. ASSUME NEW i \in 1..n, NEW w \in G[next[i]] PROVE made[i] \o w \in G[i]
  <2>1. next[i] \in 1..n + 1 /\ i \in 1..n + 1
    BY <1>1, <1>4
  <2>2. w \in Seq(Seq(Byte))
    BY <2>1
  <2>3. made[i] \o w \in Seq(Seq(Byte)) /\ Len(made[i] \o w) = Len(made[i]) + Len(w)
    BY <1>7, <2>2, ConcatProperties
  <2>4. Len(w) \in Nat
    BY <2>2
  <2>6. Len(made[i]) = 1
    BY <1>7
  <2>5. Len(made[i] \o w) >= 1
    BY <2>3, <2>4, <2>6
  <2> QED BY <2>1, <2>3, <2>5
<1>10. G[1] = {w \in Seq(Seq(Byte)) : 1 <= n => Len(w) >= 1}
  BY <1>1
<1> HIDE DEF G
<1>11. Walk(made, next) \in G[1]
  BY <1>5, <1>6, <1>8, <1>9, WalkInduction
<1>12. src # <<>> => 1 <= n
  BY <1>1
<1> QED BY <1>2, <1>10, <1>11, <1>12

-----------------------------------------------------------------------------
(* Text: what the sentences become.                                        *)

Rune == 0..(8 * Power64(3) - 1)

(* The powers the conversions use.                                         *)
LEMMA Powers ==
    Power64(0) = 1 /\ Power64(1) = 64 /\ Power64(2) = 4096 /\ Power64(3) = 262144
<1>1. Power64(0) = 1
  BY SMT DEF Power64
<1>2. Power64(1) = 64
  BY SMT DEF Power64
<1>3. Power64(2) = 4096
  BY SMT DEF Power64
<1>4. Power64(3) = 262144
  BY SMT DEF Power64
<1> QED BY SMT, <1>1, <1>2, <1>3, <1>4

(* What two, three and four bytes can carry.                               *)
LEMMA FitsTwo ==
    ASSUME NEW lead \in 0..31, NEW x \in 0..63
    PROVE  lead * 64 + x \in Rune
BY SMT, Powers DEF Rune

(* Three bytes.                                                            *)
LEMMA FitsThree ==
    ASSUME NEW lead \in 0..15, NEW x \in 0..63, NEW y \in 0..63
    PROVE  lead * Power64(2) + x * 64 + y \in Rune
BY SMT, Powers DEF Rune

(* Four bytes.                                                             *)
LEMMA FitsFour ==
    ASSUME NEW lead \in 0..7, NEW x \in 0..63, NEW y \in 0..63, NEW z \in 0..63
    PROVE  lead * Power64(3) + x * Power64(2) + y * 64 + z \in Rune
BY SMT, Powers DEF Rune

(* The value of a sequence of up to four bytes is a rune.                  *)
LEMMA RuneAtTyped ==
    ASSUME NEW str \in Seq(Byte), NEW w \in 1..4, NEW i \in 1..Len(str),
           i + w - 1 <= Len(str)
    PROVE  RuneAt(str, i, w) \in (IF w = 1 THEN 0..127 ELSE Rune)
<1> DEFINE n == Len(str)
           Low(k) == str[i + k] % 64
           lead == str[i] % LeadPayload[w]
<1>1. n \in Nat /\ \A k \in 1..n : str[k] \in Byte
  OBVIOUS
<1>b. i \in 1..n /\ i + w - 1 <= n
  OBVIOUS
<1> HIDE DEF n
<1>2. ASSUME NEW k \in 1..w - 1 PROVE Low(k) \in 0..63
  <2>1. i + k \in 1..n
    BY <1>1, <1>b
  <2>2. str[i + k] \in 0..255
    BY <1>1, <2>1 DEF Byte
  <2>3. \A b1 \in 0..255 : b1 % 64 \in 0..63
    OBVIOUS
  <2> QED BY <2>2, <2>3
<1>3. str[i] \in 0..255
  BY <1>1, <1>b DEF Byte
<1>4. RuneAt(str, i, w) = IF w = 1 THEN lead
                          ELSE IF w = 2 THEN lead * 64 + Low(1)
                          ELSE IF w = 3 THEN lead * Power64(2) + Low(1) * 64 + Low(2)
                          ELSE lead * Power64(3) + Low(1) * Power64(2) + Low(2) * 64 + Low(3)
  BY DEF RuneAt
<1>5. LeadPayload[1] = 128 /\ LeadPayload[2] = 32 /\ LeadPayload[3] = 16 /\ LeadPayload[4] = 8
  BY DEF LeadPayload
<1>6. \A b1 \in 0..255 : /\ b1 % 128 \in 0..127 /\ b1 % 32 \in 0..31
                         /\ b1 % 16 \in 0..15 /\ b1 % 8 \in 0..7
  OBVIOUS
<1>7. /\ w = 1 => lead \in 0..127
      /\ w = 2 => lead \in 0..31
      /\ w = 3 => lead \in 0..15
      /\ w = 4 => lead \in 0..7
  <2>1. CASE w = 1
    <3>1. LeadPayload[w] = 128
      BY <1>5, <2>1
    <3>2. lead = str[i] % 128
      BY <3>1
    <3>3. str[i] % 128 \in 0..127
      BY <1>3, <1>6
    <3> HIDE DEF lead
    <3> QED BY <2>1, <3>2, <3>3
  <2>2. CASE w = 2
    <3>1. LeadPayload[w] = 32
      BY <1>5, <2>2
    <3>2. lead = str[i] % 32
      BY <3>1
    <3>3. str[i] % 32 \in 0..31
      BY <1>3, <1>6
    <3> HIDE DEF lead
    <3> QED BY <2>2, <3>2, <3>3
  <2>3. CASE w = 3
    <3>1. LeadPayload[w] = 16
      BY <1>5, <2>3
    <3>2. lead = str[i] % 16
      BY <3>1
    <3>3. str[i] % 16 \in 0..15
      BY <1>3, <1>6
    <3> HIDE DEF lead
    <3> QED BY <2>3, <3>2, <3>3
  <2>4. CASE w = 4
    <3>1. LeadPayload[w] = 8
      BY <1>5, <2>4
    <3>2. lead = str[i] % 8
      BY <3>1
    <3>3. str[i] % 8 \in 0..7
      BY <1>3, <1>6
    <3> HIDE DEF lead
    <3> QED BY <2>4, <3>2, <3>3
  <2> QED BY <2>1, <2>2, <2>3, <2>4
<1> HIDE DEF lead, Low
<1>9. CASE w = 1
  BY <1>4, <1>7, <1>9
<1>10. CASE w = 2
  <2>1. Low(1) \in 0..63
    BY <1>2, <1>10
  <2>2. RuneAt(str, i, w) = lead * 64 + Low(1) /\ lead \in 0..31
    BY <1>4, <1>7, <1>10
  <2>3. lead * 64 + Low(1) \in Rune
    BY <2>1, <2>2, FitsTwo
  <2> QED BY <1>10, <2>2, <2>3
<1>11. CASE w = 3
  <2>1. Low(1) \in 0..63 /\ Low(2) \in 0..63
    BY <1>2, <1>11
  <2>2. RuneAt(str, i, w) = lead * Power64(2) + Low(1) * 64 + Low(2) /\ lead \in 0..15
    BY <1>4, <1>7, <1>11
  <2>3. lead * Power64(2) + Low(1) * 64 + Low(2) \in Rune
    BY <2>1, <2>2, FitsThree
  <2> QED BY <1>11, <2>2, <2>3
<1>12. CASE w = 4
  <2>1. Low(1) \in 0..63 /\ Low(2) \in 0..63 /\ Low(3) \in 0..63
    BY <1>2, <1>12
  <2>2. /\ RuneAt(str, i, w) =
            lead * Power64(3) + Low(1) * Power64(2) + Low(2) * 64 + Low(3)
        /\ lead \in 0..7
    BY <1>4, <1>7, <1>12
  <2>3. lead * Power64(3) + Low(1) * Power64(2) + Low(2) * 64 + Low(3) \in Rune
    BY <2>1, <2>2, FitsFour
  <2> QED BY <1>12, <2>2, <2>3
<1> QED BY <1>9, <1>10, <1>11, <1>12

(* The runes of one byte are runes.                                        *)
LEMMA RuneBytesFew == 0..127 \subseteq Rune
BY SMT, Powers DEF Rune

\* The loop of the decoder: the rune read at each position, and the next.
ReadFrom(str) ==
    [i \in DOMAIN str |->
        IF SequenceWidth(str, i) = 0 THEN <<>> ELSE <<RuneAt(str, i, SequenceWidth(str, i))>>]
ReadNext(str) ==
    [i \in DOMAIN str |->
        IF SequenceWidth(str, i) = 0 THEN Len(str) + 1 ELSE i + SequenceWidth(str, i)]

(* A sequence of width w ends inside the string.                           *)
LEMMA WidthFits ==
    ASSUME NEW str, Len(str) \in Nat, NEW i \in 1..Len(str)
    PROVE  /\ SequenceWidth(str, i) \in 0..4
           /\ SequenceWidth(str, i) # 0 => i + SequenceWidth(str, i) - 1 <= Len(str)
<1> DEFINE fits == {w \in 1..4 : str[i] < LeadBound[w] /\ i + w - 1 <= Len(str)}
           width == SequenceWidth(str, i)
<1>1. width = IF fits = {} THEN 0 ELSE Min(fits)
  BY DEF SequenceWidth
<1> HIDE DEF width
<1>2. CASE fits = {}
  <2>1. width = 0
    BY <1>1, <1>2
  <2>2. width \in 0..4
    BY <2>1
  <2> QED BY <2>1, <2>2 DEF width
<1>3. CASE fits # {}
  <2>1. fits \subseteq Nat
    OBVIOUS
  <2>2. Min(fits) \in fits
    BY <1>3, <2>1, MinFacts
  <2>3. width \in fits
    BY <1>1, <1>3, <2>2
  <2>4. width \in 1..4 /\ i + width - 1 <= Len(str)
    BY <2>3
  <2>5. width \in 0..4
    BY <2>4
  <2> QED BY <2>4, <2>5 DEF width
<1> QED BY <1>2, <1>3

(* The decoder's loop leads on.                                            *)
LEMMA DecodeLoop ==
    ASSUME NEW A, NEW str \in Seq(A)
    PROVE  /\ Decode(str) = Walk(ReadFrom(str), ReadNext(str))
           /\ Onward(ReadNext(str)) /\ Len(ReadNext(str)) = Len(str)
<1> DEFINE n == Len(str)
           next == ReadNext(str)
<1>1. n \in Nat /\ DOMAIN str = 1..n
  OBVIOUS
<1>2. Decode(str) = Walk(ReadFrom(str), ReadNext(str))
  <2> DEFINE width == [i \in DOMAIN str |-> SequenceWidth(str, i)]
             made == [i \in DOMAIN str |->
                        IF width[i] = 0 THEN <<>> ELSE <<RuneAt(str, i, width[i])>>]
             then == [i \in DOMAIN str |->
                        IF width[i] = 0 THEN Len(str) + 1 ELSE i + width[i]]
  <2>1. Decode(str) = Walk(made, then)
    BY DEF Decode, Utf8ToUnicode32
  <2>2. \A i \in DOMAIN str : width[i] = SequenceWidth(str, i)
    OBVIOUS
  <2> HIDE DEF width
  <2>3. made = ReadFrom(str)
    BY <2>2 DEF ReadFrom
  <2>4. then = ReadNext(str)
    BY <2>2 DEF ReadNext
  <2> QED BY <2>1, <2>3, <2>4
<1>3. Len(next) = n
  BY <1>1 DEF ReadNext
<1>4. ASSUME NEW i \in 1..n PROVE next[i] \in i + 1..n + 1
  <2> DEFINE w == SequenceWidth(str, i)
  <2>1. w \in 0..4 /\ (w # 0 => i + w - 1 <= n)
    BY <1>1, WidthFits
  <2>2. next[i] = IF w = 0 THEN n + 1 ELSE i + w
    BY <1>1 DEF ReadNext
  <2> HIDE DEF w, next, n
  <2> QED BY <1>1, <2>1, <2>2
<1> HIDE DEF next, n
<1>5. Onward(next)
  BY <1>1, <1>3, <1>4 DEF Onward
<1> QED BY <1>2, <1>3, <1>5 DEF next, n

(* A sequence of bytes decodes to runes.                                   *)
LEMMA DecodeTyped ==
    ASSUME NEW str \in Seq(Byte)
    PROVE  Decode(str) \in Seq(Rune)
<1> DEFINE n == Len(str)
           made == ReadFrom(str)
<1>1. n \in Nat /\ DOMAIN str = 1..n
  OBVIOUS
<1>2. /\ Decode(str) = Walk(made, ReadNext(str))
      /\ Onward(ReadNext(str)) /\ Len(ReadNext(str)) = n
  BY DecodeLoop
<1>3. ASSUME NEW i \in 1..n PROVE made[i] \in Seq(Rune)
  <2> DEFINE w == SequenceWidth(str, i)
  <2>1. w \in 0..4 /\ (w # 0 => i + w - 1 <= Len(str))
    BY <1>1, WidthFits
  <2>2. made[i] = IF w = 0 THEN <<>> ELSE <<RuneAt(str, i, w)>>
    BY <1>1 DEF ReadFrom
  <2> HIDE DEF w, made
  <2>3. CASE w = 0
    BY <2>2, <2>3
  <2>4. CASE w # 0
    <3>1. w \in 1..4 /\ i + w - 1 <= Len(str)
      BY <2>1, <2>4
    <3>2. RuneAt(str, i, w) \in (IF w = 1 THEN 0..127 ELSE Rune)
      BY <3>1, RuneAtTyped
    <3>3. RuneAt(str, i, w) \in Rune
      BY <3>2, RuneBytesFew
    <3>4. <<RuneAt(str, i, w)>> \in Seq(Rune)
      BY <3>3
    <3> QED BY <2>2, <2>4, <3>4
  <2> QED BY <2>3, <2>4
<1> HIDE DEF made
<1>4. Walk(made, ReadNext(str)) \in Seq(Rune)
  BY <1>2, <1>3, WalkTyped
<1> QED BY <1>2, <1>4

-----------------------------------------------------------------------------
(* Numbers and recursion.                                                  *)

(* Finitely many integers have a lower bound.                              *)
LEMMA LowerBound ==
    ASSUME NEW n \in Nat, NEW f \in [1..n -> Int]
    PROVE  \E a \in Int : \A i \in 1..n : a <= f[i]
<1> DEFINE Good == {m \in 0..n : \E a \in Int : \A i \in 1..m : a <= f[i]}
<1>1. 0 \in Good
  <2>1. \A i \in 1..0 : 0 <= f[i]
    OBVIOUS
  <2> QED BY <2>1
<1>2. ASSUME NEW m \in 0..n, m < n, m \in Good PROVE m + 1 \in Good
  <2>1. PICK a \in Int : \A i \in 1..m : a <= f[i]
    BY <1>2
  <2>2. f[m + 1] \in Int /\ m + 1 \in 0..n
    BY <1>2
  <2>3. PICK c \in Int : c <= a /\ c <= f[m + 1]
    <3>1. CASE a <= f[m + 1]
      BY <2>2, <3>1
    <3>2. CASE ~(a <= f[m + 1])
      BY <2>2, <3>2
    <3> QED BY <3>1, <3>2
  <2>4. ASSUME NEW i \in 1..m + 1 PROVE c <= f[i]
    <3>1. CASE i = m + 1
      BY <2>3, <3>1
    <3>2. CASE i # m + 1
      <4>1. i \in 1..m /\ i \in 1..n
        BY <1>2, <3>2
      <4>2. a <= f[i] /\ f[i] \in Int
        BY <2>1, <4>1
      <4> QED BY <2>3, <4>2
    <3> QED BY <3>1, <3>2
  <2> QED BY <2>2, <2>4
<1> HIDE DEF Good
<1>3. n \in Good
  <2>1. \A m \in 0..n : m \in Good
    BY <1>1, <1>2, UpTo
  <2> QED BY <2>1
<1> QED BY <1>3 DEF Good

(* A set of some of them holds its minimum.                                *)
LEMMA LeastInt ==
    ASSUME NEW n \in Nat, NEW f \in [1..n -> Int],
           NEW T, T \subseteq {f[i] : i \in 1..n}, T # {}
    PROVE  Min(T) \in T /\ Min(T) \in Int /\ \A x \in T : Min(T) <= x
<1>1. PICK a \in Int : \A i \in 1..n : a <= f[i]
  BY LowerBound
<1>2. \A x \in T : x \in Int /\ a <= x
  <2>1. ASSUME NEW x \in T PROVE x \in Int /\ a <= x
    <3>1. PICK i \in 1..n : x = f[i]
      OBVIOUS
    <3> QED BY <1>1, <3>1
  <2> QED BY <2>1
<1> DEFINE U == {x - a : x \in T}
<1>3. U \subseteq Nat /\ U # {}
  <2>1. \A x \in T : x - a \in Nat
    BY <1>2
  <2> QED BY <2>1
<1>4. Min(U) \in U /\ \A y \in U : Min(U) <= y
  <2> HIDE DEF U
  <2> QED BY <1>3, MinFacts
<1>5. PICK x \in T : Min(U) = x - a
  BY <1>4
<1>6. ASSUME NEW y \in T PROVE x <= y
  <2>1. y \in Int /\ x \in Int
    BY <1>2
  <2>2. x - a <= y - a
    BY <1>4, <1>5
  <2> QED BY <2>1, <2>2
<1>7. \E z \in T : \A y \in T : z <= y
  BY <1>6
<1>8. Min(T) \in T /\ \A y \in T : Min(T) <= y
  BY <1>7 DEF Min
<1> QED BY <1>2, <1>8

\* k is the first index of a largest value.
FirstLargest(n, f, k) ==
    /\ k \in 1..n
    /\ \A j \in 1..n : f[j] <= f[k]
    /\ \A j \in 1..k - 1 : f[j] < f[k]

(* Of finitely many integers there is a first largest one.                 *)
LEMMA FirstLargestExists ==
    ASSUME NEW n \in Nat, n >= 1, NEW f \in [1..n -> Int]
    PROVE  \E k : FirstLargest(n, f, k)
<1> DEFINE g == [i \in 1..n |-> 0 - f[i]]
           T == {g[i] : i \in 1..n}
<1>1. g \in [1..n -> Int]
  OBVIOUS
<1>2. T \subseteq {g[i] : i \in 1..n} /\ T # {}
  <2>1. 1 \in 1..n
    OBVIOUS
  <2> QED BY <2>1
<1>3. Min(T) \in T /\ \A x \in T : Min(T) <= x
  <2> HIDE DEF g, T
  <2> QED BY <1>1, <1>2, LeastInt
<1> DEFINE H == {i \in 1..n : g[i] = Min(T)}
<1>4. H \subseteq Nat /\ H # {}
  <2>1. \A x \in T : \E i \in 1..n : g[i] = x
    OBVIOUS
  <2> HIDE DEF g, T
  <2>2. PICK i \in 1..n : g[i] = Min(T)
    BY <1>3, <2>1
  <2> QED BY <2>2
<1>5. Min(H) \in H /\ \A i \in H : Min(H) <= i
  <2> HIDE DEF H
  <2> QED BY <1>4, MinFacts
<1> DEFINE k == Min(H)
<1>6. k \in 1..n /\ g[k] = Min(T)
  BY <1>5
<1>a. \A i \in 1..n : g[i] = 0 - f[i] /\ f[i] \in Int
  OBVIOUS
<1>7. ASSUME NEW j \in 1..n PROVE f[j] <= f[k]
  <2>1. g[k] <= g[j]
    BY <1>3, <1>6
  <2> HIDE DEF g, k
  <2> QED BY <1>6, <1>a, <2>1
<1>8. ASSUME NEW j \in 1..k - 1 PROVE f[j] < f[k]
  <2>1. j \in 1..n /\ ~(k <= j)
    BY <1>6
  <2>2. g[j] # g[k]
    BY <1>5, <1>6, <2>1
  <2>3. f[j] <= f[k]
    BY <1>7, <2>1
  <2> HIDE DEF g, k
  <2> QED BY <1>6, <1>a, <2>1, <2>2, <2>3
<1> HIDE DEF k
<1> QED BY <1>6, <1>7, <1>8 DEF FirstLargest

\* f follows step from base, n times.
Recurs(n, T, base, step, f) ==
    /\ f \in [0..n -> T]
    /\ f[0] = base
    /\ \A i \in 1..n : f[i] = step[<<f[i - 1], i>>]

(* Primitive recursion.                                                    *)
LEMMA RecursExists ==
    ASSUME NEW n \in Nat, NEW T, NEW base \in T, NEW step \in [T \X (1..n) -> T]
    PROVE  \E f : Recurs(n, T, base, step, f)
<1> DEFINE Up(m, f) == /\ f \in [0..m -> T]
                       /\ f[0] = base
                       /\ \A i \in 1..m : f[i] = step[<<f[i - 1], i>>]
           Good == {m \in 0..n : \E f : Up(m, f)}
<1>1. 0 \in Good
  <2> DEFINE f == [i \in 0..0 |-> base]
  <2>1. Up(0, f)
    OBVIOUS
  <2> HIDE DEF f, Up
  <2> QED BY <2>1
<1>2. ASSUME NEW m \in 0..n, m < n, m \in Good PROVE m + 1 \in Good
  <2>1. PICK f : Up(m, f)
    BY <1>2
  <2> DEFINE g == [i \in 0..m + 1 |-> IF i = m + 1 THEN step[<<f[m], m + 1>>] ELSE f[i]]
  <2>2. m \in Nat /\ m + 1 \in 1..n /\ m \in 0..m
    BY <1>2
  <2>3. f[m] \in T
    BY <2>1, <2>2
  <2>4. step[<<f[m], m + 1>>] \in T
    BY <2>2, <2>3
  <2>5. \A i \in 0..m + 1 : i # m + 1 => i \in 0..m
    BY <2>2
  <2>6. g \in [0..m + 1 -> T]
    BY <2>1, <2>4, <2>5
  <2>7. g[0] = base
    BY <2>1, <2>2
  <2>8. ASSUME NEW i \in 1..m + 1 PROVE g[i] = step[<<g[i - 1], i>>]
    <3>1. i - 1 \in 0..m /\ i \in 0..m + 1 /\ i - 1 \in 0..m + 1 /\ i - 1 # m + 1
      BY <2>2
    <3>2. g[i - 1] = f[i - 1]
      BY <3>1
    <3>3. CASE i = m + 1
      <4>0. i \in 0..m + 1 => g[i] = step[<<f[m], m + 1>>]
        BY <3>3
      <4> HIDE DEF g
      <4>2. i - 1 = m
        BY <2>2, <3>3
      <4> QED BY <3>1, <3>2, <3>3, <4>0, <4>2
    <3>4. CASE i # m + 1
      <4>1. i \in 1..m /\ g[i] = f[i]
        BY <2>2, <3>1, <3>4
      <4>2. f[i] = step[<<f[i - 1], i>>]
        BY <2>1, <4>1
      <4> HIDE DEF g
      <4> QED BY <3>2, <4>1, <4>2
    <3> QED BY <3>3, <3>4
  <2> HIDE DEF g
  <2>9. Up(m + 1, g)
    BY <2>6, <2>7, <2>8
  <2>10. m + 1 \in 0..n
    BY <1>2
  <2> HIDE DEF Up
  <2> QED BY <2>9, <2>10
<1> HIDE DEF Good
<1>3. n \in Good
  <2>1. \A m \in 0..n : m \in Good
    BY <1>1, <1>2, UpTo
  <2> QED BY <2>1
<1> QED BY <1>3 DEF Good, Recurs

-----------------------------------------------------------------------------
(* The dictionary.                                                         *)

Unit == [word : Seq(Rune), weight : Int, tag : Seq(Byte)]

\* The nodes of a trie are closed under Front, and the entry at a node has
\* the node's path as its word.
TrieOK(trie, units) ==
    /\ trie \in [DOMAIN trie -> 0..Len(units)]
    /\ DOMAIN trie \subseteq Seq(Rune)
    /\ \A node \in DOMAIN trie : trie[node] # NULL => units[trie[node]].word = node
    /\ \A node \in DOMAIN trie : node # <<>> => Front(node) \in DOMAIN trie

DictOK(d) ==
    /\ d \in [units : Seq(Unit), trie : {d.trie}, minWeight : Int, userWeight : Int,
              singles : {d.singles}]
    /\ TrieOK(d.trie, d.units)

(* The prefixes of a key are closed under Front.                           *)
LEMMA PrefixesFront ==
    ASSUME NEW key \in Seq(Rune), NEW node \in Prefixes(key)
    PROVE  node \in Seq(Rune) /\ (node # <<>> => Front(node) \in Prefixes(key))
<1> DEFINE n == Len(key)
<1>1. n \in Nat /\ \A i \in 1..n : key[i] \in Rune
  OBVIOUS
<1>2. PICK l \in 0..n : node = SubSeq(key, 1, l)
  BY DEF Prefixes
<1> HIDE DEF n
<1>3. \A i \in 1..l : key[i] \in Rune
  BY <1>1, <1>2
<1>4. node \in Seq(Rune) /\ Len(node) = l /\ \A i \in 1..l : node[i] = key[i]
  <2>1. 1 \in Int /\ l \in Int /\ l - 1 + 1 = l /\ (1 <= l \/ l = 0)
    BY <1>1, <1>2
  <2>2. \A i \in 1..l : 1 + i - 1 = i
    BY <2>1
  <2>3. /\ SubSeq(key, 1, l) \in Seq(Rune)
        /\ Len(SubSeq(key, 1, l)) = IF 1 <= l THEN l - 1 + 1 ELSE 0
        /\ \A i \in 1..l - 1 + 1 : SubSeq(key, 1, l)[i] = key[1 + i - 1]
    BY <1>3, <2>1, SubSeqProperties
  <2> QED BY <1>2, <2>1, <2>2, <2>3
<1>5. ASSUME node # <<>> PROVE Front(node) \in Prefixes(key)
  <2>1. l >= 1
    BY <1>1, <1>2, <1>4, <1>5
  <2>2. Front(node) = SubSeq(node, 1, l - 1)
    BY <1>4 DEF Front
  <2>3. SubSeq(node, 1, l - 1) = SubSeq(key, 1, l - 1)
    <3>1. l - 1 \in Int /\ 1 \in Int /\ l - 1 \in Nat /\ (l - 1) - 1 + 1 = l - 1
          /\ (1 <= l - 1 \/ l - 1 = 0)
      BY <1>1, <1>2, <2>1
    <3>2. \A i \in 1..l - 1 : i \in 1..l /\ node[i] = key[i] /\ 1 + i - 1 = i
      BY <1>2, <1>4
    <3>3. \A i \in 1..l - 1 : node[i] \in Rune /\ key[i] \in Rune
      BY <1>3, <3>2
    <3>4. /\ SubSeq(node, 1, l - 1) \in Seq(Rune)
          /\ Len(SubSeq(node, 1, l - 1)) = IF 1 <= l - 1 THEN (l - 1) - 1 + 1 ELSE 0
          /\ \A i \in 1..(l - 1) - 1 + 1 : SubSeq(node, 1, l - 1)[i] = node[1 + i - 1]
      BY <3>1, <3>3, SubSeqProperties
    <3>5. /\ SubSeq(key, 1, l - 1) \in Seq(Rune)
          /\ Len(SubSeq(key, 1, l - 1)) = IF 1 <= l - 1 THEN (l - 1) - 1 + 1 ELSE 0
          /\ \A i \in 1..(l - 1) - 1 + 1 : SubSeq(key, 1, l - 1)[i] = key[1 + i - 1]
      BY <3>1, <3>3, SubSeqProperties
    <3> DEFINE p == SubSeq(node, 1, l - 1)
               q == SubSeq(key, 1, l - 1)
    <3>6. Len(p) = l - 1 /\ Len(q) = l - 1
      BY <3>1, <3>4, <3>5
    <3>7. \A i \in 1..l - 1 : p[i] = q[i]
      BY <3>1, <3>2, <3>4, <3>5
    <3>8. p \in Seq(Rune) /\ q \in Seq(Rune)
      BY <3>4, <3>5
    <3> HIDE DEF p, q
    <3>9. p = q
      BY <3>6, <3>7, <3>8, SeqEqual
    <3> QED BY <3>9 DEF p, q
  <2>4. l - 1 \in 0..n
    BY <1>1, <1>2, <2>1
  <2> QED BY <2>2, <2>3, <2>4 DEF Prefixes, n
<1> QED BY <1>4, <1>5

(* An inserted entry keeps the trie in order.                              *)
LEMMA InsertKeeps ==
    ASSUME NEW units, Len(units) \in Nat, NEW trie, TrieOK(trie, units),
           NEW unit \in 1..Len(units), NEW key \in Seq(Rune), units[unit].word = key
    PROVE  TrieOK(InsertNode(trie, key, unit), units)
<1> DEFINE new == InsertNode(trie, key, unit)
<1>1. CASE key = <<>>
  BY <1>1 DEF InsertNode
<1>2. CASE key # <<>>
  <2> DEFINE D == DOMAIN trie \cup Prefixes(key)
  <2>1. new = [node \in D |-> IF node = key THEN unit
                              ELSE IF node \in DOMAIN trie THEN trie[node] ELSE NULL]
    BY <1>2 DEF InsertNode
  <2> HIDE DEF new
  <2>2. DOMAIN new = D
    BY <2>1
  <2>3. /\ \A node \in DOMAIN trie : trie[node] \in 0..Len(units)
        /\ DOMAIN trie \subseteq Seq(Rune)
        /\ \A node \in DOMAIN trie : trie[node] # NULL => units[trie[node]].word = node
        /\ \A node \in DOMAIN trie : node # <<>> => Front(node) \in DOMAIN trie
    BY DEF TrieOK
  <2>4. \A node \in Prefixes(key) : node \in Seq(Rune)
                                    /\ (node # <<>> => Front(node) \in Prefixes(key))
    BY PrefixesFront
  <2>5. ASSUME NEW node \in D
        PROVE  new[node] \in 0..Len(units) /\ (new[node] # NULL => units[new[node]].word = node)
    <3>1. new[node] = IF node = key THEN unit
                      ELSE IF node \in DOMAIN trie THEN trie[node] ELSE NULL
      BY <2>1
    <3> HIDE DEF D
    <3>2. CASE node = key
      BY <3>1, <3>2
    <3>3. CASE node # key /\ node \in DOMAIN trie
      <4>1. new[node] = trie[node]
        BY <3>1, <3>3
      <4> QED BY <2>3, <3>3, <4>1
    <3>4. CASE node # key /\ node \notin DOMAIN trie
      <4>1. new[node] = NULL
        BY <3>1, <3>4
      <4> QED BY <4>1 DEF NULL
    <3> QED BY <3>2, <3>3, <3>4
  <2>6. new \in [D -> 0..Len(units)]
    BY <2>1, <2>5
  <2>7. D \subseteq Seq(Rune)
    BY <2>3, <2>4
  <2>8. \A node \in D : node # <<>> => Front(node) \in D
    BY <2>3, <2>4
  <2> HIDE DEF D
  <2>9. TrieOK(new, units)
    BY <2>2, <2>5, <2>6, <2>7, <2>8 DEF TrieOK
  <2> QED BY <2>9 DEF new
<1> QED BY <1>1, <1>2

(* The trie of a list of entries.                                          *)
LEMMA CreateTrieOK ==
    ASSUME NEW units \in Seq(Unit)
    PROVE  TrieOK(CreateTrie(units), units)
<1> DEFINE n == Len(units)
           D == SUBSET Seq(Rune)
           T == {trie \in UNION {[Y -> 0..Len(units)] : Y \in D} : TrieOK(trie, units)}
           step == [ti \in T \X (1..n) |-> InsertNode(ti[1], units[ti[2]].word, ti[2])]
           Is(f) == f = [i \in 0..n |->
                           IF i = 0 THEN EmptyTrie ELSE InsertNode(f[i - 1], units[i].word, i)]
           after == CHOOSE f : Is(f)
<1>1. n \in Nat /\ \A i \in 1..n : units[i] \in Unit /\ units[i].word \in Seq(Rune)
  <2>1. n \in Nat /\ \A i \in 1..n : units[i] \in Unit
    OBVIOUS
  <2>2. \A e \in Unit : e.word \in Seq(Rune)
    BY DEF Unit
  <2> QED BY <2>1, <2>2
<1>2. CreateTrie(units) = after[n]
  BY DEF CreateTrie
<1>3. \A t : t \in T <=> TrieOK(t, units)
  <2>1. ASSUME NEW t, TrieOK(t, units) PROVE t \in T
    <3>1. t \in [DOMAIN t -> 0..Len(units)] /\ DOMAIN t \in D
      BY <2>1 DEF TrieOK
    <3> QED BY <2>1, <3>1
  <2> QED BY <2>1
<1> HIDE DEF T
<1>4. EmptyTrie \in T
  <2>1. <<>> \in Seq(Rune)
    OBVIOUS
  <2>2. TrieOK(EmptyTrie, units)
    <3>1. DOMAIN EmptyTrie = {<<>>} /\ EmptyTrie[<<>>] = 0
      BY DEF EmptyTrie, NULL
    <3>2. EmptyTrie \in [{<<>>} -> 0..Len(units)]
      BY <1>1 DEF EmptyTrie, NULL
    <3> QED BY <2>1, <3>1, <3>2 DEF TrieOK, NULL
  <2> QED BY <1>3, <2>2
<1>5. ASSUME NEW t \in T, NEW i \in 1..n PROVE InsertNode(t, units[i].word, i) \in T
  <2>1. TrieOK(t, units) /\ units[i].word \in Seq(Rune) /\ i \in 1..Len(units)
    BY <1>1, <1>3
  <2>2. Len(units) \in Nat
    BY <1>1
  <2>3. TrieOK(InsertNode(t, units[i].word, i), units)
    BY <2>1, <2>2, InsertKeeps
  <2> QED BY <1>3, <2>3
<1>6. step \in [T \X (1..n) -> T]
  <2>1. ASSUME NEW ti \in T \X (1..n)
        PROVE  InsertNode(ti[1], units[ti[2]].word, ti[2]) \in T
    <3>1. ti[1] \in T /\ ti[2] \in 1..n
      OBVIOUS
    <3> QED BY <1>5, <3>1
  <2> QED BY <2>1
<1>7. PICK g : Recurs(n, T, EmptyTrie, step, g)
  <2> HIDE DEF step
  <2> QED BY <1>1, <1>4, <1>6, RecursExists
<1>8. Is(g)
  <2>1. g \in [0..n -> T] /\ g[0] = EmptyTrie
        /\ \A i \in 1..n : g[i] = step[<<g[i - 1], i>>]
    BY <1>7 DEF Recurs
  <2>2. ASSUME NEW i \in 0..n
        PROVE  g[i] = IF i = 0 THEN EmptyTrie ELSE InsertNode(g[i - 1], units[i].word, i)
    <3>1. CASE i = 0
      BY <2>1, <3>1
    <3>2. CASE i # 0
      <4>1. i \in 1..n /\ i - 1 \in 0..n
        BY <1>1, <3>2
      <4>2. g[i - 1] \in T /\ g[i] = step[<<g[i - 1], i>>]
        BY <2>1, <4>1
      <4>3. <<g[i - 1], i>> \in T \X (1..n)
        BY <4>1, <4>2
      <4>4. step[<<g[i - 1], i>>] = InsertNode(g[i - 1], units[i].word, i)
        BY <4>3
      <4> QED BY <3>2, <4>2, <4>4
    <3> QED BY <3>1, <3>2
  <2> HIDE DEF step
  <2>3. g = [i \in 0..n |-> g[i]]
    BY <2>1
  <2> QED BY <2>2, <2>3
<1>9. Is(after)
  <2> HIDE DEF Is
  <2> QED BY <1>8
<1>10. after = [i \in 0..n |->
                  IF i = 0 THEN EmptyTrie ELSE InsertNode(after[i - 1], units[i].word, i)]
  BY <1>9
<1> HIDE DEF after, step
<1> DEFINE Good == {m \in 0..n : after[m] \in T}
<1>11. 0 \in Good
  BY <1>1, <1>4, <1>10
<1>12. ASSUME NEW m \in 0..n, m < n, m \in Good PROVE m + 1 \in Good
  <2>1. m + 1 \in 1..n /\ m + 1 \in 0..n /\ (m + 1) - 1 = m /\ m + 1 # 0
    BY <1>1, <1>12
  <2>2. after[m + 1] = InsertNode(after[(m + 1) - 1], units[m + 1].word, m + 1)
    BY <1>10, <2>1
  <2>3. after[m] \in T
    BY <1>12
  <2>4. InsertNode(after[m], units[m + 1].word, m + 1) \in T
    BY <1>5, <2>1, <2>3
  <2> QED BY <2>1, <2>2, <2>4
<1> HIDE DEF Good
<1>13. n \in Good
  <2>1. \A m \in 0..n : m \in Good
    BY <1>1, <1>11, <1>12, UpTo
  <2> QED BY <1>1, <2>1
<1> QED BY <1>2, <1>3, <1>13 DEF Good

\* An entry as a file has it: its weight is one of W.
RawUnit(W) == [word : Seq(Rune), weight : W, tag : Seq(Byte)]

(* MakeNodeInfo fills an entry of the kind it is given.                    *)
LEMMA NodeInfoTyped ==
    ASSUME NEW W, NEW entry \in RawUnit(W), NEW word \in Seq(Byte), NEW weight \in W,
           NEW tag \in Seq(Byte)
    PROVE  MakeNodeInfo(entry, word, weight, tag) \in RawUnit(W)
<1> DEFINE runes == Utf8ToUnicode32(word).runes
<1>1. runes \in Seq(Rune)
  BY DecodeTyped DEF Decode
<1>2. MakeNodeInfo(entry, word, weight, tag) =
        IF Utf8ToUnicode32(word).ok THEN [word |-> runes, weight |-> weight, tag |-> tag]
        ELSE [entry EXCEPT !.word = runes]
  BY DEF MakeNodeInfo
<1> HIDE DEF runes
<1>3. [word |-> runes, weight |-> weight, tag |-> tag] \in RawUnit(W)
  BY <1>1 DEF RawUnit
<1>4. [entry EXCEPT !.word = runes] \in RawUnit(W)
  BY <1>1 DEF RawUnit
<1> QED BY <1>2, <1>3, <1>4

(* The entries of a dictionary file of three columns.                      *)
LEMMA LoadDictTyped ==
    ASSUME NEW lines \in Seq(Seq(Byte)), Loadable(lines)
    PROVE  /\ \E W : LoadDict(lines) \in Seq(RawUnit(W))
           /\ Len(LoadDict(lines)) = Len(lines) /\ Len(lines) >= 1
<1> DEFINE n == Len(lines)
           buf == [i \in DOMAIN lines |-> Split(lines[i], Blank)]
           W == {1} \cup {Atof(buf[i][2]) : i \in 1..n}
           T == RawUnit(W)
           base == [word |-> <<>>, weight |-> 1, tag |-> <<>>]
           Made(e, i) == MakeNodeInfo(e, buf[i][1], Atof(buf[i][2]), buf[i][3])
           step == [ei \in T \X (1..n) |-> Made(ei[1], ei[2])]
           Is(f) == f = [i \in 0..n |-> IF i = 0 THEN base ELSE Made(f[i - 1], i)]
           entry == CHOOSE f : Is(f)
<1>1. n \in Nat /\ DOMAIN lines = 1..n /\ n >= 1
  <2>1. lines # <<>>
    BY DEF Loadable
  <2> QED BY <2>1
<1>2. LoadDict(lines) = [i \in DOMAIN lines |-> entry[i]]
  BY DEF LoadDict
<1>3. ASSUME NEW i \in 1..n PROVE buf[i] \in Seq(Seq(Byte)) /\ Len(buf[i]) = 3
  <2>1. lines[i] \in Seq(Byte) /\ i \in DOMAIN lines
    BY <1>1
  <2>2. buf[i] = Split(lines[i], Blank)
    BY <2>1
  <2>3. Split(lines[i], Blank) \in Seq(Seq(Byte))
    BY <2>1, SplitTyped
  <2>4. Len(Split(lines[i], Blank)) = 3
    BY <2>1 DEF Loadable
  <2> QED BY <2>2, <2>3, <2>4
<1> HIDE DEF buf
<1>4. ASSUME NEW e \in T, NEW i \in 1..n PROVE Made(e, i) \in T
  <2>1. buf[i] \in Seq(Seq(Byte)) /\ Len(buf[i]) = 3
    BY <1>3
  <2>2. buf[i][1] \in Seq(Byte) /\ buf[i][3] \in Seq(Byte)
    <3>1. 1 \in 1..Len(buf[i]) /\ 3 \in 1..Len(buf[i])
      BY <2>1
    <3> QED BY <2>1, <3>1, ElementOfSeq
  <2>3. Atof(buf[i][2]) \in W
    OBVIOUS
  <2> HIDE DEF W
  <2> QED BY <2>2, <2>3, NodeInfoTyped
<1>5. base \in T
  <2>1. <<>> \in Seq(Rune) /\ <<>> \in Seq(Byte) /\ 1 \in W
    OBVIOUS
  <2> HIDE DEF W
  <2> QED BY <2>1 DEF RawUnit
<1> HIDE DEF T, base, Made
<1>6. step \in [T \X (1..n) -> T]
  <2>1. ASSUME NEW ei \in T \X (1..n) PROVE Made(ei[1], ei[2]) \in T
    <3>1. ei[1] \in T /\ ei[2] \in 1..n
      OBVIOUS
    <3> QED BY <1>4, <3>1
  <2> QED BY <2>1
<1>7. PICK g : Recurs(n, T, base, step, g)
  <2> HIDE DEF step
  <2> QED BY <1>1, <1>5, <1>6, RecursExists
<1>8. Is(g)
  <2>1. g \in [0..n -> T] /\ g[0] = base
        /\ \A i \in 1..n : g[i] = step[<<g[i - 1], i>>]
    BY <1>7 DEF Recurs
  <2>2. ASSUME NEW i \in 0..n PROVE g[i] = IF i = 0 THEN base ELSE Made(g[i - 1], i)
    <3>1. CASE i = 0
      BY <2>1, <3>1
    <3>2. CASE i # 0
      <4>1. i \in 1..n /\ i - 1 \in 0..n
        BY <1>1, <3>2
      <4>2. g[i - 1] \in T /\ g[i] = step[<<g[i - 1], i>>]
        BY <2>1, <4>1
      <4>3. <<g[i - 1], i>> \in T \X (1..n)
        BY <4>1, <4>2
      <4>4. step[<<g[i - 1], i>>] = Made(g[i - 1], i)
        BY <4>3
      <4> QED BY <3>2, <4>2, <4>4
    <3> QED BY <3>1, <3>2
  <2> HIDE DEF step
  <2>3. g = [i \in 0..n |-> g[i]]
    BY <2>1
  <2> QED BY <2>2, <2>3
<1>9. Is(entry)
  <2>1. \E f : Is(f)
    BY <1>8
  <2> HIDE DEF Is
  <2> QED BY <2>1
<1>10. entry = [i \in 0..n |-> IF i = 0 THEN base ELSE Made(entry[i - 1], i)]
  BY <1>9
<1>e. LoadDict(lines) = [i \in 1..n |-> entry[i]]
  BY <1>1, <1>2
<1> HIDE DEF entry, step
<1> DEFINE Good == {m \in 0..n : entry[m] \in T}
<1>11. 0 \in Good
  BY <1>1, <1>5, <1>10
<1>12. ASSUME NEW m \in 0..n, m < n, m \in Good PROVE m + 1 \in Good
  <2>1. m + 1 \in 1..n /\ m + 1 \in 0..n /\ (m + 1) - 1 = m /\ m + 1 # 0
    BY <1>1, <1>12
  <2>2. entry[m + 1] = Made(entry[(m + 1) - 1], m + 1)
    BY <1>10, <2>1
  <2>3. entry[m] \in T
    BY <1>12
  <2>4. Made(entry[m], m + 1) \in T
    BY <1>4, <2>1, <2>3
  <2> QED BY <2>1, <2>2, <2>4
<1> HIDE DEF Good
<1>13. \A m \in 0..n : m \in Good
  BY <1>1, <1>11, <1>12, UpTo
<1>14. \A i \in 1..n : entry[i] \in T
  <2>1. \A i \in 1..n : i \in 0..n
    BY <1>1
  <2> QED BY <1>13, <2>1 DEF Good
<1>15. LoadDict(lines) \in Seq(T) /\ Len(LoadDict(lines)) = n
  BY <1>1, <1>e, <1>14
<1> QED BY <1>1, <1>15 DEF T

(* The weights of the entries of a file are integers when the logarithms   *)
(* of their frequencies are known.                                         *)
LEMMA CalculateWeightTyped ==
    ASSUME NEW W, NEW units \in Seq(RawUnit(W)),
           \A unit \in ToSet(units) : unit.weight \in DOMAIN Log,
           Total(units) \in DOMAIN Log
    PROVE  CalculateWeight(units) \in Seq(Unit) /\ Len(CalculateWeight(units)) = Len(units)
<1> DEFINE n == Len(units)
           all == Total(units)
<1>1. n \in Nat /\ DOMAIN units = 1..n /\ \A i \in 1..n : units[i] \in RawUnit(W)
  OBVIOUS
<1>2. CalculateWeight(units) =
        [i \in 1..n |-> [units[i] EXCEPT !.weight = Log[units[i].weight] - Log[all]]]
  BY <1>1 DEF CalculateWeight
<1>3. Log[all] \in Int
  BY LogAssumption
<1>4. ASSUME NEW i \in 1..n
      PROVE  [units[i] EXCEPT !.weight = Log[units[i].weight] - Log[all]] \in Unit
  <2>1. units[i].weight \in DOMAIN Log
    BY <1>1 DEF ToSet
  <2>2. Log[units[i].weight] \in Int
    BY <2>1, LogAssumption
  <2>3. units[i] \in RawUnit(W)
    BY <1>1
  <2>4. Log[units[i].weight] - Log[all] \in Int
    BY <1>3, <2>2
  <2> HIDE DEF all
  <2>5. ASSUME NEW e \in RawUnit(W), NEW w \in Int PROVE [e EXCEPT !.weight = w] \in Unit
    BY DEF RawUnit, Unit
  <2> QED BY <2>3, <2>4, <2>5
<1> HIDE DEF all
<1> QED BY <1>1, <1>2, <1>4

(* The least weight that p of the entries do not exceed is an integer.     *)
LEMMA RankedInt ==
    ASSUME NEW units \in Seq(Unit), NEW p \in 1..Len(units)
    PROVE  Ranked(units, p) \in Int
<1> DEFINE n == Len(units)
           f == [i \in 1..n |-> units[i].weight]
           Below(w) == {i \in 1..n : f[i] <= w}
           T == {w \in {f[i] : i \in 1..n} : Cardinality(Below(w)) >= p}
<1>1. n \in Nat /\ DOMAIN units = 1..n /\ n >= 1 /\ p <= n /\ p \in Nat
  OBVIOUS
<1>2. f \in [1..n -> Int]
  <2>1. ASSUME NEW i \in 1..n PROVE units[i].weight \in Int
    <3>1. units[i] \in Unit
      BY <1>1
    <3> QED BY <3>1 DEF Unit
  <2> QED BY <2>1
<1>3. Ranked(units, p) = Min(T)
  <2>1. {units[i].weight : i \in DOMAIN units} = {f[i] : i \in 1..n}
    BY <1>1
  <2>2. \A w : {i \in DOMAIN units : units[i].weight <= w} = Below(w)
    BY <1>1
  <2> HIDE DEF f, Below
  <2> QED BY <2>1, <2>2 DEF Ranked
<1> HIDE DEF f, n
<1>4. PICK k : FirstLargest(n, f, k)
  BY <1>1, <1>2, FirstLargestExists
<1>5. f[k] \in T
  <2>1. k \in 1..n /\ \A j \in 1..n : f[j] <= f[k]
    BY <1>4 DEF FirstLargest
  <2>2. Below(f[k]) = 1..n
    BY <2>1
  <2>3. Cardinality(1..n) = n
    BY <1>1, FS_Interval
  <2> QED BY <1>1, <2>1, <2>2, <2>3
<1>6. T \subseteq {f[i] : i \in 1..n} /\ T # {}
  BY <1>5
<1> HIDE DEF T
<1>7. Min(T) \in Int
  BY <1>1, <1>2, <1>6, LeastInt
<1> QED BY <1>3, <1>7

(* The entries of a user dictionary.                                       *)
LEMMA LoadUserDictTyped ==
    ASSUME NEW lines \in Seq(Seq(Byte)), NEW weight \in Int
    PROVE  LoadUserDict(lines, weight) \in Seq(Unit)
<1> DEFINE n == Len(lines)
           empty == [word |-> <<>>, weight |-> weight, tag |-> <<>>]
           Entered(line) ==
               LET buf == Split(line, Blank)
               IN  MakeNodeInfo(empty, buf[1], weight,
                                IF Len(buf) = 2 THEN buf[2] ELSE UNKNOWN_TAG)
           ss == [i \in DOMAIN lines |->
                    IF lines[i] = <<>> THEN <<>> ELSE <<Entered(lines[i])>>]
<1>1. n \in Nat /\ DOMAIN lines = 1..n /\ \A i \in 1..n : lines[i] \in Seq(Byte)
  OBVIOUS
<1>2. LoadUserDict(lines, weight) = FlattenSeq(ss)
  BY DEF LoadUserDict
<1>3. empty \in RawUnit(Int)
  <2>1. <<>> \in Seq(Rune) /\ <<>> \in Seq(Byte)
    OBVIOUS
  <2> QED BY <2>1 DEF RawUnit
<1> HIDE DEF empty
<1>4. ASSUME NEW line \in Seq(Byte), line # <<>> PROVE Entered(line) \in Unit
  <2> DEFINE buf == Split(line, Blank)
  <2>1. buf \in Seq(Seq(Byte)) /\ Len(buf) >= 1
    BY <1>4, SplitTyped
  <2> HIDE DEF buf
  <2>2. Len(buf) \in Nat
    BY <2>1
  <2>3. 1 \in 1..Len(buf) /\ (Len(buf) = 2 => 2 \in 1..Len(buf))
    <3>1. 1 \in 1..Len(buf)
      BY <2>1, <2>2
    <3>2. ASSUME Len(buf) = 2 PROVE 2 \in 1..Len(buf)
      BY <3>2
    <3> QED BY <3>1, <3>2
  <2>4. buf[1] \in Seq(Byte) /\ (Len(buf) = 2 => buf[2] \in Seq(Byte))
    BY <2>1, <2>3, ElementOfSeq
  <2> DEFINE tag == IF Len(buf) = 2 THEN buf[2] ELSE UNKNOWN_TAG
  <2>5. tag \in Seq(Byte)
    <3>1. UNKNOWN_TAG \in Seq(Byte)
      BY DEF UNKNOWN_TAG
    <3> QED BY <2>4, <3>1
  <2> HIDE DEF tag
  <2>6. MakeNodeInfo(empty, buf[1], weight, tag) \in RawUnit(Int)
    BY <1>3, <2>4, <2>5, NodeInfoTyped
  <2> QED BY <2>6 DEF buf, tag, RawUnit, Unit
<1> HIDE DEF Entered
<1>5. ASSUME NEW i \in 1..n PROVE ss[i] \in Seq(Unit)
  <2>1. lines[i] \in Seq(Byte)
    BY <1>1
  <2>2. CASE lines[i] = <<>>
    BY <1>1, <2>2
  <2>3. CASE lines[i] # <<>>
    <3>1. Entered(lines[i]) \in Unit
      BY <1>4, <2>1, <2>3
    <3>2. ss[i] = <<Entered(lines[i])>>
      BY <1>1, <2>3
    <3> QED BY <3>1, <3>2
  <2> QED BY <2>2, <2>3
<1>6. ss \in Seq(Seq(Unit))
  <2>1. ss = [i \in 1..n |-> ss[i]]
    BY <1>1
  <2>2. n \in Nat
    BY <1>1
  <2> HIDE DEF ss, n
  <2>3. [i \in 1..n |-> ss[i]] \in Seq(Seq(Unit))
    BY <1>5, <2>2
  <2> QED BY <2>1, <2>3
<1> HIDE DEF ss
<1> QED BY <1>2, <1>6, FlattenTyped

(* The dictionary that the constructors make is in order.                  *)
LEMMA InitDictOK ==
    ASSUME NEW lines \in Seq(Seq(Byte)), NEW userLines \in Seq(Seq(Byte)),
           Loadable(lines), \A unit \in ToSet(LoadDict(lines)) : unit.weight \in DOMAIN Log,
           Total(LoadDict(lines)) \in DOMAIN Log
    PROVE  DictOK(InitDict(lines, userLines))
<1> DEFINE raw == LoadDict(lines)
           static == CalculateWeight(raw)
           weights == StaticWordWeights(static)
           user == LoadUserDict(userLines, weights.user)
           units == static \o user
           singles == {user[i].word[1] : i \in {j \in DOMAIN user : Len(user[j].word) = 1}}
<1>1. PICK W : raw \in Seq(RawUnit(W))
  BY LoadDictTyped
<1>2. Len(raw) >= 1 /\ Len(raw) \in Nat
  BY <1>1, LoadDictTyped
<1> HIDE DEF raw
<1>3. static \in Seq(Unit) /\ Len(static) = Len(raw)
  BY <1>1, CalculateWeightTyped DEF raw
<1> HIDE DEF static
<1>4. weights.min \in Int /\ weights.user \in Int
  <2>1. 1 \in 1..Len(static) /\ Len(static) \div 2 + 1 \in 1..Len(static)
    BY <1>2, <1>3
  <2>2. Ranked(static, 1) \in Int /\ Ranked(static, Len(static) \div 2 + 1) \in Int
    BY <1>3, <2>1, RankedInt
  <2> QED BY <2>2 DEF StaticWordWeights
<1> HIDE DEF weights
<1>5. user \in Seq(Unit)
  BY <1>4, LoadUserDictTyped
<1> HIDE DEF user
<1>6. units \in Seq(Unit)
  BY <1>3, <1>5, ConcatProperties
<1>7. TrieOK(CreateTrie(units), units)
  <2> HIDE DEF units
  <2> QED BY <1>6, CreateTrieOK
<1>8. InitDict(lines, userLines) =
        [units |-> units, trie |-> CreateTrie(units), minWeight |-> weights.min,
         userWeight |-> weights.user, singles |-> singles]
  BY DEF InitDict, raw, static, weights, user
<1> HIDE DEF units, singles
<1> QED BY <1>4, <1>6, <1>7, <1>8 DEF DictOK

(* It stays in order when a word is added at run time.                     *)
LEMMA InsertUserWordOK ==
    ASSUME NEW d, DictOK(d), NEW word \in Seq(Byte)
    PROVE  DictOK(InsertUserWord(d, word, UNKNOWN_TAG))
<1> DEFINE entry == MakeNodeInfo([word |-> <<>>, weight |-> 0, tag |-> <<>>], word,
                                 d.userWeight, UNKNOWN_TAG)
           units == Append(d.units, entry)
           n == Len(d.units)
           trie == InsertNode(d.trie, entry.word, n + 1)
           new == InsertUserWord(d, word, UNKNOWN_TAG)
<1>1. /\ d \in [units : Seq(Unit), trie : {d.trie}, minWeight : Int, userWeight : Int,
                singles : {d.singles}]
      /\ TrieOK(d.trie, d.units)
  BY DEF DictOK
<1>2. d.units \in Seq(Unit) /\ n \in Nat /\ d.userWeight \in Int /\ d.minWeight \in Int
  BY <1>1
<1>3. entry \in Unit
  <2>1. <<>> \in Seq(Rune) /\ <<>> \in Seq(Byte)
    OBVIOUS
  <2>2. [word |-> <<>>, weight |-> 0, tag |-> <<>>] \in RawUnit(Int)
    BY <2>1 DEF RawUnit
  <2>3. UNKNOWN_TAG \in Seq(Byte)
    BY <2>1 DEF UNKNOWN_TAG
  <2>4. entry \in RawUnit(Int)
    BY <1>2, <2>2, <2>3, NodeInfoTyped
  <2> HIDE DEF entry
  <2> QED BY <2>4 DEF RawUnit, Unit
<1>4. new = [d EXCEPT !.units = units, !.trie = trie]
  BY DEF InsertUserWord
<1> HIDE DEF entry
<1>5. /\ units \in Seq(Unit) /\ Len(units) = n + 1 /\ units[n + 1] = entry
      /\ \A i \in 1..n : units[i] = d.units[i]
  BY <1>2, <1>3, AppendProperties
<1>6. TrieOK(d.trie, units)
  <2>1. /\ d.trie \in [DOMAIN d.trie -> 0..n]
        /\ DOMAIN d.trie \subseteq Seq(Rune)
        /\ \A node \in DOMAIN d.trie : d.trie[node] # NULL => d.units[d.trie[node]].word = node
        /\ \A node \in DOMAIN d.trie : node # <<>> => Front(node) \in DOMAIN d.trie
    BY <1>1 DEF TrieOK
  <2> HIDE DEF units
  <2>2. \A node \in DOMAIN d.trie :
            d.trie[node] \in 0..n + 1
            /\ (d.trie[node] # NULL => units[d.trie[node]].word = node)
    <3>1. ASSUME NEW node \in DOMAIN d.trie
          PROVE  d.trie[node] \in 0..n + 1
                 /\ (d.trie[node] # NULL => units[d.trie[node]].word = node)
      <4>1. d.trie[node] \in 0..n
        BY <2>1
      <4>2. d.trie[node] # NULL => d.trie[node] \in 1..n
        BY <4>1, <1>2 DEF NULL
      <4>3. d.trie[node] # NULL => units[d.trie[node]].word = d.units[d.trie[node]].word
        BY <1>5, <4>2
      <4>4. d.trie[node] \in 0..n + 1
        BY <4>1, <1>2
      <4> QED BY <2>1, <4>3, <4>4
    <3> QED BY <3>1
  <2>3. d.trie \in [DOMAIN d.trie -> 0..Len(units)]
    BY <1>5, <2>1, <2>2
  <2> QED BY <2>1, <2>2, <2>3 DEF TrieOK
<1>7. TrieOK(trie, units)
  <2>1. Len(units) \in Nat /\ n + 1 \in 1..Len(units) /\ entry.word \in Seq(Rune)
        /\ units[n + 1].word = entry.word
    <3>1. entry.word \in Seq(Rune)
      BY <1>3 DEF Unit
    <3> HIDE DEF units, n
    <3> QED BY <1>2, <1>5, <3>1
  <2> HIDE DEF units, n
  <2> QED BY <1>6, <2>1, InsertKeeps
<1> HIDE DEF units, trie, new
<1>8. /\ new.units = units /\ new.trie = trie
      /\ new \in [units : Seq(Unit), trie : {new.trie}, minWeight : Int, userWeight : Int,
                  singles : {new.singles}]
  BY <1>1, <1>4, <1>5
<1> QED BY <1>7, <1>8 DEF DictOK, new

(* The entry that is found for a key has the key as its word.              *)
LEMMA FindUnitIs ==
    ASSUME NEW d, DictOK(d), NEW key
    PROVE  LET unit == FindUnit(d.trie, key)
           IN  /\ unit \in 0..Len(d.units)
               /\ unit # NULL => /\ key \in Seq(Rune) /\ key # <<>>
                                 /\ unit \in 1..Len(d.units)
                                 /\ d.units[unit].word = key /\ d.units[unit].weight \in Int
<1> DEFINE unit == FindUnit(d.trie, key)
<1>1. d.units \in Seq(Unit) /\ TrieOK(d.trie, d.units) /\ Len(d.units) \in Nat
  BY DEF DictOK
<1>2. CASE key # <<>> /\ key \in DOMAIN d.trie
  <2>1. unit = d.trie[key]
    BY <1>2 DEF FindUnit
  <2>2. unit \in 0..Len(d.units) /\ key \in Seq(Rune)
        /\ (unit # NULL => d.units[unit].word = key)
    BY <1>1, <1>2, <2>1 DEF TrieOK
  <2> HIDE DEF unit
  <2>3. ASSUME unit # NULL PROVE unit \in 1..Len(d.units) /\ d.units[unit].weight \in Int
    <3>1. unit \in 1..Len(d.units)
      BY <1>1, <2>2, <2>3 DEF NULL
    <3>2. d.units[unit] \in Unit
      BY <1>1, <3>1
    <3> QED BY <3>1, <3>2 DEF Unit
  <2> QED BY <1>2, <2>2, <2>3 DEF unit
<1>3. CASE ~(key # <<>> /\ key \in DOMAIN d.trie)
  <2>1. unit = NULL
    BY <1>3 DEF FindUnit
  <2> QED BY <1>1, <2>1 DEF NULL
<1> QED BY <1>2, <1>3

-----------------------------------------------------------------------------
(* The choices at a rune, and the heaviest path through them.              *)

Choice == [length : Nat, unit : Nat]

\* The choice of n runes from position i on, and whether it is one.
ChoiceAt(d, s, i, n) == [length |-> n, unit |-> FindUnit(d.trie, SubSeq(s, i, i + n - 1))]
IsChoice(d, s, maxWordLen, i, n) ==
    n = 1 \/ (n <= maxWordLen /\ FindUnit(d.trie, SubSeq(s, i, i + n - 1)) # NULL)

(* FindDag offers the rune alone and the entries that begin with it.       *)
LEMMA FindDagIs ==
    ASSUME NEW d, DictOK(d), NEW s \in Seq(Rune), NEW maxWordLen \in Nat,
           NEW i \in 1..Len(s)
    PROVE  LET dag == FindDag(d.trie, s, maxWordLen)[i]
           IN  /\ dag \in Seq(Choice) /\ dag # <<>>
               /\ \A k \in 1..Len(dag) : \E n \in 1..Len(s) - i + 1 :
                    IsChoice(d, s, maxWordLen, i, n) /\ dag[k] = ChoiceAt(d, s, i, n)
               /\ \A n \in 1..Len(s) - i + 1 : IsChoice(d, s, maxWordLen, i, n) =>
                    \E k \in 1..Len(dag) : dag[k] = ChoiceAt(d, s, i, n)
<1> DEFINE dag == FindDag(d.trie, s, maxWordLen)[i]
           L == Len(s) - i + 1
           ss == [n \in 1..L |-> IF IsChoice(d, s, maxWordLen, i, n)
                                 THEN <<ChoiceAt(d, s, i, n)>> ELSE <<>>]
<1>1. L \in Nat /\ L >= 1 /\ i \in DOMAIN s
  OBVIOUS
<1>2. dag = FlattenSeq(ss)
  BY <1>1 DEF FindDag, IsChoice, ChoiceAt
<1>3. ASSUME NEW n \in 1..L PROVE ChoiceAt(d, s, i, n) \in Choice
  <2> DEFINE unit == FindUnit(d.trie, SubSeq(s, i, i + n - 1))
  <2>1. Len(d.units) \in Nat
    BY DEF DictOK
  <2>2. unit \in 0..Len(d.units)
    BY FindUnitIs
  <2> HIDE DEF unit
  <2>3. unit \in Nat
    BY <2>1, <2>2
  <2>4. n \in Nat
    BY <1>1
  <2> QED BY <2>3, <2>4 DEF ChoiceAt, Choice, unit
<1> DEFINE Is(n) == IsChoice(d, s, maxWordLen, i, n)
           At1(n) == ChoiceAt(d, s, i, n)
<1>4. \A n \in 1..L : ss[n] = IF Is(n) THEN <<At1(n)>> ELSE <<>>
  OBVIOUS
<1>5. Is(1) /\ 1 \in 1..L
  BY <1>1 DEF IsChoice
<1> HIDE DEF dag, Is, At1, L
<1>6. ss \in Seq(Seq(Choice)) /\ Len(ss) = L
  <2>1. ASSUME NEW n \in 1..L PROVE ss[n] \in Seq(Choice)
    <3>1. At1(n) \in Choice
      BY <1>3 DEF At1
    <3>2. CASE Is(n)
      <4>1. ss[n] = <<At1(n)>>
        BY <1>4, <3>2
      <4> QED BY <3>1, <4>1
    <3>3. CASE ~Is(n)
      <4>1. ss[n] = <<>>
        BY <1>4, <3>3
      <4> QED BY <4>1
    <3> QED BY <3>2, <3>3
  <2>2. ss = [n \in 1..L |-> ss[n]]
    OBVIOUS
  <2> HIDE DEF ss
  <2>3. [n \in 1..L |-> ss[n]] \in Seq(Seq(Choice)) /\ Len([n \in 1..L |-> ss[n]]) = L
    BY <1>1, <2>1
  <2> QED BY <2>2, <2>3
<1> HIDE DEF ss
<1>7. dag \in Seq(Choice)
  BY <1>2, <1>6, FlattenTyped
<1>8. \A x : x \in Elems(dag) <=> \E n \in 1..L : x \in Elems(ss[n])
  BY <1>2, <1>6, FlattenElems
<1>9. ASSUME NEW n \in 1..L
      PROVE  \A x : x \in Elems(ss[n]) <=> Is(n) /\ x = At1(n)
  <2>1. CASE Is(n)
    <3>1. ss[n] = <<At1(n)>>
      BY <1>4, <2>1
    <3>2. Elems(<<At1(n)>>) = {At1(n)}
      BY DEF Elems
    <3> QED BY <2>1, <3>1, <3>2
  <2>2. CASE ~Is(n)
    <3>1. ss[n] = <<>>
      BY <1>4, <2>2
    <3>2. Elems(<<>>) = {}
      BY DEF Elems
    <3> QED BY <2>2, <3>1, <3>2
  <2> QED BY <2>1, <2>2
<1>10. \A x : x \in Elems(dag) <=> \E k \in 1..Len(dag) : dag[k] = x
  BY DEF Elems
<1>11. \A k \in 1..Len(dag) : \E n \in 1..L : Is(n) /\ dag[k] = At1(n)
  <2>1. ASSUME NEW k \in 1..Len(dag) PROVE \E n \in 1..L : Is(n) /\ dag[k] = At1(n)
    <3>1. dag[k] \in Elems(dag)
      BY <1>10
    <3>2. PICK n \in 1..L : dag[k] \in Elems(ss[n])
      BY <1>8, <3>1
    <3> QED BY <1>9, <3>2
  <2> QED BY <2>1
<1>12. \A n \in 1..L : Is(n) => \E k \in 1..Len(dag) : dag[k] = At1(n)
  <2>1. ASSUME NEW n \in 1..L, Is(n) PROVE \E k \in 1..Len(dag) : dag[k] = At1(n)
    <3>1. At1(n) \in Elems(ss[n])
      BY <1>9, <2>1
    <3>2. At1(n) \in Elems(dag)
      BY <1>8, <3>1
    <3> QED BY <1>10, <3>2
  <2> QED BY <2>1
<1>13. dag # <<>>
  <2>1. PICK k \in 1..Len(dag) : dag[k] = At1(1)
    BY <1>5, <1>12
  <2> QED BY <2>1
<1> QED BY <1>7, <1>11, <1>12, <1>13 DEF dag, L, Is, At1

Chosen == [unit : Nat, weight : Int]

\* What a choice weighs with the best that can follow it.
ValueOf(d, choice, behind) ==
    (IF choice.length <= Len(behind) THEN behind[choice.length].weight ELSE 0)
    + (IF choice.unit # NULL THEN d.units[choice.unit].weight ELSE d.minWeight)

\* The choices at a rune are entries of d.
ChoicesOf(d, nexts) ==
    /\ nexts \in Seq(Choice) /\ nexts # <<>>
    /\ \A k \in 1..Len(nexts) : nexts[k].length >= 1 /\ nexts[k].unit \in 0..Len(d.units)

(* The value of a choice is an integer.                                    *)
LEMMA ValueInt ==
    ASSUME NEW d, DictOK(d), NEW choice \in Choice, choice.length >= 1,
           choice.unit \in 0..Len(d.units), NEW behind \in Seq(Chosen)
    PROVE  ValueOf(d, choice, behind) \in Int
<1>1. d.units \in Seq(Unit) /\ d.minWeight \in Int /\ Len(d.units) \in Nat
  BY DEF DictOK
<1>2. choice.length \in Nat
  BY DEF Choice
<1>3. (IF choice.length <= Len(behind) THEN behind[choice.length].weight ELSE 0) \in Int
  <2>1. CASE choice.length <= Len(behind)
    <3>1. choice.length \in 1..Len(behind)
      BY <1>2, <2>1
    <3>2. behind[choice.length] \in Chosen
      BY <3>1
    <3>3. behind[choice.length].weight \in Int
      BY <3>2 DEF Chosen
    <3> QED BY <2>1, <3>3
  <2>2. CASE ~(choice.length <= Len(behind))
    BY <2>2
  <2> QED BY <2>1, <2>2
<1>4. (IF choice.unit # NULL THEN d.units[choice.unit].weight ELSE d.minWeight) \in Int
  <2>1. CASE choice.unit # NULL
    <3>1. choice.unit \in 1..Len(d.units)
      BY <1>1, <2>1 DEF NULL
    <3>2. d.units[choice.unit] \in Unit
      BY <1>1, <3>1
    <3>3. d.units[choice.unit].weight \in Int
      BY <3>2 DEF Unit
    <3> QED BY <2>1, <3>3
  <2>2. CASE choice.unit = NULL
    BY <1>1, <2>2
  <2> QED BY <2>1, <2>2
<1> QED BY <1>3, <1>4 DEF ValueOf

(* BestNext takes a choice of the greatest value.                          *)
LEMMA BestNextIs ==
    ASSUME NEW d, DictOK(d), NEW nexts, ChoicesOf(d, nexts), NEW behind \in Seq(Chosen)
    PROVE  /\ BestNext(d, nexts, behind) \in Chosen
           /\ \E k \in 1..Len(nexts) :
                BestNext(d, nexts, behind) =
                    [unit |-> nexts[k].unit, weight |-> ValueOf(d, nexts[k], behind)]
           /\ \A j \in 1..Len(nexts) :
                ValueOf(d, nexts[j], behind) <= BestNext(d, nexts, behind).weight
<1> DEFINE n == Len(nexts)
           f == [k \in 1..n |-> ValueOf(d, nexts[k], behind)]
           best == CHOOSE k \in 1..n : /\ \A j \in 1..n : f[j] <= f[k]
                                       /\ \A j \in 1..k - 1 : f[j] < f[k]
<1>1. n \in Nat /\ n >= 1 /\ DOMAIN nexts = 1..n
  <2>1. nexts \in Seq(Choice) /\ nexts # <<>>
    BY DEF ChoicesOf
  <2> QED BY <2>1
<1>2. ASSUME NEW k \in 1..n PROVE ValueOf(d, nexts[k], behind) \in Int
  <2>1. nexts[k] \in Choice /\ nexts[k].length >= 1 /\ nexts[k].unit \in 0..Len(d.units)
    BY DEF ChoicesOf
  <2> QED BY <2>1, ValueInt
<1>3. f \in [1..n -> Int]
  BY <1>2
<1>4. BestNext(d, nexts, behind) =
        [unit |-> nexts[best].unit, weight |-> ValueOf(d, nexts[best], behind)]
  <2> DEFINE V(k) == ValueOf(d, nexts[k], behind)
             best2 == CHOOSE k \in 1..n : /\ \A j \in 1..n : V(j) <= V(k)
                                          /\ \A j \in 1..k - 1 : V(j) < V(k)
  <2>1. BestNext(d, nexts, behind) = [unit |-> nexts[best2].unit, weight |-> V(best2)]
    BY <1>1 DEF BestNext, ValueOf
  <2>2. \A k \in 1..n : V(k) = f[k]
    OBVIOUS
  <2>3. \A k \in 1..n : \A j \in 1..k - 1 : j \in 1..n
    BY <1>1
  <2> HIDE DEF V, f
  <2>4. \A k \in 1..n : ((\A j \in 1..n : V(j) <= V(k)) /\ (\A j \in 1..k - 1 : V(j) < V(k)))
                    <=> ((\A j \in 1..n : f[j] <= f[k]) /\ (\A j \in 1..k - 1 : f[j] < f[k]))
    BY <2>2, <2>3
  <2>5. best2 = best
    BY <2>4
  <2> QED BY <2>1, <2>5 DEF V
<1> HIDE DEF f
<1>5. PICK k0 : FirstLargest(n, f, k0)
  BY <1>1, <1>3, FirstLargestExists
<1>6. best \in 1..n /\ \A j \in 1..n : f[j] <= f[best]
  BY <1>5 DEF FirstLargest
<1> HIDE DEF best
<1>7. nexts[best].unit \in Nat /\ ValueOf(d, nexts[best], behind) \in Int
  <2>1. nexts[best] \in Choice
    BY <1>6 DEF ChoicesOf
  <2> QED BY <1>2, <1>6, <2>1 DEF Choice
<1>8. BestNext(d, nexts, behind) \in Chosen
  BY <1>4, <1>7 DEF Chosen
<1>9. \A j \in 1..n : ValueOf(d, nexts[j], behind) <= BestNext(d, nexts, behind).weight
  BY <1>4, <1>6 DEF f
<1> QED BY <1>4, <1>6, <1>8, <1>9

\* The choices at every rune are entries of d.
DagsOf(d, dags) ==
    /\ Len(dags) \in Nat
    /\ \A i \in 1..Len(dags) : ChoicesOf(d, dags[i])

\* from is the recursion of CalcDP: the choices from each position on.
Chooses(d, dags, from) ==
    from = [i \in 1..Len(dags) + 1 |->
               IF i > Len(dags) THEN <<>>
               ELSE <<BestNext(d, dags[i], from[i + 1])>> \o from[i + 1]]

(* The recursion is defined.                                               *)
LEMMA ChoosesExists ==
    ASSUME NEW d, DictOK(d), NEW dags, DagsOf(d, dags)
    PROVE  \E f : Chooses(d, dags, f)
<1> DEFINE n == Len(dags)
           T == Seq(Chosen)
           Made(behind, i) == <<BestNext(d, dags[i], behind)>> \o behind
           step == [bk \in T \X (1..n) |-> Made(bk[1], n + 1 - bk[2])]
<1>1. n \in Nat /\ \A i \in 1..n : ChoicesOf(d, dags[i])
  BY DEF DagsOf
<1> HIDE DEF n
<1>2. ASSUME NEW behind \in T, NEW i \in 1..n PROVE Made(behind, i) \in T
  <2>1. BestNext(d, dags[i], behind) \in Chosen
    BY <1>1, BestNextIs
  <2>2. <<BestNext(d, dags[i], behind)>> \in Seq(Chosen)
    BY <2>1
  <2> QED BY <2>2, ConcatProperties
<1>3. <<>> \in T
  OBVIOUS
<1> HIDE DEF T, Made
<1>4. step \in [T \X (1..n) -> T]
  <2>1. ASSUME NEW bk \in T \X (1..n) PROVE Made(bk[1], n + 1 - bk[2]) \in T
    <3>1. bk[1] \in T /\ n + 1 - bk[2] \in 1..n
      BY <1>1
    <3> QED BY <1>2, <3>1
  <2> QED BY <2>1
<1>5. PICK g : Recurs(n, T, <<>>, step, g)
  <2> HIDE DEF step
  <2> QED BY <1>1, <1>3, <1>4, RecursExists
<1>6. g \in [0..n -> T] /\ g[0] = <<>> /\ \A i \in 1..n : g[i] = step[<<g[i - 1], i>>]
  BY <1>5 DEF Recurs
<1> DEFINE f == [i \in 1..n + 1 |-> g[n + 1 - i]]
<1>7. ASSUME NEW i \in 1..n + 1 PROVE f[i] = IF i > n THEN <<>> ELSE Made(f[i + 1], i)
  <2>1. CASE i > n
    <3>1. n + 1 - i = 0
      BY <1>1, <2>1
    <3> QED BY <1>6, <2>1, <3>1
  <2>2. CASE ~(i > n)
    <3> DEFINE k == n + 1 - i
    <3>1. k \in 1..n /\ k - 1 \in 0..n /\ k - 1 = n + 1 - (i + 1) /\ i + 1 \in 1..n + 1
          /\ n + 1 - k = i
      BY <1>1, <2>2
    <3>2. f[i] = g[k] /\ f[i + 1] = g[k - 1]
      BY <3>1
    <3> HIDE DEF k, f
    <3>3. g[k] = step[<<g[k - 1], k>>] /\ g[k - 1] \in T
      BY <1>6, <3>1
    <3>4. <<g[k - 1], k>> \in T \X (1..n)
      BY <3>1, <3>3
    <3>5. step[<<g[k - 1], k>>] = Made(g[k - 1], n + 1 - k)
      BY <3>4
    <3> HIDE DEF step
    <3> QED BY <2>2, <3>1, <3>2, <3>3, <3>5
  <2> QED BY <2>1, <2>2
<1>8. f = [i \in 1..n + 1 |-> f[i]]
  OBVIOUS
<1> HIDE DEF f
<1>9. f = [i \in 1..n + 1 |-> IF i > n THEN <<>> ELSE Made(f[i + 1], i)]
  BY <1>7, <1>8
<1>10. Chooses(d, dags, f)
  BY <1>9 DEF Chooses, Made, n
<1> QED BY <1>10

(* CalcDP chooses at every rune the best in view of the choices behind it. *)
LEMMA CalcDPIs ==
    ASSUME NEW d, DictOK(d), NEW dags, DagsOf(d, dags)
    PROVE  LET c == CalcDP(d, dags)
           IN  /\ c \in Seq(Chosen) /\ Len(c) = Len(dags)
               /\ \A i \in 1..Len(dags) :
                    c[i] = BestNext(d, dags[i], SubSeq(c, i + 1, Len(dags)))
<1> DEFINE n == Len(dags)
           from == CHOOSE f : Chooses(d, dags, f)
           c == CalcDP(d, dags)
<1>1. n \in Nat /\ \A i \in 1..n : ChoicesOf(d, dags[i])
  BY DEF DagsOf
<1>2. c = from[1]
  BY DEF CalcDP, Chooses
<1>3. Chooses(d, dags, from)
  BY ChoosesExists
<1>4. from = [i \in 1..n + 1 |-> IF i > n THEN <<>>
                                 ELSE <<BestNext(d, dags[i], from[i + 1])>> \o from[i + 1]]
  BY <1>3 DEF Chooses
<1> HIDE DEF n, from, c
<1> DEFINE Good == {m \in 0..n : from[n + 1 - m] \in Seq(Chosen) /\ Len(from[n + 1 - m]) = m}
<1>5. 0 \in Good
  <2>1. from[n + 1] = <<>>
    BY <1>1, <1>4
  <2>2. <<>> \in Seq(Chosen) /\ Len(<<>>) = 0
    OBVIOUS
  <2>3. n + 1 - 0 = n + 1 /\ 0 \in 0..n
    BY <1>1
  <2>4. from[n + 1 - 0] \in Seq(Chosen) /\ Len(from[n + 1 - 0]) = 0
    BY <2>1, <2>2, <2>3
  <2> QED BY <2>3, <2>4
<1>6. ASSUME NEW m \in 0..n, m < n, m \in Good PROVE m + 1 \in Good
  <2> DEFINE i == n + 1 - (m + 1)
  <2>1. i \in 1..n /\ i + 1 = n + 1 - m /\ i \in 1..n + 1 /\ ~(i > n) /\ m + 1 \in 0..n
    BY <1>1, <1>6
  <2> HIDE DEF i
  <2>2. from[i + 1] \in Seq(Chosen) /\ Len(from[i + 1]) = m
    BY <1>6, <2>1
  <2>3. from[i] = <<BestNext(d, dags[i], from[i + 1])>> \o from[i + 1]
    BY <1>4, <2>1
  <2>4. BestNext(d, dags[i], from[i + 1]) \in Chosen
    BY <1>1, <2>1, <2>2, BestNextIs
  <2> DEFINE b == BestNext(d, dags[i], from[i + 1])
  <2>5. <<b>> \in Seq(Chosen) /\ Len(<<b>>) = 1
    BY <2>4
  <2> HIDE DEF b
  <2>6. <<b>> \o from[i + 1] \in Seq(Chosen) /\ Len(<<b>> \o from[i + 1]) = 1 + m
    BY <2>2, <2>5, ConcatProperties
  <2>7. from[i] \in Seq(Chosen) /\ Len(from[i]) = m + 1
    BY <1>6, <2>3, <2>6 DEF b
  <2> QED BY <2>1, <2>7 DEF i
<1> HIDE DEF Good
<1>7. \A m \in 0..n : m \in Good
  BY <1>1, <1>5, <1>6, UpTo
<1>8. \A i \in 1..n + 1 : from[i] \in Seq(Chosen) /\ Len(from[i]) = n + 1 - i
  <2>1. ASSUME NEW i \in 1..n + 1
        PROVE  from[i] \in Seq(Chosen) /\ Len(from[i]) = n + 1 - i
    <3>1. n + 1 - i \in 0..n /\ n + 1 - (n + 1 - i) = i
      BY <1>1
    <3>2. n + 1 - i \in Good
      BY <1>7, <3>1
    <3> QED BY <3>1, <3>2 DEF Good
  <2> QED BY <2>1
<1>9. c \in Seq(Chosen) /\ Len(c) = n
  BY <1>1, <1>2, <1>8
<1> DEFINE Up == {m \in 0..n : from[m + 1] = SubSeq(c, m + 1, n)}
<1>10. 0 \in Up
  <2>1. SubSeq(c, 1, n) = c
    BY <1>9, SubSeqFull
  <2> QED BY <1>1, <1>2, <2>1
<1>11. ASSUME NEW m \in 0..n, m < n, from[m + 1] = SubSeq(c, m + 1, n)
       PROVE  /\ c[m + 1] = BestNext(d, dags[m + 1], from[m + 2])
              /\ from[m + 2] = SubSeq(c, m + 2, n)
  <2> DEFINE b == BestNext(d, dags[m + 1], from[m + 2])
  <2>1. m + 1 \in 1..n /\ m + 1 \in 1..n + 1 /\ ~(m + 1 > n) /\ (m + 1) + 1 = m + 2
        /\ m + 2 \in 1..n + 1 /\ n \in m + 1..n
    BY <1>1, <1>11
  <2>2. from[m + 1] = <<b>> \o from[m + 2]
    BY <1>4, <2>1
  <2>3. from[m + 2] \in Seq(Chosen)
    BY <1>8, <2>1
  <2>4. b \in Chosen
    BY <1>1, <2>1, <2>3, BestNextIs
  <2> HIDE DEF b
  <2>5. Head(SubSeq(c, m + 1, n)) = c[m + 1] /\ Tail(SubSeq(c, m + 1, n)) = SubSeq(c, m + 2, n)
    <3>1. m + 1 \in 1..Len(c) /\ n \in m + 1..Len(c)
      BY <1>9, <2>1
    <3> QED BY <1>9, <2>1, <3>1, HeadTailOfSubSeq
  <2>6. Head(<<b>> \o from[m + 2]) = b /\ Tail(<<b>> \o from[m + 2]) = from[m + 2]
    BY <2>3, <2>4
  <2> QED BY <1>11, <2>2, <2>5, <2>6 DEF b
<1>12. ASSUME NEW m \in 0..n, m < n, m \in Up PROVE m + 1 \in Up
  <2>1. m + 1 \in 0..n /\ (m + 1) + 1 = m + 2
    BY <1>1, <1>12
  <2>2. from[m + 2] = SubSeq(c, m + 2, n)
    BY <1>11, <1>12
  <2> QED BY <2>1, <2>2
<1> HIDE DEF Up
<1>13. \A m \in 0..n : m \in Up
  BY <1>1, <1>10, <1>12, UpTo
<1>14. ASSUME NEW i \in 1..n PROVE c[i] = BestNext(d, dags[i], SubSeq(c, i + 1, n))
  <2>1. i - 1 \in 0..n /\ i - 1 < n /\ (i - 1) + 1 = i /\ (i - 1) + 2 = i + 1
    BY <1>1
  <2>2. from[(i - 1) + 1] = SubSeq(c, (i - 1) + 1, n)
    BY <1>13, <2>1 DEF Up
  <2>3. /\ c[(i - 1) + 1] = BestNext(d, dags[(i - 1) + 1], from[(i - 1) + 2])
        /\ from[(i - 1) + 2] = SubSeq(c, (i - 1) + 2, n)
    BY <1>11, <2>1, <2>2
  <2> QED BY <2>1, <2>3
<1> QED BY <1>9, <1>14 DEF c, n

-----------------------------------------------------------------------------
(* Parts of a text.                                                        *)

(* The part of a sequence from i to j.                                     *)
LEMMA SubIs ==
    ASSUME NEW A, NEW s \in Seq(A), NEW i \in 1..Len(s) + 1, NEW j \in i - 1..Len(s)
    PROVE  /\ SubSeq(s, i, j) \in Seq(A) /\ Len(SubSeq(s, i, j)) = j - i + 1
           /\ \A k \in 1..j - i + 1 : SubSeq(s, i, j)[k] = s[i + k - 1]
<1> DEFINE n == Len(s)
<1>1. n \in Nat /\ \A k \in 1..n : s[k] \in A
  OBVIOUS
<1>2. i \in 1..n + 1 /\ j \in i - 1..n
  OBVIOUS
<1> HIDE DEF n
<1>3. i \in Int /\ j \in Int /\ (\A k \in i..j : k \in 1..n)
      /\ (i <= j \/ j - i + 1 = 0)
  BY <1>1, <1>2
<1>4. \A k \in i..j : s[k] \in A
  BY <1>1, <1>3
<1>5. /\ SubSeq(s, i, j) \in Seq(A)
      /\ Len(SubSeq(s, i, j)) = IF i <= j THEN j - i + 1 ELSE 0
      /\ \A k \in 1..j - i + 1 : SubSeq(s, i, j)[k] = s[i + k - 1]
  BY <1>3, <1>4, SubSeqProperties
<1> QED BY <1>3, <1>5

(* A part of one element.                                                  *)
LEMMA SubOne ==
    ASSUME NEW A, NEW s \in Seq(A), NEW i \in 1..Len(s)
    PROVE  SubSeq(s, i, i) = <<s[i]>>
<1>1. Len(s) \in Nat /\ i \in 1..Len(s) + 1 /\ i \in i - 1..Len(s) /\ i - i + 1 = 1
      /\ i + 1 - 1 = i /\ s[i] \in A
  OBVIOUS
<1>2. /\ SubSeq(s, i, i) \in Seq(A) /\ Len(SubSeq(s, i, i)) = i - i + 1
      /\ \A k \in 1..i - i + 1 : SubSeq(s, i, i)[k] = s[i + k - 1]
  BY <1>1, SubIs
<1> DEFINE p == SubSeq(s, i, i)
           q == <<s[i]>>
<1>3. p \in Seq(A) /\ Len(p) = 1 /\ p[1] = s[i]
  BY <1>1, <1>2
<1>4. q \in Seq(A) /\ Len(q) = 1 /\ q[1] = s[i]
  BY <1>1
<1> HIDE DEF p, q
<1>5. \A k \in 1..1 : p[k] = q[k]
  BY <1>3, <1>4
<1>6. p = q
  BY <1>3, <1>4, <1>5, SeqEqual
<1> QED BY <1>6 DEF p, q

\* rest gives for each position of a loop what remains to be made from it on.
Remains(made, next, rest, A) ==
    /\ \A i \in 1..Len(next) + 1 : rest[i] \in Seq(A)
    /\ rest[Len(next) + 1] = <<>>
    /\ \A i \in 1..Len(next) : rest[i] = FlattenSeq(made[i]) \o rest[next[i]]

(* What a loop makes is in a row what remained at its first position.      *)
LEMMA WalkFlattens ==
    ASSUME NEW A, NEW made, NEW next, NEW rest, NEW W, W \subseteq Seq(A),
           Onward(next), Remains(made, next, rest, A),
           \A i \in 1..Len(next) : made[i] \in Seq(W)
    PROVE  Walk(made, next) \in Seq(W) /\ FlattenSeq(Walk(made, next)) = rest[1]
<1> DEFINE n == Len(next)
           G == [i \in 1..n + 1 |-> {w \in Seq(W) : FlattenSeq(w) = rest[i]}]
<1>1. n \in Nat /\ \A i \in 1..n : next[i] \in i + 1..n + 1
  BY DEF Onward
<1>2. /\ \A i \in 1..n + 1 : rest[i] \in Seq(A)
      /\ rest[n + 1] = <<>>
      /\ \A i \in 1..n : rest[i] = FlattenSeq(made[i]) \o rest[next[i]]
  BY DEF Remains
<1>3. <<>> \in G[n + 1]
  <2>1. <<>> \in Seq(W) /\ <<>> \in Seq(A)
    OBVIOUS
  <2>2. FlattenSeq(<<>>) = <<>>
    BY <2>1, FlattenOne
  <2>3. n + 1 \in 1..n + 1
    BY <1>1
  <2> QED BY <1>2, <2>1, <2>2, <2>3
<1>4. ASSUME NEW i \in 1..n, NEW w \in G[next[i]] PROVE made[i] \o w \in G[i]
  <2>1. next[i] \in 1..n + 1 /\ i \in 1..n + 1
    BY <1>1
  <2>2. w \in Seq(W) /\ FlattenSeq(w) = rest[next[i]]
    BY <2>1
  <2>3. made[i] \in Seq(W)
    OBVIOUS
  <2>4. made[i] \o w \in Seq(W)
    BY <2>2, <2>3, ConcatProperties
  <2>5. made[i] \in Seq(Seq(A)) /\ w \in Seq(Seq(A))
    BY <2>2, <2>3, SeqMonotonic
  <2>6. FlattenSeq(made[i] \o w) = FlattenSeq(made[i]) \o FlattenSeq(w)
    BY <2>5, FlattenConcat
  <2>7. FlattenSeq(made[i] \o w) = rest[i]
    BY <1>2, <2>2, <2>6
  <2> QED BY <2>1, <2>4, <2>7
<1>5. G[1] = {w \in Seq(W) : FlattenSeq(w) = rest[1]}
  BY <1>1
<1> HIDE DEF G
<1>6. Walk(made, next) \in G[1]
  BY <1>3, <1>4, WalkInduction
<1> QED BY <1>5, <1>6

\* What a loop makes at each position, words in W, is in a row the part of s
\* up to the next position.
TakesApart(A, s, made, next, W) ==
    /\ s \in Seq(A) /\ W \subseteq Seq(A)
    /\ Onward(next) /\ Len(next) = Len(s)
    /\ \A i \in 1..Len(s) : /\ made[i] \in Seq(W)
                            /\ FlattenSeq(made[i]) = SubSeq(s, i, next[i] - 1)

(* A loop that takes a text apart, position by position, loses nothing.    *)
LEMMA WalkCovers ==
    ASSUME NEW A, NEW s, NEW made, NEW next, NEW W, TakesApart(A, s, made, next, W)
    PROVE  Walk(made, next) \in Seq(W) /\ FlattenSeq(Walk(made, next)) = s
<1> DEFINE n == Len(s)
           rest == [i \in 1..n + 1 |-> SubSeq(s, i, n)]
<1>a. /\ s \in Seq(A) /\ W \subseteq Seq(A)
      /\ Onward(next) /\ Len(next) = Len(s)
      /\ \A i \in 1..Len(s) : /\ made[i] \in Seq(W)
                              /\ FlattenSeq(made[i]) = SubSeq(s, i, next[i] - 1)
  BY DEF TakesApart
<1>1. n \in Nat /\ Len(next) = n /\ \A i \in 1..n : next[i] \in i + 1..n + 1
  BY <1>a DEF Onward
<1>2. \A i \in 1..n + 1 : rest[i] \in Seq(A) /\ rest[i] = SubSeq(s, i, n)
  <2>1. ASSUME NEW i \in 1..n + 1 PROVE SubSeq(s, i, n) \in Seq(A)
    <3>1. n \in i - 1..n
      BY <1>1
    <3> QED BY <1>a, <3>1, SubIs
  <2> QED BY <2>1
<1>3. rest[n + 1] = <<>>
  <2>1. n + 1 \in Int /\ n \in Int /\ n < n + 1
    BY <1>1
  <2>2. SubSeq(s, n + 1, n) = <<>>
    BY <2>1, SubSeqEmpty
  <2> QED BY <1>1, <2>2
<1>4. ASSUME NEW i \in 1..n PROVE rest[i] = FlattenSeq(made[i]) \o rest[next[i]]
  <2>1. next[i] \in 1..n + 1 /\ i \in 1..n + 1 /\ next[i] - 1 \in i - 1..n
        /\ n \in next[i] - 1..n /\ (next[i] - 1) + 1 = next[i]
    BY <1>1
  <2>2. SubSeq(s, i, next[i] - 1) \o SubSeq(s, (next[i] - 1) + 1, n) = SubSeq(s, i, n)
    BY <1>a, <2>1, ConcatAdjacentSubSeq
  <2>3. rest[i] = SubSeq(s, i, n) /\ rest[next[i]] = SubSeq(s, next[i], n)
    BY <2>1
  <2> HIDE DEF rest
  <2> QED BY <1>a, <2>1, <2>2, <2>3
<1> HIDE DEF rest
<1>5. Remains(made, next, rest, A)
  BY <1>1, <1>2, <1>3, <1>4 DEF Remains
<1>6. Walk(made, next) \in Seq(W) /\ FlattenSeq(Walk(made, next)) = rest[1]
  BY <1>1, <1>5, <1>a, WalkFlattens
<1>7. rest[1] = s
  <2>1. rest[1] = SubSeq(s, 1, n)
    BY <1>1, <1>2
  <2> QED BY <1>a, <2>1, SubSeqFull
<1> QED BY <1>6, <1>7

-----------------------------------------------------------------------------
(* MPSegment.                                                              *)

NonEmpty == Seq(Rune) \ {<<>>}

\* What MPSegment makes: single runes, and entries within the limit.
MPWords(d, maxWordLen) ==
    {x \in NonEmpty : Len(x) > 1 => FindUnit(d.trie, x) # NULL /\ Len(x) <= maxWordLen}

\* What the walk takes at position i, by what was chosen there.
WordAt(d, s, chosen, i) ==
    IF chosen[i].unit # NULL THEN d.units[chosen[i].unit].word ELSE <<s[i]>>

\* The word that is a choice of n runes.
IsWordOf(d, s, maxWordLen, i, n, word) ==
    /\ n \in 1..Len(s) - i + 1
    /\ IsChoice(d, s, maxWordLen, i, n)
    /\ word = SubSeq(s, i, i + n - 1)
    /\ word \in Seq(Rune) /\ Len(word) = n

(* The dags of a text offer choices of the dictionary.                     *)
LEMMA FindDagOf ==
    ASSUME NEW d, DictOK(d), NEW s \in Seq(Rune), NEW maxWordLen \in Nat
    PROVE  /\ DagsOf(d, FindDag(d.trie, s, maxWordLen))
           /\ Len(FindDag(d.trie, s, maxWordLen)) = Len(s)
<1> DEFINE dags == FindDag(d.trie, s, maxWordLen)
           n == Len(s)
<1>1. n \in Nat /\ DOMAIN s = 1..n
  OBVIOUS
<1>2. Len(dags) = n
  BY <1>1 DEF FindDag
<1>3. ASSUME NEW i \in 1..n PROVE ChoicesOf(d, dags[i])
  <2>1. /\ dags[i] \in Seq(Choice) /\ dags[i] # <<>>
        /\ \A k \in 1..Len(dags[i]) : \E m \in 1..n - i + 1 :
                dags[i][k] = ChoiceAt(d, s, i, m)
    BY FindDagIs
  <2> HIDE DEF dags, n
  <2>2. ASSUME NEW k \in 1..Len(dags[i])
        PROVE  dags[i][k].length >= 1 /\ dags[i][k].unit \in 0..Len(d.units)
    <3>1. PICK m \in 1..n - i + 1 : dags[i][k] = ChoiceAt(d, s, i, m)
      BY <2>1
    <3>2. m >= 1
      BY <1>1
    <3>3. FindUnit(d.trie, SubSeq(s, i, i + m - 1)) \in 0..Len(d.units)
      BY FindUnitIs
    <3> QED BY <3>1, <3>2, <3>3 DEF ChoiceAt
  <2> QED BY <2>1, <2>2 DEF ChoicesOf
<1> QED BY <1>1, <1>2, <1>3 DEF DagsOf

(* The walk takes at each position the word of one of its choices, whose   *)
(* unit is the one chosen.                                                 *)
LEMMA WordAtIs ==
    ASSUME NEW d, DictOK(d), NEW s \in Seq(Rune), NEW maxWordLen \in Nat,
           NEW i \in 1..Len(s)
    PROVE  LET chosen == CalcDP(d, FindDag(d.trie, s, maxWordLen))
               word == WordAt(d, s, chosen, i)
           IN  /\ \E n \in Nat : IsWordOf(d, s, maxWordLen, i, n, word)
               /\ chosen[i].unit = FindUnit(d.trie, word)
               /\ chosen[i].weight = ValueOf(d, ChoiceAt(d, s, i, Len(word)),
                                             SubSeq(chosen, i + 1, Len(s)))
               /\ \A n \in 1..Len(s) - i + 1 : IsChoice(d, s, maxWordLen, i, n) =>
                    ValueOf(d, ChoiceAt(d, s, i, n), SubSeq(chosen, i + 1, Len(s)))
                        <= chosen[i].weight
               /\ chosen \in Seq(Chosen) /\ Len(chosen) = Len(s)
<1> DEFINE dags == FindDag(d.trie, s, maxWordLen)
           chosen == CalcDP(d, dags)
           word == WordAt(d, s, chosen, i)
           N == Len(s)
           behind == SubSeq(chosen, i + 1, N)
<1>0. N \in Nat /\ i \in 1..N
  OBVIOUS
<1>1. DagsOf(d, dags) /\ Len(dags) = N
  BY FindDagOf
<1>2. /\ dags[i] # <<>>
      /\ \A k \in 1..Len(dags[i]) : \E m \in 1..N - i + 1 :
            IsChoice(d, s, maxWordLen, i, m) /\ dags[i][k] = ChoiceAt(d, s, i, m)
      /\ \A m \in 1..N - i + 1 : IsChoice(d, s, maxWordLen, i, m) =>
            \E k \in 1..Len(dags[i]) : dags[i][k] = ChoiceAt(d, s, i, m)
  BY FindDagIs
<1> HIDE DEF dags
<1>3. chosen \in Seq(Chosen) /\ Len(chosen) = N /\ chosen[i] = BestNext(d, dags[i], behind)
  BY <1>1, CalcDPIs
<1> HIDE DEF chosen, N
<1>4. behind \in Seq(Chosen)
  <2>1. i + 1 \in 1..Len(chosen) + 1 /\ N \in (i + 1) - 1..Len(chosen)
    BY <1>0, <1>3
  <2> QED BY <1>3, <2>1, SubIs
<1>5. ChoicesOf(d, dags[i])
  BY <1>0, <1>1 DEF DagsOf
<1> HIDE DEF behind
<1>6. /\ \E k \in 1..Len(dags[i]) :
            chosen[i] = [unit |-> dags[i][k].unit, weight |-> ValueOf(d, dags[i][k], behind)]
      /\ \A j \in 1..Len(dags[i]) : ValueOf(d, dags[i][j], behind) <= chosen[i].weight
  BY <1>3, <1>4, <1>5, BestNextIs
<1>7. PICK k \in 1..Len(dags[i]) :
        chosen[i] = [unit |-> dags[i][k].unit, weight |-> ValueOf(d, dags[i][k], behind)]
  BY <1>6
<1>8. PICK m \in 1..N - i + 1 :
        IsChoice(d, s, maxWordLen, i, m) /\ dags[i][k] = ChoiceAt(d, s, i, m)
  BY <1>2
<1> DEFINE key == SubSeq(s, i, i + m - 1)
           unit == FindUnit(d.trie, key)
<1>9. chosen[i].unit = unit /\ chosen[i].weight = ValueOf(d, ChoiceAt(d, s, i, m), behind)
  BY <1>7, <1>8 DEF ChoiceAt
<1>10. key \in Seq(Rune) /\ Len(key) = m /\ m \in Nat
  <2>1. i \in 1..N + 1 /\ i + m - 1 \in i - 1..N /\ (i + m - 1) - i + 1 = m /\ m \in Nat
    BY <1>0
  <2> QED BY <2>1, SubIs DEF N
<1>11. word = key
  <2>1. word = IF unit # NULL THEN d.units[unit].word ELSE <<s[i]>>
    BY <1>9 DEF WordAt
  <2> HIDE DEF word, key
  <2>2. CASE unit # NULL
    <3>1. d.units[unit].word = key
      BY <2>2, FindUnitIs
    <3> QED BY <2>1, <2>2, <3>1
  <2>3. CASE unit = NULL
    <3>1. m = 1
      BY <1>8, <2>3 DEF IsChoice, key
    <3>2. i + m - 1 = i
      BY <1>0, <3>1
    <3>3. SubSeq(s, i, i) = <<s[i]>>
      BY SubOne
    <3> QED BY <2>1, <2>3, <3>2, <3>3 DEF key
  <2> QED BY <2>2, <2>3
<1>12. IsWordOf(d, s, maxWordLen, i, m, word)
  BY <1>8, <1>10, <1>11 DEF IsWordOf, N
<1>13. ASSUME NEW n \in 1..N - i + 1, IsChoice(d, s, maxWordLen, i, n)
       PROVE  ValueOf(d, ChoiceAt(d, s, i, n), behind) <= chosen[i].weight
  <2>1. PICK j \in 1..Len(dags[i]) : dags[i][j] = ChoiceAt(d, s, i, n)
    BY <1>2, <1>13
  <2> QED BY <1>6, <2>1
<1> HIDE DEF key, word
<1>14. chosen[i].unit = FindUnit(d.trie, word) /\ Len(word) = m
  BY <1>9, <1>10, <1>11
<1> QED BY <1>3, <1>9, <1>10, <1>12, <1>13, <1>14 DEF word, behind, chosen, dags, N

(* MPSegment takes a text apart into words of its kind.                    *)
LEMMA MPCutIs ==
    ASSUME NEW d, DictOK(d), NEW s \in Seq(Rune), NEW maxWordLen \in Nat
    PROVE  /\ MPCut(d, s, maxWordLen) \in Seq(MPWords(d, maxWordLen))
           /\ FlattenSeq(MPCut(d, s, maxWordLen)) = s
<1> DEFINE n == Len(s)
           W == MPWords(d, maxWordLen)
           chosen == CalcDP(d, FindDag(d.trie, s, maxWordLen))
           word == [i \in DOMAIN s |-> WordAt(d, s, chosen, i)]
           made == [i \in DOMAIN s |-> <<word[i]>>]
           next == [i \in DOMAIN s |-> i + Len(word[i])]
<1>1. n \in Nat /\ DOMAIN s = 1..n
  OBVIOUS
<1>2. MPCut(d, s, maxWordLen) = Walk(made, next)
  BY DEF MPCut, CutByDag, WordAt
<1>3. ASSUME NEW i \in 1..n PROVE \E l \in Nat : IsWordOf(d, s, maxWordLen, i, l, word[i])
  BY <1>1, WordAtIs
<1> HIDE DEF word
<1>4. \A i \in 1..n : made[i] = <<word[i]>> /\ next[i] = i + Len(word[i])
  BY <1>1
<1>5. Len(next) = n
  BY <1>1
<1> HIDE DEF made, next
<1>6. ASSUME NEW i \in 1..n
      PROVE  /\ next[i] \in i + 1..n + 1
             /\ word[i] \in W /\ word[i] \in Seq(Rune)
             /\ word[i] = SubSeq(s, i, next[i] - 1)
  <2>1. PICK l \in Nat : IsWordOf(d, s, maxWordLen, i, l, word[i])
    BY <1>3
  <2>2. /\ l \in 1..n - i + 1
        /\ l = 1 \/ (l <= maxWordLen /\ FindUnit(d.trie, SubSeq(s, i, i + l - 1)) # NULL)
        /\ word[i] = SubSeq(s, i, i + l - 1)
        /\ word[i] \in Seq(Rune) /\ Len(word[i]) = l
    BY <2>1 DEF IsWordOf, IsChoice
  <2>6. n \in Nat /\ i \in 1..n /\ l \in 1..n - i + 1
    BY <1>1, <2>2
  <2>7. next[i] = i + Len(word[i])
    BY <1>4
  <2> HIDE DEF n, W
  <2>3. next[i] = i + l /\ next[i] - 1 = i + l - 1 /\ next[i] \in i + 1..n + 1
    BY <2>2, <2>6, <2>7
  <2>4. word[i] # <<>>
    <3>1. Len(word[i]) # 0 /\ Len(<<>>) = 0
      BY <2>2, <2>6
    <3> QED BY <3>1
  <2>8. Len(word[i]) > 1 => FindUnit(d.trie, word[i]) # NULL /\ Len(word[i]) <= maxWordLen
    BY <2>2
  <2>5. word[i] \in W
    BY <2>2, <2>4, <2>8 DEF W, MPWords, NonEmpty
  <2> QED BY <2>2, <2>3, <2>5
<1>7. Onward(next)
  BY <1>1, <1>5, <1>6 DEF Onward
<1>8. W \subseteq Seq(Rune)
  BY DEF MPWords, NonEmpty
<1> HIDE DEF W
<1>9. ASSUME NEW i \in 1..n
      PROVE  made[i] \in Seq(W) /\ FlattenSeq(made[i]) = SubSeq(s, i, next[i] - 1)
  <2>1. word[i] \in W /\ word[i] \in Seq(Rune) /\ word[i] = SubSeq(s, i, next[i] - 1)
    BY <1>6
  <2>2. FlattenSeq(<<word[i]>>) = word[i]
    BY <2>1, FlattenOne
  <2>3. made[i] = <<word[i]>>
    BY <1>4
  <2>4. <<word[i]>> \in Seq(W)
    BY <2>1
  <2>5. FlattenSeq(<<word[i]>>) = SubSeq(s, i, next[i] - 1)
    BY <2>1, <2>2
  <2> QED BY <2>3, <2>4, <2>5
<1>10. Walk(made, next) \in Seq(W) /\ FlattenSeq(Walk(made, next)) = s
  <2>1. TakesApart(Rune, s, made, next, W)
    BY <1>5, <1>7, <1>8, <1>9 DEF TakesApart
  <2> QED BY <2>1, WalkCovers
<1> QED BY <1>2, <1>10 DEF W

-----------------------------------------------------------------------------
(* HMMSegment.                                                             *)

\* Where the piece ends that begins at position i.
PieceEnd(s, ends, i) == Min({e \in ends \cup {Len(s) + 1} : e >= i})

\* made and next are the loop by which Pieces takes s apart: from each
\* position to the end of its piece.
PieceLoop(A, s, ends, made, next) ==
    /\ Pieces(s, ends) = Walk(made, next)
    /\ Onward(next) /\ Len(next) = Len(s)
    /\ \A i \in 1..Len(s) :
        /\ PieceEnd(s, ends, i) \in i..Len(s) /\ next[i] = PieceEnd(s, ends, i) + 1
        /\ made[i] = <<SubSeq(s, i, PieceEnd(s, ends, i))>>
        /\ SubSeq(s, i, PieceEnd(s, ends, i)) \in Seq(A) \ {<<>>}

(* Pieces is such a loop when the last position is an end, too.            *)
LEMMA PiecesLoop ==
    ASSUME NEW A, NEW s \in Seq(A), NEW ends, ends \subseteq 1..Len(s),
           s # <<>> => Len(s) \in ends
    PROVE  \E made, next : PieceLoop(A, s, ends, made, next)
<1> DEFINE n == Len(s)
           W == Seq(A) \ {<<>>}
           Behind(i) == {e \in ends \cup {n + 1} : e >= i}
           end == [i \in DOMAIN s |-> Min(Behind(i))]
           made == [i \in DOMAIN s |-> IF end[i] > n THEN <<>> ELSE <<SubSeq(s, i, end[i])>>]
           next == [i \in DOMAIN s |-> IF end[i] > n THEN end[i] ELSE end[i] + 1]
<1>1. n \in Nat /\ DOMAIN s = 1..n /\ ends \subseteq 1..n
  OBVIOUS
<1>2. Pieces(s, ends) = Walk(made, next)
  BY DEF Pieces
<1>e. \A i \in 1..n : end[i] = PieceEnd(s, ends, i)
  BY <1>1 DEF PieceEnd
<1>3. ASSUME NEW i \in 1..n PROVE end[i] \in i..n
  <2>1. n \in ends
    <3>1. s # <<>>
      BY <1>1
    <3> QED BY <3>1
  <2>2. end[i] = Min(Behind(i))
    BY <1>1
  <2> HIDE DEF n, end
  <2>3. Behind(i) \subseteq Nat /\ n \in Behind(i)
    <3>1. ends \cup {n + 1} \subseteq Nat /\ n >= i
      BY <1>1
    <3> QED BY <2>1, <3>1
  <2>4. Min(Behind(i)) \in Behind(i) /\ Min(Behind(i)) <= n
    <3> HIDE DEF Behind
    <3> QED BY <2>3, MinFacts
  <2>5. Min(Behind(i)) \in Nat /\ Min(Behind(i)) >= i
    BY <2>3, <2>4
  <2> HIDE DEF Behind
  <2> QED BY <1>1, <2>2, <2>4, <2>5
<1> HIDE DEF end
<1>4. ASSUME NEW i \in 1..n
      PROVE  made[i] = <<SubSeq(s, i, end[i])>> /\ next[i] = end[i] + 1
  <2>1. ~(end[i] > n)
    BY <1>1, <1>3
  <2> QED BY <1>1, <2>1
<1>5. Len(next) = n
  BY <1>1
<1> HIDE DEF made, next
<1>6. ASSUME NEW i \in 1..n PROVE SubSeq(s, i, end[i]) \in W
  <2>0. end[i] \in i..n /\ n \in Nat /\ i \in 1..n
    BY <1>1, <1>3
  <2>1. i \in 1..Len(s) + 1 /\ end[i] \in i - 1..Len(s)
    BY <2>0
  <2>2. SubSeq(s, i, end[i]) \in Seq(A) /\ Len(SubSeq(s, i, end[i])) = end[i] - i + 1
    BY <2>1, SubIs
  <2> DEFINE p == SubSeq(s, i, end[i])
  <2> HIDE DEF n, W, p
  <2>3. Len(p) # 0
    BY <2>0, <2>2 DEF p
  <2>4. p # <<>>
    <3>1. Len(<<>>) = 0
      OBVIOUS
    <3> QED BY <2>3, <3>1
  <2> QED BY <2>2, <2>4 DEF W, p
<1>7. Onward(next)
  <2>1. ASSUME NEW i \in 1..n PROVE next[i] \in i + 1..n + 1
    <3>1. end[i] \in i..n /\ next[i] = end[i] + 1 /\ n \in Nat
      BY <1>1, <1>3, <1>4
    <3> HIDE DEF n
    <3> QED BY <3>1
  <2> QED BY <1>1, <1>5, <2>1 DEF Onward
<1> HIDE DEF W
<1>8. PieceLoop(A, s, ends, made, next)
  <2>1. ASSUME NEW i \in 1..n
        PROVE  /\ PieceEnd(s, ends, i) \in i..n /\ next[i] = PieceEnd(s, ends, i) + 1
               /\ made[i] = <<SubSeq(s, i, PieceEnd(s, ends, i))>>
               /\ SubSeq(s, i, PieceEnd(s, ends, i)) \in W
    BY <1>e, <1>3, <1>4, <1>6
  <2> QED BY <1>2, <1>5, <1>7, <2>1 DEF PieceLoop, W
<1> QED BY <1>8

(* Pieces that end at the last position, too, cover the text.              *)
LEMMA PiecesCover ==
    ASSUME NEW A, NEW s \in Seq(A), NEW ends, ends \subseteq 1..Len(s),
           s # <<>> => Len(s) \in ends
    PROVE  /\ Pieces(s, ends) \in Seq(Seq(A) \ {<<>>})
           /\ FlattenSeq(Pieces(s, ends)) = s
<1> DEFINE W == Seq(A) \ {<<>>}
<1>1. PICK made, next : PieceLoop(A, s, ends, made, next)
  BY PiecesLoop
<1>2. /\ Pieces(s, ends) = Walk(made, next) /\ Onward(next) /\ Len(next) = Len(s)
      /\ \A i \in 1..Len(s) :
            /\ PieceEnd(s, ends, i) \in i..Len(s) /\ next[i] = PieceEnd(s, ends, i) + 1
            /\ made[i] = <<SubSeq(s, i, PieceEnd(s, ends, i))>>
            /\ SubSeq(s, i, PieceEnd(s, ends, i)) \in W
  BY <1>1 DEF PieceLoop
<1>3. W \subseteq Seq(A)
  OBVIOUS
<1> HIDE DEF W
<1>4. ASSUME NEW i \in 1..Len(s)
      PROVE  made[i] \in Seq(W) /\ FlattenSeq(made[i]) = SubSeq(s, i, next[i] - 1)
  <2> DEFINE p == SubSeq(s, i, PieceEnd(s, ends, i))
  <2>1. p \in W /\ p \in Seq(A) /\ made[i] = <<p>>
    BY <1>2, <1>3
  <2>2. next[i] - 1 = PieceEnd(s, ends, i)
    <3>1. PieceEnd(s, ends, i) \in Int /\ next[i] = PieceEnd(s, ends, i) + 1
      BY <1>2
    <3> QED BY <3>1
  <2>3. p = SubSeq(s, i, next[i] - 1)
    BY <2>2
  <2> HIDE DEF p
  <2>4. <<p>> \in Seq(W) /\ FlattenSeq(<<p>>) = p
    BY <2>1, FlattenOne
  <2> QED BY <2>1, <2>3, <2>4
<1>5. TakesApart(A, s, made, next, W)
  BY <1>2, <1>3, <1>4 DEF TakesApart
<1>6. Walk(made, next) \in Seq(W) /\ FlattenSeq(Walk(made, next)) = s
  BY <1>5, WalkCovers
<1> QED BY <1>2, <1>6 DEF W

\* f reads labels backwards from last along a table.
Labels2(n, table, last, a, f) ==
    f = [x \in a..n |-> IF x < n THEN At(table[x + 1], f[x + 1]).path ELSE last]

(* The labels of Viterbi are defined.                                      *)
LEMMA LabelsExist ==
    ASSUME NEW n \in Nat, n >= 1, NEW table, NEW last
    PROVE  \E f : Labels2(n, table, last, 1, f)
<1> DEFINE Good == {m \in 0..n - 1 : \E f : Labels2(n, table, last, n - m, f)}
           Step(x, y) == At(table[x + 1], y).path
<1>1. 0 \in Good
  <2> DEFINE f == [x \in n..n |-> last]
  <2>1. \A x \in n..n : ~(x < n)
    OBVIOUS
  <2>2. f = [x \in n..n |-> IF x < n THEN Step(x, f[x + 1]) ELSE last]
    <3> HIDE DEF Step
    <3> QED BY <2>1
  <2> HIDE DEF f
  <2>3. n - 0 = n /\ 0 \in 0..n - 1
    OBVIOUS
  <2>4. Labels2(n, table, last, n - 0, f)
    BY <2>2, <2>3 DEF Labels2
  <2> QED BY <2>3, <2>4
<1>2. ASSUME NEW m \in 0..n - 1, m < n - 1, m \in Good PROVE m + 1 \in Good
  <2> DEFINE a == n - m
             b == n - (m + 1)
  <2>0. b \in 1..n /\ a = b + 1 /\ b..n = {b} \cup (a..n) /\ a \in 1..n /\ b < n
        /\ b \notin a..n /\ m + 1 \in 0..n - 1
    BY <1>2
  <2>1. PICK f : Labels2(n, table, last, a, f)
    BY <1>2
  <2> HIDE DEF a, b
  <2>2. f = [x \in a..n |-> IF x < n THEN Step(x, f[x + 1]) ELSE last]
    BY <2>1 DEF Labels2
  <2> DEFINE g == [x \in b..n |-> IF x = b THEN Step(b, f[a]) ELSE f[x]]
  <2> HIDE DEF Step
  <2>3. ASSUME NEW x \in b..n PROVE g[x] = IF x < n THEN Step(x, g[x + 1]) ELSE last
    <3>1. CASE x = b
      <4>1. a \in b..n /\ a # b
        BY <2>0
      <4>2. g[a] = f[a] /\ g[b] = Step(b, f[a])
        BY <2>0, <4>1
      <4> HIDE DEF g
      <4> QED BY <2>0, <3>1, <4>2
    <3>2. CASE x # b
      <4>1. x \in a..n /\ g[x] = f[x]
        BY <2>0, <3>2
      <4>2. f[x] = IF x < n THEN Step(x, f[x + 1]) ELSE last
        BY <2>2, <4>1
      <4>3. ASSUME x < n PROVE g[x + 1] = f[x + 1]
        <5>1. x + 1 \in b..n /\ x + 1 # b
          BY <2>0, <4>1, <4>3
        <5> QED BY <5>1
      <4> HIDE DEF g
      <4> QED BY <4>1, <4>2, <4>3
    <3> QED BY <3>1, <3>2
  <2>4. g = [x \in b..n |-> g[x]]
    OBVIOUS
  <2> HIDE DEF g
  <2>5. g = [x \in b..n |-> IF x < n THEN Step(x, g[x + 1]) ELSE last]
    BY <2>3, <2>4
  <2>6. Labels2(n, table, last, b, g)
    BY <2>5 DEF Labels2, Step
  <2> QED BY <2>0, <2>6 DEF b
<1> HIDE DEF Good
<1>3. n - 1 \in Good
  <2>1. n - 1 \in Nat
    OBVIOUS
  <2>2. \A m \in 0..n - 1 : m \in Good
    BY <1>1, <1>2, <2>1, UpTo
  <2> QED BY <2>1, <2>2
<1>4. n - (n - 1) = 1
  OBVIOUS
<1> QED BY <1>3, <1>4 DEF Good

(* The last rune is labelled as the end of a word.                         *)
LEMMA ViterbiEnds ==
    ASSUME NEW mod, NEW s \in Seq(Rune), s # <<>>
    PROVE  Viterbi(mod, s)[Len(s)] \in {E, S}
<1> DEFINE n == Len(s)
           first == Column(LAMBDA y :
                        [weight |-> Plus(mod.start[y], GetEmitProb(mod, y, s[1])),
                         path |-> -1])
           table == FoldLeft(LAMBDA t, rune : Append(t, NextColumn(mod, Last(t), rune)),
                             <<first>>, Tail(s))
           end == Last(table)
           last == IF At(end, E).weight >= At(end, S).weight THEN E ELSE S
           label == CHOOSE f : Labels2(n, table, last, 1, f)
<1>1. n \in Nat /\ n >= 1 /\ DOMAIN s = 1..n
  OBVIOUS
<1>2. Viterbi(mod, s) = [x \in DOMAIN s |-> label[x]]
  <2> DEFINE f0 == CHOOSE f : f = [x \in DOMAIN s |-> IF x < Len(s)
                                      THEN At(table[x + 1], f[x + 1]).path ELSE last]
  <2>1. Viterbi(mod, s) = [x \in DOMAIN s |-> f0[x]]
    BY DEF Viterbi
  <2> HIDE DEF table, last
  <2>2. f0 = label
    BY <1>1 DEF Labels2
  <2> QED BY <2>1, <2>2
<1>3. last \in {E, S}
  OBVIOUS
<1> HIDE DEF table, last, n
<1>4. Labels2(n, table, last, 1, label)
  BY <1>1, LabelsExist
<1>5. label = [x \in 1..n |-> IF x < n THEN At(table[x + 1], label[x + 1]).path ELSE last]
  BY <1>4 DEF Labels2
<1> HIDE DEF label
<1>6. n \in 1..n /\ ~(n < n)
  BY <1>1
<1>7. label[n] = last
  BY <1>5, <1>6
<1>8. Viterbi(mod, s)[n] = label[n]
  BY <1>1, <1>2, <1>6
<1> QED BY <1>3, <1>7, <1>8 DEF n

(* The words the labels make of a text cover it.                           *)
LEMMA InternalCutCovers ==
    ASSUME NEW mod, NEW s \in Seq(Rune)
    PROVE  /\ InternalCut(mod, s) \in Seq(NonEmpty)
           /\ FlattenSeq(InternalCut(mod, s)) = s
<1> DEFINE ends == {i \in DOMAIN s : Viterbi(mod, s)[i] \in {E, S}}
<1>1. InternalCut(mod, s) = Pieces(s, ends)
  BY DEF InternalCut
<1>2. ends \subseteq 1..Len(s)
  OBVIOUS
<1>3. ASSUME s # <<>> PROVE Len(s) \in ends
  <2>1. Viterbi(mod, s)[Len(s)] \in {E, S}
    BY <1>3, ViterbiEnds
  <2>2. Len(s) \in DOMAIN s
    BY <1>3
  <2> QED BY <2>1, <2>2
<1> HIDE DEF ends
<1>4. Pieces(s, ends) \in Seq(Seq(Rune) \ {<<>>}) /\ FlattenSeq(Pieces(s, ends)) = s
  BY <1>2, <1>3, PiecesCover
<1> QED BY <1>1, <1>4 DEF NonEmpty

(* A run of ASCII runes ends behind its first one.                         *)
LEMMA AsciiEndIs ==
    ASSUME NEW s \in Seq(Rune), NEW i \in 1..Len(s)
    PROVE  AsciiEnd(s, i) \in i + 1..Len(s) + 1
<1> DEFINE n == Len(s)
           word == {k \in DOMAIN s : s[k] \in Letters \cup Digits}
           number == {k \in DOMAIN s : s[k] \in Digits \cup {46}}
<1>1. n \in Nat /\ DOMAIN s = 1..n /\ i \in 1..n + 1 /\ i \in 1..n
  OBVIOUS
<1>2. AsciiEnd(s, i) = IF s[i] \in Letters THEN EndOf(n, i, word)
                       ELSE IF s[i] \in Digits THEN EndOf(n, i, number) ELSE i + 1
  BY DEF AsciiEnd, RunEnd, EndOf
<1>3. word \subseteq 1..n /\ number \subseteq 1..n
  BY <1>1
<1>4. s[i] \in Letters => i \in word
  BY <1>1
<1>5. s[i] \in Digits => i \in number
  BY <1>1
<1> HIDE DEF n, word, number
<1>6. EndOf(n, i, word) \in i..n + 1 /\ EndOf(n, i, word) \notin word
  BY <1>1, <1>3, EndOfIs
<1>7. EndOf(n, i, number) \in i..n + 1 /\ EndOf(n, i, number) \notin number
  BY <1>1, <1>3, EndOfIs
<1>8. CASE s[i] \in Letters
  <2>1. EndOf(n, i, word) # i
    BY <1>4, <1>6, <1>8
  <2>2. EndOf(n, i, word) \in i + 1..n + 1
    BY <1>1, <1>6, <2>1
  <2> QED BY <1>2, <1>8, <2>2 DEF n
<1>9. CASE s[i] \notin Letters /\ s[i] \in Digits
  <2>1. EndOf(n, i, number) # i
    BY <1>5, <1>7, <1>9
  <2>2. EndOf(n, i, number) \in i + 1..n + 1
    BY <1>1, <1>7, <2>1
  <2> QED BY <1>2, <1>9, <2>2 DEF n
<1>10. CASE s[i] \notin Letters /\ s[i] \notin Digits
  <2>1. i + 1 \in i + 1..n + 1
    BY <1>1
  <2> QED BY <1>2, <1>10, <2>1 DEF n
<1> QED BY <1>8, <1>9, <1>10

(* The words HMMSegment makes of a text cover it.                          *)
LEMMA HMMCutCovers ==
    ASSUME NEW mod, NEW s \in Seq(Rune)
    PROVE  HMMCut(mod, s) \in Seq(NonEmpty) /\ FlattenSeq(HMMCut(mod, s)) = s
<1> DEFINE n == Len(s)
           native == {k \in DOMAIN s : ~IsAscii(s[k])}
           end == [i \in DOMAIN s |-> IF IsAscii(s[i]) THEN AsciiEnd(s, i)
                                      ELSE EndOf(Len(s), i, native)]
           Run(i) == SubSeq(s, i, end[i] - 1)
           made == [i \in DOMAIN s |-> IF IsAscii(s[i]) THEN <<Run(i)>>
                                       ELSE InternalCut(mod, Run(i))]
<1>1. n \in Nat /\ DOMAIN s = 1..n
  OBVIOUS
<1>2. HMMCut(mod, s) = Walk(made, end)
  BY DEF HMMCut, RunEnd, EndOf
<1>3. ASSUME NEW i \in 1..n PROVE end[i] \in i + 1..n + 1
  <2>1. end[i] = IF IsAscii(s[i]) THEN AsciiEnd(s, i) ELSE EndOf(n, i, native)
    BY <1>1
  <2>2. CASE IsAscii(s[i])
    <3>1. AsciiEnd(s, i) \in i + 1..n + 1
      BY AsciiEndIs
    <3> QED BY <2>1, <2>2, <3>1
  <2>3. CASE ~IsAscii(s[i])
    <3>1. i \in native /\ native \subseteq 1..n
      BY <1>1, <2>3
    <3> HIDE DEF n, native, end
    <3>4. i \in 1..n + 1
      BY <1>1
    <3>2. EndOf(n, i, native) \in i..n + 1 /\ EndOf(n, i, native) \notin native
      BY <1>1, <3>1, <3>4, EndOfIs
    <3>3. EndOf(n, i, native) # i
      BY <3>1, <3>2
    <3> QED BY <1>1, <2>1, <2>3, <3>2, <3>3
  <2> QED BY <2>2, <2>3
<1> HIDE DEF end
<1>4. ASSUME NEW i \in 1..n
      PROVE  made[i] \in Seq(NonEmpty) /\ FlattenSeq(made[i]) = SubSeq(s, i, end[i] - 1)
  <2> DEFINE p == Run(i)
  <2>0. end[i] \in i + 1..n + 1 /\ n \in Nat /\ i \in 1..n
    BY <1>1, <1>3
  <2>a. made[i] = IF IsAscii(s[i]) THEN <<p>> ELSE InternalCut(mod, p)
    BY <1>1
  <2>1. i \in 1..Len(s) + 1 /\ end[i] - 1 \in i - 1..Len(s)
    BY <2>0
  <2>2. p \in Seq(Rune) /\ Len(p) = (end[i] - 1) - i + 1
    BY <2>1, SubIs
  <2> HIDE DEF n, p, made
  <2>3. CASE IsAscii(s[i])
    <3>1. Len(p) # 0
      BY <2>0, <2>2
    <3>2. p # <<>>
      <4>1. Len(<<>>) = 0
        OBVIOUS
      <4> QED BY <3>1, <4>1
    <3>3. p \in NonEmpty
      BY <2>2, <3>2 DEF NonEmpty
    <3>4. <<p>> \in Seq(NonEmpty) /\ FlattenSeq(<<p>>) = p
      BY <2>2, <3>3, FlattenOne
    <3> QED BY <2>3, <2>a, <3>4 DEF p
  <2>4. CASE ~IsAscii(s[i])
    <3>1. InternalCut(mod, p) \in Seq(NonEmpty) /\ FlattenSeq(InternalCut(mod, p)) = p
      BY <2>2, InternalCutCovers
    <3> QED BY <2>4, <2>a, <3>1 DEF p
  <2> QED BY <2>3, <2>4
<1>5. Len(end) = n
  BY <1>1 DEF end
<1>6. Onward(end)
  BY <1>1, <1>3, <1>5 DEF Onward
<1> HIDE DEF made
<1>7. NonEmpty \subseteq Seq(Rune)
  BY DEF NonEmpty
<1>8. TakesApart(Rune, s, made, end, NonEmpty)
  BY <1>4, <1>5, <1>6, <1>7 DEF TakesApart
<1>9. Walk(made, end) \in Seq(NonEmpty) /\ FlattenSeq(Walk(made, end)) = s
  BY <1>8, WalkCovers
<1> QED BY <1>2, <1>9

-----------------------------------------------------------------------------
(* MixSegment.                                                             *)

\* What MixSegment makes: entries, single runes, and words of runes that no
\* user dictionary names.
MixWords(d) ==
    {x \in NonEmpty : Len(x) > 1 => \/ FindUnit(d.trie, x) # NULL
                                    \/ Elems(x) \cap d.singles = {}}

\* The words are non-empty and in a row they are the text.
WordsOf(W, ws, s) == ws \in Seq(W) /\ W \subseteq Seq(Rune) /\ FlattenSeq(ws) = s

(* The runes of a word are runes of the text.                              *)
LEMMA WordInText ==
    ASSUME NEW W, NEW ws, NEW s, WordsOf(W, ws, s), NEW k \in 1..Len(ws)
    PROVE  ws[k] \in W /\ ws[k] \in Seq(Rune) /\ Elems(ws[k]) \subseteq Elems(s)
<1>1. ws \in Seq(W) /\ W \subseteq Seq(Rune) /\ FlattenSeq(ws) = s
  BY DEF WordsOf
<1>2. ws \in Seq(Seq(Rune))
  BY <1>1, SeqMonotonic
<1>3. \A x : x \in Elems(FlattenSeq(ws)) <=> \E i \in 1..Len(ws) : x \in Elems(ws[i])
  BY <1>2, FlattenElems
<1>4. Elems(ws[k]) \subseteq Elems(s)
  BY <1>1, <1>3
<1>5. ws[k] \in W
  BY <1>1
<1> QED BY <1>1, <1>4, <1>5

(* The words HMMSegment makes of runes that no user dictionary names are   *)
(* among those of MixSegment.                                              *)
LEMMA HMMCutMixes ==
    ASSUME NEW d, NEW mod, NEW s \in Seq(Rune), Elems(s) \cap d.singles = {}
    PROVE  HMMCut(mod, s) \in Seq(MixWords(d))
<1> DEFINE ws == HMMCut(mod, s)
<1>1. ws \in Seq(NonEmpty) /\ FlattenSeq(ws) = s
  BY HMMCutCovers
<1> HIDE DEF ws
<1>2. WordsOf(NonEmpty, ws, s)
  BY <1>1 DEF WordsOf, NonEmpty
<1>3. ASSUME NEW k \in 1..Len(ws) PROVE ws[k] \in MixWords(d)
  <2>1. ws[k] \in NonEmpty /\ Elems(ws[k]) \subseteq Elems(s)
    BY <1>2, WordInText
  <2>2. Elems(ws[k]) \cap d.singles = {}
    BY <2>1
  <2> QED BY <2>1, <2>2 DEF MixWords
<1>4. ws = [k \in 1..Len(ws) |-> ws[k]] /\ Len(ws) \in Nat
  BY <1>1
<1>5. [k \in 1..Len(ws) |-> ws[k]] \in Seq(MixWords(d))
  BY <1>3, <1>4
<1> QED BY <1>4, <1>5 DEF ws

(* MixSegment takes a text apart into words of its kind.                   *)
LEMMA MixCutIs ==
    ASSUME NEW d, DictOK(d), NEW mod, NEW s \in Seq(Rune), NEW hmm
    PROVE  WordsOf(MixWords(d), MixCut(d, mod, s, hmm), s)
<1> DEFINE ws == MPCut(d, s, MaxWordLength)
           n == Len(ws)
           W == MixWords(d)
           loose == {k \in DOMAIN ws : Loose(d, ws[k])}
           end == [i \in DOMAIN ws |-> EndOf(Len(ws), i, loose)]
           Piece(i) == FlattenSeq(SubSeq(ws, i, end[i] - 1))
           made == [i \in DOMAIN ws |-> IF Loose(d, ws[i]) THEN HMMCut(mod, Piece(i))
                                        ELSE <<ws[i]>>]
           next == [i \in DOMAIN ws |-> IF Loose(d, ws[i]) THEN end[i] ELSE i + 1]
           rest == [i \in 1..n + 1 |-> FlattenSeq(SubSeq(ws, i, n))]
<1>1. ws \in Seq(MPWords(d, MaxWordLength)) /\ FlattenSeq(ws) = s
  <2>1. MaxWordLength \in Nat
    BY DEF MaxWordLength
  <2> QED BY <2>1, MPCutIs
<1>2. MixCut(d, mod, s, hmm) = IF ~hmm THEN ws ELSE Walk(made, next)
  BY DEF MixCut, RunEnd, EndOf
<1> HIDE DEF ws
<1>3. n \in Nat /\ DOMAIN ws = 1..n
  BY <1>1
<1>4. W \subseteq Seq(Rune) /\ W \subseteq NonEmpty
  BY DEF MixWords, NonEmpty
<1>5. ASSUME NEW k \in 1..n PROVE ws[k] \in W /\ ws[k] \in Seq(Rune)
  <2>1. ws[k] \in MPWords(d, MaxWordLength)
    BY <1>1
  <2> QED BY <1>4, <2>1 DEF MPWords, MixWords
<1> HIDE DEF W
<1>6. ws \in Seq(W) /\ ws \in Seq(Seq(Rune))
  <2>1. ws = [k \in 1..n |-> ws[k]]
    BY <1>1
  <2> HIDE DEF n
  <2>2. [k \in 1..n |-> ws[k]] \in Seq(W)
    BY <1>3, <1>5
  <2>3. ws \in Seq(W)
    BY <2>1, <2>2
  <2> QED BY <1>4, <2>3, SeqMonotonic
<1>7. CASE ~hmm
  BY <1>1, <1>2, <1>4, <1>6, <1>7 DEF WordsOf, W
<1>8. CASE hmm
  <2>1. ASSUME NEW i \in 1..n
        PROVE  /\ end[i] \in i..n + 1 /\ i..end[i] - 1 \subseteq loose
               /\ (Loose(d, ws[i]) => end[i] \in i + 1..n + 1)
    <3>1. end[i] = EndOf(n, i, loose) /\ loose \subseteq 1..n /\ i \in 1..n + 1
      BY <1>3
    <3>4. Loose(d, ws[i]) => i \in loose
      BY <1>3
    <3> HIDE DEF n, loose, end
    <3>2. /\ EndOf(n, i, loose) \in i..n + 1 /\ EndOf(n, i, loose) \notin loose
          /\ i..EndOf(n, i, loose) - 1 \subseteq loose
      BY <1>3, <3>1, EndOfIs
    <3>3. Loose(d, ws[i]) => end[i] # i
      BY <3>1, <3>2, <3>4
    <3> QED BY <1>3, <3>1, <3>2, <3>3
  <2> HIDE DEF end
  <2>2. \A i \in 1..n :
            /\ made[i] = IF Loose(d, ws[i]) THEN HMMCut(mod, Piece(i)) ELSE <<ws[i]>>
            /\ next[i] = IF Loose(d, ws[i]) THEN end[i] ELSE i + 1
    BY <1>3
  <2>3. Len(next) = n
    BY <1>3
  <2>4. ASSUME NEW i \in 1..n + 1, NEW j \in i - 1..n
        PROVE  /\ SubSeq(ws, i, j) \in Seq(Seq(Rune))
               /\ Len(SubSeq(ws, i, j)) = j - i + 1
               /\ \A k \in 1..j - i + 1 : SubSeq(ws, i, j)[k] = ws[i + k - 1]
    BY <1>6, SubIs
  <2>5. \A i \in 1..n + 1 : rest[i] = FlattenSeq(SubSeq(ws, i, n))
    OBVIOUS
  <2> HIDE DEF n, made, next, rest
  <2>6. ASSUME NEW i \in 1..n, Loose(d, ws[i])
        PROVE  Piece(i) \in Seq(Rune) /\ Elems(Piece(i)) \cap d.singles = {}
    <3> DEFINE part == SubSeq(ws, i, end[i] - 1)
    <3>1. end[i] \in i + 1..n + 1 /\ i..end[i] - 1 \subseteq loose
      BY <2>1, <2>6
    <3>2. i \in 1..n + 1 /\ end[i] - 1 \in i - 1..n
      BY <1>3, <3>1
    <3>3. /\ part \in Seq(Seq(Rune)) /\ Len(part) = (end[i] - 1) - i + 1
          /\ \A k \in 1..(end[i] - 1) - i + 1 : part[k] = ws[i + k - 1]
      BY <2>4, <3>2
    <3> HIDE DEF part
    <3>4. FlattenSeq(part) \in Seq(Rune)
      BY <3>3, FlattenTyped
    <3>5. \A x : x \in Elems(FlattenSeq(part)) <=> \E k \in 1..Len(part) : x \in Elems(part[k])
      BY <3>3, FlattenElems
    <3>6. ASSUME NEW k \in 1..Len(part) PROVE Elems(part[k]) \cap d.singles = {}
      <4>1. i + k - 1 \in i..end[i] - 1 /\ part[k] = ws[i + k - 1]
        BY <1>3, <3>1, <3>3
      <4>2. i + k - 1 \in loose
        BY <3>1, <4>1
      <4>3. Loose(d, part[k])
        BY <4>1, <4>2
      <4>4. Len(part[k]) = 1 /\ part[k][1] \notin d.singles
        BY <4>3 DEF Loose, IsUserDictSingle
      <4>5. Elems(part[k]) = {part[k][1]}
        BY <4>4 DEF Elems
      <4> QED BY <4>4, <4>5
    <3>7. Elems(FlattenSeq(part)) \cap d.singles = {}
      BY <3>5, <3>6
    <3> QED BY <3>4, <3>7 DEF part
  <2>7. ASSUME NEW i \in 1..n
        PROVE  /\ made[i] \in Seq(W) /\ next[i] \in i + 1..n + 1
               /\ FlattenSeq(made[i]) = FlattenSeq(SubSeq(ws, i, next[i] - 1))
    <3>1. CASE Loose(d, ws[i])
      <4>1. made[i] = HMMCut(mod, Piece(i)) /\ next[i] = end[i]
        BY <2>2, <3>1
      <4>2. Piece(i) \in Seq(Rune) /\ Elems(Piece(i)) \cap d.singles = {}
        BY <2>6, <3>1
      <4> DEFINE piece == Piece(i)
      <4> HIDE DEF piece
      <4>3. HMMCut(mod, piece) \in Seq(W)
        BY <4>2, HMMCutMixes DEF piece, W
      <4>4. FlattenSeq(HMMCut(mod, piece)) = piece
        BY <4>2, HMMCutCovers DEF piece
      <4>5. end[i] \in i + 1..n + 1
        BY <2>1, <3>1
      <4> QED BY <4>1, <4>3, <4>4, <4>5 DEF piece
    <3>2. CASE ~Loose(d, ws[i])
      <4>1. made[i] = <<ws[i]>> /\ next[i] = i + 1
        BY <2>2, <3>2
      <4>2. ws[i] \in W /\ ws[i] \in Seq(Rune)
        BY <1>5
      <4>3. next[i] \in i + 1..n + 1 /\ next[i] - 1 = i
        BY <1>3, <4>1
      <4>4. SubSeq(ws, i, i) = <<ws[i]>>
        BY <1>6, SubOne DEF n
      <4>5. <<ws[i]>> \in Seq(W)
        BY <4>2
      <4>6. FlattenSeq(made[i]) = FlattenSeq(SubSeq(ws, i, next[i] - 1))
        BY <4>1, <4>3, <4>4
      <4> QED BY <4>1, <4>3, <4>5, <4>6
    <3> QED BY <3>1, <3>2
  <2>8. Onward(next)
    BY <1>3, <2>3, <2>7 DEF Onward
  <2>9. Remains(made, next, rest, Rune)
    <3>1. ASSUME NEW i \in 1..n + 1 PROVE rest[i] \in Seq(Rune)
      <4>1. n \in i - 1..n
        BY <1>3
      <4>2. SubSeq(ws, i, n) \in Seq(Seq(Rune))
        BY <2>4, <4>1
      <4>3. FlattenSeq(SubSeq(ws, i, n)) \in Seq(Rune)
        BY <4>2, FlattenTyped
      <4> QED BY <2>5, <4>3
    <3>2. rest[n + 1] = <<>>
      <4>1. n + 1 \in Int /\ n \in Int /\ n < n + 1 /\ n + 1 \in 1..n + 1
        BY <1>3
      <4>2. SubSeq(ws, n + 1, n) = <<>>
        BY <4>1, SubSeqEmpty
      <4>4. <<>> \in Seq(Rune)
        OBVIOUS
      <4>3. FlattenSeq(<<>>) = <<>>
        BY <4>4, FlattenOne
      <4> QED BY <2>5, <4>1, <4>2, <4>3
    <3>3. ASSUME NEW i \in 1..n PROVE rest[i] = FlattenSeq(made[i]) \o rest[next[i]]
      <4> DEFINE j == next[i] - 1
      <4>0. next[i] \in i + 1..n + 1
        BY <2>7
      <4>1. /\ i \in 1..n + 1 /\ j \in i - 1..n /\ j + 1 = next[i] /\ n \in j..n
            /\ next[i] \in 1..n + 1 /\ n \in next[i] - 1..n
        BY <1>3, <4>0
      <4> HIDE DEF j
      <4>2. SubSeq(ws, i, j) \o SubSeq(ws, j + 1, n) = SubSeq(ws, i, n)
        BY <1>6, <4>1, ConcatAdjacentSubSeq DEF n
      <4>3. SubSeq(ws, i, j) \in Seq(Seq(Rune)) /\ SubSeq(ws, next[i], n) \in Seq(Seq(Rune))
        BY <2>4, <4>1
      <4>4. FlattenSeq(SubSeq(ws, i, j) \o SubSeq(ws, next[i], n)) =
              FlattenSeq(SubSeq(ws, i, j)) \o FlattenSeq(SubSeq(ws, next[i], n))
        BY <4>3, FlattenConcat
      <4>5. FlattenSeq(made[i]) = FlattenSeq(SubSeq(ws, i, j))
        BY <2>7 DEF j
      <4> QED BY <2>5, <4>1, <4>2, <4>4, <4>5
    <3> QED BY <2>3, <3>1, <3>2, <3>3 DEF Remains
  <2>10. \A i \in 1..Len(next) : made[i] \in Seq(W)
    BY <2>3, <2>7
  <2>11. Walk(made, next) \in Seq(W) /\ FlattenSeq(Walk(made, next)) = rest[1]
    BY <1>4, <2>8, <2>9, <2>10, WalkFlattens
  <2>12. rest[1] = s
    <3>1. 1 \in 1..n + 1
      BY <1>3
    <3>2. SubSeq(ws, 1, n) = ws
      BY <1>6, SubSeqFull DEF n
    <3> QED BY <1>1, <2>5, <3>1, <3>2
  <2> QED BY <1>2, <1>4, <1>8, <2>11, <2>12 DEF WordsOf, W
<1> QED BY <1>7, <1>8

-----------------------------------------------------------------------------
(* FullSegment, QuerySegment, LevelSegment.                                *)

VisitWord(d, s, v) == IF v.unit # NULL THEN d.units[v.unit].word ELSE <<s[v.uIdx + 1]>>
FullState == [res : Seq(NonEmpty), maxIdx : Int, wordLen : Int]

\* What FullSegment makes of the words so far and one visit.
VisitOf(d, s, st, v) ==
    LET word == VisitWord(d, s, v)
        wordLen == IF v.unit # NULL THEN Len(word) ELSE st.wordLen
    IN  [res |-> IF Taken(word, v, st) THEN Append(st.res, word) ELSE st.res,
         maxIdx |-> IF v.uIdx + wordLen > st.maxIdx THEN v.uIdx + wordLen ELSE st.maxIdx,
         wordLen |-> wordLen]

\* A visit to a position of s, of an entry of d or the rune alone.
IsVisit(d, s, v) ==
    /\ v.uIdx \in 0..Len(s) - 1
    /\ VisitWord(d, s, v) \in NonEmpty

(* A visit adds at most a word, and a word of two runes or more always.    *)
LEMMA VisitKeeps ==
    ASSUME NEW d, NEW s, Len(s) \in Nat, NEW st \in FullState, NEW v, IsVisit(d, s, v)
    PROVE  /\ VisitOf(d, s, st, v) \in FullState
           /\ Elems(st.res) \subseteq Elems(VisitOf(d, s, st, v).res)
           /\ Len(VisitWord(d, s, v)) >= 2 =>
                VisitWord(d, s, v) \in Elems(VisitOf(d, s, st, v).res)
<1> DEFINE word == VisitWord(d, s, v)
           wordLen == IF v.unit # NULL THEN Len(word) ELSE st.wordLen
           res == IF Taken(word, v, st) THEN Append(st.res, word) ELSE st.res
           maxIdx == IF v.uIdx + wordLen > st.maxIdx THEN v.uIdx + wordLen ELSE st.maxIdx
<1>1. word \in NonEmpty /\ v.uIdx \in Int
  BY DEF IsVisit
<1>2. st.res \in Seq(NonEmpty) /\ st.maxIdx \in Int /\ st.wordLen \in Int
  BY DEF FullState
<1>3. VisitOf(d, s, st, v) = [res |-> res, maxIdx |-> maxIdx, wordLen |-> wordLen]
  BY DEF VisitOf
<1> HIDE DEF word
<1>4. wordLen \in Int
  <2>1. Len(word) \in Nat
    BY <1>1 DEF NonEmpty
  <2> QED BY <1>2, <2>1
<1> HIDE DEF wordLen
<1>5. maxIdx \in Int
  BY <1>1, <1>2, <1>4
<1>6. /\ Append(st.res, word) \in Seq(NonEmpty)
      /\ Elems(Append(st.res, word)) = Elems(st.res) \cup {word}
  BY <1>1, <1>2, AppendProperties, AppendElems
<1>7. res \in Seq(NonEmpty) /\ Elems(st.res) \subseteq Elems(res)
  BY <1>2, <1>6
<1>8. Len(word) >= 2 => word \in Elems(res)
  <2>1. Len(word) >= 2 => Taken(word, v, st)
    BY DEF Taken
  <2> QED BY <1>6, <2>1
<1> HIDE DEF maxIdx, res
<1>9. VisitOf(d, s, st, v) \in FullState
  BY <1>3, <1>4, <1>5, <1>7 DEF FullState
<1>10. VisitOf(d, s, st, v).res = res
  BY <1>3
<1> QED BY <1>7, <1>8, <1>9, <1>10 DEF word

\* f is FullSegment's loop over the visits.
Visits(d, s, visits, f) ==
    f = [n \in 0..Len(visits) |->
            IF n = 0 THEN [res |-> <<>>, maxIdx |-> 0, wordLen |-> 0]
            ELSE VisitOf(d, s, f[n - 1], visits[n])]

(* The loop over visits finds the word of each that has two runes or more. *)
LEMMA VisitsFind ==
    ASSUME NEW d, NEW s, Len(s) \in Nat, NEW visits, Len(visits) \in Nat,
           \A n \in 1..Len(visits) : IsVisit(d, s, visits[n])
    PROVE  LET after == CHOOSE f : Visits(d, s, visits, f)
               res == after[Len(visits)].res
           IN  /\ res \in Seq(NonEmpty)
               /\ \A n \in 1..Len(visits) : Len(VisitWord(d, s, visits[n])) >= 2 =>
                    VisitWord(d, s, visits[n]) \in Elems(res)
<1> DEFINE n == Len(visits)
           base == [res |-> <<>>, maxIdx |-> 0, wordLen |-> 0]
           T == FullState
           step == [sn \in T \X (1..n) |-> VisitOf(d, s, sn[1], visits[sn[2]])]
           after == CHOOSE f : Visits(d, s, visits, f)
<1>1. n \in Nat /\ \A i \in 1..n : IsVisit(d, s, visits[i])
  OBVIOUS
<1>2. base \in T
  <2>1. <<>> \in Seq(NonEmpty)
    OBVIOUS
  <2> QED BY <2>1 DEF FullState
<1>b. base.res = <<>>
  OBVIOUS
<1> HIDE DEF n, base, T
<1>3. step \in [T \X (1..n) -> T]
  <2>1. ASSUME NEW sn \in T \X (1..n) PROVE VisitOf(d, s, sn[1], visits[sn[2]]) \in T
    <3>1. sn[1] \in T /\ IsVisit(d, s, visits[sn[2]])
      BY <1>1
    <3> QED BY <3>1, VisitKeeps DEF T
  <2> QED BY <2>1
<1>4. PICK g : Recurs(n, T, base, step, g)
  <2> HIDE DEF step
  <2> QED BY <1>1, <1>2, <1>3, RecursExists
<1>5. Visits(d, s, visits, g)
  <2>1. g \in [0..n -> T] /\ g[0] = base
        /\ \A i \in 1..n : g[i] = step[<<g[i - 1], i>>]
    BY <1>4 DEF Recurs
  <2>2. ASSUME NEW i \in 0..n
        PROVE  g[i] = IF i = 0 THEN base ELSE VisitOf(d, s, g[i - 1], visits[i])
    <3>1. CASE i = 0
      BY <2>1, <3>1
    <3>2. CASE i # 0
      <4>1. i \in 1..n /\ i - 1 \in 0..n
        BY <1>1, <3>2
      <4>2. g[i - 1] \in T /\ g[i] = step[<<g[i - 1], i>>]
        BY <2>1, <4>1
      <4>3. <<g[i - 1], i>> \in T \X (1..n)
        BY <4>1, <4>2
      <4>4. step[<<g[i - 1], i>>] = VisitOf(d, s, g[i - 1], visits[i])
        BY <4>3
      <4> QED BY <3>2, <4>2, <4>4
    <3> QED BY <3>1, <3>2
  <2> HIDE DEF step
  <2>3. g = [i \in 0..n |-> g[i]]
    BY <2>1
  <2>4. g = [i \in 0..n |-> IF i = 0 THEN base ELSE VisitOf(d, s, g[i - 1], visits[i])]
    BY <2>2, <2>3
  <2> QED BY <2>4 DEF Visits, n, base
<1>6. Visits(d, s, visits, after)
  BY <1>5
<1>7. after = [i \in 0..n |-> IF i = 0 THEN base ELSE VisitOf(d, s, after[i - 1], visits[i])]
  BY <1>6 DEF Visits, n, base
<1> HIDE DEF after, step
<1> DEFINE Word(i) == VisitWord(d, s, visits[i])
           HasAll(m) == \A i \in 1..m : Len(Word(i)) >= 2 => Word(i) \in Elems(after[m].res)
           Good == {m \in 0..n : after[m] \in T /\ HasAll(m)}
<1> HIDE DEF Word
<1>8. 0 \in Good
  <2>1. after[0] = base /\ 0 \in 0..n
    BY <1>1, <1>7
  <2>2. HasAll(0)
    OBVIOUS
  <2> HIDE DEF HasAll
  <2> QED BY <1>2, <2>1, <2>2
<1>9. ASSUME NEW m \in 0..n, m < n, m \in Good PROVE m + 1 \in Good
  <2>1. m + 1 \in 1..n /\ m + 1 \in 0..n /\ (m + 1) - 1 = m /\ m + 1 # 0 /\ m \in Nat
    BY <1>1, <1>9
  <2>2. after[m + 1] = VisitOf(d, s, after[(m + 1) - 1], visits[m + 1])
    BY <1>7, <2>1
  <2>3. after[m] \in FullState /\ HasAll(m)
    BY <1>9 DEF T
  <2>4. IsVisit(d, s, visits[m + 1])
    BY <1>1, <2>1
  <2>5. /\ VisitOf(d, s, after[m], visits[m + 1]) \in FullState
        /\ Elems(after[m].res) \subseteq Elems(VisitOf(d, s, after[m], visits[m + 1]).res)
        /\ Len(Word(m + 1)) >= 2 =>
             Word(m + 1) \in Elems(VisitOf(d, s, after[m], visits[m + 1]).res)
    BY <2>3, <2>4, VisitKeeps DEF Word
  <2>6. after[m + 1] = VisitOf(d, s, after[m], visits[m + 1])
    BY <2>1, <2>2
  <2>7. HasAll(m + 1)
    <3>1. ASSUME NEW i \in 1..m + 1, Len(Word(i)) >= 2
          PROVE  Word(i) \in Elems(after[m + 1].res)
      <4>1. CASE i = m + 1
        BY <2>5, <2>6, <3>1, <4>1
      <4>2. CASE i # m + 1
        <5>1. i \in 1..m
          BY <2>1, <4>2
        <5> QED BY <2>3, <2>5, <2>6, <3>1, <5>1
      <4> QED BY <4>1, <4>2
    <3> QED BY <3>1
  <2> HIDE DEF HasAll
  <2> QED BY <2>1, <2>5, <2>6, <2>7 DEF T
<1> HIDE DEF Good
<1>10. n \in Good
  <2>1. \A m \in 0..n : m \in Good
    BY <1>1, <1>8, <1>9, UpTo
  <2> QED BY <1>1, <2>1
<1>11. after[n] \in FullState /\ HasAll(n)
  BY <1>10 DEF Good, T
<1>12. after[n].res \in Seq(NonEmpty)
  BY <1>11 DEF FullState
<1> QED BY <1>11, <1>12 DEF after, Word, n

(* The words FullSegment makes, and that every entry of two runes or more  *)
(* is among them.                                                          *)
LEMMA FullCutIs ==
    ASSUME NEW d, DictOK(d), NEW s \in Seq(Rune)
    PROVE  /\ FullCut(d, s) \in Seq(NonEmpty)
           /\ \A i \in 1..Len(s) : \A l \in 2..Len(s) - i + 1 :
                l <= MaxWordLength /\ FindUnit(d.trie, SubSeq(s, i, i + l - 1)) # NULL =>
                    SubSeq(s, i, i + l - 1) \in Elems(FullCut(d, s))
<1> DEFINE n == Len(s)
           dags == FindDag(d.trie, s, MaxWordLength)
           At2(i, k) == [uIdx |-> i - 1, unit |-> dags[i][k].unit, only |-> Len(dags[i]) = 1]
           ss == [i \in DOMAIN s |-> [k \in DOMAIN dags[i] |-> At2(i, k)]]
           visits == FlattenSeq(ss)
           V == {v \in [uIdx : 0..n - 1, unit : 0..Len(d.units), only : BOOLEAN] :
                    IsVisit(d, s, v)}
           after == CHOOSE f : Visits(d, s, visits, f)
<1>0. n \in Nat /\ DOMAIN s = 1..n /\ MaxWordLength \in Nat /\ Len(d.units) \in Nat
  BY DEF MaxWordLength, DictOK
<1>1. FullCut(d, s) = after[Len(visits)].res
  BY DEF FullCut, Visits, VisitOf, VisitWord
<1>2. ASSUME NEW i \in 1..n
      PROVE  /\ dags[i] \in Seq(Choice)
             /\ \A k \in 1..Len(dags[i]) : \E m \in 1..n - i + 1 :
                    dags[i][k] = ChoiceAt(d, s, i, m)
             /\ \A m \in 1..n - i + 1 : IsChoice(d, s, MaxWordLength, i, m) =>
                    \E k \in 1..Len(dags[i]) : dags[i][k] = ChoiceAt(d, s, i, m)
  BY <1>0, FindDagIs
<1> HIDE DEF dags
<1>3. ASSUME NEW i \in 1..n, NEW k \in 1..Len(dags[i]) PROVE At2(i, k) \in V
  <2>1. PICK m \in 1..n - i + 1 : dags[i][k] = ChoiceAt(d, s, i, m)
    BY <1>2
  <2> DEFINE key == SubSeq(s, i, i + m - 1)
             unit == FindUnit(d.trie, key)
             v == At2(i, k)
             only == Len(dags[i]) = 1
  <2>2. v = [uIdx |-> i - 1, unit |-> unit, only |-> only]
    BY <2>1 DEF ChoiceAt
  <2>3. i - 1 \in 0..n - 1 /\ (i - 1) + 1 = i
    BY <1>0
  <2>4. unit \in 0..Len(d.units)
    BY FindUnitIs
  <2>5. unit # NULL => d.units[unit].word \in NonEmpty
    <3>1. ASSUME unit # NULL PROVE d.units[unit].word \in NonEmpty
      <4>1. key \in Seq(Rune) /\ key # <<>> /\ d.units[unit].word = key
        BY <3>1, FindUnitIs
      <4> QED BY <4>1 DEF NonEmpty
    <3> QED BY <3>1
  <2>6. <<s[i]>> \in NonEmpty
    <3>1. s[i] \in Rune
      BY <1>0
    <3> QED BY <3>1 DEF NonEmpty
  <2>7. only \in BOOLEAN
    OBVIOUS
  <2> HIDE DEF v, unit, only
  <2>8. v.uIdx = i - 1 /\ v.unit = unit
    BY <2>2
  <2>9. VisitWord(d, s, v) \in NonEmpty
    BY <2>3, <2>5, <2>6, <2>8 DEF VisitWord
  <2>10. v \in [uIdx : 0..n - 1, unit : 0..Len(d.units), only : BOOLEAN]
    BY <2>2, <2>3, <2>4, <2>7
  <2>11. IsVisit(d, s, v)
    BY <2>3, <2>8, <2>9 DEF IsVisit
  <2> QED BY <2>10, <2>11 DEF v
<1>4. \A v \in V : IsVisit(d, s, v)
  OBVIOUS
<1> HIDE DEF V, At2
<1>5. ASSUME NEW i \in 1..n
      PROVE  /\ ss[i] \in Seq(V) /\ Len(ss[i]) = Len(dags[i])
             /\ \A k \in 1..Len(dags[i]) : ss[i][k] = At2(i, k)
  <2>1. dags[i] \in Seq(Choice)
    BY <1>2
  <2>2. DOMAIN dags[i] = 1..Len(dags[i]) /\ Len(dags[i]) \in Nat
    BY <2>1
  <2>3. ss[i] = [k \in 1..Len(dags[i]) |-> At2(i, k)]
    BY <1>0, <2>2
  <2> HIDE DEF ss
  <2>4. \A k \in 1..Len(dags[i]) : At2(i, k) \in V
    BY <1>3
  <2> QED BY <2>2, <2>3, <2>4
<1>6. ss \in Seq(Seq(V)) /\ Len(ss) = n
  <2>1. ss = [i \in 1..n |-> ss[i]]
    BY <1>0
  <2> HIDE DEF ss, n
  <2>2. [i \in 1..n |-> ss[i]] \in Seq(Seq(V)) /\ Len([i \in 1..n |-> ss[i]]) = n
    BY <1>0, <1>5
  <2> QED BY <2>1, <2>2
<1> HIDE DEF ss
<1>7. visits \in Seq(V)
  BY <1>6, FlattenTyped
<1>8. \A x : x \in Elems(visits) <=> \E i \in 1..n : x \in Elems(ss[i])
  BY <1>6, FlattenElems
<1> HIDE DEF visits
<1>9. Len(visits) \in Nat /\ \A k \in 1..Len(visits) : IsVisit(d, s, visits[k])
  BY <1>4, <1>7
<1>10. /\ after[Len(visits)].res \in Seq(NonEmpty)
       /\ \A k \in 1..Len(visits) : Len(VisitWord(d, s, visits[k])) >= 2 =>
             VisitWord(d, s, visits[k]) \in Elems(after[Len(visits)].res)
  BY <1>0, <1>9, VisitsFind
<1> HIDE DEF after
<1>11. ASSUME NEW i \in 1..n, NEW l \in 2..n - i + 1, l <= MaxWordLength,
              FindUnit(d.trie, SubSeq(s, i, i + l - 1)) # NULL
       PROVE  SubSeq(s, i, i + l - 1) \in Elems(FullCut(d, s))
  <2> DEFINE key == SubSeq(s, i, i + l - 1)
             unit == FindUnit(d.trie, key)
  <2>1. l \in 1..n - i + 1 /\ IsChoice(d, s, MaxWordLength, i, l)
    BY <1>0, <1>11 DEF IsChoice
  <2>2. PICK k \in 1..Len(dags[i]) : dags[i][k] = ChoiceAt(d, s, i, l)
    BY <1>2, <2>1
  <2>3. At2(i, k).unit = unit
    BY <2>2 DEF At2, ChoiceAt
  <2>4. At2(i, k) \in Elems(ss[i])
    <3>1. ss[i][k] = At2(i, k) /\ k \in 1..Len(ss[i])
      BY <1>5
    <3> QED BY <3>1 DEF Elems
  <2>5. At2(i, k) \in Elems(visits)
    BY <1>8, <2>4
  <2>6. PICK j \in 1..Len(visits) : visits[j] = At2(i, k)
    BY <2>5 DEF Elems
  <2>7. d.units[unit].word = key
    BY <1>11, FindUnitIs
  <2>8. VisitWord(d, s, visits[j]) = key
    <3> HIDE DEF key
    <3> QED BY <1>11, <2>3, <2>6, <2>7 DEF VisitWord, key
  <2>9. Len(key) = l
    <3>1. i \in 1..Len(s) + 1 /\ i + l - 1 \in i - 1..Len(s) /\ (i + l - 1) - i + 1 = l
      BY <1>0
    <3>2. Len(SubSeq(s, i, i + l - 1)) = (i + l - 1) - i + 1
      BY <3>1, SubIs
    <3> QED BY <3>1, <3>2
  <2> HIDE DEF key, unit
  <2>10. Len(key) >= 2
    BY <1>0, <2>9
  <2> QED BY <1>1, <1>10, <2>8, <2>10 DEF key
<1> QED BY <1>1, <1>10, <1>11 DEF n

(* The words of QuerySegment are not empty.                                *)
LEMMA QueryCutTyped ==
    ASSUME NEW d, DictOK(d), NEW mod, NEW s \in Seq(Rune), NEW hmm, NEW maxLen
    PROVE  QueryCut(d, mod, s, hmm, maxLen) \in Seq(NonEmpty)
<1> DEFINE mix == MixCut(d, mod, s, hmm)
           Long(word) == Len(word) > maxLen /\ \E i \in DOMAIN word : ~IsAscii(word[i])
           ss == [k \in DOMAIN mix |-> IF Long(mix[k]) THEN FullCut(d, mix[k]) ELSE <<mix[k]>>]
<1>1. QueryCut(d, mod, s, hmm, maxLen) = FlattenSeq(ss)
  BY DEF QueryCut
<1>2. WordsOf(MixWords(d), mix, s)
  BY MixCutIs
<1> HIDE DEF mix, Long
<1>3. mix \in Seq(NonEmpty)
  <2>1. mix \in Seq(MixWords(d))
    BY <1>2 DEF WordsOf
  <2>2. MixWords(d) \subseteq NonEmpty
    BY DEF MixWords
  <2> QED BY <2>1, <2>2, SeqMonotonic
<1>4. DOMAIN mix = 1..Len(mix) /\ Len(mix) \in Nat
  BY <1>3
<1>5. ASSUME NEW k \in 1..Len(mix) PROVE ss[k] \in Seq(NonEmpty)
  <2>1. mix[k] \in NonEmpty
    BY <1>3
  <2>2. FullCut(d, mix[k]) \in Seq(NonEmpty)
    BY <2>1, FullCutIs DEF NonEmpty
  <2>3. <<mix[k]>> \in Seq(NonEmpty)
    BY <2>1
  <2>4. ss[k] = IF Long(mix[k]) THEN FullCut(d, mix[k]) ELSE <<mix[k]>>
    BY <1>4
  <2> QED BY <2>2, <2>3, <2>4
<1>6. ss = [k \in 1..Len(mix) |-> ss[k]]
  BY <1>4
<1> HIDE DEF ss
<1>7. [k \in 1..Len(mix) |-> ss[k]] \in Seq(Seq(NonEmpty))
  BY <1>4, <1>5
<1>8. FlattenSeq(ss) \in Seq(NonEmpty)
  <2>1. ss \in Seq(Seq(NonEmpty))
    BY <1>6, <1>7
  <2> QED BY <2>1, FlattenTyped
<1> QED BY <1>1, <1>8

\* All words of ws have at most n runes.
Within(ws, n) == \A k \in 1..Len(ws) : Len(ws[k]) <= n

(* The words of the next level are shorter than the longest of the last.   *)
LEMMA NextLevelIs ==
    ASSUME NEW d, DictOK(d), NEW ws \in Seq(NonEmpty), NEW n \in Nat, Within(ws, n)
    PROVE  NextLevel(d, ws) \in Seq(NonEmpty) /\ Within(NextLevel(d, ws), n - 1)
<1> DEFINE ss == [k \in DOMAIN ws |-> IF Len(ws[k]) >= 3 THEN MPCut(d, ws[k], Len(ws[k]) - 1)
                                      ELSE <<>>]
           W == {x \in NonEmpty : Len(x) <= n - 1}
<1>1. NextLevel(d, ws) = FlattenSeq(ss)
  BY DEF NextLevel
<1>2. DOMAIN ws = 1..Len(ws) /\ Len(ws) \in Nat
  OBVIOUS
<1>3. ASSUME NEW k \in 1..Len(ws) PROVE ss[k] \in Seq(W)
  <2>1. ss[k] = IF Len(ws[k]) >= 3 THEN MPCut(d, ws[k], Len(ws[k]) - 1) ELSE <<>>
    BY <1>2
  <2>2. ws[k] \in Seq(Rune) /\ Len(ws[k]) \in Nat /\ Len(ws[k]) <= n
    <3>1. ws[k] \in NonEmpty
      OBVIOUS
    <3>2. ws[k] \in Seq(Rune)
      BY <3>1 DEF NonEmpty
    <3> QED BY <3>2 DEF Within
  <2> HIDE DEF ss
  <2>3. CASE Len(ws[k]) >= 3
    <3> DEFINE m == Len(ws[k]) - 1
    <3>1. m \in Nat /\ m >= 2 /\ m <= n - 1
      BY <2>2, <2>3
    <3> HIDE DEF m
    <3>2. MPCut(d, ws[k], m) \in Seq(MPWords(d, m))
      BY <2>2, <3>1, MPCutIs
    <3>3. MPWords(d, m) \subseteq W
      <4>1. ASSUME NEW x \in MPWords(d, m) PROVE Len(x) <= n - 1 /\ x \in NonEmpty
        <5>1. x \in NonEmpty /\ (Len(x) > 1 => Len(x) <= m)
          BY DEF MPWords
        <5>2. Len(x) \in Nat
          BY <5>1 DEF NonEmpty
        <5> QED BY <3>1, <5>1, <5>2
      <4> QED BY <4>1
    <3>4. MPCut(d, ws[k], m) \in Seq(W)
      BY <3>2, <3>3, SeqMonotonic
    <3> QED BY <2>1, <2>3, <3>4 DEF m
  <2>4. CASE ~(Len(ws[k]) >= 3)
    BY <2>1, <2>4
  <2> QED BY <2>3, <2>4
<1>4. ss = [k \in 1..Len(ws) |-> ss[k]]
  BY <1>2
<1>w. W \subseteq NonEmpty /\ \A x \in W : Len(x) <= n - 1
  OBVIOUS
<1> HIDE DEF ss, W
<1>5. [k \in 1..Len(ws) |-> ss[k]] \in Seq(Seq(W))
  BY <1>2, <1>3
<1>6. FlattenSeq(ss) \in Seq(W)
  <2>1. ss \in Seq(Seq(W))
    BY <1>4, <1>5
  <2> QED BY <2>1, FlattenTyped
<1> DEFINE new == FlattenSeq(ss)
<1> HIDE DEF new
<1>7. new \in Seq(NonEmpty)
  BY <1>6, <1>w, SeqMonotonic DEF new
<1>8. Within(new, n - 1)
  <2>1. \A k \in 1..Len(new) : new[k] \in W
    BY <1>6 DEF new
  <2> QED BY <1>w, <2>1 DEF Within
<1> QED BY <1>1, <1>7, <1>8 DEF new

(* Where a sequence is in a row: behind those before it, before those      *)
(* behind it.                                                              *)
LEMMA WordPlace ==
    ASSUME NEW A, NEW ws \in Seq(Seq(A)), NEW k \in 1..Len(ws)
    PROVE  LET a == FlattenSeq(SubSeq(ws, 1, k - 1))
               b == FlattenSeq(SubSeq(ws, k + 1, Len(ws)))
           IN  /\ a \in Seq(A) /\ b \in Seq(A) /\ ws[k] \in Seq(A)
               /\ FlattenSeq(ws) = (a \o ws[k]) \o b
               /\ FlattenSeq(SubSeq(ws, 1, k)) = a \o ws[k]
<1> DEFINE front == SubSeq(ws, 1, k - 1)
           back == SubSeq(ws, k + 1, Len(ws))
           part == SubSeq(ws, 1, k)
           n == Len(ws)
<1>0. n \in Nat /\ k \in 1..n /\ k \in Int
  OBVIOUS
<1>1. front \in Seq(Seq(A)) /\ back \in Seq(Seq(A)) /\ part \in Seq(Seq(A))
  <2>1. 1 \in 1..n + 1 /\ k - 1 \in 1 - 1..n /\ k + 1 \in 1..n + 1 /\ n \in (k + 1) - 1..n
        /\ k \in 1 - 1..n
    BY <1>0
  <2> HIDE DEF n
  <2>2. SubSeq(ws, 1, k - 1) \in Seq(Seq(A)) /\ SubSeq(ws, 1, k) \in Seq(Seq(A))
    BY <2>1, SubIs DEF n
  <2>3. SubSeq(ws, k + 1, n) \in Seq(Seq(A))
    BY <2>1, SubIs DEF n
  <2> QED BY <2>2, <2>3 DEF n
<1>2. ws[k] \in Seq(A) /\ <<ws[k]>> \in Seq(Seq(A))
  <2>1. ws[k] \in Seq(A)
    OBVIOUS
  <2> QED BY <2>1
<1>3. part = front \o <<ws[k]>>
  <2>1. SubSeq(ws, 1, k - 1) \o SubSeq(ws, k, k) = SubSeq(ws, 1, k)
    <3>1. 1 \in 1..Len(ws) + 1 /\ k - 1 \in 1 - 1..Len(ws) /\ k \in (k - 1)..Len(ws)
          /\ (k - 1) + 1 = k
      BY <1>0
    <3> QED BY <3>1, ConcatAdjacentSubSeq, Z3
  <2>2. SubSeq(ws, k, k) = <<ws[k]>>
    BY SubOne
  <2> QED BY <2>1, <2>2
<1>4. ws = part \o back
  <2>1. SubSeq(ws, 1, k) \o SubSeq(ws, k + 1, n) = SubSeq(ws, 1, n)
    BY <1>0, ConcatAdjacentSubSeq
  <2>2. SubSeq(ws, 1, n) = ws
    BY SubSeqFull
  <2> QED BY <2>1, <2>2
<1> HIDE DEF front, back, part, n
<1>5. FlattenSeq(part) = FlattenSeq(front) \o ws[k]
  <2>1. FlattenSeq(front \o <<ws[k]>>) = FlattenSeq(front) \o FlattenSeq(<<ws[k]>>)
    BY <1>1, <1>2, FlattenConcat
  <2>2. FlattenSeq(<<ws[k]>>) = ws[k]
    BY <1>2, FlattenOne
  <2> QED BY <1>3, <2>1, <2>2
<1>6. FlattenSeq(ws) = FlattenSeq(part) \o FlattenSeq(back)
  <2>1. FlattenSeq(part \o back) = FlattenSeq(part) \o FlattenSeq(back)
    BY <1>1, FlattenConcat
  <2> QED BY <1>4, <2>1
<1>7. FlattenSeq(front) \in Seq(A) /\ FlattenSeq(back) \in Seq(A)
  BY <1>1, FlattenTyped
<1> QED BY <1>2, <1>5, <1>6, <1>7 DEF front, back, part, n

(* A word of a text is no longer than the text.                            *)
LEMMA WordFits ==
    ASSUME NEW W, NEW ws, NEW s, WordsOf(W, ws, s), NEW k \in 1..Len(ws)
    PROVE  Len(ws[k]) \in Nat /\ Len(ws[k]) <= Len(s)
<1>1. ws \in Seq(W) /\ W \subseteq Seq(Rune) /\ FlattenSeq(ws) = s
  BY DEF WordsOf
<1>2. ws \in Seq(Seq(Rune))
  BY <1>1, SeqMonotonic
<1> DEFINE a == FlattenSeq(SubSeq(ws, 1, k - 1))
           b == FlattenSeq(SubSeq(ws, k + 1, Len(ws)))
<1>3. a \in Seq(Rune) /\ b \in Seq(Rune) /\ ws[k] \in Seq(Rune) /\ s = (a \o ws[k]) \o b
  BY <1>1, <1>2, WordPlace
<1> HIDE DEF a, b
<1>4. a \o ws[k] \in Seq(Rune) /\ Len(a \o ws[k]) = Len(a) + Len(ws[k])
  BY <1>3, ConcatProperties
<1>5. Len(s) = Len(a \o ws[k]) + Len(b)
  BY <1>3, <1>4, ConcatProperties
<1>6. Len(a) \in Nat /\ Len(b) \in Nat /\ Len(ws[k]) \in Nat
  BY <1>3
<1> QED BY <1>4, <1>5, <1>6

-----------------------------------------------------------------------------
(* The prefilter.                                                          *)

\* A range of s is the runes behind position c up to position e: a separator
\* or runes without one, bounded by a separator or an end of s.
IsRange(s, c, e) ==
    /\ e \in c + 1..Len(s)
    /\ e = c + 1 \/ \A k \in c + 1..e : s[k] \notin symbols_
    /\ e = Len(s) \/ s[e] \in symbols_ \/ s[e + 1] \in symbols_

(* What PreFilter::Next returns is a range.                                *)
LEMMA NextRangeIs ==
    ASSUME sentence_ \in Seq(Rune), cursor \in 0..Len(sentence_), cursor < Len(sentence_)
    PROVE  IsRange(sentence_, cursor, NextRange)
<1> DEFINE n == Len(sentence_)
           run == {k \in DOMAIN sentence_ : sentence_[k] \notin symbols_}
           c == cursor
           end == EndOf(n, c + 1, run)
<1>1. n \in Nat /\ DOMAIN sentence_ = 1..n /\ c \in Nat /\ c < n /\ c + 1 \in 1..n
      /\ c + 1 \in 1..n + 1
  OBVIOUS
<1>2. NextRange = IF sentence_[c + 1] \in symbols_ THEN c + 1 ELSE end - 1
  BY DEF NextRange, RunEnd, EndOf
<1>3. run \subseteq 1..n
  BY <1>1
<1>r. \A k \in 1..n : k \in run <=> sentence_[k] \notin symbols_
  BY <1>1
<1> HIDE DEF n, run, c
<1>4. end \in c + 1..n + 1 /\ c + 1..end - 1 \subseteq run /\ end \notin run
  BY <1>1, <1>3, EndOfIs
<1> HIDE DEF end
<1>5. CASE sentence_[c + 1] \in symbols_
  <2>1. c + 1 \in c + 1..n
    BY <1>1
  <2> QED BY <1>2, <1>5, <2>1 DEF IsRange, n, c
<1>6. CASE sentence_[c + 1] \notin symbols_
  <2> DEFINE e == end - 1
  <2>1. c + 1 \in run
    BY <1>1, <1>6, <1>r
  <2>2. end # c + 1
    BY <1>4, <2>1
  <2>3. e \in c + 1..n /\ e + 1 = end
    BY <1>1, <1>4, <2>2
  <2>4. \A k \in c + 1..e : sentence_[k] \notin symbols_
    <3>1. ASSUME NEW k \in c + 1..e PROVE k \in run
      BY <1>4
    <3>2. ASSUME NEW k \in c + 1..e PROVE k \in 1..n
      BY <1>3, <3>1
    <3> QED BY <1>r, <3>1, <3>2
  <2>5. e = n \/ sentence_[e + 1] \in symbols_
    <3>1. SUFFICES ASSUME e # n PROVE sentence_[end] \in symbols_
      BY <2>3
    <3>2. end \in 1..n
      BY <1>1, <2>3, <3>1
    <3> QED BY <1>4, <1>r, <3>2
  <2>6. NextRange = e
    BY <1>2, <1>6
  <2> HIDE DEF e
  <2> QED BY <2>3, <2>4, <2>5, <2>6 DEF IsRange, n, c
<1> QED BY <1>5, <1>6

(* The text up to the end of a range is that up to its beginning and the   *)
(* range.                                                                  *)
LEMMA RangeJoins ==
    ASSUME NEW s \in Seq(Rune), NEW c \in 0..Len(s), NEW e \in c + 1..Len(s)
    PROVE  /\ SubSeq(s, 1, e) = SubSeq(s, 1, c) \o SubSeq(s, c + 1, e)
           /\ SubSeq(s, 1, e) \in Seq(Rune) /\ Len(SubSeq(s, 1, e)) = e
           /\ SubSeq(s, 1, c) \in Seq(Rune) /\ Len(SubSeq(s, 1, c)) = c
           /\ SubSeq(s, c + 1, e) \in Seq(Rune) /\ SubSeq(s, c + 1, e) # <<>>
           /\ Len(SubSeq(s, c + 1, e)) = e - c
<1>1. Len(s) \in Nat /\ c \in Nat /\ e \in Nat /\ c < e /\ e <= Len(s)
  OBVIOUS
<1>2. SubSeq(s, 1, c) \o SubSeq(s, c + 1, e) = SubSeq(s, 1, e)
  <2>1. 1 \in 1..Len(s) + 1 /\ c \in 1 - 1..Len(s) /\ e \in c..Len(s)
    BY <1>1
  <2> QED BY <2>1, ConcatAdjacentSubSeq
<1>3. SubSeq(s, 1, e) \in Seq(Rune) /\ Len(SubSeq(s, 1, e)) = e
  <2>1. 1 \in 1..Len(s) + 1 /\ e \in 1 - 1..Len(s) /\ (e - 1) + 1 = e
    BY <1>1
  <2> QED BY <2>1, SubIs
<1>4. SubSeq(s, 1, c) \in Seq(Rune) /\ Len(SubSeq(s, 1, c)) = c
  <2>1. 1 \in 1..Len(s) + 1 /\ c \in 1 - 1..Len(s) /\ (c - 1) + 1 = c
    BY <1>1
  <2> QED BY <2>1, SubIs
<1>5. SubSeq(s, c + 1, e) \in Seq(Rune) /\ Len(SubSeq(s, c + 1, e)) = e - c
  <2>1. c + 1 \in 1..Len(s) + 1 /\ e \in (c + 1) - 1..Len(s) /\ (e - (c + 1)) + 1 = e - c
    BY <1>1
  <2> QED BY <2>1, SubIs
<1>6. SubSeq(s, c + 1, e) # <<>>
  <2>1. Len(SubSeq(s, c + 1, e)) # 0
    BY <1>1, <1>5
  <2>2. Len(<<>>) = 0
    OBVIOUS
  <2> QED BY <2>1, <2>2
<1> QED BY <1>2, <1>3, <1>4, <1>5, <1>6

(* A range is one rune or has no separator.                                *)
LEMMA RangeSeparated ==
    ASSUME NEW s \in Seq(Rune), NEW c \in 0..Len(s), NEW e, IsRange(s, c, e)
    PROVE  LET r == SubSeq(s, c + 1, e)
           IN  Len(r) = 1 \/ Elems(r) \cap symbols_ = {}
<1> DEFINE r == SubSeq(s, c + 1, e)
<1>1. e \in c + 1..Len(s) /\ (e = c + 1 \/ \A k \in c + 1..e : s[k] \notin symbols_)
  BY DEF IsRange
<1>2. Len(s) \in Nat /\ c \in Nat /\ e \in Nat /\ c < e /\ e <= Len(s)
  BY <1>1
<1>3. Len(r) = e - c /\ \A k \in 1..e - c : r[k] = s[c + k]
  <2>1. c + 1 \in 1..Len(s) + 1 /\ e \in (c + 1) - 1..Len(s) /\ e - (c + 1) + 1 = e - c
    BY <1>2
  <2>2. \A k \in 1..e - c : (c + 1) + k - 1 = c + k
    BY <1>2
  <2>3. Len(r) = e - (c + 1) + 1 /\ \A k \in 1..e - (c + 1) + 1 : r[k] = s[(c + 1) + k - 1]
    BY <2>1, SubIs
  <2> QED BY <2>1, <2>2, <2>3
<1> HIDE DEF r
<1>4. CASE e = c + 1
  BY <1>2, <1>3, <1>4 DEF r
<1>5. CASE \A k \in c + 1..e : s[k] \notin symbols_
  <2>1. ASSUME NEW k \in 1..Len(r) PROVE r[k] \notin symbols_
    <3>1. r[k] = s[c + k] /\ c + k \in c + 1..e
      BY <1>2, <1>3
    <3> QED BY <1>5, <3>1
  <2>2. Elems(r) \cap symbols_ = {}
    BY <2>1 DEF Elems
  <2> QED BY <2>2 DEF r
<1> QED BY <1>1, <1>4, <1>5

(* The words of a range that are longer than a rune hold no separator.     *)
LEMMA WordsSeparated ==
    ASSUME NEW W, NEW ws, NEW r, WordsOf(W, ws, r),
           Len(r) = 1 \/ Elems(r) \cap symbols_ = {}
    PROVE  \A k \in 1..Len(ws) : Len(ws[k]) > 1 => Separated(ws[k])
<1> SUFFICES ASSUME NEW k \in 1..Len(ws), Len(ws[k]) > 1 PROVE Separated(ws[k])
  OBVIOUS
<1>1. Len(ws[k]) \in Nat /\ Len(ws[k]) <= Len(r)
  BY WordFits
<1>2. Elems(r) \cap symbols_ = {}
  <2> DEFINE m == Len(ws[k])
             n == Len(r)
  <2>1. m > 1 /\ m \in Nat /\ m <= n
    BY <1>1
  <2> HIDE DEF m, n
  <2>2. n # 1
    BY <2>1
  <2> QED BY <2>2 DEF n
<1>3. ws[k] \in Seq(Rune) /\ Elems(ws[k]) \subseteq Elems(r)
  BY WordInText
<1>4. DOMAIN ws[k] = 1..Len(ws[k])
  BY <1>3
<1>5. \A i \in DOMAIN ws[k] : ws[k][i] \in Elems(r)
  BY <1>3, <1>4 DEF Elems
<1> QED BY <1>2, <1>5 DEF Separated

-----------------------------------------------------------------------------
(* The full segmenter, range by range.                                     *)

\* us has every entry of 2 to MaxWordLength runes of s up to position c.
FoundUpTo(d, s, c, us) ==
    \A i \in 1..c : \A j \in i + 1..c :
        /\ j - i < MaxWordLength
        /\ FindUnit(d.trie, SubSeq(s, i, j)) # NULL /\ Separated(SubSeq(s, i, j))
        => SubSeq(s, i, j) \in Elems(us)

\* Position c is an end of s or beside a separator.
Boundary(s, c) ==
    c = 0 \/ c = Len(s) \/ s[c] \in symbols_ \/ s[c + 1] \in symbols_

(* With the full segmentation of the next range the entries up to its end  *)
(* are found: no entry without a separator crosses the boundary.           *)
LEMMA FoundOn ==
    ASSUME NEW d, DictOK(d), NEW s \in Seq(Rune), NEW c \in 0..Len(s), NEW e,
           IsRange(s, c, e), Boundary(s, c), NEW us \in Seq(NonEmpty), FoundUpTo(d, s, c, us)
    PROVE  FoundUpTo(d, s, e, us \o FullCut(d, SubSeq(s, c + 1, e)))
<1> DEFINE r == SubSeq(s, c + 1, e)
           full == FullCut(d, r)
           all == us \o full
<1>1. Len(s) \in Nat /\ c \in Nat /\ e \in Nat /\ c < e /\ e <= Len(s) /\ e \in c + 1..Len(s)
  BY DEF IsRange
<1>2. r \in Seq(Rune) /\ Len(r) = e - c
  BY <1>1, RangeJoins
<1>3. /\ full \in Seq(NonEmpty)
      /\ \A i \in 1..Len(r) : \A l \in 2..Len(r) - i + 1 :
            l <= MaxWordLength /\ FindUnit(d.trie, SubSeq(r, i, i + l - 1)) # NULL =>
                SubSeq(r, i, i + l - 1) \in Elems(full)
  <2> HIDE DEF r
  <2> QED BY <1>2, FullCutIs
<1> HIDE DEF full
<1>4. Elems(all) = Elems(us) \cup Elems(full)
  BY <1>3, ConcatElems
<1> HIDE DEF all
<1>5. SUFFICES ASSUME NEW i \in 1..e, NEW j \in i + 1..e, j - i < MaxWordLength,
                      FindUnit(d.trie, SubSeq(s, i, j)) # NULL, Separated(SubSeq(s, i, j))
               PROVE  SubSeq(s, i, j) \in Elems(all)
  BY DEF FoundUpTo, all, full, r
<1>6. i \in Nat /\ j \in Nat /\ 1 <= i /\ i < j /\ j <= e
  OBVIOUS
<1>7. CASE j <= c
  <2>1. i \in 1..c /\ j \in i + 1..c
    BY <1>1, <1>6, <1>7
  <2>2. SubSeq(s, i, j) \in Elems(us)
    BY <1>5, <2>1 DEF FoundUpTo
  <2> QED BY <1>4, <2>2
<1>8. CASE i > c
  <2> DEFINE a == i - c
             l == j - i + 1
  <2>1. a \in 1..Len(r) /\ l \in 2..Len(r) - a + 1 /\ l <= MaxWordLength
    BY <1>1, <1>2, <1>5, <1>6, <1>8 DEF MaxWordLength
  <2>2. SubSeq(r, a, a + l - 1) = SubSeq(s, i, j)
    <3>1. a + l - 1 = j - c /\ a \in 1..(e - c) + 1 /\ j - c \in a - 1..e - c
      BY <1>1, <1>6, <1>8
    <3>2. SubSeq(SubSeq(s, c + 1, e), a, j - c) = SubSeq(s, (c + 1) + a - 1, (c + 1) + (j - c) - 1)
      <4>1. c + 1 \in 1..Len(s) + 1 /\ e \in (c + 1) - 1..Len(s) /\ e - (c + 1) + 1 = e - c
        BY <1>1
      <4>2. a \in 1..(e - (c + 1) + 1) + 1 /\ j - c \in a - 1..e - (c + 1) + 1
        BY <3>1, <4>1
      <4> HIDE DEF a, l
      <4> QED BY <4>1, <4>2, SubSeqOfSubSeq
    <3>3. (c + 1) + a - 1 = i /\ (c + 1) + (j - c) - 1 = j
      BY <1>1, <1>6
    <3> QED BY <3>1, <3>2, <3>3
  <2> HIDE DEF a, l, r
  <2>3. SubSeq(r, a, a + l - 1) \in Elems(full)
    BY <1>3, <1>5, <2>1, <2>2
  <2> QED BY <1>4, <2>2, <2>3
<1>9. CASE i <= c /\ c < j
  <2>1. c # 0 /\ c # Len(s)
    BY <1>1, <1>6, <1>9
  <2>2. s[c] \in symbols_ \/ s[c + 1] \in symbols_
    BY <2>1 DEF Boundary
  <2> DEFINE p == SubSeq(s, i, j)
  <2>3. /\ p \in Seq(Rune) /\ Len(p) = j - i + 1
        /\ \A k \in 1..j - i + 1 : p[k] = s[i + k - 1]
    <3>1. i \in 1..Len(s) + 1 /\ j \in i - 1..Len(s)
      BY <1>1, <1>6
    <3> QED BY <3>1, SubIs
  <2>4. \A k \in 1..j - i + 1 : p[k] \notin symbols_
    <3>1. DOMAIN p = 1..j - i + 1
      BY <2>3
    <3> QED BY <1>5, <3>1 DEF Separated
  <2> HIDE DEF p
  <2>5. c - i + 1 \in 1..j - i + 1 /\ i + (c - i + 1) - 1 = c
    BY <1>1, <1>6, <1>9
  <2>6. c - i + 2 \in 1..j - i + 1 /\ i + (c - i + 2) - 1 = c + 1
    BY <1>1, <1>6, <1>9
  <2>7. s[c] \notin symbols_
    <3>1. p[c - i + 1] = s[i + (c - i + 1) - 1]
      BY <2>3, <2>5
    <3>2. p[c - i + 1] \notin symbols_
      BY <2>4, <2>5
    <3> QED BY <2>5, <3>1, <3>2
  <2>8. s[c + 1] \notin symbols_
    <3>1. p[c - i + 2] = s[i + (c - i + 2) - 1]
      BY <2>3, <2>6
    <3>2. p[c - i + 2] \notin symbols_
      BY <2>4, <2>6
    <3> QED BY <2>6, <3>1, <3>2
  <2> QED BY <2>2, <2>7, <2>8
<1> QED BY <1>1, <1>6, <1>7, <1>8, <1>9

-----------------------------------------------------------------------------
(* A request, from idle to its report.                                     *)

\* Words of the mix: longer ones are entries without a separator, or have no
\* rune that a user dictionary names.
KeptWords(d) ==
    {x \in NonEmpty : Len(x) > 1 => \/ FindUnit(d.trie, x) # NULL /\ Separated(x)
                                    \/ Elems(x) \cap d.singles = {}}

(* What a segmenter makes of a range.                                      *)
LEMMA CutRangeIs ==
    ASSUME DictOK(dict), method \in Methods, method # "level", NEW s \in Seq(Rune)
    PROVE  /\ CutRange(s) \in Seq(NonEmpty)
           /\ method \in Partition => FlattenSeq(CutRange(s)) = s
           /\ method = "mix" => WordsOf(MixWords(dict), CutRange(s), s)
           /\ method = "full" => CutRange(s) = FullCut(dict, s)
<1> HIDE DEF model
<1>1. SmallLen \in Nat /\ MaxWordLength \in Nat
  BY InputAssumption DEF MaxWordLength
<1>2. method \in {"small", "mp", "hmm", "mix", "full", "query"}
  BY InputAssumption
<1>3. \A x : x \in Seq(MixWords(dict)) => x \in Seq(NonEmpty)
  <2>1. MixWords(dict) \subseteq NonEmpty
    BY DEF MixWords
  <2> QED BY <2>1, SeqMonotonic
<1>4. CASE method = "small"
  <2>1. CutRange(s) = MPCut(dict, s, SmallLen)
    BY <1>4 DEF CutRange
  <2>2. MPCut(dict, s, SmallLen) \in Seq(MPWords(dict, SmallLen))
        /\ FlattenSeq(MPCut(dict, s, SmallLen)) = s
    BY <1>1, MPCutIs
  <2>3. MPWords(dict, SmallLen) \subseteq NonEmpty
    BY DEF MPWords
  <2>4. MPCut(dict, s, SmallLen) \in Seq(NonEmpty)
    BY <2>2, <2>3, SeqMonotonic
  <2> QED BY <1>4, <2>1, <2>2, <2>4
<1>5. CASE method = "mp"
  <2>1. CutRange(s) = MixCut(dict, model, s, FALSE)
    BY <1>5 DEF CutRange
  <2>2. WordsOf(MixWords(dict), MixCut(dict, model, s, FALSE), s)
    BY MixCutIs
  <2>3. CutRange(s) \in Seq(MixWords(dict)) /\ FlattenSeq(CutRange(s)) = s
    BY <2>1, <2>2 DEF WordsOf
  <2> QED BY <1>3, <1>5, <2>3
<1>6. CASE method = "hmm"
  <2>1. CutRange(s) = HMMCut(model, s)
    BY <1>6 DEF CutRange
  <2> QED BY <1>6, <2>1, HMMCutCovers
<1>7. CASE method = "mix"
  <2>1. CutRange(s) = MixCut(dict, model, s, TRUE)
    BY <1>7 DEF CutRange
  <2>2. WordsOf(MixWords(dict), MixCut(dict, model, s, TRUE), s)
    BY MixCutIs
  <2>3. CutRange(s) \in Seq(MixWords(dict)) /\ FlattenSeq(CutRange(s)) = s
    BY <2>1, <2>2 DEF WordsOf
  <2> QED BY <1>3, <1>7, <2>1, <2>2, <2>3
<1>8. CASE method = "full"
  <2>1. CutRange(s) = FullCut(dict, s)
    BY <1>8 DEF CutRange
  <2>2. method \notin Partition
    BY <1>8 DEF Partition
  <2> QED BY <1>8, <2>1, <2>2, FullCutIs
<1>9. CASE method = "query"
  <2>1. CutRange(s) = QueryCut(dict, model, s, TRUE, QueryLen)
    BY <1>9 DEF CutRange
  <2>2. method \notin Partition
    BY <1>9 DEF Partition
  <2> QED BY <1>9, <2>1, <2>2, QueryCutTyped
<1> QED BY <1>2, <1>4, <1>5, <1>6, <1>7, <1>8, <1>9

\* The states, and where the cut stands in the sentence.
Placed ==
    /\ pc \in {"idle", "cut", "words"} \cup Final
    /\ method \in Methods \cup {"none"}
    /\ pc = "idle" => method = "none"
    /\ pc = "cut" => method \in Methods
    /\ sentence_ \in Seq(Rune) /\ cursor \in 0..Len(sentence_)
    /\ Boundary(sentence_, cursor)

\* The words so far, by method.
CutSoFar ==
    /\ uwords \in Seq(NonEmpty)
    /\ TextCovered
    /\ method = "mix" => uwords \in Seq(KeptWords(dict))
    /\ method = "full" => FoundUpTo(dict, sentence_, cursor, uwords)

JInv == Placed /\ DictOK(dict) /\ CutSoFar

(* At first nothing is asked for and the dictionary is in order.           *)
LEMMA JInvInit == Init => JInv
<1> SUFFICES ASSUME Init PROVE JInv
  OBVIOUS
<1>1. PICK userDict \in UserDicts : dict = InitDict(DictLines, userDict)
  BY DEF Init
<1>2. userDict \in Seq(Seq(Byte)) /\ DictLines \in Seq(Seq(Byte))
  BY InputAssumption
<1>3. DictOK(dict)
  <2>1. /\ Loadable(DictLines)
        /\ \A unit \in ToSet(LoadDict(DictLines)) : unit.weight \in DOMAIN Log
        /\ Total(LoadDict(DictLines)) \in DOMAIN Log
    BY InputAssumption
  <2> QED BY <1>1, <1>2, <2>1, InitDictOK
<1>4. /\ pc = "idle" /\ method = "none" /\ sentence_ = <<>> /\ cursor = 0
      /\ uwords = <<>>
  BY DEF Init
<1>5. Placed
  <2>1. sentence_ \in Seq(Rune) /\ Len(sentence_) = 0
    BY <1>4
  <2>2. cursor \in 0..Len(sentence_)
    BY <1>4, <2>1
  <2> QED BY <1>4, <2>1, <2>2 DEF Placed, Boundary
<1>6. CutSoFar
  <2>1. uwords \in Seq(NonEmpty)
    BY <1>4
  <2> QED BY <1>4, <2>1 DEF CutSoFar, TextCovered, Partition
<1> QED BY <1>3, <1>5, <1>6 DEF JInv

(* A word added while nothing is cut.                                      *)
LEMMA JInvAddUserWord ==
    ASSUME JInv, NEW word \in UserWords, AddUserWord(word)
    PROVE  JInv'
<1>1. /\ pc = "idle" /\ dict' = InsertUserWord(dict, word, UNKNOWN_TAG)
      /\ UNCHANGED <<pc, method, sentence_, cursor, uwords, words, report>>
  BY DEF AddUserWord
<1>2. word \in Seq(Byte)
  BY InputAssumption
<1>3. DictOK(dict')
  <2>1. DictOK(dict)
    BY DEF JInv
  <2>2. DictOK(InsertUserWord(dict, word, UNKNOWN_TAG))
    BY <1>2, <2>1, InsertUserWordOK
  <2> QED BY <1>1, <2>2
<1>4. Placed'
  BY <1>1 DEF JInv, Placed
<1>5. method' = "none"
  BY <1>1 DEF JInv, Placed
<1>6. CutSoFar'
  <2>1. uwords' \in Seq(NonEmpty)
    BY <1>1 DEF JInv, CutSoFar
  <2> QED BY <1>5, <2>1 DEF CutSoFar, TextCovered, Partition
<1> QED BY <1>3, <1>4, <1>6 DEF JInv

(* A request begins.                                                       *)
LEMMA JInvCut ==
    ASSUME JInv, NEW m \in Methods, NEW sentence \in Sentences, Cut(m, sentence)
    PROVE  JInv'
<1>1. /\ pc' = "cut" /\ method' = m /\ sentence_' = Decode(sentence)
      /\ cursor' = 0 /\ uwords' = <<>> /\ dict' = dict
  BY DEF Cut
<1>2. sentence_' \in Seq(Rune)
  <2>1. sentence \in Seq(Byte)
    BY InputAssumption
  <2> QED BY <1>1, <2>1, DecodeTyped
<1>3. cursor' \in 0..Len(sentence_')
  <2>1. Len(sentence_') \in Nat
    BY <1>2
  <2> QED BY <1>1, <2>1
<1>4. Placed'
  BY <1>1, <1>2, <1>3 DEF Placed, Boundary
<1>5. CutSoFar'
  <2>1. uwords' \in Seq(NonEmpty) /\ uwords' \in Seq(KeptWords(dict'))
    BY <1>1
  <2>2. FlattenSeq(uwords') = Prefix'
    <3>1. SubSeq(sentence_', 1, 0) = <<>>
      BY <1>2, SubSeqEmpty
    <3>2. FlattenSeq(<<>>) = <<>>
      <4>1. <<>> \in Seq(Rune)
        OBVIOUS
      <4> QED BY <4>1, FlattenOne
    <3> QED BY <1>1, <3>1, <3>2 DEF Prefix
  <2>3. FoundUpTo(dict', sentence_', cursor', uwords')
    BY <1>1 DEF FoundUpTo
  <2> QED BY <2>1, <2>2, <2>3 DEF CutSoFar, TextCovered
<1>6. DictOK(dict')
  BY <1>1 DEF JInv
<1> QED BY <1>4, <1>5, <1>6 DEF JInv

(* What a step that neither cuts nor asks leaves of the invariant.         *)
LEMMA JInvLater ==
    ASSUME JInv, UNCHANGED <<dict, method, sentence_, cursor, uwords>>,
           pc' = pc \/ pc' \in {"words"} \cup Final
    PROVE  JInv'
<1>1. Placed'
  BY DEF JInv, Placed, Final
<1>2. DictOK(dict')
  BY DEF JInv
<1>3. CutSoFar'
  <2>1. Prefix' = Prefix
    BY DEF Prefix
  <2> QED BY <2>1 DEF JInv, CutSoFar, TextCovered
<1> QED BY <1>1, <1>2, <1>3 DEF JInv

(* CutLevel has no invariant of its words but that they are not empty.     *)
LEMMA JInvCutLevel ==
    ASSUME JInv, NEW sentence \in Sentences, CutLevel(sentence)
    PROVE  JInv'
<1>1. /\ pc' = "cut" /\ method' = "level" /\ "level" \in Methods
      /\ sentence_' = Decode(sentence) /\ cursor' = 0 /\ dict' = dict
      /\ uwords' = MPCut(dict, Decode(sentence), MaxWordLength)
  BY DEF CutLevel
<1>2. Decode(sentence) \in Seq(Rune)
  <2>1. sentence \in Seq(Byte)
    BY InputAssumption
  <2> QED BY <2>1, DecodeTyped
<1>3. cursor' \in 0..Len(sentence_') /\ sentence_' \in Seq(Rune)
  <2>1. Len(Decode(sentence)) \in Nat
    BY <1>2
  <2> QED BY <1>1, <1>2, <2>1
<1>4. Placed'
  BY <1>1, <1>3 DEF Placed, Boundary
<1>5. DictOK(dict) /\ DictOK(dict')
  BY <1>1 DEF JInv
<1>6. CutSoFar'
  <2>1. MaxWordLength \in Nat
    BY DEF MaxWordLength
  <2>2. MPCut(dict, Decode(sentence), MaxWordLength) \in Seq(MPWords(dict, MaxWordLength))
    BY <1>2, <1>5, <2>1, MPCutIs
  <2>3. MPWords(dict, MaxWordLength) \subseteq NonEmpty
    BY DEF MPWords
  <2>4. uwords' \in Seq(NonEmpty)
    BY <1>1, <2>2, <2>3, SeqMonotonic
  <2> QED BY <1>1, <2>4 DEF CutSoFar, TextCovered, Partition
<1> QED BY <1>4, <1>5, <1>6 DEF JInv

\* n is the length of the longest word of ws, 0 if it has none.
IsLongest(ws, n) ==
    /\ n \in Nat /\ Within(ws, n)
    /\ n = 0 \/ \E k \in 1..Len(ws) : Len(ws[k]) = n

(* A sequence of words has a longest one.                                  *)
LEMMA LongestIs ==
    ASSUME NEW ws \in Seq(NonEmpty)
    PROVE  IsLongest(ws, Longest(ws)) /\ (ws # <<>> => Longest(ws) >= 1)
<1> DEFINE n == Len(ws)
           neg == [k \in 1..n |-> -Len(ws[k])]
           T == {0} \cup {Len(ws[k]) : k \in DOMAIN ws}
<1>1. n \in Nat /\ DOMAIN ws = 1..n
  OBVIOUS
<1>2. ASSUME NEW k \in 1..n PROVE Len(ws[k]) \in Nat /\ Len(ws[k]) >= 1
  <2>1. ws[k] \in NonEmpty
    BY <1>1
  <2>2. ws[k] \in Seq(Rune) /\ ws[k] # <<>>
    BY <2>1 DEF NonEmpty
  <2> QED BY <2>2
<1>3. \E b \in Nat : \A k \in 1..n : Len(ws[k]) <= b
  <2>1. neg \in [1..n -> Int]
    BY <1>2
  <2>2. \A k \in 1..n : neg[k] = -Len(ws[k])
    OBVIOUS
  <2> HIDE DEF neg
  <2>3. PICK a \in Int : \A k \in 1..n : a <= neg[k]
    BY <1>1, <2>1, LowerBound
  <2> DEFINE b == IF a <= 0 THEN -a ELSE 0
  <2>4. b \in Nat
    OBVIOUS
  <2>5. ASSUME NEW k \in 1..n PROVE Len(ws[k]) <= b
    <3>1. a <= -Len(ws[k]) /\ Len(ws[k]) \in Nat
      BY <1>2, <2>2, <2>3
    <3> QED BY <3>1
  <2> QED BY <2>4, <2>5
<1>4. PICK b \in Nat : \A k \in 1..n : Len(ws[k]) <= b
  BY <1>3
<1>5. T \subseteq 0..b /\ T # {}
  <2>1. \A k \in 1..n : Len(ws[k]) \in 0..b
    BY <1>2, <1>4
  <2> QED BY <1>1, <2>1
<1>6. Longest(ws) = Max(T)
  BY DEF Longest
<1>7. \A x : x \in T <=> x = 0 \/ \E k \in 1..n : x = Len(ws[k])
  BY <1>1
<1> HIDE DEF n, neg, T
<1>8. Max(T) \in T /\ \A x \in T : x <= Max(T)
  BY <1>5, MaxFacts
<1>9. Max(T) \in Nat
  <2>1. \A x \in T : x \in Nat
    BY <1>5
  <2> QED BY <1>8, <2>1
<1>10. \A k \in 1..n : Len(ws[k]) <= Max(T)
  BY <1>7, <1>8
<1>11. Max(T) = 0 \/ \E k \in 1..n : Len(ws[k]) = Max(T)
  BY <1>7, <1>8
<1>12. ws # <<>> => Max(T) >= 1
  <2>1. SUFFICES ASSUME ws # <<>> PROVE Max(T) >= 1
    OBVIOUS
  <2>2. n # 0
    BY <2>1 DEF n
  <2>3. 1 \in 1..n
    BY <1>1, <2>2
  <2>4. Len(ws[1]) >= 1 /\ Len(ws[1]) <= Max(T) /\ Len(ws[1]) \in Nat
    BY <1>2, <1>10, <2>3
  <2> QED BY <1>9, <2>4
<1> QED BY <1>6, <1>9, <1>10, <1>11, <1>12 DEF IsLongest, Within, n

(* One level of CutLevel.                                                  *)
LEMMA JInvNextLevel ==
    ASSUME JInv, NextLevelStep
    PROVE  JInv' /\ Longest(uwords') < Longest(uwords)
<1>1. /\ pc = "cut" /\ method = "level" /\ uwords # <<>>
      /\ uwords' = NextLevel(dict, uwords)
      /\ UNCHANGED <<pc, dict, method, sentence_, cursor, words>>
  BY DEF NextLevelStep
<1>2. uwords \in Seq(NonEmpty) /\ DictOK(dict)
  BY DEF JInv, CutSoFar
<1> DEFINE n == Longest(uwords)
           new == NextLevel(dict, uwords)
<1>3. IsLongest(uwords, n) /\ n >= 1
  BY <1>1, <1>2, LongestIs
<1>4. n \in Nat /\ Within(uwords, n)
  BY <1>3 DEF IsLongest
<1> HIDE DEF n
<1>5. new \in Seq(NonEmpty) /\ Within(new, n - 1)
  BY <1>2, <1>4, NextLevelIs
<1> HIDE DEF new
<1>6. JInv'
  <2>1. Placed'
    BY <1>1 DEF JInv, Placed
  <2>2. DictOK(dict')
    BY <1>1, <1>2
  <2>3. uwords' \in Seq(NonEmpty) /\ method' = "level"
    BY <1>1, <1>5 DEF new
  <2>4. CutSoFar'
    BY <2>3 DEF CutSoFar, TextCovered, Partition
  <2> QED BY <2>1, <2>2, <2>4 DEF JInv
<1>7. Longest(new) < n
  <2> DEFINE l == Longest(new)
  <2>1. IsLongest(new, l)
    BY <1>5, LongestIs
  <2> HIDE DEF l
  <2>2. l \in Nat /\ (l = 0 \/ \E k \in 1..Len(new) : Len(new[k]) = l)
    BY <2>1 DEF IsLongest
  <2>3. l = 0 \/ l <= n - 1
    BY <1>5, <2>2 DEF Within
  <2>4. l < n
    BY <1>3, <1>4, <2>2, <2>3
  <2> QED BY <2>4 DEF l
<1> QED BY <1>1, <1>6, <1>7 DEF n, new

(* The words of a range for the mix are among those it may make.           *)
LEMMA MixKept ==
    ASSUME NEW d, NEW ws, NEW r \in Seq(Rune), WordsOf(MixWords(d), ws, r),
           Len(r) = 1 \/ Elems(r) \cap symbols_ = {}
    PROVE  ws \in Seq(KeptWords(d))
<1>1. ws \in Seq(MixWords(d))
  BY DEF WordsOf
<1>2. \A k \in 1..Len(ws) : Len(ws[k]) > 1 => Separated(ws[k])
  BY WordsSeparated
<1>3. ASSUME NEW k \in 1..Len(ws) PROVE ws[k] \in KeptWords(d)
  <2>1. ws[k] \in MixWords(d)
    BY <1>1
  <2>2. /\ ws[k] \in NonEmpty
        /\ Len(ws[k]) > 1 => \/ FindUnit(d.trie, ws[k]) # NULL
                             \/ Elems(ws[k]) \cap d.singles = {}
    BY <2>1 DEF MixWords
  <2> QED BY <1>2, <2>2 DEF KeptWords
<1>4. ws = [k \in 1..Len(ws) |-> ws[k]] /\ Len(ws) \in Nat
  BY <1>1
<1>5. [k \in 1..Len(ws) |-> ws[k]] \in Seq(KeptWords(d))
  BY <1>3, <1>4
<1> QED BY <1>4, <1>5

(* The prefilter's next range is cut.                                      *)
LEMMA JInvCutNext ==
    ASSUME JInv, CutNext
    PROVE  JInv' /\ cursor' > cursor
<1> DEFINE c == cursor
           e == NextRange
           r == SubSeq(sentence_, c + 1, e)
           new == CutRange(r)
<1>1. /\ pc = "cut" /\ method # "level" /\ c < Len(sentence_)
      /\ uwords' = uwords \o new /\ cursor' = e
      /\ UNCHANGED <<pc, dict, method, sentence_, words, report>>
  BY DEF CutNext
<1>2. /\ DictOK(dict) /\ method \in Methods
      /\ sentence_ \in Seq(Rune) /\ c \in 0..Len(sentence_) /\ Boundary(sentence_, c)
      /\ uwords \in Seq(NonEmpty)
  BY <1>1 DEF JInv, Placed, CutSoFar
<1>3. IsRange(sentence_, c, e)
  BY <1>1, <1>2, NextRangeIs
<1>4. e \in c + 1..Len(sentence_) /\ Boundary(sentence_, e)
  BY <1>3 DEF IsRange, Boundary
<1> HIDE DEF c, e
<1>5. /\ SubSeq(sentence_, 1, e) = SubSeq(sentence_, 1, c) \o r
      /\ r \in Seq(Rune)
  BY <1>2, <1>4, RangeJoins
<1>6. Len(r) = 1 \/ Elems(r) \cap symbols_ = {}
  BY <1>2, <1>3, RangeSeparated
<1> HIDE DEF r
<1>7. /\ new \in Seq(NonEmpty)
      /\ method \in Partition => FlattenSeq(new) = r
      /\ method = "mix" => WordsOf(MixWords(dict), new, r)
      /\ method = "full" => new = FullCut(dict, r)
  BY <1>1, <1>2, <1>5, CutRangeIs
<1> HIDE DEF new
<1>8. Placed'
  <2>1. e \in 0..Len(sentence_)
    BY <1>2, <1>4
  <2> QED BY <1>1, <1>2, <1>4, <2>1 DEF JInv, Placed
<1>9. DictOK(dict')
  BY <1>1, <1>2
<1>10. uwords' \in Seq(NonEmpty)
  BY <1>1, <1>2, <1>7, ConcatProperties
<1>11. TextCovered'
  <2>1. SUFFICES ASSUME method \in Partition PROVE FlattenSeq(uwords') = Prefix'
    BY <1>1 DEF TextCovered
  <2>2. FlattenSeq(uwords) = SubSeq(sentence_, 1, c)
    BY <2>1 DEF JInv, CutSoFar, TextCovered, Prefix, c
  <2>3. uwords \in Seq(Seq(Rune)) /\ new \in Seq(Seq(Rune))
    <3>1. NonEmpty \subseteq Seq(Rune)
      BY DEF NonEmpty
    <3> QED BY <1>2, <1>7, <3>1, SeqMonotonic
  <2>4. FlattenSeq(uwords \o new) = FlattenSeq(uwords) \o FlattenSeq(new)
    BY <2>3, FlattenConcat
  <2>5. Prefix' = SubSeq(sentence_, 1, e)
    BY <1>1 DEF Prefix
  <2> QED BY <1>1, <1>5, <1>7, <2>1, <2>2, <2>4, <2>5
<1>12. method' = "mix" => uwords' \in Seq(KeptWords(dict'))
  <2>1. SUFFICES ASSUME method = "mix" PROVE uwords \o new \in Seq(KeptWords(dict))
    BY <1>1
  <2>2. uwords \in Seq(KeptWords(dict))
    BY <2>1 DEF JInv, CutSoFar
  <2>3. new \in Seq(KeptWords(dict))
    BY <1>5, <1>6, <1>7, <2>1, MixKept
  <2> QED BY <2>2, <2>3, ConcatProperties
<1>13. method' = "full" => FoundUpTo(dict', sentence_', cursor', uwords')
  <2>1. SUFFICES ASSUME method = "full"
                 PROVE  FoundUpTo(dict, sentence_, e, uwords \o new)
    BY <1>1
  <2>2. FoundUpTo(dict, sentence_, c, uwords)
    BY <2>1 DEF JInv, CutSoFar, c
  <2>3. FoundUpTo(dict, sentence_, e, uwords \o FullCut(dict, SubSeq(sentence_, c + 1, e)))
    BY <1>2, <1>3, <2>2, FoundOn
  <2> QED BY <1>7, <2>1, <2>3 DEF r
<1>14. CutSoFar'
  BY <1>10, <1>11, <1>12, <1>13 DEF CutSoFar
<1>15. cursor' > cursor
  <2>1. e > c
    BY <1>2, <1>4
  <2> QED BY <1>1, <2>1 DEF c
<1> QED BY <1>8, <1>9, <1>14, <1>15 DEF JInv

(* Every step keeps the invariant.                                         *)
LEMMA JInvNext == JInv /\ [Next]_vars => JInv'
<1> SUFFICES ASSUME JInv, [Next]_vars PROVE JInv'
  OBVIOUS
<1>1. ASSUME NEW word \in UserWords, AddUserWord(word) PROVE JInv'
  BY <1>1, JInvAddUserWord
<1>2. ASSUME NEW m \in Methods, NEW sentence \in Sentences, Cut(m, sentence) PROVE JInv'
  BY <1>2, JInvCut
<1>3. CASE CutNext
  BY <1>3, JInvCutNext
<1>4. ASSUME NEW sentence \in Sentences, CutLevel(sentence) PROVE JInv'
  BY <1>4, JInvCutLevel
<1>5. CASE NextLevelStep
  BY <1>5, JInvNextLevel
<1>6. CASE CutEnd \/ LevelEnd \/ Locate \/ Tag \/ Extract \/ Done \/ UNCHANGED vars
  <2>1. /\ UNCHANGED <<dict, method, sentence_, cursor, uwords>>
        /\ pc' = pc \/ pc' \in {"words"} \cup Final
    BY <1>6 DEF CutEnd, LevelEnd, Locate, Tag, Extract, Done, vars, Final
  <2> QED BY <2>1, JInvLater
<1> QED BY <1>1, <1>2, <1>3, <1>4, <1>5, <1>6 DEF Next

(* The invariant always holds.                                             *)
LEMMA JInvAlways == Spec => []JInv
<1>1. Init => JInv
  BY JInvInit
<1>2. JInv /\ [Next]_vars => JInv'
  BY JInvNext
<1> QED BY <1>1, <1>2, PTL DEF Spec

(* The states of a request are of their types, the trie is closed under    *)
(* its paths and every entry is found under its own word, for every        *)
(* dictionary file that loads, user dictionary and added word.             *)
THEOREM RequestTyped == Spec => []TypeOK
<1>1. JInv => TypeOK
  <2> SUFFICES ASSUME JInv PROVE TypeOK
    OBVIOUS
  <2>1. \A i \in DOMAIN sentence_ : sentence_[i] \in 0..(8 * Power64(3) - 1)
    <3>1. sentence_ \in Seq(Rune)
      BY DEF JInv, Placed
    <3>2. \A i \in DOMAIN sentence_ : sentence_[i] \in Rune
      BY <3>1
    <3> QED BY <3>2 DEF Rune
  <2>2. \A node \in DOMAIN dict.trie :
            /\ dict.trie[node] # NULL => dict.units[dict.trie[node]].word = node
            /\ node # <<>> => Front(node) \in DOMAIN dict.trie
    BY DEF JInv, DictOK, TrieOK
  <2>3. \A i \in DOMAIN uwords : uwords[i] # <<>>
    <3>1. uwords \in Seq(NonEmpty)
      BY DEF JInv, CutSoFar
    <3>2. \A i \in DOMAIN uwords : uwords[i] \in NonEmpty
      BY <3>1
    <3> QED BY <3>2 DEF NonEmpty
  <2> QED BY <2>1, <2>2, <2>3 DEF TypeOK, JInv, Placed
<1> QED BY <1>1, JInvAlways, PTL

(* What the small, path, model and mixed segmenters have made so far is in *)
(* a row the sentence as far as it is cut: nothing is lost, repeated or    *)
(* reordered, whatever the sentence, the dictionaries and the model.       *)
THEOREM TextIsCovered == Spec => []TextCovered
<1>1. JInv => TextCovered
  BY DEF JInv, CutSoFar
<1> QED BY <1>1, JInvAlways, PTL

(* The full segmenter makes a word of every entry of 2 to MaxWordLength    *)
(* runes that occurs between separators.                                   *)
THEOREM EntriesAreFound == Spec => []EntriesFound
<1>1. JInv => EntriesFound
  <2> SUFFICES ASSUME JInv, method = "full",
                      NEW i \in 1..cursor, NEW j \in i + 1..cursor,
                      j - i < MaxWordLength, Entry(SubSeq(Prefix, i, j))
               PROVE  Contains(uwords, SubSeq(Prefix, i, j))
    BY DEF EntriesFound
  <2>1. /\ FoundUpTo(dict, sentence_, cursor, uwords) /\ uwords \in Seq(NonEmpty)
        /\ sentence_ \in Seq(Rune) /\ cursor \in 0..Len(sentence_)
    BY DEF JInv, CutSoFar, Placed
  <2>2. SubSeq(Prefix, i, j) = SubSeq(sentence_, i, j)
    <3>1. cursor \in Nat /\ i \in Nat /\ j \in Nat /\ 1 <= i /\ i < j /\ j <= cursor
          /\ cursor <= Len(sentence_) /\ Len(sentence_) \in Nat
      BY <2>1
    <3>2. /\ 1 \in 1..Len(sentence_) /\ cursor \in 1..Len(sentence_)
          /\ i \in 1..cursor - 1 + 1 /\ j \in 1..cursor - 1 + 1
          /\ 1 + i - 1 = i /\ 1 + j - 1 = j
      BY <3>1
    <3>3. SubSeq(SubSeq(sentence_, 1, cursor), i, j)
            = SubSeq(sentence_, 1 + i - 1, 1 + j - 1)
      BY <2>1, <3>2, SubSeqOfSubSeq
    <3> QED BY <3>2, <3>3 DEF Prefix
  <2>3. SubSeq(sentence_, i, j) \in Elems(uwords)
    BY <2>1, <2>2 DEF FoundUpTo, Entry
  <2> QED BY <2>2, <2>3 DEF Elems, Contains
<1> QED BY <1>1, JInvAlways, PTL

(* The mix has a rune that a user dictionary names in a longer word only   *)
(* when the word is an entry.                                              *)
THEOREM UserRunesAreKept == Spec => []UserRunesKept
<1>1. JInv => UserRunesKept
  <2> SUFFICES ASSUME JInv, method = "mix", NEW k \in DOMAIN uwords, Len(uwords[k]) > 1
               PROVE  \/ Entry(uwords[k])
                      \/ \A i \in DOMAIN uwords[k] : uwords[k][i] \notin dict.singles
    BY DEF UserRunesKept
  <2>1. uwords[k] \in KeptWords(dict)
    <3>1. uwords \in Seq(KeptWords(dict))
      BY DEF JInv, CutSoFar
    <3> QED BY <3>1
  <2>2. /\ uwords[k] \in NonEmpty
        /\ \/ FindUnit(dict.trie, uwords[k]) # NULL /\ Separated(uwords[k])
           \/ Elems(uwords[k]) \cap dict.singles = {}
    BY <2>1 DEF KeptWords
  <2>3. DOMAIN uwords[k] = 1..Len(uwords[k])
    BY <2>2 DEF NonEmpty
  <2> QED BY <2>2, <2>3 DEF Entry, Elems
<1> QED BY <1>1, JInvAlways, PTL

(* Every cut comes to its end: the prefilter always leaves less of the     *)
(* sentence, and the longest word of a level is always shorter.            *)
THEOREM CutsAdvance == Spec => CutAdvances
<1>1. JInv /\ [Next]_vars =>
        [pc = "cut" /\ pc' = "cut" =>
            IF method = "level" THEN Longest(uwords') < Longest(uwords)
            ELSE cursor' > cursor]_vars
  <2> SUFFICES ASSUME JInv, Next, pc = "cut", pc' = "cut"
               PROVE  \/ IF method = "level" THEN Longest(uwords') < Longest(uwords)
                         ELSE cursor' > cursor
                      \/ UNCHANGED vars
    OBVIOUS
  <2>1. CASE CutNext
    <3>1. method # "level"
      BY <2>1 DEF CutNext
    <3> QED BY <2>1, <3>1, JInvCutNext
  <2>2. CASE NextLevelStep
    <3>1. method = "level"
      BY <2>2 DEF NextLevelStep
    <3> QED BY <2>2, <3>1, JInvNextLevel
  <2>3. CASE ~CutNext /\ ~NextLevelStep
    <3>1. \A word \in UserWords : ~AddUserWord(word)
      BY DEF AddUserWord
    <3>2. \A m \in Methods, sentence \in Sentences : ~Cut(m, sentence)
      BY DEF Cut
    <3>3. \A sentence \in Sentences : ~CutLevel(sentence)
      BY DEF CutLevel
    <3>4. ~CutEnd /\ ~LevelEnd /\ ~Locate /\ ~Tag /\ ~Extract /\ ~Done
      BY DEF CutEnd, LevelEnd, Locate, Tag, Extract, Done, Final
    <3> QED BY <2>3, <3>1, <3>2, <3>3, <3>4 DEF Next
  <2> QED BY <2>1, <2>2, <2>3
<1> QED BY <1>1, JInvAlways, PTL DEF Spec, CutAdvances

-----------------------------------------------------------------------------
(* Where the words of a text end.                                          *)

\* How much of the text the first k words are.
EndAt(ws, k) == Len(FlattenSeq(SubSeq(ws, 1, k)))

\* The words of ws end at these positions of s, and are what lies between.
Ends(ws, s) ==
    /\ EndAt(ws, 0) = 0 /\ EndAt(ws, Len(ws)) = Len(s)
    /\ \A k \in 0..Len(ws) : EndAt(ws, k) \in 0..Len(s)
    /\ \A k \in 1..Len(ws) :
        /\ EndAt(ws, k) = EndAt(ws, k - 1) + Len(ws[k])
        /\ ws[k] = SubSeq(s, EndAt(ws, k - 1) + 1, EndAt(ws, k))

(* One word of a text lies between the end of the words before it and its  *)
(* own.                                                                    *)
LEMMA EndIs ==
    ASSUME NEW A, NEW ws \in Seq(Seq(A)), NEW k \in 1..Len(ws)
    PROVE  LET s == FlattenSeq(ws)
           IN  /\ EndAt(ws, k - 1) \in Nat
               /\ EndAt(ws, k) = EndAt(ws, k - 1) + Len(ws[k])
               /\ EndAt(ws, k) \in 0..Len(s)
               /\ ws[k] = SubSeq(s, EndAt(ws, k - 1) + 1, EndAt(ws, k))
<1> DEFINE a == FlattenSeq(SubSeq(ws, 1, k - 1))
           b == FlattenSeq(SubSeq(ws, k + 1, Len(ws)))
           s == FlattenSeq(ws)
           u == ws[k]
<1>1. /\ a \in Seq(A) /\ b \in Seq(A) /\ u \in Seq(A) /\ s = (a \o u) \o b
      /\ FlattenSeq(SubSeq(ws, 1, k)) = a \o u
  BY WordPlace
<1>2. EndAt(ws, k - 1) = Len(a) /\ EndAt(ws, k) = Len(a \o u)
  BY <1>1 DEF EndAt
<1> HIDE DEF a, b, s, u
<1>3. a \o u \in Seq(A) /\ Len(a \o u) = Len(a) + Len(u)
  BY <1>1, ConcatProperties
<1>4. /\ Len(s) = Len(a \o u) + Len(b)
      /\ \A i \in 1..Len(a \o u) : s[i] = (a \o u)[i]
  BY <1>1, <1>3, ConcatProperties
<1>5. Len(a) \in Nat /\ Len(b) \in Nat /\ Len(u) \in Nat
  BY <1>1
<1>6. s \in Seq(A)
  BY <1>1, <1>3, ConcatProperties
<1>7. u = SubSeq(s, Len(a) + 1, Len(a) + Len(u))
  <2> DEFINE p == SubSeq(s, Len(a) + 1, Len(a) + Len(u))
             i == Len(a) + 1
             j == Len(a) + Len(u)
  <2>1. i \in 1..Len(s) + 1 /\ j \in i - 1..Len(s) /\ j - i + 1 = Len(u)
    BY <1>3, <1>4, <1>5
  <2>i. \A k1 \in 1..Len(u) : i + k1 - 1 = Len(a) + k1
    BY <1>5
  <2> HIDE DEF i, j
  <2>2. /\ SubSeq(s, i, j) \in Seq(A) /\ Len(SubSeq(s, i, j)) = j - i + 1
        /\ \A k1 \in 1..j - i + 1 : SubSeq(s, i, j)[k1] = s[i + k1 - 1]
    BY <1>6, <2>1, SubIs
  <2>3. p \in Seq(A) /\ Len(p) = Len(u) /\ \A k1 \in 1..Len(u) : p[k1] = s[Len(a) + k1]
    <3>1. p = SubSeq(s, i, j)
      BY DEF i, j
    <3> QED BY <2>1, <2>2, <2>i, <3>1
  <2> HIDE DEF p
  <2>4. ASSUME NEW k1 \in 1..Len(u) PROVE u[k1] = s[Len(a) + k1]
    <3>1. Len(a) + k1 \in 1..Len(a \o u)
      BY <1>3, <1>5
    <3>2. (a \o u)[Len(a) + k1] = u[k1]
      BY <1>1, ConcatProperties
    <3> QED BY <1>4, <3>1, <3>2
  <2>5. \A k1 \in 1..Len(u) : u[k1] = p[k1]
    BY <2>3, <2>4
  <2>6. u = p
    BY <1>1, <2>3, <2>5, SeqEqual
  <2> QED BY <2>6 DEF p
<1>8. Len(a) + Len(u) \in 0..Len(s)
  BY <1>3, <1>4, <1>5
<1> QED BY <1>2, <1>3, <1>5, <1>7, <1>8 DEF s, u

(* The ends of the words of a text.                                        *)
LEMMA EndsAre ==
    ASSUME NEW A, NEW ws \in Seq(Seq(A))
    PROVE  Ends(ws, FlattenSeq(ws)) /\ FlattenSeq(ws) \in Seq(A)
<1> DEFINE n == Len(ws)
           s == FlattenSeq(ws)
<1>1. n \in Nat
  OBVIOUS
<1>2. s \in Seq(A)
  BY FlattenTyped
<1>3. EndAt(ws, 0) = 0
  <2>1. SubSeq(ws, 1, 0) = <<>>
    BY SubSeqEmpty
  <2>2. FlattenSeq(<<>>) = <<>>
    <3>1. <<>> \in Seq(A)
      OBVIOUS
    <3> QED BY <3>1, FlattenOne
  <2>3. Len(<<>>) = 0
    OBVIOUS
  <2> QED BY <2>1, <2>2, <2>3 DEF EndAt
<1>4. EndAt(ws, n) = Len(s)
  <2>1. SubSeq(ws, 1, n) = ws
    BY SubSeqFull
  <2> QED BY <2>1 DEF EndAt
<1>5. \A k \in 1..n : /\ EndAt(ws, k) = EndAt(ws, k - 1) + Len(ws[k])
                      /\ ws[k] = SubSeq(s, EndAt(ws, k - 1) + 1, EndAt(ws, k))
                      /\ EndAt(ws, k) \in 0..Len(s)
  BY EndIs
<1> HIDE DEF s, n
<1>6. \A k \in 0..n : EndAt(ws, k) \in 0..Len(s)
  <2>1. ASSUME NEW k \in 0..n PROVE EndAt(ws, k) \in 0..Len(s)
    <3>1. CASE k = 0
      <4>1. Len(s) \in Nat
        BY <1>2
      <4> QED BY <1>3, <3>1, <4>1
    <3>2. CASE k # 0
      <4>1. k \in 1..n
        BY <1>1, <3>2
      <4> QED BY <1>5, <4>1
    <3> QED BY <3>1, <3>2
  <2> QED BY <2>1
<1>7. Ends(ws, s)
  BY <1>3, <1>4, <1>5, <1>6 DEF Ends, n
<1> QED BY <1>2, <1>7 DEF s

\* The ends come one behind the other.
Rising(ws) == \A j, k \in 0..Len(ws) : j < k => EndAt(ws, j) < EndAt(ws, k)

(* Words that are not empty end one behind the other.                      *)
LEMMA EndsRise ==
    ASSUME NEW A, NEW ws \in Seq(Seq(A) \ {<<>>})
    PROVE  Rising(ws)
<1> DEFINE n == Len(ws)
<1>1. ws \in Seq(Seq(A)) /\ n \in Nat
  <2>1. Seq(A) \ {<<>>} \subseteq Seq(A)
    OBVIOUS
  <2> QED BY <2>1, SeqMonotonic
<1>2. Ends(ws, FlattenSeq(ws)) /\ FlattenSeq(ws) \in Seq(A)
  BY <1>1, EndsAre
<1>3. \A k \in 0..n : EndAt(ws, k) \in Nat
  BY <1>2 DEF Ends
<1>4. ASSUME NEW k \in 1..n PROVE EndAt(ws, k - 1) < EndAt(ws, k)
  <2>1. ws[k] \in Seq(A) /\ ws[k] # <<>>
    <3>1. ws[k] \in Seq(A) \ {<<>>}
      OBVIOUS
    <3> QED BY <3>1
  <2>2. Len(ws[k]) \in Nat /\ Len(ws[k]) # 0
    BY <2>1
  <2>3. EndAt(ws, k) = EndAt(ws, k - 1) + Len(ws[k])
    BY <1>2 DEF Ends
  <2>4. k - 1 \in 0..n
    BY <1>1
  <2>5. EndAt(ws, k - 1) \in Nat
    BY <1>3, <2>4
  <2> QED BY <2>2, <2>3, <2>5
<1> HIDE DEF n
<1>5. SUFFICES ASSUME NEW j \in 0..n, NEW k \in 0..n, j < k
               PROVE  EndAt(ws, j) < EndAt(ws, k)
  BY DEF Rising, n
<1> DEFINE T == {m \in 0..n : m > j => EndAt(ws, j) < EndAt(ws, m)}
<1>6. 0 \in T
  BY <1>1
<1>7. \A m \in 0..n : m < n /\ m \in T => m + 1 \in T
  <2> SUFFICES ASSUME NEW m \in 0..n, m < n, m \in T, m + 1 > j
               PROVE  EndAt(ws, j) < EndAt(ws, m + 1) /\ m + 1 \in 0..n
    BY <1>1
  <2>1. m + 1 \in 1..n /\ (m + 1) - 1 = m /\ m + 1 \in 0..n
    BY <1>1
  <2>2. EndAt(ws, m) < EndAt(ws, m + 1)
    BY <1>4, <2>1
  <2>3. m = j \/ EndAt(ws, j) < EndAt(ws, m)
    OBVIOUS
  <2>4. EndAt(ws, m) \in Nat /\ EndAt(ws, m + 1) \in Nat /\ EndAt(ws, j) \in Nat
    BY <1>3, <2>1
  <2> QED BY <2>1, <2>2, <2>3, <2>4
<1> HIDE DEF T
<1>8. \A m \in 0..n : m \in T
  BY <1>1, <1>6, <1>7, UpTo
<1> QED BY <1>5, <1>8 DEF T

-----------------------------------------------------------------------------
(* Encoded and decoded again.                                              *)

\* The runes of 20 bits.
LowRune == 0..(4 * Power64(3) - 1)

\* A rune of width w is carried by these bytes.
Carries(bytes, w, r) ==
    \/ w = 1 /\ bytes = <<r>> /\ r < 128
    \/ /\ w = 2
       /\ \E x, y \in 0..63 : r = x * 64 + y /\ x < 32 /\ bytes = <<192 + x, 128 + y>>
    \/ /\ w = 3
       /\ \E x, y, z \in 0..63 :
            /\ r = x * Power64(2) + y * 64 + z /\ x < 16
            /\ bytes = <<224 + x, 128 + y, 128 + z>>
    \/ /\ w = 4
       /\ \E x, y, z, u \in 0..63 :
            /\ r = x * Power64(3) + y * Power64(2) + z * 64 + u /\ x < 4
            /\ bytes = <<240 + x, 128 + y, 128 + z, 128 + u>>

(* The digits of a number to the base 64.                                  *)
LEMMA Digits64 ==
    ASSUME NEW r \in Nat
    PROVE  /\ r = (r \div 64) * 64 + (r % 64)
           /\ r \div 64 = (r \div 4096) * 64 + ((r \div 64) % 64)
           /\ r \div 4096 = (r \div 262144) * 64 + ((r \div 4096) % 64)
           /\ r % 64 \in 0..63 /\ (r \div 64) % 64 \in 0..63 /\ (r \div 4096) % 64 \in 0..63
           /\ r \div 64 \in Nat /\ r \div 4096 \in Nat /\ r \div 262144 \in Nat
<1>1. r = (r \div 64) * 64 + (r % 64) /\ r % 64 \in 0..63 /\ r \div 64 \in Nat
  BY SMT
<1>2. /\ r \div 64 = (r \div 4096) * 64 + ((r \div 64) % 64) /\ r \div 4096 \in Nat
      /\ (r \div 64) % 64 \in 0..63
  BY SMT
<1>3. /\ r \div 4096 = (r \div 262144) * 64 + ((r \div 4096) % 64) /\ r \div 262144 \in Nat
      /\ (r \div 4096) % 64 \in 0..63
  BY SMT
<1> QED BY <1>1, <1>2, <1>3, SMT

(* RuneBytes gives the bytes that carry a rune.                            *)
LEMMA RuneBytesAre ==
    ASSUME NEW r \in LowRune
    PROVE  \E w \in 1..4 : Carries(RuneBytes(r), w, r)
<1>1. r \in Nat /\ r < 1048576
  BY SMT, Powers DEF LowRune
<1>2. /\ r = (r \div 64) * 64 + (r % 64)
      /\ r \div 64 = (r \div 4096) * 64 + ((r \div 64) % 64)
      /\ r \div 4096 = (r \div 262144) * 64 + ((r \div 4096) % 64)
      /\ r % 64 \in 0..63 /\ (r \div 64) % 64 \in 0..63 /\ (r \div 4096) % 64 \in 0..63
      /\ r \div 64 \in Nat /\ r \div 4096 \in Nat /\ r \div 262144 \in Nat
  BY <1>1, Digits64
<1>3. CASE r < 128
  <2>1. RuneBytes(r) = <<r>>
    BY <1>3, SMT DEF RuneBytes
  <2>2. Carries(RuneBytes(r), 1, r)
    BY <1>3, <2>1 DEF Carries
  <2> QED BY <2>2
<1>4. CASE r >= 128 /\ r < 2048
  <2> DEFINE x == r \div 64
             y == r % 64
  <2>1. (r \div 64) % 32 = r \div 64 /\ r \div 64 < 32
    BY <1>1, <1>2, <1>4, SMT
  <2>2. r \div Power64(0) = r
    BY <1>1, Powers, SMT
  <2>3. RuneBytes(r) = <<192 + ((r \div 64) % 32), 128 + ((r \div Power64(0)) % 64)>>
    BY <1>1, <1>4, SMT DEF RuneBytes
  <2>6. RuneBytes(r) = <<192 + x, 128 + y>>
    BY <2>1, <2>2, <2>3, SMT
  <2>7. x \in 0..63 /\ x < 32
    <3>1. r \div 64 \in Nat /\ r \div 64 < 32
      BY <1>2, <2>1
    <3> HIDE DEF y
    <3>2. \A m \in Nat : m < 32 => m \in 0..63
      BY SMT
    <3> QED BY <3>1, <3>2
  <2>4. RuneBytes(r) = <<192 + x, 128 + y>> /\ x \in 0..63 /\ y \in 0..63 /\ x < 32
        /\ r = x * 64 + y
    BY <1>2, <2>6, <2>7
  <2> HIDE DEF x, y
  <2>5. Carries(RuneBytes(r), 2, r)
    BY <2>4 DEF Carries
  <2> QED BY <2>5
<1>5. CASE r >= 2048 /\ r < 65536
  <2> DEFINE x == r \div 4096
             y == (r \div 64) % 64
             z == r % 64
  <2>1. (r \div 4096) % 16 = r \div 4096 /\ r \div 4096 < 16
    BY <1>1, <1>2, <1>5, SMT
  <2>2. r \div Power64(0) = r /\ Power64(1) = 64 /\ Power64(2) = 4096
    BY <1>1, Powers, SMT
  <2>3. RuneBytes(r) = <<224 + ((r \div 4096) % 16), 128 + ((r \div Power64(1)) % 64),
                         128 + ((r \div Power64(0)) % 64)>>
    BY <1>1, <1>5, SMT DEF RuneBytes
  <2>4. RuneBytes(r) = <<224 + x, 128 + y, 128 + z>>
    BY <2>1, <2>2, <2>3, SMT
  <2>5. x \in 0..63 /\ y \in 0..63 /\ z \in 0..63 /\ x < 16
    <3>1. r \div 4096 \in Nat /\ r \div 4096 < 16
      BY <1>2, <2>1
    <3>2. \A m \in Nat : m < 16 => m \in 0..63
      BY SMT
    <3> QED BY <1>2, <3>1, <3>2
  <2>6. r = x * Power64(2) + y * 64 + z
    BY <1>2, <2>2, SMT
  <2> HIDE DEF x, y, z
  <2>7. Carries(RuneBytes(r), 3, r)
    BY <2>4, <2>5, <2>6 DEF Carries
  <2> QED BY <2>7
<1>6. CASE r >= 65536
  <2> DEFINE x == r \div 262144
             y == (r \div 4096) % 64
             z == (r \div 64) % 64
             u == r % 64
  <2>1. (r \div 262144) % 4 = r \div 262144 /\ r \div 262144 < 4
    BY <1>1, <1>2, SMT
  <2>2. r \div Power64(0) = r /\ Power64(1) = 64 /\ Power64(2) = 4096 /\ Power64(3) = 262144
    BY <1>1, Powers, SMT
  <2>3. RuneBytes(r) = <<240 + ((r \div 262144) % 4), 128 + ((r \div Power64(2)) % 64),
                         128 + ((r \div Power64(1)) % 64), 128 + ((r \div Power64(0)) % 64)>>
    BY <1>1, <1>6, SMT DEF RuneBytes
  <2>4. RuneBytes(r) = <<240 + x, 128 + y, 128 + z, 128 + u>>
    BY <2>1, <2>2, <2>3, SMT
  <2>5. x \in 0..63 /\ y \in 0..63 /\ z \in 0..63 /\ u \in 0..63 /\ x < 4
    <3>1. r \div 262144 \in Nat /\ r \div 262144 < 4
      BY <1>2, <2>1
    <3>2. \A m \in Nat : m < 4 => m \in 0..63
      BY SMT
    <3>3. y \in 0..63 /\ z \in 0..63 /\ u \in 0..63
      BY <1>2
    <3> HIDE DEF y, z, u
    <3>4. x \in 0..63 /\ x < 4
      BY <3>1, <3>2, SMT
    <3> QED BY <3>3, <3>4
  <2>6. r = x * Power64(3) + y * Power64(2) + z * 64 + u
    BY <1>2, <2>2, SMT
  <2> HIDE DEF x, y, z, u
  <2>7. Carries(RuneBytes(r), 4, r)
    BY <2>4, <2>5, <2>6 DEF Carries
  <2> QED BY <2>7
<1> QED BY <1>1, <1>3, <1>4, <1>5, <1>6, SMT

\* bytes stand in str from position p on.
StandsAt(str, p, bytes) ==
    /\ Len(str) \in Nat /\ p \in 1..Len(str) /\ p + Len(bytes) - 1 <= Len(str)
    /\ \A k \in 1..Len(bytes) : str[p + k - 1] = bytes[k]

(* The least width that admits the first byte.                             *)
LEMMA WidthIs ==
    ASSUME NEW str, Len(str) \in Nat, NEW p \in 1..Len(str), NEW w \in 1..4,
           p + w - 1 <= Len(str), str[p] \in Nat, str[p] < LeadBound[w],
           \A v \in 1..w - 1 : str[p] >= LeadBound[v]
    PROVE  SequenceWidth(str, p) = w
<1> DEFINE fits == {v \in 1..4 : str[p] < LeadBound[v] /\ p + v - 1 <= Len(str)}
<1>1. w \in fits
  OBVIOUS
<1>2. fits \subseteq Nat /\ fits # {}
  BY <1>1
<1>3. \A v \in 1..4 : LeadBound[v] \in Nat
  BY DEF LeadBound
<1>4. \A v \in fits : v \in 1..4 /\ str[p] < LeadBound[v]
  OBVIOUS
<1>5. SequenceWidth(str, p) = Min(fits)
  BY <1>2 DEF SequenceWidth
<1> HIDE DEF fits
<1>6. Min(fits) \in fits /\ \A v \in fits : Min(fits) <= v
  BY <1>2, MinFacts
<1> DEFINE m == Min(fits)
<1>7. m \in 1..4 /\ str[p] < LeadBound[m] /\ m <= w
  BY <1>1, <1>4, <1>6
<1> HIDE DEF m
<1>8. ~(m < w)
  <2>1. SUFFICES ASSUME m < w PROVE FALSE
    OBVIOUS
  <2>2. m \in 1..w - 1
    BY <1>7, <2>1
  <2>3. str[p] >= LeadBound[m] /\ LeadBound[m] \in Nat
    BY <1>3, <1>7, <2>2
  <2> QED BY <1>7, <2>3
<1>9. m = w
  BY <1>7, <1>8
<1> QED BY <1>5, <1>9 DEF m

(* Bytes that carry a rune are read as one sequence, and as that rune.     *)
LEMMA ReadBack ==
    ASSUME NEW str, NEW p, NEW bytes, StandsAt(str, p, bytes), NEW w \in 1..4,
           NEW r \in Nat, Carries(bytes, w, r)
    PROVE  Len(bytes) = w /\ SequenceWidth(str, p) = w /\ RuneAt(str, p, w) = r
<1>1. /\ Len(str) \in Nat /\ p \in 1..Len(str) /\ p + Len(bytes) - 1 <= Len(str)
      /\ \A k \in 1..Len(bytes) : str[p + k - 1] = bytes[k]
  BY DEF StandsAt
<1>2. LeadBound[1] = 128 /\ LeadBound[2] = 224 /\ LeadBound[3] = 240 /\ LeadBound[4] = 248
  BY DEF LeadBound
<1>3. LeadPayload[1] = 128 /\ LeadPayload[2] = 32 /\ LeadPayload[3] = 16 /\ LeadPayload[4] = 8
  BY DEF LeadPayload
<1>p. p \in Nat /\ p + 1 - 1 = p /\ p + 2 - 1 = p + 1 /\ p + 3 - 1 = p + 2 /\ p + 4 - 1 = p + 3
  BY <1>1
<1>w. w = 1 \/ w = 2 \/ w = 3 \/ w = 4
  OBVIOUS
<1>4. CASE w = 1
  <2>1. bytes = <<r>> /\ r < 128
    BY <1>4 DEF Carries
  <2>2. Len(bytes) = 1 /\ bytes[1] = r
    BY <2>1
  <2>3. str[p] = r
    BY <1>1, <1>p, <2>2
  <2>4. SequenceWidth(str, p) = 1
    <3>1. \A v \in 1..1 - 1 : str[p] >= LeadBound[v]
      OBVIOUS
    <3>2. p + 1 - 1 <= Len(str) /\ 1 \in 1..4
      BY <1>1, <2>2
    <3>3. str[p] \in Nat /\ str[p] < LeadBound[1]
      BY <1>2, <2>1, <2>3
    <3> QED BY <1>1, <3>1, <3>2, <3>3, WidthIs
  <2>5. RuneAt(str, p, 1) = str[p] % LeadPayload[1]
    BY DEF RuneAt
  <2>6. r % 128 = r
    BY <2>1
  <2> QED BY <1>3, <1>4, <2>2, <2>3, <2>4, <2>5, <2>6
<1>5. CASE w = 2
  <2>1. PICK x \in 0..63, y \in 0..63 :
            r = x * 64 + y /\ x < 32 /\ bytes = <<192 + x, 128 + y>>
    BY <1>5 DEF Carries
  <2>2. Len(bytes) = 2 /\ bytes[1] = 192 + x /\ bytes[2] = 128 + y
    BY <2>1
  <2>3. str[p] = 192 + x /\ str[p + 1] = 128 + y
    <3>1. str[p + 1 - 1] = bytes[1] /\ str[p + 2 - 1] = bytes[2]
      BY <1>1, <2>2
    <3> QED BY <1>p, <2>2, <3>1
  <2>4. SequenceWidth(str, p) = 2
    <3>1. \A v \in 1..2 - 1 : str[p] >= LeadBound[v]
      BY <1>2, <2>3
    <3>2. p + 2 - 1 <= Len(str) /\ 2 \in 1..4
      BY <1>1, <2>2
    <3>3. str[p] \in Nat /\ str[p] < LeadBound[2]
      BY <1>2, <2>1, <2>3
    <3> QED BY <1>1, <3>1, <3>2, <3>3, WidthIs
  <2>5. RuneAt(str, p, 2) = (str[p] % LeadPayload[2]) * 64 + (str[p + 1] % 64)
    BY DEF RuneAt
  <2>6. (192 + x) % 32 = x /\ (128 + y) % 64 = y
    BY <2>1
  <2>7. RuneAt(str, p, 2) = x * 64 + y
    BY <1>3, <2>3, <2>5, <2>6
  <2> QED BY <1>5, <2>1, <2>2, <2>4, <2>7
<1>6. CASE w = 3
  <2>0. w # 1 /\ w # 2 /\ w # 4
    BY <1>6
  <2>1. PICK x \in 0..63, y \in 0..63, z \in 0..63 :
            /\ r = x * Power64(2) + y * 64 + z /\ x < 16
            /\ bytes = <<224 + x, 128 + y, 128 + z>>
    BY <2>0 DEF Carries
  <2>2. Len(bytes) = 3 /\ bytes[1] = 224 + x /\ bytes[2] = 128 + y /\ bytes[3] = 128 + z
    BY <2>1
  <2>3. str[p] = 224 + x /\ str[p + 1] = 128 + y /\ str[p + 2] = 128 + z
    <3>1. str[p + 1 - 1] = bytes[1] /\ str[p + 2 - 1] = bytes[2] /\ str[p + 3 - 1] = bytes[3]
      BY <1>1, <2>2
    <3> QED BY <1>p, <2>2, <3>1
  <2>4. SequenceWidth(str, p) = 3
    <3>1. \A v \in 1..3 - 1 : str[p] >= LeadBound[v]
      <4>1. str[p] >= LeadBound[1] /\ str[p] >= LeadBound[2]
        BY <1>2, <2>3
      <4>2. \A v \in 1..3 - 1 : v = 1 \/ v = 2
        OBVIOUS
      <4> QED BY <4>1, <4>2
    <3>2. p + 3 - 1 <= Len(str) /\ 3 \in 1..4
      BY <1>1, <2>2
    <3>3. str[p] \in Nat /\ str[p] < LeadBound[3]
      BY <1>2, <2>1, <2>3
    <3> QED BY <1>1, <3>1, <3>2, <3>3, WidthIs
  <2>5. RuneAt(str, p, 3) = (str[p] % LeadPayload[3]) * Power64(2)
                            + (str[p + 1] % 64) * 64 + (str[p + 2] % 64)
    BY DEF RuneAt
  <2>6. (224 + x) % 16 = x /\ (128 + y) % 64 = y /\ (128 + z) % 64 = z
    BY <2>1
  <2>7. RuneAt(str, p, 3) = x * Power64(2) + y * 64 + z
    BY <1>3, <2>3, <2>5, <2>6
  <2> QED BY <1>6, <2>1, <2>2, <2>4, <2>7
<1>7. CASE w = 4
  <2>0. w # 1 /\ w # 2 /\ w # 3
    BY <1>7
  <2>1. PICK x \in 0..63, y \in 0..63, z \in 0..63, u \in 0..63 :
            /\ r = x * Power64(3) + y * Power64(2) + z * 64 + u /\ x < 4
            /\ bytes = <<240 + x, 128 + y, 128 + z, 128 + u>>
    BY <2>0 DEF Carries
  <2>2. /\ Len(bytes) = 4 /\ bytes[1] = 240 + x /\ bytes[2] = 128 + y
        /\ bytes[3] = 128 + z /\ bytes[4] = 128 + u
    BY <2>1
  <2>3. str[p] = 240 + x /\ str[p + 1] = 128 + y /\ str[p + 2] = 128 + z /\ str[p + 3] = 128 + u
    <3>1. /\ str[p + 1 - 1] = bytes[1] /\ str[p + 2 - 1] = bytes[2]
          /\ str[p + 3 - 1] = bytes[3] /\ str[p + 4 - 1] = bytes[4]
      BY <1>1, <2>2
    <3> QED BY <1>p, <2>2, <3>1
  <2>4. SequenceWidth(str, p) = 4
    <3>1. \A v \in 1..4 - 1 : str[p] >= LeadBound[v]
      <4>1. str[p] >= LeadBound[1] /\ str[p] >= LeadBound[2] /\ str[p] >= LeadBound[3]
        BY <1>2, <2>3
      <4>2. \A v \in 1..4 - 1 : v = 1 \/ v = 2 \/ v = 3
        OBVIOUS
      <4> QED BY <4>1, <4>2
    <3>2. p + 4 - 1 <= Len(str) /\ 4 \in 1..4
      BY <1>1, <2>2
    <3>3. str[p] \in Nat /\ str[p] < LeadBound[4]
      BY <1>2, <2>1, <2>3
    <3> QED BY <1>1, <3>1, <3>2, <3>3, WidthIs
  <2>5. RuneAt(str, p, 4) = (str[p] % LeadPayload[4]) * Power64(3)
                            + (str[p + 1] % 64) * Power64(2)
                            + (str[p + 2] % 64) * 64 + (str[p + 3] % 64)
    BY DEF RuneAt
  <2>6. /\ (240 + x) % 8 = x /\ (128 + y) % 64 = y /\ (128 + z) % 64 = z
        /\ (128 + u) % 64 = u
    BY <2>1
  <2>7. RuneAt(str, p, 4) = x * Power64(3) + y * Power64(2) + z * 64 + u
    BY <1>3, <2>3, <2>5, <2>6
  <2> QED BY <1>7, <2>1, <2>2, <2>4, <2>7
<1> QED BY <1>w, <1>4, <1>5, <1>6, <1>7

(* The bytes that carry a rune are at least one.                           *)
LEMMA CarriesBytes ==
    ASSUME NEW r, NEW w \in 1..4, NEW bytes, Carries(bytes, w, r), r \in Nat
    PROVE  bytes \in Seq(Nat) \ {<<>>}
<1>1. w = 1 \/ w = 2 \/ w = 3 \/ w = 4
  OBVIOUS
<1>2. CASE w = 1
  <2>0. w # 2 /\ w # 3 /\ w # 4
    BY <1>2
  <2>1. bytes = <<r>>
    BY <2>0 DEF Carries
  <2> QED BY <2>1
<1>3. CASE w = 2
  <2>0. w # 1 /\ w # 3 /\ w # 4
    BY <1>3
  <2>1. PICK x \in 0..63, y \in 0..63 :
            r = x * 64 + y /\ x < 32 /\ bytes = <<192 + x, 128 + y>>
    BY <2>0 DEF Carries
  <2>2. 192 + x \in Nat /\ 128 + y \in Nat
    OBVIOUS
  <2> QED BY <2>1, <2>2
<1>4. CASE w = 3
  <2>0. w # 1 /\ w # 2 /\ w # 4
    BY <1>4
  <2>1. PICK x \in 0..63, y \in 0..63, z \in 0..63 :
            /\ r = x * Power64(2) + y * 64 + z /\ x < 16
            /\ bytes = <<224 + x, 128 + y, 128 + z>>
    BY <2>0 DEF Carries
  <2>2. 224 + x \in Nat /\ 128 + y \in Nat /\ 128 + z \in Nat
    OBVIOUS
  <2> QED BY <2>1, <2>2
<1>5. CASE w = 4
  <2>0. w # 1 /\ w # 2 /\ w # 3
    BY <1>5
  <2>1. PICK x \in 0..63, y \in 0..63, z \in 0..63, u \in 0..63 :
            /\ r = x * Power64(3) + y * Power64(2) + z * 64 + u /\ x < 4
            /\ bytes = <<240 + x, 128 + y, 128 + z, 128 + u>>
    BY <2>0 DEF Carries
  <2>2. 240 + x \in Nat /\ 128 + y \in Nat /\ 128 + z \in Nat /\ 128 + u \in Nat
    OBVIOUS
  <2> QED BY <2>1, <2>2
<1> QED BY <1>1, <1>2, <1>3, <1>4, <1>5

(* Runes below 2^20 are decoded from the bytes they are encoded to.        *)
LEMMA RoundTrip ==
    ASSUME NEW runes \in Seq(LowRune)
    PROVE  Decode(Encode(runes)) = runes
<1> DEFINE n == Len(runes)
           bs == [i \in DOMAIN runes |-> RuneBytes(runes[i])]
           str == FlattenSeq(bs)
<1>1. n \in Nat /\ DOMAIN runes = 1..n
  OBVIOUS
<1>2. \A k \in 1..n : runes[k] \in LowRune /\ runes[k] \in Nat
  <2>1. \A r \in LowRune : r \in Nat
    BY SMT, Powers DEF LowRune
  <2> QED BY <1>1, <2>1
<1>3. Encode(runes) = str
  BY DEF Encode, Unicode32ToUtf8
<1>4. \A k \in 1..n : bs[k] = RuneBytes(runes[k])
  BY <1>1
<1>5. ASSUME NEW k \in 1..n
      PROVE  bs[k] \in Seq(Nat) \ {<<>>} /\ \E w \in 1..4 : Carries(bs[k], w, runes[k])
  <2>1. PICK w \in 1..4 : Carries(RuneBytes(runes[k]), w, runes[k])
    BY <1>2, RuneBytesAre
  <2>2. RuneBytes(runes[k]) \in Seq(Nat) \ {<<>>}
    BY <1>2, <2>1, CarriesBytes
  <2> QED BY <1>4, <2>1, <2>2
<1>6. bs = [k \in 1..n |-> bs[k]] /\ Len(bs) = n
  BY <1>1
<1> HIDE DEF bs
<1>7. bs \in Seq(Seq(Nat) \ {<<>>}) /\ bs \in Seq(Seq(Nat))
  <2>1. [k \in 1..n |-> bs[k]] \in Seq(Seq(Nat) \ {<<>>})
    BY <1>1, <1>5
  <2>2. Seq(Nat) \ {<<>>} \subseteq Seq(Nat)
    OBVIOUS
  <2>3. bs \in Seq(Seq(Nat) \ {<<>>})
    BY <1>6, <2>1
  <2> QED BY <2>2, <2>3, SeqMonotonic
<1>8. Ends(bs, str) /\ str \in Seq(Nat) /\ Rising(bs)
  BY <1>7, EndsAre, EndsRise
<1> HIDE DEF str
<1> DEFINE m == Len(str)
           e == [k \in 0..n |-> EndAt(bs, k)]
           made == ReadFrom(str)
           next == ReadNext(str)
<1>9. /\ Decode(str) = Walk(made, next)
      /\ Onward(next) /\ Len(next) = m
  BY <1>8, DecodeLoop
<1>10. /\ e[0] = 0 /\ e[n] = m /\ m \in Nat
       /\ \A k \in 0..n : e[k] \in 0..m
       /\ \A j, k \in 0..n : j < k => e[j] < e[k]
       /\ \A k \in 1..n : e[k] = e[k - 1] + Len(bs[k])
       /\ \A k \in 1..n : bs[k] = SubSeq(str, e[k - 1] + 1, e[k])
  <2>1. \A k \in 0..n : e[k] = EndAt(bs, k)
    OBVIOUS
  <2>2. \A k \in 1..n : k \in 0..n /\ k - 1 \in 0..n
    BY <1>1
  <2>3. 0 \in 0..n /\ n \in 0..n /\ m \in Nat
    BY <1>1, <1>8
  <2> HIDE DEF e
  <2>4. e[0] = 0 /\ e[n] = m /\ m \in Nat
    BY <1>6, <1>8, <2>1, <2>3 DEF Ends
  <2>5. \A k \in 0..n : e[k] \in 0..m
    BY <1>6, <1>8, <2>1 DEF Ends
  <2>6. \A j, k \in 0..n : j < k => e[j] < e[k]
    BY <1>6, <1>8, <2>1 DEF Rising
  <2>7. \A k \in 1..n : /\ e[k] = e[k - 1] + Len(bs[k])
                        /\ bs[k] = SubSeq(str, e[k - 1] + 1, e[k])
    BY <1>6, <1>8, <2>1, <2>2 DEF Ends
  <2> QED BY <2>4, <2>5, <2>6, <2>7
<1> DEFINE T == {RuneAt(str, i, SequenceWidth(str, i)) : i \in 1..m} \cup LowRune
           G == [p \in 1..m + 1 |->
                    {w \in Seq(T) : \A k \in 0..n : e[k] + 1 = p => w = SubSeq(runes, k + 1, n)}]
<1>11. runes \in Seq(T)
  <2>1. LowRune \subseteq T
    OBVIOUS
  <2> QED BY <2>1, SeqMonotonic
<1>12. <<>> \in G[m + 1]
  <2>1. ASSUME NEW k \in 0..n, e[k] + 1 = m + 1 PROVE SubSeq(runes, k + 1, n) = <<>>
    <3>1. ~(k < n)
      <4>1. k < n => e[k] < e[n]
        BY <1>1, <1>10
      <4> QED BY <1>10, <2>1, <4>1
    <3> HIDE DEF n, m, e
    <3>2. k = n
      BY <1>1, <3>1
    <3>3. SubSeq(runes, n + 1, n) = <<>>
      BY <1>1, SubSeqEmpty
    <3> QED BY <3>2, <3>3
  <2>2. m + 1 \in 1..m + 1
    BY <1>10
  <2>3. <<>> \in Seq(T)
    OBVIOUS
  <2> HIDE DEF T, e, m
  <2> QED BY <2>1, <2>2, <2>3
<1>13. ASSUME NEW i \in 1..m, NEW w \in G[next[i]] PROVE made[i] \o w \in G[i]
  <2>1. next[i] \in i + 1..m + 1 /\ DOMAIN str = 1..m
    BY <1>8, <1>9 DEF Onward
  <2>2. w \in Seq(T) /\ \A k \in 0..n : e[k] + 1 = next[i] => w = SubSeq(runes, k + 1, n)
    <3>1. next[i] \in 1..m + 1
      BY <1>10, <2>1
    <3> HIDE DEF T, e, next, m
    <3> QED BY <3>1
  <2>3. made[i] = IF SequenceWidth(str, i) = 0 THEN <<>>
                  ELSE <<RuneAt(str, i, SequenceWidth(str, i))>>
    BY <2>1 DEF ReadFrom
  <2>4. next[i] = IF SequenceWidth(str, i) = 0 THEN m + 1 ELSE i + SequenceWidth(str, i)
    BY <2>1 DEF ReadNext
  <2>5. made[i] \in Seq(T)
    <3> DEFINE x == RuneAt(str, i, SequenceWidth(str, i))
    <3>1. x \in T
      OBVIOUS
    <3> HIDE DEF x, T, made
    <3>2. <<x>> \in Seq(T) /\ <<>> \in Seq(T)
      BY <3>1
    <3> QED BY <2>3, <3>2 DEF x
  <2>6. made[i] \o w \in Seq(T)
    <3> HIDE DEF T, made
    <3> QED BY <2>2, <2>5, ConcatProperties
  <2>7. ASSUME NEW k \in 0..n, e[k] + 1 = i PROVE made[i] \o w = SubSeq(runes, k + 1, n)
    <3> HIDE DEF T, G, made, next
    <3>0. k < n
      <4>1. k = n => e[k] = m
        BY <1>10
      <4>2. e[k] # m
        BY <1>10, <2>7
      <4> QED BY <1>1, <4>1, <4>2
    <3> DEFINE c == k + 1
               b == bs[c]
    <3>1. c \in 1..n /\ c - 1 = k /\ c \in 0..n
      BY <1>1, <3>0
    <3>2. b \in Seq(Nat) /\ b # <<>>
      BY <1>5, <3>1
    <3>3. PICK v \in 1..4 : Carries(b, v, runes[c])
      BY <1>5, <3>1
    <3>4. /\ e[c] = e[k] + Len(b) /\ b = SubSeq(str, e[k] + 1, e[c])
          /\ e[c] \in 0..m /\ e[k] \in 0..m
      BY <1>10, <3>1
    <3> HIDE DEF e, c, b
    <3>5. Len(b) \in Nat /\ e[c] = i + Len(b) - 1 /\ b = SubSeq(str, i, e[c]) /\ e[c] <= m
      <4> DEFINE l == Len(b)
                 f == e[k]
                 g == e[c]
      <4>1. l \in Nat
        BY <3>2
      <4>2. g = f + l /\ f \in 0..m /\ g \in 0..m /\ f + 1 = i /\ m \in Nat
        BY <1>10, <2>7, <3>4
      <4>3. b = SubSeq(str, f + 1, g)
        BY <3>4
      <4> HIDE DEF l, f, g, m
      <4>4. g = i + l - 1 /\ g <= m
        BY <4>1, <4>2
      <4> QED BY <4>1, <4>2, <4>3, <4>4 DEF l, f, g
    <3>6. StandsAt(str, i, b)
      <4> DEFINE j == e[c]
      <4>1. Len(b) # 0
        BY <3>2
      <4>2. i \in 1..Len(str) + 1 /\ j \in i - 1..Len(str) /\ j - i + 1 = Len(b)
        BY <1>10, <3>5
      <4> HIDE DEF j
      <4>3. \A l \in 1..j - i + 1 : SubSeq(str, i, j)[l] = str[i + l - 1]
        BY <1>8, <4>2, SubIs
      <4>4. \A l \in 1..Len(b) : str[i + l - 1] = b[l]
        BY <3>5, <4>2, <4>3 DEF j
      <4>5. Len(str) \in Nat /\ i \in 1..Len(str) /\ i + Len(b) - 1 <= Len(str)
        BY <1>10, <3>5
      <4> QED BY <4>4, <4>5 DEF StandsAt
    <3>7. runes[c] \in Nat /\ runes[c] \in LowRune
      BY <1>2, <3>1
    <3>8. Len(b) = v /\ SequenceWidth(str, i) = v /\ RuneAt(str, i, v) = runes[c]
      BY <3>3, <3>6, <3>7, ReadBack
    <3>9. v # 0
      OBVIOUS
    <3>10. made[i] = <<runes[c]>>
      BY <2>3, <3>8, <3>9
    <3>11. next[i] = e[c] + 1
      <4>1. next[i] = i + v
        BY <2>4, <3>8, <3>9
      <4> QED BY <1>10, <3>5, <3>8, <4>1
    <3>12. w = SubSeq(runes, c + 1, n)
      BY <2>2, <3>1, <3>11
    <3>13. SubSeq(runes, c, c) = <<runes[c]>>
      BY <3>1, SubOne
    <3>14. SubSeq(runes, c, c) \o SubSeq(runes, c + 1, n) = SubSeq(runes, c, n)
      <4>1. c \in 1..n + 1 /\ c \in c - 1..n /\ n \in c..n
        BY <1>1, <3>1
      <4> HIDE DEF m, e
      <4> QED BY <4>1, ConcatAdjacentSubSeq
    <3> QED BY <3>10, <3>12, <3>13, <3>14 DEF c
  <2>8. i \in 1..m + 1
    BY <1>10
  <2> HIDE DEF T, made, e, m
  <2> QED BY <2>6, <2>7, <2>8
<1>14. Walk(made, next) \in G[1]
  <2> HIDE DEF G, made, next, m
  <2> QED BY <1>9, <1>12, <1>13, WalkInduction
<1>15. Walk(made, next) = SubSeq(runes, 0 + 1, n)
  <2>1. 1 \in 1..m + 1 /\ 0 \in 0..n /\ e[0] + 1 = 1
    BY <1>1, <1>10
  <2> HIDE DEF T, made, next, e, m
  <2> QED BY <1>14, <2>1
<1>16. SubSeq(runes, 1, n) = runes
  BY SubSeqFull
<1> QED BY <1>3, <1>9, <1>15, <1>16

-----------------------------------------------------------------------------
(* Locate.                                                                 *)

\* f is the recursion by which Locate counts the runes.
Begins(ws, f) ==
    f = [i \in 1..Len(ws) + 1 |-> IF i = 1 THEN 0 ELSE f[i - 1] + Len(Decode(ws[i - 1]))]

\* Words of runes that are encoded without loss.
LowWords == Seq(LowRune) \ {<<>>}

(* The words encoded.                                                      *)
LEMMA EncodedWords ==
    ASSUME NEW ws \in Seq(LowWords)
    PROVE  /\ DOMAIN EncodeAll(ws) = 1..Len(ws) /\ Len(EncodeAll(ws)) = Len(ws)
           /\ \A k \in 1..Len(ws) : Decode(EncodeAll(ws)[k]) = ws[k]
<1>1. Len(ws) \in Nat /\ DOMAIN ws = 1..Len(ws)
  OBVIOUS
<1>2. ASSUME NEW k \in 1..Len(ws) PROVE Decode(EncodeAll(ws)[k]) = ws[k]
  <2>1. EncodeAll(ws)[k] = Encode(ws[k])
    BY <1>1 DEF EncodeAll
  <2>2. ws[k] \in LowWords
    OBVIOUS
  <2>3. ws[k] \in Seq(LowRune)
    BY <2>2 DEF LowWords
  <2> QED BY <2>1, <2>3, RoundTrip
<1>3. DOMAIN EncodeAll(ws) = 1..Len(ws) /\ Len(EncodeAll(ws)) = Len(ws)
  BY <1>1 DEF EncodeAll
<1> QED BY <1>2, <1>3

(* Locate counts, before each word, how much of the text the words before  *)
(* it are.                                                                 *)
LEMMA BeginsAre ==
    ASSUME NEW ws \in Seq(LowWords)
    PROVE  LET begin == CHOOSE f : Begins(EncodeAll(ws), f)
           IN  \A k \in 0..Len(ws) : begin[k + 1] = EndAt(ws, k)
<1> DEFINE n == Len(ws)
           enc == EncodeAll(ws)
           F == [i \in 1..n + 1 |-> EndAt(ws, i - 1)]
           begin == CHOOSE f : Begins(enc, f)
<1>1. n \in Nat /\ DOMAIN ws = 1..n
  OBVIOUS
<1>2. Len(enc) = n /\ \A k \in 1..n : Decode(enc[k]) = ws[k]
  BY EncodedWords
<1>3. EndAt(ws, 0) = 0 /\ \A k \in 1..n : EndAt(ws, k) = EndAt(ws, k - 1) + Len(ws[k])
  <2>1. LowWords \subseteq Seq(LowRune)
    BY DEF LowWords
  <2>2. ws \in Seq(Seq(LowRune))
    BY <2>1, SeqMonotonic
  <2>3. Ends(ws, FlattenSeq(ws))
    BY <2>2, EndsAre
  <2> QED BY <2>3 DEF Ends
<1> HIDE DEF enc, n
<1>4. Begins(enc, F)
  <2>1. ASSUME NEW i \in 1..n + 1
        PROVE  F[i] = IF i = 1 THEN 0 ELSE F[i - 1] + Len(Decode(enc[i - 1]))
    <3>1. F[i] = EndAt(ws, i - 1)
      OBVIOUS
    <3>2. CASE i = 1
      <4>1. i - 1 = 0
        BY <3>2
      <4> QED BY <1>3, <3>1, <3>2, <4>1
    <3>3. CASE i # 1
      <4>1. i - 1 \in 1..n /\ i - 1 \in 1..n + 1
        BY <1>1, <3>3
      <4>2. F[i - 1] = EndAt(ws, (i - 1) - 1)
        BY <4>1
      <4>3. EndAt(ws, i - 1) = EndAt(ws, (i - 1) - 1) + Len(ws[i - 1])
        BY <1>3, <4>1
      <4>4. Decode(enc[i - 1]) = ws[i - 1]
        BY <1>2, <4>1
      <4> QED BY <3>1, <3>3, <4>2, <4>3, <4>4
    <3> QED BY <3>2, <3>3
  <2>2. F = [i \in 1..n + 1 |-> F[i]]
    OBVIOUS
  <2> HIDE DEF F
  <2>3. F = [i \in 1..n + 1 |-> IF i = 1 THEN 0 ELSE F[i - 1] + Len(Decode(enc[i - 1]))]
    BY <2>1, <2>2
  <2> QED BY <1>2, <2>3 DEF Begins
<1> HIDE DEF F
<1>5. Begins(enc, begin)
  BY <1>4
<1> HIDE DEF begin
<1>6. begin = [i \in 1..n + 1 |->
                IF i = 1 THEN 0 ELSE begin[i - 1] + Len(Decode(enc[i - 1]))]
  BY <1>2, <1>5 DEF Begins
<1>7. \A i \in 1..n + 1 :
        begin[i] = IF i = 1 THEN 0 ELSE begin[i - 1] + Len(Decode(enc[i - 1]))
  BY <1>6
<1> DEFINE T == {k \in 0..n : begin[k + 1] = EndAt(ws, k)}
<1>8. 0 \in T
  <2>1. 0 \in 0..n /\ 0 + 1 = 1 /\ 1 \in 1..n + 1
    BY <1>1
  <2> QED BY <1>3, <1>7, <2>1
<1>9. \A k \in 0..n : k < n /\ k \in T => k + 1 \in T
  <2> SUFFICES ASSUME NEW k \in 0..n, k < n, k \in T PROVE k + 1 \in T
    OBVIOUS
  <2>1. /\ k + 1 \in 0..n /\ k + 1 \in 1..n /\ (k + 1) + 1 \in 1..n + 1 /\ (k + 1) + 1 # 1
        /\ ((k + 1) + 1) - 1 = k + 1 /\ (k + 1) - 1 = k
    BY <1>1
  <2>2. begin[(k + 1) + 1] = begin[((k + 1) + 1) - 1] + Len(Decode(enc[((k + 1) + 1) - 1]))
    BY <1>7, <2>1
  <2>3. begin[(k + 1) + 1] = begin[k + 1] + Len(ws[k + 1])
    BY <1>2, <2>1, <2>2
  <2>4. EndAt(ws, k + 1) = EndAt(ws, (k + 1) - 1) + Len(ws[k + 1])
    BY <1>3, <2>1
  <2>5. begin[k + 1] = EndAt(ws, k)
    OBVIOUS
  <2>6. begin[(k + 1) + 1] = EndAt(ws, k + 1)
    BY <2>1, <2>3, <2>4, <2>5
  <2> QED BY <2>1, <2>6
<1> HIDE DEF T
<1>10. \A k \in 0..n : k \in T
  BY <1>1, <1>8, <1>9, UpTo
<1>11. \A k \in 0..n : begin[k + 1] = EndAt(ws, k)
  BY <1>10 DEF T
<1> QED BY <1>11 DEF begin, enc, n

\* What Locate starts from, and what it leaves.
Located ==
    /\ pc = "words" /\ method \in Partition => words = EncodeAll(uwords)
    /\ PositionsMatch

(* The positions Locate gives are those of the words.                      *)
LEMMA LocatePositions ==
    ASSUME JInv, words = EncodeAll(uwords), method \in Partition, Locate,
           \A i \in DOMAIN sentence_ : sentence_[i] < 4 * Power64(3)
    PROVE  \A i \in DOMAIN report' :
            /\ report'[i].end <= cursor
            /\ SubSeq(sentence_, report'[i].begin + 1, report'[i].end)
                = Decode(report'[i].word)
<1> DEFINE n == Len(uwords)
           begin == CHOOSE f : Begins(words, f)
<1>1. /\ uwords \in Seq(NonEmpty) /\ sentence_ \in Seq(Rune) /\ cursor \in 0..Len(sentence_)
      /\ FlattenSeq(uwords) = Prefix
  BY DEF JInv, CutSoFar, Placed, TextCovered
<1>2. Prefix \in Seq(Rune) /\ Len(Prefix) = cursor
      /\ \A k \in 1..cursor : Prefix[k] = sentence_[k]
  <2>1. 1 \in 1..Len(sentence_) + 1 /\ cursor \in 1 - 1..Len(sentence_) /\ cursor - 1 + 1 = cursor
        /\ \A k \in 1..cursor : 1 + k - 1 = k
    BY <1>1
  <2>2. /\ SubSeq(sentence_, 1, cursor) \in Seq(Rune)
        /\ Len(SubSeq(sentence_, 1, cursor)) = cursor - 1 + 1
        /\ \A k \in 1..cursor - 1 + 1 : SubSeq(sentence_, 1, cursor)[k] = sentence_[1 + k - 1]
    BY <1>1, <2>1, SubIs
  <2> QED BY <2>1, <2>2 DEF Prefix
<1>3. uwords \in Seq(LowWords)
  <2>1. Elems(Prefix) \subseteq LowRune
    <3>1. ASSUME NEW k \in 1..cursor PROVE Prefix[k] \in LowRune
      <4>1. k \in DOMAIN sentence_ /\ sentence_[k] \in Rune
        BY <1>1
      <4>2. \A r \in Rune : r < 4 * Power64(3) => r \in LowRune
        BY SMT, Powers DEF Rune, LowRune
      <4>3. sentence_[k] < 4 * Power64(3)
        BY <4>1
      <4> QED BY <1>2, <4>1, <4>2, <4>3
    <3> QED BY <1>2, <3>1 DEF Elems
  <2>2. WordsOf(NonEmpty, uwords, Prefix)
    BY <1>1 DEF WordsOf, NonEmpty
  <2>3. ASSUME NEW k \in 1..n PROVE uwords[k] \in LowWords
    <3>1. uwords[k] \in NonEmpty /\ uwords[k] \in Seq(Rune) /\ Elems(uwords[k]) \subseteq LowRune
      BY <2>1, <2>2, WordInText
    <3> DEFINE u == uwords[k]
    <3>2. u = [i \in 1..Len(u) |-> u[i]] /\ Len(u) \in Nat
      BY <3>1
    <3>3. \A i \in 1..Len(u) : u[i] \in LowRune
      BY <3>1 DEF Elems
    <3> HIDE DEF u
    <3>4. [i \in 1..Len(u) |-> u[i]] \in Seq(LowRune)
      BY <3>2, <3>3
    <3> QED BY <3>1, <3>2, <3>4 DEF u, LowWords, NonEmpty
  <2>4. uwords = [k \in 1..n |-> uwords[k]] /\ n \in Nat
    BY <1>1
  <2>5. [k \in 1..n |-> uwords[k]] \in Seq(LowWords)
    BY <2>3, <2>4
  <2> QED BY <2>4, <2>5
<1>4. /\ DOMAIN words = 1..n
      /\ \A k \in 1..n : Decode(words[k]) = uwords[k]
  BY <1>3, EncodedWords
<1>5. \A k \in 0..n : begin[k + 1] = EndAt(uwords, k)
  BY <1>3, BeginsAre
<1>6. report' = [i \in DOMAIN words |->
                    [word |-> words[i], begin |-> begin[i], end |-> begin[i + 1]]]
  BY DEF Locate, Begins
<1> HIDE DEF begin
<1>7. Ends(uwords, Prefix) /\ Rising(uwords)
  <2>1. uwords \in Seq(Seq(Rune)) /\ uwords \in Seq(Seq(Rune) \ {<<>>})
    <3>1. NonEmpty \subseteq Seq(Rune) /\ NonEmpty = Seq(Rune) \ {<<>>}
      BY DEF NonEmpty
    <3> QED BY <1>1, <3>1, SeqMonotonic
  <2> QED BY <1>1, <2>1, EndsAre, EndsRise
<1>8. SUFFICES ASSUME NEW i \in 1..n
               PROVE  /\ report'[i].end <= cursor
                      /\ SubSeq(sentence_, report'[i].begin + 1, report'[i].end)
                          = Decode(report'[i].word)
  BY <1>4, <1>6
<1> DEFINE a == EndAt(uwords, i - 1)
           b == EndAt(uwords, i)
<1>9. n \in Nat /\ i - 1 \in 0..n /\ i \in 0..n /\ i - 1 < i /\ (i - 1) + 1 = i
  BY <1>1
<1>10. report'[i].word = words[i] /\ report'[i].begin = a /\ report'[i].end = b
  <2>1. report'[i] = [word |-> words[i], begin |-> begin[i], end |-> begin[i + 1]]
    BY <1>4, <1>6
  <2>2. begin[i] = a /\ begin[i + 1] = b
    BY <1>5, <1>9
  <2> HIDE DEF a, b
  <2> QED BY <2>1, <2>2
<1>11. a \in 0..cursor /\ b \in 0..cursor /\ uwords[i] = SubSeq(Prefix, a + 1, b)
  BY <1>2, <1>7, <1>9 DEF Ends
<1>12. a < b
  BY <1>7, <1>9 DEF Rising
<1> HIDE DEF a, b, n
<1>13. SubSeq(Prefix, a + 1, b) = SubSeq(sentence_, a + 1, b)
  <2> DEFINE x == a + 1
             c == cursor
  <2>1. /\ 1 \in 1..Len(sentence_) /\ c \in 1..Len(sentence_)
        /\ x \in 1..c - 1 + 1 /\ b \in 1..c - 1 + 1
        /\ 1 + x - 1 = x /\ 1 + b - 1 = b
    BY <1>1, <1>11, <1>12
  <2> HIDE DEF x, c
  <2>2. SubSeq(SubSeq(sentence_, 1, c), x, b) = SubSeq(sentence_, 1 + x - 1, 1 + b - 1)
    BY <1>1, <2>1, SubSeqOfSubSeq
  <2>3. SubSeq(SubSeq(sentence_, 1, c), x, b) = SubSeq(sentence_, x, b)
    BY <2>1, <2>2
  <2> QED BY <2>3 DEF Prefix, x, c
<1>14. b <= cursor
  BY <1>1, <1>11
<1> QED BY <1>4, <1>10, <1>11, <1>13, <1>14

(* Every step keeps the positions.                                         *)
LEMMA LocatedNext == JInv /\ Located /\ [Next]_vars => Located'
<1> SUFFICES ASSUME JInv, Located, [Next]_vars PROVE Located'
  OBVIOUS
<1>1. CASE UNCHANGED vars
  BY <1>1 DEF Located, PositionsMatch, vars
<1>2. CASE Locate
  <2>1. /\ pc = "words" /\ pc' = "located"
        /\ UNCHANGED <<dict, method, sentence_, cursor, uwords, words>>
    BY <1>2 DEF Locate
  <2>2. PositionsMatch'
    <3>1. SUFFICES ASSUME method \in Partition,
                          \A i \in DOMAIN sentence_ : sentence_[i] < 4 * Power64(3)
                   PROVE  \A i \in DOMAIN report' :
                            /\ report'[i].end <= cursor
                            /\ SubSeq(sentence_, report'[i].begin + 1, report'[i].end)
                                = Decode(report'[i].word)
      BY <2>1 DEF PositionsMatch
    <3>2. words = EncodeAll(uwords)
      BY <2>1, <3>1 DEF Located
    <3> QED BY <1>2, <3>1, <3>2, LocatePositions
  <2> QED BY <2>1, <2>2 DEF Located
<1>3. CASE CutEnd
  <2>1. pc' = "words" /\ words' = EncodeAll(uwords) /\ uwords' = uwords
    BY <1>3 DEF CutEnd
  <2> QED BY <2>1 DEF Located, PositionsMatch
<1>4. CASE Done
  BY <1>4 DEF Done, Located, PositionsMatch, vars
<1>5. CASE pc' \notin {"words", "located"}
  BY <1>5 DEF Located, PositionsMatch
<1>6. ASSUME NEW word \in UserWords, AddUserWord(word) PROVE pc' \notin {"words", "located"}
  BY <1>6 DEF AddUserWord
<1>7. ASSUME NEW m \in Methods, NEW sentence \in Sentences, Cut(m, sentence)
      PROVE  pc' \notin {"words", "located"}
  BY <1>7 DEF Cut
<1>8. ASSUME NEW sentence \in Sentences, CutLevel(sentence)
      PROVE  pc' \notin {"words", "located"}
  BY <1>8 DEF CutLevel
<1>9. CutNext \/ NextLevelStep \/ LevelEnd \/ Tag \/ Extract => pc' \notin {"words", "located"}
  BY DEF CutNext, NextLevelStep, LevelEnd, Tag, Extract
<1> QED BY <1>1, <1>2, <1>3, <1>4, <1>5, <1>6, <1>7, <1>8, <1>9 DEF Next

(* The positions that Locate gives the words of the small, path, model and *)
(* mixed segmenters are theirs in the sentence, although Locate counts the *)
(* runes of the words encoded and decoded again.                           *)
THEOREM PositionsAreTrue == Spec => []PositionsMatch
<1>1. Init => Located
  BY DEF Init, Located, PositionsMatch
<1>2. Located => PositionsMatch
  BY DEF Located
<1> QED BY <1>1, <1>2, LocatedNext, JInvAlways, PTL DEF Spec

-----------------------------------------------------------------------------
(* What a segmentation weighs.                                             *)

\* What a word weighs: an entry its weight, any other the least weight.
WordWeight(d, word) ==
    IF FindUnit(d.trie, word) = NULL THEN d.minWeight
    ELSE d.units[FindUnit(d.trie, word)].weight

\* f[k] is what the first k words weigh.
Weighs(d, ws, f) ==
    f = [k \in 0..Len(ws) |-> IF k = 0 THEN 0 ELSE f[k - 1] + WordWeight(d, ws[k])]
WeightSum(d, ws) == (CHOOSE f : Weighs(d, ws, f))[Len(ws)]

\* The same, as facts to reason with.
Weights(d, ws, f) ==
    /\ f \in [0..Len(ws) -> Int] /\ f[0] = 0
    /\ \A k \in 1..Len(ws) : f[k] = f[k - 1] + WordWeight(d, ws[k])

(* Words weigh integers.                                                   *)
LEMMA WordWeightInt ==
    ASSUME NEW d, DictOK(d), NEW word
    PROVE  WordWeight(d, word) \in Int
<1> DEFINE unit == FindUnit(d.trie, word)
<1>1. unit # NULL => d.units[unit].weight \in Int
  BY FindUnitIs
<1>2. d.minWeight \in Int
  BY DEF DictOK
<1> QED BY <1>1, <1>2 DEF WordWeight

(* The recursion is defined and its values are integers.                   *)
LEMMA WeightSumIs ==
    ASSUME NEW d, DictOK(d), NEW ws, Len(ws) \in Nat
    PROVE  \E f : Weights(d, ws, f) /\ WeightSum(d, ws) = f[Len(ws)]
<1> DEFINE n == Len(ws)
           step == [x \in Int \X (1..n) |-> x[1] + WordWeight(d, ws[x[2]])]
<1>1. step \in [Int \X (1..n) -> Int]
  <2>1. ASSUME NEW x \in Int \X (1..n) PROVE x[1] + WordWeight(d, ws[x[2]]) \in Int
    <3>1. x[1] \in Int /\ WordWeight(d, ws[x[2]]) \in Int
      BY WordWeightInt
    <3> QED BY <3>1
  <2> QED BY <2>1
<1>2. \A a \in Int, k \in 1..n : step[<<a, k>>] = a + WordWeight(d, ws[k])
  OBVIOUS
<1> HIDE DEF step, n
<1>3. n \in Nat
  BY DEF n
<1>4. 0 \in Int
  OBVIOUS
<1>5. PICK f : Recurs(n, Int, 0, step, f)
  BY <1>1, <1>3, <1>4, RecursExists
<1>6. /\ f \in [0..n -> Int] /\ f[0] = 0
      /\ \A k \in 1..n : f[k] = step[<<f[k - 1], k>>]
  BY <1>5 DEF Recurs
<1>7. ASSUME NEW k \in 1..n PROVE f[k] = f[k - 1] + WordWeight(d, ws[k])
  <2>1. k - 1 \in 0..n
    BY <1>3
  <2>2. f[k - 1] \in Int
    BY <1>6, <2>1
  <2> QED BY <1>2, <1>6, <2>2
<1>8. Weighs(d, ws, f)
  <2>1. f = [k \in 0..n |-> f[k]]
    BY <1>6
  <2>2. \A k \in 0..n : f[k] = IF k = 0 THEN 0 ELSE f[k - 1] + WordWeight(d, ws[k])
    <3>1. ASSUME NEW k \in 0..n, k # 0 PROVE k \in 1..n
      BY <1>3, <3>1
    <3> QED BY <1>6, <1>7, <3>1
  <2>3. f = [k \in 0..n |-> IF k = 0 THEN 0 ELSE f[k - 1] + WordWeight(d, ws[k])]
    BY <2>1, <2>2
  <2> QED BY <2>3 DEF Weighs, n
<1> DEFINE g == CHOOSE h : Weighs(d, ws, h)
<1>9. Weighs(d, ws, g) /\ WeightSum(d, ws) = g[n]
  BY <1>8 DEF WeightSum, n
<1> HIDE DEF g
<1>10. g = [k \in 0..n |-> IF k = 0 THEN 0 ELSE g[k - 1] + WordWeight(d, ws[k])]
  BY <1>9 DEF Weighs, n
<1>11. \A k \in 0..n : g[k] = IF k = 0 THEN 0 ELSE g[k - 1] + WordWeight(d, ws[k])
  BY <1>10
<1> DEFINE T == {k \in 0..n : g[k] = f[k]}
<1>12. 0 \in T
  BY <1>3, <1>6, <1>11
<1>13. \A k \in 0..n : k < n /\ k \in T => k + 1 \in T
  <2> SUFFICES ASSUME NEW k \in 0..n, k < n, k \in T PROVE k + 1 \in T
    OBVIOUS
  <2>1. k + 1 \in 0..n /\ k + 1 \in 1..n /\ k + 1 # 0 /\ (k + 1) - 1 = k
    BY <1>3
  <2>2. g[k + 1] = g[k] + WordWeight(d, ws[k + 1])
    BY <1>11, <2>1
  <2>3. f[k + 1] = f[k] + WordWeight(d, ws[k + 1])
    BY <1>7, <2>1
  <2> QED BY <2>1, <2>2, <2>3
<1> HIDE DEF T
<1>14. \A k \in 0..n : k \in T
  BY <1>3, <1>12, <1>13, UpTo
<1>15. g[n] = f[n]
  BY <1>3, <1>14 DEF T
<1>16. Weights(d, ws, f)
  BY <1>6, <1>7 DEF Weights, n
<1> QED BY <1>9, <1>15, <1>16 DEF n

(* Words weigh in a row what they weigh together.                          *)
LEMMA WeightConcat ==
    ASSUME NEW d, DictOK(d), NEW a \in Seq(NonEmpty), NEW b \in Seq(NonEmpty)
    PROVE  /\ WeightSum(d, a \o b) = WeightSum(d, a) + WeightSum(d, b)
           /\ WeightSum(d, a) \in Int /\ WeightSum(d, b) \in Int
<1> DEFINE c == a \o b
           m == Len(a)
           n == Len(b)
<1>1. /\ c \in Seq(NonEmpty) /\ Len(c) = m + n /\ m \in Nat /\ n \in Nat
      /\ \A k \in 1..m : c[k] = a[k]
      /\ \A k \in 1..n : c[m + k] = b[k]
  BY ConcatProperties
<1>2. Len(a) \in Nat /\ Len(b) \in Nat /\ Len(c) \in Nat
  BY <1>1
<1> HIDE DEF c
<1>3. PICK f : Weights(d, a, f) /\ WeightSum(d, a) = f[Len(a)]
  BY <1>2, WeightSumIs
<1>4. PICK g : Weights(d, b, g) /\ WeightSum(d, b) = g[Len(b)]
  BY <1>2, WeightSumIs
<1>5. PICK h : Weights(d, c, h) /\ WeightSum(d, c) = h[Len(c)]
  BY <1>2, WeightSumIs
<1>6. /\ f \in [0..m -> Int] /\ f[0] = 0
      /\ \A k \in 1..m : f[k] = f[k - 1] + WordWeight(d, a[k])
  BY <1>3 DEF Weights
<1>7. /\ g \in [0..n -> Int] /\ g[0] = 0
      /\ \A k \in 1..n : g[k] = g[k - 1] + WordWeight(d, b[k])
  BY <1>4 DEF Weights
<1>8. /\ h \in [0..m + n -> Int] /\ h[0] = 0
      /\ \A k \in 1..m + n : h[k] = h[k - 1] + WordWeight(d, c[k])
  BY <1>1, <1>5 DEF Weights
<1> HIDE DEF m, n
<1>9. \A k \in 0..m : h[k] = f[k]
  <2> DEFINE T == {k \in 0..m : h[k] = f[k]}
  <2>1. 0 \in T
    BY <1>1, <1>6, <1>8
  <2>2. \A k \in 0..m : k < m /\ k \in T => k + 1 \in T
    <3> SUFFICES ASSUME NEW k \in 0..m, k < m, k \in T PROVE k + 1 \in T
      OBVIOUS
    <3>1. k + 1 \in 0..m /\ k + 1 \in 1..m /\ k + 1 \in 1..m + n /\ (k + 1) - 1 = k
      BY <1>1
    <3>2. h[k + 1] = h[k] + WordWeight(d, c[k + 1]) /\ c[k + 1] = a[k + 1]
      BY <1>1, <1>8, <3>1
    <3>3. f[k + 1] = f[k] + WordWeight(d, a[k + 1])
      BY <1>6, <3>1
    <3> QED BY <3>1, <3>2, <3>3
  <2> HIDE DEF T
  <2>3. \A k \in 0..m : k \in T
    BY <1>1, <2>1, <2>2, UpTo
  <2> QED BY <2>3 DEF T
<1>10. \A k \in 0..n : h[m + k] = f[m] + g[k]
  <2> DEFINE T == {k \in 0..n : h[m + k] = f[m] + g[k]}
  <2>1. 0 \in T
    <3>1. m \in 0..m /\ m + 0 = m /\ 0 \in 0..n
      BY <1>1
    <3>2. f[m] \in Int
      BY <1>6, <3>1
    <3>3. h[m] = f[m] + 0
      BY <1>9, <3>1, <3>2
    <3> QED BY <1>7, <3>1, <3>3
  <2>2. \A k \in 0..n : k < n /\ k \in T => k + 1 \in T
    <3> SUFFICES ASSUME NEW k \in 0..n, k < n, k \in T PROVE k + 1 \in T
      OBVIOUS
    <3>1. /\ k + 1 \in 0..n /\ k + 1 \in 1..n /\ m + (k + 1) \in 1..m + n
          /\ (k + 1) - 1 = k /\ (m + (k + 1)) - 1 = m + k
      BY <1>1
    <3>2. /\ h[m + (k + 1)] = h[m + k] + WordWeight(d, c[m + (k + 1)])
          /\ c[m + (k + 1)] = b[k + 1]
      <4>1. h[m + (k + 1)] = h[(m + (k + 1)) - 1] + WordWeight(d, c[m + (k + 1)])
        BY <1>8, <3>1
      <4> QED BY <1>1, <3>1, <4>1
    <3>3. g[k + 1] = g[k] + WordWeight(d, b[k + 1])
      BY <1>7, <3>1
    <3>4. h[m + k] = f[m] + g[k]
      OBVIOUS
    <3>5. f[m] \in Int /\ g[k] \in Int /\ WordWeight(d, b[k + 1]) \in Int
      <4>1. m \in 0..m
        BY <1>1
      <4> QED BY <1>6, <1>7, <4>1, WordWeightInt
    <3> DEFINE x == f[m]
               y == g[k]
               z == WordWeight(d, b[k + 1])
    <3>6. h[m + (k + 1)] = (x + y) + z /\ g[k + 1] = y + z
      BY <3>2, <3>3, <3>4
    <3>7. (x + y) + z = x + (y + z)
      <4> HIDE DEF x, y, z
      <4>1. x \in Int /\ y \in Int /\ z \in Int
        BY <3>5 DEF x, y, z
      <4> QED BY <4>1
    <3> HIDE DEF y, z
    <3> QED BY <3>1, <3>6, <3>7
  <2> HIDE DEF T
  <2>3. \A k \in 0..n : k \in T
    BY <1>1, <2>1, <2>2, UpTo
  <2> QED BY <2>3 DEF T
<1>11. h[m + n] = f[m] + g[n] /\ f[m] \in Int /\ g[n] \in Int
  <2>1. n \in 0..n /\ m \in 0..m
    BY <1>1
  <2> QED BY <1>6, <1>7, <1>10, <2>1
<1> QED BY <1>1, <1>3, <1>4, <1>5, <1>11 DEF c, m, n

(* No words weigh nothing, and one word its own weight.                    *)
LEMMA WeightOne ==
    ASSUME NEW d, DictOK(d), NEW word
    PROVE  WeightSum(d, <<>>) = 0 /\ WeightSum(d, <<word>>) = WordWeight(d, word)
<1>1. WeightSum(d, <<>>) = 0
  <2>1. Len(<<>>) = 0 /\ Len(<<>>) \in Nat
    OBVIOUS
  <2>2. PICK f : Weights(d, <<>>, f) /\ WeightSum(d, <<>>) = f[Len(<<>>)]
    BY <2>1, WeightSumIs
  <2> QED BY <2>1, <2>2 DEF Weights
<1>2. WeightSum(d, <<word>>) = WordWeight(d, word)
  <2> DEFINE ws == <<word>>
  <2>1. Len(ws) = 1 /\ Len(ws) \in Nat /\ ws[1] = word
    OBVIOUS
  <2> HIDE DEF ws
  <2>2. PICK f : Weights(d, ws, f) /\ WeightSum(d, ws) = f[Len(ws)]
    BY <2>1, WeightSumIs
  <2>3. f[1] = f[1 - 1] + WordWeight(d, ws[1]) /\ f[0] = 0
    <3>1. 1 \in 1..Len(ws)
      BY <2>1
    <3> QED BY <2>2, <3>1 DEF Weights
  <2>4. WordWeight(d, word) \in Int
    BY WordWeightInt
  <2>5. f[1] = 0 + WordWeight(d, word)
    BY <2>1, <2>3
  <2> QED BY <2>1, <2>2, <2>4, <2>5 DEF ws
<1> QED BY <1>1, <1>2

(* WeightOf is this sum for the dictionary of the request.                 *)
LEMMA WeightOfIs ==
    ASSUME NEW pieces
    PROVE  WeightOf(pieces) = WeightSum(dict, pieces)
BY DEF WeightOf, WeightSum, Weighs, WordWeight

-----------------------------------------------------------------------------
(* The dynamic program.                                                    *)

\* The weight of the path chosen from position i on.
Ahead(c, i) == IF i <= Len(c) THEN c[i].weight ELSE 0

(* A choice is worth its word and the path behind it.                      *)
LEMMA ValueAt ==
    ASSUME NEW d, DictOK(d), NEW s \in Seq(Rune), NEW c \in Seq(Chosen), Len(c) = Len(s),
           NEW i \in 1..Len(s), NEW l \in 1..Len(s) - i + 1
    PROVE  /\ ValueOf(d, ChoiceAt(d, s, i, l), SubSeq(c, i + 1, Len(s)))
                = Ahead(c, i + l) + WordWeight(d, SubSeq(s, i, i + l - 1))
           /\ Ahead(c, i + l) \in Int
<1> DEFINE n == Len(s)
           key == SubSeq(s, i, i + l - 1)
           unit == FindUnit(d.trie, key)
           behind == SubSeq(c, i + 1, n)
           choice == ChoiceAt(d, s, i, l)
<1>1. n \in Nat /\ i \in 1..n /\ l \in 1..n - i + 1 /\ l \in Nat
  OBVIOUS
<1>2. choice.length = l /\ choice.unit = unit
  BY DEF ChoiceAt
<1>3. /\ Len(behind) = n - i
      /\ \A k \in 1..n - i : behind[k] = c[i + k]
  <2>1. i + 1 \in 1..Len(c) + 1 /\ n \in (i + 1) - 1..Len(c) /\ n - (i + 1) + 1 = n - i
    BY <1>1
  <2>2. \A k \in 1..n - i : (i + 1) + k - 1 = i + k
    BY <1>1
  <2>3. /\ Len(behind) = n - (i + 1) + 1
        /\ \A k \in 1..n - (i + 1) + 1 : behind[k] = c[(i + 1) + k - 1]
    BY <2>1, SubIs
  <2> QED BY <2>1, <2>2, <2>3
<1>4. WordWeight(d, key) = IF unit # NULL THEN d.units[unit].weight ELSE d.minWeight
  BY DEF WordWeight
<1>5. ValueOf(d, choice, behind) =
        (IF l <= Len(behind) THEN behind[l].weight ELSE 0) + WordWeight(d, key)
  BY <1>2, <1>4 DEF ValueOf
<1> HIDE DEF choice, behind, key, unit, n
<1>6. (IF l <= Len(behind) THEN behind[l].weight ELSE 0) = Ahead(c, i + l)
  <2>1. Len(c) = n
    BY DEF n
  <2>2. CASE l <= n - i
    <3>1. i + l <= n /\ l \in 1..n - i
      BY <1>1, <2>2
    <3>2. behind[l] = c[i + l]
      BY <1>3, <3>1
    <3> QED BY <1>3, <2>1, <2>2, <3>1, <3>2 DEF Ahead
  <2>3. CASE ~(l <= n - i)
    <3>1. ~(i + l <= n)
      BY <1>1, <2>3
    <3> QED BY <1>3, <2>1, <2>3, <3>1 DEF Ahead
  <2> QED BY <2>2, <2>3
<1>7. Ahead(c, i + l) \in Int
  <2>1. CASE i + l <= Len(c)
    <3>1. i + l \in 1..Len(c)
      BY <1>1, <2>1
    <3>2. c[i + l] \in Chosen
      BY <3>1
    <3> QED BY <2>1, <3>2 DEF Ahead, Chosen
  <2>2. CASE ~(i + l <= Len(c))
    BY <2>2 DEF Ahead
  <2> QED BY <2>1, <2>2
<1> QED BY <1>5, <1>6, <1>7 DEF choice, behind, key, n

(* What MPSegment makes weighs what the dynamic program says.              *)
LEMMA MPCutWeighs ==
    ASSUME NEW d, DictOK(d), NEW s \in Seq(Rune), NEW maxWordLen \in Nat
    PROVE  WeightSum(d, MPCut(d, s, maxWordLen))
            = Ahead(CalcDP(d, FindDag(d.trie, s, maxWordLen)), 1)
<1> DEFINE n == Len(s)
           chosen == CalcDP(d, FindDag(d.trie, s, maxWordLen))
           word == [i \in DOMAIN s |-> WordAt(d, s, chosen, i)]
           made == [i \in DOMAIN s |-> <<word[i]>>]
           next == [i \in DOMAIN s |-> i + Len(word[i])]
           G == [i \in 1..n + 1 |-> {w \in Seq(NonEmpty) : WeightSum(d, w) = Ahead(chosen, i)}]
<1>1. n \in Nat /\ DOMAIN s = 1..n
  OBVIOUS
<1>2. MPCut(d, s, maxWordLen) = Walk(made, next)
  BY DEF MPCut, CutByDag, WordAt
<1>3. ASSUME NEW i \in 1..n
      PROVE  /\ \E l \in Nat : IsWordOf(d, s, maxWordLen, i, l, word[i])
             /\ chosen[i].weight = ValueOf(d, ChoiceAt(d, s, i, Len(word[i])),
                                           SubSeq(chosen, i + 1, n))
             /\ chosen \in Seq(Chosen) /\ Len(chosen) = n
  <2>1. word[i] = WordAt(d, s, chosen, i)
    BY <1>1
  <2> HIDE DEF word
  <2> QED BY <2>1, WordAtIs
<1> HIDE DEF word
<1>4. \A i \in 1..n : made[i] = <<word[i]>> /\ next[i] = i + Len(word[i])
  BY <1>1
<1>5. Len(next) = n
  BY <1>1
<1>6. chosen \in Seq(Chosen) /\ Len(chosen) = n
  BY FindDagOf, CalcDPIs
<1> HIDE DEF made, next, chosen
<1>7. ASSUME NEW i \in 1..n
      PROVE  /\ next[i] \in i + 1..n + 1 /\ made[i] = <<word[i]>> /\ word[i] \in NonEmpty
             /\ Ahead(chosen, i) = Ahead(chosen, next[i]) + WordWeight(d, word[i])
             /\ Ahead(chosen, next[i]) \in Int
  <2>1. PICK l \in Nat : IsWordOf(d, s, maxWordLen, i, l, word[i])
    BY <1>3
  <2>2. /\ l \in 1..n - i + 1 /\ word[i] = SubSeq(s, i, i + l - 1)
        /\ word[i] \in Seq(Rune) /\ Len(word[i]) = l
    BY <2>1 DEF IsWordOf
  <2>3. next[i] = i + l /\ next[i] \in i + 1..n + 1
    <3>1. next[i] = i + l
      BY <1>4, <2>2
    <3> HIDE DEF n
    <3>2. i + l \in i + 1..n + 1
      BY <1>1, <2>2
    <3> QED BY <3>1, <3>2
  <2>4. word[i] \in NonEmpty
    <3>1. Len(word[i]) # 0 /\ Len(<<>>) = 0
      BY <1>1, <2>2
    <3>2. word[i] # <<>>
      BY <3>1
    <3> QED BY <2>2, <3>2 DEF NonEmpty
  <2>5. chosen[i].weight = ValueOf(d, ChoiceAt(d, s, i, l), SubSeq(chosen, i + 1, n))
    BY <1>3, <2>2 DEF chosen
  <2>6. /\ ValueOf(d, ChoiceAt(d, s, i, l), SubSeq(chosen, i + 1, Len(s)))
              = Ahead(chosen, i + l) + WordWeight(d, SubSeq(s, i, i + l - 1))
        /\ Ahead(chosen, i + l) \in Int
    BY <1>6, <2>2, ValueAt
  <2>7. Ahead(chosen, i) = chosen[i].weight
    BY <1>1, <1>6 DEF Ahead
  <2> QED BY <1>4, <2>2, <2>3, <2>4, <2>5, <2>6, <2>7
<1>8. Onward(next)
  BY <1>1, <1>5, <1>7 DEF Onward
<1>9. <<>> \in G[n + 1]
  <2>1. Ahead(chosen, n + 1) = 0
    BY <1>1, <1>6 DEF Ahead
  <2>2. WeightSum(d, <<>>) = 0
    BY WeightOne
  <2>3. n + 1 \in 1..n + 1 /\ <<>> \in Seq(NonEmpty)
    BY <1>1
  <2> QED BY <2>1, <2>2, <2>3
<1>10. ASSUME NEW i \in 1..n, NEW w \in G[next[i]] PROVE made[i] \o w \in G[i]
  <2>1. next[i] \in 1..n + 1 /\ i \in 1..n + 1
    BY <1>1, <1>7
  <2>2. w \in Seq(NonEmpty) /\ WeightSum(d, w) = Ahead(chosen, next[i])
    BY <2>1
  <2>3. <<word[i]>> \in Seq(NonEmpty)
    BY <1>7
  <2>4. /\ WeightSum(d, <<word[i]>> \o w) = WeightSum(d, <<word[i]>>) + WeightSum(d, w)
        /\ <<word[i]>> \o w \in Seq(NonEmpty)
    BY <2>2, <2>3, WeightConcat, ConcatProperties
  <2>5. WeightSum(d, <<word[i]>>) = WordWeight(d, word[i]) /\ WordWeight(d, word[i]) \in Int
    BY WeightOne, WordWeightInt
  <2>6. WeightSum(d, <<word[i]>> \o w) = Ahead(chosen, i)
    <3> DEFINE a == Ahead(chosen, next[i])
               b == WordWeight(d, word[i])
    <3>1. a \in Int /\ b \in Int /\ Ahead(chosen, i) = a + b
      BY <1>7, <2>5
    <3>2. WeightSum(d, <<word[i]>> \o w) = b + a
      BY <2>2, <2>4, <2>5
    <3> HIDE DEF a, b
    <3> QED BY <3>1, <3>2
  <2>7. made[i] = <<word[i]>>
    BY <1>7
  <2> HIDE DEF n
  <2> QED BY <2>1, <2>4, <2>6, <2>7
<1>11. G[1] = {w \in Seq(NonEmpty) : WeightSum(d, w) = Ahead(chosen, 1)}
  BY <1>1
<1> HIDE DEF G
<1>12. Walk(made, next) \in G[1]
  BY <1>5, <1>8, <1>9, <1>10, WalkInduction
<1> QED BY <1>2, <1>11, <1>12 DEF chosen

\* ps takes the text s apart into single runes and entries of the dictionary
\* without a separator, within the limit.
IsSeg(d, maxWordLen, ps, s) ==
    /\ ps \in Seq(NonEmpty) /\ FlattenSeq(ps) = s
    /\ \A k \in 1..Len(ps) : Len(ps[k]) > 1 =>
            /\ FindUnit(d.trie, ps[k]) # NULL /\ Separated(ps[k])
            /\ Len(ps[k]) <= maxWordLen

(* One more word in front weighs no more than the path chosen there.       *)
LEMMA ChosenBounds ==
    ASSUME NEW d, DictOK(d), NEW s \in Seq(Rune), NEW maxWordLen \in Nat,
           NEW i \in 1..Len(s), NEW l \in 1..Len(s) - i + 1,
           l > 1 => FindUnit(d.trie, SubSeq(s, i, i + l - 1)) # NULL /\ l <= maxWordLen
    PROVE  LET chosen == CalcDP(d, FindDag(d.trie, s, maxWordLen))
           IN  /\ Ahead(chosen, i + l) + WordWeight(d, SubSeq(s, i, i + l - 1))
                    <= Ahead(chosen, i)
               /\ Ahead(chosen, i + l) \in Int /\ Ahead(chosen, i) \in Int
<1> DEFINE chosen == CalcDP(d, FindDag(d.trie, s, maxWordLen))
           n == Len(s)
<1>1. n \in Nat /\ i \in 1..n /\ l \in Nat /\ l >= 1 /\ i + l <= n + 1
  OBVIOUS
<1>2. /\ \A m \in 1..n - i + 1 : IsChoice(d, s, maxWordLen, i, m) =>
            ValueOf(d, ChoiceAt(d, s, i, m), SubSeq(chosen, i + 1, n)) <= chosen[i].weight
      /\ chosen \in Seq(Chosen) /\ Len(chosen) = n
  BY WordAtIs
<1> HIDE DEF chosen
<1>3. IsChoice(d, s, maxWordLen, i, l)
  <2>1. l = 1 \/ l > 1
    BY <1>1
  <2> QED BY <2>1 DEF IsChoice
<1>4. ValueOf(d, ChoiceAt(d, s, i, l), SubSeq(chosen, i + 1, n)) <= chosen[i].weight
  BY <1>2, <1>3
<1>5. /\ ValueOf(d, ChoiceAt(d, s, i, l), SubSeq(chosen, i + 1, Len(s)))
            = Ahead(chosen, i + l) + WordWeight(d, SubSeq(s, i, i + l - 1))
      /\ Ahead(chosen, i + l) \in Int
  BY <1>2, ValueAt
<1>6. Ahead(chosen, i) = chosen[i].weight /\ chosen[i].weight \in Int
  <2>1. chosen[i] \in Chosen /\ i <= Len(chosen)
    BY <1>1, <1>2
  <2> QED BY <2>1 DEF Ahead, Chosen
<1> QED BY <1>4, <1>5, <1>6 DEF chosen

(* No way to take the text apart weighs more than the path chosen at its   *)
(* first rune.                                                             *)
LEMMA MPBound ==
    ASSUME NEW d, DictOK(d), NEW s \in Seq(Rune), NEW maxWordLen \in Nat,
           NEW ps, IsSeg(d, maxWordLen, ps, s)
    PROVE  WeightSum(d, ps) <= Ahead(CalcDP(d, FindDag(d.trie, s, maxWordLen)), 1)
<1> DEFINE n == Len(s)
           m == Len(ps)
           chosen == CalcDP(d, FindDag(d.trie, s, maxWordLen))
           e == [k \in 0..m |-> EndAt(ps, k)]
           T == {j \in 0..m :
                    WeightSum(d, SubSeq(ps, m - j + 1, m)) <= Ahead(chosen, e[m - j] + 1)}
<1>1. ps \in Seq(NonEmpty) /\ FlattenSeq(ps) = s
  BY DEF IsSeg
<1>2. ps \in Seq(Seq(Rune)) /\ m \in Nat /\ n \in Nat
  <2>1. NonEmpty \subseteq Seq(Rune)
    BY DEF NonEmpty
  <2> QED BY <1>1, <2>1, SeqMonotonic
<1>3. /\ e[0] = 0 /\ e[m] = n /\ \A k \in 0..m : e[k] \in 0..n
      /\ \A k \in 1..m : e[k] = e[k - 1] + Len(ps[k]) /\ ps[k] = SubSeq(s, e[k - 1] + 1, e[k])
  <2>1. Ends(ps, s)
    BY <1>1, <1>2, EndsAre
  <2>2. \A k \in 0..m : e[k] = EndAt(ps, k)
    OBVIOUS
  <2>3. \A k \in 1..m : k \in 0..m /\ k - 1 \in 0..m
    BY <1>2
  <2>4. 0 \in 0..m /\ m \in 0..m
    BY <1>2
  <2> HIDE DEF e
  <2>5. e[0] = 0 /\ e[m] = n /\ \A k \in 0..m : e[k] \in 0..n
    BY <2>1, <2>2, <2>4 DEF Ends
  <2>6. \A k \in 1..m : e[k] = e[k - 1] + Len(ps[k]) /\ ps[k] = SubSeq(s, e[k - 1] + 1, e[k])
    BY <2>1, <2>2, <2>3 DEF Ends
  <2> QED BY <2>5, <2>6
<1>4. chosen \in Seq(Chosen) /\ Len(chosen) = n
  BY FindDagOf, CalcDPIs
<1> HIDE DEF e
<1>5. 0 \in T
  <2>1. m - 0 + 1 = m + 1 /\ m - 0 = m /\ 0 \in 0..m
    BY <1>2
  <2>2. SubSeq(ps, m + 1, m) = <<>>
    BY <1>1, <1>2, SubSeqEmpty
  <2> HIDE DEF chosen
  <2>3. Ahead(chosen, n + 1) = 0
    BY <1>2, <1>4 DEF Ahead
  <2>4. WeightSum(d, <<>>) = 0
    BY WeightOne
  <2>5. e[m - 0] = n /\ SubSeq(ps, m - 0 + 1, m) = <<>>
    BY <1>3, <2>1, <2>2
  <2> HIDE DEF e, n
  <2>6. Ahead(chosen, e[m - 0] + 1) = 0
    BY <2>3, <2>5
  <2>7. WeightSum(d, SubSeq(ps, m - 0 + 1, m)) = 0
    BY <2>4, <2>5
  <2>8. WeightSum(d, SubSeq(ps, m - 0 + 1, m)) <= Ahead(chosen, e[m - 0] + 1)
    BY <2>6, <2>7
  <2> QED BY <2>1, <2>8
<1>6. \A j \in 0..m : j < m /\ j \in T => j + 1 \in T
  <2> SUFFICES ASSUME NEW j \in 0..m, j < m, j \in T PROVE j + 1 \in T
    OBVIOUS
  <2> DEFINE k == m - j
             back == SubSeq(ps, k + 1, m)
             i == e[k - 1] + 1
             l == Len(ps[k])
  <2>1. WeightSum(d, back) <= Ahead(chosen, e[k] + 1)
    OBVIOUS
  <2>2. k \in 1..m /\ j + 1 \in 0..m /\ m - (j + 1) + 1 = k /\ m - (j + 1) = k - 1
        /\ k - 1 \in 0..m
    BY <1>2
  <2> HIDE DEF k, chosen
  <2>3. ps[k] \in NonEmpty /\ ps[k] \in Seq(Rune) /\ l \in Nat /\ l >= 1
    <3>1. ps[k] \in NonEmpty
      BY <1>1, <2>2
    <3>2. ps[k] \in Seq(Rune) /\ ps[k] # <<>>
      BY <3>1 DEF NonEmpty
    <3> QED BY <3>1, <3>2
  <2>4. SubSeq(ps, k, m) = <<ps[k]>> \o back /\ back \in Seq(NonEmpty)
    <3>1. SubSeq(ps, k, k) = <<ps[k]>>
      BY <1>1, <2>2, SubOne
    <3>2. SubSeq(ps, k, k) \o SubSeq(ps, k + 1, m) = SubSeq(ps, k, m)
      <4>1. k \in 1..m + 1 /\ k \in k - 1..m /\ m \in k..m
        BY <1>2, <2>2
      <4> QED BY <1>1, <4>1, ConcatAdjacentSubSeq
    <3>3. k + 1 \in 1..m + 1 /\ m \in (k + 1) - 1..m
      BY <1>2, <2>2
    <3> QED BY <1>1, <3>1, <3>2, <3>3, SubIs
  <2>5. /\ WeightSum(d, <<ps[k]>> \o back) = WeightSum(d, <<ps[k]>>) + WeightSum(d, back)
        /\ WeightSum(d, back) \in Int
    <3>1. <<ps[k]>> \in Seq(NonEmpty)
      BY <2>3
    <3> HIDE DEF back
    <3> QED BY <2>4, <3>1, WeightConcat
  <2>6. WeightSum(d, <<ps[k]>>) = WordWeight(d, ps[k]) /\ WordWeight(d, ps[k]) \in Int
    BY WeightOne, WordWeightInt
  <2> HIDE DEF back, l
  <2>7. /\ i \in 1..n /\ l \in 1..n - i + 1 /\ i + l = e[k] + 1 /\ i + l - 1 = e[k]
    <3>1. e[k - 1] \in 0..n /\ e[k] \in 0..n /\ e[k] = e[k - 1] + l
      <4>1. k \in 0..m
        BY <2>2
      <4> QED BY <1>3, <2>2, <4>1 DEF l
    <3> DEFINE a == e[k - 1]
               b == e[k]
    <3>2. a \in 0..n /\ b \in 0..n /\ b = a + l /\ n \in Nat /\ l \in Nat /\ l >= 1
      BY <1>2, <2>3, <3>1
    <3> HIDE DEF a, b, n
    <3>3. /\ a + 1 \in 1..n /\ l \in 1..n - (a + 1) + 1 /\ (a + 1) + l = b + 1
          /\ (a + 1) + l - 1 = b
      BY <3>2
    <3> QED BY <3>3 DEF a, b
  <2>8. ps[k] = SubSeq(s, i, i + l - 1)
    BY <1>3, <2>2, <2>7
  <2>9. l > 1 => FindUnit(d.trie, ps[k]) # NULL /\ l <= maxWordLen
    BY <2>2 DEF IsSeg, l
  <2> HIDE DEF i
  <2>10. /\ Ahead(chosen, i + l) + WordWeight(d, SubSeq(s, i, i + l - 1)) <= Ahead(chosen, i)
         /\ Ahead(chosen, i + l) \in Int /\ Ahead(chosen, i) \in Int
    BY <2>7, <2>8, <2>9, ChosenBounds DEF chosen
  <2>11. WeightSum(d, SubSeq(ps, k, m)) <= Ahead(chosen, i)
    <3> DEFINE a == Ahead(chosen, i + l)
               b == WordWeight(d, ps[k])
               c == WeightSum(d, back)
               h == Ahead(chosen, i)
    <3>1. a + b <= h /\ a \in Int /\ b \in Int /\ h \in Int /\ c \in Int /\ c <= a
      BY <2>1, <2>5, <2>6, <2>7, <2>8, <2>10
    <3>2. WeightSum(d, SubSeq(ps, k, m)) = b + c
      BY <2>4, <2>5, <2>6
    <3> HIDE DEF a, b, c
    <3>3. b + c <= h
      BY <3>1
    <3> QED BY <3>2, <3>3
  <2> QED BY <2>2, <2>11 DEF i
<1> HIDE DEF T
<1>7. \A j \in 0..m : j \in T
  BY <1>2, <1>5, <1>6, UpTo
<1>8. WeightSum(d, SubSeq(ps, m - m + 1, m)) <= Ahead(chosen, e[m - m] + 1)
  <2>1. m \in T
    BY <1>2, <1>7
  <2> QED BY <2>1 DEF T
<1>9. m - m + 1 = 1 /\ m - m = 0 /\ 0 + 1 = 1
  BY <1>2
<1>10. SubSeq(ps, 1, m) = ps
  BY <1>1, SubSeqFull
<1> QED BY <1>3, <1>8, <1>9, <1>10

(* MPSegment's words are such a way, and no other weighs more.             *)
LEMMA MPHeaviest ==
    ASSUME NEW d, DictOK(d), NEW s \in Seq(Rune), NEW maxWordLen \in Nat,
           Len(s) = 1 \/ Elems(s) \cap symbols_ = {}
    PROVE  /\ IsSeg(d, maxWordLen, MPCut(d, s, maxWordLen), s)
           /\ \A ps : IsSeg(d, maxWordLen, ps, s) =>
                WeightSum(d, ps) <= WeightSum(d, MPCut(d, s, maxWordLen))
<1> DEFINE ws == MPCut(d, s, maxWordLen)
           W == MPWords(d, maxWordLen)
<1>1. ws \in Seq(W) /\ FlattenSeq(ws) = s
  BY MPCutIs
<1>2. W \subseteq NonEmpty /\ W \subseteq Seq(Rune)
  BY DEF MPWords, NonEmpty
<1>3. \A ps : IsSeg(d, maxWordLen, ps, s) => WeightSum(d, ps) <= WeightSum(d, ws)
  BY MPBound, MPCutWeighs
<1> HIDE DEF ws
<1>4. WordsOf(W, ws, s)
  BY <1>1, <1>2 DEF WordsOf
<1>5. \A k \in 1..Len(ws) : Len(ws[k]) > 1 => Separated(ws[k])
  <2> HIDE DEF W
  <2> QED BY <1>4, WordsSeparated
<1>6. ws \in Seq(NonEmpty)
  BY <1>1, <1>2, SeqMonotonic
<1>7. ASSUME NEW k \in 1..Len(ws), Len(ws[k]) > 1
      PROVE  FindUnit(d.trie, ws[k]) # NULL /\ Len(ws[k]) <= maxWordLen
  <2>1. ws[k] \in W
    BY <1>1
  <2> QED BY <1>7, <2>1 DEF MPWords
<1>8. IsSeg(d, maxWordLen, ws, s)
  BY <1>1, <1>5, <1>6, <1>7 DEF IsSeg
<1> QED BY <1>3, <1>8 DEF ws

(* Segmentations of two texts in a row are one of the whole.               *)
LEMMA SegJoins ==
    ASSUME NEW d, NEW maxWordLen, NEW s, NEW t, NEW ps, NEW qs,
           IsSeg(d, maxWordLen, ps, s), IsSeg(d, maxWordLen, qs, t)
    PROVE  IsSeg(d, maxWordLen, ps \o qs, s \o t)
<1> DEFINE ws == ps \o qs
           Fits(w) == Len(w) > 1 => /\ FindUnit(d.trie, w) # NULL /\ Separated(w)
                                    /\ Len(w) <= maxWordLen
<1>1. /\ ps \in Seq(NonEmpty) /\ FlattenSeq(ps) = s /\ \A k \in 1..Len(ps) : Fits(ps[k])
      /\ qs \in Seq(NonEmpty) /\ FlattenSeq(qs) = t /\ \A k \in 1..Len(qs) : Fits(qs[k])
  BY DEF IsSeg
<1> HIDE DEF Fits
<1>2. /\ ws \in Seq(NonEmpty) /\ Len(ws) = Len(ps) + Len(qs)
      /\ \A k \in 1..Len(ps) + Len(qs) :
            ws[k] = IF k <= Len(ps) THEN ps[k] ELSE qs[k - Len(ps)]
  BY <1>1, ConcatProperties
<1>3. FlattenSeq(ps \o qs) = FlattenSeq(ps) \o FlattenSeq(qs)
  <2>1. NonEmpty \subseteq Seq(Rune)
    BY DEF NonEmpty
  <2>2. ps \in Seq(Seq(Rune)) /\ qs \in Seq(Seq(Rune))
    BY <1>1, <2>1, SeqMonotonic
  <2> QED BY <2>2, FlattenConcat
<1> HIDE DEF ws
<1>4. ASSUME NEW k \in 1..Len(ws) PROVE Fits(ws[k])
  <2>0. Len(ps) \in Nat /\ Len(qs) \in Nat /\ k \in 1..Len(ps) + Len(qs)
    BY <1>1, <1>2
  <2>1. CASE k <= Len(ps)
    <3>1. k \in 1..Len(ps) /\ ws[k] = ps[k]
      BY <1>2, <2>0, <2>1
    <3> QED BY <1>1, <3>1
  <2>2. CASE ~(k <= Len(ps))
    <3>1. k - Len(ps) \in 1..Len(qs) /\ ws[k] = qs[k - Len(ps)]
      BY <1>2, <2>0, <2>2
    <3> QED BY <1>1, <3>1
  <2> QED BY <2>1, <2>2
<1> QED BY <1>1, <1>2, <1>3, <1>4 DEF IsSeg, Fits, ws

(* A segmentation of the text up to the end of a range has a word that     *)
(* ends where the range begins, for no entry without a separator lies      *)
(* across the boundary.                                                    *)
LEMMA SegMeets ==
    ASSUME NEW d, NEW maxWordLen, NEW s \in Seq(Rune), NEW c \in 0..Len(s), NEW e,
           IsRange(s, c, e), Boundary(s, c),
           NEW ps, IsSeg(d, maxWordLen, ps, SubSeq(s, 1, e))
    PROVE  \E k \in 0..Len(ps) : EndAt(ps, k) = c
<1> DEFINE t == SubSeq(s, 1, e)
           m == Len(ps)
           T == {k \in 0..m : EndAt(ps, k) < c}
<1>1. /\ Len(s) \in Nat /\ c \in Nat /\ e \in Nat /\ c < e /\ e <= Len(s)
      /\ e \in c + 1..Len(s)
  BY DEF IsRange
<1>2. t \in Seq(Rune) /\ Len(t) = e
  BY <1>1, RangeJoins
<1>3. /\ ps \in Seq(NonEmpty) /\ FlattenSeq(ps) = t /\ m \in Nat
      /\ \A k \in 1..m : Len(ps[k]) > 1 => Separated(ps[k])
  BY DEF IsSeg
<1>4. Ends(ps, t)
  <2>1. NonEmpty \subseteq Seq(Rune)
    BY DEF NonEmpty
  <2>2. ps \in Seq(Seq(Rune))
    BY <1>3, <2>1, SeqMonotonic
  <2> QED BY <1>3, <2>2, EndsAre
<1> HIDE DEF t, m
<1>5. /\ EndAt(ps, 0) = 0 /\ EndAt(ps, m) = e
      /\ \A k \in 0..m : EndAt(ps, k) \in 0..e
      /\ \A k \in 1..m : /\ EndAt(ps, k) = EndAt(ps, k - 1) + Len(ps[k])
                         /\ ps[k] = SubSeq(t, EndAt(ps, k - 1) + 1, EndAt(ps, k))
  BY <1>2, <1>4 DEF Ends, m
<1>6. SUFFICES ASSUME \A k \in 0..m : EndAt(ps, k) # c PROVE FALSE
  BY DEF m
<1>7. 0 \in T
  <2>1. 0 \in 0..m
    BY <1>3
  <2>2. c # 0
    BY <1>5, <1>6, <2>1
  <2>3. 0 < c
    BY <1>1, <2>2
  <2> QED BY <1>5, <2>1, <2>3
<1>8. \A k \in 0..m : k < m /\ k \in T => k + 1 \in T
  <2> SUFFICES ASSUME NEW k \in 0..m, k < m, k \in T PROVE k + 1 \in T
    OBVIOUS
  <2> DEFINE a == EndAt(ps, k)
             b == EndAt(ps, k + 1)
             w == ps[k + 1]
  <2>1. k + 1 \in 1..m /\ k + 1 \in 0..m /\ (k + 1) - 1 = k
    BY <1>3
  <2>2. a \in 0..e /\ b \in 0..e /\ b # c /\ a < c
    BY <1>5, <1>6, <2>1
  <2>3. b = a + Len(w) /\ w = SubSeq(t, a + 1, b)
    BY <1>5, <2>1
  <2>4. Len(w) > 1 => Separated(w)
    BY <1>3, <2>1
  <2>5. Len(w) \in Nat
    <3>1. w \in NonEmpty
      BY <1>3, <2>1 DEF m
    <3>2. w \in Seq(Rune)
      BY <3>1 DEF NonEmpty
    <3> QED BY <3>2
  <2>6. SUFFICES ASSUME b > c PROVE FALSE
    <3> HIDE DEF a, b
    <3>1. ASSUME ~(b > c) PROVE b < c
      BY <1>1, <2>2, <3>1
    <3> QED BY <2>1, <2>6, <3>1 DEF b
  <2> HIDE DEF a, b, w
  <2>7. c # 0 /\ c # Len(s)
    BY <1>1, <2>2
  <2>8. s[c] \in symbols_ \/ s[c + 1] \in symbols_
    BY <2>7 DEF Boundary
  <2>9. Separated(w) /\ a + 1 \in 1..e + 1 /\ b \in (a + 1) - 1..e /\ b - (a + 1) + 1 = b - a
    <3>1. Len(w) > 1
      BY <1>1, <2>2, <2>3, <2>5, <2>6
    <3> QED BY <1>1, <2>2, <2>4, <2>6, <3>1
  <2>10. /\ w \in Seq(Rune) /\ Len(w) = b - (a + 1) + 1
         /\ \A i \in 1..b - (a + 1) + 1 : w[i] = t[(a + 1) + i - 1]
    <3>1. a + 1 \in 1..Len(t) + 1 /\ b \in (a + 1) - 1..Len(t)
      BY <1>2, <2>9
    <3>2. /\ SubSeq(t, a + 1, b) \in Seq(Rune) /\ Len(SubSeq(t, a + 1, b)) = b - (a + 1) + 1
          /\ \A i \in 1..b - (a + 1) + 1 : SubSeq(t, a + 1, b)[i] = t[(a + 1) + i - 1]
      BY <1>2, <3>1, SubIs
    <3> QED BY <2>3, <3>2
  <2>11. \A i \in 1..b - (a + 1) + 1 : t[(a + 1) + i - 1] \notin symbols_
    <3>1. DOMAIN w = 1..b - (a + 1) + 1
      BY <2>10
    <3> QED BY <2>9, <2>10, <3>1 DEF Separated
  <2>12. \A i \in 1..e : t[i] = s[i]
    <3>1. 1 \in 1..Len(s) + 1 /\ e \in 1 - 1..Len(s) /\ e - 1 + 1 = e
      BY <1>1
    <3>2. \A i \in 1..e - 1 + 1 : SubSeq(s, 1, e)[i] = s[1 + i - 1]
      BY <3>1, SubIs
    <3>3. \A i \in 1..e : 1 + i - 1 = i
      OBVIOUS
    <3> QED BY <3>1, <3>2, <3>3 DEF t
  <2>13. s[c] \notin symbols_
    <3>1. c - a \in 1..b - (a + 1) + 1 /\ (a + 1) + (c - a) - 1 = c /\ c \in 1..e
      BY <1>1, <2>2, <2>6
    <3>2. t[(a + 1) + (c - a) - 1] \notin symbols_
      BY <2>11, <3>1
    <3> QED BY <2>12, <3>1, <3>2
  <2>14. s[c + 1] \notin symbols_
    <3>1. /\ c - a + 1 \in 1..b - (a + 1) + 1 /\ (a + 1) + (c - a + 1) - 1 = c + 1
          /\ c + 1 \in 1..e
      BY <1>1, <2>2, <2>6
    <3>2. t[(a + 1) + (c - a + 1) - 1] \notin symbols_
      BY <2>11, <3>1
    <3> QED BY <2>12, <3>1, <3>2
  <2> QED BY <2>8, <2>13, <2>14
<1> HIDE DEF T
<1>9. \A k \in 0..m : k \in T
  BY <1>3, <1>7, <1>8, UpTo
<1>10. m \in 0..m
  BY <1>3
<1>11. EndAt(ps, m) < c
  BY <1>9, <1>10 DEF T
<1> QED BY <1>1, <1>5, <1>11

(* What one text in front of another is, and the other, when the lengths   *)
(* agree.                                                                  *)
LEMMA SameParts ==
    ASSUME NEW A, NEW p \in Seq(A), NEW q \in Seq(A), NEW u \in Seq(A), NEW v \in Seq(A),
           p \o q = u \o v, Len(p) = Len(u)
    PROVE  p = u /\ q = v
<1>1. /\ Len(p \o q) = Len(p) + Len(q) /\ Len(u \o v) = Len(u) + Len(v)
      /\ Len(p) \in Nat /\ Len(q) \in Nat /\ Len(u) \in Nat /\ Len(v) \in Nat
      /\ \A i \in 1..Len(p) + Len(q) : (p \o q)[i] = IF i <= Len(p) THEN p[i] ELSE q[i - Len(p)]
      /\ \A i \in 1..Len(u) + Len(v) : (u \o v)[i] = IF i <= Len(u) THEN u[i] ELSE v[i - Len(u)]
  BY ConcatProperties
<1>2. ASSUME NEW i \in 1..Len(p) PROVE p[i] = u[i]
  <2>1. i \in 1..Len(p) + Len(q) /\ i \in 1..Len(u) + Len(v) /\ i <= Len(p) /\ i <= Len(u)
    BY <1>1
  <2> QED BY <1>1, <2>1
<1>3. p = u
  BY <1>2, SeqEqual
<1>4. q = v
  <2>1. u \o q = u \o v
    BY <1>3
  <2> QED BY <2>1, ConcatSimplifications
<1> QED BY <1>3, <1>4

\* ps is a segmentation of the text up to c and one of what follows up to e.
Splits(d, maxWordLen, ps, s, c, e) ==
    \E a, b : /\ ps = a \o b
              /\ IsSeg(d, maxWordLen, a, SubSeq(s, 1, c))
              /\ IsSeg(d, maxWordLen, b, SubSeq(s, c + 1, e))

(* So it is a segmentation of the text up to the range and one of the      *)
(* range.                                                                  *)
LEMMA SegSplits ==
    ASSUME NEW d, NEW maxWordLen, NEW s \in Seq(Rune), NEW c \in 0..Len(s), NEW e,
           IsRange(s, c, e), Boundary(s, c),
           NEW ps, IsSeg(d, maxWordLen, ps, SubSeq(s, 1, e))
    PROVE  Splits(d, maxWordLen, ps, s, c, e)
<1>1. PICK k \in 0..Len(ps) : EndAt(ps, k) = c
  BY SegMeets
<1> DEFINE m == Len(ps)
           a == SubSeq(ps, 1, k)
           b == SubSeq(ps, k + 1, m)
           u == SubSeq(s, 1, c)
           v == SubSeq(s, c + 1, e)
           Fits(w) == Len(w) > 1 => /\ FindUnit(d.trie, w) # NULL /\ Separated(w)
                                    /\ Len(w) <= maxWordLen
<1>2. /\ ps \in Seq(NonEmpty) /\ FlattenSeq(ps) = SubSeq(s, 1, e)
      /\ \A i \in 1..m : Fits(ps[i])
  BY DEF IsSeg
<1>3. m \in Nat /\ k \in Nat /\ k <= m
  BY <1>1, <1>2
<1> HIDE DEF Fits
<1>4. e \in c + 1..Len(s)
  BY DEF IsRange
<1>5. /\ SubSeq(s, 1, e) = u \o v /\ u \in Seq(Rune) /\ Len(u) = c
      /\ v \in Seq(Rune)
  BY <1>4, RangeJoins
<1>6. /\ a \in Seq(NonEmpty) /\ Len(a) = k /\ \A i \in 1..k : a[i] = ps[i]
  <2>1. 1 \in 1..m + 1 /\ k \in 1 - 1..m /\ k - 1 + 1 = k
    BY <1>3
  <2>2. \A i \in 1..k : 1 + i - 1 = i
    OBVIOUS
  <2>3. /\ SubSeq(ps, 1, k) \in Seq(NonEmpty) /\ Len(SubSeq(ps, 1, k)) = k - 1 + 1
        /\ \A i \in 1..k - 1 + 1 : SubSeq(ps, 1, k)[i] = ps[1 + i - 1]
    BY <1>2, <2>1, SubIs
  <2> QED BY <2>1, <2>2, <2>3
<1>7. /\ b \in Seq(NonEmpty) /\ Len(b) = m - k /\ \A i \in 1..m - k : b[i] = ps[k + i]
  <2>1. k + 1 \in 1..m + 1 /\ m \in (k + 1) - 1..m /\ m - (k + 1) + 1 = m - k
    BY <1>3
  <2>2. \A i \in 1..m - k : (k + 1) + i - 1 = k + i
    BY <1>3
  <2>3. /\ SubSeq(ps, k + 1, m) \in Seq(NonEmpty)
        /\ Len(SubSeq(ps, k + 1, m)) = m - (k + 1) + 1
        /\ \A i \in 1..m - (k + 1) + 1 : SubSeq(ps, k + 1, m)[i] = ps[(k + 1) + i - 1]
    BY <1>2, <2>1, SubIs
  <2> QED BY <2>1, <2>2, <2>3
<1>8. ps = a \o b
  <2>1. 1 \in 1..m + 1 /\ k \in 1 - 1..m /\ m \in k..m
    BY <1>3
  <2>2. SubSeq(ps, 1, k) \o SubSeq(ps, k + 1, m) = SubSeq(ps, 1, m)
    BY <1>2, <2>1, ConcatAdjacentSubSeq
  <2>3. SubSeq(ps, 1, m) = ps
    BY <1>2, SubSeqFull
  <2> QED BY <2>2, <2>3
<1>9. Len(FlattenSeq(a)) = c
  BY <1>1 DEF EndAt
<1> HIDE DEF a, b, u, v
<1>10. /\ FlattenSeq(a \o b) = FlattenSeq(a) \o FlattenSeq(b)
       /\ FlattenSeq(a) \in Seq(Rune) /\ FlattenSeq(b) \in Seq(Rune)
  <2>1. NonEmpty \subseteq Seq(Rune)
    BY DEF NonEmpty
  <2>2. a \in Seq(Seq(Rune)) /\ b \in Seq(Seq(Rune))
    BY <1>6, <1>7, <2>1, SeqMonotonic
  <2> QED BY <2>2, FlattenConcat, FlattenTyped
<1>11. FlattenSeq(a) = u /\ FlattenSeq(b) = v
  <2>1. FlattenSeq(a) \o FlattenSeq(b) = u \o v
    BY <1>2, <1>5, <1>8, <1>10
  <2> QED BY <1>5, <1>9, <1>10, <2>1, SameParts
<1>12. IsSeg(d, maxWordLen, a, u)
  <2>1. \A i \in 1..Len(a) : Fits(a[i])
    <3>1. \A i \in 1..k : i \in 1..m
      BY <1>3
    <3> QED BY <1>2, <1>6, <3>1
  <2> QED BY <1>6, <1>11, <2>1 DEF IsSeg, Fits
<1>13. IsSeg(d, maxWordLen, b, v)
  <2>1. \A i \in 1..Len(b) : Fits(b[i])
    <3>1. \A i \in 1..m - k : k + i \in 1..m
      BY <1>3
    <3> QED BY <1>2, <1>7, <3>1
  <2> QED BY <1>7, <1>11, <2>1 DEF IsSeg, Fits
<1> QED BY <1>8, <1>12, <1>13 DEF u, v, Splits

\* ps is a segmentation of s and none weighs more.
Heaviest(d, maxWordLen, ps, s) ==
    /\ IsSeg(d, maxWordLen, ps, s)
    /\ \A qs : IsSeg(d, maxWordLen, qs, s) => WeightSum(d, qs) <= WeightSum(d, ps)

(* The heaviest words of the text up to a range and those of the range are *)
(* the heaviest of both.                                                   *)
LEMMA HeaviestOn ==
    ASSUME NEW d, DictOK(d), NEW maxWordLen,
           NEW s \in Seq(Rune), NEW c \in 0..Len(s), NEW e,
           IsRange(s, c, e), Boundary(s, c),
           NEW us, Heaviest(d, maxWordLen, us, SubSeq(s, 1, c)),
           NEW ws, Heaviest(d, maxWordLen, ws, SubSeq(s, c + 1, e))
    PROVE  Heaviest(d, maxWordLen, us \o ws, SubSeq(s, 1, e))
<1> DEFINE u == SubSeq(s, 1, c)
           v == SubSeq(s, c + 1, e)
<1>1. e \in c + 1..Len(s)
  BY DEF IsRange
<1>2. SubSeq(s, 1, e) = u \o v
  BY <1>1, RangeJoins
<1>3. IsSeg(d, maxWordLen, us, u) /\ IsSeg(d, maxWordLen, ws, v)
  BY DEF Heaviest
<1>4. IsSeg(d, maxWordLen, us \o ws, SubSeq(s, 1, e))
  <2> HIDE DEF u, v
  <2> QED BY <1>2, <1>3, SegJoins
<1>5. \A a, x : IsSeg(d, maxWordLen, a, x) => a \in Seq(NonEmpty)
  BY DEF IsSeg
<1>6. ASSUME NEW qs, IsSeg(d, maxWordLen, qs, SubSeq(s, 1, e))
      PROVE  WeightSum(d, qs) <= WeightSum(d, us \o ws)
  <2>1. PICK a, b : qs = a \o b /\ IsSeg(d, maxWordLen, a, u) /\ IsSeg(d, maxWordLen, b, v)
    <3>1. Splits(d, maxWordLen, qs, s, c, e)
      BY <1>6, SegSplits
    <3> QED BY <3>1 DEF Splits
  <2>2. WeightSum(d, a) <= WeightSum(d, us) /\ WeightSum(d, b) <= WeightSum(d, ws)
    BY <2>1 DEF Heaviest
  <2>3. /\ a \in Seq(NonEmpty) /\ b \in Seq(NonEmpty)
        /\ us \in Seq(NonEmpty) /\ ws \in Seq(NonEmpty)
    BY <1>3, <1>5, <2>1
  <2>4. /\ WeightSum(d, a \o b) = WeightSum(d, a) + WeightSum(d, b)
        /\ WeightSum(d, a) \in Int /\ WeightSum(d, b) \in Int
    BY <2>3, WeightConcat
  <2>5. /\ WeightSum(d, us \o ws) = WeightSum(d, us) + WeightSum(d, ws)
        /\ WeightSum(d, us) \in Int /\ WeightSum(d, ws) \in Int
    BY <2>3, WeightConcat
  <2> QED BY <2>1, <2>2, <2>4, <2>5
<1> QED BY <1>4, <1>6 DEF Heaviest

(* No words are the heaviest of no text.                                   *)
LEMMA HeaviestNone ==
    ASSUME NEW d, DictOK(d), NEW maxWordLen
    PROVE  Heaviest(d, maxWordLen, <<>>, <<>>)
<1>1. FlattenSeq(<<>>) = <<>>
  <2>1. <<>> \in Seq(Rune)
    OBVIOUS
  <2> QED BY <2>1, FlattenOne
<1>2. IsSeg(d, maxWordLen, <<>>, <<>>)
  BY <1>1 DEF IsSeg
<1>3. ASSUME NEW qs, IsSeg(d, maxWordLen, qs, <<>>) PROVE qs = <<>>
  <2>1. qs \in Seq(NonEmpty) /\ FlattenSeq(qs) = <<>> /\ Len(qs) \in Nat
    BY <1>3 DEF IsSeg
  <2>2. qs \in Seq(Seq(Rune) \ {<<>>}) /\ qs \in Seq(Seq(Rune))
    <3>1. NonEmpty = Seq(Rune) \ {<<>>}
      BY DEF NonEmpty
    <3>2. NonEmpty \subseteq Seq(Rune)
      BY <3>1
    <3> QED BY <2>1, <3>1, <3>2, SeqMonotonic
  <2>3. Ends(qs, <<>>)
    BY <2>1, <2>2, EndsAre
  <2>4. Rising(qs)
    BY <2>2, EndsRise
  <2>5. EndAt(qs, 0) = 0 /\ EndAt(qs, Len(qs)) = 0
    BY <2>3 DEF Ends
  <2>6. SUFFICES ASSUME qs # <<>> PROVE FALSE
    OBVIOUS
  <2>7. 0 < Len(qs)
    BY <2>1, <2>6
  <2>8. 0 \in 0..Len(qs) /\ Len(qs) \in 0..Len(qs)
    BY <2>1
  <2>9. EndAt(qs, 0) < EndAt(qs, Len(qs))
    BY <2>4, <2>7, <2>8 DEF Rising
  <2> QED BY <2>5, <2>9
<1>4. WeightSum(d, <<>>) <= WeightSum(d, <<>>)
  <2>1. WeightSum(d, <<>>) = 0
    BY WeightOne
  <2> QED BY <2>1
<1> QED BY <1>2, <1>3, <1>4 DEF Heaviest

(* Pieces gives the words back whose ends it is given.                     *)
LEMMA PiecesAre ==
    ASSUME NEW ps \in Seq(NonEmpty)
    PROVE  Pieces(FlattenSeq(ps), {EndAt(ps, k) : k \in 1..Len(ps)}) = ps
<1> DEFINE m == Len(ps)
           s == FlattenSeq(ps)
           n == Len(s)
           ends == {EndAt(ps, k) : k \in 1..m}
           G == [p \in 1..n + 1 |->
                    {w \in Seq(NonEmpty) :
                        \A k \in 0..m : EndAt(ps, k) + 1 = p => w = SubSeq(ps, k + 1, m)}]
<1>1. ps \in Seq(Seq(Rune)) /\ ps \in Seq(Seq(Rune) \ {<<>>}) /\ m \in Nat
  <2>1. NonEmpty = Seq(Rune) \ {<<>>}
    BY DEF NonEmpty
  <2>2. NonEmpty \subseteq Seq(Rune)
    BY <2>1
  <2> QED BY <2>1, <2>2, SeqMonotonic
<1>2. Ends(ps, s) /\ s \in Seq(Rune)
  BY <1>1, EndsAre
<1>3. \A j, k \in 0..m : j < k => EndAt(ps, j) < EndAt(ps, k)
  <2>1. Rising(ps)
    BY <1>1, EndsRise
  <2> QED BY <2>1 DEF Rising
<1> HIDE DEF s, m
<1>4. /\ n \in Nat /\ EndAt(ps, 0) = 0 /\ EndAt(ps, m) = n
      /\ \A k \in 0..m : EndAt(ps, k) \in 0..n
      /\ \A k \in 1..m : ps[k] = SubSeq(s, EndAt(ps, k - 1) + 1, EndAt(ps, k))
  BY <1>2 DEF Ends, m
<1> HIDE DEF n
<1>5. ends \subseteq 1..n
  <2>1. ASSUME NEW k \in 1..m PROVE EndAt(ps, k) \in 1..n
    <3>1. k \in 0..m /\ 0 \in 0..m /\ 0 < k
      BY <1>1
    <3>2. EndAt(ps, 0) < EndAt(ps, k) /\ EndAt(ps, k) \in 0..n
      BY <1>3, <1>4, <3>1
    <3> QED BY <1>4, <3>2
  <2> QED BY <2>1
<1>6. s # <<>> => n \in ends
  <2> SUFFICES ASSUME s # <<>> PROVE n \in ends
    OBVIOUS
  <2>1. n # 0
    BY <1>2 DEF n
  <2>2. m # 0
    BY <1>4, <2>1
  <2>3. m \in 1..m
    BY <1>1, <2>2
  <2> QED BY <1>4, <2>3
<1>k. \A k \in 1..m : EndAt(ps, k) \in ends
  OBVIOUS
<1>e. \A x \in ends : \E k \in 1..m : x = EndAt(ps, k)
  OBVIOUS
<1> HIDE DEF ends
<1>7. PICK made, next : PieceLoop(Rune, s, ends, made, next)
  BY <1>2, <1>5, <1>6, PiecesLoop DEF n
<1>8. /\ Pieces(s, ends) = Walk(made, next) /\ Onward(next) /\ Len(next) = n
      /\ \A i \in 1..n :
            /\ PieceEnd(s, ends, i) \in i..n /\ next[i] = PieceEnd(s, ends, i) + 1
            /\ made[i] = <<SubSeq(s, i, PieceEnd(s, ends, i))>>
            /\ SubSeq(s, i, PieceEnd(s, ends, i)) \in NonEmpty
  BY <1>7 DEF PieceLoop, n, NonEmpty
<1>9. ASSUME NEW k \in 0..m, k < m
      PROVE  PieceEnd(s, ends, EndAt(ps, k) + 1) = EndAt(ps, k + 1)
  <2> DEFINE i == EndAt(ps, k) + 1
             R == {x \in ends \cup {n + 1} : x >= i}
  <2>0. k + 1 \in 1..m /\ k + 1 \in 0..m /\ k < k + 1
    BY <1>1, <1>9
  <2>1. EndAt(ps, k + 1) \in R
    <3>1. EndAt(ps, k) < EndAt(ps, k + 1) /\ EndAt(ps, k) \in 0..n /\ EndAt(ps, k + 1) \in 0..n
      BY <1>3, <1>4, <2>0
    <3>2. EndAt(ps, k + 1) >= i
      BY <1>4, <3>1
    <3> QED BY <1>k, <2>0, <3>2
  <2>2. ASSUME NEW x \in R PROVE EndAt(ps, k + 1) <= x
    <3>1. CASE x = n + 1
      <4>1. EndAt(ps, k + 1) \in 0..n
        BY <1>4, <2>0
      <4> QED BY <1>4, <3>1, <4>1
    <3>2. CASE x \in ends
      <4>1. PICK j \in 1..m : x = EndAt(ps, j)
        BY <1>e, <3>2
      <4>2. j \in 0..m /\ EndAt(ps, j) \in 0..n /\ EndAt(ps, k) \in 0..n
            /\ EndAt(ps, k + 1) \in 0..n
        BY <1>1, <1>4, <2>0
      <4>3. EndAt(ps, j) >= EndAt(ps, k) + 1
        BY <4>1
      <4>4. ~(j < k) /\ j # k
        <5>1. EndAt(ps, k) < EndAt(ps, j)
          BY <1>4, <4>2, <4>3
        <5>2. ~(EndAt(ps, j) < EndAt(ps, k)) /\ EndAt(ps, j) # EndAt(ps, k)
          BY <1>4, <4>2, <5>1
        <5> QED BY <1>3, <4>2, <5>2
      <4>5. j = k + 1 \/ k + 1 < j
        BY <1>1, <4>4
      <4>6. EndAt(ps, k + 1) = EndAt(ps, j) \/ EndAt(ps, k + 1) < EndAt(ps, j)
        BY <1>3, <2>0, <4>2, <4>5
      <4> QED BY <1>4, <4>1, <4>2, <4>6
    <3> QED BY <3>1, <3>2
  <2>3. R \subseteq Nat
    <3>1. n + 1 \in Nat /\ 1..n \subseteq Nat
      BY <1>4
    <3>2. ends \cup {n + 1} \subseteq Nat
      BY <1>5, <3>1
    <3>3. R \subseteq ends \cup {n + 1}
      OBVIOUS
    <3> QED BY <3>2, <3>3
  <2>4. Min(R) \in R /\ Min(R) <= EndAt(ps, k + 1)
    <3> HIDE DEF R
    <3> QED BY <2>1, <2>3, MinFacts
  <2>5. EndAt(ps, k + 1) <= Min(R) /\ Min(R) \in Nat /\ EndAt(ps, k + 1) \in Nat
    <3> HIDE DEF R
    <3> QED BY <2>1, <2>2, <2>3, <2>4
  <2>6. Min(R) = EndAt(ps, k + 1)
    <3> HIDE DEF R
    <3> QED BY <2>4, <2>5
  <2> QED BY <2>6 DEF PieceEnd, n
<1>10. <<>> \in G[n + 1]
  <2>1. ASSUME NEW k \in 0..m, EndAt(ps, k) + 1 = n + 1 PROVE SubSeq(ps, k + 1, m) = <<>>
    <3>1. EndAt(ps, k) = n /\ m \in 0..m
      BY <1>1, <1>4, <2>1
    <3>2. ~(k < m)
      BY <1>3, <1>4, <3>1
    <3>3. m < k + 1
      BY <1>1, <3>2
    <3> QED BY <1>1, <3>3, SubSeqEmpty
  <2>2. n + 1 \in 1..n + 1 /\ <<>> \in Seq(NonEmpty)
    BY <1>4
  <2> QED BY <2>1, <2>2
<1>11. ASSUME NEW i \in 1..n, NEW w \in G[next[i]] PROVE made[i] \o w \in G[i]
  <2> DEFINE b == PieceEnd(s, ends, i)
             p == SubSeq(s, i, b)
  <2>1. b \in i..n /\ next[i] = b + 1 /\ made[i] = <<p>> /\ p \in NonEmpty
    BY <1>8
  <2>2. next[i] \in 1..n + 1 /\ i \in 1..n + 1
    BY <1>4, <2>1
  <2>3. /\ w \in Seq(NonEmpty)
        /\ \A k \in 0..m : EndAt(ps, k) + 1 = next[i] => w = SubSeq(ps, k + 1, m)
    BY <1>11, <2>2
  <2> HIDE DEF b, p
  <2>4. made[i] \o w \in Seq(NonEmpty)
    <3>1. <<p>> \in Seq(NonEmpty)
      BY <2>1
    <3> QED BY <2>1, <2>3, <3>1, ConcatProperties
  <2>5. ASSUME NEW k \in 0..m, EndAt(ps, k) + 1 = i
        PROVE  made[i] \o w = SubSeq(ps, k + 1, m)
    <3>1. k < m
      <4>1. EndAt(ps, k) # n
        BY <1>4, <2>5
      <4> QED BY <1>1, <1>4, <4>1
    <3>2. b = EndAt(ps, k + 1)
      BY <1>9, <2>5, <3>1 DEF b
    <3>3. k + 1 \in 0..m /\ k + 1 \in 1..m /\ (k + 1) - 1 = k /\ m \in k + 1..m
          /\ k + 1 \in 1..m + 1 /\ k + 1 \in (k + 1) - 1..m
      BY <1>1, <3>1
    <3>4. p = ps[k + 1]
      <4>1. ps[k + 1] = SubSeq(s, EndAt(ps, (k + 1) - 1) + 1, EndAt(ps, k + 1))
        BY <1>4, <3>3
      <4> QED BY <2>5, <3>2, <3>3, <4>1 DEF p
    <3>5. w = SubSeq(ps, (k + 1) + 1, m)
      BY <2>1, <2>3, <3>2, <3>3
    <3>6. SubSeq(ps, k + 1, k + 1) = <<ps[k + 1]>>
      BY <3>3, SubOne DEF m
    <3>7. SubSeq(ps, k + 1, k + 1) \o SubSeq(ps, (k + 1) + 1, m) = SubSeq(ps, k + 1, m)
      BY <3>3, ConcatAdjacentSubSeq DEF m
    <3> QED BY <2>1, <3>4, <3>5, <3>6, <3>7
  <2> QED BY <2>2, <2>4, <2>5
<1>12. Walk(made, next) \in G[1]
  <2> HIDE DEF G
  <2>1. <<>> \in G[Len(next) + 1]
    BY <1>8, <1>10
  <2>2. \A i \in 1..Len(next) : \A w \in G[next[i]] : made[i] \o w \in G[i]
    BY <1>8, <1>11
  <2> QED BY <1>8, <2>1, <2>2, WalkInduction
<1>13. Walk(made, next) = SubSeq(ps, 1, m)
  <2>1. 1 \in 1..n + 1 /\ 0 \in 0..m /\ 0 + 1 = 1
    BY <1>1, <1>4
  <2>2. \A k \in 0..m : EndAt(ps, k) + 1 = 1 => Walk(made, next) = SubSeq(ps, k + 1, m)
    BY <1>12, <2>1
  <2>3. EndAt(ps, 0) + 1 = 1
    BY <1>4
  <2> QED BY <2>1, <2>2, <2>3
<1>14. SubSeq(ps, 1, m) = ps
  BY SubSeqFull DEF m
<1> QED BY <1>8, <1>13, <1>14 DEF s, ends, m

\* By path the words so far are the heaviest segmentation of the text so far.
HInv == method \in {"mp", "small"} => Heaviest(dict, Limit, uwords, Prefix)

(* A range cut by path is cut the heaviest way.                            *)
LEMMA RangeHeaviest ==
    ASSUME DictOK(dict), method \in {"mp", "small"},
           NEW r \in Seq(Rune), Len(r) = 1 \/ Elems(r) \cap symbols_ = {}
    PROVE  Heaviest(dict, Limit, CutRange(r), r)
<1> HIDE DEF model
<1>1. Limit \in Nat
  BY InputAssumption DEF Limit, MaxWordLength
<1>2. CutRange(r) = MPCut(dict, r, Limit)
  <2>1. CASE method = "small"
    <3>1. CutRange(r) = MPCut(dict, r, SmallLen)
      BY <2>1 DEF CutRange
    <3> QED BY <2>1, <3>1 DEF Limit
  <2>2. CASE method = "mp"
    <3>1. CutRange(r) = MixCut(dict, model, r, FALSE)
      BY <2>2 DEF CutRange
    <3>2. MixCut(dict, model, r, FALSE) = MPCut(dict, r, MaxWordLength)
      BY DEF MixCut
    <3>3. method # "small"
      BY <2>2
    <3> QED BY <3>1, <3>2, <3>3 DEF Limit
  <2> QED BY <2>1, <2>2
<1> HIDE DEF Limit
<1>3. /\ IsSeg(dict, Limit, MPCut(dict, r, Limit), r)
      /\ \A ps : IsSeg(dict, Limit, ps, r) =>
            WeightSum(dict, ps) <= WeightSum(dict, MPCut(dict, r, Limit))
  BY <1>1, MPHeaviest
<1> QED BY <1>2, <1>3 DEF Heaviest

(* Every step keeps the words the heaviest.                                *)
LEMMA HInvNext == JInv /\ HInv /\ [Next]_vars => HInv'
<1> SUFFICES ASSUME JInv, HInv, [Next]_vars PROVE HInv'
  OBVIOUS
<1>1. DictOK(dict)
  BY DEF JInv
<1>2. ASSUME NEW word \in UserWords, AddUserWord(word) PROVE HInv'
  <2>1. method' = "none"
    BY <1>2 DEF AddUserWord, JInv, Placed
  <2> QED BY <2>1 DEF HInv
<1>3. ASSUME NEW m \in Methods, NEW sentence \in Sentences, Cut(m, sentence) PROVE HInv'
  <2>1. /\ dict' = dict /\ sentence_' = Decode(sentence) /\ cursor' = 0 /\ uwords' = <<>>
    BY <1>3 DEF Cut
  <2>2. Prefix' = <<>>
    <3>1. SubSeq(sentence_', 1, 0) = <<>>
      BY SubSeqEmpty
    <3> QED BY <2>1, <3>1 DEF Prefix
  <2>3. Heaviest(dict, Limit', <<>>, <<>>)
    BY <1>1, HeaviestNone
  <2> QED BY <2>1, <2>2, <2>3 DEF HInv
<1>4. CASE CutNext
  <2> SUFFICES ASSUME method' \in {"mp", "small"}
               PROVE  Heaviest(dict', Limit', uwords', Prefix')
    BY DEF HInv
  <2> DEFINE c == cursor
             e == NextRange
             r == SubSeq(sentence_, c + 1, e)
  <2>1. /\ c < Len(sentence_) /\ uwords' = uwords \o CutRange(r) /\ cursor' = e
        /\ dict' = dict /\ method' = method /\ sentence_' = sentence_
    BY <1>4 DEF CutNext
  <2>2. /\ sentence_ \in Seq(Rune) /\ c \in 0..Len(sentence_) /\ Boundary(sentence_, c)
    BY DEF JInv, Placed
  <2>3. IsRange(sentence_, c, e)
    BY <2>1, <2>2, NextRangeIs
  <2>4. e \in c + 1..Len(sentence_)
    BY <2>3 DEF IsRange
  <2>5. Heaviest(dict, Limit, uwords, SubSeq(sentence_, 1, c))
    BY <2>1 DEF HInv, Prefix
  <2> HIDE DEF c, e
  <2>6. r \in Seq(Rune)
    BY <2>2, <2>4, RangeJoins
  <2>7. Len(r) = 1 \/ Elems(r) \cap symbols_ = {}
    BY <2>2, <2>3, RangeSeparated
  <2>8. Heaviest(dict, Limit, CutRange(r), r)
    <3> HIDE DEF r
    <3>1. method \in {"mp", "small"}
      BY <2>1
    <3> QED BY <1>1, <2>6, <2>7, <3>1, RangeHeaviest
  <2>9. Heaviest(dict, Limit, uwords \o CutRange(r), SubSeq(sentence_, 1, e))
    BY <1>1, <2>2, <2>3, <2>5, <2>8, HeaviestOn
  <2>10. Prefix' = SubSeq(sentence_, 1, e)
    BY <2>1 DEF Prefix
  <2>11. Limit' = Limit
    BY <2>1 DEF Limit
  <2> QED BY <2>1, <2>9, <2>10, <2>11
<1>5. ASSUME NEW sentence \in Sentences, CutLevel(sentence) PROVE HInv'
  BY <1>5 DEF CutLevel, HInv
<1>6. CASE NextLevelStep
  BY <1>6 DEF NextLevelStep, HInv
<1>7. CASE CutEnd \/ LevelEnd \/ Locate \/ Tag \/ Extract \/ Done \/ UNCHANGED vars
  <2>1. UNCHANGED <<dict, method, sentence_, cursor, uwords>>
    BY <1>7 DEF CutEnd, LevelEnd, Locate, Tag, Extract, Done, vars
  <2>2. Prefix' = Prefix /\ Limit' = Limit
    BY <2>1 DEF Prefix, Limit
  <2> QED BY <2>1, <2>2 DEF HInv
<1> QED BY <1>2, <1>3, <1>4, <1>5, <1>6, <1>7 DEF Next

(* The words of an unfinished or finished cut by path are among all the    *)
(* ways to take the text so far apart.                                     *)
LEMMA SegIsPieces ==
    ASSUME sentence_ \in Seq(Rune), cursor \in 1..Len(sentence_),
           NEW ps, IsSeg(dict, Limit, ps, Prefix)
    PROVE  ps \in Segmentations
<1> DEFINE m == Len(ps)
           ends == {EndAt(ps, k) : k \in 1..m}
           inner == {EndAt(ps, k) : k \in 1..m - 1}
<1>1. /\ ps \in Seq(NonEmpty) /\ FlattenSeq(ps) = Prefix /\ m \in Nat
      /\ \A k \in 1..m : Len(ps[k]) > 1 =>
            FindUnit(dict.trie, ps[k]) # NULL /\ Separated(ps[k]) /\ Len(ps[k]) <= Limit
  BY DEF IsSeg
<1>2. Len(Prefix) = cursor
  <2>1. Len(sentence_) \in Nat /\ cursor \in Nat
    OBVIOUS
  <2>2. 1 \in 1..Len(sentence_) + 1 /\ cursor \in 1 - 1..Len(sentence_) /\ cursor - 1 + 1 = cursor
    BY <2>1
  <2> QED BY <2>2, SubIs DEF Prefix
<1>3. ps \in Seq(Seq(Rune)) /\ ps \in Seq(Seq(Rune) \ {<<>>})
  <2>1. NonEmpty = Seq(Rune) \ {<<>>}
    BY DEF NonEmpty
  <2>2. NonEmpty \subseteq Seq(Rune)
    BY <2>1
  <2> QED BY <1>1, <2>1, <2>2, SeqMonotonic
<1>4. /\ EndAt(ps, 0) = 0 /\ EndAt(ps, m) = cursor
      /\ \A k \in 0..m : EndAt(ps, k) \in 0..cursor
  <2>1. Ends(ps, Prefix)
    BY <1>1, <1>3, EndsAre
  <2> QED BY <1>2, <2>1 DEF Ends
<1>5. \A j, k \in 0..m : j < k => EndAt(ps, j) < EndAt(ps, k)
  <2>1. Rising(ps)
    BY <1>3, EndsRise
  <2> QED BY <2>1 DEF Rising
<1>6. m # 0
  BY <1>4
<1>7. ends = inner \cup {cursor}
  <2>1. ASSUME NEW x \in ends PROVE x \in inner \cup {cursor}
    <3>1. PICK k \in 1..m : x = EndAt(ps, k)
      OBVIOUS
    <3>2. k = m \/ k \in 1..m - 1
      BY <1>1
    <3> QED BY <1>4, <3>1, <3>2
  <2>2. ASSUME NEW x \in inner \cup {cursor} PROVE x \in ends
    <3>1. CASE x = cursor
      <4>1. m \in 1..m /\ x = EndAt(ps, m)
        BY <1>1, <1>4, <1>6, <3>1
      <4> QED BY <4>1
    <3>2. CASE x \in inner
      <4>1. PICK k \in 1..m - 1 : x = EndAt(ps, k)
        BY <3>2
      <4>2. k \in 1..m
        BY <1>1
      <4> QED BY <4>1, <4>2
    <3> QED BY <3>1, <3>2
  <2> HIDE DEF ends, inner
  <2> QED BY <2>1, <2>2
<1>8. inner \in SUBSET (1..cursor - 1)
  <2>1. ASSUME NEW k \in 1..m - 1 PROVE EndAt(ps, k) \in 1..cursor - 1
    <3>1. 0 \in 0..m /\ m \in 0..m /\ k \in 0..m /\ 0 < k /\ k < m
      BY <1>1
    <3>2. EndAt(ps, 0) < EndAt(ps, k) /\ EndAt(ps, k) < EndAt(ps, m)
          /\ EndAt(ps, k) \in 0..cursor
      BY <1>4, <1>5, <3>1
    <3> QED BY <1>4, <3>2
  <2> QED BY <2>1
<1>9. Pieces(Prefix, ends) = ps
  BY <1>1, PiecesAre
<1> HIDE DEF ends, inner
<1>10. Pieces(Prefix, inner \cup {cursor}) = ps
  BY <1>7, <1>9
<1>11. \A k \in DOMAIN ps : Len(ps[k]) > 1 => Entry(ps[k]) /\ Len(ps[k]) <= Limit
  <2>1. DOMAIN ps = 1..m
    BY <1>1
  <2> QED BY <1>1, <2>1 DEF Entry
<1> QED BY <1>8, <1>10, <1>11 DEF Segmentations

(* And each of those ways is a segmentation.                               *)
LEMMA PiecesAreSeg ==
    ASSUME sentence_ \in Seq(Rune), cursor \in 1..Len(sentence_), NEW ps \in Segmentations
    PROVE  IsSeg(dict, Limit, ps, Prefix)
<1>1. PICK inner \in SUBSET (1..cursor - 1) : ps = Pieces(Prefix, inner \cup {cursor})
  BY DEF Segmentations
<1>2. \A k \in DOMAIN ps : Len(ps[k]) > 1 => Entry(ps[k]) /\ Len(ps[k]) <= Limit
  BY DEF Segmentations
<1>3. Prefix \in Seq(Rune) /\ Len(Prefix) = cursor /\ cursor \in Nat /\ cursor >= 1
  <2>1. Len(sentence_) \in Nat /\ cursor \in Nat /\ cursor >= 1
    OBVIOUS
  <2>2. 1 \in 1..Len(sentence_) + 1 /\ cursor \in 1 - 1..Len(sentence_) /\ cursor - 1 + 1 = cursor
    BY <2>1
  <2> QED BY <2>1, <2>2, SubIs DEF Prefix
<1>4. inner \cup {cursor} \subseteq 1..Len(Prefix) /\ Len(Prefix) \in inner \cup {cursor}
  <2>1. \A x \in inner : x \in 1..cursor - 1
    OBVIOUS
  <2>2. \A x \in inner : x \in 1..cursor
    BY <1>3, <2>1
  <2>3. cursor \in 1..cursor
    BY <1>3
  <2> QED BY <1>3, <2>2, <2>3
<1>5. ps \in Seq(NonEmpty) /\ FlattenSeq(ps) = Prefix
  <2>1. /\ Pieces(Prefix, inner \cup {cursor}) \in Seq(Seq(Rune) \ {<<>>})
        /\ FlattenSeq(Pieces(Prefix, inner \cup {cursor})) = Prefix
    BY <1>3, <1>4, PiecesCover
  <2> QED BY <1>1, <2>1 DEF NonEmpty
<1>6. DOMAIN ps = 1..Len(ps)
  BY <1>5
<1> QED BY <1>2, <1>5, <1>6 DEF IsSeg, Entry

(* The path and small segmenters choose, of all the ways to take a         *)
(* sentence apart into entries and single runes within the limit, one that *)
(* none outweighs, range after range, whatever the dictionaries.           *)
THEOREM PathsAreHeaviest == Spec => []HeaviestPath
<1>1. Init => HInv
  BY DEF Init, HInv
<1>2. JInv /\ HInv => HeaviestPath
  <2> SUFFICES ASSUME JInv, HInv, method \in {"mp", "small"}, cursor > 0
               PROVE  /\ uwords \in Segmentations
                      /\ \A pieces \in Segmentations : WeightOf(pieces) <= WeightOf(uwords)
    BY DEF HeaviestPath
  <2>1. sentence_ \in Seq(Rune) /\ cursor \in 0..Len(sentence_)
    BY DEF JInv, Placed
  <2>2. cursor \in 1..Len(sentence_)
    BY <2>1
  <2>3. /\ IsSeg(dict, Limit, uwords, Prefix)
        /\ \A ps : IsSeg(dict, Limit, ps, Prefix) =>
                WeightSum(dict, ps) <= WeightSum(dict, uwords)
    BY DEF HInv, Heaviest
  <2>4. uwords \in Segmentations
    BY <2>1, <2>2, <2>3, SegIsPieces
  <2>5. ASSUME NEW pieces \in Segmentations PROVE WeightOf(pieces) <= WeightOf(uwords)
    <3>1. IsSeg(dict, Limit, pieces, Prefix)
      BY <2>1, <2>2, PiecesAreSeg
    <3>2. WeightSum(dict, pieces) <= WeightSum(dict, uwords)
      BY <2>3, <3>1
    <3> QED BY <3>2, WeightOfIs
  <2> QED BY <2>4, <2>5
<1> QED BY <1>1, <1>2, HInvNext, JInvAlways, PTL DEF Spec

=============================================================================
