----------------------------- MODULE LruProofs -----------------------------
(***************************************************************************)
(* Theorems about one LruCache and its file, for any keys, values and      *)
(* size.  What the operations keep of a cache is in SharedLemmas; here is   *)
(* what they keep of the words, and, when keys are single words, of the    *)
(* keys and of the order of use.                                           *)
(***************************************************************************)
EXTENDS LruCache, SharedLemmas

\* What writeCacheFile makes of a key and a value.
WordLines == {ab[1] \o ab[2] : ab \in Words \X Words}

TInv ==
    /\ Whole(cache)
    /\ \A n \in Nodes(cache) : n.key \in Words /\ n.val \in Words
    /\ Len(cache.list) <= MaxSize
    /\ file \in Seq(WordLines)
    /\ Len(file) <= MaxSize

(* A key, a value or a word of one is a sequence, and a word of it is one  *)
(* of the words.                                                           *)
LEMMA WordsAre ==
    ASSUME NEW w \in Words
    PROVE  /\ w \in Seq(Range(w))
           /\ \A i \in 1..Len(w) : <<w[i]>> \in Words
<1>1. CASE w \in Strings
  <2>1. w \in Seq(Range(w))
    BY <1>1, LruAssumption DEF Strings
  <2>2. DOMAIN w = 1..Len(w)
    BY <2>1
  <2>3. \A i \in DOMAIN w : <<w[i]>> \in Words
    BY <1>1 DEF Words
  <2> QED BY <2>1, <2>2, <2>3
<1>2. CASE \E s \in Strings : \E i \in DOMAIN s : w = <<s[i]>>
  <2>0. PICK s \in Strings : \E i \in DOMAIN s : w = <<s[i]>>
    BY <1>2
  <2>1. PICK i \in DOMAIN s : w = <<s[i]>>
    BY <2>0
  <2>2. PICK x : x = s[i]
    OBVIOUS
  <2>3. w = <<x>> /\ <<x>> \in Words
    BY <2>1, <2>2
  <2>4. Len(<<x>>) = 1 /\ <<x>>[1] = x /\ DOMAIN <<x>> = {1}
    OBVIOUS
  <2>5. x \in Range(<<x>>)
    BY <2>4 DEF Range
  <2>6. <<x>> \in Seq(Range(<<x>>))
    BY <2>5
  <2>7. \A j \in 1..1 : j = 1
    OBVIOUS
  <2> QED BY <2>3, <2>4, <2>6, <2>7
<1> QED BY <1>1, <1>2 DEF Words

(* A line read back makes words of words: also when it has fewer than two, *)
(* as then the empty string was a key or a value.                          *)
LEMMA LineMakesWords ==
    ASSUME NEW line \in WordLines, NEW key, NEW val,
           <<key, val>> \in (Words \X Words) \cup {<<NoWords, NoWords>>}
    PROVE  <<KeyRead(line, key), ValRead(line, val)>> \in Words \X Words
<1>1. PICK a \in Words, b \in Words : line = a \o b
  BY DEF WordLines
<1> DEFINE R == Range(a) \cup Range(b)
<1>2. a \in Seq(R) /\ b \in Seq(R)
  <2>1. a \in Seq(Range(a)) /\ b \in Seq(Range(b))
    BY WordsAre
  <2>2. Range(a) \subseteq R /\ Range(b) \subseteq R
    OBVIOUS
  <2> HIDE DEF R
  <2> QED BY <2>1, <2>2, SeqMonotonic
<1> HIDE DEF R
<1>3. /\ Len(a) \in Nat /\ Len(b) \in Nat
      /\ line \in Seq(R) /\ Len(line) = Len(a) + Len(b)
      /\ \A i \in 1..Len(a) : line[i] = a[i]
      /\ \A i \in 1..Len(b) : line[Len(a) + i] = b[i]
  BY <1>1, <1>2
<1>4. ASSUME NEW i \in 1..Len(line) PROVE <<line[i]>> \in Words
  <2>1. CASE i <= Len(a)
    <3>1. i \in 1..Len(a) /\ line[i] = a[i]
      BY <1>3, <2>1
    <3> QED BY <3>1, WordsAre
  <2>2. CASE ~(i <= Len(a))
    <3>1. i - Len(a) \in 1..Len(b) /\ Len(a) + (i - Len(a)) = i
      BY <1>3, <2>2
    <3>2. line[i] = b[i - Len(a)]
      BY <1>3, <3>1
    <3> QED BY <3>1, <3>2, WordsAre
  <2> QED BY <2>1, <2>2
<1>5. Len(line) < 2 => NoWords \in Words
  <2> SUFFICES ASSUME Len(line) < 2 PROVE NoWords \in Words
    OBVIOUS
  <2>1. Len(a) = 0 \/ Len(b) = 0
    BY <1>3
  <2>2. a = <<>> \/ b = <<>>
    BY <1>2, <2>1
  <2> QED BY <2>2 DEF NoWords
<1>6. KeyRead(line, key) \in Words
  <2>1. CASE Len(line) >= 1
    <3>1. 1 \in 1..Len(line)
      BY <1>3, <2>1
    <3> QED BY <1>4, <2>1, <3>1 DEF KeyRead
  <2>2. CASE ~(Len(line) >= 1)
    <3>1. key \in Words
      BY <1>3, <1>5, <2>2
    <3> QED BY <2>2, <3>1 DEF KeyRead
  <2> QED BY <2>1, <2>2
<1>7. ValRead(line, val) \in Words
  <2>1. CASE Len(line) >= 2
    <3>1. 2 \in 1..Len(line)
      BY <1>3, <2>1
    <3> QED BY <1>4, <2>1, <3>1 DEF ValRead
  <2>2. CASE ~(Len(line) >= 2)
    <3>1. val \in Words
      BY <1>3, <1>5, <2>2
    <3> QED BY <2>2, <3>1 DEF ValRead
  <2> QED BY <2>1, <2>2
<1> QED BY <1>6, <1>7

(* What a cache of words writes is a file of such lines.                   *)
LEMMA WritesWords ==
    ASSUME NEW c, Whole(c),
           \A n \in Nodes(c) : n.key \in Words /\ n.val \in Words
    PROVE  WriteLines(c) \in Seq(WordLines) /\ Len(WriteLines(c)) = Len(c.list)
<1>1. PICK S : WriteLines(c) \in Seq(S)
  BY WriteLinesIs
<1>2. /\ Len(WriteLines(c)) = Len(c.list)
      /\ \A i \in 1..Len(c.list) : WriteLines(c)[i] = LineOf(c.list[i])
      /\ \A i \in 1..Len(c.list) : c.list[i] \in Nodes(c)
  BY WriteLinesIs
<1>3. \A n \in Nodes(c) : LineOf(n) \in WordLines
  <2> SUFFICES ASSUME NEW n \in Nodes(c) PROVE LineOf(n) \in WordLines
    OBVIOUS
  <2>1. <<n.key, n.val>> \in Words \X Words
    OBVIOUS
  <2>2. LineOf(n) = <<n.key, n.val>>[1] \o <<n.key, n.val>>[2]
    BY DEF LineOf
  <2> QED BY <2>1, <2>2 DEF WordLines
<1>4. \A i \in 1..Len(WriteLines(c)) : WriteLines(c)[i] \in WordLines
  BY <1>2, <1>3
<1>5. \A s \in Seq(S) : (\A i \in 1..Len(s) : s[i] \in WordLines) =>
                           s \in Seq(WordLines)
  OBVIOUS
<1> QED BY <1>1, <1>2, <1>4, <1>5

(* The cache stays whole, within its size and made of words, and so does   *)
(* the file.                                                               *)
LEMMA TInvAlways == Spec => []TInv
<1>1. Init => TInv
  <2> SUFFICES ASSUME Init PROVE TInv
    OBVIOUS
  <2>1. Len(EmptyCache.list) = 0 /\ <<>> \in Seq(WordLines) /\ Len(<<>>) = 0
    BY DEF EmptyCache
  <2> QED BY <2>1, EmptyWhole, LruAssumption DEF Init, TInv
<1>2. TInv /\ [Next]_vars => TInv'
  <2> SUFFICES ASSUME TInv, [Next]_vars PROVE TInv'
    OBVIOUS
  <2>1. ASSUME NEW k \in Keys, NEW v \in Vals, PutIntoCache(k, v) PROVE TInv'
    <3> DEFINE d == Put(cache, k, v, MaxSize)
    <3>1. /\ Whole(d) /\ Len(d.list) <= MaxSize
          /\ \A n \in Nodes(d) : n \in Nodes(cache) \/ (n.key = k /\ n.val = v)
      BY LruAssumption, PutWhole DEF TInv
    <3>2. cache' = d /\ file' = file
      BY <2>1 DEF PutIntoCache
    <3>3. k \in Words /\ v \in Words
      BY DEF Words, Strings
    <3> HIDE DEF d
    <3> QED BY <3>1, <3>2, <3>3 DEF TInv
  <2>2. CASE WriteCacheFile
    <3>1. /\ WriteLines(cache) \in Seq(WordLines)
          /\ Len(WriteLines(cache)) = Len(cache.list)
      BY WritesWords DEF TInv
    <3> QED BY <2>2, <3>1 DEF TInv, WriteCacheFile
  <2>3. CASE ReadCacheFile
    <3> DEFINE d == ReadLines(EmptyCache, file)
    <3>1. file \in Seq(WordLines) /\ Len(file) <= MaxSize /\ Len(file) \in Nat
      BY DEF TInv
    <3>2. Whole(d) /\ Len(d.list) = Len(EmptyCache.list) + Len(file)
      BY <3>1, EmptyWhole, ReadWhole
    <3>3. Len(d.list) <= MaxSize
      <4>1. Len(EmptyCache.list) = 0
        BY DEF EmptyCache
      <4> QED BY <3>1, <3>2, <4>1
    <3>4. \A n \in Nodes(d) : <<n.key, n.val>> \in Words \X Words
      <4>1. \A i \in 1..Len(file) : file[i] \in WordLines
        BY <3>1
      <4>2. \A i \in 1..Len(file) : \A key, val :
               <<key, val>> \in (Words \X Words) \cup {<<NoWords, NoWords>>} =>
                  <<KeyRead(file[i], key), ValRead(file[i], val)>>
                     \in Words \X Words
        BY <4>1, LineMakesWords
      <4> QED BY <3>1, <4>2, ReadPairs
    <3>5. cache' = d /\ file' = file
      BY <2>3 DEF ReadCacheFile
    <3> HIDE DEF d
    <3> QED BY <3>1, <3>2, <3>3, <3>4, <3>5 DEF TInv
  <2>4. CASE UNCHANGED vars
    BY <2>4 DEF TInv, vars
  <2> QED BY <2>1, <2>2, <2>3, <2>4 DEF Next
<1> QED BY <1>1, <1>2, PTL DEF Spec

(* The cache never outgrows maxSize_, whose test is ==, and neither does   *)
(* its file; what they hold are the words of the keys and the values.      *)
THEOREM LruTypes == Spec => []TypeOK
<1>1. TInv => TypeOK
  <2> SUFFICES ASSUME TInv PROVE TypeOK
    OBVIOUS
  <2>1. \A n \in Nodes(cache) : n.id \in Nat \ {0}
    <3>1. {n.id : n \in Nodes(cache)} = 1..Len(cache.list)
      BY DEF TInv, Whole
    <3>2. \A n \in Nodes(cache) : n.id \in {m.id : m \in Nodes(cache)}
      OBVIOUS
    <3>3. \A x \in 1..Len(cache.list) : x \in Nat \ {0}
      OBVIOUS
    <3> QED BY <3>1, <3>2, <3>3
  <2>2. DOMAIN cache.map \subseteq Words
    BY DEF TInv, Whole, Leads
  <2> QED BY <2>1, <2>2 DEF TInv, TypeOK
<1> QED BY <1>1, TInvAlways, PTL

-----------------------------------------------------------------------------
(* Keys that are single words are read back as they were written, so every *)
(* key keeps one node.                                                     *)

OneWordKeys == \A k \in Keys : Len(k) = 1

KeyOnce(c) == \A m, n \in Nodes(c) : m.key = n.key => m = n

\* The map leads to every node, by its key.
Exact(c) ==
    /\ Whole(c)
    /\ KeyOnce(c)
    /\ DOMAIN c.map = NodeKeys(c)

\* The keys are single words; so is the beginning of every line.
OneWord(n) == \E w : n.key = <<w>>
FirstWords(lines) ==
    /\ \A i \in 1..Len(lines) : Len(lines[i]) >= 1
    /\ \A i, j \in 1..Len(lines) : lines[i][1] = lines[j][1] => i = j

(* A node pushed in front of nodes with other keys.                        *)
LEMMA FrontExact ==
    ASSUME NEW c, NEW id, NEW k, NEW v, NEW d, InFront(c, id, k, v, d),
           KeyOnce(c), k \notin NodeKeys(c),
           DOMAIN c.map \cup {k} = NodeKeys(c) \cup {k}
    PROVE  Exact(d)
<1>1. /\ Whole(d) /\ Nodes(d) = Nodes(c) \cup {Node(id, k, v)}
      /\ d.map = Points(c.map, k, id)
  BY DEF InFront
<1>2. Node(id, k, v).key = k
  BY DEF Node
<1>3. KeyOnce(d)
  BY <1>1, <1>2 DEF KeyOnce, NodeKeys
<1>4. NodeKeys(d) = NodeKeys(c) \cup {k}
  BY <1>1, <1>2 DEF NodeKeys
<1>5. DOMAIN d.map = DOMAIN c.map \cup {k}
  BY <1>1 DEF Points
<1> QED BY <1>1, <1>3, <1>4, <1>5 DEF Exact

\* What a put into c pushes its node in front of.
Base(c, k, m) ==
    IF Found(c, k) THEN Erase(c, c.map[k])
    ELSE IF IsFull(c, m) THEN DropLast(c) ELSE c

(* A put keeps a cache exact, whatever it takes out.                       *)
LEMMA PutExact ==
    ASSUME NEW c, NEW k, NEW v, NEW m \in Nat \ {0}, Exact(c)
    PROVE  /\ Put(c, k, v, m) = PushFront(Base(c, k, m), k, v)
           /\ \E id : /\ Lacks(Base(c, k, m), id, k)
                       /\ InFront(Base(c, k, m), id, k, v, Put(c, k, v, m))
           /\ Exact(Put(c, k, v, m))
<1> DEFINE e == Base(c, k, m)
           d == Put(c, k, v, m)
<1>1. d = PushFront(e, k, v)
  BY DEF Put, Hit, Miss, Base
<1>2. /\ Whole(c) /\ KeyOnce(c) /\ DOMAIN c.map = NodeKeys(c)
      /\ Len(c.list) \in Nat
  BY NodesAre DEF Exact, Whole
<1>3. /\ \E id : Lacks(e, id, k)
      /\ KeyOnce(e) /\ k \notin NodeKeys(e)
      /\ DOMAIN e.map \cup {k} = NodeKeys(e) \cup {k}
  <2>1. CASE Found(c, k)
    <3>0. PICK p : p = Position(c, c.map[k])
      OBVIOUS
    <3>1. e = Erase(c, c.map[k])
      BY <2>1 DEF Base
    <3> HIDE DEF e
    <3>2. /\ p \in 1..Len(c.list) /\ c.list[p].key = k
          /\ Lacks(e, c.map[k], k) /\ e.map = c.map
          /\ Nodes(e) = Nodes(c) \ {c.list[p]}
      BY <1>2, <2>1, <3>0, <3>1, EraseLacks, ZenonT(60)
    <3>3. c.list[p] \in Nodes(c)
      BY <1>2, <3>2, NodesAre DEF Whole
    <3>4. KeyOnce(e) /\ k \notin NodeKeys(e)
      BY <1>2, <3>2, <3>3 DEF KeyOnce, NodeKeys
    <3>5. NodeKeys(c) = NodeKeys(e) \cup {k}
      BY <3>2, <3>3 DEF NodeKeys
    <3> QED BY <1>2, <3>2, <3>4, <3>5
  <2>2. CASE ~Found(c, k) /\ IsFull(c, m)
    <3>0. PICK last : last = c.list[Len(c.list)]
      OBVIOUS
    <3>1. e = DropLast(c) /\ Len(c.list) > 0
      BY <1>2, <2>2 DEF Base, IsFull
    <3> HIDE DEF e
    <3>2. /\ last \in Nodes(c) /\ Lacks(e, last.id, k)
          /\ Nodes(e) = Nodes(c) \ {last}
          /\ e.map = Unmaps(c.map, last.key)
      BY <1>2, <3>0, <3>1, DropLastLacks
    <3>3. DOMAIN e.map = DOMAIN c.map \ {last.key}
      BY <3>2 DEF Unmaps
    <3>4. NodeKeys(e) = NodeKeys(c) \ {last.key}
      BY <1>2, <3>2 DEF KeyOnce, NodeKeys
    <3>5. KeyOnce(e)
      BY <1>2, <3>2 DEF KeyOnce
    <3>6. k \notin NodeKeys(e)
      BY <1>2, <2>2, <3>4 DEF Found
    <3> QED BY <1>2, <3>2, <3>3, <3>4, <3>5, <3>6
  <2>3. CASE ~Found(c, k) /\ ~IsFull(c, m)
    <3>1. e = c
      BY <2>3 DEF Base
    <3>2. Lacks(c, Len(c.list) + 1, k) /\ k \notin NodeKeys(c)
      BY <1>2, <2>3, WholeLacks DEF Found
    <3> QED BY <1>2, <3>1, <3>2
  <2> QED BY <2>1, <2>2, <2>3
<1> HIDE DEF e, d
<1>4. PICK id : Lacks(e, id, k)
  BY <1>3
<1>5. InFront(e, id, k, v, d)
  BY <1>1, <1>4, PushFrontWhole
<1>6. Exact(d)
  BY <1>3, <1>5, FrontExact
<1> QED BY <1>1, <1>4, <1>5, <1>6 DEF e, d

\* c is what the lines make of an empty cache.
MadeOf(c, lines) ==
    /\ Whole(c)
    /\ Len(c.list) = Len(lines)
    /\ \A i \in 1..Len(lines) :
          /\ c.list[i].key = <<lines[i][1]>>
          /\ Len(lines[i]) >= 2 => c.list[i].val = <<lines[i][2]>>
    /\ DOMAIN c.map = {<<lines[i][1]>> : i \in 1..Len(lines)}

(* Each line that is not empty becomes a node with its first word as key.  *)
LEMMA ReadMakes ==
    ASSUME NEW lines, NEW S, lines \in Seq(S),
           \A i \in 1..Len(lines) : Len(lines[i]) >= 1
    PROVE  MadeOf(ReadLines(EmptyCache, lines), lines)
<1> DEFINE n == Len(lines)
           Made(r, m) ==
               /\ Whole(r.cache)
               /\ Len(r.cache.list) = m
               /\ \A i \in 1..m :
                     /\ r.cache.list[i].key = <<lines[i][1]>>
                     /\ Len(lines[i]) >= 2 => r.cache.list[i].val = <<lines[i][2]>>
               /\ DOMAIN r.cache.map = {<<lines[i][1]>> : i \in 1..m}
<1>1. n \in Nat
  OBVIOUS
<1>2. PICK r : /\ r[0] = StartOf(EmptyCache)
               /\ \A i \in 1..n : r[i] = ReadLine(r[i - 1], lines[i])
               /\ ReadLines(EmptyCache, lines) = r[n].cache
  BY ReadSteps
<1> DEFINE Good == {m \in 0..n : Made(r[m], m)}
<1>3. 0 \in Good
  <2>1. r[0].cache = EmptyCache
    BY <1>2 DEF StartOf
  <2>2. EmptyCache.list = <<>> /\ EmptyCache.map = <<>>
    BY DEF EmptyCache
  <2>3. Len(<<>>) = 0 /\ DOMAIN <<>> = {} /\ 1..0 = {}
    OBVIOUS
  <2>4. Made(r[0], 0)
    BY <2>1, <2>2, <2>3, EmptyWhole
  <2> QED BY <1>1, <2>4
<1>4. ASSUME NEW m \in 0..n, m < n, m \in Good PROVE m + 1 \in Good
  <2>1. m + 1 \in 1..n /\ m + 1 \in 0..n /\ (m + 1) - 1 = m
    BY <1>1, <1>4
  <2>2. r[m + 1] = ReadLine(r[m], lines[m + 1])
    BY <1>2, <2>1
  <2>3. PICK k, v : /\ k = KeyRead(lines[m + 1], r[m].key)
                    /\ v = ValRead(lines[m + 1], r[m].val)
    OBVIOUS
  <2>4. PICK c, d : c = r[m].cache /\ d = r[m + 1].cache
    OBVIOUS
  <2>5. d = PushBack(c, k, v)
    BY <2>2, <2>3, <2>4, ReadLineIs
  <2>6. k = <<lines[m + 1][1]>> /\ (Len(lines[m + 1]) >= 2 => v = <<lines[m + 1][2]>>)
    BY <2>1, <2>3 DEF KeyRead, ValRead
  <2>7. /\ Whole(c) /\ Len(c.list) = m
        /\ \A i \in 1..m :
              /\ c.list[i].key = <<lines[i][1]>>
              /\ Len(lines[i]) >= 2 => c.list[i].val = <<lines[i][2]>>
        /\ DOMAIN c.map = {<<lines[i][1]>> : i \in 1..m}
    BY <1>4, <2>4
  <2>8. /\ Whole(d) /\ d.list = Append(c.list, Node(m + 1, k, v))
        /\ d.map = Points(c.map, k, m + 1) /\ Len(d.list) = m + 1
    BY <2>5, <2>7, PushBackWhole
  <2>9. /\ d.list[m + 1] = Node(m + 1, k, v)
        /\ \A i \in 1..m : d.list[i] = c.list[i]
    <3>1. PICK T : c.list \in Seq(T)
      BY <2>7 DEF Whole
    <3>2. PICK x : x = Node(m + 1, k, v)
      OBVIOUS
    <3>3. c.list \in Seq(T \cup {x}) /\ x \in T \cup {x}
      BY <3>1, SeqMonotonic
    <3> QED BY <2>7, <2>8, <3>2, <3>3, AppendProperties
  <2>10. Node(m + 1, k, v).key = k /\ Node(m + 1, k, v).val = v
    BY DEF Node
  <2>11. DOMAIN d.map = {<<lines[i][1]>> : i \in 1..(m + 1)}
    <3>1. DOMAIN d.map = DOMAIN c.map \cup {k}
      BY <2>8 DEF Points
    <3>2. 1..(m + 1) = 1..m \cup {m + 1}
      OBVIOUS
    <3> QED BY <2>6, <2>7, <3>1, <3>2
  <2>12. \A i \in 1..(m + 1) :
            /\ d.list[i].key = <<lines[i][1]>>
            /\ Len(lines[i]) >= 2 => d.list[i].val = <<lines[i][2]>>
    <3>1. \A i \in 1..(m + 1) : i \in 1..m \/ i = m + 1
      OBVIOUS
    <3> QED BY <2>6, <2>7, <2>9, <2>10, <3>1, ZenonT(40)
  <2>13. Made(r[m + 1], m + 1)
    BY <2>4, <2>8, <2>11, <2>12, Zenon
  <2> QED BY <2>1, <2>13
<1> HIDE DEF Good
<1>5. \A m \in 0..n : m \in Good
  BY <1>1, <1>3, <1>4, UpTo
<1>6. Made(r[n], n)
  BY <1>1, <1>5 DEF Good
<1> QED BY <1>2, <1>6 DEF MadeOf

(* A file whose lines begin with different words is read back into an      *)
(* exact cache.                                                            *)
LEMMA MadeExact ==
    ASSUME NEW c, NEW lines, MadeOf(c, lines), FirstWords(lines)
    PROVE  Exact(c) /\ \A n \in Nodes(c) : OneWord(n)
<1>1. /\ Whole(c) /\ Len(c.list) = Len(lines)
      /\ \A i \in 1..Len(c.list) : c.list[i].key = <<lines[i][1]>>
      /\ DOMAIN c.map = {<<lines[i][1]>> : i \in 1..Len(c.list)}
  BY DEF MadeOf
<1>2. Nodes(c) = {c.list[i] : i \in 1..Len(c.list)}
  BY <1>1, NodesAre DEF Whole
<1>3. \A x, y : <<x>> = <<y>> => x = y
  OBVIOUS
<1>4. KeyOnce(c)
  <2> SUFFICES ASSUME NEW m \in Nodes(c), NEW n \in Nodes(c), m.key = n.key
               PROVE  m = n
    BY DEF KeyOnce
  <2>1. PICK i \in 1..Len(c.list) : m = c.list[i]
    BY <1>2
  <2>2. PICK j \in 1..Len(c.list) : n = c.list[j]
    BY <1>2
  <2>3. lines[i][1] = lines[j][1]
    BY <1>1, <1>3, <2>1, <2>2
  <2>4. i = j
    BY <1>1, <2>3 DEF FirstWords
  <2> QED BY <2>1, <2>2, <2>4
<1>5. DOMAIN c.map = NodeKeys(c)
  <2>1. NodeKeys(c) = {c.list[i].key : i \in 1..Len(c.list)}
    BY <1>2 DEF NodeKeys
  <2> QED BY <1>1, <2>1
<1>6. \A n \in Nodes(c) : OneWord(n)
  BY <1>1, <1>2 DEF OneWord
<1> QED BY <1>1, <1>4, <1>5, <1>6 DEF Exact

(* A line begins with the key and goes on with the value.                  *)
LEMMA LineIs ==
    ASSUME NEW n, OneWord(n), n.val \in Seq(Range(n.val))
    PROVE  /\ Len(n.val) \in Nat
           /\ Len(LineOf(n)) = Len(n.val) + 1
           /\ n.key = <<LineOf(n)[1]>>
           /\ SubSeq(LineOf(n), 1, 1) = n.key
           /\ SubSeq(LineOf(n), 2, Len(LineOf(n))) = n.val
<1>1. PICK w, v : n.key = <<w>> /\ v = n.val
  BY DEF OneWord
<1>2. PICK S : S = Range(v) \cup {w}
  OBVIOUS
<1>3. v \in Seq(S) /\ w \in S
  <2>1. Range(v) \subseteq S /\ v \in Seq(Range(v))
    BY <1>1, <1>2
  <2> QED BY <1>2, <2>1, SeqMonotonic
<1>4. PICK line : line = <<w>> \o v /\ line = LineOf(n)
  BY <1>1 DEF LineOf
<1>5. /\ Len(v) \in Nat /\ line \in Seq(S) /\ Len(line) = Len(v) + 1
      /\ line[1] = w
      /\ \A i \in 1..Len(v) : line[i + 1] = v[i]
  <2>1. /\ line \in Seq(S) /\ Len(line) = 1 + Len(v)
        /\ \A i \in 1..(1 + Len(v)) :
              line[i] = IF i <= 1 THEN <<w>>[i] ELSE v[i - 1]
    <3>1. <<w>> \in Seq(S) /\ Len(<<w>>) = 1
      BY <1>3
    <3> QED BY <1>3, <1>4, <3>1, ConcatProperties
  <2>2. Len(v) \in Nat
    BY <1>3
  <2>3. line[1] = w
    <3>1. 1 \in 1..(1 + Len(v)) /\ <<w>>[1] = w
      BY <2>2
    <3> QED BY <2>1, <3>1
  <2>4. ASSUME NEW i \in 1..Len(v) PROVE line[i + 1] = v[i]
    <3>1. i + 1 \in 1..(1 + Len(v)) /\ ~(i + 1 <= 1) /\ (i + 1) - 1 = i
      BY <2>2
    <3> QED BY <2>1, <3>1
  <2> QED BY <2>1, <2>2, <2>3, <2>4
<1>6. SubSeq(line, 1, 1) = <<w>>
  <2>1. \A i \in 1..1 : line[i] \in S
    BY <1>3, <1>5
  <2>2. /\ SubSeq(line, 1, 1) \in Seq(S)
        /\ Len(SubSeq(line, 1, 1)) = 1
        /\ SubSeq(line, 1, 1)[1] = line[1]
    <3>1. /\ SubSeq(line, 1, 1) \in Seq(S)
          /\ Len(SubSeq(line, 1, 1)) = IF 1 <= 1 THEN 1 - 1 + 1 ELSE 0
          /\ \A i \in 1..(1 - 1 + 1) : SubSeq(line, 1, 1)[i] = line[1 + i - 1]
      BY <2>1, SubSeqProperties
    <3> QED BY <3>1
  <2>3. \A s \in Seq(S) : Len(s) = 1 => s = <<s[1]>>
    OBVIOUS
  <2> QED BY <1>5, <2>2, <2>3
<1>7. SubSeq(line, 2, Len(line)) = v
  <2>1. Len(line) \in Int /\ \A i \in 2..Len(line) : line[i] \in S
    BY <1>5
  <2>2. PICK t : t = SubSeq(line, 2, Len(line))
    OBVIOUS
  <2>3. /\ t \in Seq(S)
        /\ Len(t) = IF 2 <= Len(line) THEN Len(line) - 2 + 1 ELSE 0
        /\ \A i \in 1..(Len(line) - 2 + 1) : t[i] = line[2 + i - 1]
    BY <2>1, <2>2, SubSeqProperties
  <2>4. Len(t) = Len(v)
    BY <1>5, <2>3
  <2>5. ASSUME NEW i \in 1..Len(v) PROVE t[i] = v[i]
    <3>1. i \in 1..(Len(line) - 2 + 1) /\ 2 + i - 1 = i + 1
      BY <1>5
    <3> QED BY <1>5, <2>3, <3>1
  <2>6. t = v
    BY <1>3, <2>3, <2>4, <2>5, SeqEqual
  <2> QED BY <2>2, <2>6
<1> QED BY <1>1, <1>4, <1>5, <1>6, <1>7

MInv ==
    /\ Exact(cache)
    /\ \A n \in Nodes(cache) : OneWord(n)
    /\ FirstWords(file)

(* The lines an exact cache writes begin with different words.             *)
LEMMA WritesFirstWords ==
    ASSUME NEW c, Exact(c), \A n \in Nodes(c) : OneWord(n) /\ n.val \in Words
    PROVE  FirstWords(WriteLines(c))
<1>1. /\ Len(WriteLines(c)) = Len(c.list)
      /\ \A i \in 1..Len(c.list) : WriteLines(c)[i] = LineOf(c.list[i])
      /\ \A i \in 1..Len(c.list) : c.list[i] \in Nodes(c)
  BY WriteLinesIs DEF Exact
<1>2. \A n \in Nodes(c) : Len(LineOf(n)) >= 1 /\ n.key = <<LineOf(n)[1]>>
  <2> SUFFICES ASSUME NEW n \in Nodes(c)
               PROVE  Len(LineOf(n)) >= 1 /\ n.key = <<LineOf(n)[1]>>
    OBVIOUS
  <2>1. n.val \in Seq(Range(n.val))
    BY WordsAre
  <2>2. /\ Len(n.val) \in Nat /\ Len(LineOf(n)) = Len(n.val) + 1
        /\ n.key = <<LineOf(n)[1]>>
    BY <2>1, LineIs
  <2> QED BY <2>2
<1>3. \A i, j \in 1..Len(c.list) : c.list[i] = c.list[j] => i = j
  BY DEF Exact, Whole
<1>4. ASSUME NEW i \in 1..Len(c.list), NEW j \in 1..Len(c.list),
             WriteLines(c)[i][1] = WriteLines(c)[j][1]
      PROVE  i = j
  <2>1. c.list[i].key = c.list[j].key
    BY <1>1, <1>2, <1>4, ZenonT(40)
  <2>2. c.list[i] = c.list[j]
    BY <1>1, <2>1 DEF Exact, KeyOnce
  <2> QED BY <1>3, <2>2
<1> QED BY <1>1, <1>2, <1>4 DEF FirstWords

(* A key of one word is one.                                               *)
LEMMA KeyIsOneWord ==
    ASSUME OneWordKeys, NEW k \in Keys
    PROVE  \E w : k = <<w>>
<1>1. k \in Seq(Range(k)) /\ Len(k) = 1
  BY LruAssumption DEF OneWordKeys
<1>2. k = <<k[1]>>
  BY <1>1
<1> QED BY <1>2

(* The empty cache is exact.                                               *)
LEMMA EmptyExact == Exact(EmptyCache)
<1>1. DOMAIN EmptyCache.map = {}
  BY DEF EmptyCache
<1> QED BY <1>1, EmptyWhole DEF Exact, KeyOnce, NodeKeys

(* Every step keeps list and map together, and the file readable.          *)
LEMMA MInvNext == OneWordKeys /\ TInv /\ MInv /\ [Next]_vars => MInv'
<1> SUFFICES ASSUME OneWordKeys, TInv, MInv, [Next]_vars PROVE MInv'
  OBVIOUS
<1>1. ASSUME NEW k \in Keys, NEW v \in Vals, PutIntoCache(k, v) PROVE MInv'
  <2> DEFINE d == Put(cache, k, v, MaxSize)
  <2>1. Exact(d)
    BY LruAssumption, PutExact DEF MInv
  <2>2. \A n \in Nodes(d) : n \in Nodes(cache) \/ (n.key = k /\ n.val = v)
    BY LruAssumption, PutWhole DEF TInv
  <2>3. \E w : k = <<w>>
    BY KeyIsOneWord
  <2>4. cache' = d /\ file' = file
    BY <1>1 DEF PutIntoCache
  <2> HIDE DEF d
  <2>5. \A n \in Nodes(d) : OneWord(n)
    BY <2>2, <2>3 DEF MInv, OneWord
  <2> QED BY <2>1, <2>4, <2>5 DEF MInv
<1>2. CASE WriteCacheFile
  <2>1. FirstWords(WriteLines(cache))
    BY WritesFirstWords DEF TInv, MInv
  <2> QED BY <1>2, <2>1 DEF WriteCacheFile, MInv
<1>3. CASE ReadCacheFile
  <2>1. file \in Seq(WordLines) /\ FirstWords(file)
    BY DEF TInv, MInv
  <2>2. MadeOf(ReadLines(EmptyCache, file), file)
    BY <2>1, ReadMakes DEF FirstWords
  <2>3. /\ Exact(ReadLines(EmptyCache, file))
        /\ \A n \in Nodes(ReadLines(EmptyCache, file)) : OneWord(n)
    BY <2>1, <2>2, MadeExact
  <2> QED BY <1>3, <2>1, <2>3 DEF ReadCacheFile, MInv
<1>4. CASE UNCHANGED vars
  BY <1>4 DEF vars, MInv
<1> QED BY <1>1, <1>2, <1>3, <1>4 DEF Next

(* The first cache is empty, and so is the file.                           *)
LEMMA MInvInit == Init => MInv
<1> SUFFICES ASSUME Init PROVE MInv
  OBVIOUS
<1>1. FirstWords(<<>>)
  BY DEF FirstWords
<1> QED BY <1>1, EmptyExact, EmptyWhole DEF Init, MInv

(* In an exact cache the map leads from each key to its one node.          *)
LEMMA ExactMatches == MInv => MapMatchesList
<1> SUFFICES ASSUME MInv PROVE MapMatchesList
  OBVIOUS
<1>1. Whole(cache) /\ KeyOnce(cache) /\ DOMAIN cache.map = NodeKeys(cache)
  BY DEF MInv, Exact
<1>2. /\ DOMAIN cache.list = 1..Len(cache.list)
      /\ Nodes(cache) = {cache.list[i] : i \in 1..Len(cache.list)}
  BY <1>1, NodesAre DEF Whole
<1>3. \A i, j \in DOMAIN cache.list :
         i # j => /\ cache.list[i].id # cache.list[j].id
                  /\ cache.list[i].key # cache.list[j].key
  <2>1. \A i, j \in 1..Len(cache.list) :
           cache.list[i].id = cache.list[j].id => i = j
    BY <1>1 DEF Whole
  <2>2. \A i \in 1..Len(cache.list) : cache.list[i] \in Nodes(cache)
    BY <1>2
  <2>3. \A i, j \in 1..Len(cache.list) :
           cache.list[i].key = cache.list[j].key => i = j
    BY <1>1, <2>1, <2>2 DEF KeyOnce
  <2> QED BY <1>2, <2>1, <2>3
<1>4. \A n \in Nodes(cache) : cache.map[n.key] = n.id
  <2> SUFFICES ASSUME NEW n \in Nodes(cache) PROVE cache.map[n.key] = n.id
    OBVIOUS
  <2>1. n.key \in DOMAIN cache.map
    BY <1>1 DEF NodeKeys
  <2>2. PICK m \in Nodes(cache) : m.id = cache.map[n.key] /\ m.key = n.key
    BY <1>1, <2>1 DEF Whole, Leads
  <2> QED BY <1>1, <2>2 DEF KeyOnce
<1> QED BY <1>1, <1>3, <1>4 DEF MapMatchesList

(* If every key is one word, list and map describe the same cache after    *)
(* any puts, writes of the file and restarts: no entry dangles, no node is *)
(* out of reach, no key has two nodes.                                     *)
THEOREM MapLeadsToEveryNode ==
    ASSUME OneWordKeys PROVE Spec => []MapMatchesList
<1>1. Init => MInv
  BY MInvInit
<1>2. TInv /\ MInv /\ [Next]_vars => MInv'
  BY MInvNext
<1>3. MInv => MapMatchesList
  BY ExactMatches
<1> QED BY <1>1, <1>2, <1>3, TInvAlways, PTL DEF Spec

-----------------------------------------------------------------------------
(* The refinement of LruSpec.                                              *)

NonEmptyVals == \A v \in Vals : Len(v) >= 1

\* The refinement mapping, and what it makes of an exact cache.
Content == [i \in DOMAIN cache.list |->
               [key |-> cache.list[i].key,
                val |-> FoundVal(cache, cache.list[i].key)]]
Saved == [i \in DOMAIN file |->
             [key |-> SubSeq(file[i], 1, 1),
              val |-> SubSeq(file[i], 2, Len(file[i]))]]

PairOf(n) == [key |-> n.key, val |-> n.val]
PairsOf(c) == [i \in 1..Len(c.list) |-> PairOf(c.list[i])]

\* Others and Newest of LruSpec, for any sequence of pairs.
OthersOf(s, k) ==
    IF \E i \in DOMAIN s : s[i].key = k
    THEN RemoveAt(s, CHOOSE i \in DOMAIN s : s[i].key = k)
    ELSE s
NewestOf(s, m) == SubSeq(s, 1, IF Len(s) > m THEN m ELSE Len(s))

\* A line holds a key and at least one word of a value.
LInv ==
    /\ \A n \in Nodes(cache) : Len(n.val) >= 1
    /\ \A i \in 1..Len(file) : Len(file[i]) >= 2

(* A lookup in an exact cache finds the value of the one node of a key.    *)
LEMMA ContentIs ==
    ASSUME NEW c, Exact(c)
    PROVE  [i \in DOMAIN c.list |->
               [key |-> c.list[i].key, val |-> FoundVal(c, c.list[i].key)]]
              = PairsOf(c)
<1>1. Whole(c) /\ KeyOnce(c) /\ DOMAIN c.map = NodeKeys(c)
  BY DEF Exact
<1>2. /\ DOMAIN c.list = 1..Len(c.list)
      /\ Nodes(c) = {c.list[i] : i \in 1..Len(c.list)}
  BY <1>1, NodesAre DEF Whole
<1>3. ASSUME NEW i \in 1..Len(c.list)
      PROVE  FoundVal(c, c.list[i].key) = c.list[i].val
  <2>1. PICK k, p : k = c.list[i].key /\ p = Position(c, c.map[k])
    OBVIOUS
  <2>2. c.list[i] \in Nodes(c) /\ Found(c, k)
    BY <1>1, <1>2, <2>1 DEF NodeKeys, Found
  <2>3. p \in 1..Len(c.list) /\ c.list[p].key = k
    BY <1>1, <2>1, <2>2, FoundIs
  <2>4. c.list[p] = c.list[i]
    BY <1>1, <1>2, <2>1, <2>3 DEF KeyOnce
  <2> QED BY <2>1, <2>4 DEF FoundVal, NodeAt
<1> QED BY <1>2, <1>3 DEF PairsOf, PairOf

(* The pairs of a cache are a sequence.                                    *)
LEMMA PairsAre ==
    ASSUME NEW c, Whole(c)
    PROVE  /\ Len(c.list) \in Nat
           /\ \E S : PairsOf(c) \in Seq(S)
           /\ Len(PairsOf(c)) = Len(c.list)
           /\ DOMAIN PairsOf(c) = 1..Len(c.list)
           /\ \A i \in 1..Len(c.list) : PairsOf(c)[i] = PairOf(c.list[i])
<1>1. Len(c.list) \in Nat
  BY NodesAre DEF Whole
<1> DEFINE S == {PairOf(c.list[i]) : i \in 1..Len(c.list)}
<1>2. PairsOf(c) \in [1..Len(c.list) -> S]
  BY DEF PairsOf
<1> HIDE DEF S
<1>3. PairsOf(c) \in Seq(S) /\ Len(PairsOf(c)) = Len(c.list)
  BY <1>1, <1>2
<1> QED BY <1>1, <1>2, <1>3 DEF PairsOf

\* What is left of the pairs of c, up to the length that fits behind one
\* more pair, are those of e.
LeavesFor(c, e, k, m) ==
    LET s == OthersOf(PairsOf(c), k)
    IN  /\ \E S : s \in Seq(S)
        /\ Len(e.list) <= Len(s)
        /\ \A i \in 1..Len(e.list) : s[i] = PairOf(e.list[i])
        /\ Len(e.list) + 1 = IF Len(s) + 1 > m THEN m ELSE Len(s) + 1

(* What a put takes out is what LruSpec takes out: the pair of the key, or *)
(* else the last pair of a full cache.                                     *)
LEMMA BaseLeaves ==
    ASSUME NEW c, NEW k, NEW m \in Nat \ {0}, Exact(c), Len(c.list) <= m
    PROVE  LeavesFor(c, Base(c, k, m), k, m)
<1> DEFINE L == Len(c.list)
           P == PairsOf(c)
           s == OthersOf(P, k)
           e == Base(c, k, m)
<1>1. /\ Whole(c) /\ KeyOnce(c) /\ DOMAIN c.map = NodeKeys(c)
      /\ Nodes(c) = {c.list[i] : i \in 1..L}
  BY NodesAre DEF Exact, Whole
<1>2. PICK S : P \in Seq(S)
  BY <1>1, PairsAre
<1>3. /\ L \in Nat /\ Len(P) = L /\ DOMAIN P = 1..L
      /\ \A i \in 1..L : P[i] = PairOf(c.list[i]) /\ P[i].key = c.list[i].key
  <2>1. /\ L \in Nat /\ Len(P) = L /\ DOMAIN P = 1..L
        /\ \A i \in 1..L : P[i] = PairOf(c.list[i])
    BY <1>1, PairsAre
  <2>2. \A n : PairOf(n).key = n.key
    BY DEF PairOf
  <2> HIDE DEF P, L
  <2> QED BY <2>1, <2>2
<1> HIDE DEF P, L
<1>4. CASE Found(c, k)
  <2>1. PICK p : p = Position(c, c.map[k])
    OBVIOUS
  <2>2. e = Erase(c, c.map[k])
    BY <1>4 DEF Base
  <2>3. /\ p \in 1..L /\ c.list[p].key = k
        /\ Len(e.list) = L - 1
        /\ \A i \in 1..(L - 1) :
              e.list[i] = IF i < p THEN c.list[i] ELSE c.list[i + 1]
    BY <1>1, <1>4, <2>1, <2>2, EraseLacks DEF L
  <2>4. \A i \in 1..L : P[i].key = k => i = p
    <3> SUFFICES ASSUME NEW i \in 1..L, P[i].key = k PROVE i = p
      OBVIOUS
    <3>0. c.list[i].key = k /\ c.list[p].key = k
      BY <1>3, <2>3
    <3>1. c.list[i] \in Nodes(c) /\ c.list[p] \in Nodes(c)
      BY <1>1, <2>3
    <3>2. c.list[i] = c.list[p]
      BY <1>1, <3>0, <3>1 DEF KeyOnce
    <3> QED BY <1>1, <2>3, <3>2 DEF Whole, L
  <2>5. (CHOOSE i \in DOMAIN P : P[i].key = k) = p
    BY <1>3, <2>3, <2>4
  <2>6. s = RemoveAt(P, p)
    BY <1>3, <2>3, <2>5 DEF OthersOf
  <2>7. /\ s \in Seq(S) /\ Len(s) = L - 1
        /\ \A i \in 1..(L - 1) : s[i] = IF i < p THEN P[i] ELSE P[i + 1]
    <3>1. p \in 1..Len(P)
      BY <1>3, <2>3
    <3>2. /\ s \in Seq(S) /\ Len(s) = Len(P) - 1
          /\ \A i \in 1..(Len(P) - 1) : s[i] = IF i < p THEN P[i] ELSE P[i + 1]
      BY <1>2, <2>6, <3>1, RemoveAtFacts
    <3> QED BY <1>3, <3>2
  <2> HIDE DEF s, e
  <2>8. \A i \in 1..(L - 1) : s[i] = PairOf(e.list[i])
    <3> SUFFICES ASSUME NEW i \in 1..(L - 1) PROVE s[i] = PairOf(e.list[i])
      OBVIOUS
    <3>1. i \in 1..L /\ i + 1 \in 1..L
      BY <1>3
    <3> QED BY <1>3, <2>3, <2>7, <3>1
  <2>9. (L - 1) + 1 = IF (L - 1) + 1 > m THEN m ELSE (L - 1) + 1
    BY <1>3 DEF L
  <2> QED BY <1>3, <2>3, <2>7, <2>8, <2>9 DEF LeavesFor, s, e, P
<1>5. CASE ~Found(c, k)
  <2>1. s = P
    <3>1. \A i \in 1..L : c.list[i].key # k
      BY <1>1, <1>5 DEF Found, NodeKeys
    <3> QED BY <1>3, <3>1 DEF OthersOf
  <2>2. CASE IsFull(c, m)
    <3>1. e = DropLast(c) /\ L = m /\ L > 0
      BY <1>5, <2>2 DEF Base, IsFull, L
    <3>2. /\ Len(e.list) = L - 1
          /\ \A i \in 1..(L - 1) : e.list[i] = c.list[i]
      BY <1>1, <3>1, DropLastLacks, ZenonT(40) DEF L
    <3> HIDE DEF s, e
    <3>3. \A i \in 1..(L - 1) : s[i] = PairOf(e.list[i])
      BY <1>3, <2>1, <3>2
    <3>4. L - 1 <= L /\ (L - 1) + 1 = IF L + 1 > m THEN m ELSE L + 1
      BY <1>3, <3>1
    <3> QED BY <1>2, <1>3, <2>1, <3>2, <3>3, <3>4 DEF LeavesFor, s, e, P
  <2>3. CASE ~IsFull(c, m)
    <3>1. e = c /\ L # m
      BY <1>5, <2>3 DEF Base, IsFull, L
    <3>2. L + 1 = IF L + 1 > m THEN m ELSE L + 1
      BY <1>3, <3>1 DEF L
    <3> HIDE DEF s, e
    <3> QED BY <1>2, <1>3, <2>1, <3>1, <3>2 DEF LeavesFor, s, e, P, L
  <2> QED BY <2>2, <2>3
<1> QED BY <1>4, <1>5

(* A put does to the pairs what Use of LruSpec does.                       *)
LEMMA PutUses ==
    ASSUME NEW c, NEW k, NEW v, NEW m \in Nat \ {0}, Exact(c), Len(c.list) <= m
    PROVE  PairsOf(Put(c, k, v, m)) =
              NewestOf(<<[key |-> k, val |-> v]>> \o OthersOf(PairsOf(c), k), m)
<1>1. PICK e, d : e = Base(c, k, m) /\ d = Put(c, k, v, m)
  OBVIOUS
<1>2. PICK s, x : s = OthersOf(PairsOf(c), k) /\ x = [key |-> k, val |-> v]
  OBVIOUS
<1>3. /\ Whole(d) /\ Len(d.list) = Len(e.list) + 1
      /\ PairOf(d.list[1]) = x
      /\ \A i \in 1..Len(e.list) : d.list[i + 1] = e.list[i]
  <2>1. PICK id : InFront(e, id, k, v, d)
    BY <1>1, PutExact
  <2>2. PairOf(Node(id, k, v)) = x
    BY <1>2 DEF PairOf, Node
  <2> QED BY <2>1, <2>2 DEF InFront
<1>4. /\ \E S : s \in Seq(S)
      /\ Len(e.list) <= Len(s)
      /\ \A i \in 1..Len(e.list) : s[i] = PairOf(e.list[i])
      /\ Len(e.list) + 1 = IF Len(s) + 1 > m THEN m ELSE Len(s) + 1
  BY <1>1, <1>2, BaseLeaves, SMTT(30) DEF LeavesFor
<1>5. PICK S : s \in Seq(S)
  BY <1>4
<1>6. Len(e.list) \in Nat /\ Len(s) \in Nat
  <2>1. Len(e.list) \in Nat
    <3>1. \E id : Lacks(e, id, k)
      BY <1>1, PutExact
    <3> QED BY <3>1, NodesAre DEF Lacks
  <2>2. Len(s) \in Nat
    BY <1>5
  <2> QED BY <2>1, <2>2
<1>7. PICK t : t = <<x>> \o s
  OBVIOUS
<1>8. /\ t \in Seq(S \cup {x}) /\ Len(t) = Len(s) + 1 /\ t[1] = x
      /\ \A i \in 1..Len(s) : t[i + 1] = s[i]
  <2>1. s \in Seq(S \cup {x}) /\ <<x>> \in Seq(S \cup {x}) /\ Len(<<x>>) = 1
    BY <1>5, SeqMonotonic
  <2>2. /\ t \in Seq(S \cup {x}) /\ Len(t) = 1 + Len(s)
        /\ \A i \in 1..(1 + Len(s)) : t[i] = IF i <= 1 THEN <<x>>[i] ELSE s[i - 1]
    BY <1>7, <2>1, ConcatProperties
  <2>3. t[1] = x
    <3>1. 1 \in 1..(1 + Len(s)) /\ <<x>>[1] = x
      BY <1>6
    <3> QED BY <2>2, <3>1
  <2>4. ASSUME NEW i \in 1..Len(s) PROVE t[i + 1] = s[i]
    <3>1. i + 1 \in 1..(1 + Len(s)) /\ ~(i + 1 <= 1) /\ (i + 1) - 1 = i
      BY <1>6
    <3> QED BY <2>2, <3>1
  <2> QED BY <1>6, <2>2, <2>3, <2>4
<1>9. PICK n : n = Len(e.list) + 1
  OBVIOUS
<1>10. PICK u : u = SubSeq(t, 1, n)
  OBVIOUS
<1>11. u = NewestOf(t, m)
  BY <1>4, <1>8, <1>9, <1>10 DEF NewestOf
<1>12. n \in Nat /\ n >= 1 /\ n <= Len(t)
  BY <1>4, <1>6, <1>8, <1>9
<1>13. /\ u \in Seq(S \cup {x}) /\ Len(u) = n
       /\ \A i \in 1..n : u[i] = t[i]
  <2>1. \A i \in 1..n : t[i] \in S \cup {x}
    BY <1>8, <1>12
  <2>2. /\ u \in Seq(S \cup {x})
        /\ Len(u) = IF 1 <= n THEN n - 1 + 1 ELSE 0
        /\ \A i \in 1..(n - 1 + 1) : u[i] = t[1 + i - 1]
    BY <1>10, <1>12, <2>1, SubSeqProperties
  <2>3. n - 1 + 1 = n /\ \A i \in 1..n : 1 + i - 1 = i
    BY <1>12
  <2> QED BY <1>12, <2>2, <2>3
<1>14. /\ Len(PairsOf(d)) = n /\ \E T : PairsOf(d) \in Seq(T)
       /\ \A i \in 1..n : PairsOf(d)[i] = PairOf(d.list[i])
  BY <1>3, <1>9, PairsAre
<1>15. ASSUME NEW i \in 1..n PROVE PairsOf(d)[i] = u[i]
  <2>1. CASE i = 1
    BY <1>3, <1>8, <1>13, <1>14, <2>1
  <2>2. CASE i # 1
    <3>1. i - 1 \in 1..Len(e.list) /\ (i - 1) + 1 = i /\ i - 1 \in 1..Len(s)
      BY <1>4, <1>6, <1>9, <2>2
    <3>2. d.list[i] = e.list[i - 1] /\ t[i] = s[i - 1]
      BY <1>3, <1>8, <3>1
    <3>3. s[i - 1] = PairOf(e.list[i - 1])
      BY <1>4, <3>1
    <3> QED BY <1>13, <1>14, <3>2, <3>3
  <2> QED BY <2>1, <2>2
<1>16. PICK T : PairsOf(d) \in Seq(T)
  BY <1>14
<1>17. PairsOf(d) = u
  BY <1>13, <1>14, <1>15, <1>16, SeqEqual
<1> QED BY <1>1, <1>2, <1>7, <1>11, <1>17

(* What a line holds, and how it is read back.                             *)
LEMMA LineHolds ==
    ASSUME NEW line \in WordLines, Len(line) >= 2
    PROVE  /\ SubSeq(line, 1, 1) = <<line[1]>>
           /\ SubSeq(SubSeq(line, 2, Len(line)), 1, 1) = <<line[2]>>
<1>1. PICK S : line \in Seq(S)
  <2>1. PICK a \in Words, b \in Words : line = a \o b
    BY DEF WordLines
  <2>2. a \in Seq(Range(a)) /\ b \in Seq(Range(b))
    BY WordsAre
  <2>3. a \in Seq(Range(a) \cup Range(b)) /\ b \in Seq(Range(a) \cup Range(b))
    BY <2>2, SeqMonotonic
  <2> QED BY <2>1, <2>3
<1>2. Len(line) \in Nat /\ \A i \in 1..Len(line) : line[i] \in S
  BY <1>1
<1>3. ASSUME NEW s \in Seq(S), Len(s) >= 1 PROVE SubSeq(s, 1, 1) = <<s[1]>>
  <2>1. \A i \in 1..1 : s[i] \in S
    BY <1>3
  <2>2. PICK t : t = SubSeq(s, 1, 1)
    OBVIOUS
  <2>3. /\ t \in Seq(S) /\ Len(t) = IF 1 <= 1 THEN 1 - 1 + 1 ELSE 0
        /\ \A i \in 1..(1 - 1 + 1) : t[i] = s[1 + i - 1]
    BY <2>1, <2>2, SubSeqProperties
  <2>4. Len(t) = 1 /\ t[1] = s[1]
    BY <2>3
  <2>5. t = <<t[1]>>
    BY <2>3, <2>4
  <2> QED BY <2>2, <2>4, <2>5
<1>4. PICK t : t = SubSeq(line, 2, Len(line))
  OBVIOUS
<1>5. t \in Seq(S) /\ Len(t) >= 1 /\ t[1] = line[2]
  <2>1. \A i \in 2..Len(line) : line[i] \in S
    BY <1>2
  <2>2. /\ t \in Seq(S)
        /\ Len(t) = IF 2 <= Len(line) THEN Len(line) - 2 + 1 ELSE 0
        /\ \A i \in 1..(Len(line) - 2 + 1) : t[i] = line[2 + i - 1]
    BY <1>2, <1>4, <2>1, SubSeqProperties
  <2>3. 1 \in 1..(Len(line) - 2 + 1) /\ 2 + 1 - 1 = 2
    BY <1>2
  <2> QED BY <1>2, <2>2, <2>3
<1>6. line \in Seq(S) /\ Len(line) >= 1
  BY <1>1, <1>2
<1>7. SubSeq(line, 1, 1) = <<line[1]>>
  BY <1>3, <1>6
<1>8. SubSeq(t, 1, 1) = <<line[2]>>
  BY <1>3, <1>5
<1> QED BY <1>4, <1>7, <1>8

(* A put is a use, with the pair of the key found again.                   *)
LEMMA PutSimulates ==
    ASSUME TInv, MInv, NEW k \in Keys, NEW v \in Vals, PutIntoCache(k, v)
    PROVE  Lru!Use(k, v)
<1>1. PICK d : d = Put(cache, k, v, MaxSize)
  OBVIOUS
<1>2. cache' = d /\ file' = file
  BY <1>1 DEF PutIntoCache
<1>3. Exact(cache) /\ Len(cache.list) <= MaxSize /\ MaxSize \in Nat \ {0}
  BY LruAssumption DEF TInv, MInv
<1>4. Exact(d)
  BY <1>1, <1>3, PutExact
<1>5. Content = PairsOf(cache)
  BY <1>3, ContentIs DEF Content
<1>6. Content' = PairsOf(d)
  BY <1>2, <1>4, ContentIs DEF Content
<1>7. PairsOf(d) = NewestOf(<<[key |-> k, val |-> v]>> \o OthersOf(Content, k),
                            MaxSize)
  BY <1>1, <1>3, <1>5, PutUses
<1>8. Lru!Others(k) = OthersOf(Content, k)
  BY Zenon DEF Lru!Others, OthersOf, Content, Lru!RemoveAt, RemoveAt
<1>9. \A s : Lru!Newest(s) = NewestOf(s, MaxSize)
  BY DEF Lru!Newest, NewestOf
<1>10. Saved' = Saved
  BY <1>2 DEF Saved
<1>11. Lru!Use(k, v) <=> /\ Content' = Lru!Newest(<<[key |-> k, val |-> v]>>
                                                  \o Lru!Others(k))
                         /\ Saved' = Saved
  BY DEF Lru!Use, Content, Saved
<1> QED BY <1>6, <1>7, <1>8, <1>9, <1>10, <1>11

(* Writing the file saves the pairs.                                       *)
LEMMA WriteSimulates ==
    ASSUME TInv, MInv, WriteCacheFile
    PROVE  Lru!Save
<1>1. cache' = cache /\ file' = WriteLines(cache)
  BY DEF WriteCacheFile
<1>2. Exact(cache) /\ Whole(cache)
  BY DEF MInv, Exact
<1>3. Content = PairsOf(cache)
  BY <1>2, ContentIs DEF Content
<1>4. /\ Len(file') = Len(cache.list) /\ Len(cache.list) \in Nat
      /\ \A i \in 1..Len(cache.list) : file'[i] = LineOf(cache.list[i])
      /\ \A i \in 1..Len(cache.list) : cache.list[i] \in Nodes(cache)
      /\ DOMAIN file' = 1..Len(cache.list)
  <2>1. PICK S : file' \in Seq(S)
    BY <1>1, <1>2, WriteLinesIs
  <2> QED BY <1>1, <1>2, <2>1, WriteLinesIs
<1>5. ASSUME NEW n \in Nodes(cache)
      PROVE  /\ SubSeq(LineOf(n), 1, 1) = n.key
             /\ SubSeq(LineOf(n), 2, Len(LineOf(n))) = n.val
  <2>1. OneWord(n) /\ n.val \in Seq(Range(n.val))
    BY WordsAre DEF TInv, MInv
  <2> QED BY <2>1, LineIs
<1>6. Saved' = PairsOf(cache)
  BY <1>4, <1>5 DEF Saved, PairsOf, PairOf
<1>7. Content' = Content
  BY <1>1 DEF Content
<1>8. Lru!Save <=> Saved' = Content /\ Content' = Content
  BY DEF Lru!Save, Content, Saved
<1> QED BY <1>3, <1>6, <1>7, <1>8

(* A restart finds the pairs it saved, of each value the first word.       *)
LEMMA ReadSimulates ==
    ASSUME TInv, MInv, LInv, ReadCacheFile
    PROVE  Lru!Restart
<1>1. PICK d : d = ReadLines(EmptyCache, file)
  OBVIOUS
<1>2. cache' = d /\ file' = file
  BY <1>1 DEF ReadCacheFile
<1>3. /\ file \in Seq(WordLines) /\ FirstWords(file)
      /\ \A i \in 1..Len(file) : Len(file[i]) >= 2
  BY DEF TInv, MInv, LInv
<1>4. MadeOf(d, file)
  BY <1>1, <1>3, ReadMakes DEF FirstWords
<1>5. Exact(d)
  BY <1>3, <1>4, MadeExact
<1>6. Content' = PairsOf(d)
  BY <1>2, <1>5, ContentIs DEF Content
<1>7. PairsOf(d) = [i \in 1..Len(file) |->
                       [key |-> <<file[i][1]>>, val |-> <<file[i][2]>>]]
  BY <1>3, <1>4 DEF MadeOf, PairsOf, PairOf
<1>8. DOMAIN file = 1..Len(file) /\ \A i \in 1..Len(file) : file[i] \in WordLines
  BY <1>3
<1>9. \A i \in DOMAIN Saved :
         Lru!FirstWord(Saved[i]) = [key |-> <<file[i][1]>>, val |-> <<file[i][2]>>]
  <2> SUFFICES ASSUME NEW i \in 1..Len(file)
               PROVE  Lru!FirstWord(Saved[i]) =
                         [key |-> <<file[i][1]>>, val |-> <<file[i][2]>>]
    BY <1>8 DEF Saved
  <2>1. PICK line \in WordLines : line = file[i] /\ Len(line) >= 2
    BY <1>3, <1>8
  <2>2. Saved[i] = [key |-> SubSeq(line, 1, 1), val |-> SubSeq(line, 2, Len(line))]
    BY <1>8, <2>1 DEF Saved
  <2>3. /\ SubSeq(line, 1, 1) = <<line[1]>>
        /\ SubSeq(SubSeq(line, 2, Len(line)), 1, 1) = <<line[2]>>
    BY <2>1, LineHolds
  <2> QED BY <2>1, <2>2, <2>3 DEF Lru!FirstWord
<1>10. DOMAIN Saved = 1..Len(file)
  BY <1>8 DEF Saved
<1>11. Content' = [i \in DOMAIN Saved |-> Lru!FirstWord(Saved[i])]
  BY <1>6, <1>7, <1>9, <1>10
<1>12. Saved' = Saved
  BY <1>2 DEF Saved
<1>13. Lru!Restart <=> /\ Content' = [i \in DOMAIN Saved |-> Lru!FirstWord(Saved[i])]
                       /\ Saved' = Saved
  BY DEF Lru!Restart, Content, Saved
<1> QED BY <1>11, <1>12, <1>13

(* Values stay words or more, and their lines too.                         *)
LEMMA LInvNext ==
    OneWordKeys /\ NonEmptyVals /\ TInv /\ MInv /\ LInv /\ [Next]_vars => LInv'
<1> SUFFICES ASSUME OneWordKeys, NonEmptyVals, TInv, MInv, LInv, [Next]_vars
             PROVE  LInv'
  OBVIOUS
<1>1. ASSUME NEW k \in Keys, NEW v \in Vals, PutIntoCache(k, v) PROVE LInv'
  <2>1. \A n \in Nodes(cache') : n \in Nodes(cache) \/ (n.key = k /\ n.val = v)
    BY <1>1, LruAssumption, PutWhole DEF TInv, PutIntoCache
  <2>2. file' = file
    BY <1>1 DEF PutIntoCache
  <2> QED BY <2>1, <2>2 DEF LInv, NonEmptyVals
<1>2. CASE WriteCacheFile
  <2>1. /\ Len(file') = Len(cache.list)
        /\ \A i \in 1..Len(cache.list) :
              /\ file'[i] = LineOf(cache.list[i])
              /\ cache.list[i] \in Nodes(cache)
    BY <1>2, WriteLinesIs DEF TInv, WriteCacheFile
  <2>2. ASSUME NEW n \in Nodes(cache) PROVE Len(LineOf(n)) >= 2
    <3>1. OneWord(n) /\ n.val \in Seq(Range(n.val)) /\ Len(n.val) >= 1
      BY WordsAre DEF TInv, MInv, LInv
    <3>2. Len(n.val) \in Nat /\ Len(LineOf(n)) = Len(n.val) + 1
      BY <3>1, LineIs
    <3> QED BY <3>1, <3>2
  <2>3. \A i \in 1..Len(file') : Len(file'[i]) >= 2
    BY <2>1, <2>2
  <2>4. cache' = cache
    BY <1>2 DEF WriteCacheFile
  <2> QED BY <2>3, <2>4 DEF LInv
<1>3. CASE ReadCacheFile
  <2>1. PICK d : d = ReadLines(EmptyCache, file)
    OBVIOUS
  <2>2. MadeOf(d, file)
    BY <2>1, ReadMakes DEF TInv, MInv, FirstWords
  <2>3. \A n \in Nodes(d) : Len(n.val) >= 1
    <3>1. Nodes(d) = {d.list[i] : i \in 1..Len(file)}
      BY <2>2, NodesAre DEF MadeOf, Whole
    <3>2. \A i \in 1..Len(file) : d.list[i].val = <<file[i][2]>>
      BY <2>2 DEF MadeOf, LInv
    <3>3. \A x : Len(<<x>>) >= 1
      OBVIOUS
    <3> QED BY <3>1, <3>2, <3>3
  <2>4. cache' = d /\ file' = file
    BY <1>3, <2>1 DEF ReadCacheFile
  <2> QED BY <2>3, <2>4 DEF LInv
<1>4. CASE UNCHANGED vars
  BY <1>4 DEF vars, LInv
<1> QED BY <1>1, <1>2, <1>3, <1>4 DEF Next

(* If keys are single words and no value is empty, the cache is the LRU    *)
(* cache of LruSpec, and what a restart finds is what was saved last, cut  *)
(* to the first word of each value.                                        *)
THEOREM CacheIsLru ==
    ASSUME OneWordKeys, NonEmptyVals PROVE Spec => ImplementsLru
<1>1. Init => MInv /\ LInv /\ Lru!LInit
  <2> SUFFICES ASSUME Init PROVE MInv /\ LInv /\ Lru!LInit
    OBVIOUS
  <2>1. LInv
    BY EmptyWhole DEF Init, LInv
  <2>2. DOMAIN cache.list = {} /\ DOMAIN file = {}
    BY DEF Init, EmptyCache
  <2>3. Content = <<>> /\ Saved = <<>>
    BY <2>2 DEF Content, Saved
  <2>4. Lru!LInit <=> Content = <<>> /\ Saved = <<>>
    BY DEF Lru!LInit, Content, Saved
  <2> QED BY <2>1, <2>3, <2>4, MInvInit
<1>2. TInv /\ MInv /\ LInv /\ [Next]_vars => MInv' /\ LInv'
  BY MInvNext, LInvNext
<1>3. TInv /\ MInv /\ LInv /\ [Next]_vars => [Lru!LNext]_(Lru!lvars)
  <2> SUFFICES ASSUME TInv, MInv, LInv, [Next]_vars
               PROVE  Lru!LNext \/ UNCHANGED Lru!lvars
    OBVIOUS
  <2>1. ASSUME NEW k \in Keys, NEW v \in Vals, PutIntoCache(k, v)
        PROVE  Lru!LNext
    BY <2>1, PutSimulates DEF Lru!LNext
  <2>2. CASE WriteCacheFile
    BY <2>2, WriteSimulates DEF Lru!LNext
  <2>3. CASE ReadCacheFile
    BY <2>3, ReadSimulates DEF Lru!LNext
  <2>4. CASE UNCHANGED vars
    BY <2>4 DEF vars, Lru!lvars
  <2> QED BY <2>1, <2>2, <2>3, <2>4 DEF Next
<1> QED BY <1>1, <1>2, <1>3, TInvAlways, PTL
        DEF Spec, ImplementsLru, Lru!LSpec

=============================================================================
