---------------------------- MODULE LruCacheOps ----------------------------
(***************************************************************************)
(* The operations of LruCache (src/MyCache.cc) as functions from a cache   *)
(* to a cache.  A cache is a record of                                     *)
(*   list  cache_list_, most recently used node first,                     *)
(*   map   cache_list_map_, from a key to the node it designates.          *)
(* A node carries an identity, its address: that is what the iterators of  *)
(* the map hold.  A new node gets the least free address, so the one that  *)
(* an operation has just freed is reused at once, as allocators do.        *)
(*                                                                         *)
(* A string is the sequence of its blank-separated words: what operator>>  *)
(* of readCacheFile can tell apart.  A line of the cache file is one too.  *)
(***************************************************************************)
EXTENDS Naturals, Sequences, SequencesExt

NoWords == <<>>
EmptyCache == [list |-> <<>>, map |-> <<>>]

Nodes(c) == {c.list[i] : i \in DOMAIN c.list}
NodeKeys(c) == {n.key : n \in Nodes(c)}
FreeId(list) ==
    CHOOSE id \in 1..(Len(list) + 1) :
        /\ \A i \in DOMAIN list : list[i].id # id
        /\ \A j \in 1..(id - 1) : \E i \in DOMAIN list : list[i].id = j
NewNode(list, k, v) == [id |-> FreeId(list), key |-> k, val |-> v]
Position(c, id) == CHOOSE i \in DOMAIN c.list : c.list[i].id = id
NodeAt(c, id) == c.list[Position(c, id)]
Points(map, k, id) ==
    [x \in DOMAIN map \cup {k} |-> IF x = k THEN id ELSE map[x]]
Unmaps(map, k) == [x \in DOMAIN map \ {k} |-> map[x]]

\* push_front of a new node, and the map entry that follows it.
PushFront(c, k, v) ==
    LET n == NewNode(c.list, k, v)
    IN  [list |-> <<n>> \o c.list, map |-> Points(c.map, k, n.id)]

\* push_back of a new node, its answer, and the map entry: three steps of
\* copyLruCache, between which the node it reads may change.
AddNode(c, k, v) ==
    [list |-> Append(c.list, NewNode(c.list, k, v)), map |-> c.map]
SetVal(c, v) == [c EXCEPT !.list[Len(c.list)].val = v]
MapLast(c, k) == [list |-> c.list, map |-> Points(c.map, k, Last(c.list).id)]
PushBack(c, k, v) == MapLast(AddNode(c, k, v), k)

Erase(c, id) == [c EXCEPT !.list = RemoveAt(c.list, Position(c, id))]

-----------------------------------------------------------------------------
(* findIfInCache(key, val)                                                 *)

Found(c, k) == k \in DOMAIN c.map
FoundVal(c, k) == NodeAt(c, c.map[k]).val

-----------------------------------------------------------------------------
(* putIntoCache(key, val)                                                  *)

(* Mutants: evict one too late, evict the most recent node, leave the map  *)
(* entry of the evicted key behind, and a hit that adds a second node.     *)
FullOffByOne(c, maxSize) == Len(c.list) = maxSize + 1
DropFront(c) == [list |-> Tail(c.list), map |-> Unmaps(c.map, c.list[1].key)]
DropKeepMap(c) == [c EXCEPT !.list = Front(c.list)]
HitKeepsOld(c, k, v) == PushFront(c, k, v)

\* The test is ==, not >=.
IsFull(c, maxSize) == Len(c.list) = maxSize
DropLast(c) ==
    [list |-> Front(c.list), map |-> Unmaps(c.map, Last(c.list).key)]
Hit(c, k, v) == PushFront(Erase(c, c.map[k]), k, v)
Miss(c, k, v, maxSize) ==
    PushFront(IF IsFull(c, maxSize) THEN DropLast(c) ELSE c, k, v)

Put(c, k, v, maxSize) ==
    IF Found(c, k) THEN Hit(c, k, v) ELSE Miss(c, k, v, maxSize)

-----------------------------------------------------------------------------
(* writeCacheFile and readCacheFile                                        *)

LineOf(n) == n.key \o n.val
WriteLines(c) == [i \in DOMAIN c.list |-> LineOf(c.list[i])]

(* One line of readCacheFile.  key and val live outside the loop, and an   *)
(* extraction that finds no word leaves its string alone.                  *)
ReadLine(r, line) ==
    LET key == IF Len(line) >= 1 THEN <<line[1]>> ELSE r.key
        val == IF Len(line) >= 2 THEN <<line[2]>> ELSE r.val
    IN  [key |-> key, val |-> val, cache |-> PushBack(r.cache, key, val)]

ReadLines(c, lines) ==
    FoldLeft(ReadLine, [key |-> NoWords, val |-> NoWords, cache |-> c],
             lines).cache

-----------------------------------------------------------------------------
(* copyLruCache(other), undisturbed.                                       *)

CopyOf(other) ==
    FoldLeft(LAMBDA c, n : PushBack(c, n.key, n.val), EmptyCache, other.list)

=============================================================================
