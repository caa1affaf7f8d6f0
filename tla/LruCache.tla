------------------------------ MODULE LruCache ------------------------------
(***************************************************************************)
(* One LruCache of src/MyCache.cc and its file, used by one thread: the    *)
(* operations of the class in any order, and a restart of the process that *)
(* finds the file as it was last written.                                  *)
(***************************************************************************)
EXTENDS LruCacheOps, FiniteSets

CONSTANTS Keys,    \* the queried words: sequences of words
          Vals,    \* the answers: sequences of words
          MaxSize  \* maxSize_

ASSUME LruAssumption ==
    /\ MaxSize \in Nat \ {0}
    /\ \A s \in Keys \cup Vals : s \in Seq(Range(s))

VARIABLES cache,  \* cache_list_ and cache_list_map_
          file    \* the lines of the cache file

vars == <<cache, file>>

\* What a key or a value can be: read back, it is a single word.
Strings == Keys \cup Vals
Words == Strings \cup UNION {{<<s[i]>> : i \in DOMAIN s} : s \in Strings}

TypeOK ==
    /\ \A n \in Nodes(cache) :
          /\ n.id \in Nat \ {0}
          /\ n.key \in Words
          /\ n.val \in Words
    /\ DOMAIN cache.map \subseteq Words
    /\ Len(cache.list) <= MaxSize
    /\ Len(file) <= MaxSize

Init ==
    /\ cache = EmptyCache
    /\ file = <<>>

PutIntoCache(k, v) ==
    /\ cache' = Put(cache, k, v, MaxSize)
    /\ UNCHANGED file

WriteCacheFile ==
    /\ file' = WriteLines(cache)
    /\ UNCHANGED cache

\* The process starts again with an empty cache and reads the file.
ReadCacheFile ==
    /\ cache' = ReadLines(EmptyCache, file)
    /\ UNCHANGED file

Next ==
    \/ \E k \in Keys, v \in Vals : PutIntoCache(k, v)
    \/ WriteCacheFile
    \/ ReadCacheFile

Spec == Init /\ [][Next]_vars

-----------------------------------------------------------------------------
(* Properties.                                                             *)

(* List and map describe the same cache: every node has an address of its  *)
(* own, every key one node, and the map leads from each key to that node.  *)
(* So no iterator in the map ever dangles and no node is out of reach.     *)
MapMatchesList ==
    /\ \A i, j \in DOMAIN cache.list :
          i # j => /\ cache.list[i].id # cache.list[j].id
                   /\ cache.list[i].key # cache.list[j].key
    /\ DOMAIN cache.map = NodeKeys(cache)
    /\ \A n \in Nodes(cache) : cache.map[n.key] = n.id

(* The cache implements LRU: a put makes its key the most recent one, and  *)
(* only a miss in a full cache removes a key, the one used longest ago.    *)
(* Values are those a lookup through the map returns.                      *)
Lru == INSTANCE LruSpec
    WITH content <- [i \in DOMAIN cache.list |->
                        [key |-> cache.list[i].key,
                         val |-> FoundVal(cache, cache.list[i].key)]],
         saved <- [i \in DOMAIN file |->
                        [key |-> SubSeq(file[i], 1, 1),
                         val |-> SubSeq(file[i], 2, Len(file[i]))]]
ImplementsLru == Lru!LSpec

=============================================================================
