--------------------------- MODULE MCCacheManager ---------------------------
(* Instances of the cache manager for TLC.  x and y are the words queries  *)
(* are made of; sorry and no stand for the words of the apology.           *)
EXTENDS CacheManager, TLC

CONSTANTS x, y, sorry, no

BothTimers == {One, Two}
Intervals ==
    [t \in BothTimers |-> IF t = One THEN Frequence ELSE Frequence \div 3]

\* x is in the dictionary; "x y", a query of two words, is not.
TwoQueries == {<<x>>, <<x, y>>}
OneWordQueries == {<<x>>, <<y>>}
Dictionary ==
    [k \in TwoQueries \cup OneWordQueries |->
        IF Len(k) = 1 THEN k ELSE <<sorry, no>>]

SameAnswer == [k \in OneWordQueries |-> <<sorry>>]

NoFile == {<<>>}
\* No file yet, or the one an earlier run left after both queries.
Files == {<<>>, <<<<x, x>>, <<x, y, sorry, no>>>>}

=============================================================================
