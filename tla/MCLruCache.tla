----------------------------- MODULE MCLruCache -----------------------------
(* Instances of the cache for TLC.  Words of a string are themselves       *)
(* abstract: a, b, c for one-word queries, "sorry" and "no" for the first  *)
(* words of the answer that means "not found".                             *)
EXTENDS LruCache, TLC

CONSTANTS a, b, c, sorry, no

\* What a dictionary lookup can return: a word, or the apology.
Answers == {<<a>>, <<sorry, no>>}

Queries == {<<a>>, <<b>>, <<c>>}

=============================================================================
