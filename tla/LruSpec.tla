------------------------------ MODULE LruSpec ------------------------------
(***************************************************************************)
(* What the cache of src/MyCache.cc is meant to be: the MaxSize keys used  *)
(* last, most recent first, each with the value given last, and a file to  *)
(* which that list is saved from time to time.                             *)
(***************************************************************************)
EXTENDS Naturals, Sequences, SequencesExt

CONSTANTS Keys, Vals,  \* what is cached, both sequences of words
          MaxSize      \* the capacity

VARIABLES content,  \* a sequence of pairs, without a repeated key
          saved     \* the content a restart would find

lvars == <<content, saved>>

LInit == content = <<>> /\ saved = <<>>

\* At most one pair has the key k.
Others(k) ==
    IF \E i \in DOMAIN content : content[i].key = k
    THEN RemoveAt(content, CHOOSE i \in DOMAIN content : content[i].key = k)
    ELSE content
Newest(s) == SubSeq(s, 1, IF Len(s) > MaxSize THEN MaxSize ELSE Len(s))

Use(k, v) ==
    /\ content' = Newest(<<[key |-> k, val |-> v]>> \o Others(k))
    /\ UNCHANGED saved

Save == saved' = content /\ UNCHANGED content

\* Only the first word of a value survives a restart.
FirstWord(e) == [e EXCEPT !.val = SubSeq(@, 1, 1)]
Restart ==
    /\ content' = [i \in DOMAIN saved |-> FirstWord(saved[i])]
    /\ UNCHANGED saved

LNext == (\E k \in Keys, v \in Vals : Use(k, v)) \/ Save \/ Restart

LSpec == LInit /\ [][LNext]_lvars

=============================================================================
