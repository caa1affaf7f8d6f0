---------------------------- MODULE MCTextQuery ----------------------------
(* Instances of the text query for TLC, with a corpus that has a word in   *)
(* two spellings, a word that is also a segment, a character of three      *)
(* bytes and a blank segment.                                              *)
EXTENDS TextQuery, TLC

A == <<97>>
B == <<98>>
CapitalB == <<66>>
E == <<228, 184, 173>>
One == <<49>>
Comma == <<44>>
Blank == <<32>>

Lines ==
    <<A \o B \o B \o Comma \o B \o A \o Blank \o CapitalB \o A,
      B \o A \o One \o A \o B \o B \o Comma>>
Segmented ==
    <<B \o E \o E, Blank>> \o [k \in 1..3 |-> E \o A \o B]
    \o [k \in 1..4 |-> A \o B \o B]

\* No word, a word of the dictionary, and words near several of its words.
FewInputs ==
    {<<>>, B \o A, E \o A \o B \o B, B \o One, A \o E}

=============================================================================
