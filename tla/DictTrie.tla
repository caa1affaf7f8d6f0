----------------------------- MODULE DictTrie -----------------------------
(***************************************************************************)
(* The dictionary of the segmenter (DictTrie.hpp, Trie.hpp): its entries,  *)
(* their weights, and the trie that finds the entries that begin at a      *)
(* rune.  A trie is the function from its nodes, each the path of runes    *)
(* that leads to it, to the entry stored there; an entry is an index into  *)
(* units, 0 the null pointer.                                              *)
(***************************************************************************)
EXTENDS StringUtil, FiniteSetsExt

CONSTANT Log            \* the logarithm of a frequency, scaled to an integer

ASSUME LogAssumption ==
    /\ \A f \in DOMAIN Log : f \in Nat \ {0} /\ Log[f] \in Int
    /\ \A f, g \in DOMAIN Log : f < g => Log[f] < Log[g]

\* MIN_DOUBLE, far below every sum of weights.  In double arithmetic it
\* absorbs what is small beside it: MIN_DOUBLE + w = MIN_DOUBLE.
MinDouble == -1000000
Plus(a, b) ==
    IF a + b > MinDouble THEN a + b ELSE -(((-(a + b)) \div (-MinDouble)) * (-MinDouble))

-----------------------------------------------------------------------------
(* Trie.                                                                   *)

NULL == 0
EmptyTrie == [node \in {<<>>} |-> NULL]

\* Inserting a key makes the nodes along its path; a key inserted again
\* takes the later value.
InsertNode(trie, key, unit) ==
    IF key = <<>> THEN trie
    ELSE [node \in DOMAIN trie \cup Prefixes(key) |->
            IF node = key THEN unit
            ELSE IF node \in DOMAIN trie THEN trie[node] ELSE NULL]

CreateTrie(units) ==
    LET after[i \in 0..Len(units)] ==
            IF i = 0 THEN EmptyTrie ELSE InsertNode(after[i - 1], units[i].word, i)
    IN  after[Len(units)]

FindUnit(trie, key) ==
    IF key # <<>> /\ key \in DOMAIN trie THEN trie[key] ELSE NULL

\* For each rune of s the words that may begin there, as [length, unit]: the
\* rune alone, known or not, then the longer entries, shortest first.
FindDag(trie, s, maxWordLen) ==
    LET Unit(i, n) == FindUnit(trie, SubSeq(s, i, i + n - 1))
        Next(i, n) ==
            IF n = 1 \/ (n <= maxWordLen /\ Unit(i, n) # NULL)
            THEN <<[length |-> n, unit |-> Unit(i, n)]>> ELSE <<>>
    IN  [i \in DOMAIN s |-> FlattenSeq([n \in 1..Len(s) - i + 1 |-> Next(i, n)])]

MaxWordLength == 512

-----------------------------------------------------------------------------
(* DictTrie.                                                               *)

\* A word that does not decode leaves weight and tag of the entry as they
\* were, and the runes before the failure as its word.
MakeNodeInfo(entry, word, weight, tag) ==
    LET decoded == Utf8ToUnicode32(word)
    IN  IF decoded.ok THEN [word |-> decoded.runes, weight |-> weight, tag |-> tag]
        ELSE [entry EXCEPT !.word = decoded.runes]

Blank == {32}
UNKNOWN_TAG == <<>>

\* A line that has not three columns ends the program (XCHECK).  One entry is
\* reused for all lines.
Loadable(lines) == lines # <<>> /\ \A i \in DOMAIN lines : Len(Split(lines[i], Blank)) = 3
LoadDict(lines) ==
    LET buf == [i \in DOMAIN lines |-> Split(lines[i], Blank)]
        entry[i \in 0..Len(lines)] ==
            IF i = 0 THEN [word |-> <<>>, weight |-> 1, tag |-> <<>>]
            ELSE MakeNodeInfo(entry[i - 1], buf[i][1], Atof(buf[i][2]), buf[i][3])
    IN  [i \in DOMAIN lines |-> entry[i]]

\* From frequencies to the logarithms of their shares.
Total(units) == FoldLeft(LAMBDA n, u : n + u.weight, 0, units)
CalculateWeight(units) ==
    [i \in DOMAIN units |-> [units[i] EXCEPT !.weight = Log[@] - Log[Total(units)]]]

\* The p-th of the weights, sorted: the least one that p are not above.
Ranked(units, p) ==
    Min({w \in {units[i].weight : i \in DOMAIN units} :
            Cardinality({i \in DOMAIN units : units[i].weight <= w}) >= p})

\* min_weight_ and the median, the default weight of a user's word.
StaticWordWeights(units) ==
    [min |-> Ranked(units, 1), user |-> Ranked(units, Len(units) \div 2 + 1)]

\* A line of a user dictionary is a word and perhaps a tag; an empty one is
\* skipped.
LoadUserDict(lines, weight) ==
    LET Entry(line) ==
            LET buf == Split(line, Blank)
            IN  MakeNodeInfo([word |-> <<>>, weight |-> weight, tag |-> <<>>], buf[1], weight,
                             IF Len(buf) = 2 THEN buf[2] ELSE UNKNOWN_TAG)
    IN  FlattenSeq([i \in DOMAIN lines |->
            IF lines[i] = <<>> THEN <<>> ELSE <<Entry(lines[i])>>])

\* The words of a user dictionary come after the weights are computed; its
\* single runes are remembered.
InitDict(lines, userLines) ==
    LET static == CalculateWeight(LoadDict(lines))
        weights == StaticWordWeights(static)
        user == LoadUserDict(userLines, weights.user)
    IN  [units |-> static \o user,
         trie |-> CreateTrie(static \o user),
         minWeight |-> weights.min,
         userWeight |-> weights.user,
         singles |-> {user[i].word[1] : i \in {j \in DOMAIN user : Len(user[j].word) = 1}}]

IsUserDictSingle(dict, rune) == rune \in dict.singles

\* Mutant: the pointer to the back of active_node_infos_ is taken before the
\* entry is there.
InsertBeforePush(dict, word, tag) ==
    LET entry == MakeNodeInfo([word |-> <<>>, weight |-> 0, tag |-> <<>>], word,
                              dict.userWeight, tag)
    IN  [dict EXCEPT !.units = Append(@, entry),
                     !.trie = InsertNode(@, entry.word, Len(dict.units))]

\* A word added at run time enters the trie, but not the single runes.
CanInsert(word) == Utf8ToUnicode32(word).ok
InsertUserWord(dict, word, tag) ==
    LET entry == MakeNodeInfo([word |-> <<>>, weight |-> 0, tag |-> <<>>], word,
                              dict.userWeight, tag)
    IN  [dict EXCEPT !.units = Append(@, entry),
                     !.trie = InsertNode(@, entry.word, Len(dict.units) + 1)]

=============================================================================
