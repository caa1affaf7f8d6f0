------------------------------ MODULE Segment ------------------------------
(***************************************************************************)
(* The segmenters of cppjieba as functions from a range of runes to its    *)
(* words: by the heaviest path through the dictionary (MPSegment), by the  *)
(* likeliest labels of a hidden Markov model (HMMSegment), by both in turn *)
(* (MixSegment, the one the dictionary builder uses), and those built upon *)
(* them.                                                                   *)
(***************************************************************************)
EXTENDS DictTrie

-----------------------------------------------------------------------------
(* MPSegment.                                                              *)

\* Mutant: the heaviest entry at a rune, whatever it leaves behind.
HeaviestEntry(dict, nexts, behind) ==
    LET Value(k) == IF nexts[k].unit # NULL THEN dict.units[nexts[k].unit].weight
                    ELSE dict.minWeight
        best == CHOOSE k \in DOMAIN nexts : \A j \in DOMAIN nexts : Value(j) <= Value(k)
    IN  [unit |-> nexts[best].unit, weight |-> Value(best)]

\* The first of the heaviest choices at a rune, given the choices of the
\* runes behind it: a later one must be strictly heavier.
BestNext(dict, nexts, behind) ==
    LET Value(k) ==
            (IF nexts[k].length <= Len(behind) THEN behind[nexts[k].length].weight ELSE 0)
            + (IF nexts[k].unit # NULL THEN dict.units[nexts[k].unit].weight
               ELSE dict.minWeight)
        best == CHOOSE k \in DOMAIN nexts :
                    /\ \A j \in DOMAIN nexts : Value(j) <= Value(k)
                    /\ \A j \in 1..k - 1 : Value(j) < Value(k)
    IN  [unit |-> nexts[best].unit, weight |-> Value(best)]

\* From the last rune to the first.
CalcDP(dict, dags) ==
    LET from[i \in 1..Len(dags) + 1] ==
            IF i > Len(dags) THEN <<>>
            ELSE LET behind == from[i + 1]
                 IN  <<BestNext(dict, dags[i], behind)>> \o behind
    IN  from[1]

\* A chosen entry takes as many runes as it has, no entry the rune alone.
CutByDag(dict, s, chosen) ==
    LET word == [i \in DOMAIN s |->
                    IF chosen[i].unit # NULL THEN dict.units[chosen[i].unit].word ELSE <<s[i]>>]
    IN  Walk([i \in DOMAIN s |-> <<word[i]>>], [i \in DOMAIN s |-> i + Len(word[i])])

MPCut(dict, s, maxWordLen) ==
    CutByDag(dict, s, CalcDP(dict, FindDag(dict.trie, s, maxWordLen)))

-----------------------------------------------------------------------------
(* HMMModel: labels B(egin), E(nd), M(iddle), S(ingle).                    *)

B == 0
E == 1
M == 2
S == 3
Labels == {B, E, M, S}

\* The lines of a model file that are neither blank nor comments: the start
\* row, four rows of transitions, four lists of emissions.
DataLines(lines) ==
    SelectSeq(lines, LAMBDA line : line.kind = "data")
LoadEmitProb(items) ==
    LET Rune(i) == Decode(items[i][1])[1]
    IN  [r \in {Rune(i) : i \in DOMAIN items} |->
            items[Max({i \in DOMAIN items : Rune(i) = r})][2]]
LoadModel(lines) ==
    LET data == DataLines(lines)
        Row(n) == [y \in Labels |-> data[n].items[y + 1]]
    IN  [start |-> Row(1),
         trans |-> [y \in Labels |-> Row(2 + y)],
         emit  |-> [y \in Labels |-> LoadEmitProb(data[6 + y].items)]]

\* What the XCHECKs ask of the file; the program ends on any other.
ModelLoads(lines) ==
    LET data == DataLines(lines)
    IN  /\ Len(data) >= 9
        /\ \A n \in 1..5 : Len(data[n].items) = 4
        /\ \A n \in 6..9 :
              /\ data[n].items # <<>>
              /\ \A i \in DOMAIN data[n].items :
                    LET rune == Utf8ToUnicode32(data[n].items[i][1])
                    IN  rune.ok /\ Len(rune.runes) = 1

GetEmitProb(model, y, rune) ==
    IF rune \in DOMAIN model.emit[y] THEN model.emit[y][rune] ELSE MinDouble

-----------------------------------------------------------------------------
(* HMMSegment.                                                             *)

\* A column of the table has a cell for each label.
Column(Cell(_)) == <<Cell(B), Cell(E), Cell(M), Cell(S)>>
At(column, y) == column[y + 1]

\* Mutant: labels by emission alone.
NextByEmission(model, prev, rune) ==
    Column(LAMBDA y : [weight |-> GetEmitProb(model, y, rune),
                       path |-> CHOOSE p \in Labels :
                                    \A q \in Labels : At(prev, q).weight <= At(prev, p).weight])

\* The column behind column prev.  The first of the likeliest predecessors is
\* kept, and E when none is above MIN_DOUBLE.
NextColumn(model, prev, rune) ==
    LET Weight(p, y) == Plus(Plus(At(prev, p).weight, model.trans[p][y]),
                             GetEmitProb(model, y, rune))
        Best(y) == CHOOSE p \in Labels :
                        /\ \A q \in Labels : Weight(q, y) <= Weight(p, y)
                        /\ \A q \in 0..p - 1 : Weight(q, y) < Weight(p, y)
    IN  Column(LAMBDA y :
            LET best == Best(y)
            IN  IF Weight(best, y) > MinDouble
                THEN [weight |-> Weight(best, y), path |-> best]
                ELSE [weight |-> MinDouble, path |-> E])

\* The labels of the runes of s, read backwards along path from E or S.
Viterbi(model, s) ==
    LET first == Column(LAMBDA y :
                    [weight |-> Plus(model.start[y], GetEmitProb(model, y, s[1])),
                     path |-> -1])
        table == FoldLeft(LAMBDA t, rune : Append(t, NextColumn(model, Last(t), rune)),
                          <<first>>, Tail(s))
        end == Last(table)
        label[x \in DOMAIN s] ==
            IF x < Len(s) THEN At(table[x + 1], label[x + 1]).path
            ELSE IF At(end, E).weight >= At(end, S).weight THEN E ELSE S
    IN  [x \in DOMAIN s |-> label[x]]

\* The words of s, each up to the next of the positions in ends; what follows
\* the last of them is dropped.
Pieces(s, ends) ==
    LET end == [i \in DOMAIN s |-> Min({e \in ends \cup {Len(s) + 1} : e >= i})]
    IN  Walk([i \in DOMAIN s |-> IF end[i] > Len(s) THEN <<>> ELSE <<SubSeq(s, i, end[i])>>],
             [i \in DOMAIN s |-> IF end[i] > Len(s) THEN end[i] ELSE end[i] + 1])

\* Mutant: a word ends at an E only.
CutAtE(model, s) ==
    LET label == Viterbi(model, s)
    IN  Pieces(s, {i \in DOMAIN s : label[i] = E})

\* A word ends at every E or S.
InternalCut(model, s) ==
    LET label == Viterbi(model, s)
    IN  Pieces(s, {i \in DOMAIN s : label[i] \in {E, S}})

Letters == (65..90) \cup (97..122)
Digits == 48..57
IsAscii(rune) == rune < 128

\* The first ASCII rune decides: letters and digits after a letter, digits
\* and points after a digit, any other alone.
AsciiEnd(s, i) ==
    IF s[i] \in Letters THEN RunEnd(s, i, LAMBDA r : r \in Letters \cup Digits)
    ELSE IF s[i] \in Digits THEN RunEnd(s, i, LAMBDA r : r \in Digits \cup {46})
    ELSE i + 1

HMMCut(model, s) ==
    LET end == [i \in DOMAIN s |-> IF IsAscii(s[i]) THEN AsciiEnd(s, i)
                                   ELSE RunEnd(s, i, LAMBDA r : ~IsAscii(r))]
        Run(i) == SubSeq(s, i, end[i] - 1)
    IN  Walk([i \in DOMAIN s |-> IF IsAscii(s[i]) THEN <<Run(i)>>
                                 ELSE InternalCut(model, Run(i))],
             end)

-----------------------------------------------------------------------------
(* MixSegment.                                                             *)

\* Mutant: every single rune is left to the model.
AnySingle(dict, word) == Len(word) = 1

\* A single rune that no user dictionary names is left to the model, with
\* its neighbours of the same kind.
Loose(dict, word) == Len(word) = 1 /\ ~IsUserDictSingle(dict, word[1])

MixCut(dict, model, s, hmm) ==
    LET words == MPCut(dict, s, MaxWordLength)
        end == [i \in DOMAIN words |-> RunEnd(words, i, LAMBDA word : Loose(dict, word))]
        Piece(i) == FlattenSeq(SubSeq(words, i, end[i] - 1))
    IN  IF ~hmm THEN words
        ELSE Walk([i \in DOMAIN words |-> IF Loose(dict, words[i]) THEN HMMCut(model, Piece(i))
                                          ELSE <<words[i]>>],
                  [i \in DOMAIN words |-> IF Loose(dict, words[i]) THEN end[i] ELSE i + 1])

-----------------------------------------------------------------------------
(* FullSegment, QuerySegment, LevelSegment.                                *)

\* Mutant: a longer word, too, is left out when a word so far reaches it.
TakenBeyond(word, v, st) ==
    (Len(word) >= 2 \/ v.only) /\ st.maxIdx <= v.uIdx

Taken(word, v, st) ==
    Len(word) >= 2 \/ (v.only /\ st.maxIdx <= v.uIdx)

\* Every entry of two runes or more, and the runes alone that no word so far
\* reaches.  wordLen keeps the length of the last known word, so a rune no
\* entry names moves the reach as if it were that word.
FullCut(dict, s) ==
    LET dags == FindDag(dict.trie, s, MaxWordLength)
        visits == FlattenSeq([i \in DOMAIN s |-> [k \in DOMAIN dags[i] |->
                    [uIdx |-> i - 1, unit |-> dags[i][k].unit, only |-> Len(dags[i]) = 1]]])
        Visit(st, v) ==
            LET word == IF v.unit # NULL THEN dict.units[v.unit].word ELSE <<s[v.uIdx + 1]>>
                wordLen == IF v.unit # NULL THEN Len(word) ELSE st.wordLen
            IN  [res |-> IF Taken(word, v, st) THEN Append(st.res, word) ELSE st.res,
                 maxIdx |-> IF v.uIdx + wordLen > st.maxIdx THEN v.uIdx + wordLen ELSE st.maxIdx,
                 wordLen |-> wordLen]
        after[n \in 0..Len(visits)] ==
            IF n = 0 THEN [res |-> <<>>, maxIdx |-> 0, wordLen |-> 0]
            ELSE Visit(after[n - 1], visits[n])
    IN  after[Len(visits)].res

\* The long words of the mix are replaced by their full segmentation.
QueryCut(dict, model, s, hmm, maxWordLen) ==
    LET mix == MixCut(dict, model, s, hmm)
        Long(word) == Len(word) > maxWordLen /\ \E i \in DOMAIN word : ~IsAscii(word[i])
    IN  FlattenSeq([k \in DOMAIN mix |->
            IF Long(mix[k]) THEN FullCut(dict, mix[k]) ELSE <<mix[k]>>])

\* Mutant: the limit is the length of the word itself.
NextLevelUnlimited(dict, words) ==
    FlattenSeq([k \in DOMAIN words |->
        IF Len(words[k]) >= 3 THEN MPCut(dict, words[k], Len(words[k])) ELSE <<>>])

\* Words of three runes or more are cut again, with a shorter limit, for the
\* next level.
NextLevel(dict, words) ==
    FlattenSeq([k \in DOMAIN words |->
        IF Len(words[k]) >= 3 THEN MPCut(dict, words[k], Len(words[k]) - 1) ELSE <<>>])

-----------------------------------------------------------------------------
(* PosTagger.                                                              *)

POS_M == <<109>>
POS_ENG == <<101, 110, 103>>
POS_X == <<120>>

\* Counting stops at half of the word, so that a single rune is always "x".
SpecialRule(word) ==
    LET seen == FoldLeft(LAMBDA n, r :
                            IF n.eng < Len(word) \div 2 /\ IsAscii(r)
                            THEN [eng |-> n.eng + 1, m |-> n.m + (IF r \in Digits THEN 1 ELSE 0)]
                            ELSE n,
                         [eng |-> 0, m |-> 0], word)
    IN  IF seen.eng = 0 THEN POS_X ELSE IF seen.m = seen.eng THEN POS_M ELSE POS_ENG

TagOf(dict, word) ==
    LET unit == FindUnit(dict.trie, word)
    IN  IF unit = NULL \/ dict.units[unit].tag = <<>> THEN SpecialRule(word)
        ELSE dict.units[unit].tag

=============================================================================
