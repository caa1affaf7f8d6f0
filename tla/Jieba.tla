------------------------------- MODULE Jieba -------------------------------
(***************************************************************************)
(* One request to the segmenter, as MakeDictCh or the facade class Jieba   *)
(* makes it: the sentence is decoded, the prefilter takes it apart at the  *)
(* separators, each range is cut by the method asked for, and the words    *)
(* are encoded again, to be counted, located, tagged or ranked.  CutLevel  *)
(* works on the whole sentence, level by level.                            *)
(***************************************************************************)
EXTENDS Segment

CONSTANTS
    DictLines,      \* the lines of the dictionary file
    UserDicts,      \* the user dictionaries it may come with (<<>>: none)
    ModelLines,     \* the lines of the model file, split
    IdfLines,       \* the lines of the idf file
    StopLines,      \* the lines of the stop word file
    Sentences,      \* the strings that may be asked for
    Methods,        \* the segmenters to use
    SmallLen,       \* max_word_len of CutSmall
    QueryLen,       \* maxWordLen_ of QuerySegment
    UserWords,      \* the words InsertUserWord may be called with
    TopN            \* how many keywords to extract

ASSUME InputAssumption ==
    /\ \A userDict \in UserDicts \cup {DictLines} :
        \A i \in DOMAIN userDict : Utf8ToUnicode32(userDict[i]).ok
    /\ Methods \subseteq {"small", "mp", "hmm", "mix", "full", "query", "level"}
    /\ SmallLen \in Nat \ {0} /\ QueryLen \in Nat \ {0} /\ TopN \in Nat
    /\ Loadable(DictLines) /\ ModelLoads(ModelLines) /\ StopLines # <<>>
    /\ Sentences \cup UserWords \subseteq Seq(Byte)
    /\ UserDicts \cup {DictLines} \subseteq Seq(Seq(Byte))
    /\ \A unit \in ToSet(LoadDict(DictLines)) : unit.weight \in DOMAIN Log
    /\ Total(LoadDict(DictLines)) \in DOMAIN Log

VARIABLES
    pc,         \* how far the request is
    dict,       \* the DictTrie all segmenters share
    method,     \* the segmenter of the request
    sentence_,  \* the decoded sentence
    cursor,     \* how many of its runes are cut
    uwords,     \* the words so far; for CutLevel those of the level
    words,      \* the encoded words
    report      \* what was made of them

vars == <<pc, dict, method, sentence_, cursor, uwords, words, report>>

model == LoadModel(ModelLines)
Final == {"located", "tagged", "ranked", "leveled"}

TypeOK ==
    /\ pc \in {"idle", "cut", "words"} \cup Final
    /\ method \in Methods \cup {"none"}
    /\ cursor \in 0..Len(sentence_)
    /\ \A i \in DOMAIN sentence_ : sentence_[i] \in 0..(8 * Power64(3) - 1)
    /\ \A node \in DOMAIN dict.trie :
        /\ dict.trie[node] # NULL => dict.units[dict.trie[node]].word = node
        /\ node # <<>> => Front(node) \in DOMAIN dict.trie
    /\ \A i \in DOMAIN uwords : uwords[i] # <<>>

\* MakeDictCh and Jieba load dictionary and model when they are made.
Init ==
    /\ pc = "idle" /\ method = "none"
    /\ \E userDict \in UserDicts : dict = InitDict(DictLines, userDict)
    /\ sentence_ = <<>> /\ cursor = 0
    /\ uwords = <<>> /\ words = <<>> /\ report = <<>>

AddUserWord(word) ==
    /\ pc = "idle" /\ CanInsert(word)
    /\ FindUnit(dict.trie, Decode(word)) = NULL     \* bounds the model: once each
    /\ dict' = InsertUserWord(dict, word, UNKNOWN_TAG)
    /\ UNCHANGED <<pc, method, sentence_, cursor, uwords, words, report>>

-----------------------------------------------------------------------------
(* Cut(sentence, words).                                                   *)

\* Decode's verdict is not asked for: after a malformed byte the rest of the
\* sentence is gone.
Cut(m, sentence) ==
    /\ pc = "idle" /\ m # "level"
    /\ pc' = "cut" /\ method' = m
    /\ sentence_' = Decode(sentence)
    /\ cursor' = 0 /\ uwords' = <<>>
    /\ UNCHANGED <<dict, words, report>>

symbols_ == {32, 9, 10, 65292, 12290}

\* PreFilter::Next: a separator is a range of its own, other runes run up to
\* the next one.
NextRange ==
    IF sentence_[cursor + 1] \in symbols_ THEN cursor + 1
    ELSE RunEnd(sentence_, cursor + 1, LAMBDA r : r \notin symbols_) - 1

CutRange(s) ==
    CASE method = "small" -> MPCut(dict, s, SmallLen)
      [] method = "mp"    -> MixCut(dict, model, s, FALSE)
      [] method = "hmm"   -> HMMCut(model, s)
      [] method = "mix"   -> MixCut(dict, model, s, TRUE)
      [] method = "full"  -> FullCut(dict, s)
      [] method = "query" -> QueryCut(dict, model, s, TRUE, QueryLen)

CutNext ==
    /\ pc = "cut" /\ method # "level" /\ cursor < Len(sentence_)
    /\ uwords' = uwords \o CutRange(SubSeq(sentence_, cursor + 1, NextRange))
    /\ cursor' = NextRange
    /\ UNCHANGED <<pc, dict, method, sentence_, words, report>>

CutEnd ==
    /\ pc = "cut" /\ method # "level" /\ cursor = Len(sentence_)
    /\ words' = EncodeAll(uwords)
    /\ pc' = "words"
    /\ UNCHANGED <<dict, method, sentence_, cursor, uwords, report>>

-----------------------------------------------------------------------------
(* CutLevel: the words of a level of two runes or more are results, those  *)
(* of three or more are cut again, until a level is empty.                 *)

CutLevel(sentence) ==
    /\ pc = "idle" /\ "level" \in Methods
    /\ pc' = "cut" /\ method' = "level"
    /\ sentence_' = Decode(sentence)
    /\ cursor' = 0
    /\ uwords' = MPCut(dict, Decode(sentence), MaxWordLength)
    /\ UNCHANGED <<dict, words, report>>

NextLevelStep ==
    /\ pc = "cut" /\ method = "level" /\ uwords # <<>>
    /\ report' = report \o SelectSeq(uwords, LAMBDA word : Len(word) > 1)
    /\ uwords' = NextLevel(dict, uwords)
    /\ UNCHANGED <<pc, dict, method, sentence_, cursor, words>>

LevelEnd ==
    /\ pc = "cut" /\ method = "level" /\ uwords = <<>>
    /\ words' = EncodeAll(report) /\ pc' = "leveled"
    /\ UNCHANGED <<dict, method, sentence_, cursor, uwords, report>>

-----------------------------------------------------------------------------
(* What is made of the words.                                              *)

\* Mutant: positions count bytes.
LocateInBytes ==
    LET begin[i \in 1..Len(words) + 1] ==
            IF i = 1 THEN 0 ELSE begin[i - 1] + Len(words[i - 1])
    IN  /\ pc = "words"
        /\ report' = [i \in DOMAIN words |->
                        [word |-> words[i], begin |-> begin[i], end |-> begin[i + 1]]]
        /\ pc' = "located"
        /\ UNCHANGED <<dict, method, sentence_, cursor, uwords, words>>

Locate ==
    LET begin[i \in 1..Len(words) + 1] ==
            IF i = 1 THEN 0 ELSE begin[i - 1] + Len(Decode(words[i - 1]))
    IN  /\ pc = "words"
        /\ report' = [i \in DOMAIN words |->
                        [word |-> words[i], begin |-> begin[i], end |-> begin[i + 1]]]
        /\ pc' = "located"
        /\ UNCHANGED <<dict, method, sentence_, cursor, uwords, words>>

Tag ==
    /\ pc = "words" /\ method = "mix"
    /\ report' = [i \in DOMAIN words |->
                    [word |-> words[i], tag |-> TagOf(dict, Decode(words[i]))]]
    /\ pc' = "tagged"
    /\ UNCHANGED <<dict, method, sentence_, cursor, uwords, words>>

\* Words of one rune and stop words do not count.  A word the idf file does
\* not name gets the average over its lines, skipped ones included; weights
\* are scaled by the number of lines.  Words of equal weight come in any
\* order.
IdfEntries ==
    SelectSeq([i \in DOMAIN IdfLines |-> Split(IdfLines[i], Blank)], LAMBDA buf : Len(buf) = 2)
IdfSum == FoldLeft(LAMBDA sum, buf : sum + Atof(buf[2]), 0, IdfEntries)
Idf(word) ==
    LET named == {i \in DOMAIN IdfEntries : IdfEntries[i][1] = word}
    IN  IF named = {} THEN IdfSum ELSE Atof(IdfEntries[Max(named)][2]) * Len(IdfLines)
KeywordWeight(word) ==
    Idf(word) * Cardinality({i \in DOMAIN words : words[i] = word})
IsSingleWord(word) == Len(Decode(word)) = 1
stopWords_ == ToSet(StopLines)
Candidates == {w \in ToSet(words) : ~IsSingleWord(w) /\ w \notin stopWords_}
Compare(w, v) == KeywordWeight(w) > KeywordWeight(v)

Extract ==
    /\ pc = "words" /\ method = "mix"
    /\ \E ranked \in SetToSeqs(Candidates) :
        /\ \A i, j \in DOMAIN ranked :
            i < j => ~Compare(ranked[j], ranked[i])
        /\ report' = SubSeq(ranked, 1, Min({TopN, Len(ranked)}))
    /\ pc' = "ranked"
    /\ UNCHANGED <<dict, method, sentence_, cursor, uwords, words>>

Done == pc \in Final /\ UNCHANGED vars

Next ==
    \/ \E word \in UserWords : AddUserWord(word)
    \/ \E m \in Methods, sentence \in Sentences : Cut(m, sentence)
    \/ CutNext \/ CutEnd
    \/ \E sentence \in Sentences : CutLevel(sentence)
    \/ NextLevelStep \/ LevelEnd
    \/ Locate \/ Tag \/ Extract
    \/ Done

Spec == Init /\ [][Next]_vars

-----------------------------------------------------------------------------
(* Properties.                                                             *)

Partition == {"small", "mp", "hmm", "mix"}
Prefix == SubSeq(sentence_, 1, cursor)
Separated(s) == \A i \in DOMAIN s : s[i] \notin symbols_
Entry(s) == FindUnit(dict.trie, s) # NULL /\ Separated(s)

\* Four of the segmenters lose, repeat and reorder nothing, separators
\* included, through prefilter, path, labels and rules.
TextCovered ==
    method \in Partition => FlattenSeq(uwords) = Prefix

\* The full segmenter finds every entry of 2 to MaxWordLength runes that occurs
\* between separators (how often it occurs is not counted).
EntriesFound ==
    method = "full" =>
        \A i \in 1..cursor : \A j \in i + 1..cursor :
            j - i < MaxWordLength /\ Entry(SubSeq(Prefix, i, j))
            => Contains(uwords, SubSeq(Prefix, i, j))

\* The positions that Locate gives are those of the words in the sentence,
\* although they are counted from the words encoded and decoded again.
\* (Runes from 2^20 on are left out: Encode drops a bit of them.)
PositionsMatch ==
    /\ pc = "located" /\ method \in Partition
    /\ \A i \in DOMAIN sentence_ : sentence_[i] < 4 * Power64(3)
    => \A i \in DOMAIN report :
        /\ report[i].end <= cursor
        /\ SubSeq(sentence_, report[i].begin + 1, report[i].end) = Decode(report[i].word)

\* What a segmentation weighs: an entry its weight, a rune no entry names
\* the least weight.
WeightOf(pieces) ==
    LET Weight(unit) == IF unit = NULL THEN dict.minWeight ELSE dict.units[unit].weight
        sum[k \in 0..Len(pieces)] ==
            IF k = 0 THEN 0 ELSE sum[k - 1] + Weight(FindUnit(dict.trie, pieces[k]))
    IN  sum[Len(pieces)]
\* All the ways to take the text so far apart into single runes and entries
\* within the segmenter's limit.
Limit == IF method = "small" THEN SmallLen ELSE MaxWordLength
Segmentations ==
    {pieces \in {Pieces(Prefix, ends \cup {cursor}) : ends \in SUBSET (1..cursor - 1)} :
        \A k \in DOMAIN pieces :
            Len(pieces[k]) > 1 => Entry(pieces[k]) /\ Len(pieces[k]) <= Limit}

\* The words MPSegment chooses are one of the possible segmentations, and no
\* other is heavier: the dynamic program and the walk along its choices
\* agree with each other and with the trie, user's words included.
HeaviestPath ==
    method \in {"mp", "small"} /\ cursor > 0 =>
        /\ uwords \in Segmentations
        /\ \A pieces \in Segmentations : WeightOf(pieces) <= WeightOf(uwords)

LabelsOf(n) == IF n = 1 THEN <<S>> ELSE <<B>> \o [k \in 1..n - 2 |-> M] \o <<E>>
Likelihood(s, labels) ==
    LET Emit(x) == GetEmitProb(model, labels[x], s[x])
    IN  FoldLeft(LAMBDA sum, x : Plus(Plus(sum, model.trans[labels[x - 1]][labels[x]]), Emit(x)),
                 Plus(model.start[labels[1]], Emit(1)), [k \in 1..Len(s) - 1 |-> k + 1])
Native(rune) == ~IsAscii(rune) /\ rune \notin symbols_

\* Where the model finds any possible labels for a stretch of non-ASCII
\* runes, the words HMMSegment makes of it are the likeliest by the model,
\* and no word mixes ASCII runes with others.
LikeliestLabels ==
    method = "hmm" =>
        /\ \A k \in DOMAIN uwords : \A i, j \in DOMAIN uwords[k] :
            IsAscii(uwords[k][i]) = IsAscii(uwords[k][j])
        /\ LET all == FlattenSeq([k \in DOMAIN uwords |-> LabelsOf(Len(uwords[k]))])
           IN  \A i \in 1..cursor :
                Native(Prefix[i]) /\ (i = 1 \/ ~Native(Prefix[i - 1])) =>
                    LET stretch == SubSeq(Prefix, i, RunEnd(Prefix, i, Native) - 1)
                        mine == SubSeq(all, i, i + Len(stretch) - 1)
                    IN  \A other \in [DOMAIN stretch -> Labels] :
                            other[Len(stretch)] \in {E, S}
                            /\ Likelihood(stretch, other) > MinDouble
                                => Likelihood(stretch, other) <= Likelihood(stretch, mine)

\* The model never joins a rune that a user dictionary names to its
\* neighbours: the mix has it in a longer word only when that is an entry.
UserRunesKept ==
    method = "mix" =>
        \A k \in DOMAIN uwords : Len(uwords[k]) > 1 =>
            \/ Entry(uwords[k])
            \/ \A i \in DOMAIN uwords[k] : uwords[k][i] \notin dict.singles

Longest(ws) == Max({0} \cup {Len(ws[k]) : k \in DOMAIN ws})

\* Every cut comes to its end: each step of the prefilter leaves less of the
\* sentence, and the longest word of a level is shorter than that of the
\* level before, although the next level is cut by the same segmenter.
CutAdvances ==
    [][pc = "cut" /\ pc' = "cut" =>
        IF method = "level" THEN Longest(uwords') < Longest(uwords)
        ELSE cursor' > cursor]_vars

=============================================================================
