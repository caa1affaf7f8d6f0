----------------------------- MODULE Dictionary -----------------------------
(***************************************************************************)
(* How the dictionary comes to be: buildDict counts the words of a corpus  *)
(* and writes them to a file, buildDB reads the file and fills the two     *)
(* tables.  Both are sequential programs run once by hand; here they are   *)
(* functions from the corpus to the tables.                                *)
(***************************************************************************)
EXTENDS WordOps, FiniteSets

Punct(byte) == byte \in (33..47) \cup (58..64) \cup (91..96) \cup (123..126)
Digit(byte) == byte \in 48..57
Space(byte) == byte \in (9..13) \cup {32}

-----------------------------------------------------------------------------
(* buildDict.                                                              *)

\* Digits and punctuation become blanks.  Capitals stay: the result of
\* tolower is not used.
Cleaned(line) ==
    [i \in DOMAIN line |->
        IF Punct(line[i]) \/ Digit(line[i]) THEN 32 ELSE line[i]]

\* iss >> word, until the end: a blank ends a word.
WordsOf(line) ==
    SelectSeq(
        FoldLeft(LAMBDA words, byte :
                    IF Space(byte) THEN Append(words, <<>>)
                    ELSE Append(Front(words), Append(Last(words), byte)),
                 <<<<>>>>, line),
        LAMBDA word : word # <<>>)

\* words_, a map from a word to how often it was seen.
Counted(words) ==
    [w \in Range(words) |-> Cardinality({i \in DOMAIN words : words[i] = w})]

MakeDictEn(lines) ==
    Counted(FlattenSeq([i \in DOMAIN lines |-> WordsOf(Cleaned(lines[i]))]))
MakeDictCh(segments) == Counted(segments)

\* The lines of a dictionary file, an unordered map written in any order;
\* MakeDictCh does it as MakeDictEn does.
WriteFileEn(words) ==
    {[i \in DOMAIN order |-> [word |-> order[i], count |-> words[order[i]]]] :
        order \in SetToSeqs(DOMAIN words)}
WriteFileCh(words) == WriteFileEn(words)

\* Both corpora, each to a file of its own.
DictionaryFiles(lines, segments) ==
    {[en |-> en, ch |-> ch] : en \in WriteFileEn(MakeDictEn(lines)),
                              ch \in WriteFileCh(MakeDictCh(segments))}

-----------------------------------------------------------------------------
(* buildDB.  word is the primary key of both tables, so of several rows    *)
(* with equal words the first stays and the other INSERTs fail unnoticed.  *)
(* The collation of the tables (utf8_general_ci) ignores case.             *)

Folded(word) ==
    [i \in DOMAIN word |->
        IF word[i] \in 65..90 THEN word[i] + 32 ELSE word[i]]
Same(s, t) == Folded(s) = Folded(t)

Decimal ==
    LET digits[n \in Nat] ==
            IF n < 10 THEN <<48 + n>>
            ELSE Append(digits[n \div 10], 48 + (n % 10))
    IN  digits

\* A line "word count", written and read again with >>.  A word of blanks is
\* skipped: the count is read as the word, and the frequency, for which
\* nothing is left, keeps the uninitialized value unset.
ReadBack(line, unset) ==
    IF \A i \in DOMAIN line.word : Space(line.word[i])
    THEN [word |-> Decimal[line.count], frequency |-> unset]
    ELSE [word |-> line.word, frequency |-> line.count]

\* buildDB has a copy of utf8ToUint32.
ItemsOf(word) == Utf8ToUint32(word)

Insert(rows, row) ==
    IF \E r \in rows : Same(r.word, row.word) THEN rows ELSE rows \cup {row}

BuildTableOne(rows, e) == Insert(rows, [word |-> e.word])
BuildTableTwo(rows, item, e) ==
    Insert(rows, [item |-> item, word |-> e.word, frequency |-> e.frequency])

TableOne(dict) == FoldLeft(BuildTableOne, {}, dict)

\* One INSERT for each character; all but the first fail.
TableTwo(dict) ==
    FoldLeft(LAMBDA rows, e :
                FoldLeft(LAMBDA rs, item : BuildTableTwo(rs, item, e),
                         rows, ItemsOf(e.word)),
             {}, dict)

\* The entries of the English file first, then those of the Chinese one.
MakeDB(files, unset) ==
    [i \in DOMAIN (files.en \o files.ch) |->
        ReadBack((files.en \o files.ch)[i], unset)]
Dictionaries(lines, segments, unset) ==
    {MakeDB(files, unset) : files \in DictionaryFiles(lines, segments)}

=============================================================================
