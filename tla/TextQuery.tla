----------------------------- MODULE TextQuery -----------------------------
(***************************************************************************)
(* The queries of src/MyTextQuery.cc: a worker looks its word up in the    *)
(* first table, then, character by character, in the second one, and       *)
(* recommends the best candidate.  The tables are what Dictionary makes of *)
(* a corpus.                                                               *)
(*                                                                         *)
(* All workers use the one connection mysql_conn_ptr_ without a lock.  A   *)
(* SELECT occupies it from mysql_query to mysql_free_result.  Two that     *)
(* overlap are a data race and a breach of its protocol: either may fail   *)
(* ("commands out of sync"), which the code takes for an empty result,     *)
(* come back with rows of another SELECT, and leave the connection broken  *)
(* for good.                                                               *)
(***************************************************************************)
EXTENDS Dictionary

CONSTANTS Workers,
          Inputs,    \* the words clients ask for
          Corpus,    \* the lines of the English corpus
          Segments,  \* what segmentation makes of the Chinese one
          Garbage,   \* values an uninitialized frequency may have
          Trim,      \* PQ_TRIM_SIZE
          Apology    \* "Sorry, no matching word, try again"

ASSUME QueryAssumption ==
    /\ Trim \in Nat
    /\ Garbage \subseteq Nat

VARIABLES one, two,  \* the rows of the two tables
          wpc,       \* where each worker is
          busy,      \* the workers that have a SELECT under way
          input,     \* what each looks up
          uvec,      \* the characters it has not looked up yet
          pq,        \* its candidates
          result,    \* its answer
          broken,    \* whether the connection is out of step for good
          disturbed  \* history: whether another SELECT met one of its own

tables == <<one, two>>
vars == <<tables, wpc, busy, input, uvec, pq, result, broken, disturbed>>

Words == {r.word : r \in one}
SelectOne(s) == {r \in one : Same(r.word, s)}
SelectTwo(item) == {r \in two : r.item = item}

TypeOK ==
    /\ wpc \in [Workers -> {"idle", "one", "two", "done"}]
    /\ busy \subseteq {w \in Workers : wpc[w] \in {"one", "two"}}
    /\ input \in [Workers -> Inputs \cup {<<>>}]
    /\ \A w \in Workers : \A c \in pq[w] :
          c.word \in Words /\ c.distance \in 0..Trim
    /\ result \in [Workers -> Inputs \cup Words \cup {Apology, <<>>}]
    /\ broken \in BOOLEAN
    /\ disturbed \in [Workers -> BOOLEAN]

Init ==
    /\ \E unset \in Garbage :
       \E dict \in Dictionaries(Corpus, Segments, unset) :
          /\ one = TableOne(dict)
          /\ two = TableTwo(dict)
    /\ wpc = [w \in Workers |-> "idle"]
    /\ busy = {}
    /\ input = [w \in Workers |-> <<>>]
    /\ uvec = [w \in Workers |-> <<>>]
    /\ pq = [w \in Workers |-> {}]
    /\ result = [w \in Workers |-> <<>>]
    /\ broken = FALSE
    /\ disturbed = [w \in Workers |-> FALSE]

-----------------------------------------------------------------------------
(* A mutant: candidates of any distance.                                   *)
NoTrim(c) == TRUE

CloseEnough(c) == c.distance <= Trim
Candidate(s, row) ==
    [word |-> row.word, distance |-> EditDistance(s, row.word),
     frequency |-> row.frequency]
Candidates(s, rows) == {c \in {Candidate(s, r) : r \in rows} : CloseEnough(c)}

\* queryDB(s)
QueryDB(w, s) ==
    /\ wpc[w] = "idle"
    /\ wpc' = [wpc EXCEPT ![w] = "one"]
    /\ input' = [input EXCEPT ![w] = s]
    /\ disturbed' = [disturbed EXCEPT ![w] = broken]
    /\ UNCHANGED <<tables, busy, uvec, pq, result, broken>>

\* mysql_query: the first call of a SELECT.
BeginSelect(w) ==
    LET met == IF busy = {} THEN {} ELSE busy \cup {w}
    IN  /\ wpc[w] = "one" \/ (wpc[w] = "two" /\ uvec[w] # <<>>)
        /\ w \notin busy
        /\ busy' = busy \cup {w}
        /\ broken' \in {broken, broken \/ met # {}}
        /\ disturbed' =
              [v \in Workers |-> disturbed[v] \/ v \in met \/ broken']
        /\ UNCHANGED <<tables, wpc, input, uvec, pq, result>>

\* The rows of a SELECT: the right ones, or, out of step, any others.
Rows(w, right, others) ==
    IF disturbed[w] THEN {right, {}} \cup others ELSE {right}

EndSelect(w) ==
    /\ w \in busy
    /\ busy' = busy \ {w}
    /\ UNCHANGED <<tables, input, broken, disturbed>>

\* The characters to look up, and no candidate yet.
StartTableTwo(w) ==
    /\ wpc' = [wpc EXCEPT ![w] = "two"]
    /\ uvec' = [uvec EXCEPT ![w] = Utf8ToUint32(input[w])]
    /\ pq' = [pq EXCEPT ![w] = {}]

QueryTableOne(w) ==
    /\ wpc[w] = "one"
    /\ EndSelect(w)
    /\ \E rows \in Rows(w, SelectOne(input[w]), {one}) :
          \/ /\ rows # {}
             /\ wpc' = [wpc EXCEPT ![w] = "done"]
             /\ result' = [result EXCEPT ![w] = input[w]]
             /\ UNCHANGED <<uvec, pq>>
          \/ /\ rows = {}
             /\ StartTableTwo(w)
             /\ UNCHANGED result

\* One character of the loop.
QueryTableTwo(w) ==
    /\ wpc[w] = "two"
    /\ EndSelect(w)
    /\ \E rows \in Rows(w, SelectTwo(Head(uvec[w])),
                        {SelectTwo(r.item) : r \in two}) :
          pq' = [pq EXCEPT ![w] = @ \cup Candidates(input[w], rows)]
    /\ uvec' = [uvec EXCEPT ![w] = Tail(@)]
    /\ UNCHANGED <<wpc, result>>

Recommend(w) ==
    /\ wpc[w] = "two"
    /\ uvec[w] = <<>>
    /\ \E word \in IF pq[w] = {} THEN {Apology}
                   ELSE {c.word : c \in Tops(pq[w])} :
          result' = [result EXCEPT ![w] = word]
    /\ wpc' = [wpc EXCEPT ![w] = "done"]
    /\ UNCHANGED <<tables, busy, input, uvec, pq, broken, disturbed>>

\* The answer is sent and the worker goes on to other work.
Return(w) ==
    /\ wpc[w] = "done"
    /\ wpc' = [wpc EXCEPT ![w] = "idle"]
    /\ input' = [input EXCEPT ![w] = <<>>]
    /\ pq' = [pq EXCEPT ![w] = {}]
    /\ result' = [result EXCEPT ![w] = <<>>]
    /\ disturbed' = [disturbed EXCEPT ![w] = FALSE]
    /\ UNCHANGED <<tables, busy, uvec, broken>>

Worker(w) ==
    \/ \E s \in Inputs : QueryDB(w, s)
    \/ BeginSelect(w)
    \/ QueryTableOne(w)
    \/ QueryTableTwo(w)
    \/ Recommend(w)
    \/ Return(w)

Next == \E w \in Workers : Worker(w)

Spec == Init /\ [][Next]_vars

-----------------------------------------------------------------------------
(* The reference.  A character begins at every byte that is not a         *)
(* continuation; a word of the corpus is a longest run of letters; the    *)
(* distance is that of the cheapest alignment; the answer is found by     *)
(* comparison with all words.                                              *)

Chars(s) ==
    LET starts == {i \in DOMAIN s : s[i] \notin 128..191}
        bounds == SetToSortSeq(starts \cup {Len(s) + 1}, <)
    IN  [k \in 1..Len(bounds) - 1 |-> SubSeq(s, bounds[k], bounds[k + 1] - 1)]

Letter(byte) == ~(Punct(byte) \/ Digit(byte) \/ Space(byte))
Runs(line) ==
    {p \in (DOMAIN line) \X (DOMAIN line) :
        /\ p[1] <= p[2]
        /\ \A i \in p[1]..p[2] : Letter(line[i])
        /\ p[1] > 1 => ~Letter(line[p[1] - 1])
        /\ p[2] < Len(line) => ~Letter(line[p[2] + 1])}
Occurrences(t) ==
    {<<k, p>> \in UNION {{k} \X Runs(Corpus[k]) : k \in DOMAIN Corpus} :
        SubSeq(Corpus[k], p[1], p[2]) = t}
CorpusWords ==
    UNION {{SubSeq(Corpus[k], p[1], p[2]) : p \in Runs(Corpus[k])} :
            k \in DOMAIN Corpus}

\* An alignment pairs positions of x with positions of y, in order; a pair
\* costs one when its characters differ, as does every position left over.
Alignments(x, y) ==
    {m \in SUBSET ((DOMAIN x) \X (DOMAIN y)) :
        \A p, q \in m : p # q => (p[1] < q[1] /\ p[2] < q[2])
                                 \/ (q[1] < p[1] /\ q[2] < p[2])}
Cost(x, y, m) ==
    Len(x) + Len(y) - 2 * Cardinality(m)
    + Cardinality({p \in m : x[p[1]] # y[p[2]]})
Distance(s, t) ==
    LET x == Chars(s)
        y == Chars(t)
    IN  Min({Cost(x, y, m) : m \in Alignments(x, y)})

\* The English count goes first.  The count of a blank segment is a word
\* whose frequency nobody knows.
Frequency(t) ==
    IF t \in CorpusWords THEN Cardinality(Occurrences(t))
    ELSE IF t \in Range(Segments)
         THEN Cardinality({i \in DOMAIN Segments : Segments[i] = t})
    ELSE (CHOOSE r \in two : r.word = t).frequency
Preferred(s, t, u) ==
    \/ Distance(s, t) < Distance(s, u)
    \/ Distance(s, t) = Distance(s, u) /\ Frequency(t) > Frequency(u)

\* A word is looked up by any of its spellings in upper or lower case, and
\* one of them is in the tables.  Only the row of its first character is in
\* the second one, so the words compared are those whose first character the
\* input contains.
Known(s) == \E t \in CorpusWords \cup Range(Segments) \cup Words : Same(s, t)
Near(s) ==
    {t \in Words : Head(Chars(t)) \in Range(Chars(s)) /\ Distance(s, t) <= Trim}

BestAnswers(s) ==
    IF Known(s) THEN {s}
    ELSE IF Near(s) = {} THEN {Apology}
    ELSE {t \in Near(s) : \A u \in Near(s) : ~Preferred(s, u, t)}

-----------------------------------------------------------------------------
(* Properties.                                                             *)

(* A query that no other disturbed gives the right answer: the word if it  *)
(* is in the dictionary, else the nearest word within Trim edits that      *)
(* starts with one of its characters, the more frequent one of two, else   *)
(* the apology.  Splitting, distance, order and tables together.           *)
AnswerIsBest ==
    \A w \in Workers :
        wpc[w] = "done" /\ ~disturbed[w] => result[w] \in BestAnswers(input[w])

(* A word of the dictionary is answered with itself (README.md:28: it is   *)
(* returned directly), whatever other workers ask meanwhile.               *)
DictionaryWordFound ==
    \A w \in Workers :
        wpc[w] = "done" /\ Known(input[w]) => result[w] = input[w]

=============================================================================
