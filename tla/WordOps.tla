------------------------------ MODULE WordOps ------------------------------
(***************************************************************************)
(* The algorithms behind a correction: the UTF-8 splitting and the edit    *)
(* distance of src/StringUtils.cc and the order of candidates of           *)
(* include/MyWord.h.  A word is a sequence of bytes, well-formed UTF-8.    *)
(***************************************************************************)
EXTENDS Naturals, Sequences, SequencesExt

\* The number of leading one bits of a byte.
Utf8Len(byte) ==
    IF byte < 128 THEN 0 ELSE IF byte < 192 THEN 1
    ELSE IF byte < 224 THEN 2 ELSE IF byte < 240 THEN 3 ELSE 4
Width(byte) == IF Utf8Len(byte) > 1 THEN Utf8Len(byte) ELSE 1

\* A character is the number its bytes make, the first one on top; four fit
\* in a uint32_t, so none is lost.
Shifted(u, byte) == u * 256 + byte
Utf8ToUint32(s) ==
    LET from[i \in 1..Len(s) + 1] ==
            IF i > Len(s) THEN <<>>
            ELSE LET next == i + Width(s[i])
                 IN  <<FoldLeft(Shifted, 0, SubSeq(s, i, next - 1))>>
                     \o from[next]
    IN  from[1]

MyMin(x, y, z) ==
    LET res == IF x < y THEN x ELSE y
    IN  IF res < z THEN res ELSE z

EditDistanceHelper(v1, v2) ==
    LET dp[i \in 0..Len(v1), j \in 0..Len(v2)] ==
            IF i = 0 THEN j
            ELSE IF j = 0 THEN i
            ELSE IF v1[i] = v2[j] THEN dp[i - 1, j - 1]
            ELSE 1 + MyMin(dp[i, j - 1], dp[i - 1, j], dp[i - 1, j - 1])
    IN  dp[Len(v1), Len(v2)]

EditDistance(s1, s2) == EditDistanceHelper(Utf8ToUint32(s1), Utf8ToUint32(s2))

(* A mutant: frequency before distance.                                    *)
ByFrequency(x, y) == x.frequency < y.frequency

\* Word::operator<: the greatest word is the one recommended.
Less(x, y) ==
    IF x.distance # y.distance THEN x.distance > y.distance
    ELSE x.frequency < y.frequency

\* priority_queue::top: any word that none exceeds.
Tops(words) == {x \in words : \A y \in words : ~Less(x, y)}

=============================================================================
