---------------------------- MODULE StringUtil ----------------------------
(***************************************************************************)
(* The text of the segmenter: how limonp splits a line into fields and     *)
(* converts between strings of bytes and the runes (code points) the tries *)
(* and models work on, and TransCode on top of them.                       *)
(***************************************************************************)
EXTENDS Integers, SequencesExt

Byte == 0..255

\* Where the run of elements with property R that begins at i ends.
RunEnd(s, i, R(_)) ==
    LET run == {k \in DOMAIN s : R(s[k])}
    IN  CHOOSE j \in i..Len(s) + 1 : i..j - 1 \subseteq run /\ j \notin run

\* A loop over positions: what it makes at position i is followed by what it
\* makes from next[i] on.
Walk(made, next) ==
    LET from[i \in 1..Len(next) + 1] ==
            IF i > Len(next) THEN <<>> ELSE made[i] \o from[next[i]]
    IN  from[1]

IsSpace(byte) == byte \in (9..13) \cup {32}

\* RTrim, then LTrim.
Trim(str) ==
    LET kept == {i \in DOMAIN str : ~IsSpace(str[i])}
    IN  SubSeq(str, RunEnd(str, 1, IsSpace), Max(kept \cup {0}))

\* A delimiter ends a field, which is trimmed; nothing follows the last one,
\* and two in a row have an empty field between them.
Split(src, pattern) ==
    LET end == [i \in DOMAIN src |-> RunEnd(src, i, LAMBDA byte : byte \notin pattern)]
    IN  Walk([i \in DOMAIN src |-> <<Trim(SubSeq(src, i, end[i] - 1))>>],
             [i \in DOMAIN src |-> IF end[i] > Len(src) THEN end[i] ELSE end[i] + 1])

\* atof, of a number without sign and fraction.
Atof(str) ==
    FoldLeft(LAMBDA n, byte : (n * 10) + (byte - 48), 0,
             SubSeq(str, 1, RunEnd(str, 1, LAMBDA byte : byte \in 48..57) - 1))

\* A sequence of width w begins with a byte below LeadBound[w] and carries
\* the lead byte's value modulo LeadPayload[w].  Nothing asks whether the
\* bytes are canonical: a continuation byte passes for the lead of a pair.
LeadBound == <<128, 224, 240, 248>>
LeadPayload == <<128, 32, 16, 8>>

Power64(n) == IF n = 0 THEN 1 ELSE IF n = 1 THEN 64
              ELSE IF n = 2 THEN 4096 ELSE 262144

\* The width of the sequence at i, the least that admits its first byte and
\* ends inside the string, or 0.
SequenceWidth(str, i) ==
    LET fits == {w \in 1..4 : str[i] < LeadBound[w] /\ i + w - 1 <= Len(str)}
    IN  IF fits = {} THEN 0 ELSE Min(fits)

RuneAt(str, i, w) ==
    LET Low(k) == str[i + k] % 64
        lead == str[i] % LeadPayload[w]
    IN  IF w = 1 THEN lead
        ELSE IF w = 2 THEN lead * 64 + Low(1)
        ELSE IF w = 3 THEN lead * Power64(2) + Low(1) * 64 + Low(2)
        ELSE lead * Power64(3) + Low(1) * Power64(2) + Low(2) * 64 + Low(3)

\* The runes up to the first byte that begins no sequence, which stay in the
\* container when the conversion fails.
Utf8ToUnicode32(str) ==
    LET width == [i \in DOMAIN str |-> SequenceWidth(str, i)]
        next == [i \in DOMAIN str |-> IF width[i] = 0 THEN Len(str) + 1 ELSE i + width[i]]
        Found(i) == IF width[i] = 0 THEN <<>> ELSE <<RuneAt(str, i, width[i])>>
        Failed(i) == IF width[i] = 0 THEN <<i>> ELSE <<>>
    IN  [ok |-> Walk([i \in DOMAIN str |-> Failed(i)], next) = <<>>,
         runes |-> Walk([i \in DOMAIN str |-> Found(i)], next)]

\* The bytes of one rune.  The widest form keeps two bits of the lead, where
\* the decoder reads three.
RuneBytes(rune) ==
    LET Low(n) == 128 + ((rune \div Power64(n)) % 64)
    IN  IF rune < 128 THEN <<rune>>
        ELSE IF rune < 2048 THEN <<192 + ((rune \div 64) % 32), Low(0)>>
        ELSE IF rune < 65536 THEN <<224 + ((rune \div 4096) % 16), Low(1), Low(0)>>
        ELSE <<240 + ((rune \div 262144) % 4), Low(2), Low(1), Low(0)>>

Unicode32ToUtf8(runes) ==
    FlattenSeq([i \in DOMAIN runes |-> RuneBytes(runes[i])])

\* TransCode, as built without CPPJIEBA_GBK.
Decode(str) == Utf8ToUnicode32(str).runes
Encode(runes) == Unicode32ToUtf8(runes)
EncodeAll(words) == [i \in DOMAIN words |-> Encode(words[i])]

=============================================================================
