------------------------------ MODULE MCJieba ------------------------------
(* Instances of the segmenter for TLC: three Chinese characters, of which  *)
(* one is no entry of the dictionary, ASCII, separators, a rune of the     *)
(* last plane, and sentences that end in malformed bytes.                  *)
EXTENDS Jieba

\* 100 ln(n)
Logarithms == <<0, 69, 110, 139, 161, 179, 195, 208, 220, 230, 240, 248, 256>>

X == 20013
Y == 22269
Z == 20154
Far == 1114109
Word(runes) == Encode(runes)
In(word, p) == <<Word(<<word>>), p>>

Line(runes, tail) == Word(runes) \o tail
Entries ==
    <<Line(<<X>>, <<32, 50, 32, 110>>), Line(<<Y>>, <<32, 49, 32, 117>>),
      Line(<<X, Y>>, <<32, 53, 32, 110, 115, 13>>), Line(<<Y, Z>>, <<32, 52, 32, 118>>),
      Line(<<97, X>>, <<32, 49, 32, 120>>)>>
NoneOrTwo == {<<>>, <<Line(<<Y>>, <<>>), <<>>, Line(<<X, Y, Z>>, <<32, 112, 32>>)>>}
Added == {Word(<<X, Y, Z>>), Word(<<Z>>)}

Row(b, e, m, s) == [kind |-> "data", items |-> <<b, e, m, s>>]
Model ==
    <<[kind |-> "comment", items |-> <<>>],
      Row(-26, MinDouble, MinDouble, -147),
      Row(MinDouble, -51, -92, MinDouble), Row(-59, MinDouble, MinDouble, -81),
      Row(MinDouble, -33, -126, MinDouble), Row(-72, MinDouble, MinDouble, -67),
      Row(In(X, -30), In(Y, -90), In(Z, -40), In(Y, -60)),
      [kind |-> "data", items |-> <<In(X, -80), In(Y, -20)>>],
      [kind |-> "data", items |-> <<In(Y, -60), In(Z, -10)>>],
      [kind |-> "data", items |-> <<In(X, -50), In(Y, -120), In(Z, -200)>>]>>
Idfs == <<Line(<<X, Y>>, <<32, 51>>), <<>>, Line(<<Y, Z>>, <<32, 54>>)>>

Stops == <<Line(<<Y, Z>>, <<>>)>>

Mixed == {X, Y, Z, Far, 97, 49, 46, 32, 65292}
Texts ==
    UNION {[1..n -> Mixed] : n \in 0..2}
    \cup UNION {[1..n -> {X, Y, Z}] : n \in 3..4}
    \cup [1..3 -> {X, Y, 97, 65292}] \cup [1..4 -> {49, 46, 97, Z}]
    \cup {<<X, Y, Z, X, Y, Z>>}
Broken == {Word(<<X, Y>>) \o tail : tail \in {<<228>>, <<228, 184>>, <<255, 97>>}}
Strings == {Word(t) : t \in Texts} \cup Broken

=============================================================================
