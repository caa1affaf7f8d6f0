------------------------------ MODULE MCServer ------------------------------
(* Instances of the server for TLC.  x is in the dictionary, "x y" is not; *)
(* sorry and no stand for the words of the apology.                        *)
EXTENDS Server

CONSTANTS first, second

X == <<"x">>
XY == <<"x", "y">>
\* One client ends its lines as the test client does, one as telnet does.
LinesOf ==
    [k \in Clients |->
        IF k = first THEN <<X \o <<"\n">>, XY \o <<"\n">> >>
        ELSE <<X \o <<"\r", "\n">> >>]
Sorry == <<"sorry", "no">>
Dictionary == (X :> X) @@ (XY :> Sorry)

Numerals == (<<"15">> :> 15) @@ (<<"2">> :> 2)
\* The shipped file in short; one with a blank line, a line without "=" and
\* an interval that is set twice, at last below 3.
Shipped == << <<"cacheFile", "=", "cache.txt">>, <<"updateFrequence", "=", "15">> >>
Edited == << <<>>, <<"cacheFile", "=", "cache.txt">>, <<"comment">>,
             <<"updateFrequence", "=", "15">>, <<"updateFrequence", "=", "2">> >>
Files == {Shipped, Edited}
Zero == {0}

=============================================================================
