------------------------------- MODULE MCCodecs -------------------------------
(***************************************************************************)
(* Codecs for TLC, with 4 in the place of 256: a byte has two hexadecimal  *)
(* digits below 2, and four ASCII85 digits more than a group can need.     *)
(***************************************************************************)
EXTENDS Codecs

MCLimit ==
    [string |-> 5, name |-> 3, object |-> 2, stream |-> 5, entries |-> 4, bytes |-> 5, row |-> 3,
     encoded |-> 5, cmap |-> 2, differences |-> 4, text |-> 3, buffer |-> 3]

MCStringChars == {"(", ")", "\\", "CR", "LF", "2", "n", "F"}
MCNameChars == {"#", "/", "SP", "hi", "F", "2", "("}
MCStreamChars == {"F", "CR", "LF", "endstream", "endobj"}

MCLeaves ==
    {Null, Integer, Fraction, Reference,
     [type |-> "Real", fraction |-> FALSE, size |-> "small"],
     [type |-> "Real", fraction |-> FALSE, size |-> "large"],
     [type |-> "Name", text |-> <<"F", "#">>], StringOf(<<"(", "\\">>, "Literal"),
     StringOf(<<"F", "hi">>, "Hexadecimal"), Boolean(FALSE)}

MCEntrySet == {Normal(16, 0), Normal(63, 4), Compressed(3, 0), Free, UnusableFree}

MCEncoded == {0, 1, 2, 3, Filters!Zeros, Filters!Space, Filters!End}

\* A, B, C and the replacement character; code 2 of the base has no character.
MCStandard == [b \in {0, 1, 3} |-> IF b = 0 THEN 1 ELSE b]
MCPdfDoc == [b \in 0 .. 3 |-> IF b = 2 THEN 5 ELSE b]

Mapping(len, lo, hi, targets) == [len |-> len, lo |-> lo, hi |-> hi, targets |-> targets]

MCMappings ==
    {Mapping(1, lo, hi, t) : lo \in 0 .. 3, hi \in 0 .. 3, t \in {<< <<1>> >>, << <<3>> >>, << <<1, 2>> >>, << <<2>>, <<4>> >>}}
    \cup {Mapping(2, lo, hi, t) : lo \in {0, 5, 9}, hi \in {5, 10, 12}, t \in {<< <<0>> >>, << <<4>> >>}}

MCDiffItems ==
    {[type |-> "Integer", value |-> n] : n \in -1 .. 3} \cup {[type |-> "Name", value |-> c] : c \in {1, 3, 5}}
    \cup {[type |-> "Other", value |-> 0]}
\* A line that looks like a header, behind something and at its start.
Buried == <<"F", "SP", "1", "SP", "0", "SP", "obj">>
Exposed == <<"F", "LF", "SP", "1", "LF", "0", "SP", "obj", "LF">>

DirectLength(n) == <<"/Length", "SP", n>>
Body(k, text) == [kind |-> k, text |-> text]
StreamOf(dictionary, lineEnd, payload) == dictionary \o <<">>", "LF", "stream">> \o lineEnd \o payload
EndStream == <<"LF", "endstream">>

MCBodies ==
    {Body("plain", Buried), Body("plain", <<"F", "stream", "SP", "1", "LF", "2">>),
     Body("whole", StreamOf(DirectLength("2"), <<"LF">>, Exposed) \o EndStream),
     Body("whole", StreamOf(DirectLength("9"), <<"CR", "LF">>, <<"F", "LF", "stream", "LF">>) \o EndStream),
     Body("bounded", StreamOf(DirectLength("9"), <<"LF">>, Exposed)),
     Body("bounded", StreamOf(<<"/Length", "1", "/", "F">> \o DirectLength("9"), <<"CR", "LF">>, Exposed)),
     Body("bounded", StreamOf(<<"/", "F">>, <<"LF">>, <<"F">>)),
     Body("unbounded", StreamOf(<<"/", "F">>, <<"LF">>, Exposed)),
     Body("unbounded", StreamOf(DirectLength("5") \o <<"SP", "0", "SP", "F">>, <<"LF">>, Exposed)),
     Body("unbounded", StreamOf(DirectLength("9") \o <<"/Length", "1", "SP", "5">>, <<"LF">>, Exposed)),
     Body("quoting", Exposed), Body("quoting", <<"F", "stream", "LF">>)}
===============================================================================
