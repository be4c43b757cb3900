----------------------------- MODULE MCPasswords -----------------------------
(***************************************************************************)
(* Passwords for TLC.  Three bytes of padding stand for 32, four bytes for *)
(* the 127 of revisions 5 and 6.  The characters: a and b, which are ASCII;*)
(* e, which PDFDocEncoding and UTF-8 encode differently; k, which only     *)
(* UTF-8 encodes; h, which SASLprep drops; z, which it refuses.            *)
(***************************************************************************)
EXTENDS Passwords

MCChars == {"a", "b", "e", "k", "h", "z"}

MCPdfDoc ==
    [a |-> <<"a">>, b |-> <<"b">>, e |-> <<"E9">>, k |-> << >>, h |-> << >>, z |-> << >>]

MCUtf8 ==
    [a |-> <<"a">>, b |-> <<"b">>, e |-> <<"C3", "A9">>, k |-> <<"E5", "AF">>,
     h |-> <<"C2", "AD">>, z |-> <<"EE", "80">>]

MCPrep ==
    [a |-> <<"a">>, b |-> <<"b">>, e |-> <<"e">>, k |-> <<"k">>, h |-> << >>, z |-> <<"z">>]

MCProhibited == {"z"}

MCPadding == <<"P1", "P2", "P3">>

MCTries ==
    {<< >>, <<"a">>, <<"b">>, <<"a", "b">>, <<"e">>, <<"k">>, <<"a", "k">>, <<"a", "h">>, <<"z">>,
     <<"a", "a", "a">>, <<"a", "a", "a", "a">>, <<"a", "a", "a", "a", "a">>}

Filters(strings, streams) == [S |-> strings, T |-> streams]

Request(version, owner, user) ==
    [version |-> version, owner |-> owner, user |-> user, permissions |-> {2},
     encryptMetadata |-> TRUE, length |-> 128, fileKey |-> <<"file key", 32>>,
     filters |-> Filters("AESV2", "AESV2"), strings |-> "S", streams |-> "T"]

Pairs ==
    {<< <<"a">>, <<"b">> >>, << <<"a">>, << >> >>, << << >>, <<"a">> >>, << <<"e">>, <<"a", "k">> >>,
     << <<"a", "h">>, <<"a", "a", "a", "a">> >>, << <<"a", "a", "a", "a", "a">>, <<"b">> >>,
     << <<"z">>, <<"e">> >>}

MCRequests ==
    {Request("V1", p[1], p[2]) : p \in Pairs}
    \cup {[Request("V2", p[1], p[2]) EXCEPT !.length = n] :
             p \in {q \in Pairs : q[1] = <<"a">>}, n \in {32, 40, 44, 128, 136}}
    \cup {[Request("V4", p[1], p[2]) EXCEPT !.encryptMetadata = m] : p \in Pairs, m \in BOOLEAN}
    \cup {[Request("V4", <<"a">>, <<"b">>) EXCEPT !.filters = f, !.strings = n] :
             f \in {Filters("V2", "Identity"), Filters("AESV3", "AESV2"), Filters("Identity", "AESV2")},
             n \in {"S", "T", "Other"}}
    \cup {[Request(v, p[1], p[2]) EXCEPT !.filters = Filters("AESV3", "AESV3")] :
             v \in {"R5", "V5"}, p \in Pairs}
    \cup {[Request("V5", <<"a">>, <<"b">>) EXCEPT !.filters = f, !.fileKey = <<"file key", n>>] :
             f \in {Filters("AESV2", "Identity"), Filters("V2", "AESV3")}, n \in {16, 32}}
=============================================================================
