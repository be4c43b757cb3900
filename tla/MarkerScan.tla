------------------------------- MODULE MarkerScan -----------------------------
(***************************************************************************)
(* How the objects of a buffer are found where no cross-reference can be   *)
(* read (src/src/reader.rs).  Text is a sequence of the words the scan     *)
(* tells apart: digits, "SP", "CR", "LF", "obj", "endobj", "stream",       *)
(* "endstream", "/Length", "/" and ">>" for what begins with them, "F"     *)
(* for a letter.                                                           *)
(***************************************************************************)
EXTENDS Naturals, Sequences, FiniteSets, SequencesExt

CONSTANT MaxReconstructed  \* MAX_RECONSTRUCTED_OBJECTS, a number above 0

Digits == {ToString(n) : n \in 0 .. 9}
LineEnds == {"CR", "LF"}
Blanks == LineEnds \cup {"SP"}

\* Words that begin with a letter or a digit.
Alphanumeric == Digits \cup {"F", "obj", "endobj", "stream", "endstream"}

Value(digits) ==
    FoldLeft(LAMBDA v, c : 10 * v + CHOOSE n \in 0 .. 9 : ToString(n) = c, 0, digits)

From(text, n) == SubSeq(text, n, Len(text))
Run(text, S) == Cardinality({n \in 1 .. Len(text) : \A i \in 1 .. n : text[i] \in S})

\* The number in front, of so many digits at the most, and what is behind the blanks
\* that must follow it.
NumberAndBlanks(text, cap) ==
    LET n == Run(text, Digits)
        rest == From(text, n + 1)
    IN  IF n \in 1 .. cap /\ Run(rest, Blanks) > 0
        THEN {[number |-> Value(SubSeq(text, 1, n)), rest |-> From(rest, Run(rest, Blanks) + 1)]}
        ELSE {}

\* "N G obj": the blanks may be line ends, and "obj" must be a whole word.
parse_object_header(text) ==
    UNION {{[number |-> n.number, generation |-> g.number] :
               g \in {g \in NumberAndBlanks(n.rest, 5) :
                         g.number < 2 ^ 16 /\ Run(g.rest, {"obj"}) = 1 /\ (Len(g.rest) = 1 \/ g.rest[2] \notin Alphanumeric)}} :
           n \in NumberAndBlanks(text, 10)}

\* Behind the payload of the stream at a place as its own dictionary has it: from the
\* last "/Length" since the last "obj", which "endobj" ends with too.  The Length must
\* be direct (a name or the end of the dictionary follows) and lie in the buffer.
payload_end_by_length(text, at) ==
    LET objs == {i \in 1 .. at - 1 : text[i] \in {"obj", "endobj"}}
        dict_region == SubSeq(text, Max(objs) + 1, at - 1)
        keys == {i \in DOMAIN dict_region : dict_region[i] = "/Length"}
        numbers == {i \in DOMAIN dict_region : i > Max(keys) /\ dict_region[i] \in Digits}
        number == From(dict_region, Min(numbers))
        digits == Run(number, Digits)
        behind == SelectSeq(From(number, digits + 1), LAMBDA c : c \notin Blanks)
        eol == IF SubSeq(text, at + 1, at + 2) = <<"CR", "LF">> THEN 2 ELSE 1
        end == at + 1 + eol + Value(SubSeq(number, 1, digits))
    IN  IF /\ objs # {} /\ keys # {} /\ numbers # {}
           /\ digits <= 10 /\ behind # << >> /\ Head(behind) \in {"/", "/Length", ">>"}
           /\ end <= Len(text) + 1
        THEN {end} ELSE {}

\* Behind the payload of a stream: at the next "endstream", wherever it is, or else where
\* the Length says.
PayloadEnd(text, at) ==
    LET ends == {i \in at + 1 .. Len(text) : text[i] = "endstream"} IN
    IF text[at] # "stream" \/ at = Len(text) \/ text[at + 1] \notin LineEnds THEN {}
    ELSE IF ends # {} THEN {Min(ends) + 1} ELSE payload_end_by_length(text, at)

RECURSIVE MarkersFrom(_, _, _, _)

\* The headers at the start of a line, blanks in front of them allowed, that no payload
\* hides.  Numbers that are too high are passed over; too many headers end the scan.
MarkersFrom(text, pos, at_line_start, markers) ==
    LET payload == PayloadEnd(text, pos)
        header == IF at_line_start THEN parse_object_header(From(text, pos)) ELSE {}
        found == {[offset |-> pos, id |-> h] : h \in {h \in header : h.number <= MaxReconstructed}}
    IN  IF pos > Len(text) THEN markers
        ELSE IF payload # {} THEN MarkersFrom(text, CHOOSE end \in payload : TRUE, FALSE, markers)
        ELSE IF found # {} /\ Len(markers) = MaxReconstructed THEN markers
        ELSE MarkersFrom(text, pos + 1, text[pos] \in LineEnds \/ (at_line_start /\ text[pos] = "SP"),
                         markers \o SetToSeq(found))

scan_object_markers(text) == MarkersFrom(text, 1, TRUE, << >>)
===============================================================================
