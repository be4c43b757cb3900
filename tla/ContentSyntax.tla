----------------------------- MODULE ContentSyntax ----------------------------
(***************************************************************************)
(* Content streams (src/src/content.rs and the end of                      *)
(* src/src/parser/mod.rs): operands and then their operator.               *)
(*                                                                         *)
(* A content is a sequence of elements [t, v]: operands of type "name",    *)
(* "string", "number", "array" and "dictionary", an "operator", a          *)
(* "comment", an inline "image", which is one element from BI to EI, and   *)
(* "other", bytes no rule of the grammar accepts.                          *)
(***************************************************************************)
EXTENDS Naturals, Sequences, SequencesExt

Element(t, v) == [t |-> t, v |-> v]

Operator(v) == Element("operator", v)
Other == Element("other", "")

Operand(e) == e.t \in {"name", "string", "number", "array", "dictionary"}

Operation(operator, operands) == [operator |-> operator, operands |-> operands]

-----------------------------------------------------------------------------
\* inline_image: one whose size can be told becomes the operand of BI, one that has a
\* filter or an unknown colour space is skipped up to EI, and where there is no EI
\* the content is refused.  {} for the last.
inline_image(image) ==
    CASE image.v = "sized" -> {Operation("BI", <<Element("stream", image.v)>>)}
      [] image.v = "filtered" -> {Operation("BI", << >>)}
      [] image.v = "endless" -> {}

\* The operands that wait after an operator.
Pending(operands) == << >>

\* many0(operation): comments only before an operation; a BI of its own is refused, with
\* all the content; whatever else is not an operation ends it.
Parsed(tokens) ==
    LET Step(s, e) ==
            CASE s.end # "no" -> s
              [] e.t = "comment" /\ s.operands = << >> -> s
              [] Operand(e) -> [s EXCEPT !.operands = Append(@, e)]
              [] e.t = "operator" /\ (e.v # "BI" \/ s.operands # << >>) ->
                    [s EXCEPT !.operations = Append(@, Operation(e.v, s.operands)), !.operands = Pending(@)]
              [] e.t = "image" /\ s.operands = << >> /\ inline_image(e) # {} ->
                    [s EXCEPT !.operations = @ \o SetToSeq(inline_image(e))]
              [] (e.t = "image" \/ (e.t = "operator" /\ e.v = "BI")) /\ s.operands = << >> -> [s EXCEPT !.end = "refused"]
              [] OTHER -> [s EXCEPT !.end = "rest"]
    IN  FoldLeft(Step, [operations |-> << >>, operands |-> << >>, end |-> "no"], tokens)

\* Content::decode: what follows the last operation that can be read is left out.
content(tokens) == LET p == Parsed(tokens) IN IF p.end = "refused" THEN {} ELSE {p.operations}

\* Content::decode_strict.
content_strict(tokens) ==
    LET p == Parsed(tokens) IN IF p.end = "no" /\ p.operands = << >> THEN {p.operations} ELSE {}

-----------------------------------------------------------------------------
\* Writer::write_object of an operand: a stream is written as in a file, with the word
\* stream and the data.
Written(operand) ==
    IF operand.t = "stream" THEN <<Element("dictionary", ""), Operator("stream"), Other>> ELSE <<operand>>

\* Content::encode.
encode(operations) ==
    FlattenSeq([i \in DOMAIN operations |->
        FlattenSeq([j \in DOMAIN operations[i].operands |-> Written(operations[i].operands[j])])
        \o <<Operator(operations[i].operator)>>])
===============================================================================
