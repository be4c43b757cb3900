------------------------------- MODULE FontText -------------------------------
(***************************************************************************)
(* The encodings of fonts (get_font_encoding in src/src/object.rs), and    *)
(* the text of content read and replaced through them (the free functions  *)
(* and the loops of src/src/parser_aux.rs).                                *)
(*                                                                         *)
(* Objects are a function of their numbers; a value of a dictionary is {}  *)
(* where it is absent, else the set of one object.                         *)
(***************************************************************************)
EXTENDS StreamData, ContentSyntax, FiniteSets, FiniteSetsExt

CONSTANTS
    Byte, Unit, Replacement, PdfDoc,  \* see TextCodec
    Sets,         \* [name -> one-byte encoding]: StandardEncoding, WinAnsiEncoding ...
    Space, NewLine  \* what extraction puts between pieces of text

Standard == Sets["StandardEncoding"]

Text == INSTANCE TextCodec

ASSUME FontTextAssumption == Text!AreUnits

Reference(id) == [type |-> "Reference", id |-> id]
Name(name) == [type |-> "Name", name |-> name]

RECURSIVE Dereferenced(_, _, _)

\* dereference: {} where the object is missing or the references go in a circle.
Dereferenced(objects, value, seen) ==
    IF value.type # "Reference" THEN {value}
    ELSE IF value.id \notin DOMAIN objects \ seen THEN {}
    ELSE Dereferenced(objects, objects[value.id], seen \cup {value.id})

get_object(objects, id) == Dereferenced(objects, Reference(id), {})

OfType(values, type) == {v \in values : v.type = type}

\* The one value, or what stands for none.
Some(values, none) == IF values = {} THEN none ELSE CHOOSE v \in values : TRUE

\* The object a dictionary's value stands for.
Value(objects, values) == UNION {Dereferenced(objects, v, {}) : v \in values}

-----------------------------------------------------------------------------
(***************************************************************************)
(* Encodings: [status, encoding], of which only the status counts where it *)
(* is not "ok".                                                            *)
(***************************************************************************)
Encoding(encoding) == [status |-> "ok", encoding |-> encoding]

NoEncoding(status) == [status |-> status, encoding |-> [kind |-> "none"]]

OneByte(set) == [kind |-> "OneByte", set |-> set]

StandardFallback == Encoding(OneByte(Standard))

\* The elements of the stream are the mappings of the CMap; data in layers are no CMap.
get_to_unicode_encoding(stream, limit) ==
    LET Maps(data) == IF data.layers = << >> THEN Text!from_sections(data.tokens) ELSE {}
        Of(r) == IF r.status # "ok" THEN NoEncoding(r.status)
                 ELSE Some({Encoding([kind |-> "UnicodeMap", cmap |-> c]) : c \in Maps(r.out)}, NoEncoding("failed"))
    IN  Of(get_plain_content(stream, limit))

\* /ToUnicode of a font: {} if it is not a stream.
ToUnicode(objects, font, limit) ==
    {get_to_unicode_encoding(s, limit) : s \in OfType(Value(objects, font.toUnicode), "Stream")}

base_encoding(objects, font, name, limit) ==
    CASE name \in DOMAIN Sets -> Encoding(OneByte(Sets[name]))
      [] name \in {"Identity-H", "Identity-V"} -> Some(ToUnicode(objects, font, limit), NoEncoding("failed"))
      [] OTHER -> Encoding([kind |-> "Simple", name |-> name])

\* A dictionary of /Type /Encoding: its base, or the standard one, with its /Differences.
EncodingDictionary(objects, font, dict, limit) ==
    LET Changed(base) ==
            IF base.status # "ok" THEN base
            ELSE Some({Encoding(e) : e \in UNION {Text!differences(base.encoding, d) : d \in dict.differences}}, NoEncoding("failed"))
    IN  Changed(Some({base_encoding(objects, font, n, limit) : n \in dict.base}, StandardFallback))

get_base_encoding(objects, font, limit) ==
    LET Of(v) == CASE v.type = "Name" -> base_encoding(objects, font, v.name, limit)
                   [] v.type = "Encoding" -> EncodingDictionary(objects, font, v, limit)
                   [] OTHER -> NoEncoding("failed")
    IN  Some({Of(v) : v \in Value(objects, font.encoding)}, NoEncoding("failed"))

\* A slip: every error ends in the standard encoding.
Surfaces_Never(status) == FALSE

\* The error that must not be hidden by the standard encoding.
Surfaces(status) == status = "limit"

OrStandard(r) == IF r.status = "ok" \/ Surfaces(r.status) THEN r ELSE StandardFallback

\* get_font_encoding, with and without a limit.
get_font_encoding(objects, font, limit) ==
    IF ~font.isFont THEN NoEncoding("failed")
    ELSE OrStandard(Some(IF font.encoding # {} THEN {get_base_encoding(objects, font, limit)} ELSE ToUnicode(objects, font, limit),
                         StandardFallback))

-----------------------------------------------------------------------------
(***************************************************************************)
(* Text of operands.  [ok, text]: what was decoded before an error stays.  *)
(***************************************************************************)
RECURSIVE Decode(_, _), collect_text(_, _)

\* Encoding::bytes_to_string: a simple encoding whose name is not known decodes nothing.
Decode(encoding, bytes) ==
    CASE encoding.kind = "Simple" -> [ok |-> FALSE, text |-> << >>]
      [] encoding.kind = "Differences" ->
            FoldLeft(LAMBDA r, b : IF ~r.ok THEN r
                                   ELSE LET one == IF b \in DOMAIN encoding.map THEN [ok |-> TRUE, text |-> <<encoding.map[b]>>]
                                                   ELSE Decode(encoding.base, <<b>>)
                                        IN  [ok |-> one.ok, text |-> r.text \o one.text],
                     [ok |-> TRUE, text |-> << >>], bytes)
      [] OTHER -> [ok |-> TRUE, text |-> Text!write_to_string(encoding, bytes)]

TextOf(encoding, e) ==
    CASE e.t = "string" -> Decode(encoding, e.v)
      [] e.t = "array" -> LET r == collect_text(encoding, e.v) IN [r EXCEPT !.text = IF r.ok THEN Append(@, Space) ELSE @]
      [] e.t = "number" /\ e.v < -100 -> [ok |-> TRUE, text |-> <<Space>>]
      [] OTHER -> [ok |-> TRUE, text |-> << >>]

Add(r, more) == [ok |-> more.ok, text |-> r.text \o more.text]

collect_text(encoding, operands) ==
    FoldLeft(LAMBDA r, e : IF r.ok THEN Add(r, TextOf(encoding, e)) ELSE r, [ok |-> TRUE, text |-> << >>], operands)

-----------------------------------------------------------------------------
(***************************************************************************)
(* Extraction: chunks of text, one for each font, and errors between them. *)
(* Encodings are a function of the names of fonts.                         *)
(***************************************************************************)
Chunk(text) == [ok |-> TRUE, text |-> text]
ErrorChunk == [ok |-> FALSE, text |-> << >>]

BreakLine(text) == IF text # << >> /\ Last(text) = NewLine THEN text ELSE Append(text, NewLine)

WithText(s, text, r) ==
    [s EXCEPT !.text = text \o r.text, !.chunks = IF r.ok THEN @ ELSE Append(@, ErrorChunk)]

Shown(s, text, operands) == WithText(s, text, collect_text(s.encoding, operands))

Selects(font, encodings) == font.t = "name" /\ font.v \in DOMAIN encodings

NoFont == [kind |-> "none"]

\* Tf: the text so far is a chunk of its own.
FontSelected(s, encodings, operands) ==
    LET font == Head(operands)
        encoding == IF Selects(font, encodings) THEN encodings[font.v] ELSE NoFont
        chunks == IF font.t = "name" THEN s.chunks ELSE Append(s.chunks, ErrorChunk)
    IN  IF operands = << >> THEN [s EXCEPT !.failed = TRUE]
        ELSE [s EXCEPT !.encoding = encoding, !.text = << >>,
                       !.chunks = IF s.text = << >> THEN chunks ELSE Append(chunks, Chunk(s.text))]

\* One operation of the loop of extract_text_chunks_from_page.
Extracted(s, o, encodings) ==
    CASE s.failed -> s
      [] o.operator = "Tf" -> FontSelected(s, encodings, o.operands)
      [] o.operator \in {"Tj", "TJ"} /\ s.encoding # NoFont -> Shown(s, s.text, o.operands)
      [] o.operator = "'" /\ s.encoding # NoFont -> Shown(s, BreakLine(s.text), o.operands)
      [] o.operator = "\"" /\ s.encoding # NoFont -> Shown(s, BreakLine(s.text), SubSeq(o.operands, 3, 3))
      [] o.operator \in {"T*", "ET"} -> [s EXCEPT !.text = BreakLine(@)]
      [] OTHER -> s

ChunksOf(end) ==
    IF end.failed THEN {} ELSE {IF end.text = << >> THEN end.chunks ELSE Append(end.chunks, Chunk(end.text))}

\* The loop: {} for a Tf without a font.
ExtractFrom(operations, encodings, errors) ==
    ChunksOf(FoldLeft(LAMBDA s, o : Extracted(s, o, encodings),
                      [encoding |-> NoFont, text |-> << >>, chunks |-> errors, failed |-> FALSE], operations))

-----------------------------------------------------------------------------
(***************************************************************************)
(* Replacement.                                                            *)
(***************************************************************************)
OrDefault(bytes, encoding, default) == IF bytes = << >> THEN Text!EncodedBytes(encoding, default) ELSE bytes

\* encode: a character that cannot be encoded gives the default.
encode_text(encoding, text, default) ==
    LET parts == IF Len(text) <= 1 THEN <<text>> ELSE [i \in DOMAIN text |-> <<text[i]>>] IN
    FlattenSeq([i \in DOMAIN parts |-> OrDefault(Text!EncodedBytes(encoding, parts[i]), encoding, default)])

\* Characters that cannot be encoded are left out, unless none can be.
encode_with_fallback(encoding, text, default) ==
    LET bytes == Text!EncodedBytes(encoding, text) IN
    IF bytes = << >> THEN encode_text(encoding, text, default) ELSE bytes

\* A slip: what the other strings say stays.
Emptied_Kept(string) == string

\* The strings of an array after the one that got the replacement.
Emptied(string) == Element("string", << >>)

\* An array: its first string is the new one, the others say nothing any more.
InArray(items, new) ==
    LET strings == {i \in DOMAIN items : items[i].t = "string"} IN
    [i \in DOMAIN items |->
        IF i \notin strings THEN items[i] ELSE IF \E j \in strings : j < i THEN Emptied(items[i]) ELSE new]

WithReplacement(operand, new) == IF operand.t = "string" THEN new ELSE [operand EXCEPT !.v = InArray(@, new)]

ReplacedIf(decoded, operand, text, new) ==
    CASE ~decoded.ok -> {}
      [] decoded.ok /\ decoded.text # text -> {operand}
      [] OTHER -> {WithReplacement(operand, new)}

\* try_to_replace_encoded_text for one operand: {} is an error.
ReplacedWhole(operand, encoding, text, other, default) ==
    IF operand.t \notin {"string", "array"} THEN {operand}
    ELSE ReplacedIf(collect_text(encoding, IF operand.t = "array" THEN operand.v ELSE <<operand>>), operand, text,
                    Element("string", encode_text(encoding, other, default)))

RECURSIVE Replaced(_, _, _), Matches(_, _), ReplacedPart(_, _, _, _, _)

Begins(text, search) == Len(search) <= Len(text) /\ SubSeq(text, 1, Len(search)) = search

\* str::replace and str::matches, from left to right, of a text that is not empty.
Replaced(text, search, other) ==
    IF text = << >> THEN << >>
    ELSE IF Begins(text, search) THEN other \o Replaced(SubSeq(text, Len(search) + 1, Len(text)), search, other)
    ELSE <<Head(text)>> \o Replaced(Tail(text), search, other)

Matches(text, search) ==
    IF text = << >> THEN 0
    ELSE IF Begins(text, search) THEN 1 + Matches(SubSeq(text, Len(search) + 1, Len(text)), search)
    ELSE Matches(Tail(text), search)

\* The operands of all results, with the counts added up; {} if one of them is an error.
Together(results) ==
    LET The(i) == CHOOSE r \in results[i] : TRUE IN
    IF \E i \in DOMAIN results : results[i] = {} THEN {}
    ELSE {[operands |-> [i \in DOMAIN results |-> The(i).operand],
           count |-> FoldLeft(LAMBDA n, i : n + The(i).count, 0, [i \in DOMAIN results |-> i])]}

Kept(operand) == {[operand |-> operand, count |-> 0]}

ReplacedIn(decoded, operand, encoding, search, other, default) ==
    CASE ~decoded.ok -> {}
      [] decoded.ok /\ Matches(decoded.text, search) = 0 -> Kept(operand)
      [] OTHER -> {[operand |-> Element("string", encode_with_fallback(encoding, Replaced(decoded.text, search, other), default)),
                    count |-> Matches(decoded.text, search)]}

\* replace_partial_in_operation for one operand, of an array each string for itself:
\* [operand, count], {} is an error.
ReplacedPart(operand, encoding, search, other, default) ==
    LET Item(e) == IF e.t = "string" THEN ReplacedPart(e, encoding, search, other, default) ELSE Kept(e) IN
    CASE operand.t = "array" ->
            {[operand |-> [operand EXCEPT !.v = r.operands], count |-> r.count] :
                r \in Together([i \in DOMAIN operand.v |-> Item(operand.v[i])])}
      [] operand.t = "string" -> ReplacedIn(Decode(encoding, operand.v), operand, encoding, search, other, default)
      [] OTHER -> Kept(operand)

\* One operand, as asked for by r, of replace_text (with a count of 0) or replace_partial_text.
ReplacedOperand(operand, encoding, r, partial, default) ==
    IF partial THEN ReplacedPart(operand, encoding, r.text, r.other, default)
    ELSE {[operand |-> o, count |-> 0] : o \in ReplacedWhole(operand, encoding, r.text, r.other, default)}

ReplacedOperands(operands, encoding, asked, partial, default) ==
    Together([i \in DOMAIN operands |-> ReplacedOperand(operands[i], encoding, asked, partial, default)])

WithNew(s, o, new) == [s EXCEPT !.operations = Append(@, Operation(o.operator, new.operands)), !.count = @ + new.count]

\* One operation of the loops of replace_text and replace_partial_text; only Tj and TJ are
\* looked at.
ReplaceStep(s, o, encodings, asked, partial, default) ==
    CASE s.failed -> s
      [] o.operator = "Tf" ->
            IF o.operands = << >> \/ Head(o.operands).t # "name" THEN [s EXCEPT !.failed = TRUE]
            ELSE [s EXCEPT !.encoding = IF Selects(Head(o.operands), encodings) THEN encodings[Head(o.operands).v] ELSE NoFont,
                           !.operations = Append(@, o)]
      [] o.operator \in {"Tj", "TJ"} /\ s.encoding # NoFont ->
            Some({WithNew(s, o, new) : new \in ReplacedOperands(o.operands, s.encoding, asked, partial, default)},
                 [s EXCEPT !.failed = TRUE])
      [] OTHER -> [s EXCEPT !.operations = Append(@, o)]

\* The loops: [operations, count], {} is an error.
ReplaceIn(operations, encodings, asked, partial, default) ==
    {[operations |-> end.operations, count |-> end.count] :
        end \in {s \in {FoldLeft(LAMBDA s, o : ReplaceStep(s, o, encodings, asked, partial, default),
                                [encoding |-> NoFont, operations |-> << >>, count |-> 0, failed |-> FALSE], operations)} : ~s.failed}}
===============================================================================
