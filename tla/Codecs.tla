-------------------------------- MODULE Codecs --------------------------------
(***************************************************************************)
(* What is written is read back: objects, streams, cross-references,       *)
(* filters, text.  Syntax, XrefCodec, ByteFilters and TextCodec say how    *)
(* lopdf writes and reads; here an input of some kind grows by one element *)
(* at a time, and the invariants compare with it what comes back.          *)
(***************************************************************************)
EXTENDS Syntax, XrefCodec

CONSTANTS
    Byte, Ascii, Hex,                     \* see ByteFilters
    Unit, Replacement, Standard, PdfDoc,  \* see TextCodec
    Limit,        \* bound: how long an input of each kind gets
    StringChars,  \* what strings are made of
    NameChars,    \* what names are made of
    StreamChars,  \* what the contents of streams are made of
    Leaves,       \* objects that hold no others
    EntrySet,     \* entries of a cross-reference
    Encoded,      \* characters of ASCII85 and hexadecimal data
    Mappings,     \* mappings of a CMap
    DiffItems,    \* items of /Differences
    MaxReconstructed, \* see MarkerScan
    Bodies        \* what is between the header and the end of an object of a buffer

Scan == INSTANCE MarkerScan
Filters == INSTANCE ByteFilters
Text == INSTANCE TextCodec

ASSUME CodecsAssumption == Filters!AreSizes /\ Text!AreUnits /\ MaxReconstructed \in Nat \ {0}

VARIABLES kind, input

vars == <<kind, input>>

Kinds == DOMAIN Limit

-----------------------------------------------------------------------------
RECURSIVE Depth(_), AsRead(_), TooLarge(_)

Children(o) ==
    CASE o.type = "Array" -> ToSet(o.items)
      [] o.type = "Dictionary" -> {e.value : e \in ToSet(o.entries)}
      [] OTHER -> {}

\* How many arrays and dictionaries are in each other.
Depth(o) == IF o.type \in {"Array", "Dictionary"} THEN 1 + Max({0} \cup {Depth(c) : c \in Children(o)}) ELSE 0

\* A Real without a fraction comes back as an Integer.
AsRead(o) ==
    CASE o.type = "Array" -> [o EXCEPT !.items = [i \in DOMAIN @ |-> AsRead(@[i])]]
      [] o.type = "Dictionary" -> [o EXCEPT !.entries = [i \in DOMAIN @ |-> [@[i] EXCEPT !.value = AsRead(@)]]]
      [] o.type = "Real" /\ ~o.fraction -> Integer
      [] OTHER -> o

\* A Real without a fraction that does not fit into 64 bits.
TooLarge(o) == (o.type = "Real" /\ ~o.fraction /\ o.size = "large") \/ \E c \in Children(o) : TooLarge(c)

\* How deep the parentheses of a text are that are not escaped.
Nesting(text) ==
    LET plain == DOMAIN text \ EscapeIndices(text)
        Among(c, n) == Cardinality({i \in plain : i <= n /\ text[i] = c})
    IN  Max({0} \cup {Among("(", n) - Among(")", n) : n \in DOMAIN text})

-----------------------------------------------------------------------------
Init ==
    /\ kind \in Kinds
    /\ CASE kind = "object" -> input \in Leaves
         [] kind = "entries" -> input = NoEntries
         [] OTHER -> input = << >>

Longer(k, S) == kind = k /\ Len(input) < Limit[k] /\ (\E x \in S : input' = Append(input, x)) /\ UNCHANGED kind

StringGrows == Longer("string", StringChars)
NameGrows == Longer("name", NameChars)
StreamGrows == Longer("stream", StreamChars)
BytesGrow == Longer("bytes", 0 .. Byte - 1)
RowGrows == Longer("row", (0 .. Byte - 1) \X (0 .. Byte - 1))
EncodedGrows == Longer("encoded", Encoded)
CMapGrows == Longer("cmap", Mappings)
DifferencesGrow == Longer("differences", DiffItems)
TextGrows == Longer("text", 0 .. Unit - 1)
BufferGrows == Longer("buffer", {"2", "9"} \X Bodies)

ArrayOf(items) == [type |-> "Array", items |-> items]
DictionaryOf(value) == [type |-> "Dictionary", entries |-> <<[key |-> <<"F">>, value |-> value]>>]

\* An object is put into an array, with neighbours or alone, or into a dictionary.
ObjectGrows ==
    /\ kind = "object" /\ Depth(input) <= Limit["object"]
    /\ \/ input' \in {ArrayOf(<<input>>), DictionaryOf(input)}
       \/ \E leaf \in Leaves : Depth(input) < Limit["object"] /\ input' \in {ArrayOf(<<leaf, input>>), ArrayOf(<<input, leaf>>)}
    /\ UNCHANGED kind

EntriesGrow ==
    /\ kind = "entries"
    /\ \E id \in 1 .. Limit["entries"], e \in EntrySet : id \notin DOMAIN input /\ input' = Insert(input, id, e)
    /\ UNCHANGED kind

Next ==
    \/ StringGrows \/ NameGrows \/ ObjectGrows \/ StreamGrows \/ EntriesGrow
    \/ BytesGrow \/ RowGrows \/ EncodedGrows
    \/ CMapGrows \/ DifferencesGrow \/ TextGrows
    \/ BufferGrows

Spec == Init /\ [][Next]_vars

-----------------------------------------------------------------------------
(***************************************************************************)
(* Objects and streams.                                                    *)
(***************************************************************************)
\* Strings, names and objects written by Writer::write_object are the objects
\* parser::direct_object reads, except for what the parser refuses: parentheses or
\* containers nested too deep, and whole Reals beyond 64 bits.  Whatever stands next
\* to a value in an array, a dictionary or the file does not change how it is read, and
\* an object is not read in the place of another one.
ObjectsReadBack ==
    /\ kind = "string" =>
          /\ literal_string(write_string(input)) = IF Nesting(input) <= MaxBracket THEN Parsed(input, << >>) ELSE {}
          /\ hexadecimal_string(write_hexadecimal(input)) = Parsed(input, << >>)
    /\ kind = "name" => name(write_name(input)) = Parsed(input, << >>)
    /\ kind = "object" =>
          LET text == write_indirect_object("7 0", input) \o write_indirect_object("8 0", Integer) IN
          /\ IF Depth(input) > MaxDepth \/ TooLarge(input)
             THEN object(write_object(input)) \in {{}, Fatal} /\ indirect_object(text, {"7 0"}) = {}
             ELSE object(write_object(input)) = Parsed(AsRead(input), << >>) /\ indirect_object(text, {"7 0"}) = {AsRead(input)}
          /\ indirect_object(text, {"8 0"}) = {}

\* What follows an object in the file: another stream.
Neighbour == write_stream(<<"F">>)

\* The bytes of a stream, read by parser::stream with whatever /Length, are those that
\* were written, to the next end of line if the Length is wrong; where they cannot
\* be told, there is an error.  Only a wrong Length that happens to point at
\* another "endstream" is believed; recovery never goes past the object's bound.
StreamsReadBack ==
    kind = "stream" =>
        LET text == write_stream(input) \o Neighbour
            bound == Len(write_stream(input))
            \* The line end before "endstream" may have taken a CR of the content.
            trimmed == {input, IF input # << >> /\ Last(input) = "CR" THEN Front(input) ELSE input}
            ambiguous == \E n \in DOMAIN input : IsBoundary(text, n)
        IN  /\ \A strict \in BOOLEAN : stream(text, Len(input), bound, strict) = {input}
            /\ \A length \in 0 .. Len(text) + 1 :
                  ~Believed(text, length) =>
                      /\ stream(text, length, bound, TRUE) = {}
                      /\ stream(text, length, bound, FALSE) \subseteq trimmed
                      /\ stream(text, length, bound, FALSE) = {} <=> ambiguous

-----------------------------------------------------------------------------
(***************************************************************************)
(* Cross-references.                                                       *)
(***************************************************************************)
InUse == {"Normal", "Compressed"}

Only(entries, types) == LET ids == {id \in DOMAIN entries : entries[id].type \in types} IN [id \in ids |-> entries[id]]

\* An object in a buffer, with the number and the body given; the next one is indented.
InBuffer(o) == <<o[1], "SP", "0", "SP", "obj", "LF">> \o o[2].text \o <<"LF", "endobj", "LF", "SP">>

Whole(objects) == FlattenSeq([i \in DOMAIN objects |-> InBuffer(objects[i])])

\* Where the headers of the objects are.
Headers(objects) ==
    [i \in DOMAIN objects |->
        [offset |-> Len(Whole(SubSeq(objects, 1, i - 1))) + 1, id |-> [number |-> Scan!Value(<<objects[i][1]>>), generation |-> 0]]]

\* Whether the scan loses its way in an object: where a string holds what looks like a
\* header, or like the beginning of a stream, on a line of its own; where a stream has
\* no end and no Length that says how long it is; and where it takes the end of
\* a later stream for that of this one.
Misleads(objects, i) ==
    \/ objects[i][2].kind \in {"quoting", "unbounded"}
    \/ objects[i][2].kind = "bounded" /\ \E j \in i + 1 .. Len(objects) : objects[j][2].kind = "whole"

\* A cross-reference table, written by Writer::write_xref, is read with all entries in
\* use at their numbers, whatever numbers are missing between them; a stream with
\* the compressed ones too.  A stream as narrow as XrefStreamBuilder makes it loses
\* nothing of any field, and one that has no /Index or leaves out the type, because
\* it is 1 throughout, or the generation, because it is 0, is understood.
\* Where there is no cross-reference, the scan finds the header of every object, and
\* nothing else, up to its cap: not in payloads, whose end may be missing, and not
\* behind something on a line; and up to the first object that misleads it whatever follows.
EntriesReadBack ==
    /\ kind = "buffer" =>
          LET found == Scan!scan_object_markers(Whole(input))
              misleading == {i \in DOMAIN input : Misleads(input, i)}
              clear == Headers(SubSeq(input, 1, Min(misleading \cup {Len(input)})))
              usable == SelectSeq(clear, LAMBDA h : h.id.number <= MaxReconstructed)
              expected == SubSeq(usable, 1, Min({Len(usable), MaxReconstructed}))
          IN  IsPrefix(expected, found) /\ (misleading = {} => found = expected)
    /\ kind = "entries" =>
        LET ids == DOMAIN input
            whole == <<Free>> \o [id \in 1 .. Cardinality(ids) |-> input[id]]
            Read(w, all) == decode_xref_stream(PlainStream(all, w)) = {Only([i \in 0 .. Len(all) - 1 |-> all[i + 1]], InUse)}
        IN  /\ xref(write_xref(input)) = {Only(input, {"Normal"})}
            /\ decode_xref_stream(create_xref_steam(input)) = {Only(input, InUse)}
            /\ decode_xref_stream(to_stream_object(input)) = {Only(input, InUse)}
            /\ ids = 1 .. Cardinality(ids) =>
                  /\ Read(<<1, 3, 2>>, whole)
                  /\ (\A id \in ids : Fields(id, input[id])[3] = 0) => Read(<<1, 3, 0>>, whole)
                  /\ ids # {} /\ (\A id \in ids : input[id].type = "Normal") => Read(<<0, 3, 2>>, Tail(whole))

-----------------------------------------------------------------------------
(***************************************************************************)
(* Filters.                                                                *)
(***************************************************************************)
RECURSIVE Number4(_), Ascii85Of(_), RunsOf(_)

Number4(bytes) == IF bytes = << >> THEN 0 ELSE Number4(Front(bytes)) * Byte + Last(bytes)

\* The reference encoders: what the format says of these bytes.
Ascii85Of(bytes) ==
    LET n == IF Len(bytes) < 4 THEN Len(bytes) ELSE 4
        group == SubSeq(bytes, 1, n) \o [i \in 1 .. 4 - n |-> 0]
        digits == [i \in 1 .. 5 |-> (Number4(group) \div Ascii ^ (5 - i)) % Ascii]
    IN  IF bytes = << >> THEN <<Filters!End>>
        ELSE (IF n = 4 /\ Number4(group) = 0 THEN <<Filters!Zeros>> ELSE SubSeq(digits, 1, n + 1))
             \o Ascii85Of(SubSeq(bytes, n + 1, Len(bytes)))

HexOf(bytes) == FlattenSeq([i \in DOMAIN bytes |-> <<bytes[i] \div Hex, Filters!Space, bytes[i] % Hex>>]) \o <<Filters!End>>

RunsOf(bytes) ==
    CASE bytes = << >> -> <<Filters!EndOfData>>
      [] Len(bytes) >= 2 /\ bytes[1] = bytes[2] -> <<Byte - 1, bytes[1]>> \o RunsOf(SubSeq(bytes, 3, Len(bytes)))
      [] Len(bytes) >= 2 /\ bytes[1] # bytes[2] -> <<1>> \o SubSeq(bytes, 1, 2) \o RunsOf(SubSeq(bytes, 3, Len(bytes)))
      [] OTHER -> <<0>> \o bytes \o RunsOf(<< >>)

\* Each sample less the one of the same colour before it, row by row.
Differenced(samples, colors, range) ==
    [i \in DOMAIN samples |-> IF i <= colors THEN samples[i] ELSE (samples[i] + range - samples[i - colors]) % range]

TiffOf(bytes, columns, colors, depth) ==
    LET samples == columns * colors
        stride == IF depth = "byte" THEN samples ELSE IF depth = "part" THEN (samples + 1) \div 2 ELSE 2 * samples
        Row(row) ==
            LET parts == Filters!Unpacked(row)
                used == Min({samples, Len(parts)})
                pairs == [i \in 1 .. Len(row) \div 2 |-> row[2 * i - 1] * Byte + row[2 * i]]
                diffs == Differenced(pairs, colors, Byte * Byte)
            IN  CASE depth = "byte" -> Differenced(row, colors, Byte)
                  [] depth = "part" -> Filters!Packed(Differenced(SubSeq(parts, 1, used), colors, Hex)
                                                      \o SubSeq(parts, used + 1, Len(parts)))
                  [] depth = "two bytes" -> FlattenSeq([i \in DOMAIN diffs |-> <<diffs[i] \div Byte, diffs[i] % Byte>>])
                                            \o SubSeq(row, 2 * Len(pairs) + 1, Len(row))
        rows == Filters!Rows(bytes, stride)
    IN  FlattenSeq([r \in DOMAIN rows |-> Row(rows[r])])

\* Every filter gives back what was encoded, whatever bytes carry or wrap: PNG rows
\* as encode_row makes them, one under the other; TIFF rows, of bytes, of pairs
\* or of parts of bytes, with some left over at the end; ASCII85 groups that are whole or not.
\* With a limit a filter puts out what it does without one, or says that this was too
\* much, and it says so exactly when it is; ASCII85 groups that mean different bytes
\* are different, so none is read that does not fit into 32 bits.
FiltersExact ==
    /\ kind = "bytes" =>
          /\ Filters!decode_ascii85(Ascii85Of(input), Filters!Unlimited) = Filters!Ok(input)
          /\ Filters!decode_ascii_hex(HexOf(input), Filters!Unlimited) = Filters!Ok(input)
          /\ Filters!decode_run_length(RunsOf(input), Filters!Unlimited) = Filters!Ok(input)
          /\ \A columns, colors \in 1 .. 3, depth \in {"byte", "two bytes", "part"} :
                Filters!reverse_tiff_predictor2(TiffOf(input, columns, colors, depth), columns, colors, depth) = input
    /\ kind = "row" =>
          LET previous == [i \in DOMAIN input |-> input[i][1]]
              current == [i \in DOMAIN input |-> input[i][2]]
          IN  \A f \in Filters!FilterType, bpp \in 1 .. 2 :
                 LET rows == <<[filter |-> "Sub", bytes |-> Filters!encode_row("Sub", bpp, previous, previous)],
                               [filter |-> f, bytes |-> Filters!encode_row(f, bpp, previous, current)]>>
                 IN  Filters!decode_frame(rows, bpp, Len(input)) = Filters!Ok(previous \o current)
    /\ kind = "encoded" =>
          \A limit \in 0 .. 4 :
              LET Exact(whole, limited) ==
                      \/ whole.status = "ok" /\ Len(whole.out) <= limit /\ limited = whole
                      \/ whole.status = "ok" /\ Len(whole.out) > limit /\ limited = Filters!OverLimit
                      \/ whole.status = "failed" /\ limited.status \in {"failed", "limit"}
              IN  /\ Exact(Filters!decode_ascii85(input, Filters!Unlimited), Filters!decode_ascii85(input, limit))
                  /\ Exact(Filters!decode_ascii_hex(input, Filters!Unlimited), Filters!decode_ascii_hex(input, limit))
    /\ kind = "bytes" =>
          \A limit \in 0 .. 4 :
              LET whole == Filters!decode_run_length(input, Filters!Unlimited) IN
              Filters!decode_run_length(input, limit) = IF Len(whole.out) > limit THEN Filters!OverLimit ELSE whole
    /\ kind = "encoded" /\ Len(input) = 5 /\ (\A i \in 1 .. 5 : input[i] >= 0) =>
          LET whole == Filters!decode_ascii85(input, Filters!Unlimited) IN
          whole.status = "ok" /\ whole.out # <<0, 0, 0, 0>> => SubSeq(Ascii85Of(whole.out), 1, 5) = input

-----------------------------------------------------------------------------
(***************************************************************************)
(* Text.                                                                   *)
(***************************************************************************)
Base == [kind |-> "OneByte", set |-> Standard]

\* The code /Differences give the name at i: the last number before it, and one more for
\* each name between them.
CodeAt(items, i) ==
    LET n == Max({0} \cup {j \in 1 .. i : items[j].type = "Integer"}) IN
    ((IF n = 0 THEN 0 ELSE items[n].value) + i - n - 1) % Byte

\* The characters that are given to a code one after the other.
GivenTo(items, code) ==
    (IF code \in DOMAIN Standard THEN <<Standard[code]>> ELSE << >>)
    \o SelectSeq([i \in DOMAIN items |-> IF items[i].type = "Name" /\ CodeAt(items, i) = code THEN items[i].value ELSE -1],
                 LAMBDA c : c # -1)

\* The mappings whose codes no shorter mapped code is the front of.
PrefixFree(cmap) ==
    \A r, s \in UNION {{[len |-> len, code |-> c] : c \in UNION {g.lo .. g.hi : g \in cmap[len]}} : len \in 1 .. 4} :
        r.len < s.len => SubSeq(Text!ToBytes(s.code, s.len), 1, r.len) # Text!ToBytes(r.code, r.len)

\* What the last mapping that covers a code says, for mappings to single units.
Mapped(mappings, code, len) ==
    LET covering == {i \in DOMAIN mappings :
                        mappings[i].len = len /\ mappings[i].lo <= code /\ code <= mappings[i].hi}
        m == mappings[Max(covering)]
    IN  IF covering = {} THEN {} ELSE {<<(m.targets[1][1] + code - m.lo) % Unit>>}

\* Text an encoding can express is read back as it was.  Through a ToUnicode map, by
\* looking up codes in one direction and characters in the other, if no code is the
\* front of another; codes of single units mean what their last mapping says, where
\* ranges were joined or cut too.  Through /Differences, where a code means the last
\* character given to it, if no code of the character was given to another.  As a
\* text string, if the ASCII characters are those of PDFDocEncoding.
TextReadsBack ==
    /\ kind = "cmap" =>
          \A cmap \in Text!from_sections(input) :
              LET map == [kind |-> "UnicodeMap", cmap |-> cmap]
                  known == {c \in 0 .. Unit - 1 : Text!FirstSource(cmap, <<c>>) # {}}
                  single == \A i \in DOMAIN input : Len(input[i].targets) = 1 /\ Len(input[i].targets[1]) = 1
              IN  /\ single => \A code \in 0 .. Byte * Byte - 1, len \in 1 .. 2 :
                                  Text!get(cmap, code, len) = Mapped(input, code, len)
                  /\ PrefixFree(cmap) =>
                      \A c, d \in known :
                          Text!write_to_string(map, Text!EncodedBytes(map, <<c, d>>)) = <<c, d>>
    /\ kind = "differences" =>
          \A map \in Text!differences(Base, input) :
              \A c \in 0 .. Unit - 1 :
                  LET bytes == Text!EncodedBytes(map, <<c>>)
                      given == {code \in 0 .. Byte - 1 : c \in ToSet(GivenTo(input, code))}
                      codes == {code \in given : Last(GivenTo(input, code)) = c}
                  IN  /\ \A code \in codes : Text!write_to_string(map, <<code>>) = <<c>>
                      /\ codes # {} /\ codes = given => bytes # << >> /\ bytes[1] \in codes
    /\ kind = "text" =>
          \/ Text!decode_text_string(Text!text_string(input)) = input
          \/ \E i \in DOMAIN input : PdfDoc[input[i]] # input[i]
===============================================================================
