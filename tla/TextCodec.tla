------------------------------- MODULE TextCodec ------------------------------
(***************************************************************************)
(* Text as bytes (src/src/encodings/mod.rs, encodings/differences.rs,      *)
(* encodings/cmap.rs, parser/cmap_parser.rs,                               *)
(* common_data_structures/mod.rs).                                         *)
(*                                                                         *)
(* Text is a sequence of characters, which are numbers below Unit, each    *)
(* one UTF-16 unit; bytes are numbers below Byte (256 in the code).        *)
(* An encoding is a record whose kind says how it is used.                 *)
(***************************************************************************)
EXTENDS Integers, Sequences, FiniteSets, FiniteSetsExt, SequencesExt

CONSTANTS Byte, Unit,
          Replacement,  \* REPLACEMENT_CHAR
          Standard,     \* [byte -> character]: a one-byte set, which may have gaps
          PdfDoc        \* the same: PDF_DOC_ENCODING

\* What the constants are: assumed where the module is instantiated.
AreUnits == Byte \in Nat \ {0} /\ Unit \in Nat \ {0} /\ Replacement \in 0 .. Unit - 1

Put(f, k, v) == [x \in DOMAIN f \cup {k} |-> IF x = k THEN v ELSE f[x]]

-----------------------------------------------------------------------------
(***************************************************************************)
(* One-byte encodings: bytes and characters that are not in the set are    *)
(* left out.                                                               *)
(***************************************************************************)
bytes_to_string(set, bytes) ==
    FlattenSeq([i \in DOMAIN bytes |-> IF bytes[i] \in DOMAIN set THEN <<set[bytes[i]]>> ELSE << >>])

ByteOf(set, c) == {b \in DOMAIN set : set[b] = c /\ \A a \in DOMAIN set : set[a] = c => b <= a}

write_to_bytes(set, text) == FlattenSeq([i \in DOMAIN text |-> SetToSeq(ByteOf(set, text[i]))])

-----------------------------------------------------------------------------
(***************************************************************************)
(* text_string and decode_text_string, of characters that are ASCII below  *)
(* Byte and wide above.  A string is its byte order mark and what follows, *)
(* UTF-8 given as the characters it stands for.                            *)
(***************************************************************************)
IsAscii(text) == \A i \in DOMAIN text : text[i] < Byte

text_string(text) ==
    IF IsAscii(text) THEN [bom |-> "none", bytes |-> text] ELSE [bom |-> "UTF-16", bytes |-> text]

WithoutMark(bytes) == bytes_to_string(PdfDoc, bytes)

ByteOrderMark == 65279  \* U+FEFF

\* The mark of UTF-16 is taken off, that of UTF-8 is read as a character.
decode_text_string(string) ==
    CASE string.bom = "UTF-16" -> string.bytes
      [] string.bom = "UTF-8" -> <<ByteOrderMark>> \o string.bytes
      [] string.bom = "none" -> WithoutMark(string.bytes)

-----------------------------------------------------------------------------
(***************************************************************************)
(* Differences from a base encoding: integers set the code, names take one *)
(* code after the other.  {} is an error.                                  *)
(***************************************************************************)
differences(base, array) ==
    LET Step(s, item) ==
            CASE item.type = "Integer" -> [s EXCEPT !.ok = @ /\ item.value \in 0 .. Byte - 1, !.code = item.value % Byte]
              [] item.type = "Name" ->
                    [s EXCEPT !.map = Put(@, s.code, item.value), !.inverse = Put(@, item.value, s.code),
                              !.code = (@ + 1) % Byte]
              [] OTHER -> [s EXCEPT !.ok = FALSE]
        none == [x \in {} |-> 0]
        all == FoldLeft(Step, [ok |-> TRUE, code |-> 0, map |-> none, inverse |-> none], array)
    IN  IF all.ok THEN {[kind |-> "Differences", base |-> base, map |-> all.map, inverse |-> all.inverse]} ELSE {}

-----------------------------------------------------------------------------
(***************************************************************************)
(* ToUnicode CMaps.  RangeMap (a library): ranges that do not overlap, and *)
(* neighbours with the same target are one range.                          *)
(***************************************************************************)
CodeRange(lo, hi, target) == [lo |-> lo, hi |-> hi, target |-> target]

Cut(r, lo, hi) ==
    (IF r.lo < lo THEN {CodeRange(r.lo, IF r.hi < lo THEN r.hi ELSE lo - 1, r.target)} ELSE {})
    \cup (IF r.hi > hi THEN {CodeRange(IF r.lo > hi THEN r.lo ELSE hi + 1, r.hi, r.target)} ELSE {})

InsertRange(ranges, lo, hi, target) ==
    LET others == UNION {Cut(r, lo, hi) : r \in ranges}
        joined == {r \in others : r.target = target /\ (r.hi + 1 = lo \/ hi + 1 = r.lo)}
    IN  (others \ joined)
        \cup {CodeRange(Min({lo} \cup {r.lo : r \in joined}), Max({hi} \cup {r.hi : r \in joined}), target)}

\* A single unit is kept as its distance from the code, "so that consecutive ranges
\* can be mapped to the same value in the range map".
Target(units, lo) ==
    IF Len(units) = 1 THEN [type |-> "UTF16CodePoint", offset |-> units[1] - lo]
    ELSE [type |-> "HexString", units |-> units]

CodeLengths == 1 .. 4

EmptyCMap == [len \in CodeLengths |-> {}]

\* put_char and put: one mapping [lo, hi, len, targets] of a bfchar or bfrange
\* section, {} for a range that is upside down or has no target.
PutMapping(cmap, m) ==
    IF m.hi < m.lo \/ m.targets = << >> THEN {}
    ELSE LET target == IF Len(m.targets) = 1 THEN Target(m.targets[1], m.lo)
                       ELSE [type |-> "Array", strings |-> m.targets]
         IN  {[cmap EXCEPT ![m.len] = InsertRange(@, m.lo, m.hi, target)]}

\* from_sections: the mappings one after the other.
from_sections(mappings) ==
    FoldLeft(LAMBDA cmaps, m : UNION {PutMapping(c, m) : c \in cmaps}, {EmptyCMap}, mappings)

Raised(units, n) == [units EXCEPT ![Len(units)] = (@ + n) % Unit]

\* What a code in a range stands for.
Meaning(r, code) ==
    CASE r.target.type = "UTF16CodePoint" -> <<(code + r.target.offset) % Unit>>
      [] r.target.type = "HexString" -> Raised(r.target.units, code - r.lo)
      [] r.target.type = "Array" ->
            IF code - r.lo < Len(r.target.strings) THEN r.target.strings[code - r.lo + 1] ELSE <<Replacement>>

\* get: {} for a code that no range covers.
get(cmap, code, len) == {Meaning(r, code) : r \in {r \in cmap[len] : r.lo <= code /\ code <= r.hi}}

OrReplacement(meanings) == IF meanings = {} THEN <<Replacement>> ELSE CHOOSE m \in meanings : TRUE

get_or_replacement_char(cmap, code, len) == OrReplacement(get(cmap, code, len))

\* The reverse map: the codes that stand for a sequence of units, of which the
\* shortest and then the smallest is the first.
Sources(cmap, units) ==
    {s \in UNION {{[len |-> len, code |-> code] : code \in UNION {r.lo .. r.hi : r \in cmap[len]}} : len \in CodeLengths} :
        \E r \in cmap[s.len] :
            /\ r.lo <= s.code /\ s.code <= r.hi
            /\ r.target.type = "Array" => s.code - r.lo < Len(r.target.strings)
            /\ Meaning(r, s.code) = units}

FirstSource(cmap, units) ==
    LET all == Sources(cmap, units) IN
    {s \in all : \A t \in all : s.len < t.len \/ (s.len = t.len /\ s.code <= t.code)}

RECURSIVE ToBytes(_, _)

\* The bytes of a code of so many bytes, the highest first.
ToBytes(code, len) == IF len = 0 THEN << >> ELSE Append(ToBytes(code \div Byte, len - 1), code % Byte)

\* write_to_bytes: one character at a time, those without a code are left out.
CMapBytes(cmap, text) ==
    FlattenSeq([i \in DOMAIN text |->
        FlattenSeq(SetToSeq({ToBytes(s.code, s.len) : s \in FirstSource(cmap, <<text[i]>>)}))])

\* A slip: the code that was begun goes on after one that was found.
CodeAfter_Kept(found, code) == code

CodeAfter(found, code) == IF found THEN 0 ELSE code

WithByte(s, code, found) ==
    [out |-> s.out \o (IF found = {} THEN << >> ELSE CHOOSE m \in found : TRUE),
     code |-> CodeAfter(found # {}, code), len |-> IF found = {} THEN s.len + 1 ELSE 0]

GivenUp(cmap, s) == [out |-> s.out \o get_or_replacement_char(cmap, s.code, s.len), code |-> 0, len |-> 0]

TakeByte(cmap, s, byte) == WithByte(s, s.code * Byte + byte, get(cmap, s.code * Byte + byte, s.len + 1))

\* write_to_string: bytes are added to a code until there is one of that length; four
\* bytes that are none are a replacement, and so are the last ones.
CMapText(cmap, bytes) ==
    LET end == FoldLeft(LAMBDA s, byte : TakeByte(cmap, IF s.len = 4 THEN GivenUp(cmap, s) ELSE s, byte),
                        [out |-> << >>, code |-> 0, len |-> 0], bytes)
    IN  IF end.len > 0 THEN GivenUp(cmap, end).out ELSE end.out

-----------------------------------------------------------------------------
(***************************************************************************)
(* Encoding::write_to_string and write_to_bytes.                           *)
(***************************************************************************)
RECURSIVE write_to_string(_, _), EncodedBytes(_, _)

write_to_string(encoding, bytes) ==
    CASE encoding.kind = "OneByte" -> bytes_to_string(encoding.set, bytes)
      [] encoding.kind = "UnicodeMap" -> CMapText(encoding.cmap, bytes)
      [] encoding.kind = "Differences" ->
            FlattenSeq([i \in DOMAIN bytes |->
                IF bytes[i] \in DOMAIN encoding.map THEN <<encoding.map[bytes[i]]>>
                ELSE write_to_string(encoding.base, <<bytes[i]>>)])

EncodedBytes(encoding, text) ==
    CASE encoding.kind = "OneByte" -> write_to_bytes(encoding.set, text)
      [] encoding.kind = "Simple" -> text
      [] encoding.kind = "UnicodeMap" -> CMapBytes(encoding.cmap, text)
      [] encoding.kind = "Differences" ->
            FlattenSeq([i \in DOMAIN text |->
                IF text[i] \in DOMAIN encoding.inverse THEN <<encoding.inverse[text[i]]>>
                ELSE EncodedBytes(encoding.base, <<text[i]>>)])
===============================================================================
