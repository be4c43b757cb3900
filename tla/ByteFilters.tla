----------------------------- MODULE ByteFilters -----------------------------
(***************************************************************************)
(* The filters lopdf decodes itself (src/src/object.rs,                    *)
(* src/src/filters/png.rs): ASCII85, ASCIIHex, run lengths, the PNG        *)
(* predictors and the TIFF predictor, with the limit on what a filter may  *)
(* put out.  Zlib, LZW and Brotli are libraries.                           *)
(*                                                                         *)
(* Bytes are numbers below Byte (256 in the code), so that a small Byte    *)
(* has all the carries and wraps in reach; ASCII85 digits are below Ascii  *)
(* (85), hexadecimal ones below Hex (16).                                  *)
(***************************************************************************)
EXTENDS Integers, Sequences, SequencesExt

CONSTANTS Byte, Ascii, Hex

\* What the constants are: assumed where the module is instantiated.
AreSizes ==
    /\ Byte \in Nat /\ Byte % 2 = 0 /\ Hex * Hex = Byte
    /\ Ascii <= Byte /\ Ascii * Ascii * Ascii * Ascii * Ascii >= Byte * Byte * Byte * Byte

\* The outcomes of a decoder: the bytes, a failure, or too many bytes.
Ok(out) == [status |-> "ok", out |-> out]
Failed == [status |-> "failed", out |-> << >>]
OverLimit == [status |-> "limit", out |-> << >>]

Unlimited == -1

Exceeds(out, limit) == limit # Unlimited /\ Len(out) > limit

\* The last line of every filter in decode_filters.
Capped(r, limit) == IF r.status = "ok" /\ Exceeds(r.out, limit) THEN OverLimit ELSE r

Repeated(b, n) == [i \in 1 .. n |-> b]

Byte2 == Byte * Byte
Byte4 == Byte2 * Byte2

\* u32::to_be_bytes.
ToBytes(v) == <<v \div (Byte2 * Byte), (v \div Byte2) % Byte, (v \div Byte) % Byte, v % Byte>>

-----------------------------------------------------------------------------
(***************************************************************************)
(* decode_ascii85.  Characters are digits or one of these: "z", a space,   *)
(* an end-of-data mark.                                                    *)
(***************************************************************************)
Zeros == -1
Space == -2
End == -3

\* buffer * 85 + d, {} if it does not fit into 32 bits.
Shifted(buffer, d) == {v \in {buffer * Ascii + d} : v < Byte4}

\* The bytes of a last group of n digits: it is filled up with the highest digit.
\* {} if the value does not fit.
RECURSIVE Padded(_, _)
Padded(buffers, n) ==
    IF n = 5 THEN buffers ELSE Padded(UNION {Shifted(b, Ascii - 1) : b \in buffers}, n + 1)

\* The decoder after one more character.
Ascii85Step(s, ch, limit) ==
    CASE s.status # "ok" -> s
      [] s.status = "ok" /\ Exceeds(s.out, limit) -> [s EXCEPT !.status = "limit"]
      [] s.status = "ok" /\ ~Exceeds(s.out, limit) ->
            CASE ch = Zeros -> IF s.count # 0 THEN [s EXCEPT !.status = "failed"]
                             ELSE [s EXCEPT !.out = @ \o <<0, 0, 0, 0>>]
              [] ch = Space -> s
              [] ch = End -> [s EXCEPT !.status = "end"]
              [] ch \in Nat ->
                    LET v == Shifted(s.buffer, ch) IN
                    IF v = {} THEN [s EXCEPT !.status = "failed"]
                    ELSE LET b == CHOOSE b \in v : TRUE IN
                         IF s.count = 4 THEN [s EXCEPT !.out = @ \o ToBytes(b), !.buffer = 0, !.count = 0]
                         ELSE [s EXCEPT !.buffer = b, !.count = @ + 1]

decode_ascii85(input, limit) ==
    LET start == [status |-> "ok", out |-> << >>, buffer |-> 0, count |-> 0]
        s == FoldLeft(LAMBDA state, ch : Ascii85Step(state, ch, limit), start, input)
        last == Padded({s.buffer}, s.count)
    IN  CASE s.status = "limit" -> OverLimit
          [] s.status = "failed" -> Failed
          [] s.status \in {"ok", "end"} ->
                IF s.count = 0 THEN Capped(Ok(s.out), limit)
                ELSE IF last = {} THEN Failed
                ELSE Capped(Ok(s.out \o SubSeq(ToBytes(CHOOSE b \in last : TRUE), 1, s.count - 1)), limit)

-----------------------------------------------------------------------------
(***************************************************************************)
(* decode_ascii_hex: anything but a digit, a space or ">" is a failure.    *)
(***************************************************************************)
\* A last digit without a partner is the higher one.
LastDigit(high) == IF high = {} THEN << >> ELSE <<(CHOOSE h \in high : TRUE) * Hex>>

HexStep(s, ch, limit) ==
    CASE s.status # "ok" -> s
      [] s.status = "ok" /\ Exceeds(s.out, limit) -> [s EXCEPT !.status = "limit"]
      [] s.status = "ok" /\ ~Exceeds(s.out, limit) ->
            CASE ch = End -> [s EXCEPT !.status = "end"]
              [] ch = Space -> s
              [] ch = Zeros \/ ch >= Hex -> [s EXCEPT !.status = "failed"]
              [] ch \in 0 .. Hex - 1 ->
                    IF s.high = {} THEN [s EXCEPT !.high = {ch}]
                    ELSE [s EXCEPT !.out = Append(@, (CHOOSE h \in s.high : TRUE) * Hex + ch), !.high = {}]

decode_ascii_hex(input, limit) ==
    LET s == FoldLeft(LAMBDA state, ch : HexStep(state, ch, limit),
                      [status |-> "ok", out |-> << >>, high |-> {}], input)
    IN  CASE s.status = "limit" -> OverLimit
          [] s.status = "failed" -> Failed
          [] s.status \in {"ok", "end"} -> Capped(Ok(s.out \o LastDigit(s.high)), limit)

-----------------------------------------------------------------------------
(***************************************************************************)
(* decode_run_length: a length below 128 copies, one above repeats.        *)
(***************************************************************************)
EndOfData == Byte \div 2

RunLength(l) == Byte + 1 - l

RECURSIVE Runs(_, _, _)
Runs(input, out, limit) ==
    IF input = << >> THEN Ok(out)
    ELSE IF Exceeds(out, limit) THEN OverLimit
    ELSE LET l == Head(input)
             rest == Tail(input)
         IN  IF l = EndOfData THEN Ok(out)
             ELSE IF l < EndOfData
             THEN LET n == IF l + 1 <= Len(rest) THEN l + 1 ELSE Len(rest)
                  IN  Runs(SubSeq(rest, n + 1, Len(rest)), out \o SubSeq(rest, 1, n), limit)
             ELSE IF rest = << >> THEN Ok(out)
             ELSE Runs(Tail(rest), out \o Repeated(Head(rest), RunLength(l)), limit)

decode_run_length(input, limit) == Capped(Runs(input, << >>, limit), limit)

-----------------------------------------------------------------------------
(***************************************************************************)
(* png::decode_row and encode_row, of one row under the previous one.      *)
(***************************************************************************)
FilterType == {"None", "Sub", "Up", "Avg", "Paeth"}

Abs(n) == IF n < 0 THEN -n ELSE n

paeth_predict(left, above, upperleft) ==
    LET estimate == left + above - upperleft
        Dist(x) == Abs(estimate - x)
    IN  CASE Dist(left) <= Dist(above) /\ Dist(left) <= Dist(upperleft) -> left
          [] Dist(left) > Dist(above) /\ Dist(above) <= Dist(upperleft) -> above
          [] OTHER -> upperleft

\* What a filter expects at i: of the byte one pixel to the left in the row as it
\* was before filtering (raw), and of the previous row.
Predicted(filter, bpp, previous, raw, i) ==
    LET Left(row) == IF i > bpp THEN row[i - bpp] ELSE 0 IN
    CASE filter = "None" -> 0
      [] filter = "Sub" -> Left(raw)
      [] filter = "Up" -> previous[i]
      [] filter = "Avg" -> (Left(raw) + previous[i]) \div 2
      [] filter = "Paeth" -> paeth_predict(Left(raw), previous[i], Left(previous))

\* From left to right: what is to the left has been decoded before it is used.
decode_row(filter, bpp, previous, current) ==
    FoldLeftDomain(LAMBDA row, i : [row EXCEPT ![i] = (@ + Predicted(filter, bpp, previous, row, i)) % Byte],
                   current, current)

\* From right to left: what is to the left has not been encoded yet.
encode_row(method, bpp, previous, current) ==
    FoldRightDomain(LAMBDA i, row : [row EXCEPT ![i] = (@ + Byte - Predicted(method, bpp, previous, row, i)) % Byte],
                    current, current)

RECURSIVE FrameFrom(_, _, _, _)

\* decode_frame: rows of a filter type and bytes; the last one must be whole.
FrameFrom(rows, bpp, previous, out) ==
    IF rows = << >> THEN Ok(out)
    ELSE IF Head(rows).filter \notin FilterType \/ Len(Head(rows).bytes) # Len(previous) THEN Failed
    ELSE LET row == decode_row(Head(rows).filter, bpp, previous, Head(rows).bytes)
         IN  FrameFrom(Tail(rows), bpp, row, out \o row)

decode_frame(rows, bpp, bytes_per_row) == FrameFrom(rows, bpp, Repeated(0, bytes_per_row), << >>)

-----------------------------------------------------------------------------
(***************************************************************************)
(* reverse_tiff_predictor2: samples of the same colour add up along a row, *)
(* modulo the range of a sample.  A sample is a byte, two bytes, or one of *)
(* the two parts a byte is packed with (the code has 2, 4 or 8 to a byte). *)
(***************************************************************************)
Summed(samples, colors, range) ==
    FoldLeftDomain(LAMBDA row, i : IF i <= colors THEN row ELSE [row EXCEPT ![i] = (@ + row[i - colors]) % range],
                   samples, samples)

\* The parts of a row of bytes, two to a byte, the higher part first.
Unpacked(row) == [k \in 1 .. 2 * Len(row) |->
                     IF k % 2 = 1 THEN row[(k + 1) \div 2] \div Hex ELSE row[k \div 2] % Hex]

Packed(parts) == [i \in 1 .. Len(parts) \div 2 |-> parts[2 * i - 1] * Hex + parts[2 * i]]

\* A slip: the unused parts of the last byte are not kept.
Padding_Zero(parts, samples) == Repeated(0, Len(parts) - samples)

Padding(parts, samples) == SubSeq(parts, samples + 1, Len(parts))

reverse_tiff_predictor2_subbyte(row, columns, colors) ==
    LET parts == Unpacked(row)
        samples == IF columns * colors <= Len(parts) THEN columns * colors ELSE Len(parts)
    IN  Packed(Summed(SubSeq(parts, 1, samples), colors, Hex) \o Padding(parts, samples))

\* 16 bits: pairs of bytes; an odd byte at the end stays.
Summed16(row, colors) ==
    LET n == Len(row) \div 2
        sums == Summed([s \in 1 .. n |-> row[2 * s - 1] * Byte + row[2 * s]], colors, Byte2)
    IN  [i \in DOMAIN row |-> IF i > 2 * n THEN row[i]
                              ELSE IF i % 2 = 1 THEN sums[(i + 1) \div 2] \div Byte ELSE sums[i \div 2] % Byte]

\* The rows of this many bytes; the last one may be shorter.
Rows(data, stride) ==
    [r \in 1 .. (Len(data) + stride - 1) \div stride |->
        SubSeq(data, (r - 1) * stride + 1, IF r * stride <= Len(data) THEN r * stride ELSE Len(data))]

reverse_tiff_predictor2(data, columns, colors, depth) ==
    LET samples == columns * colors
        Each(stride, Row(_)) == FlattenSeq([r \in DOMAIN Rows(data, stride) |-> Row(Rows(data, stride)[r])])
    IN  CASE depth = "byte" -> Each(samples, LAMBDA row : Summed(row, colors, Byte))
          [] depth = "two bytes" -> Each(2 * samples, LAMBDA row : Summed16(row, colors))
          [] depth = "part" -> Each((samples + 1) \div 2, LAMBDA row : reverse_tiff_predictor2_subbyte(row, columns, colors))
=============================================================================
