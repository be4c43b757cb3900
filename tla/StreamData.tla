------------------------------ MODULE StreamData ------------------------------
(***************************************************************************)
(* Streams and their filters (src/src/object.rs).  Data are elements,      *)
(* each of the size of a byte, in layers: what a writer wrapped around     *)
(* them, the outermost first.  What a filter does to bytes is in           *)
(* ByteFilters; here a filter takes its own layer off, or meets data that  *)
(* are not its own.                                                        *)
(***************************************************************************)
EXTENDS Integers, Sequences, SequencesExt

CONSTANTS
    Packed,    \* the size of compressed data, whatever they are
    Overhead,  \* what /Filter /FlateDecode takes in the dictionary (19 in the code)
    JpegData   \* the data of a JPEG image

ASSUME StreamDataAssumption == Packed \in Nat \ {0} /\ Overhead \in Nat

Unlimited == -1

Known == {"FlateDecode", "BrotliDecode", "LZWDecode", "ASCII85Decode", "ASCIIHexDecode", "RunLengthDecode"}

\* Filters that give as much of damaged data as they can decode, and no error.
Lenient == {"FlateDecode", "LZWDecode"}

Plain(tokens) == [layers |-> << >>, tokens |-> tokens]

Wrapped(layer, data) == [data EXCEPT !.layers = <<layer>> \o @]

\* A predictor adds a byte to its row; text forms of bytes are twice as long.
Size(data) ==
    FoldLeft(LAMBDA n, layer : CASE layer = "Predictor" -> n + 1
                                 [] layer \in {"ASCII85Decode", "ASCIIHexDecode"} -> 2 * n
                                 [] OTHER -> Packed,
             Len(data.tokens), Reverse(data.layers))

-----------------------------------------------------------------------------
Ok(out) == [status |-> "ok", out |-> out]
Failed == [status |-> "failed", out |-> Plain(<< >>)]
MemoryLimitExceeded == [status |-> "limit", out |-> Plain(<< >>)]

\* read_capped and LimitedWriter: one byte more than the limit shows that there is more.
Cap(limit) == limit + 1

read_capped(data, limit) ==
    IF limit = Unlimited \/ Size(data) <= Cap(limit) THEN data
    ELSE Plain(SubSeq(data.tokens, 1, Cap(limit)))

Limited(data, limit) == IF limit # Unlimited /\ Size(data) > limit THEN MemoryLimitExceeded ELSE Ok(data)

\* With a PNG predictor: data that have none are no rows of pixels.
decompress_predictor(data, parms) ==
    CASE ~parms \/ data = Plain(<< >>) -> Ok(data)
      [] parms /\ data.layers # << >> /\ Head(data.layers) = "Predictor" -> Ok([data EXCEPT !.layers = Tail(@)])
      [] OTHER -> Failed

\* One filter of decode_filters; the limit is looked at before the predictor.
Decoded(filter, data, parms, limit) ==
    LET own == data.layers # << >> /\ Head(data.layers) = filter
        inner == IF own THEN [data EXCEPT !.layers = Tail(@)] ELSE Plain(<< >>)
        read == Limited(read_capped(inner, limit), limit)
    IN  CASE filter \notin Known \/ (~own /\ filter \notin Lenient) -> Failed
          [] filter \in Lenient /\ read.status = "ok" -> decompress_predictor(read.out, parms)
          [] OTHER -> read

-----------------------------------------------------------------------------
(***************************************************************************)
(* A stream: filter is {} without /Filter, parms says that /DecodeParms    *)
(* asks for a predictor.                                                   *)
(***************************************************************************)
Stream(subtype, data) ==
    [type |-> "Stream", subtype |-> subtype, filter |-> {}, parms |-> FALSE, data |-> data, allows_compression |-> TRUE]

filters(stream) == UNION {ToSet(names) : names \in stream.filter}

is_compressed(stream) == stream.filter # {}

\* One /DecodeParms for all the filters; an empty list of them leaves nothing.
decode_filters(stream, limit) ==
    IF stream.filter = {} THEN Limited(stream.data, limit)
    ELSE LET names == CHOOSE names \in stream.filter : TRUE IN
         IF names = << >> THEN Ok(Plain(<< >>))
         ELSE FoldLeft(LAMBDA r, f : IF r.status = "ok" THEN Decoded(f, r.out, stream.parms, limit) ELSE r,
                       Ok(stream.data), names)

get_plain_content(stream, limit) ==
    IF filters(stream) # {} THEN decode_filters(stream, limit) ELSE Limited(stream.data, limit)

set_plain_content(stream, data) == [stream EXCEPT !.filter = {}, !.parms = FALSE, !.data = data]

\* Only a stream without /Filter, and only if that makes it shorter.
compress(stream) ==
    IF ~is_compressed(stream) /\ Packed + Overhead < Size(stream.data)
    THEN [stream EXCEPT !.filter = {<<"FlateDecode">>}, !.data = Wrapped("FlateDecode", @)]
    ELSE stream

decompress(stream, limit) ==
    LET r == decode_filters(stream, limit) IN
    IF r.status = "ok" THEN [stream EXCEPT !.filter = {}, !.parms = FALSE, !.data = r.out] ELSE stream

-----------------------------------------------------------------------------
(***************************************************************************)
(* The streams xobject.rs makes.                                           *)
(***************************************************************************)
form(data) == compress(Stream("Form", data))

\* image_from: JPEG data stay as they are, pixels are compressed.
image_from(format, pixels) ==
    IF format = "Jpeg" THEN [Stream("Image", JpegData) EXCEPT !.filter = {<<"DCTDecode">>}]
    ELSE compress(Stream("Image", pixels))
===============================================================================
