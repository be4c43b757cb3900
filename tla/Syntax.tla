-------------------------------- MODULE Syntax --------------------------------
(***************************************************************************)
(* How objects are written and how they are parsed again                   *)
(* (src/src/writer.rs, src/src/parser/mod.rs).                             *)
(*                                                                         *)
(* Text is a sequence of characters, of which there is one for each kind   *)
(* the code tells apart: "(" ")" "\\" "#" "/" "[" "]" "<" ">" themselves,   *)
(* "<<" and ">>" where they come in pairs,                                 *)
(* "CR", "LF" and "SP", the digits, "n" and "r" for the letters of an      *)
(* escape sequence, "F" for any other letter, "hi" for one that is not    *)
(* ASCII.  A parser returns what it made of the front of the text and the  *)
(* rest, or {} where it fails.                                             *)
(***************************************************************************)
EXTENDS Naturals, Sequences, FiniteSets, SequencesExt

CONSTANTS MaxBracket,  \* MAX_BRACKET: parentheses in a string
          MaxDepth     \* MAX_NESTING_DEPTH: arrays and dictionaries in each other

ASSUME SyntaxAssumption == MaxBracket \in Nat \ {0} /\ MaxDepth \in Nat \ {0}

Digits == {"2", "3", "4"}
Delimiters == {"(", ")", "[", "]", "<", ">", "<<", ">>", "/"}
Spaces == {"SP", "CR", "LF"}
Regular(c) == c \notin Delimiters \cup Spaces

Rest(text) == IF text = << >> THEN << >> ELSE Tail(text)
Starts(text, c) == text # << >> /\ Head(text) = c
From(text, n) == SubSeq(text, n, Len(text))

\* How many characters at the front are in the set.
Run(text, S) == Cardinality({n \in 1 .. Len(text) : \A i \in 1 .. n : text[i] \in S})

Parsed(value, rest) == {[value |-> value, rest |-> rest]}

-----------------------------------------------------------------------------
(***************************************************************************)
(* Literal strings.                                                        *)
(***************************************************************************)
\* The places of parentheses that have no partner, of backslashes and of carriage
\* returns.  A ")" is the partner of the last "(" that has none yet.
EscapeIndices(text) ==
    LET Step(s, i) ==
            CASE text[i] = "(" -> [s EXCEPT !.open = Append(@, i)]
              [] text[i] = ")" /\ s.open # << >> -> [s EXCEPT !.open = Front(@)]
              [] text[i] \in {"\\", "CR"} \/ (text[i] = ")" /\ s.open = << >>) ->
                    [s EXCEPT !.escaped = @ \cup {i}]
              [] OTHER -> s
        all == FoldLeftDomain(Step, [open |-> << >>, escaped |-> {}], text)
    IN  all.escaped \cup ToSet(all.open)

Escape(c) == <<"\\", IF c = "CR" THEN "r" ELSE c>>

write_string(text) ==
    LET escaped == EscapeIndices(text) IN
    <<"(">> \o FlattenSeq([i \in DOMAIN text |-> IF i \in escaped THEN Escape(text[i]) ELSE <<text[i]>>]) \o <<")">>

\* An end of line: CR LF, LF or CR, as many characters as it has.
eol(text) ==
    IF Starts(text, "CR") THEN (IF Starts(Rest(text), "LF") THEN 2 ELSE 1)
    ELSE IF Starts(text, "LF") THEN 1 ELSE 0

Octal(n) == IF n > 3 THEN 3 ELSE n

\* What follows a backslash: up to three octal digits, an end of line that is
\* dropped, a letter with a meaning, or the character itself.
escape_sequence(text) ==
    LET digits == Run(text, Digits) IN
    IF text = << >> THEN {}
    ELSE IF digits > 0 THEN Parsed(<<[octal |-> SubSeq(text, 1, Octal(digits))]>>, From(text, Octal(digits) + 1))
    ELSE IF eol(text) > 0 THEN Parsed(<< >>, From(text, eol(text) + 1))
    ELSE Parsed(<<CASE Head(text) = "n" -> "LF" [] Head(text) = "r" -> "CR" [] OTHER -> Head(text)>>, Tail(text))

RECURSIVE inner_literal_string(_, _)

\* Everything up to a ")" that closes no "(" of the string, or up to where the
\* parentheses are too deep; there is always a result.
inner_literal_string(text, depth) ==
    IF text = << >> \/ Head(text) = ")" THEN [value |-> << >>, rest |-> text]
    ELSE LET Before(value, rest) ==
                 LET more == inner_literal_string(rest, depth) IN [more EXCEPT !.value = value \o @]
             escape == escape_sequence(Tail(text))
             nested == inner_literal_string(Tail(text), depth - 1)
         IN  CASE Head(text) = "\\" ->
                     IF escape = {} THEN [value |-> << >>, rest |-> text]
                     ELSE LET e == CHOOSE e \in escape : TRUE IN Before(e.value, e.rest)
               [] Head(text) = "(" ->
                     IF depth = 0 \/ ~Starts(nested.rest, ")") THEN [value |-> << >>, rest |-> text]
                     ELSE Before(<<"(">> \o nested.value \o <<")">>, Tail(nested.rest))
               [] eol(text) > 0 -> Before(SubSeq(text, 1, eol(text)), From(text, eol(text) + 1))
               [] OTHER -> Before(<<Head(text)>>, Tail(text))

literal_string(text) ==
    LET inner == inner_literal_string(Rest(text), MaxBracket) IN
    IF Starts(text, "(") /\ Starts(inner.rest, ")") THEN Parsed(inner.value, Tail(inner.rest)) ELSE {}

-----------------------------------------------------------------------------
(***************************************************************************)
(* Hexadecimal strings, and names, which write some characters so.         *)
(***************************************************************************)
HexDigits == Digits \cup {"F"}

\* Every character has two hexadecimal digits.
HexCode == [c \in {"#", "/", "(", ")", "SP", "CR", "LF", "hi", "\\", "2", "n", "F"} |->
               CASE c = "#" -> <<"2", "3">> [] c = "/" -> <<"2", "F">> [] c = "(" -> <<"2", "4">>
                 [] c = ")" -> <<"2", "2">> [] c = "SP" -> <<"3", "2">> [] c = "CR" -> <<"3", "3">>
                 [] c = "LF" -> <<"3", "4">> [] c = "hi" -> <<"F", "F">> [] c = "\\" -> <<"4", "2">>
                 [] c = "2" -> <<"4", "3">> [] c = "n" -> <<"4", "4">> [] c = "F" -> <<"4", "F">>]

\* The character of two digits; some stand for none of those above.
HexChar(pair) ==
    IF \E c \in DOMAIN HexCode : HexCode[c] = pair THEN CHOOSE c \in DOMAIN HexCode : HexCode[c] = pair
    ELSE [hex |-> pair]

write_hexadecimal(text) == <<"<">> \o FlattenSeq([i \in DOMAIN text |-> HexCode[text[i]]]) \o <<">">>

\* Digits, with spaces between them; a last one without a partner is followed by 0.
hexadecimal_string(text) ==
    LET n == Run(Rest(text), HexDigits \cup Spaces)
        digits == SelectSeq(SubSeq(text, 2, n + 1), LAMBDA c : c \in HexDigits)
        pairs == [i \in 1 .. (Len(digits) + 1) \div 2 |->
                    IF 2 * i <= Len(digits) THEN HexChar(SubSeq(digits, 2 * i - 1, 2 * i))
                    ELSE [hex |-> <<digits[2 * i - 1], "0">>]]
    IN  IF Starts(text, "<") /\ Starts(From(text, n + 2), ">") THEN Parsed(pairs, From(text, n + 3)) ELSE {}

\* Delimiters, spaces, "#" and everything that is not printable.
Irregular(c) == c \in Delimiters \cup Spaces \cup {"#", "hi"}

NameChar(c) == IF Irregular(c) THEN <<"#">> \o HexCode[c] ELSE <<c>>

write_name(text) == <<"/">> \o FlattenSeq([i \in DOMAIN text |-> NameChar(text[i])])

RECURSIVE NameFrom(_, _)

NameFrom(text, value) ==
    LET pair == SubSeq(text, 2, 3) IN
    IF Starts(text, "#") /\ Len(text) >= 3 /\ ToSet(pair) \subseteq HexDigits
    THEN NameFrom(From(text, 4), Append(value, HexChar(pair)))
    ELSE IF text # << >> /\ Head(text) # "#" /\ Regular(Head(text))
    THEN NameFrom(Tail(text), Append(value, Head(text)))
    ELSE Parsed(value, text)

name(text) == IF Starts(text, "/") THEN NameFrom(Tail(text), << >>) ELSE {}

-----------------------------------------------------------------------------
(***************************************************************************)
(* Numbers and references: digits as they are; a Real with a fraction has  *)
(* a point ".", one without is written like an integer.  "i" is a run of   *)
(* digits that fits into 64 bits, "huge" one that does not.                *)
(***************************************************************************)
Word(object) ==
    CASE object.type = "Null" -> <<"null">>
      [] object.type = "Boolean" -> <<IF object.value THEN "true" ELSE "false">>
      [] object.type = "Integer" -> <<"i">>
      [] object.type = "Real" /\ object.fraction -> <<"i", ".", "i">>
      [] object.type = "Real" /\ ~object.fraction /\ object.size = "small" -> <<"i">>
      [] object.type = "Real" /\ ~object.fraction /\ object.size = "large" -> <<"huge">>
      [] object.type = "Reference" -> <<"i", "SP", "i", "SP", "R">>

\* A slip: a reference is not set apart from what is before it.
need_separator_NotReferences(object) == object.type \in {"Null", "Boolean", "Integer", "Real"}

need_separator(object) == object.type \in {"Null", "Boolean", "Integer", "Real", "Reference"}

Separator(object) == IF need_separator(object) THEN <<"SP">> ELSE << >>

RECURSIVE write_object(_)

write_object(object) ==
    CASE object.type = "Name" -> write_name(object.text)
      [] object.type = "String" /\ object.format = "Literal" -> write_string(object.text)
      [] object.type = "String" /\ object.format = "Hexadecimal" -> write_hexadecimal(object.text)
      [] object.type = "Array" ->
            <<"[">> \o FlattenSeq([i \in DOMAIN object.items |->
                          (IF i = 1 THEN << >> ELSE Separator(object.items[i])) \o write_object(object.items[i])])
                    \o <<"]">>
      [] object.type = "Dictionary" ->
            <<"<<">> \o FlattenSeq([i \in DOMAIN object.entries |->
                           write_name(object.entries[i].key) \o Separator(object.entries[i].value)
                               \o write_object(object.entries[i].value)])
                     \o <<">>">>
      [] OTHER -> Word(object)

-----------------------------------------------------------------------------
(***************************************************************************)
(* Parsing any object.                                                     *)
(***************************************************************************)
space(text) == From(text, Run(text, Spaces) + 1)

Null == [type |-> "Null"]
Integer == [type |-> "Integer"]
Boolean(value) == [type |-> "Boolean", value |-> value]
StringOf(chars, format) == [type |-> "String", text |-> chars, format |-> format]
Fraction == [type |-> "Real", fraction |-> TRUE, size |-> "small"]
Reference == [type |-> "Reference"]

\* A number is a run of digits: words without a space between them are one word.
Digit == {"i", "huge"}

Number(text) ==
    LET n == Run(text, Digit) IN
    IF n = 0 THEN {}
    ELSE IF Starts(From(text, n + 1), ".") THEN Parsed(Fraction, From(text, n + 2 + Run(From(text, n + 2), Digit)))
    ELSE IF \A k \in 1 .. n : text[k] = "i" THEN Parsed(Integer, From(text, n + 1))
    ELSE {}

\* A number that fits, and the spaces after it.
unsigned_int(text) ==
    LET n == Run(text, Digit) IN
    IF n > 0 /\ \A k \in 1 .. n : text[k] = "i" THEN {space(From(text, n + 1))} ELSE {}

reference(text) ==
    LET ends == UNION {unsigned_int(rest) : rest \in unsigned_int(text)} IN
    UNION {IF Starts(rest, "R") THEN Parsed(Reference, Tail(rest)) ELSE {} : rest \in ends}

Fatal == {[fatal |-> TRUE]}

RECURSIVE _direct_object(_, _), Items(_, _, _), Entries(_, _, _)

\* null, a reference before a number, a name, a string, an array, a dictionary.
_direct_objects(text, depth) ==
    LET Enclosed(found, close, Of(_)) ==
            IF found = Fatal THEN Fatal
            ELSE {[value |-> Of(r.value), rest |-> Tail(r.rest)] : r \in {r \in found : Starts(r.rest, close)}}
    IN  CASE Starts(text, "null") -> Parsed(Null, Tail(text))
          [] Starts(text, "true") \/ Starts(text, "false") -> Parsed(Boolean(Head(text) = "true"), Tail(text))
          [] reference(text) # {} -> reference(text)
          [] text # << >> /\ Head(text) \in Digit /\ reference(text) = {} -> Number(text)
          [] Starts(text, "/") -> {[value |-> [type |-> "Name", text |-> r.value], rest |-> r.rest] : r \in name(text)}
          [] Starts(text, "(") ->
                {[value |-> StringOf(r.value, "Literal"), rest |-> r.rest] : r \in literal_string(text)}
          [] Starts(text, "<") ->
                {[value |-> StringOf(r.value, "Hexadecimal"), rest |-> r.rest] : r \in hexadecimal_string(text)}
          [] Starts(text, "[") ->
                Enclosed(Items(space(Rest(text)), << >>, depth), "]", LAMBDA v : [type |-> "Array", items |-> v])
          [] Starts(text, "<<") ->
                Enclosed(Entries(space(Rest(text)), << >>, depth), ">>", LAMBDA v : [type |-> "Dictionary", entries |-> v])
          [] OTHER -> {}

\* An object and the spaces after it; Fatal where the nesting is too deep, which
\* ends all parsing, unlike an object that is not there.
_direct_object(text, depth) ==
    IF depth = 0 THEN Fatal
    ELSE LET Spaced(r) == IF r = Fatal THEN r ELSE {[value |-> p.value, rest |-> space(p.rest)] : p \in r}
         IN  Spaced(_direct_objects(text, depth - 1))

\* many0: as many objects as there are, fatal if one is fatal.
Items(text, found, depth) ==
    LET More(next) ==
            IF next = Fatal THEN next
            ELSE IF next = {} THEN Parsed(found, text)
            ELSE LET p == CHOOSE p \in next : TRUE IN Items(p.rest, Append(found, p.value), depth)
    IN  More(_direct_object(text, depth))

\* The same with a name before each object.
Entries(text, found, depth) ==
    LET key == name(text)
        More(next) ==
            IF next = Fatal THEN next
            ELSE IF next = {} THEN Parsed(found, text)
            ELSE LET p == CHOOSE p \in next : TRUE
                     k == CHOOSE k \in key : TRUE
                 IN  Entries(p.rest, Append(found, [key |-> k.value, value |-> p.value]), depth)
    IN  More(UNION {_direct_object(space(k.rest), depth) : k \in key})

object(text) == _direct_objects(text, MaxDepth)

\* What needs a space before "endobj".
need_end_separator(o) == o.type = "Name" \/ need_separator(o)

write_indirect_object(id, o) ==
    <<id, "obj", "LF">> \o Separator(o) \o write_object(o)
        \o (IF need_end_separator(o) THEN <<"SP">> ELSE << >>) \o <<"LF", "endobj", "LF">>

\* The object at the front of the text, {} if it is not one of those expected.  An
\* identifier with the spaces after it is one character.
indirect_object(text, expected_id) ==
    LET found == object(space(From(text, 3))) IN
    IF Len(text) < 2 \/ text[2] # "obj" \/ text[1] \notin expected_id \/ found = Fatal THEN {}
    ELSE {r.value : r \in found}

-----------------------------------------------------------------------------
(***************************************************************************)
(* Streams.  "endstream" and "endobj" are characters of their own here, so *)
(* that contents may hold them.                                            *)
(***************************************************************************)
write_stream(content) == content \o <<"LF", "endstream", "LF", "endobj", "LF">>

\* The end of line before n: CR LF, LF or CR.
EolBefore(text, n) ==
    IF n > 1 /\ text[n - 1] = "LF" THEN (IF n > 2 /\ text[n - 2] = "CR" THEN 2 ELSE 1)
    ELSE IF n > 1 /\ text[n - 1] = "CR" THEN 1 ELSE 0

\* An "endstream" on a line of its own, "endobj" after it, and nothing glued to that.
IsBoundary(text, n) ==
    LET after == space(From(text, n + 1)) IN
    /\ text[n] = "endstream" /\ EolBefore(text, n) > 0
    /\ Starts(after, "endobj")
    /\ Tail(after) = << >> \/ Head(Tail(after)) \in Spaces

\* A slip: any line that is "endstream" will do, the first one is taken.
recover_stream_length_First(text) ==
    LET ends == {n \in DOMAIN text : text[n] = "endstream" /\ EolBefore(text, n) > 0}
        first == {n \in ends : \A o \in ends : n <= o}
    IN  {SubSeq(text, 1, n - EolBefore(text, n) - 1) : n \in first}

\* The data before the sole boundary; {} if there are more, or none.
recover_stream_length(text) ==
    LET ends == {n \in DOMAIN text : IsBoundary(text, n)} IN
    IF Cardinality(ends) = 1 THEN {SubSeq(text, 1, n - EolBefore(text, n) - 1) : n \in ends} ELSE {}

\* The data of a stream of this Length, in text that goes on after the object,
\* which ends at bound: the Length is believed if "endstream" follows.
Believed(text, length) ==
    LET tail == From(text, length + 1) IN
    length <= Len(text) /\ Starts(From(tail, eol(tail) + 1), "endstream")

stream(text, length, bound, strict) ==
    IF Believed(text, length) THEN {SubSeq(text, 1, length)}
    ELSE IF strict THEN {}
    ELSE recover_stream_length(SubSeq(text, 1, bound))
===============================================================================
