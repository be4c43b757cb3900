------------------------------- MODULE XrefCodec ------------------------------
(***************************************************************************)
(* Cross-reference tables and streams as they are written and read         *)
(* (src/src/writer.rs, src/src/xref.rs, src/src/parser/mod.rs,             *)
(* src/src/parser_aux.rs).                                                 *)
(*                                                                         *)
(* Entries are a function of object numbers.  A table is a sequence of     *)
(* subsections [start, lines], a cross-reference stream an /Index of pairs *)
(* ({} if it has none), the widths /W of its fields, and its bytes, which  *)
(* are numbers below Radix (256 in the code).                              *)
(***************************************************************************)
EXTENDS Naturals, Sequences, FiniteSets, FiniteSetsExt, SequencesExt

CONSTANT Radix

ASSUME XrefCodecAssumption == Radix \in Nat \ 0 .. 2

\* u16::MAX and the number of values of a u32.
U16Max == Radix * Radix - 1
U32 == Radix ^ 4

Free == [type |-> "Free"]
UnusableFree == [type |-> "UnusableFree"]
Normal(offset, generation) == [type |-> "Normal", offset |-> offset, generation |-> generation]
Compressed(container, index) == [type |-> "Compressed", container |-> container, index |-> index]

NoEntries == [id \in {} |-> Free]

max_id(entries) == IF DOMAIN entries = {} THEN 0 ELSE Max(DOMAIN entries)

-----------------------------------------------------------------------------
(***************************************************************************)
(* Writing.                                                                *)
(***************************************************************************)
\* A slip: a section begins where the one before it ended, present or not.
Started_AtGap(section, id) == IF section.entries = << >> THEN [section EXCEPT !.start = id - 1] ELSE section

\* A section begins at the first number that is there.
Started(section, id) == IF section.entries = << >> THEN [section EXCEPT !.start = id] ELSE section

\* The runs of numbers that are there, after the section begun.
Sections(entries, begun) ==
    LET Step(s, id) ==
            IF id \in DOMAIN entries
            THEN [s EXCEPT !.open = [Started(@, id) EXCEPT !.entries = Append(@, entries[id])]]
            ELSE IF s.open.entries = << >> THEN s
            ELSE [done |-> Append(s.done, s.open), open |-> [start |-> 0, entries |-> << >>]]
        all == FoldLeft(Step, [done |-> << >>, open |-> begun], [n \in 1 .. max_id(entries) |-> n])
    IN  IF all.open.entries = << >> THEN all.done ELSE Append(all.done, all.open)

\* write_xref: lines of an offset, a generation and "n" or "f"; a table cannot say
\* that an object is in a container.
Line(entry) ==
    CASE entry.type = "Normal" -> <<entry.offset, entry.generation, "n">>
      [] entry.type = "Free" -> <<0, 0, "f">>
      [] entry.type \in {"UnusableFree", "Compressed"} -> <<0, U16Max, "f">>

write_xref(entries) ==
    LET sections == Sections(entries, [start |-> 0, entries |-> <<UnusableFree>>]) IN
    [i \in DOMAIN sections |->
        [start |-> sections[i].start,
         lines |-> [j \in DOMAIN sections[i].entries |-> Line(sections[i].entries[j])]]]

\* encode_field: the lowest bytes of a value, the highest first.
encode_field(value, width) == [i \in 1 .. width |-> (value \div Radix ^ (width - i)) % Radix]

\* The three fields of an entry as create_xref_steam has them.
Fields(id, entry) ==
    CASE entry.type = "Free" -> <<0, id, 0>>
      [] entry.type = "UnusableFree" -> <<0, id, U16Max>>
      [] entry.type = "Normal" -> <<1, entry.offset, entry.generation>>
      [] entry.type = "Compressed" -> <<2, entry.container, entry.index>>

Record(fields, widths) == FlattenSeq([k \in 1 .. 3 |-> encode_field(fields[k], widths[k])])

create_xref_steam(entries) ==
    LET sections == Sections(entries, [start |-> 0, entries |-> << >>])
        Content(section) ==
            FlattenSeq([j \in DOMAIN section.entries |->
                Record(Fields(section.start + j - 1, section.entries[j]), <<1, 4, 2>>)])
    IN  [size |-> max_id(entries) + 1,
         index |-> {FlattenSeq([i \in DOMAIN sections |-> <<sections[i].start, Len(sections[i].entries)>>])},
         widths |-> <<1, 4, 2>>,
         content |-> FlattenSeq([i \in DOMAIN sections |-> Content(sections[i])])]

-----------------------------------------------------------------------------
(***************************************************************************)
(* XrefStreamBuilder, which makes a stream as narrow as it can be.         *)
(***************************************************************************)
bytes_needed(value) == Min({n \in 1 .. 8 : value < Radix ^ n})

\* encode_for_xref_stream: free entries are zeros.
BuilderFields(entry) == IF entry.type \in {"Free", "UnusableFree"} THEN <<0, 0, 0>> ELSE Fields(0, entry)

calculate_optimal_widths(entries) ==
    LET Width(k) == bytes_needed(Max({0} \cup {BuilderFields(entries[id])[k] : id \in DOMAIN entries})) IN
    <<1, Width(2), Width(3)>>

\* build_index_array: a pair for each run of numbers.
build_index_array(ids) ==
    LET starts == {id \in ids : id - 1 \notin ids}
        Count(start) == Max({n \in 1 .. Cardinality(ids) : start .. start + n - 1 \subseteq ids})
        order == SetToSortSeq(starts, <)
    IN  FlattenSeq([i \in DOMAIN order |-> <<order[i], Count(order[i])>>])

to_stream_object(entries) ==
    LET widths == calculate_optimal_widths(entries)
        order == SetToSortSeq(DOMAIN entries, <)
    IN  [size |-> max_id(entries) + 1, index |-> {build_index_array(DOMAIN entries)}, widths |-> widths,
         content |-> FlattenSeq([i \in DOMAIN order |-> Record(BuilderFields(entries[order[i]]), widths)])]

-----------------------------------------------------------------------------
(***************************************************************************)
(* Reading.  {} is an error; a later entry of a number replaces an earlier *)
(* one of the same section.                                                *)
(***************************************************************************)
Insert(entries, id, entry) ==
    [n \in DOMAIN entries \cup {id} |-> IF n = id THEN entry ELSE entries[n]]

\* xref: only entries in use are kept, of those whose generation is a u16 and whose
\* number is a u32; the count of a subsection is not looked at.
xref(table) ==
    LET Section(entries, section) ==
            FoldLeftDomain(LAMBDA found, j :
                LET line == section.lines[j]
                    fits == line[2] <= U16Max /\ section.start + j - 1 < U32
                IN
                IF line[3] = "n" /\ fits THEN Insert(found, section.start + j - 1, Normal(line[1], line[2])) ELSE found,
                entries, section.lines)
    IN  {FoldLeft(Section, NoEntries, table)}

\* The numbers an /Index lists, in order.
Listed(index) ==
    FlattenSeq([i \in 1 .. Len(index) \div 2 |->
        [j \in 1 .. index[2 * i] |-> index[2 * i - 1] + j - 1]])

\* A field read as a u32, and the place after it: a width of 0 takes nothing.
Field(content, at, width, default) ==
    [value |-> IF width = 0 THEN default
               ELSE FoldLeft(LAMBDA v, b : (v * Radix + b) % U32, 0, SubSeq(content, at, at + width - 1)),
     next |-> at + width]

\* The entries found and the place of the next field.  An entry whose type is not
\* known is passed over, but not its fields; indexes and generations are u16.
ReadEntry(s, stream, id) ==
    LET type == Field(stream.content, s.at, stream.widths[1], 1)
        second == Field(stream.content, type.next, stream.widths[2], 0)
        third == Field(stream.content, second.next, stream.widths[3], 0)
        short == third.value % (U16Max + 1)
    IN  CASE type.value = 0 -> [s EXCEPT !.at = third.next]
          [] type.value = 1 -> [entries |-> Insert(s.entries, id, Normal(second.value, short)), at |-> third.next]
          [] type.value = 2 -> [entries |-> Insert(s.entries, id, Compressed(second.value, short)), at |-> third.next]
          [] OTHER -> [s EXCEPT !.at = type.next]

\* The fewest bytes an entry counts for: MIN_ENTRY_WIDTH.
MinEntryWidth == 3

\* The body must hold what the /Index announces.
decode_xref_stream(stream) ==
    LET width == stream.widths[1] + stream.widths[2] + stream.widths[3]
        ids == Listed(IF stream.index = {} THEN <<0, stream.size>> ELSE CHOOSE i \in stream.index : TRUE)
    IN  IF \/ width = 0 \/ \E k \in 1 .. 3 : stream.widths[k] > 8
           \/ Len(ids) > Len(stream.content) \div Max({width, MinEntryWidth})
        THEN {}
        ELSE {FoldLeft(LAMBDA s, id : ReadEntry(s, stream, id), [entries |-> NoEntries, at |-> 1], ids).entries}

-----------------------------------------------------------------------------
\* Another writer's stream, without an /Index: all entries from 0 on, a width of 0
\* where a field is the same throughout.
PlainStream(entries, widths) ==
    [size |-> Len(entries), index |-> {}, widths |-> widths,
     content |-> FlattenSeq([j \in DOMAIN entries |-> Record(Fields(j - 1, entries[j]), widths)])]
===============================================================================
