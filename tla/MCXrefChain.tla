--------------------------- MODULE MCXrefChain ---------------------------
(***************************************************************************)
(* The buffers TLC gives the reader of XrefChain.  A buffer is up to three *)
(* revisions of four cells each:                                           *)
(*     +0 an object   +1 an xref stream of a hybrid file   +2 the section  *)
(*     +3 its trailer, "the line after the xref keyword"                   *)
(* Cell 0 is the %PDF- header.                                             *)
(***************************************************************************)
EXTENDS XrefChain

MCNums == 1 .. 4
MCLen == 13
MCWindow == 2
MCMaxTrailers == 2

Base(k) == 4 * (k - 1) + 1
SectionCell(k) == Base(k) + 2

\* A revision: the object written (number 3 is the stream section itself, number
\* 4 the xref stream of a hybrid file), what it frees, and where it leads.
Revision ==
    [num : {1, 2}, kind : Kinds, frees : BOOLEAN, hybrid : BOOLEAN,
     prev : {"none", "back", "after", "self", "bad", "behind"}]

PrevOf(k, how, last) ==
    CASE how = "none" -> {}
      [] how = "back" -> {SectionCell(k - 1)}
      [] how = "after" -> {SectionCell(k - 1) + 1}
      [] how = "self" -> {SectionCell(last) + 1}
      [] how = "bad" -> {-1}
      [] how = "behind" -> {Base(k)}

Listed(k, r) ==
    IF r.kind = "stream"
    THEN [n \in {r.num, 3} |-> IF n = 3 THEN SectionCell(k) ELSE Base(k)]
    ELSE [n \in {r.num} |-> Base(k)]

Section(k, r, last) ==
    [kind |-> r.kind, listed |-> Listed(k, r),
     freed |-> IF r.frees THEN {4} ELSE {},
     prev |-> PrevOf(k, r.prev, last),
     stm |-> IF r.hybrid THEN {Base(k) + 1} ELSE {},
     root |-> {r.num}]

\* It lists itself, and an object a table may list too.
HybridSection(k) ==
    [kind |-> "stream", listed |-> [n \in {1, 4} |-> Base(k) + 1], freed |-> {},
     prev |-> {}, stm |-> {}, root |-> {}]

Hybrids(revs) == {k \in DOMAIN revs : revs[k].hybrid}
Streams(revs) == {k \in DOMAIN revs : revs[k].kind = "stream"}

Buffer(revs, start) ==
    LET last == Cardinality(DOMAIN revs)
        main == {SectionCell(k) : k \in DOMAIN revs}
        extra == {Base(k) + 1 : k \in Hybrids(revs)}
        Rev(p) == CHOOSE k \in DOMAIN revs : p \in Base(k) .. Base(k) + 3
        heads == {Base(k) : k \in DOMAIN revs}
        own == {SectionCell(k) : k \in Streams(revs)}
    IN  [sections |-> [p \in main \cup extra |->
                          IF p \in main THEN Section(Rev(p), revs[Rev(p)], last)
                                        ELSE HybridSection(Rev(p))],
         objects |-> [p \in heads \cup extra \cup own |->
                          IF p \in heads THEN revs[Rev(p)].num
                          ELSE IF p \in extra THEN 4 ELSE 3],
         start |-> start]

\* startxref: exact, one line late, of the first revision, at an object, past the
\* end of the buffer, or not there.
Starts(last) ==
    {{SectionCell(last)}, {SectionCell(last) + 1}, {SectionCell(1)}, {Base(last)}, {MCLen + 1}, {}}

\* No revision is behind the first, and only tables are hybrid.
Plausible(k, r) ==
    /\ k = 1 => r.prev \notin {"back", "after"}
    /\ r.hybrid => r.kind = "table"

Files1 ==
    {Buffer(<<r>>, s) : r \in {x \in Revision : Plausible(1, x)}, s \in Starts(1)}

\* Buffers of several revisions free nothing: a free entry is not kept anyway.
Quiet(revs) == {x \in revs : ~x.frees}

MCFiles ==
    Files1
    \cup
    {Buffer(<<q, r>>, s) :
        q \in {x \in Quiet(Revision) : Plausible(1, x)},
        r \in {x \in Quiet(Revision) : Plausible(2, x)},
        s \in Starts(2)}
    \cup
    {Buffer(<<p, q, r>>, s) :
        p \in {x \in Quiet(Revision) : x.prev \in {"none", "self"} /\ x.kind = "table" /\ ~x.hybrid},
        q \in {x \in Quiet(Revision) : x.prev \in {"back", "after"} /\ x.kind # "damaged" /\ ~x.hybrid},
        r \in {x \in Quiet(Revision) : x.prev \in {"back", "after", "self"} /\ x.kind # "damaged" /\ Plausible(3, x)},
        s \in Starts(3)}
====
