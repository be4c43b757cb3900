---------------------------- MODULE XrefChain ----------------------------
(***************************************************************************)
(* How a reader finds the cross-reference table of a file: it follows      *)
(* startxref and the /Prev chain, correcting offsets that are slightly     *)
(* off, and when that fails it rebuilds the table by scanning the bytes    *)
(* (src/src/reader.rs, resolve_xref_and_trailer and its helpers).          *)
(*                                                                         *)
(* A buffer is a row of cells, numbered from 0.  A cell may hold an        *)
(* indirect-object header, a cross-reference section, or bytes nobody      *)
(* looks for.  A value that may be missing (a /Prev, an /XRefStm, a        *)
(* startxref, a /Root) is a set of at most one element.                    *)
(***************************************************************************)
EXTENDS Integers, FiniteSets

CONSTANTS
    Nums,           \* object numbers
    Len,            \* cells in a buffer
    Window,         \* cells searched on each side of a wrong offset
    MaxTrailers,    \* trailers inspected by the recovery scan
    Files           \* the buffers the reader may be given

IsOptional(v, S) == v \subseteq S /\ \A x, y \in v : x = y

Cells == 0 .. Len - 1

Kinds == {"table", "stream", "damaged"}

IsTrailer(t) ==
    /\ IsOptional(t.prev, Int)
    /\ IsOptional(t.stm, Int)
    /\ IsOptional(t.root, Nums)

(***************************************************************************)
(* A section lists objects in use (listed: number to offset) and objects   *)
(* that were freed.  A "damaged" section is a table whose entries do not   *)
(* parse although its xref keyword and its trailer are there.              *)
(***************************************************************************)
IsSection(s) ==
    /\ s.kind \in Kinds
    /\ DOMAIN s.listed \subseteq Nums
    /\ \A n \in DOMAIN s.listed : s.listed[n] \in Cells
    /\ s.freed \subseteq Nums \ DOMAIN s.listed
    /\ IsTrailer(s)

\* objects maps the cell of an object header to the number in the header.  Cell
\* 0 is the %PDF- header: no section stands there.
IsBuffer(f) ==
    /\ DOMAIN f.sections \subseteq Cells \ {0}
    /\ \A p \in DOMAIN f.sections : IsSection(f.sections[p])
    /\ DOMAIN f.objects \subseteq Cells
    /\ \A p \in DOMAIN f.objects : f.objects[p] \in Nums
    /\ \A p \in DOMAIN f.sections :
           f.sections[p].kind = "stream" <=> p \in DOMAIN f.objects
    /\ IsOptional(f.start, Nat)

ASSUME NumsAssumption == Nums \subseteq Nat \ {0} /\ IsFiniteSet(Nums)
ASSUME LenAssumption == Len \in Nat /\ Window \in Nat
ASSUME MaxTrailersAssumption == MaxTrailers \in Nat
ASSUME FilesAssumption == \A f \in Files : IsBuffer(f)

VARIABLES
    file,       \* Reader.buffer
    strict,     \* Reader.strict
    pc,         \* where resolve / reconstruct stand
    xrefStart,  \* document.xref_start
    xref,       \* the entries merged so far: number to offset
    size,       \* xref.size
    trailer,    \* the document's trailer: [prev, stm, root]
    next,       \* prev_xref_start
    seen        \* already_seen

vars == <<file, strict, pc, xrefStart, xref, size, trailer, next, seen>>

NoTrailer == [prev |-> {}, stm |-> {}, root |-> {}]

Highest(S) == CHOOSE n \in S : \A m \in S : m <= n
MaxId(x) == IF DOMAIN x = {} THEN 0 ELSE Highest(DOMAIN x)

---------------------------------------------------------------------------
(***************************************************************************)
(* Offsets.                                                                *)
(***************************************************************************)

\* Where the xref keyword stands.
Keywords(f) == {p \in DOMAIN f.sections : f.sections[p].kind # "stream"}

Distance(p, q) == IF p < q THEN q - p ELSE p - q

\* The keywords the lenient reader takes for a miswritten offset o.
Nearby(f, o) == {p \in Keywords(f) : o - Window <= p /\ p < o + Window}

\* The nearest keyword, the lower one of two at the same distance.
Nearest(f, o) ==
    CHOOSE p \in Nearby(f, o) :
        \A q \in Nearby(f, o) \ {p} :
            \/ Distance(p, o) < Distance(q, o)
            \/ Distance(p, o) = Distance(q, o) /\ p < q

\* correct_xref_offset
Corrected(f, s, o) ==
    IF \/ s
       \/ o >= Len
       \/ o \in Keywords(f) \cup DOMAIN f.objects
       \/ Nearby(f, o) = {}
    THEN o
    ELSE Nearest(f, o)

Readable(f) == {p \in DOMAIN f.sections : f.sections[p].kind # "damaged"}

\* An offset the reader accepts, and the section it then parses there.
InRange(o) == 0 <= o /\ o <= Len
Usable(o) == InRange(o) /\ Corrected(file, strict, o) \in Readable(file)
SectionAt(o) == file.sections[Corrected(file, strict, o)]

\* Xref::merge: an entry that is there is never replaced.
Merge(x, y) ==
    [n \in DOMAIN x \cup DOMAIN y |-> IF n \in DOMAIN x THEN x[n] ELSE y[n]]

---------------------------------------------------------------------------
Init ==
    /\ file \in Files
    /\ strict \in BOOLEAN
    /\ pc = "start"
    /\ xrefStart = 0
    /\ xref = << >>
    /\ size = 0
    /\ trailer = NoTrailer
    /\ next = {}
    /\ seen = {}

\* A slip: the offset is remembered as startxref gives it.
ReadFirst_Uncorrected ==
    /\ pc = "start"
    /\ \E o \in file.start :
          LET c == Corrected(file, strict, o) IN
          /\ InRange(o) /\ Usable(c)
          /\ xrefStart' = o
          /\ xref' = SectionAt(c).listed
          /\ trailer' = [prev |-> {}, stm |-> SectionAt(c).stm, root |-> SectionAt(c).root]
          /\ next' = SectionAt(c).prev
    /\ pc' = "follow"
    /\ UNCHANGED <<file, strict, size, seen>>

\* The newest section: the one startxref names.  Its /Prev is taken out of
\* the trailer, its /XRefStm stays there.  (The offset is corrected when it is
\* recorded, and again when the section is parsed.)
ReadFirst ==
    /\ pc = "start"
    /\ \E o \in file.start :
          LET c == Corrected(file, strict, o) IN
          /\ InRange(o) /\ Usable(c)
          /\ xrefStart' = c
          /\ xref' = SectionAt(c).listed
          /\ trailer' = [prev |-> {}, stm |-> SectionAt(c).stm, root |-> SectionAt(c).root]
          /\ next' = SectionAt(c).prev
    /\ pc' = "follow"
    /\ UNCHANGED <<file, strict, size, seen>>

\* A slip: already_seen is not kept.
FollowPrev_Forgets ==
    /\ pc = "follow"
    /\ \E o \in next \ seen :
          /\ Usable(o)
          /\ xref' = Merge(xref, SectionAt(o).listed)
          /\ next' = SectionAt(o).prev
    /\ pc' = "hybrid"
    /\ UNCHANGED <<file, strict, xrefStart, size, trailer, seen>>

\* One turn of the loop: the section /Prev names is merged below the others.
FollowPrev ==
    /\ pc = "follow"
    /\ \E o \in next \ seen :
          /\ Usable(o)
          /\ seen' = seen \cup {o}
          /\ xref' = Merge(xref, SectionAt(o).listed)
          /\ next' = SectionAt(o).prev
    /\ pc' = "hybrid"
    /\ UNCHANGED <<file, strict, xrefStart, size, trailer>>

\* A slip: the stream of a hybrid file replaces what the tables say.
ReadHybrid_Replaces ==
    /\ pc = "hybrid"
    /\ \/ /\ trailer.stm = {}
          /\ xref' = xref
       \/ \E o \in trailer.stm :
             /\ Usable(o)
             /\ xref' = Merge(SectionAt(o).listed, xref)
    /\ trailer' = [trailer EXCEPT !.stm = {}]
    /\ pc' = "follow"
    /\ UNCHANGED <<file, strict, xrefStart, size, next, seen>>

\* The rest of the turn: the /XRefStm of the newest trailer, the first time
\* round.  The key is removed whether it was of use or not.
ReadHybrid ==
    /\ pc = "hybrid"
    /\ \/ /\ trailer.stm = {}
          /\ xref' = xref
       \/ \E o \in trailer.stm :
             /\ Usable(o)
             /\ xref' = Merge(xref, SectionAt(o).listed)
    /\ trailer' = [trailer EXCEPT !.stm = {}]
    /\ pc' = "follow"
    /\ UNCHANGED <<file, strict, xrefStart, size, next, seen>>

\* The chain ends where there is no /Prev, or one that was followed already.
EndChain ==
    /\ pc = "follow"
    /\ next \subseteq seen
    /\ size' = MaxId(xref) + 1
    /\ pc' = "resolved"
    /\ UNCHANGED <<file, strict, xrefStart, xref, trailer, next, seen>>

\* Any error of the resolution: what was merged is dropped with it.
Broken ==
    \/ pc = "start" /\ ~ \E o \in file.start : InRange(o) /\ Usable(Corrected(file, strict, o))
    \/ pc = "follow" /\ \E o \in next \ seen : ~ Usable(o)
    \/ pc = "hybrid" /\ \E o \in trailer.stm : ~ Usable(o)

Fail ==
    /\ Broken
    /\ pc' = IF strict THEN "failed" ELSE "scan"
    /\ xref' = << >>
    /\ trailer' = NoTrailer
    /\ next' = {}
    /\ seen' = {}
    /\ UNCHANGED <<file, strict, xrefStart, size>>

---------------------------------------------------------------------------
(***************************************************************************)
(* Recovery: every object header found, the last one of a number winning,  *)
(* and the last trailer whose /Root was found.                             *)
(***************************************************************************)

\* A slip: the scan keeps the first header of a number.
Scanned_FirstWins(f) ==
    [n \in {f.objects[p] : p \in DOMAIN f.objects} |->
        CHOOSE q \in {p \in DOMAIN f.objects : f.objects[p] = n} :
            \A r \in {p \in DOMAIN f.objects : f.objects[p] = n} : q <= r]

\* scan_object_markers and the insertions of reconstruct_xref_and_trailer
Scanned(f) ==
    [n \in {f.objects[p] : p \in DOMAIN f.objects} |->
        Highest({p \in DOMAIN f.objects : f.objects[p] = n})]

\* The last MaxTrailers trailers of the buffer (search_substring, backwards).
Inspected(f) ==
    {p \in Keywords(f) : Cardinality({q \in Keywords(f) : q >= p}) <= MaxTrailers}

\* find_latest_trailer
Candidates(f) ==
    {p \in Inspected(f) :
        \E n \in f.sections[p].root : n \in DOMAIN Scanned(f)}

TrailerOf(s) == [prev |-> s.prev, stm |-> s.stm, root |-> s.root]

Reconstruct ==
    /\ pc = "scan"
    /\ DOMAIN file.objects # {}
    /\ Candidates(file) # {}
    /\ xref' = Scanned(file)
    /\ size' = MaxId(xref') + 1
    /\ trailer' = TrailerOf(file.sections[Highest(Candidates(file))])
    /\ xrefStart' = 0
    /\ pc' = "recovered"
    /\ UNCHANGED <<file, strict, next, seen>>

GiveUp ==
    /\ pc = "scan"
    /\ DOMAIN file.objects = {} \/ Candidates(file) = {}
    /\ pc' = "failed"
    /\ UNCHANGED <<file, strict, xrefStart, xref, size, trailer, next, seen>>

Next ==
    \/ ReadFirst
    \/ FollowPrev
    \/ ReadHybrid
    \/ EndChain
    \/ Fail
    \/ Reconstruct
    \/ GiveUp

\* Loading is one call: the reader keeps taking steps until it returns.
Spec == Init /\ [][Next]_vars /\ WF_vars(Next)

Opened == pc \in {"resolved", "recovered"}

---------------------------------------------------------------------------
(***************************************************************************)
(* Properties.                                                             *)
(***************************************************************************)
TypeOK ==
    /\ IsBuffer(file)
    /\ strict \in BOOLEAN
    /\ pc \in {"start", "follow", "hybrid", "resolved", "scan", "recovered", "failed"}
    /\ xrefStart \in Nat
    /\ DOMAIN xref \subseteq Nums
    /\ \A n \in DOMAIN xref : xref[n] \in Cells
    /\ size \in Nat
    /\ IsTrailer(trailer)
    /\ IsOptional(next, Int)
    /\ seen \subseteq Int

(***************************************************************************)
(* A buffer that grew by appending revisions: each section lists the       *)
(* objects written since the section before it and leads back to that      *)
(* section, and startxref leads to the last section or nowhere.            *)
(***************************************************************************)
Before(f, p) == {q \in DOMAIN f.sections : q < p}
Since(f, p) == IF Before(f, p) = {} THEN 0 ELSE Highest(Before(f, p)) + 1
Written(f, p) == {q \in DOMAIN f.objects : Since(f, p) <= q /\ q <= p}

LeadsBack(f, s, p) ==
    IF Before(f, p) = {}
    THEN f.sections[p].prev = {}
    ELSE \E o \in f.sections[p].prev :
             InRange(o) /\ Corrected(f, s, o) = Highest(Before(f, p))

Appended(f, s) ==
    /\ DOMAIN f.sections # {}
    /\ \A p \in DOMAIN f.sections :
           /\ f.sections[p].kind # "damaged"
           /\ f.sections[p].stm = {}
           /\ LeadsBack(f, s, p)
           /\ f.sections[p].listed =
                  [n \in {f.objects[q] : q \in Written(f, p)} |->
                      Highest({q \in Written(f, p) : f.objects[q] = n})]
    /\ \A q \in DOMAIN f.objects : q <= Highest(DOMAIN f.sections)
    /\ \A o \in f.start :
           InRange(o) => Corrected(f, s, o) = Highest(DOMAIN f.sections)

\* What an offset leads to.
Leads(f, s, v) == {Corrected(f, s, o) : o \in {x \in v : InRange(x)}}

\* What startxref leads to, and the /Prev of the sections at S.
Onward(f, s, S) ==
    Leads(f, s, f.start) \cup
    UNION {Leads(f, s, f.sections[p].prev) : p \in S \cap DOMAIN f.sections}

Places(f, s) == Onward(f, s, DOMAIN f.sections)

\* Where the /Prev chain leads from startxref: what is in every set it does not leave.
Reached(f, s) == {p \in Places(f, s) : \A S \in SUBSET Places(f, s) : Onward(f, s, S) \subseteq S => p \in S}

\* The chain comes to p only past q.
Ahead(f, s, q, p) ==
    /\ q # p
    /\ \E S \in SUBSET Places(f, s) : Onward(f, s, S) \subseteq S \cup {q} /\ S \cap {p, q} = {}

\* The cross-reference stream the trailer of the newest section names.
Hybrid(f, s) ==
    UNION {Leads(f, s, f.sections[p].stm) : p \in Leads(f, s, f.start) \cap DOMAIN f.sections}

\* Of a buffer that grew by appending, every object is found at its newest copy, and
\* nothing else is found, whether the table was read through the chain or rebuilt by
\* scanning (merge keeps the first entry, the scan the last header); and the catalog is
\* that of the newest revision when all revisions end in tables, even if the trailer
\* had to be searched for.
NewestWins ==
    Opened /\ Appended(file, strict) =>
        LET newest == Highest(Keywords(file)) IN
        /\ xref = Scanned(file)
        /\ Keywords(file) = DOMAIN file.sections /\ file.sections[newest].root \cap DOMAIN xref # {}
           => trailer.root = file.sections[newest].root

\* In any buffer, also one whose sections name each other in a circle, a chain that was
\* followed to its end leaves out no section it reaches, and an object is where the first
\* section on the way that lists it says.  Only the stream of a hybrid file comes in
\* between: it may stand in for an older section, but never for the newest.
FirstListedWins ==
    pc = "resolved" =>
        \A p \in Reached(file, strict) :
            LET listed == file.sections[p].listed IN
            /\ p \in Readable(file) /\ DOMAIN listed \subseteq DOMAIN xref
            /\ \A n \in DOMAIN listed :
                  \/ xref[n] = listed[n]
                  \/ \E q \in Reached(file, strict) :
                        Ahead(file, strict, q, p) /\ n \in DOMAIN file.sections[q].listed
                  \/ /\ p \notin Leads(file, strict, file.start)
                     /\ \E q \in Hybrid(file, strict) : n \in DOMAIN file.sections[q].listed

\* The offset the document remembers, which an incremental update records as
\* /Prev, is where a section really is, so that no reader has to correct it again; and
\* no xref keyword is nearer to what startxref says.
XrefStartIsExact ==
    Opened /\ xrefStart # 0 =>
        /\ xrefStart \in Readable(file)
        /\ \E o \in file.start : \A p \in Keywords(file) : Distance(xrefStart, o) <= Distance(p, o)

\* Whatever the offsets say, also when sections name each other in a circle,
\* the reader comes to an end.
LoadEnds == <>(pc \in {"resolved", "recovered", "failed"})
=============================================================================
