-------------------------- MODULE XrefChainProofs --------------------------
(***************************************************************************)
(* What holds of XrefChain for every set of buffers, every window and      *)
(* every length: types, that the offset the document remembers is where    *)
(* the section startxref means is, that the first section to list an       *)
(* object is the one that counts, that the newest copy of every object is  *)
(* found, and that every step leads on.                                    *)
(***************************************************************************)
EXTENDS XrefChain, FiniteSetTheorems, WellFoundedInduction, TLAPS

\* The image of a finite set under a function is finite.
LEMMA FiniteImage ==
    ASSUME NEW S, IsFiniteSet(S), NEW f, DOMAIN f = S
    PROVE  IsFiniteSet({f[x] : x \in S})
  <1> DEFINE T == {f[x] : x \in S}
             g == [x \in S |-> f[x]]
  <1>1. g \in Surjection(S, T)
    BY DEF Surjection
  <1> QED
    BY <1>1, FS_Surjection

\* A finite non-empty set of natural numbers has a greatest element: of the sets
\* of elements above an element, one is minimal, and it must be empty.
LEMMA GreatestNatural ==
    ASSUME NEW S \in SUBSET Nat, IsFiniteSet(S), S # {}
    PROVE  \E m \in S : \A n \in S : n <= m
  <1> DEFINE Above(m) == {n \in S : n > m}
             T == {Above(m) : m \in S}
             R == StrictSubsetOrdering(S)
  <1>1. IsWellFoundedOn(R, FiniteSubsetsOf(S))
    BY FS_StrictSubsetOrderingWellFounded
  <1>2. T \subseteq FiniteSubsetsOf(S)
    BY FS_Subset DEF FiniteSubsetsOf
  <1>3. T # {}
    OBVIOUS
  <1> HIDE DEF T, R
  <1>4. PICK x \in T : \A y \in T : ~ (<<y, x>> \in R)
    BY <1>1, <1>2, <1>3, WFMin
  <1>5. PICK m \in S : x = Above(m)
    BY <1>4 DEF T
  <1>6. ASSUME NEW n \in S, n > m
        PROVE  FALSE
    <2>1. n \in Above(m) /\ n \notin Above(n)
      BY <1>6
    <2>2. Above(n) \subseteq Above(m)
      <3>1. \A k \in S : k > n => k > m
        <4>1. n \in Nat /\ m \in Nat /\ \A k \in S : k \in Nat
          OBVIOUS
        <4> QED BY <4>1, <1>6
      <3> QED BY <3>1
    <2>3. <<Above(n), x>> \in R
      BY <2>1, <2>2, <1>5 DEF R, StrictSubsetOrdering
    <2>4. Above(n) \in T
      BY DEF T
    <2> QED
      BY <2>3, <2>4, <1>4
  <1> QED
    BY <1>5, <1>6

\* Of the keywords near a miswritten offset there is always a nearest one.
LEMMA NearestExists ==
    ASSUME NEW f \in Files, NEW o \in Int, Nearby(f, o) # {}
    PROVE  /\ Nearest(f, o) \in Nearby(f, o)
           /\ \A q \in Nearby(f, o) \ {Nearest(f, o)} :
                 \/ Distance(Nearest(f, o), o) < Distance(q, o)
                 \/ Distance(Nearest(f, o), o) = Distance(q, o) /\ Nearest(f, o) < q
  <1> DEFINE N == Nearby(f, o)
             Weight(p) == IF p <= o THEN 2 * (o - p) ELSE 2 * (p - o) + 1
             bound == 2 * Window + 2 * Window + 1
             Credit == [p \in N |-> bound - Weight(p)]
  <1>1. N \subseteq Int /\ IsFiniteSet(N)
    <2>1. N \subseteq 0 .. Len - 1
      BY FilesAssumption DEF Nearby, Keywords, IsBuffer, Cells
    <2>2. IsFiniteSet(0 .. Len - 1)
      BY LenAssumption, FS_Interval
    <2>3. 0 .. Len - 1 \subseteq Int
      BY LenAssumption
    <2> HIDE DEF N
    <2>4. IsFiniteSet(N)
      BY <2>1, <2>2, FS_Subset
    <2> QED BY <2>1, <2>3, <2>4
  <1>2. \A p \in N : Credit[p] \in Nat
    <2> SUFFICES ASSUME NEW p \in N PROVE Credit[p] \in Nat
      OBVIOUS
    <2>1. o - Window <= p /\ p < o + Window /\ p \in Int
      BY <1>1 DEF Nearby
    <2>2. bound - Weight(p) \in Nat
      BY <2>1, LenAssumption
    <2> QED BY <2>2
  <1>3. IsFiniteSet({Credit[p] : p \in N})
    BY <1>1, FiniteImage
  <1>4. PICK m \in {Credit[p] : p \in N} : \A n \in {Credit[p] : p \in N} : n <= m
    <2>1. {Credit[p] : p \in N} \in SUBSET Nat
      BY <1>2
    <2>2. {Credit[p] : p \in N} # {}
      OBVIOUS
    <2> HIDE DEF N, Credit
    <2> QED BY <2>1, <2>2, <1>3, GreatestNatural
  <1>5. PICK p \in N : m = Credit[p]
    BY <1>4
  <1>6. \A q \in N \ {p} :
            \/ Distance(p, o) < Distance(q, o)
            \/ Distance(p, o) = Distance(q, o) /\ p < q
    <2> SUFFICES ASSUME NEW q \in N \ {p}
                 PROVE  \/ Distance(p, o) < Distance(q, o)
                        \/ Distance(p, o) = Distance(q, o) /\ p < q
      OBVIOUS
    <2>1. Credit[q] <= Credit[p]
      BY <1>4, <1>5
    <2>2. p \in Int /\ q \in Int /\ p # q
      BY <1>1
    <2>3. bound - Weight(q) <= bound - Weight(p)
      BY <2>1
    <2>4. Weight(p) <= Weight(q)
      BY <2>2, <2>3, LenAssumption
    <2> QED BY <2>2, <2>4 DEF Distance
  <1> QED
    BY <1>5, <1>6 DEF Nearest

\* Correcting a corrected offset changes nothing: the reader does it twice.
LEMMA CorrectedTwice ==
    ASSUME NEW f \in Files, NEW s \in BOOLEAN, NEW o \in Int
    PROVE  /\ Corrected(f, s, o) \in Int
           /\ Corrected(f, s, Corrected(f, s, o)) = Corrected(f, s, o)
  <1>1. CASE \/ s \/ o >= Len \/ o \in Keywords(f) \cup DOMAIN f.objects \/ Nearby(f, o) = {}
    BY <1>1 DEF Corrected
  <1>2. CASE ~ (\/ s \/ o >= Len \/ o \in Keywords(f) \cup DOMAIN f.objects \/ Nearby(f, o) = {})
    <2>1. Corrected(f, s, o) = Nearest(f, o)
      BY <1>2 DEF Corrected
    <2>2. Nearest(f, o) \in Keywords(f)
      BY <1>2, NearestExists DEF Nearby
    <2>3. Keywords(f) \subseteq Int
      BY FilesAssumption, LenAssumption DEF Keywords, IsBuffer, Cells
    <2> QED
      BY <2>1, <2>2, <2>3 DEF Corrected
  <1> QED
    BY <1>1, <1>2

\* No keyword is nearer to an offset than what it is corrected to: those that are not
\* nearby are a window away at least.
LEMMA CorrectedIsNearest ==
    ASSUME NEW f \in Files, NEW s \in BOOLEAN, NEW o \in Int, NEW q \in Keywords(f)
    PROVE  Distance(Corrected(f, s, o), o) <= Distance(q, o)
  <1>1. q \in Int
    BY FilesAssumption, LenAssumption DEF Keywords, IsBuffer, Cells
  <1>2. CASE Corrected(f, s, o) = o
    BY <1>1, <1>2 DEF Distance
  <1>3. CASE Corrected(f, s, o) # o
    <2>1. Corrected(f, s, o) = Nearest(f, o) /\ Nearby(f, o) # {}
      BY <1>3 DEF Corrected
    <2> DEFINE p == Nearest(f, o)
    <2>2. p \in Nearby(f, o) /\ \A r \in Nearby(f, o) \ {p} :
             Distance(p, o) < Distance(r, o) \/ (Distance(p, o) = Distance(r, o) /\ p < r)
      BY <2>1, NearestExists
    <2> HIDE DEF p
    <2>3. p \in Int /\ o - Window <= p /\ p < o + Window
      BY <2>2, FilesAssumption, LenAssumption DEF Nearby, Keywords, IsBuffer, Cells
    <2>4. CASE q \in Nearby(f, o)
      <3>1. Distance(p, o) \in Int /\ Distance(q, o) \in Int
        BY <1>1, <2>3 DEF Distance
      <3>2. q = p \/ Distance(p, o) < Distance(q, o) \/ Distance(p, o) = Distance(q, o)
        BY <2>2, <2>4
      <3>3. Distance(p, o) <= Distance(q, o)
        BY <3>1, <3>2
      <3> QED
        BY <2>1, <3>3 DEF p
    <2>5. CASE q \notin Nearby(f, o)
      <3>1. q < o - Window \/ q >= o + Window
        BY <1>1, <2>5, LenAssumption DEF Nearby
      <3>2. Distance(p, o) <= Distance(q, o)
        BY <1>1, <2>3, <3>1, LenAssumption DEF Distance
      <3> QED
        BY <2>1, <3>2 DEF p
    <2> QED
      BY <2>4, <2>5
  <1> QED
    BY <1>2, <1>3

\* What is known of the entries and of the trailer of a readable section.
LEMMA SectionFacts ==
    ASSUME NEW f \in Files, NEW p \in DOMAIN f.sections
    PROVE  /\ IsSection(f.sections[p])
           /\ IsTrailer(f.sections[p])
           /\ p \in Nat \ {0}
  BY FilesAssumption, LenAssumption DEF IsBuffer, IsSection, Cells

EntriesOk(x) == DOMAIN x \subseteq Nums /\ \A n \in DOMAIN x : x[n] \in Cells

NoneNearer(f, x) == \E o \in f.start : \A p \in Keywords(f) : Distance(x, o) <= Distance(p, o)

\* While the chain is followed the trailer has no /Prev left.
PrevIsOut == pc \in {"follow", "hybrid", "resolved"} => trailer.prev = {}

\* The inductive invariant: besides the types, while the chain is followed and
\* after it, the remembered offset is that of a section that parses, and of no section
\* farther from what startxref says than another.
ChainInv ==
    /\ TypeOK
    /\ file \in Files
    /\ PrevIsOut
    /\ pc \in {"follow", "hybrid", "resolved"} =>
          /\ xrefStart \in Readable(file)
          /\ NoneNearer(file, xrefStart)
    /\ pc = "recovered" => xrefStart = 0
    /\ pc = "start" => DOMAIN xref = {}

LEMMA ListedOk ==
    ASSUME NEW f \in Files, NEW p \in DOMAIN f.sections
    PROVE  EntriesOk(f.sections[p].listed)
  BY SectionFacts DEF IsSection, EntriesOk

LEMMA MergeOk ==
    ASSUME NEW x, NEW y, EntriesOk(x), EntriesOk(y)
    PROVE  EntriesOk(Merge(x, y))
  BY DEF EntriesOk, Merge

LEMMA HighestOk ==
    ASSUME NEW S \in SUBSET Nat, IsFiniteSet(S), S # {}
    PROVE  Highest(S) \in S
  BY GreatestNatural DEF Highest

LEMMA MaxIdOk ==
    ASSUME NEW x, DOMAIN x \subseteq Nums
    PROVE  MaxId(x) \in Nat
  <1>1. IsFiniteSet(DOMAIN x) /\ DOMAIN x \subseteq Nat
    BY NumsAssumption, FS_Subset
  <1> QED
    BY <1>1, HighestOk DEF MaxId

LEMMA ScannedOk ==
    ASSUME NEW f \in Files
    PROVE  EntriesOk(Scanned(f))
  <1>1. DOMAIN f.objects \subseteq Cells /\ \A p \in DOMAIN f.objects : f.objects[p] \in Nums
    BY FilesAssumption DEF IsBuffer
  <1>2. ASSUME NEW n \in DOMAIN Scanned(f) PROVE Scanned(f)[n] \in Cells
    <2> DEFINE C == {p \in DOMAIN f.objects : f.objects[p] = n}
    <2>1. C # {} /\ C \subseteq Cells
      BY <1>1, <1>2 DEF Scanned
    <2>2. IsFiniteSet(Cells) /\ Cells \subseteq Nat
      BY LenAssumption, FS_Interval DEF Cells
    <2>3. IsFiniteSet(C) /\ C \subseteq Nat
      BY <2>1, <2>2, FS_Subset
    <2>4. Scanned(f)[n] = Highest(C)
      BY <1>2 DEF Scanned
    <2> HIDE DEF C
    <2> QED BY <2>1, <2>3, <2>4, HighestOk
  <1>3. DOMAIN Scanned(f) \subseteq Nums
    BY <1>1 DEF Scanned
  <1> QED
    BY <1>2, <1>3 DEF EntriesOk

---------------------------------------------------------------------------
\* The section an accepted offset leads to.
LEMMA UsableSection ==
    ASSUME file \in Files, NEW o \in Int, Usable(o)
    PROVE  /\ Corrected(file, strict, o) \in Readable(file)
           /\ EntriesOk(SectionAt(o).listed)
           /\ IsTrailer(SectionAt(o))
  <1>1. Corrected(file, strict, o) \in Readable(file)
    BY DEF Usable
  <1>2. Corrected(file, strict, o) \in DOMAIN file.sections
    BY <1>1 DEF Readable
  <1> QED
    BY <1>1, <1>2, SectionFacts, ListedOk DEF SectionAt

LEMMA ChainInvInit == Init => ChainInv
  <1> SUFFICES ASSUME Init PROVE ChainInv
    OBVIOUS
  <1>1. IsBuffer(file) /\ file \in Files
    BY FilesAssumption DEF Init
  <1>2. DOMAIN xref = {}
    BY DEF Init
  <1>3. IsTrailer(trailer) /\ IsOptional(next, Int)
    BY DEF Init, IsTrailer, IsOptional, NoTrailer
  <1> QED
    BY <1>1, <1>2, <1>3 DEF Init, ChainInv, TypeOK, PrevIsOut

LEMMA ChainInvStep == ChainInv /\ [Next]_vars => ChainInv'
  <1> SUFFICES ASSUME ChainInv, [Next]_vars PROVE ChainInv'
    OBVIOUS
  <1> USE DEF ChainInv
  <1>0. /\ TypeOK /\ file \in Files /\ EntriesOk(xref)
        /\ IsOptional(next, Int) /\ IsTrailer(trailer)
    BY DEF TypeOK, EntriesOk
  <1>1. CASE ReadFirst
    <2>1. PICK o \in file.start :
             LET c == Corrected(file, strict, o) IN
             /\ InRange(o) /\ Usable(c)
             /\ xrefStart' = c
             /\ xref' = SectionAt(c).listed
             /\ trailer' = [prev |-> {}, stm |-> SectionAt(c).stm, root |-> SectionAt(c).root]
             /\ next' = SectionAt(c).prev
      BY <1>1 DEF ReadFirst
    <2> DEFINE c == Corrected(file, strict, o)
    <2>2. strict \in BOOLEAN /\ o \in Int
      BY <1>0 DEF TypeOK, IsBuffer, IsOptional
    <2>3. c \in Int /\ Corrected(file, strict, c) = c
      BY <1>0, <2>2, CorrectedTwice
    <2>4. /\ c \in Readable(file)
          /\ EntriesOk(SectionAt(c).listed)
          /\ IsTrailer(SectionAt(c))
      BY <1>0, <2>1, <2>3, UsableSection
    <2>5. c \in Nat \ {0}
      BY <2>4, <1>0, SectionFacts DEF Readable
    <2>6. IsTrailer(trailer') /\ IsOptional(next', Int)
      BY <2>1, <2>4 DEF IsTrailer, IsOptional
    <2>7. EntriesOk(xref')
      BY <2>1, <2>4
    <2>8. NoneNearer(file, c)
      BY <1>0, <2>1, <2>2, CorrectedIsNearest DEF NoneNearer
    <2>9. trailer'.prev = {}
      BY <2>1
    <2>10. TypeOK'
      BY <1>1, <1>0, <2>1, <2>4, <2>5, <2>6, <2>7 DEF ReadFirst, TypeOK, EntriesOk
    <2>11. xrefStart' = c /\ file' = file /\ pc' = "follow"
      BY <1>1, <2>1 DEF ReadFirst
    <2> HIDE DEF c
    <2> QED
      BY <1>0, <2>4, <2>8, <2>9, <2>10, <2>11 DEF PrevIsOut
  <1>2. CASE FollowPrev
    <2>1. PICK o \in next \ seen :
             /\ Usable(o)
             /\ seen' = seen \cup {o}
             /\ xref' = Merge(xref, SectionAt(o).listed)
             /\ next' = SectionAt(o).prev
      BY <1>2 DEF FollowPrev
    <2>2. o \in Int
      BY <1>0 DEF IsOptional
    <2>3. EntriesOk(SectionAt(o).listed) /\ IsTrailer(SectionAt(o))
      BY <1>0, <2>1, <2>2, UsableSection
    <2>4. EntriesOk(xref') /\ IsOptional(next', Int)
      BY <1>0, <2>1, <2>3, MergeOk DEF IsTrailer
    <2>5. seen' \subseteq Int
      BY <2>1, <2>2 DEF TypeOK
    <2> QED
      BY <1>2, <1>0, <2>4, <2>5 DEF FollowPrev, TypeOK, EntriesOk, PrevIsOut
  <1>3. CASE ReadHybrid
    <2>1. EntriesOk(xref')
      <3>1. CASE trailer.stm = {} /\ xref' = xref
        BY <3>1, <1>0
      <3>2. CASE \E o \in trailer.stm :
                    Usable(o) /\ xref' = Merge(xref, SectionAt(o).listed)
        BY <3>2, <1>0, UsableSection, MergeOk DEF IsTrailer, IsOptional
      <3> QED BY <1>3, <3>1, <3>2 DEF ReadHybrid
    <2>2. IsTrailer(trailer')
      <3>1. trailer' = [trailer EXCEPT !.stm = {}]
        BY <1>3 DEF ReadHybrid
      <3>2. trailer'.prev = trailer.prev /\ trailer'.root = trailer.root
        BY <3>1
      <3>3. trailer'.stm \subseteq {}
        BY <3>1
      <3> QED BY <3>2, <3>3, <1>0 DEF IsTrailer, IsOptional
    <2>3. trailer'.prev = trailer.prev
      BY <1>3, <1>0 DEF ReadHybrid, IsTrailer
    <2> QED
      BY <1>3, <1>0, <2>1, <2>2, <2>3 DEF ReadHybrid, TypeOK, EntriesOk, PrevIsOut
  <1>4. CASE EndChain
    <2>1. size' \in Nat
      BY <1>4, <1>0, MaxIdOk DEF EndChain, EntriesOk
    <2> QED
      BY <1>4, <1>0, <2>1 DEF EndChain, TypeOK, PrevIsOut
  <1>5. CASE Fail
    <2>1. DOMAIN xref' = {} /\ IsTrailer(trailer') /\ IsOptional(next', Int)
      BY <1>5 DEF Fail, NoTrailer, IsTrailer, IsOptional
    <2> QED
      BY <1>5, <1>0, <2>1 DEF Fail, TypeOK, PrevIsOut
  <1>6. CASE Reconstruct
    <2>1. EntriesOk(xref')
      BY <1>6, <1>0, ScannedOk DEF Reconstruct
    <2>2. size' \in Nat
      BY <1>6, <2>1, MaxIdOk DEF Reconstruct, EntriesOk
    <2>3. IsTrailer(trailer')
      <3>1. Candidates(file) \subseteq DOMAIN file.sections
        BY DEF Candidates, Inspected, Keywords
      <3>2. DOMAIN file.sections \subseteq Nat /\ IsFiniteSet(DOMAIN file.sections)
        <4>1. DOMAIN file.sections \subseteq Cells
          BY <1>0, FilesAssumption DEF IsBuffer
        <4>2. IsFiniteSet(Cells) /\ Cells \subseteq Nat
          BY LenAssumption, FS_Interval DEF Cells
        <4> QED BY <4>1, <4>2, FS_Subset
      <3>3. Highest(Candidates(file)) \in DOMAIN file.sections
        <4>1. IsFiniteSet(Candidates(file))
          BY <3>1, <3>2, FS_Subset
        <4> QED BY <1>6, <3>1, <3>2, <4>1, HighestOk DEF Reconstruct
      <3>4. IsTrailer(file.sections[Highest(Candidates(file))])
        BY <1>0, <3>3, SectionFacts
      <3> QED
        BY <1>6, <3>4 DEF Reconstruct, TrailerOf, IsTrailer, IsOptional
    <2> QED
      BY <1>6, <1>0, <2>1, <2>2, <2>3 DEF Reconstruct, TypeOK, EntriesOk, PrevIsOut
  <1>7. CASE GiveUp
    BY <1>7, <1>0 DEF GiveUp, TypeOK, PrevIsOut
  <1>8. CASE UNCHANGED vars
    BY <1>8, <1>0 DEF vars, TypeOK, PrevIsOut
  <1> QED
    BY <1>1, <1>2, <1>3, <1>4, <1>5, <1>6, <1>7, <1>8 DEF Next

LEMMA ChainInvAlways == Spec => []ChainInv
  BY ChainInvInit, ChainInvStep, PTL DEF Spec

\* Types, for every set of buffers; and the /Prev of the newest trailer is taken out of
\* it before the chain is followed, so that the document does not inherit it.
THEOREM ChainTypes == Spec => [](TypeOK /\ PrevIsOut)
  <1>1. ChainInv => TypeOK /\ PrevIsOut
    BY DEF ChainInv
  <1> QED BY <1>1, ChainInvAlways, PTL

\* The offset a document remembers, and an incremental update records as /Prev,
\* is that of a section that parses as it stands (resolve_xref_and_trailer
\* corrects before it records).
THEOREM RememberedOffsetIsExact == Spec => []XrefStartIsExact
  <1>1. ChainInv => XrefStartIsExact
    BY DEF ChainInv, XrefStartIsExact, Opened, NoneNearer
  <1> QED BY <1>1, ChainInvAlways, PTL

---------------------------------------------------------------------------
(***************************************************************************)
(* That the newest copy is found.                                          *)
(***************************************************************************)
LEMMA HighestIs ==
    ASSUME NEW S \in SUBSET Nat, IsFiniteSet(S), S # {}
    PROVE  Highest(S) \in S /\ \A q \in S : q <= Highest(S)
  BY GreatestNatural DEF Highest

LEMMA HighestIsOnly ==
    ASSUME NEW S \in SUBSET Nat, NEW m \in S, \A q \in S : q <= m
    PROVE  Highest(S) = m
  <1>1. \A k \in S : (\A q \in S : q <= k) => k = m
    <2> SUFFICES ASSUME NEW k \in S, \A q \in S : q <= k PROVE k = m
      OBVIOUS
    <2>1. k <= m /\ m <= k /\ k \in Nat /\ m \in Nat
      OBVIOUS
    <2> QED
      BY <2>1
  <1> QED
    BY <1>1 DEF Highest

LEMMA CellsOf ==
    ASSUME NEW f \in Files
    PROVE  /\ DOMAIN f.sections \subseteq Nat /\ IsFiniteSet(DOMAIN f.sections)
           /\ DOMAIN f.objects \subseteq Nat /\ IsFiniteSet(DOMAIN f.objects)
  <1>1. DOMAIN f.sections \subseteq Cells /\ DOMAIN f.objects \subseteq Cells
    BY FilesAssumption DEF IsBuffer
  <1>2. IsFiniteSet(Cells) /\ Cells \subseteq Nat
    BY LenAssumption, FS_Interval DEF Cells
  <1> QED
    BY <1>1, <1>2, FS_Subset

\* The newest copies among the objects from a cell on.
From(f, lo) == {q \in DOMAIN f.objects : lo <= q}

NewestOf(f, S) ==
    [n \in {f.objects[q] : q \in S} |-> Highest({q \in S : f.objects[q] = n})]

LEMMA ScannedIsNewest ==
    ASSUME NEW f \in Files
    PROVE  Scanned(f) = NewestOf(f, From(f, 0))
  <1>1. From(f, 0) = DOMAIN f.objects
    BY CellsOf DEF From
  <1>2. Scanned(f) = NewestOf(f, DOMAIN f.objects)
    BY DEF Scanned, NewestOf
  <1> QED
    BY <1>1, <1>2

LEMMA SinceShape ==
    ASSUME NEW f \in Files, NEW p \in DOMAIN f.sections
    PROVE  /\ Since(f, p) \in Nat /\ Since(f, p) <= p
           /\ Before(f, p) = {} => Since(f, p) = 0
           /\ Before(f, p) # {} => /\ Highest(Before(f, p)) \in DOMAIN f.sections
                                  /\ Highest(Before(f, p)) < p
                                  /\ Since(f, p) = Highest(Before(f, p)) + 1
  <1>1. DOMAIN f.sections \subseteq Nat /\ IsFiniteSet(DOMAIN f.sections)
    BY CellsOf
  <1>2. Before(f, p) \subseteq DOMAIN f.sections /\ \A q \in Before(f, p) : q < p
    BY DEF Before
  <1>3. CASE Before(f, p) = {}
    BY <1>1, <1>3 DEF Since
  <1>4. CASE Before(f, p) # {}
    <2>1. IsFiniteSet(Before(f, p)) /\ Before(f, p) \in SUBSET Nat
      BY <1>1, <1>2, FS_Subset
    <2>2. Highest(Before(f, p)) \in Before(f, p)
      BY <1>4, <2>1, HighestIs
    <2> QED
      BY <1>1, <1>2, <1>4, <2>2 DEF Since
  <1> QED
    BY <1>3, <1>4

\* Merging the entries of a section below those of all later cells gives those from
\* the section before it on.
LEMMA MergedBelow ==
    ASSUME NEW f \in Files, NEW p \in DOMAIN f.sections
    PROVE  Merge(NewestOf(f, From(f, p + 1)), NewestOf(f, Written(f, p)))
               = NewestOf(f, From(f, Since(f, p)))
  <1> DEFINE U == From(f, p + 1)
             W == Written(f, p)
             A == From(f, Since(f, p))
             Copies(S, n) == {q \in S : f.objects[q] = n}
  <1>1. /\ U \subseteq DOMAIN f.objects /\ W \subseteq DOMAIN f.objects
        /\ A \subseteq DOMAIN f.objects
        /\ DOMAIN f.objects \subseteq Nat /\ IsFiniteSet(DOMAIN f.objects)
    BY CellsOf DEF From, Written
  <1>2. /\ \A q : q \in A <=> q \in U \/ q \in W
        /\ \A q \in U, r \in W : r < q
    <2>1. p \in Nat /\ Since(f, p) \in Nat /\ Since(f, p) <= p
      BY CellsOf, SinceShape
    <2>2. \A q \in DOMAIN f.objects : q \in Nat
      BY <1>1
    <2> QED
      BY <2>1, <2>2 DEF From, Written
  <1> HIDE DEF U, W, A
  <1> DEFINE x == NewestOf(f, U)
             y == NewestOf(f, W)
             z == NewestOf(f, A)
             m == Merge(x, y)
  <1>3. /\ DOMAIN m = DOMAIN x \cup DOMAIN y
        /\ m = [n \in DOMAIN m |-> m[n]]
        /\ \A n \in DOMAIN m : m[n] = IF n \in DOMAIN x THEN x[n] ELSE y[n]
    BY DEF Merge
  <1>4. z = [n \in DOMAIN z |-> z[n]]
    BY DEF NewestOf
  <1>5. /\ \A n : n \in DOMAIN x <=> \E q \in U : f.objects[q] = n
        /\ \A n \in DOMAIN x : x[n] = Highest(Copies(U, n))
    BY DEF NewestOf
  <1>6. /\ \A n : n \in DOMAIN y <=> \E q \in W : f.objects[q] = n
        /\ \A n \in DOMAIN y : y[n] = Highest(Copies(W, n))
    BY DEF NewestOf
  <1>7. /\ \A n : n \in DOMAIN z <=> \E q \in A : f.objects[q] = n
        /\ \A n \in DOMAIN z : z[n] = Highest(Copies(A, n))
    BY DEF NewestOf
  <1> HIDE DEF x, y, z, m
  <1>8. DOMAIN m = DOMAIN z
    <2>1. \A n : n \in DOMAIN m <=> n \in DOMAIN z
      BY <1>2, <1>3, <1>5, <1>6, <1>7
    <2> QED
      BY <2>1, <1>3
  <1>9. ASSUME NEW n \in DOMAIN z
        PROVE  m[n] = z[n]
    <2>1. CASE n \in DOMAIN x
      <3> DEFINE C == Copies(U, n)
                 D == Copies(A, n)
                 h == Highest(C)
      <3>1. C \in SUBSET Nat /\ IsFiniteSet(C) /\ C # {}
        BY <1>1, <1>5, <2>1, FS_Subset
      <3>2. D \in SUBSET Nat /\ C \subseteq D /\ \A q \in D \ C : q \in W
        BY <1>1, <1>2
      <3>3. C \subseteq U
        OBVIOUS
      <3> HIDE DEF C, D
      <3>4. h \in C /\ \A q \in C : q <= h
        BY <3>1, HighestIs
      <3>5. \A q \in D : q <= h
        <4> TAKE q \in D
        <4>1. CASE q \in C
          BY <3>4, <4>1
        <4>2. CASE q \notin C
          <5>1. q < h /\ q \in Nat /\ h \in Nat
            BY <1>2, <3>1, <3>2, <3>3, <3>4, <4>2
          <5> QED
            BY <5>1
        <4> QED
          BY <4>1, <4>2
      <3>6. Highest(D) = h
        <4>1. h \in D
          BY <3>2, <3>4
        <4> HIDE DEF h
        <4> QED
          BY <3>2, <3>5, <4>1, HighestIsOnly
      <3>7. x[n] = h
        BY <1>5, <2>1 DEF C
      <3>8. z[n] = Highest(D)
        BY <1>7 DEF D
      <3>9. m[n] = x[n]
        BY <1>3, <1>8, <2>1
      <3> QED
        BY <3>6, <3>7, <3>8, <3>9
    <2>2. CASE n \notin DOMAIN x
      <3>1. Copies(A, n) = Copies(W, n)
        BY <1>2, <1>5, <2>2
      <3>2. n \in DOMAIN y /\ m[n] = y[n]
        BY <1>3, <1>8, <2>2
      <3>3. y[n] = Highest(Copies(W, n)) /\ z[n] = Highest(Copies(A, n))
        BY <1>6, <1>7, <3>2
      <3> QED
        BY <3>1, <3>2, <3>3
    <2> QED
      BY <2>1, <2>2
  <1>10. m = z
    BY <1>3, <1>4, <1>8, <1>9
  <1> QED
    BY <1>10 DEF x, y, z, m, U, W, A
---------------------------------------------------------------------------
Following == pc \in {"follow", "hybrid", "resolved"}

\* Every section that startxref or a followed /Prev leads to could be read and was
\* merged, and its own /Prev was followed or is the next to be.
MergedInv ==
    /\ pc = "start" => seen = {}
    /\ Following =>
          \A o \in file.start \cup seen :
              InRange(o) =>
                  /\ Corrected(file, strict, o) \in Readable(file)
                  /\ DOMAIN SectionAt(o).listed \subseteq DOMAIN xref
                  /\ SectionAt(o).prev \subseteq seen \cup next
    /\ pc = "resolved" => next \subseteq seen

\* In a buffer that grew by appending, the reader is at a section p: it has the newest
\* copies of what was written since the section before p, /Prev of p is the next it
\* follows, and it has not been further back than p.
AppendedInv ==
    Following /\ Appended(file, strict) =>
        /\ \E p \in DOMAIN file.sections :
              /\ xref = NewestOf(file, From(file, Since(file, p)))
              /\ next = file.sections[p].prev
              /\ \A o \in seen : p <= Corrected(file, strict, o)
        /\ trailer.stm = {}
        /\ trailer.root = file.sections[Highest(DOMAIN file.sections)].root

RecoveredInv ==
    pc = "recovered" =>
        /\ xref = Scanned(file)
        /\ Candidates(file) # {}
        /\ trailer = TrailerOf(file.sections[Highest(Candidates(file))])

LEMMA MergedInvInit == Init => MergedInv
  BY DEF Init, MergedInv, Following

LEMMA MergedInvStep == ChainInv /\ MergedInv /\ [Next]_vars => MergedInv'
  <1> SUFFICES ASSUME ChainInv, MergedInv, [Next]_vars PROVE MergedInv'
    OBVIOUS
  <1> DEFINE Merged(o) ==
                 InRange(o) =>
                     /\ Corrected(file, strict, o) \in Readable(file)
                     /\ DOMAIN SectionAt(o).listed \subseteq DOMAIN xref
                     /\ SectionAt(o).prev \subseteq seen \cup next
  <1>0. /\ file \in Files /\ strict \in BOOLEAN
        /\ IsOptional(file.start, Nat) /\ IsOptional(next, Int)
    BY DEF ChainInv, TypeOK, IsBuffer
  <1>1. CASE ReadFirst
    <2>1. PICK o \in file.start :
             LET c == Corrected(file, strict, o) IN
             /\ InRange(o) /\ Usable(c)
             /\ xref' = SectionAt(c).listed
             /\ next' = SectionAt(c).prev
      BY <1>1 DEF ReadFirst
    <2>2. \A q \in file.start : q = o
      BY <1>0, <2>1 DEF IsOptional
    <2>3. o \in Int
      BY <1>0, <2>1 DEF IsOptional
    <2>4. Corrected(file, strict, Corrected(file, strict, o)) = Corrected(file, strict, o)
      BY <1>0, <2>3, CorrectedTwice
    <2>5. /\ Corrected(file, strict, o) \in Readable(file)
          /\ SectionAt(Corrected(file, strict, o)) = SectionAt(o)
      BY <2>1, <2>4 DEF Usable, SectionAt
    <2>6. seen = {} /\ seen' = {} /\ file' = file /\ strict' = strict /\ pc' = "follow"
      BY <1>1 DEF ReadFirst, MergedInv
    <2>7. xref' = SectionAt(o).listed /\ next' = SectionAt(o).prev /\ SectionAt(o)' = SectionAt(o)
      BY <2>1, <2>5, <2>6 DEF SectionAt
    <2> QED
      BY <2>2, <2>5, <2>6, <2>7 DEF MergedInv, Following, SectionAt
  <1>2. CASE FollowPrev
    <2>1. PICK o \in next \ seen :
             /\ Usable(o)
             /\ seen' = seen \cup {o}
             /\ xref' = Merge(xref, SectionAt(o).listed)
             /\ next' = SectionAt(o).prev
      BY <1>2 DEF FollowPrev
    <2>2. next \subseteq seen'
      BY <1>0, <2>1 DEF IsOptional
    <2>3. /\ pc = "follow" /\ file' = file /\ strict' = strict /\ pc' = "hybrid"
          /\ DOMAIN xref' = DOMAIN xref \cup DOMAIN SectionAt(o).listed
      BY <1>2, <2>1 DEF FollowPrev, Merge
    <2>4. \A q \in file.start \cup seen : Merged(q)
      BY <2>3 DEF MergedInv, Following
    <2>5. \A q \in file.start \cup seen' : Merged(q)'
      <3> SUFFICES ASSUME NEW q \in file.start \cup seen' PROVE Merged(q)'
        OBVIOUS
      <3>1. CASE q \in file.start \cup seen
        BY <2>1, <2>2, <2>3, <2>4, <3>1 DEF SectionAt
      <3>2. CASE q = o
        BY <2>1, <2>3, <3>2 DEF SectionAt, Usable
      <3> QED
        BY <2>1, <3>1, <3>2
    <2> QED
      BY <2>3, <2>5 DEF MergedInv, Following
  <1>3. CASE ReadHybrid
    <2>1. /\ pc = "hybrid" /\ file' = file /\ strict' = strict /\ pc' = "follow"
          /\ seen' = seen /\ next' = next /\ DOMAIN xref \subseteq DOMAIN xref'
      BY <1>3 DEF ReadHybrid, Merge
    <2>2. \A q \in file.start \cup seen : Merged(q)
      BY <2>1 DEF MergedInv, Following
    <2>3. \A q \in file.start \cup seen : Merged(q)'
      BY <2>1, <2>2 DEF SectionAt
    <2> QED
      BY <2>1, <2>3 DEF MergedInv, Following
  <1>4. CASE EndChain
    <2>1. /\ pc = "follow" /\ file' = file /\ strict' = strict /\ pc' = "resolved"
          /\ seen' = seen /\ next' = next /\ xref' = xref /\ next \subseteq seen
      BY <1>4 DEF EndChain
    <2> QED
      BY <2>1 DEF MergedInv, Following, SectionAt
  <1>5. CASE Fail
    BY <1>5 DEF Fail, MergedInv, Following
  <1>6. CASE Reconstruct
    BY <1>6 DEF Reconstruct, MergedInv, Following
  <1>7. CASE GiveUp
    BY <1>7 DEF GiveUp, MergedInv, Following
  <1>8. CASE UNCHANGED vars
    BY <1>8 DEF vars, MergedInv, Following, SectionAt
  <1> QED
    BY <1>1, <1>2, <1>3, <1>4, <1>5, <1>6, <1>7, <1>8 DEF Next

---------------------------------------------------------------------------
\* The sections of a buffer that grew by appending, for an accepted offset.
LEMMA AppendedSection ==
    ASSUME NEW f \in Files, NEW s, Appended(f, s), NEW p \in DOMAIN f.sections
    PROVE  /\ f.sections[p].stm = {}
           /\ LeadsBack(f, s, p)
           /\ f.sections[p].listed = NewestOf(f, Written(f, p))
  BY DEF Appended, NewestOf

LEMMA NewestSection ==
    ASSUME NEW f \in Files, NEW s, Appended(f, s)
    PROVE  /\ Highest(DOMAIN f.sections) \in DOMAIN f.sections
           /\ Written(f, Highest(DOMAIN f.sections))
                  = From(f, Since(f, Highest(DOMAIN f.sections)))
  <1>1. DOMAIN f.sections \in SUBSET Nat /\ IsFiniteSet(DOMAIN f.sections) /\ DOMAIN f.sections # {}
    BY CellsOf DEF Appended
  <1>2. Highest(DOMAIN f.sections) \in DOMAIN f.sections
    BY <1>1, HighestIs
  <1>3. \A q \in DOMAIN f.objects : q <= Highest(DOMAIN f.sections)
    BY DEF Appended
  <1> QED
    BY <1>2, <1>3 DEF Written, From

LEMMA AppendedInvInit == Init => AppendedInv
  BY DEF Init, AppendedInv, Following

LEMMA AppendedInvStep == ChainInv /\ MergedInv /\ AppendedInv /\ [Next]_vars => AppendedInv'
  <1> SUFFICES ASSUME ChainInv, MergedInv, AppendedInv, [Next]_vars,
                      Following', Appended(file, strict)'
               PROVE  /\ \E p \in DOMAIN file'.sections :
                            /\ xref' = NewestOf(file', From(file', Since(file', p)))
                            /\ next' = file'.sections[p].prev
                            /\ \A o \in seen' : p <= Corrected(file', strict', o)
                      /\ trailer'.stm = {}
                      /\ trailer'.root = file'.sections[Highest(DOMAIN file'.sections)].root
    BY DEF AppendedInv
  <1>0. /\ file \in Files /\ strict \in BOOLEAN
        /\ IsOptional(file.start, Nat) /\ IsOptional(next, Int) /\ seen \subseteq Int
    BY DEF ChainInv, TypeOK, IsBuffer
  <1>a. file' = file /\ strict' = strict
    BY DEF Next, vars, ReadFirst, FollowPrev, ReadHybrid, EndChain, Fail, Reconstruct, GiveUp
  <1>b. Appended(file, strict)
    BY <1>a
  <1> DEFINE At(p) == /\ xref = NewestOf(file, From(file, Since(file, p)))
                      /\ next = file.sections[p].prev
                      /\ \A o \in seen : p <= Corrected(file, strict, o)
  <1>1. CASE ReadFirst
    <2>1. PICK o \in file.start :
             LET c == Corrected(file, strict, o) IN
             /\ InRange(o) /\ Usable(c)
             /\ xref' = SectionAt(c).listed
             /\ trailer' = [prev |-> {}, stm |-> SectionAt(c).stm, root |-> SectionAt(c).root]
             /\ next' = SectionAt(c).prev
      BY <1>1 DEF ReadFirst
    <2> DEFINE h == Highest(DOMAIN file.sections)
    <2>2. o \in Int
      BY <1>0, <2>1 DEF IsOptional
    <2>3. Corrected(file, strict, o) = h
      BY <1>b, <2>1 DEF Appended
    <2>4. Corrected(file, strict, h) = h
      BY <1>0, <2>2, <2>3, CorrectedTwice
    <2>5. SectionAt(Corrected(file, strict, o)) = file.sections[h]
      BY <2>3, <2>4 DEF SectionAt
    <2>6. h \in DOMAIN file.sections /\ Written(file, h) = From(file, Since(file, h))
      BY <1>0, <1>b, NewestSection
    <2>7. file.sections[h].stm = {} /\ file.sections[h].listed = NewestOf(file, Written(file, h))
      BY <1>0, <1>b, <2>6, AppendedSection
    <2>8. seen' = {}
      BY <1>1 DEF ReadFirst, MergedInv
    <2>9. /\ xref' = NewestOf(file, From(file, Since(file, h)))
          /\ next' = file.sections[h].prev
          /\ trailer'.stm = {} /\ trailer'.root = file.sections[h].root
      BY <2>1, <2>5, <2>6, <2>7
    <2> QED
      BY <1>a, <2>6, <2>8, <2>9
  <1>2. CASE FollowPrev
    <2>1. PICK o \in next \ seen :
             /\ Usable(o)
             /\ seen' = seen \cup {o}
             /\ xref' = Merge(xref, SectionAt(o).listed)
             /\ next' = SectionAt(o).prev
      BY <1>2 DEF FollowPrev
    <2>2. /\ trailer' = trailer /\ trailer.stm = {}
          /\ trailer.root = file.sections[Highest(DOMAIN file.sections)].root
      BY <1>2, <1>b DEF FollowPrev, AppendedInv, Following
    <2>3. PICK p \in DOMAIN file.sections : At(p)
      BY <1>2, <1>b DEF FollowPrev, AppendedInv, Following
    <2> DEFINE h == Highest(Before(file, p))
    <2>4. LeadsBack(file, strict, p)
      BY <1>0, <1>b, AppendedSection
    <2>5. Before(file, p) # {}
      BY <2>1, <2>3, <2>4 DEF LeadsBack
    <2>6. Corrected(file, strict, o) = h
      <3>1. \E q \in next : Corrected(file, strict, q) = h
        BY <2>3, <2>4, <2>5 DEF LeadsBack
      <3>2. \A q \in next : q = o
        BY <1>0, <2>1 DEF IsOptional
      <3> QED
        BY <3>1, <3>2
    <2>7. /\ h \in DOMAIN file.sections /\ h < p
          /\ Since(file, p) = h + 1 /\ p \in Nat /\ h \in Nat
      BY <1>0, <2>5, SinceShape, CellsOf
    <2>8. SectionAt(o) = file.sections[h]
      BY <2>6 DEF SectionAt
    <2> HIDE DEF h
    <2>9. file.sections[h].listed = NewestOf(file, Written(file, h))
      BY <1>0, <1>b, <2>7, AppendedSection
    <2>10. Merge(NewestOf(file, From(file, h + 1)), NewestOf(file, Written(file, h)))
              = NewestOf(file, From(file, Since(file, h)))
      BY <1>0, <2>7, MergedBelow
    <2>11. xref' = NewestOf(file, From(file, Since(file, h)))
      BY <2>1, <2>3, <2>7, <2>8, <2>9, <2>10
    <2>12. \A q \in seen' : h <= Corrected(file, strict, q)
      <3> SUFFICES ASSUME NEW q \in seen' PROVE h <= Corrected(file, strict, q)
        OBVIOUS
      <3>1. CASE q = o
        BY <2>6, <2>7, <3>1
      <3>2. CASE q \in seen
        <4>1. p <= Corrected(file, strict, q) /\ Corrected(file, strict, q) \in Int
          BY <1>0, <2>3, <3>2, CorrectedTwice
        <4> QED
          BY <2>7, <4>1
      <3> QED
        BY <2>1, <3>1, <3>2
    <2> QED
      BY <1>a, <2>1, <2>2, <2>7, <2>8, <2>11, <2>12
  <1>3. CASE ReadHybrid
    <2>1. trailer.stm = {} /\ trailer.root = file.sections[Highest(DOMAIN file.sections)].root
      BY <1>3, <1>b DEF ReadHybrid, AppendedInv, Following
    <2>2. xref' = xref /\ seen' = seen /\ next' = next
      BY <1>3, <2>1 DEF ReadHybrid
    <2>3. trailer'.stm = {} /\ trailer'.root = trailer.root
      BY <1>3 DEF ReadHybrid, ChainInv, TypeOK, IsTrailer
    <2>4. PICK p \in DOMAIN file.sections : At(p)
      BY <1>3, <1>b DEF ReadHybrid, AppendedInv, Following
    <2> QED
      BY <1>a, <2>1, <2>2, <2>3, <2>4
  <1>4. CASE EndChain
    <2>1. xref' = xref /\ seen' = seen /\ next' = next /\ trailer' = trailer /\ Following
      BY <1>4 DEF EndChain, Following
    <2> QED
      BY <1>a, <1>b, <2>1 DEF AppendedInv
  <1>5. CASE Fail
    BY <1>5 DEF Fail, Following
  <1>6. CASE Reconstruct
    BY <1>6 DEF Reconstruct, Following
  <1>7. CASE GiveUp
    BY <1>7 DEF GiveUp, Following
  <1>8. CASE UNCHANGED vars
    BY <1>8, <1>b DEF vars, AppendedInv, Following
  <1> QED
    BY <1>1, <1>2, <1>3, <1>4, <1>5, <1>6, <1>7, <1>8 DEF Next

LEMMA RecoveredInvInit == Init => RecoveredInv
  BY DEF Init, RecoveredInv

LEMMA RecoveredInvStep == RecoveredInv /\ [Next]_vars => RecoveredInv'
  <1> SUFFICES ASSUME RecoveredInv, [Next]_vars PROVE RecoveredInv'
    OBVIOUS
  <1>1. CASE Reconstruct
    BY <1>1 DEF Reconstruct, RecoveredInv
  <1>2. CASE UNCHANGED vars
    BY <1>2 DEF vars, RecoveredInv
  <1>3. CASE ReadFirst \/ FollowPrev \/ ReadHybrid \/ EndChain \/ Fail \/ GiveUp
    <2>1. pc' # "recovered"
      BY <1>3 DEF ReadFirst, FollowPrev, ReadHybrid, EndChain, Fail, GiveUp
    <2> QED
      BY <2>1 DEF RecoveredInv
  <1> QED
    BY <1>1, <1>2, <1>3 DEF Next

LEMMA ReadInvAlways == Spec => [](ChainInv /\ MergedInv /\ AppendedInv /\ RecoveredInv)
  <1>1. Init => ChainInv /\ MergedInv /\ AppendedInv /\ RecoveredInv
    BY ChainInvInit, MergedInvInit, AppendedInvInit, RecoveredInvInit
  <1>2. ChainInv /\ MergedInv /\ AppendedInv /\ RecoveredInv /\ [Next]_vars
            => ChainInv' /\ MergedInv' /\ AppendedInv' /\ RecoveredInv'
    BY ChainInvStep, MergedInvStep, AppendedInvStep, RecoveredInvStep
  <1> QED
    BY <1>1, <1>2, PTL DEF Spec

---------------------------------------------------------------------------
(***************************************************************************)
(* That the first section to list an object is the one that counts.        *)
(***************************************************************************)
ListedBy(f, P) == UNION {DOMAIN f.sections[p].listed : p \in P}

\* An entry a section lists is that of the section, or of one before it.
Placed(f, s, D, x, p, n) ==
    \/ x[n] = f.sections[p].listed[n]
    \/ \E q \in D : Ahead(f, s, q, p) /\ n \in DOMAIN f.sections[q].listed
    \/ p \notin Leads(f, s, f.start) /\ n \in ListedBy(f, Hybrid(f, s))

\* The sections at D have been merged into x in the order the chain comes to them.
Ordered(f, s, D, x) ==
    /\ Leads(f, s, f.start) \subseteq D /\ D \subseteq Reached(f, s)
    /\ \A q \in D : \E S \in SUBSET D : q \notin S /\ Onward(f, s, S) \subseteq S \cup {q}
    /\ DOMAIN x \subseteq ListedBy(f, D) \cup ListedBy(f, Hybrid(f, s))
    /\ \A p \in D : \A n \in DOMAIN f.sections[p].listed :
          n \in DOMAIN x /\ Placed(f, s, D, x, p, n)

LEMMA ReachedOn ==
    ASSUME NEW f, NEW s
    PROVE  /\ Leads(f, s, f.start) \subseteq Reached(f, s)
           /\ \A r \in Reached(f, s) \cap DOMAIN f.sections :
                 Leads(f, s, f.sections[r].prev) \subseteq Reached(f, s)
           /\ Reached(f, s) \subseteq Places(f, s)
           /\ \A S \in SUBSET Places(f, s) : Onward(f, s, S) \subseteq S => Reached(f, s) \subseteq S
  <1>1. ASSUME NEW S, NEW r \in S \cap DOMAIN f.sections
        PROVE  Leads(f, s, f.sections[r].prev) \subseteq Onward(f, s, S)
    BY DEF Onward
  <1>2. \A S : Leads(f, s, f.start) \subseteq Onward(f, s, S)
    BY DEF Onward
  <1>3. Leads(f, s, f.start) \subseteq Reached(f, s)
    BY <1>2 DEF Reached, Places
  <1>4. ASSUME NEW r \in Reached(f, s) \cap DOMAIN f.sections, NEW v \in Leads(f, s, f.sections[r].prev)
        PROVE  v \in Reached(f, s)
    <2>1. v \in Places(f, s)
      BY <1>1 DEF Places
    <2>2. ASSUME NEW S \in SUBSET Places(f, s), Onward(f, s, S) \subseteq S
          PROVE  v \in S
      <3>1. r \in S \cap DOMAIN f.sections
        BY <2>2 DEF Reached
      <3> QED
        BY <1>1, <2>2, <3>1
    <2> QED
      BY <2>1, <2>2 DEF Reached
  <1> QED
    BY <1>3, <1>4 DEF Reached

\* Merging leaves what is there alone.
LEMMA PlacedStays ==
    ASSUME NEW f, NEW s, NEW D, NEW E, D \subseteq E, NEW x, NEW y,
           NEW p, NEW n \in DOMAIN x, Placed(f, s, D, x, p, n)
    PROVE  n \in DOMAIN Merge(x, y) /\ Placed(f, s, E, Merge(x, y), p, n)
  <1>1. n \in DOMAIN Merge(x, y) /\ Merge(x, y)[n] = x[n]
    BY DEF Merge
  <1> QED
    BY <1>1 DEF Placed

LEMMA OrderedHybrid ==
    ASSUME NEW f, NEW s, NEW D, NEW x, Ordered(f, s, D, x), NEW h \in Hybrid(f, s)
    PROVE  Ordered(f, s, D, Merge(x, f.sections[h].listed))
  <1> DEFINE y == f.sections[h].listed
  <1>1. DOMAIN Merge(x, y) = DOMAIN x \cup DOMAIN y /\ DOMAIN y \subseteq ListedBy(f, Hybrid(f, s))
    BY DEF Merge, ListedBy
  <1> HIDE DEF y
  <1>2. DOMAIN Merge(x, y) \subseteq ListedBy(f, D) \cup ListedBy(f, Hybrid(f, s))
    BY <1>1 DEF Ordered
  <1>3. ASSUME NEW p \in D, NEW n \in DOMAIN f.sections[p].listed
        PROVE  n \in DOMAIN Merge(x, y) /\ Placed(f, s, D, Merge(x, y), p, n)
    <2>1. n \in DOMAIN x /\ Placed(f, s, D, x, p, n)
      BY DEF Ordered
    <2> QED
      BY <2>1, PlacedStays
  <1>4. /\ Leads(f, s, f.start) \subseteq D /\ D \subseteq Reached(f, s)
        /\ \A q \in D : \E S \in SUBSET D : q \notin S /\ Onward(f, s, S) \subseteq S \cup {q}
    BY DEF Ordered
  <1>5. Ordered(f, s, D, Merge(x, y))
    BY <1>2, <1>3, <1>4 DEF Ordered
  <1> QED
    BY <1>5 DEF y

\* A section the chain comes to anew has what was merged before it ahead of it.
LEMMA OrderedNext ==
    ASSUME NEW f, NEW s, NEW D, NEW x, Ordered(f, s, D, x),
           NEW p \in Reached(f, s), Onward(f, s, D) \subseteq D \cup {p}
    PROVE  Ordered(f, s, D \cup {p}, Merge(x, f.sections[p].listed))
  <1> DEFINE y == f.sections[p].listed
             E == D \cup {p}
             z == Merge(x, y)
  <1>1. DOMAIN z = DOMAIN x \cup DOMAIN y /\ \A n \in DOMAIN z : z[n] = IF n \in DOMAIN x THEN x[n] ELSE y[n]
    BY DEF Merge
  <1>2. ListedBy(f, E) = ListedBy(f, D) \cup DOMAIN y
    BY DEF ListedBy
  <1> HIDE DEF z
  <1>3. DOMAIN z \subseteq ListedBy(f, E) \cup ListedBy(f, Hybrid(f, s))
    BY <1>1, <1>2 DEF Ordered
  <1>4. Leads(f, s, f.start) \subseteq D /\ D \subseteq Reached(f, s)
        /\ \A q \in D : \E S \in SUBSET D : q \notin S /\ Onward(f, s, S) \subseteq S \cup {q}
    BY DEF Ordered
  <1>5. ASSUME NEW q \in E
        PROVE  \E S \in SUBSET E : q \notin S /\ Onward(f, s, S) \subseteq S \cup {q}
    <2>1. CASE q \in D
      BY <1>4, <2>1
    <2>2. CASE q \notin D
      BY <2>2
    <2> QED
      BY <2>1, <2>2
  <1>6. ASSUME NEW r \in D, NEW n \in DOMAIN f.sections[r].listed
        PROVE  n \in DOMAIN z /\ Placed(f, s, E, z, r, n)
    <2>1. n \in DOMAIN x /\ Placed(f, s, D, x, r, n)
      BY DEF Ordered
    <2> QED
      BY <2>1, PlacedStays DEF z
  <1>7. ASSUME p \notin D, NEW n \in DOMAIN y
        PROVE  n \in DOMAIN z /\ Placed(f, s, E, z, p, n)
    <2>1. n \in DOMAIN z
      BY <1>1
    <2>2. CASE n \notin DOMAIN x
      BY <1>1, <2>1, <2>2 DEF Placed
    <2>3. CASE n \in ListedBy(f, Hybrid(f, s))
      BY <1>4, <1>7, <2>1, <2>3 DEF Placed
    <2>4. CASE n \in ListedBy(f, D)
      <3>1. PICK q \in D : n \in DOMAIN f.sections[q].listed
        BY <2>4 DEF ListedBy
      <3>2. PICK S \in SUBSET D : q \notin S /\ Onward(f, s, S) \subseteq S \cup {q}
        BY <1>4
      <3>3. S \in SUBSET Places(f, s)
        BY <1>4, ReachedOn
      <3>4. Ahead(f, s, q, p)
        BY <1>7, <3>2, <3>3 DEF Ahead
      <3> QED
        BY <2>1, <3>1, <3>4 DEF Placed
    <2> QED
      BY <2>2, <2>3, <2>4 DEF Ordered
  <1>8. \A r \in E : \A n \in DOMAIN f.sections[r].listed : n \in DOMAIN z /\ Placed(f, s, E, z, r, n)
    BY <1>6, <1>7
  <1>9. Leads(f, s, f.start) \subseteq E /\ E \subseteq Reached(f, s)
    BY <1>4
  <1> HIDE DEF E
  <1>10. Ordered(f, s, E, z)
    BY <1>3, <1>5, <1>8, <1>9 DEF Ordered
  <1> QED
    BY <1>10 DEF E, z

LEMMA OrderedFirst ==
    ASSUME NEW f, NEW s, NEW p, Leads(f, s, f.start) = {p}
    PROVE  Ordered(f, s, {p}, f.sections[p].listed)
  <1>1. {p} \subseteq Reached(f, s)
    BY ReachedOn
  <1>2. Onward(f, s, {}) \subseteq {} \cup {p}
    BY DEF Onward
  <1>3. \A q \in {p} : \E S \in SUBSET {p} : q \notin S /\ Onward(f, s, S) \subseteq S \cup {q}
    BY <1>2
  <1> QED
    BY <1>1, <1>3 DEF Ordered, Placed, ListedBy

\* What has been merged so far, where the chain goes on, and which stream is still to come.
Done == Leads(file, strict, file.start \cup seen)

OrderInv ==
    Following =>
        /\ Ordered(file, strict, Done, xref)
        /\ \E r \in Done \cap DOMAIN file.sections : next = file.sections[r].prev
        /\ Leads(file, strict, trailer.stm) \subseteq Hybrid(file, strict)

LEMMA OrderInvInit == Init => OrderInv
  BY DEF Init, OrderInv, Following

LEMMA OrderInvStep == ChainInv /\ MergedInv /\ OrderInv /\ [Next]_vars => OrderInv'
  <1> SUFFICES ASSUME ChainInv, MergedInv, OrderInv, [Next]_vars, Following'
               PROVE  /\ Ordered(file', strict', Done', xref')
                      /\ \E r \in Done' \cap DOMAIN file'.sections : next' = file'.sections[r].prev
                      /\ Leads(file', strict', trailer'.stm) \subseteq Hybrid(file', strict')
    BY DEF OrderInv
  <1>0. /\ file \in Files /\ strict \in BOOLEAN
        /\ IsOptional(file.start, Nat) /\ IsOptional(next, Int) /\ IsTrailer(trailer)
    BY DEF ChainInv, TypeOK, IsBuffer
  <1>1. CASE ReadFirst
    <2>1. PICK o \in file.start :
             LET c == Corrected(file, strict, o) IN
             /\ InRange(o) /\ Usable(c)
             /\ xref' = SectionAt(c).listed
             /\ trailer' = [prev |-> {}, stm |-> SectionAt(c).stm, root |-> SectionAt(c).root]
             /\ next' = SectionAt(c).prev
      BY <1>1 DEF ReadFirst
    <2> DEFINE p == Corrected(file, strict, o)
    <2>2. o \in Int /\ \A q \in file.start : q = o
      BY <1>0, <2>1 DEF IsOptional
    <2>3. Corrected(file, strict, p) = p
      BY <1>0, <2>2, CorrectedTwice
    <2>4. /\ p \in DOMAIN file.sections /\ xref' = file.sections[p].listed
          /\ next' = file.sections[p].prev /\ trailer'.stm = file.sections[p].stm
      BY <2>1, <2>3 DEF Usable, SectionAt, Readable
    <2>5. seen' = {} /\ file' = file /\ strict' = strict
      BY <1>1 DEF ReadFirst, MergedInv
    <2>6. Leads(file, strict, file.start) = {p} /\ Done' = {p}
      BY <2>1, <2>2, <2>5 DEF Leads, Done
    <2> HIDE DEF p
    <2>7. Ordered(file, strict, {p}, xref')
      BY <2>4, <2>6, OrderedFirst
    <2>8. Leads(file, strict, trailer'.stm) \subseteq Hybrid(file, strict)
      BY <2>4, <2>6 DEF Hybrid
    <2> QED
      BY <2>4, <2>5, <2>6, <2>7, <2>8
  <1>2. CASE FollowPrev
    <2>1. PICK o \in next \ seen :
             /\ Usable(o)
             /\ seen' = seen \cup {o}
             /\ xref' = Merge(xref, SectionAt(o).listed)
             /\ next' = SectionAt(o).prev
      BY <1>2 DEF FollowPrev
    <2>2. file' = file /\ strict' = strict /\ trailer' = trailer /\ Following
      BY <1>2 DEF FollowPrev, Following
    <2> DEFINE p == Corrected(file, strict, o)
    <2>3. InRange(o) /\ p \in DOMAIN file.sections /\ next = {o}
      BY <1>0, <2>1 DEF Usable, Readable, IsOptional
    <2>4. Done' = Done \cup {p}
      BY <2>1, <2>2, <2>3 DEF Done, Leads
    <2>5. /\ Ordered(file, strict, Done, xref) /\ Leads(file, strict, trailer.stm) \subseteq Hybrid(file, strict)
          /\ \E r \in Done \cap DOMAIN file.sections : next = file.sections[r].prev
      BY <2>2 DEF OrderInv
    <2>6. p \in Reached(file, strict)
      <3>1. PICK r \in Done \cap DOMAIN file.sections : next = file.sections[r].prev
        BY <2>5
      <3>2. r \in Reached(file, strict)
        BY <2>5 DEF Ordered
      <3>3. p \in Leads(file, strict, next)
        BY <2>3 DEF Leads
      <3> QED
        BY <3>1, <3>2, <3>3, ReachedOn
    <2>7. Onward(file, strict, Done) \subseteq Done \cup {p}
      <3>1. ASSUME NEW r \in Done \cap DOMAIN file.sections
            PROVE  Leads(file, strict, file.sections[r].prev) \subseteq Done \cup {p}
        <4>1. PICK q \in file.start \cup seen : InRange(q) /\ r = Corrected(file, strict, q)
          BY DEF Done, Leads
        <4>2. file.sections[r].prev \subseteq seen \cup {o}
          BY <2>2, <2>3, <4>1 DEF MergedInv, SectionAt
        <4> QED
          BY <4>2 DEF Done, Leads
      <3>2. Leads(file, strict, file.start) \subseteq Done
        BY DEF Done, Leads
      <3> QED
        BY <3>1, <3>2 DEF Onward
    <2>8. SectionAt(o) = file.sections[p]
      BY DEF SectionAt
    <2> HIDE DEF p
    <2>9. Ordered(file, strict, Done', xref')
      BY <2>1, <2>4, <2>5, <2>6, <2>7, <2>8, OrderedNext
    <2> QED
      BY <2>1, <2>2, <2>3, <2>4, <2>5, <2>8, <2>9
  <1>3. CASE ReadHybrid
    <2>1. /\ file' = file /\ strict' = strict /\ seen' = seen /\ next' = next /\ Following
          /\ trailer'.stm = {}
      BY <1>0, <1>3 DEF ReadHybrid, Following, IsTrailer, ChainInv, TypeOK
    <2>2. Done' = Done
      BY <2>1 DEF Done
    <2>3. /\ Ordered(file, strict, Done, xref) /\ Leads(file, strict, trailer.stm) \subseteq Hybrid(file, strict)
          /\ \E r \in Done \cap DOMAIN file.sections : next = file.sections[r].prev
      BY <2>1 DEF OrderInv
    <2>4. Ordered(file, strict, Done, xref')
      <3>1. CASE xref' = xref
        BY <2>3, <3>1
      <3>2. CASE \E o \in trailer.stm : Usable(o) /\ xref' = Merge(xref, SectionAt(o).listed)
        <4>1. PICK o \in trailer.stm : Usable(o) /\ xref' = Merge(xref, SectionAt(o).listed)
          BY <3>2
        <4>2. Corrected(file, strict, o) \in Hybrid(file, strict)
          BY <2>3, <4>1 DEF Usable, Leads
        <4> QED
          BY <2>3, <4>1, <4>2, OrderedHybrid DEF SectionAt
      <3> QED
        BY <1>3, <3>1, <3>2 DEF ReadHybrid
    <2>5. Leads(file, strict, trailer'.stm) = {}
      BY <2>1 DEF Leads
    <2> QED
      BY <2>1, <2>2, <2>3, <2>4, <2>5
  <1>4. CASE EndChain \/ UNCHANGED vars
    <2>1. /\ file' = file /\ strict' = strict /\ seen' = seen /\ next' = next
          /\ xref' = xref /\ trailer' = trailer /\ Following
      BY <1>4 DEF EndChain, vars, Following
    <2>2. Done' = Done
      BY <2>1 DEF Done
    <2> QED
      BY <2>1, <2>2 DEF OrderInv
  <1>5. CASE Fail \/ Reconstruct \/ GiveUp
    BY <1>5 DEF Fail, Reconstruct, GiveUp, Following
  <1> QED
    BY <1>1, <1>2, <1>3, <1>4, <1>5 DEF Next

\* A chain followed to its end: what it merged is all it reaches, and could be read.
LEMMA ChainIsComplete ==
    ASSUME ChainInv, MergedInv, OrderInv, pc = "resolved"
    PROVE  Reached(file, strict) = Done /\ Done \subseteq Readable(file)
  <1>1. Ordered(file, strict, Done, xref)
    BY DEF OrderInv, Following
  <1>2. ASSUME NEW r \in Done
        PROVE  r \in Readable(file) /\ Leads(file, strict, file.sections[r].prev) \subseteq Done
    <2>1. PICK q \in file.start \cup seen : InRange(q) /\ r = Corrected(file, strict, q)
      BY DEF Done, Leads
    <2>2. r \in Readable(file) /\ file.sections[r].prev \subseteq seen
      BY <2>1 DEF MergedInv, Following, SectionAt
    <2> QED
      BY <2>2 DEF Done, Leads
  <1>3. Onward(file, strict, Done) \subseteq Done
    BY <1>1, <1>2 DEF Onward, Ordered
  <1>4. Done \subseteq Reached(file, strict)
    BY <1>1 DEF Ordered
  <1>5. Reached(file, strict) \subseteq Done
    BY <1>3, <1>4, ReachedOn
  <1> QED
    BY <1>2, <1>4, <1>5

\* In any buffer, however its sections name each other, a chain read to its end has left
\* out no section it reaches, and every object is where the first section to list it says
\* (Xref::merge under the loop of resolve_xref_and_trailer); the stream of a hybrid file
\* stands in for none but the older sections.
THEOREM FirstListingCounts == Spec => []FirstListedWins
  <1>1. ChainInv /\ MergedInv /\ OrderInv => FirstListedWins
    <2> SUFFICES ASSUME ChainInv, MergedInv, OrderInv, pc = "resolved", NEW p \in Reached(file, strict)
                 PROVE  LET listed == file.sections[p].listed IN
                        /\ p \in Readable(file) /\ DOMAIN listed \subseteq DOMAIN xref
                        /\ \A n \in DOMAIN listed :
                              \/ xref[n] = listed[n]
                              \/ \E q \in Reached(file, strict) :
                                    Ahead(file, strict, q, p) /\ n \in DOMAIN file.sections[q].listed
                              \/ /\ p \notin Leads(file, strict, file.start)
                                 /\ \E q \in Hybrid(file, strict) : n \in DOMAIN file.sections[q].listed
      BY DEF FirstListedWins
    <2>1. Reached(file, strict) = Done /\ Done \subseteq Readable(file)
      BY ChainIsComplete
    <2>2. Ordered(file, strict, Done, xref)
      BY DEF OrderInv, Following
    <2>3. \A n \in DOMAIN file.sections[p].listed : n \in DOMAIN xref /\ Placed(file, strict, Done, xref, p, n)
      BY <2>1, <2>2 DEF Ordered
    <2> QED
      BY <2>1, <2>3 DEF Placed, ListedBy
  <1> QED
    BY <1>1, ReadInvAlways, OrderInvInit, OrderInvStep, PTL DEF Spec

\* A chain followed to its end in a buffer that grew by appending ends at its oldest
\* section.
LEMMA ResolvedIsNewest ==
    ASSUME ChainInv, MergedInv, AppendedInv, pc = "resolved", Appended(file, strict)
    PROVE  /\ xref = Scanned(file)
           /\ trailer.root = file.sections[Highest(DOMAIN file.sections)].root
  <1>0. file \in Files /\ strict \in BOOLEAN /\ seen \subseteq Int
    BY DEF ChainInv, TypeOK
  <1>1. PICK p \in DOMAIN file.sections :
             /\ xref = NewestOf(file, From(file, Since(file, p)))
             /\ next = file.sections[p].prev
             /\ \A o \in seen : p <= Corrected(file, strict, o)
    BY DEF AppendedInv, Following
  <1>2. Before(file, p) = {}
    <2> SUFFICES ASSUME Before(file, p) # {} PROVE FALSE
      OBVIOUS
    <2>1. LeadsBack(file, strict, p)
      BY <1>0, AppendedSection
    <2>2. PICK o \in next : Corrected(file, strict, o) = Highest(Before(file, p))
      BY <1>1, <2>1 DEF LeadsBack
    <2>3. p <= Corrected(file, strict, o)
      BY <1>1, <2>2 DEF MergedInv
    <2>4. Highest(Before(file, p)) < p /\ p \in Nat /\ Highest(Before(file, p)) \in Nat
      BY <1>0, SinceShape, CellsOf
    <2> HIDE DEF Before
    <2> QED
      BY <2>2, <2>3, <2>4
  <1>3. xref = Scanned(file)
    BY <1>0, <1>1, <1>2, SinceShape, ScannedIsNewest
  <1> QED
    BY <1>3 DEF AppendedInv, Following

\* A rebuilt table whose newest trailer names a catalog that was found takes that
\* trailer: it is among those inspected, if any is.
LEMMA RecoveredIsNewest ==
    ASSUME ChainInv, RecoveredInv, pc = "recovered",
           file.sections[Highest(Keywords(file))].root \cap DOMAIN xref # {}
    PROVE  trailer.root = file.sections[Highest(Keywords(file))].root
  <1> DEFINE k == Highest(Keywords(file))
  <1>1. /\ xref = Scanned(file) /\ Candidates(file) # {}
        /\ trailer = TrailerOf(file.sections[Highest(Candidates(file))])
    BY DEF RecoveredInv
  <1>2. /\ Keywords(file) \in SUBSET Nat /\ IsFiniteSet(Keywords(file))
        /\ Candidates(file) \subseteq Inspected(file) /\ Inspected(file) \subseteq Keywords(file)
    <2>1. DOMAIN file.sections \subseteq Nat /\ IsFiniteSet(DOMAIN file.sections)
      BY CellsOf DEF ChainInv
    <2>2. Keywords(file) \subseteq DOMAIN file.sections
      BY DEF Keywords
    <2> QED
      BY <2>1, <2>2, FS_Subset DEF Candidates, Inspected
  <1>3. k \in Keywords(file) /\ \A q \in Keywords(file) : q <= k
    BY <1>1, <1>2, HighestIs
  <1>4. k \in Inspected(file)
    <2> DEFINE Later(q) == {r \in Keywords(file) : r >= q}
    <2>1. PICK p \in Keywords(file) : Cardinality(Later(p)) <= MaxTrailers
      BY <1>1, <1>2 DEF Inspected
    <2>2. Later(k) = {k}
      BY <1>2, <1>3
    <2>3. Later(k) \subseteq Later(p) /\ IsFiniteSet(Later(p))
      <3>1. p \in Nat /\ k \in Nat /\ p <= k
        BY <1>2, <1>3
      <3>2. IsFiniteSet(Later(p))
        BY <1>2, FS_Subset
      <3> QED
        BY <1>3, <2>2, <3>1, <3>2
    <2>4. Cardinality(Later(k)) <= Cardinality(Later(p)) /\ IsFiniteSet(Later(k))
      BY <2>3, FS_Subset
    <2>5. Cardinality(Later(k)) \in Nat /\ Cardinality(Later(p)) \in Nat
      BY <2>3, <2>4, FS_CardinalityType
    <2>6. Cardinality(Later(k)) <= MaxTrailers
      BY <2>1, <2>4, <2>5, MaxTrailersAssumption
    <2> QED
      BY <1>3, <2>6 DEF Inspected
  <1>5. k \in Candidates(file)
    BY <1>1, <1>4 DEF Candidates
  <1>6. Highest(Candidates(file)) = k
    <2>1. Candidates(file) \in SUBSET Nat /\ \A q \in Candidates(file) : q <= k
      BY <1>2, <1>3
    <2> HIDE DEF k
    <2> QED
      BY <1>5, <2>1, HighestIsOnly
  <1> QED
    BY <1>1, <1>6 DEF TrailerOf

\* Of a buffer that grew by appending the newest copies are found and no others, through
\* the chain or by the scan, with the catalog of the newest revision (Xref::merge,
\* resolve_xref_and_trailer and reconstruct_xref_and_trailer).
THEOREM NewestCopiesWin == Spec => []NewestWins
  <1>1. ChainInv /\ MergedInv /\ AppendedInv /\ RecoveredInv => NewestWins
    <2> SUFFICES ASSUME ChainInv, MergedInv, AppendedInv, RecoveredInv
                 PROVE  NewestWins
      OBVIOUS
    <2>1. ASSUME Opened, Appended(file, strict)
          PROVE  xref = Scanned(file)
      BY <2>1, ResolvedIsNewest DEF Opened, RecoveredInv
    <2>2. ASSUME Opened, Appended(file, strict), Keywords(file) = DOMAIN file.sections,
                 file.sections[Highest(Keywords(file))].root \cap DOMAIN xref # {}
          PROVE  trailer.root = file.sections[Highest(Keywords(file))].root
      BY <2>2, ResolvedIsNewest, RecoveredIsNewest DEF Opened
    <2> QED
      BY <2>1, <2>2 DEF NewestWins
  <1> QED
    BY <1>1, ReadInvAlways, PTL

---------------------------------------------------------------------------
(***************************************************************************)
(* Every step leads towards the end.                                       *)
(***************************************************************************)

\* The offsets followed so far are offsets of the buffer, each of them once.
FollowedOk ==
    /\ pc = "start" => seen = {}
    /\ seen \subseteq 0 .. Len

\* How many steps are left at most: two for each offset that was not followed
\* yet, and those of the recovery.
Unfollowed == Len + 1 - Cardinality(seen)
ToGo ==
    CASE pc = "start"  -> 2 * Unfollowed + 4
      [] pc = "hybrid" -> 2 * Unfollowed + 4
      [] pc = "follow" -> 2 * Unfollowed + 3
      [] pc = "scan"   -> 1
      [] OTHER         -> 0

LEMMA FollowedInit == Init => FollowedOk
  BY DEF Init, FollowedOk

LEMMA FollowedStep == FollowedOk /\ ChainInv /\ [Next]_vars => FollowedOk'
  <1> SUFFICES ASSUME FollowedOk, ChainInv, [Next]_vars
               PROVE  FollowedOk'
    OBVIOUS
  <1>1. CASE FollowPrev
    <2>1. PICK o \in next \ seen : Usable(o) /\ seen' = seen \cup {o}
      BY <1>1 DEF FollowPrev
    <2>2. o \in 0 .. Len
      BY <2>1, LenAssumption DEF Usable, InRange, ChainInv, TypeOK, IsOptional
    <2> QED
      BY <1>1, <2>1, <2>2 DEF FollowPrev, FollowedOk
  <1>2. CASE ReadFirst
    BY <1>2 DEF ReadFirst, FollowedOk
  <1>3. CASE ReadHybrid
    BY <1>3 DEF ReadHybrid, FollowedOk
  <1>4. CASE EndChain
    BY <1>4 DEF EndChain, FollowedOk
  <1>5. CASE Fail
    BY <1>5 DEF Fail, FollowedOk
  <1>6. CASE Reconstruct
    BY <1>6 DEF Reconstruct, FollowedOk
  <1>7. CASE GiveUp
    BY <1>7 DEF GiveUp, FollowedOk
  <1>8. CASE UNCHANGED vars
    BY <1>8 DEF vars, FollowedOk
  <1> QED
    BY <1>1, <1>2, <1>3, <1>4, <1>5, <1>6, <1>7, <1>8 DEF Next

\* At most all Len + 1 offsets are followed.
LEMMA UnfollowedOk ==
    ASSUME FollowedOk
    PROVE  Unfollowed \in Nat /\ IsFiniteSet(seen) /\ Cardinality(seen) \in Nat
  <1>1. IsFiniteSet(0 .. Len) /\ Cardinality(0 .. Len) = Len + 1
    BY LenAssumption, FS_Interval
  <1>2. IsFiniteSet(seen) /\ Cardinality(seen) <= Cardinality(0 .. Len)
    BY <1>1, FS_Subset DEF FollowedOk
  <1>3. Cardinality(seen) \in Nat
    BY <1>2, FS_CardinalityType
  <1> QED
    BY <1>1, <1>2, <1>3, LenAssumption DEF Unfollowed

LEMMA StepLeadsOn ==
    ASSUME FollowedOk, FollowedOk', Next
    PROVE  ToGo' \in Nat /\ ToGo' < ToGo
  <1>1. Unfollowed \in Nat /\ IsFiniteSet(seen) /\ Cardinality(seen) \in Nat
    BY UnfollowedOk
  <1>2. CASE ReadFirst
    <2>1. pc = "start" /\ pc' = "follow" /\ seen' = seen
      BY <1>2 DEF ReadFirst
    <2>2. Unfollowed' = Unfollowed
      BY <2>1 DEF Unfollowed
    <2> QED
      BY <1>1, <2>1, <2>2 DEF ToGo
  <1>3. CASE FollowPrev
    <2>1. PICK o \in next \ seen : seen' = seen \cup {o}
      BY <1>3 DEF FollowPrev
    <2>2. Cardinality(seen') = Cardinality(seen) + 1
      BY <1>1, <2>1, FS_AddElement
    <2>3. Unfollowed' = Unfollowed - 1
      BY <1>1, <2>2, LenAssumption DEF Unfollowed
    <2>4. Unfollowed' \in Nat
      <3>1. IsFiniteSet(0 .. Len) /\ Cardinality(0 .. Len) = Len + 1
        BY LenAssumption, FS_Interval
      <3>2. Cardinality(seen') <= Cardinality(0 .. Len)
        BY <3>1, FS_Subset DEF FollowedOk
      <3> QED
        BY <1>1, <2>2, <3>1, <3>2, LenAssumption DEF Unfollowed
    <2>5. pc = "follow" /\ pc' = "hybrid"
      BY <1>3 DEF FollowPrev
    <2> QED
      BY <1>1, <2>3, <2>4, <2>5 DEF ToGo
  <1>4. CASE ReadHybrid
    <2>1. pc = "hybrid" /\ pc' = "follow" /\ seen' = seen
      BY <1>4 DEF ReadHybrid
    <2>2. Unfollowed' = Unfollowed
      BY <2>1 DEF Unfollowed
    <2> QED
      BY <1>1, <2>1, <2>2 DEF ToGo
  <1>5. CASE EndChain
    <2>1. pc = "follow" /\ pc' = "resolved"
      BY <1>5 DEF EndChain
    <2> QED
      BY <1>1, <2>1 DEF ToGo
  <1>6. CASE Fail
    <2>1. pc \in {"start", "follow", "hybrid"} /\ pc' \in {"failed", "scan"}
      BY <1>6 DEF Fail, Broken
    <2> QED
      BY <1>1, <2>1 DEF ToGo
  <1>7. CASE Reconstruct \/ GiveUp
    <2>1. pc = "scan" /\ pc' \in {"recovered", "failed"}
      BY <1>7 DEF Reconstruct, GiveUp
    <2> QED
      BY <2>1 DEF ToGo
  <1> QED
    BY <1>2, <1>3, <1>4, <1>5, <1>6, <1>7 DEF Next

\* The reader comes to an end whatever the offsets say, also when sections name each
\* other in a circle: each step of resolve_xref_and_trailer and of the recovery leaves
\* fewer steps to take, because already_seen lets no offset of the buffer be followed
\* twice.  No execution has more than 2 * (Len + 1) + 4 steps.
THEOREM EveryStepLeadsOn ==
    Spec => [][ToGo' \in Nat /\ ToGo' < ToGo]_vars
  <1>1. FollowedOk /\ FollowedOk' /\ [Next]_vars => [ToGo' \in Nat /\ ToGo' < ToGo]_vars
    BY StepLeadsOn
  <1> QED
    BY <1>1, ChainInvAlways, FollowedInit, FollowedStep, PTL DEF Spec
=============================================================================
