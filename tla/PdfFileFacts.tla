----------------------------- MODULE PdfFileFacts -----------------------------
(***************************************************************************)
(* Facts about finite sets of numbers, and what the operators of PdfFile   *)
(* preserve and bound, for the proofs of the modules that are built from   *)
(* them.                                                                   *)
(***************************************************************************)
EXTENDS PdfFile, FiniteSetTheorems, WellFoundedInduction, TLAPS

\* The image of a finite set under a function is finite.
LEMMA FiniteImage ==
    ASSUME NEW S, IsFiniteSet(S), NEW f, DOMAIN f = S
    PROVE  IsFiniteSet({f[x] : x \in S})
  <1> DEFINE T == {f[x] : x \in S}
             g == [x \in S |-> f[x]]
  <1>1. g \in Surjection(S, T)
    BY DEF Surjection
  <1> QED
    BY <1>1, FS_Surjection

\* A finite non-empty set of natural numbers has a greatest element: of the sets
\* of elements above an element, one is minimal, and it must be empty.
LEMMA GreatestNatural ==
    ASSUME NEW S \in SUBSET Nat, IsFiniteSet(S), S # {}
    PROVE  \E m \in S : \A n \in S : n <= m
  <1> DEFINE Above(m) == {n \in S : n > m}
             T == {Above(m) : m \in S}
             R == StrictSubsetOrdering(S)
  <1>1. IsWellFoundedOn(R, FiniteSubsetsOf(S))
    BY FS_StrictSubsetOrderingWellFounded
  <1>2. T \subseteq FiniteSubsetsOf(S)
    BY FS_Subset DEF FiniteSubsetsOf
  <1>3. T # {}
    OBVIOUS
  <1> HIDE DEF T, R
  <1>4. PICK x \in T : \A y \in T : ~ (<<y, x>> \in R)
    BY <1>1, <1>2, <1>3, WFMin
  <1>5. PICK m \in S : x = Above(m)
    BY <1>4 DEF T
  <1>6. ASSUME NEW n \in S, n > m
        PROVE  FALSE
    <2>1. n \in Above(m) /\ n \notin Above(n)
      BY <1>6
    <2>2. Above(n) \subseteq Above(m)
      <3>1. \A k \in S : k > n => k > m
        <4>1. n \in Nat /\ m \in Nat /\ \A k \in S : k \in Nat
          OBVIOUS
        <4> QED BY <4>1, <1>6
      <3> QED BY <3>1
    <2>3. <<Above(n), x>> \in R
      BY <2>1, <2>2, <1>5 DEF R, StrictSubsetOrdering
    <2>4. Above(n) \in T
      BY DEF T
    <2> QED
      BY <2>3, <2>4, <1>4
  <1> QED
    BY <1>5, <1>6

\* So has it a least one: the distances from the greatest have a greatest.
LEMMA LeastNatural ==
    ASSUME NEW S \in SUBSET Nat, IsFiniteSet(S), S # {}
    PROVE  \E m \in S : \A n \in S : m <= n
  <1>1. PICK g \in S : \A n \in S : n <= g
    BY GreatestNatural
  <1> DEFINE far == [n \in S |-> g - n]
             D == {far[n] : n \in S}
  <1>2. IsFiniteSet(D)
    BY FiniteImage
  <1>3. D \in SUBSET Nat /\ D # {}
    BY <1>1
  <1> HIDE DEF D
  <1>4. PICK d \in D : \A e \in D : e <= d
    BY <1>2, <1>3, GreatestNatural
  <1>5. PICK m \in S : d = far[m]
    BY DEF D
  <1>6. \A n \in S : far[n] <= far[m]
    BY <1>4, <1>5 DEF D
  <1> QED
    BY <1>6

\* Two elements of a finite set of numbers with as many elements below them are
\* the same.
LEMMA SameRank ==
    ASSUME NEW S \in SUBSET Nat, IsFiniteSet(S), NEW x \in S, NEW y \in S,
           Cardinality({m \in S : m < x}) = Cardinality({m \in S : m < y})
    PROVE  x = y
  <1> DEFINE Below(n) == {m \in S : m < n}
  <1>1. \A n \in S : n \in Nat /\ ~ (n < n)
    OBVIOUS
  <1>2. ASSUME NEW n \in S, NEW k \in S, n < k
        PROVE  Cardinality(Below(n)) # Cardinality(Below(k))
    <2>1. \A m \in S : m < n => m < k
      BY <1>1, <1>2
    <2>2. Below(n) \in SUBSET Below(k) /\ n \in Below(k) /\ n \notin Below(n)
      BY <2>1, <1>1, <1>2
    <2>3. IsFiniteSet(Below(k))
      BY FS_Subset
    <2> QED
      BY <2>2, <2>3, FS_Subset
  <1>3. x < y \/ y < x \/ x = y
    BY <1>1
  <1> QED
    BY <1>2, <1>3

\* An element has fewer elements below it than there are elements.
LEMMA RankInRange ==
    ASSUME NEW S \in SUBSET Nat, IsFiniteSet(S), NEW n \in S
    PROVE  Cardinality({m \in S : m < n}) + 1 \in 1 .. Cardinality(S)
  <1> DEFINE B == {m \in S : m < n}
  <1>1. B \in SUBSET S /\ n \notin B
    OBVIOUS
  <1>2. Cardinality(B) <= Cardinality(S) /\ Cardinality(B) # Cardinality(S)
    BY <1>1, FS_Subset
  <1>3. Cardinality(B) \in Nat /\ Cardinality(S) \in Nat
    BY FS_Subset, FS_CardinalityType
  <1> QED
    BY <1>2, <1>3

\* In a finite set of numbers there is one with any number of others below it, up
\* to the size of the set: the map to these counts is injective.
LEMMA Ranked ==
    ASSUME NEW S \in SUBSET Nat, IsFiniteSet(S), NEW i \in 1 .. Cardinality(S)
    PROVE  \E n \in S : Cardinality({m \in S : m < n}) = i - 1
  <1> DEFINE Below(n) == {m \in S : m < n}
             c == Cardinality(S)
             rank == [n \in S |-> Cardinality(Below(n)) + 1]
  <1>1. c \in Nat
    BY FS_CardinalityType
  <1>2. \A n \in S : Cardinality(Below(n)) \in Nat
    BY FS_Subset, FS_CardinalityType
  <1>3. ASSUME NEW n \in S
        PROVE  Cardinality(Below(n)) + 1 \in 1 .. c
    BY <1>1, RankInRange
  <1>4. rank \in Injection(S, 1 .. c)
    <2>1. rank \in [S -> 1 .. c]
      BY <1>3
    <2>2. ASSUME NEW n \in S, NEW k \in S, rank[n] = rank[k]
          PROVE  n = k
      <3>1. Cardinality(Below(n)) = Cardinality(Below(k))
        BY <2>2, <1>2
      <3> QED
        BY <3>1, SameRank
    <2> QED
      BY <2>1, <2>2 DEF Injection, IsInjective
  <1>5. IsFiniteSet(1 .. c) /\ Cardinality(1 .. c) = c
    BY <1>1, FS_Interval
  <1>6. rank \in Surjection(S, 1 .. c)
    <2> HIDE DEF rank, c
    <2> QED
      BY <1>4, <1>5, FS_Injection DEF c
  <1>7. PICK n \in S : rank[n] = i
    BY <1>6 DEF Surjection
  <1>8. Cardinality(Below(n)) = i - 1
    BY <1>7, <1>2
  <1> QED
    BY <1>8

-----------------------------------------------------------------------------
LEMMA Division ==
    ASSUME NEW a \in Nat, NEW c \in Nat \ {0}
    PROVE  /\ a \div c \in Nat /\ a % c \in 0 .. c - 1
           /\ a = c * (a \div c) + (a % c)
  OBVIOUS

LEMMA DivisionIs ==
    ASSUME NEW q \in Nat, NEW c \in Nat \ {0}, NEW r \in 0 .. c - 1
    PROVE  /\ c * q + r \in Nat
           /\ (c * q + r) \div c = q /\ (c * q + r) % c = r
  OBVIOUS

LEMMA DivisionOrder ==
    ASSUME NEW a \in Nat, NEW b \in Nat, NEW c \in Nat \ {0}, a \div c = b \div c
    PROVE  a < b <=> a % c < b % c
  <1>1. /\ a \div c \in Nat /\ a % c \in 0 .. c - 1 /\ a = c * (a \div c) + (a % c)
        /\ b \div c \in Nat /\ b % c \in 0 .. c - 1 /\ b = c * (b \div c) + (b % c)
    BY Division
  <1> DEFINE q == c * (a \div c)
  <1>2. q \in Nat
    BY <1>1
  <1> QED
    BY <1>1, <1>2

\* More elements are below the greater of two elements.
LEMMA RankOrder ==
    ASSUME NEW S \in SUBSET Nat, IsFiniteSet(S), NEW x \in S, NEW y \in S
    PROVE  /\ Cardinality({m \in S : m < x}) \in Nat
           /\ x < y <=> Cardinality({m \in S : m < x}) < Cardinality({m \in S : m < y})
  <1> DEFINE Below(n) == {m \in S : m < n}
  <1>1. \A n \in S : IsFiniteSet(Below(n)) /\ Cardinality(Below(n)) \in Nat
    BY FS_Subset, FS_CardinalityType
  <1>2. ASSUME NEW n \in S, NEW k \in S, n < k
        PROVE  Cardinality(Below(n)) < Cardinality(Below(k))
    <2>1. \A m \in S : m \in Nat /\ ~ (m < m) /\ (m < n => m < k)
      BY <1>2
    <2>2. Below(n) \in SUBSET Below(k) /\ n \in Below(k) /\ n \notin Below(n)
      BY <2>1, <1>2
    <2>3. Cardinality(Below(n)) <= Cardinality(Below(k))
          /\ Cardinality(Below(n)) # Cardinality(Below(k))
      BY <1>1, <2>2, FS_Subset
    <2> QED
      BY <1>1, <2>3
  <1>3. x < y => Cardinality(Below(x)) < Cardinality(Below(y))
    BY <1>2
  <1>4. y < x => Cardinality(Below(y)) < Cardinality(Below(x))
    BY <1>2
  <1>5. /\ Cardinality(Below(x)) \in Nat /\ Cardinality(Below(y)) \in Nat
        /\ x \in Nat /\ y \in Nat
    BY <1>1
  <1> HIDE DEF Below
  <1>6. x = y => Cardinality(Below(x)) = Cardinality(Below(y))
    OBVIOUS
  <1>7. x < y <=> Cardinality(Below(x)) < Cardinality(Below(y))
    BY <1>3, <1>4, <1>5, <1>6
  <1> QED
    BY <1>5, <1>7 DEF Below

(***************************************************************************)
(* The elements of a finite set of numbers, dealt out in order into groups *)
(* of c: a group has at most c, and an element stands in its group at the  *)
(* place its rank leaves modulo c.                                         *)
(***************************************************************************)
LEMMA GroupPlaces ==
    ASSUME NEW S \in SUBSET Nat, IsFiniteSet(S), NEW c \in Nat \ {0}, NEW k \in Nat,
           NEW D \in SUBSET S,
           \A n \in S : n \in D <=> Cardinality({m \in S : m < n}) \div c = k
    PROVE  /\ IsFiniteSet(D) /\ Cardinality(D) <= c
           /\ \A n \in D : Cardinality({m \in D : m < n})
                               = Cardinality({m \in S : m < n}) % c
  <1> DEFINE rank == [n \in S |-> Cardinality({m \in S : m < n})]
  <1>1. \A n \in S : rank[n] \in Nat
    BY RankOrder
  <1>2. \A n, m \in S : n < m <=> rank[n] < rank[m]
    BY RankOrder
  <1>3. \A r \in Nat : r < Cardinality(S) => \E n \in S : rank[n] = r
    <2> SUFFICES ASSUME NEW r \in Nat, r < Cardinality(S) PROVE \E n \in S : rank[n] = r
      OBVIOUS
    <2>1. Cardinality(S) \in Nat
      BY FS_CardinalityType
    <2>2. r + 1 \in 1 .. Cardinality(S)
      BY <2>1
    <2>3. PICK n \in S : Cardinality({m \in S : m < n}) = (r + 1) - 1
      BY <2>2, Ranked
    <2>4. rank[n] = (r + 1) - 1
      BY <2>3
    <2>5. (r + 1) - 1 = r
      OBVIOUS
    <2> QED
      BY <2>4, <2>5
  <1>4. \A n \in S : rank[n] < Cardinality(S)
    <2> SUFFICES ASSUME NEW n \in S PROVE rank[n] < Cardinality(S)
      OBVIOUS
    <2>1. rank[n] + 1 \in 1 .. Cardinality(S) /\ Cardinality(S) \in Nat
      BY RankInRange, FS_CardinalityType
    <2> QED
      BY <1>1, <2>1
  <1>5. D \subseteq S /\ D \subseteq Nat /\ \A n \in S : n \in D <=> rank[n] \div c = k
    OBVIOUS
  <1>6. \A n \in S : Cardinality({m \in S : m < n}) = rank[n]
    OBVIOUS
  <1>7. IsFiniteSet(D)
    BY <1>5, FS_Subset
  <1> HIDE DEF rank
  <1>8. \A n \in D : rank[n] % c \in 0 .. c - 1 /\ rank[n] = c * k + (rank[n] % c)
    BY <1>1, <1>5, Division
  <1>9. \A n, m \in D : n < m <=> rank[n] % c < rank[m] % c
    BY <1>1, <1>2, <1>5, DivisionOrder
  <1>10. ASSUME NEW n \in D, NEW j \in Nat, j < rank[n] % c
         PROVE  \E m \in D : rank[m] % c = j
    <2>1. j \in 0 .. c - 1 /\ c * k + j < rank[n] /\ c * k \in Nat
      BY <1>1, <1>5, <1>8, <1>10
    <2>2. c * k + j \in Nat /\ (c * k + j) \div c = k /\ (c * k + j) % c = j
      BY <2>1, DivisionIs
    <2>3. c * k + j < Cardinality(S)
      <3>1. rank[n] < Cardinality(S) /\ rank[n] \in Nat /\ Cardinality(S) \in Nat
        BY <1>1, <1>4, <1>5, FS_CardinalityType
      <3> QED
        BY <2>1, <2>2, <3>1
    <2>4. PICK m \in S : rank[m] = c * k + j
      BY <1>3, <2>2, <2>3
    <2> QED
      BY <1>5, <2>2, <2>4
  <1>11. Cardinality(D) <= c
    <2> DEFINE place == [n \in D |-> rank[n] % c]
    <2>1. place \in [D -> 0 .. c - 1]
      BY <1>8
    <2>2. \A n, m \in D : place[n] = place[m] => n = m
      <3> SUFFICES ASSUME NEW n \in D, NEW m \in D, place[n] = place[m] PROVE n = m
        OBVIOUS
      <3>1. ~ (n < m) /\ ~ (m < n) /\ n \in Nat /\ m \in Nat
        BY <1>5, <1>8, <1>9
      <3> QED
        BY <3>1
    <2>3. place \in Injection(D, 0 .. c - 1)
      BY <2>1, <2>2 DEF Injection, IsInjective
    <2>4. IsFiniteSet(0 .. c - 1) /\ Cardinality(0 .. c - 1) = c
      BY FS_Interval
    <2> HIDE DEF place
    <2> QED
      BY <2>3, <2>4, FS_Injection
  <1>12. ASSUME NEW n \in D
         PROVE  Cardinality({m \in D : m < n}) = rank[n] % c
    <2> DEFINE B == {m \in D : m < n}
               T == 0 .. (rank[n] % c) - 1
               place == [m \in B |-> rank[m] % c]
    <2>1. \A m \in B : m \in D /\ rank[m] % c \in T
      BY <1>8, <1>9
    <2>2. place \in [B -> T]
      BY <2>1
    <2>3. \A m, l \in B : place[m] = place[l] => m = l
      <3> SUFFICES ASSUME NEW m \in B, NEW l \in B, place[m] = place[l] PROVE m = l
        OBVIOUS
      <3>1. ~ (l < m) /\ ~ (m < l) /\ l \in Nat /\ m \in Nat
        BY <1>5, <1>8, <1>9
      <3> QED
        BY <3>1
    <2>4. \A j \in T : \E m \in B : place[m] = j
      <3> SUFFICES ASSUME NEW j \in T PROVE \E m \in B : place[m] = j
        OBVIOUS
      <3>1. j \in Nat /\ j < rank[n] % c
        BY <1>8
      <3>2. PICK m \in D : rank[m] % c = j
        BY <1>10, <3>1
      <3>3. m < n
        BY <1>9, <3>1, <3>2
      <3> QED
        BY <3>2, <3>3
    <2>5. place \in Surjection(B, T) /\ place \in Injection(B, T)
      BY <2>2, <2>3, <2>4 DEF Surjection, Injection, IsInjective
    <2>6. IsFiniteSet(B)
      BY <1>7, FS_Subset
    <2>7. Cardinality(T) = rank[n] % c
      <3> DEFINE r == rank[n] % c
      <3>1. r \in Nat
        BY <1>8
      <3> HIDE DEF r
      <3>2. Cardinality(0 .. r - 1) = r
        BY <3>1, FS_Interval
      <3> QED
        BY <3>2 DEF r
    <2> HIDE DEF place, B, T
    <2>8. Cardinality(T) = Cardinality(B)
      BY <2>5, <2>6, FS_Surjection
    <2> QED
      BY <2>7, <2>8 DEF B
  <1> QED
    BY <1>5, <1>6, <1>7, <1>11, <1>12
-----------------------------------------------------------------------------
(***************************************************************************)
(* Object maps, entries and readings of a file.                            *)
(***************************************************************************)
\* Put and Restricted keep object maps object maps.
LEMMA PutIsObjectMap ==
    ASSUME NEW f, NEW g, IsObjectMap(f), IsObjectMap(g)
    PROVE  IsObjectMap(Put(f, g))
  <1>1. DOMAIN Put(f, g) = DOMAIN f \cup DOMAIN g
    BY DEF Put
  <1>2. IsFiniteSet(DOMAIN f \cup DOMAIN g)
    BY FS_Union DEF IsObjectMap
  <1>3. \A id \in DOMAIN Put(f, g) : IsObject(Put(f, g)[id])
    BY DEF Put, IsObjectMap
  <1> QED
    BY <1>1, <1>2, <1>3 DEF IsObjectMap, Put

LEMMA RestrictedIsObjectMap ==
    ASSUME NEW f, NEW S, IsObjectMap(f)
    PROVE  IsObjectMap(Restricted(f, S))
  <1>1. DOMAIN Restricted(f, S) = DOMAIN f \cap S
    BY DEF Restricted
  <1>2. IsFiniteSet(DOMAIN f \cap S)
    BY FS_Subset DEF IsObjectMap
  <1>3. \A id \in DOMAIN Restricted(f, S) : IsObject(Restricted(f, S)[id])
    BY DEF Restricted, IsObjectMap
  <1> QED
    BY <1>1, <1>2, <1>3 DEF IsObjectMap, Restricted

LEMMA EmptyIsObjectMap == IsObjectMap(Empty)
  BY FS_EmptySet DEF IsObjectMap, Empty

LEMMA UserObjectsAreObjects ==
    ASSUME NEW o \in UserObjects
    PROVE  IsObject(o)
  <1>1. ASSUME NEW v \in Vals
        PROVE  IsObject(Data(v)) /\ IsObject(Stream(v))
    <2>1. DOMAIN Empty = {} /\ Empty \in [DOMAIN Empty -> Vals]
      BY DEF Empty
    <2> QED
      BY <1>1, <2>1, NoValAssumption, FS_EmptySet
         DEF Data, Stream, IsObject, Types, UserTypes
  <1> QED
    BY <1>1 DEF UserObjects

LEMMA SingletonIsObjectMap ==
    ASSUME NEW id \in Ids, NEW o, IsObject(o)
    PROVE  IsObjectMap([x \in {id} |-> o])
  BY FS_Singleton DEF IsObjectMap

LEMMA UserPartIsObjectMap ==
    ASSUME NEW f, IsObjectMap(f)
    PROVE  IsObjectMap(UserPart(f))
  BY RestrictedIsObjectMap DEF UserPart

\* Highest picks the greatest element of a finite non-empty set of numbers.
LEMMA HighestIsMember ==
    ASSUME NEW S \in SUBSET Nat, IsFiniteSet(S), S # {}
    PROVE  Highest(S) \in S /\ \A n \in S : n <= Highest(S)
  <1>1. \E m \in S : \A n \in S : n <= m
    BY GreatestNatural
  <1> QED
    BY <1>1 DEF Highest

-----------------------------------------------------------------------------
(***************************************************************************)
(* Cross-references.                                                       *)
(***************************************************************************)
LEMMA PutIsEntryMap ==
    ASSUME NEW e, NEW d, NEW body, IsEntryMap(e, body), IsEntryMap(d, body)
    PROVE  IsEntryMap(Put(e, d), body)
  <1>1. DOMAIN Put(e, d) = DOMAIN e \cup DOMAIN d
    BY DEF Put
  <1>2. IsFiniteSet(DOMAIN e \cup DOMAIN d)
    BY FS_Union DEF IsEntryMap
  <1>3. \A n \in DOMAIN Put(e, d) :
            \/ n \in DOMAIN e /\ Put(e, d)[n] = e[n]
            \/ n \in DOMAIN d /\ Put(e, d)[n] = d[n]
    BY DEF Put
  <1>4. Put(e, d) = [n \in DOMAIN Put(e, d) |-> Put(e, d)[n]]
    BY DEF Put
  <1> QED
    BY <1>1, <1>2, <1>3, <1>4 DEF IsEntryMap

LEMMA WiderIsEntryMap ==
    ASSUME NEW e, NEW b, NEW c, IsEntryMap(e, b), DOMAIN b \subseteq DOMAIN c
    PROVE  IsEntryMap(e, c)
  BY DEF IsEntryMap

-----------------------------------------------------------------------------
(***************************************************************************)
(* What a load leaves in memory.                                           *)
(***************************************************************************)
IsLoadable(f) == IsObjectMap(f.body) /\ IsEntryMap(f.xref, f.body)

LEMMA ListedIsObjectMap ==
    ASSUME NEW f, IsLoadable(f)
    PROVE  /\ IsObjectMap(ListedObjects(f))
           /\ NormalIds(f) \subseteq DOMAIN f.body
           /\ IsFiniteSet(NormalIds(f))
  <1>1. IsObjectMap(f.body) /\ IsEntryMap(f.xref, f.body)
    BY DEF IsLoadable
  <1>2. NormalIds(f) \subseteq DOMAIN f.body
    BY <1>1 DEF NormalIds, IsEntryMap
  <1>3. IsFiniteSet(NormalIds(f))
    BY <1>1, <1>2, FS_Subset DEF IsObjectMap
  <1> QED
    BY <1>1, <1>2, <1>3, RestrictedIsObjectMap DEF ListedObjects

LEMMA MemberNumsFinite ==
    ASSUME NEW f, IsLoadable(f)
    PROVE  IsFiniteSet(MemberNums(f)) /\ MemberNums(f) \subseteq Nat
  <1> DEFINE N == NormalIds(f)
             g == [c \in N |-> DOMAIN f.body[c].members]
             U == {g[c] : c \in N}
  <1>1. \A c \in N : /\ IsFiniteSet(DOMAIN f.body[c].members)
                     /\ DOMAIN f.body[c].members \subseteq Nat
    BY ListedIsObjectMap DEF IsLoadable, IsObjectMap, IsObject
  <1>2. IsFiniteSet(U)
    <2>1. IsFiniteSet(N) /\ DOMAIN g = N
      BY ListedIsObjectMap
    <2> HIDE DEF g, N
    <2> QED BY <2>1, FiniteImage
  <1>3. IsFiniteSet(UNION U)
    <2>1. \A T \in U : IsFiniteSet(T)
      BY <1>1
    <2> HIDE DEF U
    <2> QED BY <1>2, <2>1, FS_UNION
  <1>4. MemberNums(f) \subseteq UNION U
    BY DEF MemberNums
  <1>5. UNION U \subseteq Nat
    BY <1>1
  <1> HIDE DEF U
  <1> QED
    BY <1>3, <1>4, <1>5, FS_Subset

LEMMA LoadedIsObjectMap ==
    ASSUME NEW f, IsLoadable(f), NEW objs \in LoadResults(f)
    PROVE  IsObjectMap(objs)
  <1> DEFINE nums == MemberNums(f)
             Mem(src) == [id \in nums \X {0} |->
                              Data(f.body[src[id[1]]].members[id[1]])]
  <1>1. PICK src \in [nums -> NormalIds(f)] :
            /\ \A n \in nums : Accepts(f, src[n], n)
            /\ objs = Put(Mem(src), ListedObjects(f))
    BY DEF LoadResults
  <1>2. \A n \in nums : Data(f.body[src[n]].members[n]) \in UserObjects
    <2> TAKE n \in nums
    <2> DEFINE c == src[n]
    <2>1. c \in NormalIds(f) /\ c \in DOMAIN f.body /\ Accepts(f, c, n)
      BY <1>1, ListedIsObjectMap
    <2>2. ListedObjects(f)[c] = f.body[c]
      BY <2>1 DEF Accepts, ListedObjects, Restricted
    <2>3. n \in DOMAIN f.body[c].members /\ IsObject(f.body[c])
      BY <2>1, <2>2 DEF Accepts, IsLoadable, IsObjectMap
    <2>4. f.body[c].members[n] \in Vals
      BY <2>3 DEF IsObject
    <2> QED
      BY <2>4 DEF UserObjects
  <1>3. IsFiniteSet(nums \X {0}) /\ nums \X {0} \subseteq Ids
    <2>1. IsFiniteSet(nums) /\ nums \subseteq Nat /\ IsFiniteSet({0})
      BY MemberNumsFinite, FS_Singleton
    <2> QED
      BY <2>1, FS_Product, GensAssumption DEF Ids
  <1>4. IsObjectMap(Mem(src))
    <2>1. \A id \in nums \X {0} : IsObject(Mem(src)[id])
      BY <1>2, UserObjectsAreObjects
    <2> HIDE DEF nums
    <2> QED
      BY <1>3, <2>1 DEF IsObjectMap
  <1> QED
    BY <1>1, <1>4, ListedIsObjectMap, PutIsObjectMap

LEMMA LoadedMaxIdIsCeiling ==
    ASSUME NEW f, IsLoadable(f), NEW objs, IsObjectMap(objs)
    PROVE  /\ LoadedMaxId(f, objs) \in Nat
           /\ \A id \in DOMAIN objs : id[1] <= LoadedMaxId(f, objs)
           /\ \A n \in DOMAIN f.xref : n <= LoadedMaxId(f, objs)
  <1> DEFINE g == [id \in DOMAIN objs |-> id[1]]
             N == {id[1] : id \in DOMAIN objs}
             S == {0} \cup DOMAIN f.xref \cup N
  <1>1. IsFiniteSet(N) /\ N \subseteq Nat
    <2>1. DOMAIN g = DOMAIN objs /\ N = {g[id] : id \in DOMAIN objs}
      OBVIOUS
    <2>2. IsFiniteSet(DOMAIN objs) /\ DOMAIN objs \subseteq Nat \X Gens
      BY DEF IsObjectMap, Ids
    <2> HIDE DEF g
    <2>3. IsFiniteSet({g[id] : id \in DOMAIN objs})
      BY <2>1, <2>2, FiniteImage
    <2> QED
      BY <2>1, <2>2, <2>3
  <1>2. IsFiniteSet(DOMAIN f.xref) /\ DOMAIN f.xref \subseteq Nat
    BY DEF IsLoadable, IsEntryMap
  <1>3. IsFiniteSet(S)
    <2> HIDE DEF N
    <2> QED BY <1>1, <1>2, FS_Union, FS_Singleton
  <1>4. S \subseteq Nat /\ S # {}
    BY <1>1, <1>2
  <1>5. Highest(S) \in S /\ \A n \in S : n <= Highest(S)
    <2> HIDE DEF S
    <2> QED BY <1>3, <1>4, HighestIsMember
  <1>6. LoadedMaxId(f, objs) = Highest(S)
    BY DEF LoadedMaxId
  <1> QED
    BY <1>4, <1>5, <1>6
=============================================================================
