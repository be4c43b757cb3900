------------------------- MODULE DocumentStoreProofs -------------------------
(***************************************************************************)
(* What holds of DocumentStore for every value of its constants.           *)
(***************************************************************************)
EXTENDS DocumentStore, PdfFileFacts

LEMMA DivNat ==
    ASSUME NEW a \in Nat, NEW c \in Nat \ {0}
    PROVE  a \div c \in Nat
  OBVIOUS

LEMMA DivMonotonic ==
    ASSUME NEW a \in Nat, NEW b \in Nat, NEW c \in Nat \ {0}, a <= b
    PROVE  a \div c <= b \div c
  OBVIOUS

LEMMA DivCeiling ==
    ASSUME NEW a \in Nat, NEW c \in Nat \ {0}
    PROVE  (a + c) \div c = (a \div c) + 1
  OBVIOUS

LEMMA ModNat ==
    ASSUME NEW a \in Nat, NEW c \in Nat \ {0}
    PROVE  a % c \in Nat
  OBVIOUS

-----------------------------------------------------------------------------
(***************************************************************************)
(* The numbers of the containers: each is above max_id and at most the     *)
(* number of containers above it.                                          *)
(***************************************************************************)
LEMMA PackedIdsFinite ==
    ASSUME TypeOK
    PROVE  /\ IsFiniteSet(PackedIds)
           /\ PackedIds \subseteq Nat \X {0}
           /\ Cardinality(PackedIds) \in Nat
  <1>1. IsFiniteSet(DOMAIN objects) /\ DOMAIN objects \subseteq Ids
    BY DEF TypeOK, IsObjectMap
  <1>2. PackedIds \subseteq DOMAIN objects
    BY DEF PackedIds
  <1>3. IsFiniteSet(PackedIds)
    BY <1>1, <1>2, FS_Subset
  <1>4. PackedIds \subseteq Nat \X {0}
    BY <1>1, <1>2 DEF PackedIds, CanBeCompressed, Ids
  <1> QED
    BY <1>3, <1>4, FS_CardinalityType

LEMMA RankBounds ==
    ASSUME TypeOK, NEW id \in PackedIds
    PROVE  /\ Rank(id[1]) \in Nat \ {0}
           /\ Rank(id[1]) <= Cardinality(PackedIds)
  <1> DEFINE S == {m \in PackedIds : m[1] <= id[1]}
  <1>1. IsFiniteSet(PackedIds) /\ S \subseteq PackedIds
    BY PackedIdsFinite
  <1>2. IsFiniteSet(S) /\ Cardinality(S) <= Cardinality(PackedIds)
    BY <1>1, FS_Subset
  <1>3. id \in S
    BY PackedIdsFinite
  <1>4. Cardinality(S) \in Nat /\ Cardinality(S) # 0
    BY <1>2, <1>3, FS_CardinalityType, FS_EmptySet
  <1> QED
    BY <1>2, <1>4 DEF Rank

LEMMA ContainerBounds ==
    ASSUME TypeOK, NEW id \in PackedIds
    PROVE  /\ StreamCount \in Nat
           /\ ContainerOf(id[1]) \in Nat
           /\ maxId < ContainerOf(id[1])
           /\ ContainerOf(id[1]) <= maxId + StreamCount
           /\ IndexInStream(id[1]) \in Nat
  <1> DEFINE r == Rank(id[1]) - 1
             c == MaxObjectsPerStream
             n == Cardinality(PackedIds)
  <1>1. c \in Nat \ {0} /\ maxId \in Nat
    BY CapAssumption DEF TypeOK
  <1>2. r \in Nat /\ n \in Nat /\ r + c <= n + c - 1 /\ n + c - 1 \in Nat
    BY <1>1, RankBounds, PackedIdsFinite
  <1>3. StreamIndex(id[1]) = r \div c /\ r \div c \in Nat
    BY <1>1, <1>2, DivNat DEF StreamIndex
  <1>4. (r \div c) + 1 <= (n + c - 1) \div c
    <2>1. (r + c) \div c = (r \div c) + 1
      BY <1>1, <1>2, DivCeiling
    <2>2. (r + c) \div c <= (n + c - 1) \div c
      <3> HIDE DEF r, n, c
      <3> QED BY <1>1, <1>2, DivMonotonic
    <2> QED BY <2>1, <2>2
  <1>5. StreamCount = (n + c - 1) \div c /\ (n + c - 1) \div c \in Nat
    <2>1. (n + c - 1) \div c \in Nat
      <3> HIDE DEF r, n, c
      <3> QED BY <1>1, <1>2, DivNat
    <2> QED BY <2>1 DEF StreamCount
  <1>6. IndexInStream(id[1]) \in Nat
    BY <1>1, <1>2, ModNat DEF IndexInStream
  <1> HIDE DEF r, n, c
  <1> QED
    BY <1>1, <1>3, <1>4, <1>5, <1>6 DEF ContainerOf

LEMMA StreamCountNat ==
    ASSUME TypeOK
    PROVE  StreamCount \in Nat
  <1> DEFINE n == Cardinality(PackedIds)
             c == MaxObjectsPerStream
  <1>1. n \in Nat /\ c \in Nat \ {0}
    BY PackedIdsFinite, CapAssumption
  <1>2. n + c - 1 \in Nat
    BY <1>1
  <1>3. (n + c - 1) \div c \in Nat
    <2> HIDE DEF n, c
    <2> QED BY <1>1, <1>2, DivNat
  <1> QED
    BY <1>3 DEF StreamCount

-----------------------------------------------------------------------------
LEMMA ContainersAreObjects ==
    ASSUME TypeOK
    PROVE  IsObjectMap(Containers)
  <1> DEFINE D == {<<ContainerOf(m[1]), 0>> : m \in PackedIds}
  <1>1. IsFiniteSet(D)
    <2> DEFINE f == [m \in PackedIds |-> <<ContainerOf(m[1]), 0>>]
    <2>1. IsFiniteSet({f[m] : m \in PackedIds})
      <3>1. DOMAIN f = PackedIds
        OBVIOUS
      <3> HIDE DEF f
      <3> QED BY <3>1, PackedIdsFinite, FiniteImage
    <2> QED BY <2>1
  <1>2. D \subseteq Ids
    BY ContainerBounds, GensAssumption DEF Ids
  <1>3. \A id \in D : IsObject(ObjStm(MembersOf(id[1])))
    <2> TAKE id \in D
    <2> DEFINE m == MembersOf(id[1])
    <2>1. DOMAIN m \subseteq Nat
      BY PackedIdsFinite DEF MembersOf
    <2>2. \A n \in DOMAIN m : m[n] \in Vals
      <3> TAKE n \in DOMAIN m
      <3>1. PICK x \in PackedIds : x[1] = n
        BY DEF MembersOf
      <3>2. <<n, 0>> = x
        BY <3>1, PackedIdsFinite
      <3>3. <<n, 0>> \in DOMAIN objects /\ objects[<<n, 0>>].type = "Data"
        BY <3>2 DEF PackedIds, CanBeCompressed
      <3>4. objects[<<n, 0>>].val \in Vals
        BY <3>3 DEF TypeOK, IsObjectMap, IsObject, UserTypes
      <3> QED
        BY <3>4 DEF MembersOf
    <2>3. m \in [DOMAIN m -> Vals]
      BY <2>2 DEF MembersOf
    <2>5. IsFiniteSet(DOMAIN m)
      <3> DEFINE P == {x \in PackedIds : ContainerOf(x[1]) = id[1]}
                 f == [x \in P |-> x[1]]
      <3>1. IsFiniteSet(P)
        BY PackedIdsFinite, FS_Subset
      <3>2. DOMAIN m = {f[x] : x \in P} /\ DOMAIN f = P
        BY DEF MembersOf
      <3> HIDE DEF f, P, m
      <3> QED
        BY <3>1, <3>2, FiniteImage
    <2> HIDE DEF m
    <2>4. IsObject(ObjStm(m))
      BY <2>1, <2>3, <2>5 DEF ObjStm, IsObject, Types, UserTypes
    <2> QED
      BY <2>4 DEF m
  <1> HIDE DEF D
  <1>4. Containers = [id \in D |-> ObjStm(MembersOf(id[1]))]
    BY DEF Containers, D
  <1> QED
    BY <1>1, <1>2, <1>3, <1>4 DEF IsObjectMap

LEMMA CrsIsObjectMap ==
    ASSUME NEW n \in Nat
    PROVE  IsObjectMap(CrsOf(n))
  <1>1. IsObject(XRefStm)
    BY FS_EmptySet DEF IsObject, XRefStm, Types, UserTypes, Empty
  <1> QED
    BY <1>1, SingletonIsObjectMap, GensAssumption DEF CrsOf, Ids

-----------------------------------------------------------------------------
(***************************************************************************)
(* The cross-reference of a save leads to what was written.                *)
(***************************************************************************)
LEMMA OnDiskIsEntryMap ==
    ASSUME NEW e, NEW body, IsEntryMap(e, body), NEW xt
    PROVE  IsEntryMap(OnDisk(e, xt), body)
  <1> DEFINE S == {n \in DOMAIN e : e[n].kind = "normal"}
  <1>1. IsFiniteSet(DOMAIN e \cap S)
    BY FS_Subset DEF IsEntryMap
  <1>2. IsEntryMap(Restricted(e, S), body)
    BY <1>1 DEF IsEntryMap, Restricted
  <1> QED
    BY <1>2 DEF OnDisk

LEMMA EntriesOfIsEntryMap ==
    ASSUME NEW b, IsObjectMap(b)
    PROVE  /\ IsEntryMap(EntriesOf(b), b)
           /\ DOMAIN EntriesOf(b) = {id[1] : id \in DOMAIN b}
  <1> DEFINE D == {id[1] : id \in DOMAIN b}
             G(n) == {g \in Gens : <<n, g>> \in DOMAIN b}
             f == [id \in DOMAIN b |-> id[1]]
             s == [id \in DOMAIN b |-> id[2]]
  <1>1. IsFiniteSet(DOMAIN b) /\ DOMAIN b \subseteq Nat \X Gens
    BY DEF IsObjectMap, Ids
  <1>2. IsFiniteSet(D) /\ D \subseteq Nat
    <2>1. DOMAIN f = DOMAIN b /\ D = {f[id] : id \in DOMAIN b}
      OBVIOUS
    <2> HIDE DEF f
    <2>2. IsFiniteSet({f[id] : id \in DOMAIN b})
      BY <1>1, <2>1, FiniteImage
    <2> QED
      BY <1>1, <2>1, <2>2
  <1>3. ASSUME NEW n \in D
        PROVE  <<n, Highest(G(n))>> \in DOMAIN b /\ Highest(G(n)) \in Gens
    <2> DEFINE E == {s[id] : id \in DOMAIN b}
    <2>1. IsFiniteSet(E)
      <3>1. DOMAIN s = DOMAIN b
        OBVIOUS
      <3> HIDE DEF s
      <3> QED BY <1>1, <3>1, FiniteImage
    <2>2. G(n) \subseteq E
      OBVIOUS
    <2>3. IsFiniteSet(G(n))
      BY <2>1, <2>2, FS_Subset
    <2>4. G(n) \subseteq Nat
      BY GensAssumption
    <2>5. PICK id \in DOMAIN b : id[1] = n
      OBVIOUS
    <2>6. id[2] \in G(n)
      BY <1>1, <2>5
    <2>7. Highest(G(n)) \in G(n)
      <3> HIDE DEF G
      <3> QED BY <2>3, <2>4, <2>6, HighestIsMember
    <2> QED
      BY <2>7
  <1>4. EntriesOf(b) = [n \in D |-> Normal(<<n, Highest(G(n))>>)]
    BY DEF EntriesOf
  <1>5. ASSUME NEW n \in D
        PROVE  /\ Normal(<<n, Highest(G(n))>>) \in
                      [kind : {"normal", "packed"}, at : Ids,
                       container : Nat, index : Nat]
               /\ Normal(<<n, Highest(G(n))>>).at \in DOMAIN b
    BY <1>2, <1>3 DEF Normal, Ids
  <1> HIDE DEF D, G
  <1>6. IsEntryMap(EntriesOf(b), b)
    BY <1>2, <1>4, <1>5 DEF IsEntryMap
  <1> QED
    BY <1>4, <1>6 DEF D

LEMMA PackedEntriesIsEntryMap ==
    ASSUME TypeOK, NEW b
    PROVE  IsEntryMap(PackedEntries, b)
  <1> DEFINE D == {id[1] : id \in PackedIds}
             f == [id \in PackedIds |-> id[1]]
  <1>1. IsFiniteSet(D) /\ D \subseteq Nat
    <2>1. DOMAIN f = PackedIds /\ D = {f[id] : id \in PackedIds}
      OBVIOUS
    <2> HIDE DEF f
    <2>2. IsFiniteSet({f[id] : id \in PackedIds})
      BY PackedIdsFinite, <2>1, FiniteImage
    <2> QED
      BY PackedIdsFinite, <2>1, <2>2
  <1>2. \A n \in D : ContainerOf(n) \in Nat /\ IndexInStream(n) \in Nat
    BY ContainerBounds
  <1>3. <<0, 0>> \in Ids
    BY GensAssumption DEF Ids
  <1>4. PackedEntries =
            [n \in D |-> Packed(ContainerOf(n), IndexInStream(n))]
    BY DEF PackedEntries
  <1> HIDE DEF D
  <1> QED
    BY <1>1, <1>2, <1>3, <1>4 DEF IsEntryMap, Packed

LEMMA WrittenIsFile ==
    ASSUME NEW direct, IsObjectMap(direct),
           NEW conts, IsObjectMap(conts),
           NEW packed, \A b : IsEntryMap(packed, b),
           NEW n \in Nat, NEW xt \in XrefTypes, NEW ver \in Versions
    PROVE  IsFile(Written(direct, conts, packed, n, xt, ver))
  <1> DEFINE crs == IF xt = "stream" THEN CrsOf(n) ELSE Empty
             body == Put(Put(direct, conts), crs)
             ents == Put(Put(Put(EntriesOf(direct), packed), EntriesOf(conts)),
                         EntriesOf(crs))
  <1>1. IsObjectMap(crs)
    BY CrsIsObjectMap, EmptyIsObjectMap
  <1>2. IsObjectMap(body)
    <2> HIDE DEF crs
    <2> QED BY <1>1, PutIsObjectMap
  <1>3. /\ DOMAIN direct \subseteq DOMAIN body
        /\ DOMAIN conts \subseteq DOMAIN body
        /\ DOMAIN crs \subseteq DOMAIN body
    BY DEF Put
  <1>4. IsEntryMap(ents, body)
    <2> HIDE DEF crs, body
    <2>1. /\ IsEntryMap(EntriesOf(direct), body)
          /\ IsEntryMap(EntriesOf(conts), body)
          /\ IsEntryMap(EntriesOf(crs), body)
      BY <1>1, <1>3, EntriesOfIsEntryMap, WiderIsEntryMap
    <2>2. IsEntryMap(packed, body)
      OBVIOUS
    <2> QED
      BY <2>1, <2>2, PutIsEntryMap
  <1> HIDE DEF crs, body, ents
  <1>5. IsEntryMap(OnDisk(ents, xt), body)
    BY <1>4, OnDiskIsEntryMap
  <1>6. Written(direct, conts, packed, n, xt, ver) =
          [version |-> ver, xtype |-> xt, size |-> n + 1,
           body |-> body, xref |-> OnDisk(ents, xt)]
    BY DEF Written, SizeFor, body, ents, crs
  <1> QED
    BY <1>2, <1>5, <1>6 DEF IsFile

LEMMA FileIsLoadable ==
    ASSUME NEW f, IsFile(f)
    PROVE  IsLoadable(f)
  BY DEF IsFile, IsLoadable

-----------------------------------------------------------------------------
(***************************************************************************)
(* Types.                                                                  *)
(***************************************************************************)
LEMMA SavedFileIsFile ==
    ASSUME TypeOK, NEW xt \in XrefTypes, NEW ver \in Versions,
           SaveInternal(xt, ver) \/ SaveWithObjectStreams(xt, ver)
    PROVE  IsFile(file') /\ maxId' \in Nat
  <1>1. maxId \in Nat /\ IsObjectMap(objects) /\ CrsCount(xt) \in Nat
    BY DEF TypeOK, CrsCount
  <1>2. CASE SaveInternal(xt, ver)
    <2>1. \A b : IsEntryMap(Empty, b)
      BY FS_EmptySet DEF IsEntryMap, Empty
    <2>2. IsObjectMap(UserPart(objects)) /\ maxId + CrsCount(xt) \in Nat
      BY <1>1, UserPartIsObjectMap
    <2> QED
      BY <1>2, <2>1, <2>2, EmptyIsObjectMap, WrittenIsFile DEF SaveInternal
  <1>3. CASE SaveWithObjectStreams(xt, ver)
    <2> DEFINE direct == Restricted(objects,
                             {id \in DOMAIN objects \ PackedIds :
                                  objects[id].type # "ObjStm"})
               n == maxId + StreamCount + CrsCount(xt)
    <2>1. IsObjectMap(direct)
      BY <1>1, RestrictedIsObjectMap
    <2>2. n \in Nat
      BY <1>1, StreamCountNat
    <2>3. file' = Written(direct, Containers, PackedEntries, n, xt, ver)
          /\ maxId' = n
      BY <1>3 DEF SaveWithObjectStreams
    <2> HIDE DEF direct, n
    <2> QED
      BY <2>1, <2>2, <2>3, ContainersAreObjects, PackedEntriesIsEntryMap,
         WrittenIsFile
  <1> QED
    BY <1>2, <1>3

LEMMA InitTypeOK == Init => TypeOK
  <1> SUFFICES ASSUME Init PROVE TypeOK
    OBVIOUS
  <1>1. IsFile(file)
    BY FilesAssumption DEF Init
  <1> QED
    BY <1>1, EmptyIsObjectMap, XrefTypeAssumption
       DEF Init, TypeOK, Versions, Foreign

LEMMA NextTypeOK == TypeOK /\ [Next]_vars => TypeOK'
  <1> SUFFICES ASSUME TypeOK, [Next]_vars PROVE TypeOK'
    OBVIOUS
  <1> USE DEF TypeOK
  <1>1. ASSUME NewObjectId PROVE TypeOK'
    <2>1. <<maxId + 1, 0>> \in Ids
      BY GensAssumption DEF Ids
    <2> QED
      BY <1>1, <2>1 DEF NewObjectId, Edit
  <1>2. ASSUME NEW o \in NewObjects, AddObject(o) PROVE TypeOK'
    <2>1. <<maxId + 1, 0>> \in Ids
      BY GensAssumption DEF Ids
    <2>2. IsObjectMap([id \in {<<maxId + 1, 0>>} |-> o])
      BY <2>1, InputAssumption, UserObjectsAreObjects, SingletonIsObjectMap
    <2>3. IsObjectMap(objects')
      BY <1>2, <2>2, PutIsObjectMap DEF AddObject
    <2> QED
      BY <1>2, <2>1, <2>3 DEF AddObject, Edit
  <1>3. ASSUME NEW id \in held \cup DOMAIN objects, NEW o \in NewValues,
               SetObject(id, o)
        PROVE  TypeOK'
    <2>1. id \in Ids
      BY DEF IsObjectMap
    <2>2. IsObjectMap([x \in {id} |-> o])
      BY <2>1, InputAssumption, UserObjectsAreObjects, SingletonIsObjectMap
    <2>3. IsObjectMap(objects')
      BY <1>3, <2>2, PutIsObjectMap DEF SetObject
    <2> QED
      BY <1>3, <2>3 DEF SetObject, Edit
  <1>4. ASSUME NEW id \in DOMAIN objects, RemoveObject(id) PROVE TypeOK'
    <2>1. id \in Ids
      BY DEF IsObjectMap
    <2>2. IsObjectMap(objects')
      BY <1>4, RestrictedIsObjectMap DEF RemoveObject
    <2> QED
      BY <1>4, <2>1, <2>2 DEF RemoveObject, Edit
  <1>5. ASSUME NEW uo \in BOOLEAN, NEW ux \in BOOLEAN,
               SaveWithOptions(uo, ux)
        PROVE  TypeOK'
    <2> DEFINE xt  == IF ux THEN "stream" ELSE xrefType
               ver == IF uo \/ ux THEN Raised(version) ELSE version
    <2>1. xt \in XrefTypes /\ ver \in Versions
      BY DEF XrefTypes, Versions, Raised
    <2>2. IsFile(file') /\ maxId' \in Nat
      <3> HIDE DEF TypeOK
      <3>1. SaveInternal(xt, ver) \/ SaveWithObjectStreams(xt, ver)
        BY <1>5 DEF SaveWithOptions
      <3> HIDE DEF xt, ver
      <3> QED BY <2>1, <3>1, SavedFileIsFile
    <2>3. IsObjectMap(UserPart(objects))
      BY UserPartIsObjectMap
    <2>4. /\ xrefType' = xt /\ version' = ver
          /\ saved' = Snapshot(objects)
          /\ UNCHANGED <<objects, held, edits>>
      BY <1>5 DEF SaveWithOptions
    <2> HIDE DEF xt, ver
    <2> QED
      BY <2>1, <2>2, <2>3, <2>4 DEF Snapshot
  <1>6. ASSUME Load PROVE TypeOK'
    <2>1. PICK objs \in LoadResults(file) :
              objects' = objs /\ maxId' = LoadedMaxId(file, objs)
      BY <1>6 DEF Load
    <2>2. IsObjectMap(objs)
      BY <2>1, FileIsLoadable, LoadedIsObjectMap
    <2>3. maxId' \in Nat
      BY <2>1, <2>2, FileIsLoadable, LoadedMaxIdIsCeiling
    <2> QED
      BY <1>6, <2>1, <2>2, <2>3 DEF Load, IsFile
  <1>7. CASE UNCHANGED vars
    BY <1>7 DEF vars
  <1> QED
    BY <1>1, <1>2, <1>3, <1>4, <1>5, <1>6, <1>7 DEF Next

\* The document, the identifiers in use and the file on disk keep their types:
\* no save writes a cross-reference that leads nowhere.
THEOREM TypeCorrect == Spec => []TypeOK
  BY InitTypeOK, NextTypeOK, PTL DEF Spec

-----------------------------------------------------------------------------
(***************************************************************************)
(* The ceiling on identifiers, and what rests on it.                       *)
(***************************************************************************)
LEMMA SavesRaiseMaxId ==
    ASSUME TypeOK, NEW xt \in XrefTypes, NEW ver,
           SaveInternal(xt, ver) \/ SaveWithObjectStreams(xt, ver)
    PROVE  maxId <= maxId'
  <1>1. CrsCount(xt) \in Nat /\ StreamCount \in Nat /\ maxId \in Nat
    BY StreamCountNat DEF CrsCount, TypeOK
  <1> QED
    BY <1>1 DEF SaveInternal, SaveWithObjectStreams

LEMMA SaveOptionsCases ==
    ASSUME TypeOK, NEW uo \in BOOLEAN, NEW ux \in BOOLEAN,
           SaveWithOptions(uo, ux)
    PROVE  \E xt \in XrefTypes, ver \in Versions :
              SaveInternal(xt, ver) \/ SaveWithObjectStreams(xt, ver)
  <1> DEFINE xt  == IF ux THEN "stream" ELSE xrefType
             ver == IF uo \/ ux THEN Raised(version) ELSE version
  <1>1. xt \in XrefTypes /\ ver \in Versions
    BY DEF TypeOK, XrefTypes, Versions, Raised
  <1>2. SaveInternal(xt, ver) \/ SaveWithObjectStreams(xt, ver)
    BY DEF SaveWithOptions
  <1> QED
    BY <1>1, <1>2

LEMMA NextIdsBelowMaxId ==
    TypeOK /\ IdsBelowMaxId /\ [Next]_vars => IdsBelowMaxId'
  <1> SUFFICES ASSUME TypeOK, IdsBelowMaxId, [Next]_vars
               PROVE  IdsBelowMaxId'
    OBVIOUS
  <1> USE DEF IdsBelowMaxId
  <1>0. /\ maxId \in Nat
        /\ \A id \in held \cup DOMAIN objects : id[1] \in Nat
    BY DEF TypeOK, IsObjectMap, Ids
  <1>1. ASSUME NewObjectId PROVE IdsBelowMaxId'
    BY <1>0, <1>1 DEF NewObjectId
  <1>2. ASSUME NEW o \in NewObjects, AddObject(o) PROVE IdsBelowMaxId'
    BY <1>0, <1>2 DEF AddObject, Put
  <1>3. ASSUME NEW id \in held \cup DOMAIN objects, NEW o \in NewValues,
               SetObject(id, o)
        PROVE  IdsBelowMaxId'
    BY <1>3 DEF SetObject, Put
  <1>4. ASSUME NEW id \in DOMAIN objects, RemoveObject(id)
        PROVE  IdsBelowMaxId'
    BY <1>4 DEF RemoveObject, Restricted
  <1>5. ASSUME NEW uo \in BOOLEAN, NEW ux \in BOOLEAN,
               SaveWithOptions(uo, ux)
        PROVE  IdsBelowMaxId'
    <2>1. maxId <= maxId' /\ maxId' \in Nat
      BY <1>5, SaveOptionsCases, SavesRaiseMaxId, SavedFileIsFile
    <2>2. UNCHANGED <<objects, held>>
      BY <1>5 DEF SaveWithOptions
    <2> QED
      BY <1>0, <2>1, <2>2
  <1>6. ASSUME Load PROVE IdsBelowMaxId'
    <2>1. PICK objs \in LoadResults(file) :
              objects' = objs /\ maxId' = LoadedMaxId(file, objs)
      BY <1>6 DEF Load
    <2>2. \A id \in DOMAIN objs : id[1] <= maxId'
      BY <2>1, FileIsLoadable, LoadedIsObjectMap, LoadedMaxIdIsCeiling DEF TypeOK
    <2> QED
      BY <1>6, <2>1, <2>2 DEF Load
  <1>7. CASE UNCHANGED vars
    BY <1>7 DEF vars
  <1> QED
    BY <1>1, <1>2, <1>3, <1>4, <1>5, <1>6, <1>7 DEF Next

\* max_id never falls below a number in use, whatever was edited, saved, loaded.
THEOREM MaxIdIsCeiling == Spec => []IdsBelowMaxId
  <1>1. Init => IdsBelowMaxId
    BY DEF Init, IdsBelowMaxId, Empty
  <1> QED
    BY <1>1, InitTypeOK, NextTypeOK, NextIdsBelowMaxId, PTL DEF Spec

\* new_object_id and add_object hand out numbers above max_id, and only
\* remove_object puts another identifier into the caller's hands.
LEMMA NextFreshIds ==
    ASSUME TypeOK, IdsBelowMaxId, [Next]_vars
    PROVE  \A id \in held' \ held :
               id \notin DOMAIN objects \/ id \notin DOMAIN objects'
  <1>0. maxId \in Nat /\ ~ (maxId + 1 <= maxId)
    BY DEF TypeOK
  <1>1. <<maxId + 1, 0>> \notin DOMAIN objects
    BY <1>0 DEF IdsBelowMaxId
  <1>2. CASE NewObjectId
    BY <1>1, <1>2 DEF NewObjectId
  <1>3. ASSUME NEW o \in NewObjects, AddObject(o)
        PROVE  \A id \in held' \ held : id \notin DOMAIN objects
    BY <1>1, <1>3 DEF AddObject
  <1>4. ASSUME NEW id \in held \cup DOMAIN objects, NEW o \in NewValues,
               SetObject(id, o)
        PROVE  held' = held
    BY <1>4 DEF SetObject
  <1>5. ASSUME NEW id \in DOMAIN objects, RemoveObject(id)
        PROVE  held' = held \cup {id} /\ id \notin DOMAIN objects'
    BY <1>5 DEF RemoveObject, Restricted
  <1>6. ASSUME NEW uo \in BOOLEAN, NEW ux \in BOOLEAN,
               SaveWithOptions(uo, ux)
        PROVE  held' = held
    BY <1>6 DEF SaveWithOptions
  <1>7. CASE Load
    BY <1>7 DEF Load
  <1>8. CASE UNCHANGED vars
    BY <1>8 DEF vars
  <1> QED
    BY <1>2, <1>3, <1>4, <1>5, <1>6, <1>7, <1>8 DEF Next

\* A number newly handed out names no live object.
THEOREM NewIdsAreFresh == Spec => FreshIds
  <1>1. Init => IdsBelowMaxId
    BY DEF Init, IdsBelowMaxId, Empty
  <1>2. TypeOK /\ IdsBelowMaxId /\ [Next]_vars =>
            [\A id \in held' \ held :
                id \notin DOMAIN objects \/ id \notin DOMAIN objects']_vars
    BY NextFreshIds
  <1> QED
    BY <1>1, <1>2, InitTypeOK, NextTypeOK, NextIdsBelowMaxId, PTL
       DEF Spec, FreshIds

-----------------------------------------------------------------------------
(***************************************************************************)
(* The numbers a saved cross-reference lists: those of the live objects,   *)
(* and numbers between max_id before the save and the new Size.            *)
(***************************************************************************)
LEMMA WrittenNumbers ==
    ASSUME NEW direct, IsObjectMap(direct), NEW conts, IsObjectMap(conts),
           NEW packed, NEW n \in Nat, NEW xt, NEW ver,
           NEW x \in DOMAIN Written(direct, conts, packed, n, xt, ver).xref
    PROVE  \/ x \in {id[1] : id \in DOMAIN direct}
           \/ x \in DOMAIN packed
           \/ x \in {id[1] : id \in DOMAIN conts}
           \/ xt = "stream" /\ x = n
  <1> DEFINE crs == IF xt = "stream" THEN CrsOf(n) ELSE Empty
             ents == Put(Put(Put(EntriesOf(direct), packed), EntriesOf(conts)),
                         EntriesOf(crs))
  <1>1. DOMAIN ents = DOMAIN EntriesOf(direct) \cup DOMAIN packed
                      \cup DOMAIN EntriesOf(conts) \cup DOMAIN EntriesOf(crs)
    BY DEF Put
  <1>2. /\ DOMAIN EntriesOf(direct) = {id[1] : id \in DOMAIN direct}
        /\ DOMAIN EntriesOf(conts) = {id[1] : id \in DOMAIN conts}
        /\ DOMAIN EntriesOf(crs) = {id[1] : id \in DOMAIN crs}
    BY DEF EntriesOf
  <1>3. DOMAIN OnDisk(ents, xt) \subseteq DOMAIN ents
    BY DEF OnDisk, Restricted
  <1>4. x \in DOMAIN OnDisk(ents, xt)
    BY DEF Written
  <1>5. \A id \in DOMAIN crs : xt = "stream" /\ id[1] = n
    BY DEF CrsOf, Empty
  <1> HIDE DEF ents, crs
  <1> QED
    BY <1>1, <1>2, <1>3, <1>4, <1>5

LEMMA SavedNumbers ==
    ASSUME TypeOK, NEW xt \in XrefTypes, NEW ver \in Versions,
           SaveInternal(xt, ver) \/ SaveWithObjectStreams(xt, ver),
           NEW x \in DOMAIN file'.xref
    PROVE  \/ \E id \in DOMAIN objects : id[1] = x
           \/ maxId < x /\ x < file'.size
  <1>1. /\ maxId \in Nat /\ IsObjectMap(objects) /\ StreamCount \in Nat
        /\ CrsCount(xt) \in Nat /\ (xt = "stream" => CrsCount(xt) = 1)
    BY StreamCountNat DEF TypeOK, CrsCount
  <1>2. CASE SaveInternal(xt, ver)
    <2> DEFINE n == maxId + CrsCount(xt)
    <2>1. IsObjectMap(UserPart(objects)) /\ n \in Nat
      BY <1>1, UserPartIsObjectMap
    <2>2. file' = Written(UserPart(objects), Empty, Empty, n, xt, ver)
      BY <1>2 DEF SaveInternal
    <2>3. file'.size = n + 1
      BY <2>2 DEF Written, SizeFor
    <2>4. \/ x \in {id[1] : id \in DOMAIN UserPart(objects)}
          \/ xt = "stream" /\ x = n
      <3> HIDE DEF n
      <3>1. \/ x \in {id[1] : id \in DOMAIN UserPart(objects)}
            \/ x \in DOMAIN Empty
            \/ x \in {id[1] : id \in DOMAIN Empty}
            \/ xt = "stream" /\ x = n
        BY <2>1, <2>2, EmptyIsObjectMap, WrittenNumbers
      <3> QED BY <3>1 DEF Empty
    <2>5. DOMAIN UserPart(objects) \subseteq DOMAIN objects
      BY DEF UserPart, Restricted
    <2> QED
      BY <1>1, <2>3, <2>4, <2>5
  <1>3. CASE SaveWithObjectStreams(xt, ver)
    <2> DEFINE direct == Restricted(objects,
                             {id \in DOMAIN objects \ PackedIds :
                                  objects[id].type # "ObjStm"})
               n == maxId + StreamCount + CrsCount(xt)
    <2>1. IsObjectMap(direct) /\ IsObjectMap(Containers) /\ n \in Nat
      BY <1>1, RestrictedIsObjectMap, ContainersAreObjects
    <2>2. file' = Written(direct, Containers, PackedEntries, n, xt, ver)
      BY <1>3 DEF SaveWithObjectStreams
    <2>3. file'.size = n + 1
      BY <2>2 DEF Written, SizeFor
    <2>4. \/ x \in {id[1] : id \in DOMAIN direct}
          \/ x \in DOMAIN PackedEntries
          \/ x \in {id[1] : id \in DOMAIN Containers}
          \/ xt = "stream" /\ x = n
      <3> HIDE DEF n, direct
      <3> QED BY <2>1, <2>2, WrittenNumbers
    <2>5. /\ DOMAIN direct \subseteq DOMAIN objects
          /\ DOMAIN PackedEntries = {id[1] : id \in PackedIds}
          /\ PackedIds \subseteq DOMAIN objects
      BY DEF Restricted, PackedEntries, PackedIds
    <2>6. ASSUME x \in {id[1] : id \in DOMAIN Containers}
          PROVE  maxId < x /\ x <= maxId + StreamCount /\ x \in Nat
      <3>1. PICK m \in PackedIds : x = ContainerOf(m[1])
        BY <2>6 DEF Containers
      <3> QED BY <3>1, ContainerBounds
    <2> HIDE DEF direct
    <2> QED
      BY <1>1, <2>3, <2>4, <2>5, <2>6
  <1> QED
    BY <1>2, <1>3

LEMMA NextSizeCoversEntries ==
    TypeOK /\ IdsBelowMaxId /\ SizeCoversEntries /\ [Next]_vars
        => SizeCoversEntries'
  <1> SUFFICES ASSUME TypeOK, IdsBelowMaxId, SizeCoversEntries, [Next]_vars
               PROVE  SizeCoversEntries'
    OBVIOUS
  <1>1. ASSUME NEW uo \in BOOLEAN, NEW ux \in BOOLEAN,
               SaveWithOptions(uo, ux)
        PROVE  SizeCoversEntries'
    <2>1. PICK xt \in XrefTypes, ver \in Versions :
              SaveInternal(xt, ver) \/ SaveWithObjectStreams(xt, ver)
      BY <1>1, SaveOptionsCases
    <2>2. file'.size = maxId' + 1
      BY <2>1 DEF SaveInternal, SaveWithObjectStreams, Written, SizeFor
    <2>3. maxId <= maxId' /\ maxId' \in Nat /\ maxId \in Nat
      BY <2>1, SavesRaiseMaxId, SavedFileIsFile DEF TypeOK
    <2>4. \A id \in DOMAIN objects : id[1] \in Nat /\ id[1] <= maxId
      BY DEF TypeOK, IsObjectMap, Ids, IdsBelowMaxId
    <2>5. \A x \in DOMAIN file'.xref : x < file'.size
      BY <2>1, <2>2, <2>3, <2>4, SavedNumbers
    <2> QED
      BY <2>5 DEF SizeCoversEntries
  <1>2. CASE UNCHANGED <<file, saved>>
    BY <1>2 DEF SizeCoversEntries
  <1> QED
    BY <1>1, <1>2
       DEF Next, NewObjectId, AddObject, SetObject, RemoveObject, Load, vars

\* The trailer's Size is above every number the cross-reference lists.
THEOREM SizeIsAboveEntries == Spec => []SizeCoversEntries
  <1>1. Init => IdsBelowMaxId /\ SizeCoversEntries
    BY DEF Init, IdsBelowMaxId, SizeCoversEntries, Empty, Foreign
  <1> QED
    BY <1>1, InitTypeOK, NextTypeOK, NextIdsBelowMaxId, NextSizeCoversEntries,
       PTL DEF Spec

-----------------------------------------------------------------------------
(***************************************************************************)
(* What a save writes can be found again.  The entries of a file are       *)
(* indexed by number alone, so this needs one generation per number: an    *)
(* identifier in use, or in the file, is the only one with its number.     *)
(***************************************************************************)
OneGeneration(S) == \A a, b \in S : a[1] = b[1] => a = b

FileIds(f) ==
    DOMAIN f.body \cup
    {<<n, 0>> : n \in UNION {DOMAIN f.body[c].members : c \in DOMAIN f.body}}

LEMMA EntryOfOneGeneration ==
    ASSUME NEW b, IsObjectMap(b), OneGeneration(DOMAIN b), NEW id \in DOMAIN b
    PROVE  /\ id[1] \in DOMAIN EntriesOf(b)
           /\ EntriesOf(b)[id[1]] = Normal(id)
  <1> DEFINE n == id[1]
             h == <<n, Highest({g \in Gens : <<n, g>> \in DOMAIN b})>>
  <1>1. n \in DOMAIN EntriesOf(b) /\ EntriesOf(b)[n] = Normal(h)
    BY DEF EntriesOf
  <1>2. IsEntryMap(EntriesOf(b), b)
    BY EntriesOfIsEntryMap
  <1>3. Normal(h).at = h /\ Normal(h).kind = "normal"
    BY DEF Normal
  <1>4. h \in DOMAIN b
    BY <1>1, <1>2, <1>3 DEF IsEntryMap
  <1>5. h = id
    BY <1>4 DEF OneGeneration
  <1> QED
    BY <1>1, <1>5

\* The parts of a save that keep apart in their numbers are all found: each
\* directly written object, container and cross-reference stream by its entry.
LEMMA WrittenIsFound ==
    ASSUME NEW direct, IsObjectMap(direct), OneGeneration(DOMAIN direct),
           NEW conts, IsObjectMap(conts), OneGeneration(DOMAIN conts),
           NEW packed, \A b : IsEntryMap(packed, b),
           \A k \in DOMAIN packed : packed[k].kind = "packed",
           NEW n \in Nat, NEW xt \in XrefTypes, NEW ver \in Versions,
           \A id \in DOMAIN direct :
              /\ id[1] \notin DOMAIN packed
              /\ xt = "stream" => id[1] # n
              /\ \A c \in DOMAIN conts : id[1] # c[1],
           \A c \in DOMAIN conts :
              c[1] \notin DOMAIN packed /\ (xt = "stream" => c[1] # n),
           n \notin DOMAIN packed \/ xt # "stream",
           NEW f, f = Written(direct, conts, packed, n, xt, ver)
    PROVE  /\ DOMAIN f.body = DOMAIN direct \cup DOMAIN conts \cup
                  (IF xt = "stream" THEN {<<n, 0>>} ELSE {})
           /\ \A id \in DOMAIN direct : f.body[id] = direct[id]
           /\ \A id \in DOMAIN conts : f.body[id] = conts[id]
           /\ xt = "stream" => f.body[<<n, 0>>] = XRefStm
           /\ \A id \in DOMAIN f.body :
                 id[1] \in DOMAIN f.xref /\ f.xref[id[1]] = Normal(id)
           /\ \A k \in DOMAIN f.xref :
                 f.xref[k].kind = "packed" =>
                     k \in DOMAIN packed /\ f.xref[k] = packed[k]
  <1> DEFINE crs == IF xt = "stream" THEN CrsOf(n) ELSE Empty
             body == Put(Put(direct, conts), crs)
             E(b) == EntriesOf(b)
             ents == Put(Put(Put(E(direct), packed), E(conts)), E(crs))
  <1>1. f.body = body /\ f.xref = OnDisk(ents, xt)
    BY DEF Written
  <1>2. /\ DOMAIN crs = IF xt = "stream" THEN {<<n, 0>>} ELSE {}
        /\ xt = "stream" => crs[<<n, 0>>] = XRefStm
        /\ IsObjectMap(crs)
        /\ OneGeneration(DOMAIN crs)
    <2>1. IsObjectMap(crs)
      BY CrsIsObjectMap, EmptyIsObjectMap
    <2> QED
      BY <2>1 DEF CrsOf, Empty, OneGeneration
  <1>3. /\ DOMAIN E(direct) = {id[1] : id \in DOMAIN direct}
        /\ DOMAIN E(conts) = {id[1] : id \in DOMAIN conts}
        /\ DOMAIN E(crs) = {id[1] : id \in DOMAIN crs}
    BY DEF EntriesOf
  <1>4. /\ \A id \in DOMAIN direct : E(direct)[id[1]] = Normal(id)
        /\ \A id \in DOMAIN conts : E(conts)[id[1]] = Normal(id)
        /\ \A id \in DOMAIN crs : E(crs)[id[1]] = Normal(id)
    <2> HIDE DEF crs
    <2> QED BY <1>2, EntryOfOneGeneration
  <1>5. /\ DOMAIN body = DOMAIN direct \cup DOMAIN conts \cup DOMAIN crs
        /\ \A id \in DOMAIN direct : body[id] = direct[id]
        /\ \A id \in DOMAIN conts : body[id] = conts[id]
        /\ \A id \in DOMAIN crs : body[id] = crs[id]
    <2>1. \A id \in DOMAIN crs : id = <<n, 0>> /\ xt = "stream"
      BY <1>2
    <2>2. \A id \in DOMAIN direct : id \notin DOMAIN conts \cup DOMAIN crs
      BY <2>1
    <2>3. \A id \in DOMAIN conts : id \notin DOMAIN crs
      BY <2>1
    <2> HIDE DEF crs
    <2> QED BY <2>2, <2>3 DEF Put
  <1>6. /\ DOMAIN ents = DOMAIN E(direct) \cup DOMAIN packed
                         \cup DOMAIN E(conts) \cup DOMAIN E(crs)
        /\ \A id \in DOMAIN direct : ents[id[1]] = Normal(id)
        /\ \A id \in DOMAIN conts : ents[id[1]] = Normal(id)
        /\ \A id \in DOMAIN crs : ents[id[1]] = Normal(id)
        /\ \A k \in DOMAIN packed : ents[k] = packed[k]
    <2>1. \A id \in DOMAIN crs : id = <<n, 0>> /\ id[1] = n /\ xt = "stream"
      BY <1>2
    <2>2. \A id \in DOMAIN direct :
              /\ id[1] \in DOMAIN E(direct)
              /\ id[1] \notin DOMAIN packed
              /\ id[1] \notin DOMAIN E(conts)
              /\ id[1] \notin DOMAIN E(crs)
      BY <1>3, <2>1
    <2>3. \A id \in DOMAIN conts :
              /\ id[1] \in DOMAIN E(conts)
              /\ id[1] \notin DOMAIN E(crs)
      BY <1>3, <2>1
    <2>4. \A id \in DOMAIN crs : id[1] \in DOMAIN E(crs)
      BY <1>3
    <2>5. \A k \in DOMAIN packed :
              k \notin DOMAIN E(conts) /\ k \notin DOMAIN E(crs)
      BY <1>3, <2>1
    <2> HIDE DEF crs, E
    <2> QED
      BY <1>4, <2>2, <2>3, <2>4, <2>5 DEF Put
  <1>7. \A id \in DOMAIN body :
            id[1] \in DOMAIN ents /\ ents[id[1]] = Normal(id)
    <2> HIDE DEF ents, body, crs, E
    <2> QED BY <1>3, <1>5, <1>6
  <1>8. \A k \in DOMAIN ents :
            ents[k].kind = "packed" => k \in DOMAIN packed
    <2>1. \A id : Normal(id).kind = "normal"
      BY DEF Normal
    <2> HIDE DEF ents, body, crs, E
    <2> QED BY <1>3, <1>6, <2>1
  <1>9. \A k \in DOMAIN ents : ents[k].kind = "normal" \/ xt = "stream" =>
            k \in DOMAIN OnDisk(ents, xt) /\ OnDisk(ents, xt)[k] = ents[k]
    <2> HIDE DEF ents
    <2> QED BY DEF OnDisk, Restricted, XrefTypes
  <1>10. \A k \in DOMAIN OnDisk(ents, xt) :
            k \in DOMAIN ents /\ OnDisk(ents, xt)[k] = ents[k]
    <2> HIDE DEF ents
    <2> QED BY DEF OnDisk, Restricted
  <1>11. \A id \in DOMAIN body :
            id[1] \in DOMAIN f.xref /\ f.xref[id[1]] = Normal(id)
    <2>1. \A id : Normal(id).kind = "normal"
      BY DEF Normal
    <2> HIDE DEF ents, body
    <2> QED BY <1>1, <1>7, <1>9, <2>1
  <1>12. \A k \in DOMAIN f.xref :
            f.xref[k].kind = "packed" =>
                k \in DOMAIN packed /\ f.xref[k] = packed[k]
    <2> HIDE DEF ents, body
    <2> QED BY <1>1, <1>6, <1>8, <1>10
  <1> HIDE DEF ents, body, crs
  <1> QED
    BY <1>1, <1>2, <1>5, <1>11, <1>12

\* A cross-reference stream also lists the packed objects.
LEMMA PackedAreListed ==
    ASSUME NEW direct, NEW conts, NEW packed, NEW n, NEW ver,
           \A c \in DOMAIN conts : c[1] \notin DOMAIN packed,
           n \notin DOMAIN packed,
           NEW k \in DOMAIN packed,
           NEW f, f = Written(direct, conts, packed, n, "stream", ver)
    PROVE  k \in DOMAIN f.xref /\ f.xref[k] = packed[k]
  <1> DEFINE E(b) == EntriesOf(b)
             ents == Put(Put(Put(E(direct), packed), E(conts)), E(CrsOf(n)))
  <1>1. f.xref = ents
    BY DEF Written, OnDisk
  <1>2. k \notin DOMAIN E(conts)
    BY DEF EntriesOf
  <1>3. k \notin DOMAIN E(CrsOf(n))
    BY DEF EntriesOf, CrsOf
  <1> HIDE DEF E
  <1> QED
    BY <1>1, <1>2, <1>3 DEF Put

\* In such a file every object is listed.
LEMMA FoundIsListed ==
    ASSUME NEW f, IsFile(f),
           \A id \in DOMAIN f.body :
              id[1] \in DOMAIN f.xref /\ f.xref[id[1]] = Normal(id)
    PROVE  NormalIds(f) = DOMAIN f.body /\ ListedObjects(f) = f.body
  <1>1. ASSUME NEW id \in DOMAIN f.body
        PROVE  id \in NormalIds(f)
    <2>1. id[1] \in DOMAIN f.xref /\ f.xref[id[1]] = Normal(id)
      BY <1>1
    <2>2. Normal(id).kind = "normal" /\ Normal(id).at = id
      BY DEF Normal
    <2> QED
      BY <2>1, <2>2 DEF NormalIds
  <1>2. NormalIds(f) = DOMAIN f.body
    BY <1>1, FileIsLoadable, ListedIsObjectMap
  <1>3. f.body = [id \in DOMAIN f.body |-> f.body[id]]
    BY DEF IsFile, IsObjectMap
  <1> QED
    BY <1>2, <1>3 DEF ListedObjects, Restricted

LEMMA DataIsItsValue ==
    ASSUME NEW o, IsObject(o), o.type = "Data"
    PROVE  Data(o.val) = o
  BY DEF IsObject, Data

LEMMA MembersArePacked ==
    ASSUME TypeOK, NEW c \in DOMAIN Containers,
           NEW n \in DOMAIN Containers[c].members
    PROVE  /\ <<n, 0>> \in PackedIds
           /\ c = <<ContainerOf(n), 0>>
           /\ Data(Containers[c].members[n]) = objects[<<n, 0>>]
  <1>1. PICK m \in PackedIds : c = <<ContainerOf(m[1]), 0>>
    BY DEF Containers
  <1>2. Containers[c].members = MembersOf(c[1]) /\ c[1] = ContainerOf(m[1])
    BY <1>1 DEF Containers, ObjStm
  <1>3. PICK id \in PackedIds : ContainerOf(id[1]) = c[1] /\ id[1] = n
    BY <1>2 DEF MembersOf
  <1>4. id = <<n, 0>>
    BY <1>3, PackedIdsFinite
  <1>5. Containers[c].members[n] = objects[<<n, 0>>].val
    BY <1>2, <1>3 DEF MembersOf
  <1>6. IsObject(objects[id]) /\ objects[id].type = "Data"
    BY DEF PackedIds, CanBeCompressed, TypeOK, IsObjectMap
  <1> QED
    BY <1>1, <1>2, <1>3, <1>4, <1>5, <1>6, DataIsItsValue

LEMMA PackedAreMembers ==
    ASSUME TypeOK, NEW id \in PackedIds
    PROVE  /\ <<ContainerOf(id[1]), 0>> \in DOMAIN Containers
           /\ id[1] \in DOMAIN Containers[<<ContainerOf(id[1]), 0>>].members
  <1> DEFINE c == <<ContainerOf(id[1]), 0>>
  <1>1. c \in DOMAIN Containers /\ Containers[c] = ObjStm(MembersOf(c[1]))
    BY DEF Containers
  <1>2. Containers[c].members = MembersOf(ContainerOf(id[1]))
    BY <1>1 DEF ObjStm
  <1>3. id[1] \in DOMAIN MembersOf(ContainerOf(id[1]))
    BY DEF MembersOf
  <1> QED
    BY <1>1, <1>2, <1>3

\* The shape of a saved file: the objects that are not packed, the containers of
\* the others and the cross-reference stream, each listed under its number.
SavedShape(f, packed) ==
    /\ IsFile(f)
    /\ \A id \in DOMAIN f.body :
          /\ id[1] \in DOMAIN f.xref /\ f.xref[id[1]] = Normal(id)
          /\ \/ id \in DOMAIN objects \ packed /\ f.body[id] = objects[id]
                /\ f.body[id].type # "ObjStm"
             \/ /\ id[2] = 0 /\ maxId < id[1]
                /\ \/ f.body[id].type = "XRef"
                   \/ packed = PackedIds /\ id \in DOMAIN Containers
                      /\ f.body[id] = Containers[id]
    /\ \A id \in DOMAIN UserPart(objects) \ packed : id \in DOMAIN f.body
    /\ packed # {} => \A id \in DOMAIN Containers :
          id \in DOMAIN f.body /\ f.body[id] = Containers[id]
    /\ \A n \in DOMAIN f.xref : f.xref[n].kind = "packed" =>
          /\ n \in {id[1] : id \in packed}
          /\ f.xref[n] = Packed(ContainerOf(n), IndexInStream(n))
    /\ f.xtype = "stream" => \A id \in packed :
          /\ id[1] \in DOMAIN f.xref
          /\ f.xref[id[1]] = Packed(ContainerOf(id[1]), IndexInStream(id[1]))

LEMMA InternalShape ==
    ASSUME TypeOK, IdsBelowMaxId, OneGeneration(DOMAIN objects),
           NEW xt \in XrefTypes, NEW ver \in Versions, SaveInternal(xt, ver)
    PROVE  SavedShape(file', {})
  <1> DEFINE direct == UserPart(objects)
             n == maxId + CrsCount(xt)
  <1>1. /\ IsObjectMap(direct)
        /\ DOMAIN direct \subseteq DOMAIN objects
        /\ \A id \in DOMAIN direct :
              direct[id] = objects[id] /\ direct[id].type \in UserTypes
    BY UserPartIsObjectMap DEF TypeOK, UserPart, Restricted
  <1>2. OneGeneration(DOMAIN direct) /\ OneGeneration(DOMAIN Empty)
    BY <1>1 DEF OneGeneration, Empty
  <1>3. maxId \in Nat /\ n \in Nat /\ (xt = "stream" => maxId < n)
    BY DEF TypeOK, CrsCount
  <1>4. \A id \in DOMAIN direct : id[1] \in Nat /\ id[1] <= maxId
    BY <1>1 DEF IdsBelowMaxId, TypeOK, IsObjectMap, Ids
  <1>5. /\ IsObjectMap(Empty) /\ DOMAIN Empty = {}
        /\ \A b : IsEntryMap(Empty, b)
    BY EmptyIsObjectMap, FS_EmptySet DEF IsEntryMap, Empty
  <1>6. file' = Written(direct, Empty, Empty, n, xt, ver)
    BY DEF SaveInternal
  <1>7. IsFile(file')
    BY SavedFileIsFile
  <1> HIDE DEF direct, n
  <1>8. /\ DOMAIN file'.body = DOMAIN direct \cup
                (IF xt = "stream" THEN {<<n, 0>>} ELSE {})
        /\ \A id \in DOMAIN direct : file'.body[id] = direct[id]
        /\ xt = "stream" => file'.body[<<n, 0>>] = XRefStm
        /\ \A id \in DOMAIN file'.body :
              id[1] \in DOMAIN file'.xref /\ file'.xref[id[1]] = Normal(id)
        /\ \A k \in DOMAIN file'.xref : file'.xref[k].kind # "packed"
    <2>1. \A id \in DOMAIN direct : xt = "stream" => id[1] # n
      BY <1>3, <1>4
    <2> QED
      BY <1>1, <1>2, <1>3, <1>5, <1>6, <2>1, WrittenIsFound
  <1>9. XRefStm.type = "XRef" /\ "ObjStm" \notin UserTypes
    BY DEF XRefStm, UserTypes
  <1>10. \A id \in DOMAIN file'.body :
            \/ id \in DOMAIN objects /\ file'.body[id] = objects[id]
               /\ file'.body[id].type # "ObjStm"
            \/ id[2] = 0 /\ maxId < id[1] /\ file'.body[id].type = "XRef"
    BY <1>1, <1>3, <1>8, <1>9
  <1> QED
    BY <1>7, <1>8, <1>10 DEF SavedShape, direct

LEMMA ObjectStreamsShape ==
    ASSUME TypeOK, IdsBelowMaxId, OneGeneration(DOMAIN objects),
           NEW xt \in XrefTypes, NEW ver \in Versions,
           SaveWithObjectStreams(xt, ver)
    PROVE  SavedShape(file', PackedIds)
  <1> DEFINE direct == Restricted(objects,
                           {id \in DOMAIN objects \ PackedIds :
                                objects[id].type # "ObjStm"})
             n == maxId + StreamCount + CrsCount(xt)
  <1>1. /\ IsObjectMap(direct)
        /\ DOMAIN direct = {id \in DOMAIN objects \ PackedIds :
                                objects[id].type # "ObjStm"}
        /\ \A id \in DOMAIN direct : direct[id] = objects[id]
    BY RestrictedIsObjectMap DEF TypeOK, Restricted
  <1>2. OneGeneration(DOMAIN direct) /\ OneGeneration(DOMAIN Containers)
    <2>1. OneGeneration(DOMAIN direct)
      BY <1>1 DEF OneGeneration
    <2>2. \A c \in DOMAIN Containers : c = <<c[1], 0>>
      BY DEF Containers
    <2> HIDE DEF direct
    <2> QED BY <2>1, <2>2 DEF OneGeneration
  <1>3. /\ maxId \in Nat /\ n \in Nat /\ StreamCount \in Nat
        /\ (xt = "stream" => maxId + StreamCount < n)
    BY StreamCountNat DEF TypeOK, CrsCount
  <1>4. \A id \in DOMAIN objects : id[1] \in Nat /\ id[1] <= maxId
    BY DEF IdsBelowMaxId, TypeOK, IsObjectMap, Ids
  <1>5. \A c \in DOMAIN Containers :
            /\ c[1] \in Nat /\ c[2] = 0
            /\ maxId < c[1] /\ c[1] <= maxId + StreamCount
    BY ContainerBounds DEF Containers
  <1>6. /\ DOMAIN PackedEntries = {id[1] : id \in PackedIds}
        /\ PackedIds \subseteq DOMAIN objects
        /\ \A k \in DOMAIN PackedEntries :
              /\ PackedEntries[k] = Packed(ContainerOf(k), IndexInStream(k))
              /\ PackedEntries[k].kind = "packed"
    BY DEF PackedEntries, Packed, PackedIds
  <1>7. \A k \in DOMAIN PackedEntries : k \in Nat /\ k <= maxId
    BY <1>4, <1>6
  <1>8. IsObjectMap(Containers) /\ \A b : IsEntryMap(PackedEntries, b)
    BY ContainersAreObjects, PackedEntriesIsEntryMap
  <1>9. file' = Written(direct, Containers, PackedEntries, n, xt, ver)
    BY DEF SaveWithObjectStreams
  <1>10. IsFile(file')
    BY SavedFileIsFile
  <1> HIDE DEF direct, n
  <1>11. \A id \in DOMAIN direct :
            /\ id[1] \notin DOMAIN PackedEntries
            /\ xt = "stream" => id[1] # n
            /\ \A c \in DOMAIN Containers : id[1] # c[1]
    <2> TAKE id \in DOMAIN direct
    <2>1. id \in DOMAIN objects /\ id \notin PackedIds
      BY <1>1
    <2>2. id[1] \notin DOMAIN PackedEntries
      BY <2>1, <1>6 DEF OneGeneration
    <2> QED
      BY <2>1, <2>2, <1>3, <1>4, <1>5
  <1>12. \A c \in DOMAIN Containers :
            c[1] \notin DOMAIN PackedEntries /\ (xt = "stream" => c[1] # n)
    BY <1>3, <1>5, <1>7
  <1>13. n \notin DOMAIN PackedEntries \/ xt # "stream"
    BY <1>3, <1>7
  <1>14. /\ DOMAIN file'.body = DOMAIN direct \cup DOMAIN Containers \cup
                (IF xt = "stream" THEN {<<n, 0>>} ELSE {})
         /\ \A id \in DOMAIN direct : file'.body[id] = direct[id]
         /\ \A id \in DOMAIN Containers : file'.body[id] = Containers[id]
         /\ xt = "stream" => file'.body[<<n, 0>>] = XRefStm
         /\ \A id \in DOMAIN file'.body :
               id[1] \in DOMAIN file'.xref /\ file'.xref[id[1]] = Normal(id)
         /\ \A k \in DOMAIN file'.xref :
               file'.xref[k].kind = "packed" =>
                   k \in DOMAIN PackedEntries
                   /\ file'.xref[k] = PackedEntries[k]
    BY <1>1, <1>2, <1>3, <1>6, <1>8, <1>9, <1>11, <1>12, <1>13, WrittenIsFound
  <1>15. XRefStm.type = "XRef"
    BY DEF XRefStm
  <1>16. \A id \in DOMAIN file'.body :
            \/ id \in DOMAIN objects \ PackedIds
               /\ file'.body[id] = objects[id]
               /\ file'.body[id].type # "ObjStm"
            \/ /\ id[2] = 0 /\ maxId < id[1]
               /\ \/ file'.body[id].type = "XRef"
                  \/ id \in DOMAIN Containers
                     /\ file'.body[id] = Containers[id]
    <2> TAKE id \in DOMAIN file'.body
    <2>1. CASE id \in DOMAIN direct
      BY <2>1, <1>1, <1>14
    <2>2. CASE id \in DOMAIN Containers
      BY <2>2, <1>5, <1>14
    <2>3. CASE xt = "stream" /\ id = <<n, 0>>
      BY <2>3, <1>3, <1>14, <1>15
    <2> QED
      BY <2>1, <2>2, <2>3, <1>14
  <1>17. \A id \in DOMAIN UserPart(objects) \ PackedIds : id \in DOMAIN direct
    <2>1. "ObjStm" \notin UserTypes
      BY DEF UserTypes
    <2> QED
      BY <2>1, <1>1 DEF UserPart, Restricted
  <1>18. file'.xtype = "stream" => \A id \in PackedIds :
             /\ id[1] \in DOMAIN file'.xref
             /\ file'.xref[id[1]] = Packed(ContainerOf(id[1]), IndexInStream(id[1]))
    <2>1. file'.xtype = xt
      BY <1>9 DEF Written
    <2>2. xt = "stream" => \A k \in DOMAIN PackedEntries :
              k \in DOMAIN file'.xref /\ file'.xref[k] = PackedEntries[k]
      BY <1>9, <1>12, <1>13, PackedAreListed
    <2> QED
      BY <2>1, <2>2, <1>6
  <1> QED
    BY <1>6, <1>10, <1>14, <1>16, <1>17, <1>18 DEF SavedShape

-----------------------------------------------------------------------------
(***************************************************************************)
(* A file of that shape gives back the caller's objects, whichever worker  *)
(* comes first.                                                            *)
(***************************************************************************)
LEMMA ShapeReloads ==
    ASSUME TypeOK, IdsBelowMaxId, NEW f,
           NEW packed, packed = {} \/ packed = PackedIds,
           SavedShape(f, packed), NEW objs \in LoadResults(f)
    PROVE  UserPart(objs) = UserPart(objects)
  <1>0. IsFile(f)
    BY DEF SavedShape
  <1>1. NormalIds(f) = DOMAIN f.body /\ ListedObjects(f) = f.body
    BY <1>0, FoundIsListed DEF SavedShape
  <1>2. ASSUME NEW c, NEW n, Accepts(f, c, n)
        PROVE  /\ <<n, 0>> \in packed
               /\ Data(f.body[c].members[n]) = objects[<<n, 0>>]
    <2>1. /\ c \in DOMAIN f.body /\ f.body[c].type = "ObjStm"
          /\ n \in DOMAIN f.body[c].members
      BY <1>1, <1>2 DEF Accepts
    <2>2. /\ packed = PackedIds /\ c \in DOMAIN Containers
          /\ f.body[c] = Containers[c]
      BY <2>1 DEF SavedShape
    <2> QED
      BY <2>1, <2>2, MembersArePacked
  <1>3. ASSUME NEW id \in packed
        PROVE  /\ id = <<id[1], 0>>
               /\ \E c \in NormalIds(f) : Accepts(f, c, id[1])
    <2> DEFINE c == <<ContainerOf(id[1]), 0>>
    <2>1. packed = PackedIds /\ id \in PackedIds /\ id = <<id[1], 0>>
      BY PackedIdsFinite
    <2>2. /\ c \in DOMAIN Containers /\ id[1] \in DOMAIN Containers[c].members
          /\ Containers[c] = ObjStm(MembersOf(c[1]))
      BY <2>1, PackedAreMembers DEF Containers
    <2>3. c \in DOMAIN f.body /\ f.body[c] = Containers[c]
      BY <2>1, <2>2 DEF SavedShape
    <2>4. f.body[c].type = "ObjStm"
      BY <2>2, <2>3 DEF ObjStm
    <2>5. \/ id[1] \notin DOMAIN f.xref
          \/ f.xref[id[1]].kind # "packed"
          \/ f.xref[id[1]].container = c[1]
      <3>1. CASE id[1] \in DOMAIN f.xref /\ f.xref[id[1]].kind = "packed"
        <4>1. f.xref[id[1]] =
                  Packed(ContainerOf(id[1]), IndexInStream(id[1]))
          BY <3>1 DEF SavedShape
        <4> QED BY <4>1 DEF Packed
      <3> QED BY <3>1
    <2>6. Accepts(f, c, id[1])
      <3> HIDE DEF c
      <3> QED BY <1>1, <2>2, <2>3, <2>4, <2>5 DEF Accepts
    <2> QED
      BY <1>1, <2>1, <2>3, <2>6
  <1>4. MemberNums(f) \X {0} = packed
    <2>1. \A n \in MemberNums(f) : <<n, 0>> \in packed
      BY <1>2 DEF MemberNums
    <2>2. ASSUME NEW id \in packed
          PROVE  id[1] \in MemberNums(f)
      <3>1. PICK c \in NormalIds(f) : Accepts(f, c, id[1])
        BY <1>3
      <3>2. id[1] \in DOMAIN f.body[c].members
        BY <1>1, <3>1 DEF Accepts
      <3> QED BY <3>1, <3>2 DEF MemberNums
    <2> QED
      BY <2>1, <2>2, <1>3
  <1>5. PICK src \in [MemberNums(f) -> NormalIds(f)] :
            /\ \A n \in MemberNums(f) : Accepts(f, src[n], n)
            /\ objs = Put([id \in MemberNums(f) \X {0} |->
                             Data(f.body[src[id[1]]].members[id[1]])],
                         ListedObjects(f))
    BY DEF LoadResults
  <1>6. objs = Put([id \in packed |->
                       Data(f.body[src[id[1]]].members[id[1]])], f.body)
    BY <1>1, <1>4, <1>5
  <1>7. \A id \in packed :
            Data(f.body[src[id[1]]].members[id[1]]) = objects[id]
    <2> TAKE id \in packed
    <2>1. id[1] \in MemberNums(f) /\ id = <<id[1], 0>>
      BY <1>3, <1>4
    <2>2. Accepts(f, src[id[1]], id[1])
      BY <1>5, <2>1
    <2> QED
      BY <1>2, <2>1, <2>2
  <1>8. objs = Put([id \in packed |-> objects[id]], f.body)
    BY <1>6, <1>7
  <1>9. /\ packed \subseteq DOMAIN objects
        /\ \A id \in packed : id \notin DOMAIN f.body
    <2>1. packed \subseteq DOMAIN objects
      BY DEF PackedIds
    <2>2. \A id \in packed : id[1] \in Nat /\ id[1] <= maxId /\ maxId \in Nat
      BY <2>1 DEF IdsBelowMaxId, TypeOK, IsObjectMap, Ids
    <2> QED
      BY <2>1, <2>2 DEF SavedShape
  <1>10. /\ DOMAIN objs = packed \cup DOMAIN f.body
         /\ \A id \in packed : objs[id] = objects[id]
         /\ \A id \in DOMAIN f.body : objs[id] = f.body[id]
    BY <1>8, <1>9 DEF Put
  <1>11. ASSUME NEW id \in DOMAIN objs, objs[id].type \in UserTypes
         PROVE  id \in DOMAIN objects /\ objs[id] = objects[id]
    <2>1. CASE id \in packed
      BY <2>1, <1>9, <1>10
    <2>2. CASE id \in DOMAIN f.body
      <3>1. f.body[id].type \in UserTypes
        BY <2>2, <1>10, <1>11
      <3>2. \A c \in DOMAIN Containers : Containers[c].type = "ObjStm"
        BY DEF Containers, ObjStm
      <3>3. id \in DOMAIN objects /\ f.body[id] = objects[id]
        BY <2>2, <3>1, <3>2 DEF SavedShape, UserTypes
      <3> QED BY <2>2, <3>3, <1>10
    <2> QED
      BY <2>1, <2>2, <1>10
  <1>12. ASSUME NEW id \in DOMAIN objects, objects[id].type \in UserTypes
         PROVE  id \in DOMAIN objs /\ objs[id] = objects[id]
    <2>1. CASE id \in packed
      BY <2>1, <1>10
    <2>2. CASE id \notin packed
      <3>1. id \in DOMAIN UserPart(objects) \ packed
        BY <2>2, <1>12 DEF UserPart, Restricted
      <3>2. id \in DOMAIN f.body
        BY <3>1 DEF SavedShape
      <3>3. id[1] \in Nat /\ id[1] <= maxId /\ maxId \in Nat
        BY DEF IdsBelowMaxId, TypeOK, IsObjectMap, Ids
      <3>4. f.body[id] = objects[id]
        BY <3>2, <3>3 DEF SavedShape
      <3> QED BY <3>2, <3>4, <1>10
    <2> QED
      BY <2>1, <2>2
  <1>13. {id \in DOMAIN objs : objs[id].type \in UserTypes} =
             {id \in DOMAIN objects : objects[id].type \in UserTypes}
    BY <1>11, <1>12
  <1> QED
    BY <1>12, <1>13 DEF UserPart, Restricted

-----------------------------------------------------------------------------
(***************************************************************************)
(* Packing deals the objects out in order: the container an object goes to *)
(* and its place in it are quotient and remainder of its rank.             *)
(***************************************************************************)
PackedNumbers == {id[1] : id \in PackedIds}

LEMMA RankCountsBelow ==
    ASSUME TypeOK, NEW n \in PackedNumbers
    PROVE  Rank(n) - 1 = Cardinality({m \in PackedNumbers : m < n})
  <1> DEFINE A == {id \in PackedIds : id[1] <= n}
             B == {m \in PackedNumbers : m <= n}
             C == {m \in PackedNumbers : m < n}
             num == [id \in A |-> id[1]]
  <1>1. PackedIds \subseteq Nat \X {0} /\ IsFiniteSet(PackedIds)
    BY PackedIdsFinite
  <1>2. PackedNumbers \subseteq Nat
    BY <1>1 DEF PackedNumbers
  <1>3. IsFiniteSet(A)
    BY <1>1, FS_Subset
  <1>4. num \in Injection(A, B) /\ num \in Surjection(A, B)
    <2>1. num \in [A -> B]
      BY DEF PackedNumbers
    <2>2. \A x, y \in A : num[x] = num[y] => x = y
      BY <1>1
    <2>3. \A m \in B : \E x \in A : num[x] = m
      BY DEF PackedNumbers
    <2> QED
      BY <2>1, <2>2, <2>3 DEF Injection, IsInjective, Surjection
  <1>5. IsFiniteSet(B) /\ Cardinality(B) = Cardinality(A)
    <2> HIDE DEF num, A, B
    <2> QED
      BY <1>3, <1>4, FS_Surjection
  <1>6. B = C \cup {n} /\ n \notin C
    <2>1. n \in Nat /\ \A m \in PackedNumbers : m \in Nat
      BY <1>2
    <2>2. \A m \in Nat : (m <= n <=> m < n \/ m = n) /\ ~ (n < n)
      BY <2>1
    <2>3. \A m : m \in B <=> m \in C \/ m = n
      BY <2>1, <2>2
    <2> HIDE DEF B
    <2> QED
      BY <2>2, <2>3
  <1>7. IsFiniteSet(C)
    <2>1. C \in SUBSET B
      BY <1>6
    <2> QED
      BY <1>5, <2>1, FS_Subset
  <1>8. Cardinality(B) = Cardinality(C) + 1 /\ Cardinality(C) \in Nat
    BY <1>6, <1>7, FS_AddElement, FS_CardinalityType
  <1>9. Rank(n) = Cardinality(A)
    BY DEF Rank
  <1> HIDE DEF A, B, C
  <1>10. Rank(n) - 1 = Cardinality(C)
    <2>1. Rank(n) = Cardinality(C) + 1
      BY <1>5, <1>8, <1>9
    <2>2. \A x \in Nat : (x + 1) - 1 = x
      OBVIOUS
    <2> QED
      BY <1>8, <2>1, <2>2
  <1> QED
    BY <1>10 DEF C

LEMMA ContainerPlaces ==
    ASSUME TypeOK, NEW c \in DOMAIN Containers, NEW D, D = DOMAIN Containers[c].members
    PROVE  /\ Cardinality(D) \in 1 .. MaxObjectsPerStream
           /\ \A n \in D : IndexInStream(n) = Cardinality({m \in D : m < n})
  <1> DEFINE S == PackedNumbers
             below == [n \in S |-> Cardinality({m \in S : m < n})]
             cap == MaxObjectsPerStream
  <1>1. S \in SUBSET Nat /\ IsFiniteSet(S)
    <2>1. PackedIds \subseteq Nat \X {0} /\ IsFiniteSet(PackedIds)
      BY PackedIdsFinite
    <2> DEFINE num == [id \in PackedIds |-> id[1]]
    <2>2. IsFiniteSet({num[id] : id \in PackedIds})
      <3>1. DOMAIN num = PackedIds
        OBVIOUS
      <3> HIDE DEF num
      <3> QED
        BY <2>1, <3>1, FiniteImage
    <2>3. {num[id] : id \in PackedIds} = S
      BY DEF PackedNumbers
    <2> QED
      BY <2>1, <2>2, <2>3 DEF PackedNumbers
  <1>2. cap \in Nat \ {0} /\ maxId \in Nat
    BY CapAssumption DEF TypeOK
  <1>3. \A n \in S : Rank(n) - 1 = below[n] /\ below[n] \in Nat
    BY <1>1, RankCountsBelow, RankOrder
  <1>4. PICK x \in PackedIds : c = <<ContainerOf(x[1]), 0>>
    BY DEF Containers
  <1>5. x[1] \in S
    BY DEF PackedNumbers
  <1> DEFINE k == below[x[1]] \div cap
  <1>6. k \in Nat
    BY <1>2, <1>3, <1>5, Division
  <1>7. \A n \in S : n \in D <=> ContainerOf(n) = ContainerOf(x[1])
    <2>1. D = DOMAIN MembersOf(ContainerOf(x[1]))
      BY <1>4 DEF Containers, ObjStm
    <2> QED
      BY <2>1 DEF MembersOf, PackedNumbers
  <1>8. D \subseteq S
    <2>1. D = DOMAIN MembersOf(ContainerOf(x[1]))
      BY <1>4 DEF Containers, ObjStm
    <2> QED
      BY <2>1 DEF MembersOf, PackedNumbers
  <1>9. \A n \in S : ContainerOf(n) = maxId + 1 + (below[n] \div cap)
                     /\ below[n] \div cap \in Nat
    BY <1>2, <1>3, Division DEF ContainerOf, StreamIndex
  <1>10. \A n \in S : n \in D <=> below[n] \div cap = k
    <2> SUFFICES ASSUME NEW n \in S PROVE n \in D <=> below[n] \div cap = k
      OBVIOUS
    <2>1. /\ ContainerOf(n) = maxId + 1 + (below[n] \div cap)
          /\ ContainerOf(x[1]) = maxId + 1 + k
          /\ below[n] \div cap \in Nat
      BY <1>5, <1>9
    <2> HIDE DEF k, below
    <2> QED
      BY <1>2, <1>6, <1>7, <2>1
  <1>11. \A n \in S : n \in D <=> Cardinality({m \in S : m < n}) \div cap = k
    <2>1. \A n \in S : below[n] = Cardinality({m \in S : m < n})
      OBVIOUS
    <2> HIDE DEF k, below, S
    <2> QED
      BY <1>8, <1>10, <2>1
  <1>12. /\ IsFiniteSet(D) /\ Cardinality(D) <= cap
         /\ \A n \in D : Cardinality({m \in D : m < n}) = Cardinality({m \in S : m < n}) % cap
    <2> HIDE DEF k, S, cap
    <2>1. D \in SUBSET S
      BY <1>8
    <2> QED
      BY <1>1, <1>2, <1>6, <1>11, <2>1, GroupPlaces, ZenonT(60)
  <1>13. Cardinality(D) \in Nat /\ Cardinality(D) # 0
    <2>1. x[1] \in D
      BY <1>5, <1>7
    <2> QED
      BY <1>12, <2>1, FS_CardinalityType, FS_EmptySet
  <1>14. ASSUME NEW n \in D
         PROVE  IndexInStream(n) = Cardinality({m \in D : m < n})
    <2>1. n \in S
      BY <1>8
    <2>2. Rank(n) - 1 = Cardinality({m \in S : m < n})
      BY <2>1, RankCountsBelow
    <2>3. IndexInStream(n) = Cardinality({m \in S : m < n}) % cap
      BY <2>2 DEF IndexInStream
    <2> QED
      BY <1>12, <2>3
  <1> QED
    BY <1>2, <1>12, <1>13, <1>14

LEMMA ShapeConforms ==
    ASSUME TypeOK, IdsBelowMaxId, NEW f,
           NEW packed, packed = {} \/ packed = PackedIds, SavedShape(f, packed)
    PROVE  /\ \A c \in {id \in DOMAIN f.body : f.body[id].type = "ObjStm"} :
                 LET m == f.body[c].members IN
                 /\ Cardinality(DOMAIN m) \in 1 .. MaxObjectsPerStream
                 /\ \A n \in DOMAIN m :
                       /\ <<n, 0>> \in DOMAIN UserPart(objects)
                       /\ UserPart(objects)[<<n, 0>>] = Data(m[n])
           /\ ~(f.xtype = "table" /\ HasContainers(f)) =>
                 \A id \in DOMAIN UserPart(objects) : Locates(f, id, UserPart(objects)[id])
  <1>1. /\ DOMAIN UserPart(objects) \subseteq DOMAIN objects
        /\ \A id \in DOMAIN UserPart(objects) : UserPart(objects)[id] = objects[id]
        /\ \A id \in PackedIds : id \in DOMAIN UserPart(objects)
    BY DEF UserPart, Restricted, PackedIds, CanBeCompressed, UserTypes
  <1>2. ASSUME NEW c \in DOMAIN f.body, f.body[c].type = "ObjStm"
        PROVE  /\ Cardinality(DOMAIN f.body[c].members) \in 1 .. MaxObjectsPerStream
               /\ \A n \in DOMAIN f.body[c].members :
                     /\ <<n, 0>> \in DOMAIN UserPart(objects)
                     /\ UserPart(objects)[<<n, 0>>] = Data(f.body[c].members[n])
    <2>1. c \in DOMAIN Containers /\ f.body[c] = Containers[c]
      BY <1>2 DEF SavedShape
    <2>2. Cardinality(DOMAIN Containers[c].members) \in 1 .. MaxObjectsPerStream
      BY <2>1, ContainerPlaces
    <2>3. \A n \in DOMAIN Containers[c].members :
              <<n, 0>> \in PackedIds /\ Data(Containers[c].members[n]) = objects[<<n, 0>>]
      BY <2>1, MembersArePacked
    <2> QED
      BY <1>1, <2>1, <2>2, <2>3
  <1>3. ASSUME ~(f.xtype = "table" /\ HasContainers(f)),
               NEW id \in DOMAIN UserPart(objects)
        PROVE  Locates(f, id, objects[id])
    <2>1. CASE id \notin packed
      <3>1. id \in DOMAIN f.body /\ id[1] \in DOMAIN f.xref /\ f.xref[id[1]] = Normal(id)
        BY <2>1 DEF SavedShape
      <3>2. id[1] \in Nat /\ id[1] <= maxId /\ maxId \in Nat
        BY <1>1 DEF IdsBelowMaxId, TypeOK, IsObjectMap, Ids
      <3>3. f.body[id] = objects[id]
        BY <3>1, <3>2 DEF SavedShape
      <3>4. Normal(id).kind = "normal" /\ Normal(id).at = id
        BY DEF Normal
      <3> QED
        BY <3>1, <3>3, <3>4 DEF Locates
    <2>2. CASE id \in packed
      <3> DEFINE c == <<ContainerOf(id[1]), 0>>
                 e == Packed(ContainerOf(id[1]), IndexInStream(id[1]))
      <3>1. packed = PackedIds /\ id \in PackedIds /\ id = <<id[1], 0>>
        BY <2>2, PackedIdsFinite
      <3>2. c \in DOMAIN Containers /\ id[1] \in DOMAIN Containers[c].members
        BY <3>1, PackedAreMembers
      <3>3. /\ c \in DOMAIN f.body /\ f.body[c] = Containers[c]
            /\ c[1] \in DOMAIN f.xref /\ f.xref[c[1]] = Normal(c)
        BY <2>2, <3>2 DEF SavedShape
      <3>4. Containers[c].type = "ObjStm"
        BY <3>2 DEF Containers, ObjStm
      <3>5. f.xtype = "stream"
        <4>1. HasContainers(f)
          BY <3>3, <3>4 DEF HasContainers
        <4> QED
          BY <1>3, <4>1 DEF SavedShape, IsFile, XrefTypes
      <3>6. id[1] \in DOMAIN f.xref /\ f.xref[id[1]] = e
        BY <2>2, <3>5 DEF SavedShape
      <3>7. objects[id] = Data(Containers[c].members[id[1]])
        BY <3>1, <3>2, MembersArePacked
      <3>8. IndexInStream(id[1])
                = Cardinality({m \in DOMAIN f.body[c].members : m < id[1]})
        BY <3>2, <3>3, ContainerPlaces
      <3>9. /\ e.kind = "packed" /\ e.container = ContainerOf(id[1])
            /\ e.index = IndexInStream(id[1])
        BY DEF Packed
      <3>10. id[2] = 0 /\ c[1] = ContainerOf(id[1])
        BY <3>1
      <3>11. /\ e.container \in DOMAIN f.xref
             /\ f.xref[e.container] = Normal(<<e.container, 0>>)
             /\ f.body[<<e.container, 0>>].type = "ObjStm"
             /\ id[1] \in DOMAIN f.body[<<e.container, 0>>].members
             /\ objects[id] = Data(f.body[<<e.container, 0>>].members[id[1]])
             /\ e.index = Cardinality({m \in DOMAIN f.body[<<e.container, 0>>].members : m < id[1]})
        <4>1. c = <<e.container, 0>> /\ c[1] = e.container
          BY <3>9
        <4> HIDE DEF c, e
        <4> QED
          BY <3>2, <3>3, <3>4, <3>7, <3>8, <3>9, <4>1 DEF e
      <3> HIDE DEF e, c
      <3> QED
        BY <3>6, <3>9, <3>10, <3>11 DEF Locates
    <2> QED
      BY <2>1, <2>2
  <1> QED
    BY <1>1, <1>2, <1>3

-----------------------------------------------------------------------------
(***************************************************************************)
(* One generation per number is kept, if the files of other producers      *)
(* start with it.                                                          *)
(***************************************************************************)
NumbersUnique ==
    /\ OneGeneration(held \cup DOMAIN objects)
    /\ OneGeneration(FileIds(file))

StoreInv == TypeOK /\ IdsBelowMaxId /\ NumbersUnique

LEMMA LoadedIds ==
    ASSUME NEW f, IsFile(f), NEW objs \in LoadResults(f)
    PROVE  DOMAIN objs \subseteq FileIds(f)
  <1>1. PICK src \in [MemberNums(f) -> NormalIds(f)] :
            objs = Put([id \in MemberNums(f) \X {0} |->
                           Data(f.body[src[id[1]]].members[id[1]])],
                       ListedObjects(f))
    BY DEF LoadResults
  <1>2. DOMAIN objs = (MemberNums(f) \X {0}) \cup DOMAIN ListedObjects(f)
    BY <1>1 DEF Put
  <1>3. DOMAIN ListedObjects(f) \subseteq DOMAIN f.body
    BY DEF ListedObjects, Restricted
  <1>4. MemberNums(f) \subseteq
            UNION {DOMAIN f.body[c].members : c \in DOMAIN f.body}
    BY FileIsLoadable, ListedIsObjectMap DEF MemberNums
  <1> QED
    BY <1>2, <1>3, <1>4 DEF FileIds

LEMMA ShapeIds ==
    ASSUME TypeOK, NEW f, NEW packed, SavedShape(f, packed),
           NEW id \in FileIds(f)
    PROVE  id \in DOMAIN objects \/ (id[2] = 0 /\ maxId < id[1])
  <1>1. CASE id \in DOMAIN f.body
    BY <1>1 DEF SavedShape
  <1>2. CASE id \notin DOMAIN f.body
    <2>0. PICK c \in DOMAIN f.body :
              \E n \in DOMAIN f.body[c].members : id = <<n, 0>>
      BY <1>2 DEF FileIds
    <2>1. PICK n \in DOMAIN f.body[c].members : id = <<n, 0>>
      BY <2>0
    <2>2. IsObject(f.body[c])
      BY DEF SavedShape, IsFile, IsObjectMap
    <2>3. f.body[c].type = "ObjStm"
      BY <2>1, <2>2 DEF IsObject, Empty
    <2>4. c \in DOMAIN Containers /\ f.body[c] = Containers[c]
      BY <2>3 DEF SavedShape
    <2> QED
      BY <2>1, <2>4, MembersArePacked DEF PackedIds
  <1> QED
    BY <1>1, <1>2

LEMMA SaveHasShape ==
    ASSUME StoreInv, NEW uo \in BOOLEAN, NEW ux \in BOOLEAN,
           SaveWithOptions(uo, ux)
    PROVE  SavedShape(file', {}) \/ SavedShape(file', PackedIds)
  <1>1. OneGeneration(DOMAIN objects)
    BY DEF StoreInv, NumbersUnique, OneGeneration
  <1> QED
    BY <1>1, SaveOptionsCases, InternalShape, ObjectStreamsShape DEF StoreInv

LEMMA InitNumbersUnique ==
    ASSUME \A f \in InitialFiles : OneGeneration(FileIds(f)), Init
    PROVE  NumbersUnique
  BY DEF Init, NumbersUnique, OneGeneration, Empty

LEMMA NextNumbersUnique == StoreInv /\ [Next]_vars => NumbersUnique'
  <1> SUFFICES ASSUME TypeOK, IdsBelowMaxId, NumbersUnique, [Next]_vars
               PROVE  NumbersUnique'
    BY DEF StoreInv
  <1> USE DEF NumbersUnique
  <1>0. /\ maxId \in Nat
        /\ \A id \in held \cup DOMAIN objects :
              id[1] \in Nat /\ id[1] <= maxId
    BY DEF TypeOK, IsObjectMap, Ids, IdsBelowMaxId
  <1>1. ASSUME NEW S, S \subseteq held \cup DOMAIN objects
        PROVE  /\ OneGeneration(S)
               /\ OneGeneration(S \cup {<<maxId + 1, 0>>})
    <2>1. \A id \in S : id[1] # maxId + 1
      BY <1>0, <1>1
    <2> QED
      BY <1>1, <2>1 DEF OneGeneration
  <1>2. CASE NewObjectId
    <2>1. held' \cup DOMAIN objects' =
              (held \cup DOMAIN objects) \cup {<<maxId + 1, 0>>}
          /\ file' = file
      BY <1>2 DEF NewObjectId
    <2> QED
      BY <1>1, <2>1
  <1>3. ASSUME NEW o \in NewObjects, AddObject(o) PROVE NumbersUnique'
    <2>1. held' \cup DOMAIN objects' =
              (held \cup DOMAIN objects) \cup {<<maxId + 1, 0>>}
          /\ file' = file
      BY <1>3 DEF AddObject, Put
    <2> QED
      BY <1>1, <2>1
  <1>4. ASSUME NEW id \in held \cup DOMAIN objects, NEW o \in NewValues,
               SetObject(id, o)
        PROVE  NumbersUnique'
    <2>1. held' \cup DOMAIN objects' = held \cup DOMAIN objects /\ file' = file
      BY <1>4 DEF SetObject, Put
    <2> QED
      BY <2>1
  <1>5. ASSUME NEW id \in DOMAIN objects, RemoveObject(id)
        PROVE  NumbersUnique'
    <2>1. held' \cup DOMAIN objects' = held \cup DOMAIN objects /\ file' = file
      BY <1>5 DEF RemoveObject, Restricted
    <2> QED
      BY <2>1
  <1>6. ASSUME NEW uo \in BOOLEAN, NEW ux \in BOOLEAN,
               SaveWithOptions(uo, ux)
        PROVE  NumbersUnique'
    <2>1. held' = held /\ objects' = objects
      BY <1>6 DEF SaveWithOptions
    <2>2. PICK packed : SavedShape(file', packed)
      BY <1>6, SaveHasShape DEF StoreInv
    <2>3. \A id \in FileIds(file') :
              id \in DOMAIN objects \/ (id[2] = 0 /\ maxId < id[1])
      BY <2>2, ShapeIds
    <2>4. IsFile(file')
      BY <2>2 DEF SavedShape
    <2>5. \A id \in FileIds(file') : id = <<id[1], id[2]>> /\ id[1] \in Nat
      <3>1. \A c \in DOMAIN file'.body :
                c \in Ids /\ DOMAIN file'.body[c].members \subseteq Nat
        BY <2>4 DEF IsFile, IsObjectMap, IsObject
      <3> QED BY <3>1 DEF FileIds, Ids
    <2>6. OneGeneration(FileIds(file'))
      <3> SUFFICES ASSUME NEW a \in FileIds(file'), NEW b \in FileIds(file'),
                          a[1] = b[1]
                   PROVE  a = b
        BY DEF OneGeneration
      <3>1. CASE a \in DOMAIN objects /\ b \in DOMAIN objects
        BY <3>1 DEF OneGeneration
      <3>2. CASE a \notin DOMAIN objects \/ b \notin DOMAIN objects
        <4>1. maxId < a[1] /\ maxId < b[1]
          BY <3>2, <2>3
        <4>2. a \notin DOMAIN objects /\ b \notin DOMAIN objects
          BY <4>1, <1>0, <2>5
        <4> QED BY <4>2, <2>3, <2>5
      <3> QED BY <3>1, <3>2
    <2> QED
      BY <2>1, <2>6
  <1>7. CASE Load
    <2>1. held' \cup DOMAIN objects' \subseteq FileIds(file) /\ file' = file
      BY <1>7, LoadedIds DEF Load, TypeOK
    <2> QED
      BY <2>1 DEF OneGeneration
  <1>8. CASE UNCHANGED vars
    BY <1>8 DEF vars
  <1> QED
    BY <1>2, <1>3, <1>4, <1>5, <1>6, <1>7, <1>8 DEF Next

LEMMA NextReloadRestores ==
    StoreInv /\ ReloadRestores /\ [Next]_vars => ReloadRestores'
  <1> SUFFICES ASSUME StoreInv, ReloadRestores, [Next]_vars
               PROVE  ReloadRestores'
    OBVIOUS
  <1>1. ASSUME NEW uo \in BOOLEAN, NEW ux \in BOOLEAN,
               SaveWithOptions(uo, ux)
        PROVE  ReloadRestores'
    <2>1. PICK packed : (packed = {} \/ packed = PackedIds)
                        /\ SavedShape(file', packed)
      BY <1>1, SaveHasShape
    <2>2. \A objs \in LoadResults(file') : UserPart(objs) = UserPart(objects)
      BY <2>1, ShapeReloads DEF StoreInv
    <2>3. saved'.objects = UserPart(objects)
      BY <1>1 DEF SaveWithOptions, Snapshot
    <2> QED
      BY <2>2, <2>3 DEF ReloadRestores
  <1>2. CASE UNCHANGED <<file, saved>>
    BY <1>2 DEF ReloadRestores
  <1> QED
    BY <1>1, <1>2
       DEF Next, NewObjectId, AddObject, SetObject, RemoveObject, Load, vars

LEMMA NextSavedFilesConform ==
    StoreInv /\ SavedFilesConform /\ [Next]_vars => SavedFilesConform'
  <1> SUFFICES ASSUME StoreInv, SavedFilesConform, [Next]_vars
               PROVE  SavedFilesConform'
    OBVIOUS
  <1>1. ASSUME NEW uo \in BOOLEAN, NEW ux \in BOOLEAN,
               SaveWithOptions(uo, ux)
        PROVE  SavedFilesConform'
    <2>1. PICK packed : (packed = {} \/ packed = PackedIds)
                        /\ SavedShape(file', packed)
      BY <1>1, SaveHasShape
    <2>2. saved'.objects = UserPart(objects)
      BY <1>1 DEF SaveWithOptions, Snapshot
    <2> QED
      BY <2>1, <2>2, ShapeConforms DEF SavedFilesConform, HasContainers, StoreInv
  <1>2. CASE UNCHANGED <<file, saved>>
    BY <1>2 DEF SavedFilesConform, HasContainers
  <1> QED
    BY <1>1, <1>2
       DEF Next, NewObjectId, AddObject, SetObject, RemoveObject, Load, vars

\* Reading a saved file back gives exactly the caller's objects.
THEOREM SavedFilesReload ==
    ASSUME \A f \in InitialFiles : OneGeneration(FileIds(f))
    PROVE  Spec => []ReloadRestores
  <1>1. Init => StoreInv /\ ReloadRestores
    <2>1. Init => IdsBelowMaxId /\ ReloadRestores
      BY DEF Init, IdsBelowMaxId, ReloadRestores, Empty, Foreign
    <2> QED
      BY <2>1, InitTypeOK, InitNumbersUnique DEF StoreInv
  <1>2. StoreInv /\ [Next]_vars => StoreInv'
    BY NextTypeOK, NextIdsBelowMaxId, NextNumbersUnique DEF StoreInv
  <1> QED
    BY <1>1, <1>2, NextReloadRestores, PTL DEF Spec

\* Containers hold current values of current objects, as many as configured, and a
\* conforming reader finds every object through the cross-reference alone (save_modern:
\* the containers are filled in order, the index of a packed entry is the place of the
\* object in its container).
THEOREM SavedFilesAreConforming ==
    ASSUME \A f \in InitialFiles : OneGeneration(FileIds(f))
    PROVE  Spec => []SavedFilesConform
  <1>1. Init => StoreInv /\ SavedFilesConform
    <2>1. Init => IdsBelowMaxId /\ SavedFilesConform
      BY DEF Init, IdsBelowMaxId, SavedFilesConform, Empty, Foreign
    <2> QED
      BY <2>1, InitTypeOK, InitNumbersUnique DEF StoreInv
  <1>2. StoreInv /\ [Next]_vars => StoreInv'
    BY NextTypeOK, NextIdsBelowMaxId, NextNumbersUnique DEF StoreInv
  <1> QED
    BY <1>1, <1>2, NextSavedFilesConform, PTL DEF Spec

\* In a document that stays in memory an identifier the caller holds without an
\* object is given to nothing that is written, nor handed out again.
THEOREM HeldNumbersNotReused ==
    ASSUME \A f \in InitialFiles : OneGeneration(FileIds(f))
    PROVE  Spec => DanglingStaysDangling
  <1> DEFINE SavesKeep ==
               Saves => \A id \in held \ DOMAIN objects : id[1] \notin DOMAIN file'.xref
             NewIsNew ==
               \A new \in held' \ held :
                  \/ new \in DOMAIN objects
                  \/ \A id \in held \cup DOMAIN objects : id[1] # new[1]
  <1>1. Init => StoreInv
    <2>1. Init => IdsBelowMaxId
      BY DEF Init, IdsBelowMaxId, Empty
    <2> QED
      BY <2>1, InitTypeOK, InitNumbersUnique DEF StoreInv
  <1>2. StoreInv /\ [Next]_vars => StoreInv'
    BY NextTypeOK, NextIdsBelowMaxId, NextNumbersUnique DEF StoreInv
  <1>3. StoreInv /\ Next => SavesKeep
    <2> SUFFICES ASSUME StoreInv, Next, Saves,
                        NEW id \in held \ DOMAIN objects,
                        id[1] \in DOMAIN file'.xref
                 PROVE  FALSE
      OBVIOUS
    <2>1. PICK uo \in BOOLEAN, ux \in BOOLEAN : SaveWithOptions(uo, ux)
      <3>1. edits \in Nat
        BY DEF StoreInv, TypeOK
      <3>2. edits' = edits /\ held' = held
        BY DEF Saves
      <3>3. ~Edit
        BY <3>1, <3>2 DEF Edit
      <3>4. ~Load
        BY <3>2 DEF Load
      <3>5. \E uo, ux \in BOOLEAN : SaveWithOptions(uo, ux)
        BY <3>3, <3>4, Zenon
           DEF Next, NewObjectId, AddObject, SetObject, RemoveObject
      <3> QED
        BY <3>5, Zenon
    <2>2. PICK xt \in XrefTypes, ver \in Versions :
              SaveInternal(xt, ver) \/ SaveWithObjectStreams(xt, ver)
      BY <2>1, SaveOptionsCases DEF StoreInv
    <2>3. \/ \E x \in DOMAIN objects : x[1] = id[1]
          \/ maxId < id[1]
      BY <2>2, SavedNumbers DEF StoreInv
    <2>4. id[1] <= maxId /\ maxId \in Nat /\ id[1] \in Nat
      BY DEF StoreInv, IdsBelowMaxId, TypeOK, Ids
    <2>5. PICK x \in DOMAIN objects : x[1] = id[1]
      BY <2>3, <2>4
    <2> QED
      BY <2>5 DEF StoreInv, NumbersUnique, OneGeneration
  <1>4. StoreInv /\ Next => NewIsNew
    <2> SUFFICES ASSUME StoreInv, Next,
                        NEW new \in held' \ held, new \notin DOMAIN objects,
                        NEW id \in held \cup DOMAIN objects
                 PROVE  id[1] # new[1]
      OBVIOUS
    <2>1. new = <<maxId + 1, 0>>
      BY DEF Next, NewObjectId, AddObject, SetObject, RemoveObject, Edit, Load,
             SaveWithOptions
    <2>2. id[1] <= maxId /\ maxId \in Nat
      BY DEF StoreInv, IdsBelowMaxId, TypeOK
    <2>3. id[1] \in Nat
      BY DEF StoreInv, TypeOK, IsObjectMap, Ids
    <2> QED
      BY <2>1, <2>2, <2>3
  <1>5. StoreInv /\ [Next]_vars => [SavesKeep /\ NewIsNew]_vars
    BY <1>3, <1>4
  <1> QED
    BY <1>1, <1>2, <1>5, PTL DEF Spec, DanglingStaysDangling
=============================================================================
