------------------------ MODULE IncrementalUpdateProofs ------------------------
(***************************************************************************)
(* What holds of IncrementalUpdate for every value of its constants, for   *)
(* files that are sound to begin with.                                     *)
(***************************************************************************)
EXTENDS IncrementalUpdate, PdfFileFacts, SequenceTheorems

(***************************************************************************)
(* A sound file: in what is read of it an entry of a section leads to an   *)
(* object of its own number, a section lists the objects of its revision,  *)
(* no number is in use with two generations, and what is encrypted is      *)
(* encrypted once, with its own key.                                       *)
(***************************************************************************)
OwnNumbers(xref) == \A n \in DOMAIN xref : xref[n].kind = "normal" => xref[n].at[1] = n

Listed(body, xref) == \A id \in DOMAIN body : id[1] \in DOMAIN xref

BodyIds(body) ==
    DOMAIN body \cup {<<n, 0>> : n \in UNION {DOMAIN body[id].members : id \in DOMAIN body}}

OneGeneration(S) == \A a, b \in S : a[1] = b[1] => a = b

Seen(d) == IF d[Len(d)].exact THEN Reached(d) ELSE DOMAIN d

SeenIds(d) == UNION {BodyIds(d[i].body) : i \in Seen(d)}

IsSound(d) ==
    /\ \A i \in Seen(d) : OwnNumbers(d[i].xref) /\ Listed(d[i].body, d[i].xref)
    /\ OneGeneration(SeenIds(d))

IsKeyed(r, encrypt) ==
    \A id \in DOMAIN r.body \ encrypt :
        r.body[id].type = "XRef" \/ r.seals[id] = IF encrypt = {} THEN << >> ELSE <<id>>

IsGiven(d) ==
    /\ IsFile(d) /\ Len(d) > 0
    /\ IsSound(d)
    /\ Readable(d) => \A i \in Seen(d) : IsKeyed(d[i], View(d).encrypt)

(***************************************************************************)
(* The inductive invariant: the objects of the update are plaintext, and   *)
(* each is either the update of an object that was read or has a number    *)
(* that nothing read has.                                                  *)
(***************************************************************************)
Replaces(id) ==
    /\ id \in DOMAIN prevObjs
    /\ newObjs[id].type \in UserTypes => prevObjs[id].type \in UserTypes

IsUnused(n) ==
    /\ n \notin DOMAIN View(base).xref
    /\ \A id \in DOMAIN prevObjs : id[1] # n

Adds(id) ==
    /\ id[2] = 0
    /\ IsUnused(id[1])

PrevInv ==
    /\ security \in {"none", "unlocked", "locked"}
    /\ security = "none" <=> View(base).encrypt = {}
    /\ security = "none" => prevObjs \in Results(View(base))
    /\ security = "unlocked" =>
          /\ DictFound(View(base)) /\ encryptId = View(base).encrypt /\ encryptId # {}
          /\ prevObjs \in Results(View(base)) \cup {Empty}
    /\ security = "locked" <=> trailer.encrypt # {}
    /\ trailer.prev \subseteq DOMAIN base
    /\ base[Len(base)].exact => trailer.prev = {Len(base)}
    /\ IsObjectMap(prevObjs)

NumbersInv ==
    /\ maxId \in Nat
    /\ \A n \in DOMAIN View(base).xref : n <= maxId
    /\ \A id \in DOMAIN prevObjs \cup DOMAIN newObjs : id[1] <= maxId
    /\ \A id \in DOMAIN newObjs : Replaces(id) \/ Adds(id)

UpdateInv ==
    /\ IsObjectMap(newObjs)
    /\ layers = [id \in DOMAIN newObjs |-> << >>]
    /\ xrefType \in XrefTypes
    /\ maxId \in Nat
    /\ trailer = [prev |-> trailer.prev, encrypt |-> trailer.encrypt]
    /\ security = "unlocked" => trailer.encrypt = {}

IncrementalInv ==
    /\ UpdateInv
    /\ disk # << >> => IsGiven(disk)
    /\ base # << >> => IsGiven(base) /\ Readable(base) /\ PrevInv /\ NumbersInv

-----------------------------------------------------------------------------
(***************************************************************************)
(* Files as sequences of revisions.                                        *)
(***************************************************************************)
LEMMA FileShape ==
    ASSUME NEW d, IsFile(d), Len(d) > 0
    PROVE  /\ Len(d) \in Nat \ {0}
           /\ DOMAIN d = 1 .. Len(d)
           /\ Len(d) \in DOMAIN d
           /\ IsFiniteSet(DOMAIN d)
           /\ d \in Seq({d[i] : i \in DOMAIN d})
           /\ \A i \in DOMAIN d : IsRevision(d[i]) /\ d[i].prev \subseteq DOMAIN d
  <1>1. d \in Seq({d[i] : i \in DOMAIN d})
    BY DEF IsFile
  <1>2. Len(d) \in Nat /\ DOMAIN d = 1 .. Len(d)
    <2> DEFINE T == {d[i] : i \in DOMAIN d}
    <2> HIDE DEF T
    <2>1. d \in Seq(T)
      BY <1>1 DEF T
    <2> QED
      BY <2>1
  <1>3. IsFiniteSet(1 .. Len(d))
    BY <1>2, FS_Interval
  <1> QED
    BY <1>1, <1>2, <1>3 DEF IsFile

LEMMA AppendShape ==
    ASSUME NEW d, IsFile(d), Len(d) > 0, NEW r
    PROVE  /\ Len(Append(d, r)) = Len(d) + 1
           /\ DOMAIN Append(d, r) = DOMAIN d \cup {Len(d) + 1}
           /\ Len(d) + 1 \notin DOMAIN d
           /\ \A i \in DOMAIN d : Append(d, r)[i] = d[i]
           /\ Append(d, r)[Len(d) + 1] = r
           /\ \A T : (\A i \in DOMAIN Append(d, r) : Append(d, r)[i] \in T)
                      => Append(d, r) \in Seq(T)
  <1> DEFINE T == {d[i] : i \in DOMAIN d} \cup {r}
             e == Append(d, r)
  <1>1. Len(d) \in Nat /\ DOMAIN d = 1 .. Len(d) /\ d \in Seq({d[i] : i \in DOMAIN d})
    BY FileShape
  <1>2. d \in Seq(T) /\ r \in T
    BY <1>1
  <1> HIDE DEF T
  <1>3. /\ e \in Seq(T) /\ Len(e) = Len(d) + 1
        /\ \A i \in 1 .. Len(d) : e[i] = d[i]
        /\ e[Len(d) + 1] = r
    BY <1>2, AppendProperties
  <1>4. DOMAIN e = 1 .. Len(d) + 1
    BY <1>3
  <1>5. 1 .. Len(d) + 1 = (1 .. Len(d)) \cup {Len(d) + 1} /\ Len(d) + 1 \notin 1 .. Len(d)
    BY <1>1
  <1>6. ASSUME NEW V, \A i \in DOMAIN e : e[i] \in V
        PROVE  e \in Seq(V)
    BY <1>3, <1>4, <1>6
  <1> QED
    BY <1>1, <1>3, <1>4, <1>5, <1>6

LEMMA ReachedShape ==
    ASSUME NEW d, IsFile(d), Len(d) > 0
    PROVE  /\ Reached(d) \subseteq DOMAIN d /\ Len(d) \in Reached(d)
           /\ Seen(d) \subseteq DOMAIN d /\ Len(d) \in Seen(d)
           /\ IsFiniteSet(Seen(d))
  <1>1. Reached(d) \subseteq DOMAIN d /\ Len(d) \in Reached(d)
    BY FileShape DEF Reached
  <1>2. Seen(d) \subseteq DOMAIN d /\ Len(d) \in Seen(d)
    BY <1>1, FileShape DEF Seen
  <1> QED
    BY <1>1, <1>2, FileShape, FS_Subset

\* A revision whose /Prev leads to the last one before reaches what that one reaches.
LEMMA ReachedOfAppend ==
    ASSUME NEW d, IsFile(d), Len(d) > 0, NEW r, r.prev = {Len(d)}
    PROVE  Reached(Append(d, r)) = Reached(d) \cup {Len(d) + 1}
  <1> DEFINE e == Append(d, r)
             last == Len(d) + 1
             Closed(x, S) == Len(x) \in S /\ \A k \in S : x[k].prev \subseteq S
  <1>1. /\ Len(e) = last /\ DOMAIN e = DOMAIN d \cup {last} /\ last \notin DOMAIN d
        /\ \A i \in DOMAIN d : e[i] = d[i]
        /\ e[last] = r
    BY AppendShape
  <1>2. Len(d) \in DOMAIN d /\ \A i \in DOMAIN d : d[i].prev \subseteq DOMAIN d
    BY FileShape
  <1> HIDE DEF e, last
  <1>3. ASSUME NEW S \in SUBSET DOMAIN d, Closed(d, S)
        PROVE  S \cup {last} \in SUBSET DOMAIN e /\ Closed(e, S \cup {last})
    BY <1>1, <1>3
  <1>4. ASSUME NEW S \in SUBSET DOMAIN e, Closed(e, S)
        PROVE  S \cap DOMAIN d \in SUBSET DOMAIN d /\ Closed(d, S \cap DOMAIN d)
    <2>1. Len(d) \in S
      BY <1>1, <1>4
    <2>2. \A k \in S \cap DOMAIN d : d[k].prev \subseteq S /\ d[k].prev \subseteq DOMAIN d
      BY <1>1, <1>2, <1>4
    <2> QED
      BY <1>2, <2>1, <2>2
  <1>5. \A x : Reached(x) = {i \in DOMAIN x : \A S \in SUBSET DOMAIN x : Closed(x, S) => i \in S}
    BY DEF Reached
  <1> HIDE DEF Closed
  <1>6. ASSUME NEW i \in Reached(e), i # last
        PROVE  i \in Reached(d)
    <2>1. i \in DOMAIN d
      BY <1>1, <1>5, <1>6
    <2>2. ASSUME NEW S \in SUBSET DOMAIN d, Closed(d, S)
          PROVE  i \in S
      BY <1>3, <1>5, <1>6, <2>2
    <2> QED
      BY <1>5, <2>1, <2>2
  <1>7. ASSUME NEW i \in Reached(d)
        PROVE  i \in Reached(e)
    <2>1. i \in DOMAIN e
      BY <1>1, <1>5
    <2>2. ASSUME NEW S \in SUBSET DOMAIN e, Closed(e, S)
          PROVE  i \in S
      BY <1>4, <1>5, <2>2
    <2> QED
      BY <1>5, <2>1, <2>2
  <1>8. last \in Reached(e)
    BY <1>1, <1>5 DEF Closed
  <1> QED
    BY <1>6, <1>7, <1>8 DEF e, last

\* Of several copies the one that counts is the newest that there is.
LEMMA NewestIsOne ==
    ASSUME NEW d, IsFile(d), Len(d) > 0, NEW R \in SUBSET DOMAIN d,
           NEW P \in SUBSET R, P # {}
    PROVE  /\ Highest(P) \in P
           /\ \A i \in P : i <= Highest(P)
  <1>1. DOMAIN d = 1 .. Len(d) /\ IsFiniteSet(DOMAIN d)
    BY FileShape
  <1>2. IsFiniteSet(P) /\ P \in SUBSET Nat
    <2>1. IsFiniteSet(P)
      BY <1>1, FS_Subset
    <2>2. \A i \in P : i \in 1 .. Len(d)
      BY <1>1
    <2> QED
      BY <2>1, <2>2
  <1> QED
    BY <1>2, HighestIsMember

\* So the last revision counts wherever it has a copy.
LEMMA NewestAfterAppend ==
    ASSUME NEW d, IsFile(d), Len(d) > 0, NEW R \in SUBSET DOMAIN d,
           NEW P \in SUBSET R
    PROVE  Highest(P \cup {Len(d) + 1}) = Len(d) + 1
  <1> DEFINE last == Len(d) + 1
  <1>1. last \in Nat /\ \A i \in P : i \in Nat /\ i < last
    BY FileShape
  <1>2. \A n \in P \cup {last} : n <= last
    BY <1>1
  <1>3. \A m \in P \cup {last} : (\A n \in P \cup {last} : n <= m) => m = last
    BY <1>1
  <1> HIDE DEF last
  <1>4. Highest(P \cup {last}) = last
    BY <1>2, <1>3 DEF Highest
  <1> QED
    BY <1>4 DEF last
-----------------------------------------------------------------------------
(***************************************************************************)
(* Views.                                                                  *)
(***************************************************************************)
BodyOwners(d, R, id) == {i \in R : id \in DOMAIN d[i].body}

XrefOwners(d, R, n) == {i \in R : n \in DOMAIN d[i].xref}

LEMMA BodyOfShape ==
    ASSUME NEW d, NEW R
    PROVE  /\ DOMAIN BodyOf(d, R) = UNION {DOMAIN d[i].body : i \in R}
           /\ DOMAIN SealsOf(d, R) = UNION {DOMAIN d[i].body : i \in R}
           /\ \A id \in DOMAIN BodyOf(d, R) :
                 /\ BodyOf(d, R)[id] = d[Highest(BodyOwners(d, R, id))].body[id]
                 /\ SealsOf(d, R)[id] = d[Highest(BodyOwners(d, R, id))].seals[id]
           /\ BodyOf(d, R) = [id \in DOMAIN BodyOf(d, R) |-> BodyOf(d, R)[id]]
           /\ SealsOf(d, R) = [id \in DOMAIN SealsOf(d, R) |-> SealsOf(d, R)[id]]
  BY DEF BodyOf, SealsOf, NewestWith, BodyOwners

LEMMA BodyOfIsObjectMap ==
    ASSUME NEW d, IsFile(d), Len(d) > 0, NEW R \in SUBSET DOMAIN d
    PROVE  /\ IsObjectMap(BodyOf(d, R))
           /\ \A id \in DOMAIN BodyOf(d, R) : \E i \in R :
                 /\ id \in DOMAIN d[i].body
                 /\ BodyOf(d, R)[id] = d[i].body[id]
                 /\ SealsOf(d, R)[id] = d[i].seals[id]
  <1> DEFINE b == BodyOf(d, R)
             D == [i \in R |-> DOMAIN d[i].body]
             U == {D[i] : i \in R}
  <1>0. /\ DOMAIN b = UNION {DOMAIN d[i].body : i \in R}
        /\ \A id \in DOMAIN b :
              /\ b[id] = d[Highest(BodyOwners(d, R, id))].body[id]
              /\ SealsOf(d, R)[id] = d[Highest(BodyOwners(d, R, id))].seals[id]
        /\ b = [id \in DOMAIN b |-> b[id]]
    <2>1. DOMAIN b = UNION {DOMAIN d[i].body : i \in R}
      BY BodyOfShape, Zenon
    <2>2. \A id \in DOMAIN b :
              /\ b[id] = d[Highest(BodyOwners(d, R, id))].body[id]
              /\ SealsOf(d, R)[id] = d[Highest(BodyOwners(d, R, id))].seals[id]
      BY DEF BodyOf, SealsOf, NewestWith, BodyOwners
    <2>3. b = [id \in DOMAIN b |-> b[id]]
      BY DEF BodyOf
    <2> QED
      BY <2>1, <2>2, <2>3
  <1> HIDE DEF b
  <1>1. \A i \in R : IsObjectMap(d[i].body)
    BY FileShape DEF IsRevision
  <1>2. ASSUME NEW id \in DOMAIN b
        PROVE  \E i \in R : /\ id \in DOMAIN d[i].body
                            /\ b[id] = d[i].body[id]
                            /\ SealsOf(d, R)[id] = d[i].seals[id]
    <2>1. BodyOwners(d, R, id) \in SUBSET R /\ BodyOwners(d, R, id) # {}
      BY <1>0, <1>2 DEF BodyOwners
    <2>2. Highest(BodyOwners(d, R, id)) \in BodyOwners(d, R, id)
      BY <2>1, NewestIsOne
    <2> QED
      BY <1>0, <1>2, <2>2 DEF BodyOwners
  <1>3. IsFiniteSet(R)
    BY FileShape, FS_Subset
  <1>4. IsFiniteSet(U)
    <2>1. DOMAIN D = R
      OBVIOUS
    <2> HIDE DEF D
    <2> QED
      BY <1>3, <2>1, FiniteImage
  <1>5. \A T \in U : IsFiniteSet(T) /\ T \subseteq Ids
    BY <1>1 DEF IsObjectMap
  <1>6. DOMAIN b = UNION U
    <2>1. U = {DOMAIN d[i].body : i \in R}
      OBVIOUS
    <2> HIDE DEF U
    <2> QED
      BY <1>0, <2>1
  <1> HIDE DEF U
  <1>7. IsFiniteSet(DOMAIN b) /\ DOMAIN b \subseteq Ids
    BY <1>4, <1>5, <1>6, FS_UNION
  <1>8. \A id \in DOMAIN b : IsObject(b[id])
    BY <1>1, <1>2 DEF IsObjectMap
  <1>9. IsObjectMap(b)
    BY <1>0, <1>7, <1>8 DEF IsObjectMap
  <1> QED
    BY <1>2, <1>9 DEF b
LEMMA ChainedXref ==
    ASSUME NEW d, IsFile(d), Len(d) > 0
    PROVE  LET R == Reached(d)
               x == Chained(d).xref
           IN  /\ DOMAIN x = UNION {DOMAIN d[i].xref : i \in R}
               /\ x = [n \in DOMAIN x |-> x[n]]
               /\ \A n \in DOMAIN x :
                     /\ x[n] = d[Highest(XrefOwners(d, R, n))].xref[n]
                     /\ Highest(XrefOwners(d, R, n)) \in XrefOwners(d, R, n)
               /\ IsFiniteSet(DOMAIN x) /\ DOMAIN x \subseteq Nat
  <1> DEFINE R == Reached(d)
             x == Chained(d).xref
             D == [i \in R |-> DOMAIN d[i].xref]
             U == {D[i] : i \in R}
  <1>1. /\ DOMAIN x = UNION {DOMAIN d[i].xref : i \in R}
        /\ x = [n \in DOMAIN x |-> x[n]]
    BY DEF Chained
  <1>2. \A n \in DOMAIN x : x[n] = d[Highest(XrefOwners(d, R, n))].xref[n]
    BY DEF Chained, NewestWith, XrefOwners
  <1>3. R \in SUBSET DOMAIN d /\ IsFiniteSet(R)
    BY ReachedShape, FileShape, FS_Subset
  <1> HIDE DEF R, x
  <1>4. ASSUME NEW n \in DOMAIN x
        PROVE  Highest(XrefOwners(d, R, n)) \in XrefOwners(d, R, n)
    <2>1. XrefOwners(d, R, n) \in SUBSET R /\ XrefOwners(d, R, n) # {}
      BY <1>1, <1>4 DEF XrefOwners
    <2> QED
      BY <1>3, <2>1, NewestIsOne
  <1>5. \A T \in U : IsFiniteSet(T) /\ T \subseteq Nat
    <2>1. \A i \in R : IsRevision(d[i])
      BY <1>3, FileShape
    <2> QED
      BY <2>1 DEF IsRevision, IsEntryMap
  <1>6. IsFiniteSet(U)
    <2>1. DOMAIN D = R
      OBVIOUS
    <2> HIDE DEF D
    <2> QED
      BY <1>3, <2>1, FiniteImage
  <1>7. DOMAIN x = UNION U
    <2>1. U = {DOMAIN d[i].xref : i \in R}
      OBVIOUS
    <2> HIDE DEF U
    <2> QED
      BY <1>1, <2>1
  <1> HIDE DEF U
  <1>8. IsFiniteSet(DOMAIN x) /\ DOMAIN x \subseteq Nat
    BY <1>5, <1>6, <1>7, FS_UNION
  <1> QED
    BY <1>1, <1>2, <1>4, <1>8 DEF R, x

LEMMA ScannedXref ==
    ASSUME NEW d, IsFile(d), Len(d) > 0
    PROVE  LET x == Scanned(d).xref
           IN  /\ DOMAIN x = {id[1] : id \in UNION {DOMAIN d[i].body : i \in DOMAIN d}}
               /\ x = [n \in DOMAIN x |-> x[n]]
               /\ \A n \in DOMAIN x : \E i \in DOMAIN d : \E id \in DOMAIN d[i].body :
                     id[1] = n /\ x[n] = Normal(id)
               /\ IsFiniteSet(DOMAIN x) /\ DOMAIN x \subseteq Nat
  <1> DEFINE x == Scanned(d).xref
             all == UNION {DOMAIN d[i].body : i \in DOMAIN d}
             Of(r, n) == {id \in DOMAIN r.body : id[1] = n}
             P(n) == {i \in DOMAIN d : Of(d[i], n) # {}}
             f == [id \in all |-> id[1]]
  <1>1. /\ DOMAIN x = {id[1] : id \in all}
        /\ x = [n \in DOMAIN x |-> x[n]]
    <2> DEFINE At(n) == Normal(CHOOSE id \in Of(NewestWith(d, DOMAIN d, LAMBDA r : Of(r, n) # {}), n) : TRUE)
    <2>1. x = [n \in {id[1] : id \in all} |-> At(n)]
      BY DEF Scanned
    <2> HIDE DEF At, x, all
    <2> QED
      BY <2>1
  <1>2. \A n \in DOMAIN x :
            x[n] = Normal(CHOOSE id \in Of(d[Highest(P(n))], n) : TRUE)
    BY DEF Scanned, NewestWith
  <1>3. all = DOMAIN BodyOf(d, DOMAIN d)
    BY BodyOfShape, Zenon
  <1>4. IsFiniteSet(all) /\ all \subseteq Ids
    BY <1>3, BodyOfIsObjectMap DEF IsObjectMap
  <1> HIDE DEF x
  <1>5. ASSUME NEW n \in DOMAIN x
        PROVE  \E i \in DOMAIN d : \E id \in DOMAIN d[i].body : id[1] = n /\ x[n] = Normal(id)
    <2>1. PICK k \in DOMAIN d : \E id \in DOMAIN d[k].body : id[1] = n
      BY <1>1, <1>5
    <2>2. P(n) \in SUBSET DOMAIN d /\ P(n) # {}
      BY <2>1
    <2> HIDE DEF P
    <2>3. Highest(P(n)) \in P(n)
      BY <2>2, NewestIsOne
    <2>4. Highest(P(n)) \in DOMAIN d /\ Of(d[Highest(P(n))], n) # {}
      BY <2>3 DEF P
    <2>5. (CHOOSE y \in Of(d[Highest(P(n))], n) : TRUE) \in Of(d[Highest(P(n))], n)
      <3> HIDE DEF Of
      <3> QED
        BY <2>4
    <2> QED
      BY <1>2, <2>4, <2>5
  <1>6. IsFiniteSet(DOMAIN x) /\ DOMAIN x \subseteq Nat
    <2>1. DOMAIN f = all /\ DOMAIN x = {f[id] : id \in all}
      BY <1>1
    <2> HIDE DEF f, all
    <2>2. IsFiniteSet({f[id] : id \in all})
      BY <1>4, <2>1, FiniteImage
    <2>3. DOMAIN x \subseteq Nat
      BY <1>1, <1>4 DEF Ids
    <2> QED
      BY <2>1, <2>2, <2>3
  <1> QED
    BY <1>1, <1>5, <1>6 DEF x
\* A view of a sound file is a sound file of one revision.
IsSoundView(v) ==
    /\ IsObjectMap(v.body)
    /\ DOMAIN v.seals = DOMAIN v.body
    /\ v.seals = [id \in DOMAIN v.seals |-> v.seals[id]]
    /\ IsEntryMap(v.xref, v.body)
    /\ v.encrypt \subseteq Ids
    /\ OwnNumbers(v.xref)
    /\ Listed(v.body, v.xref)
    /\ OneGeneration(BodyIds(v.body))
    /\ IsKeyed(v, v.encrypt)

LEMMA LastTableIsOne ==
    ASSUME NEW d, IsFile(d), Len(d) > 0, Readable(d), ~d[Len(d)].exact
    PROVE  LastTable(d) \in DOMAIN d
  <1> DEFINE P == {i \in DOMAIN d : d[i].xtype = "table"}
  <1>1. P \in SUBSET DOMAIN d /\ P # {}
    BY DEF Readable
  <1> HIDE DEF P
  <1>2. Highest(P) \in P
    BY <1>1, NewestIsOne
  <1> QED
    BY <1>1, <1>2 DEF LastTable, P

LEMMA ViewBody ==
    ASSUME NEW d, IsGiven(d), Readable(d)
    PROVE  /\ View(d).body = BodyOf(d, Seen(d)) /\ View(d).seals = SealsOf(d, Seen(d))
           /\ View(d).encrypt \subseteq Ids
           /\ \A i \in Seen(d) : \A id \in DOMAIN d[i].body : id[1] \in DOMAIN View(d).xref
           /\ IsEntryMap(View(d).xref, View(d).body)
           /\ OwnNumbers(View(d).xref)
  <1>1. IsFile(d) /\ Len(d) > 0
    BY DEF IsGiven
  <1>2. /\ \A i \in DOMAIN d : /\ IsEntryMap(d[i].xref, d[i].body)
                               /\ d[i].encrypt \subseteq Ids
                               /\ IsObjectMap(d[i].body)
        /\ Len(d) \in DOMAIN d
    BY <1>1, FileShape DEF IsRevision
  <1>3. \A i \in Seen(d) : OwnNumbers(d[i].xref) /\ Listed(d[i].body, d[i].xref)
    BY DEF IsGiven, IsSound
  <1>4. Seen(d) \subseteq DOMAIN d
    BY <1>1, ReachedShape
  <1>5. DOMAIN BodyOf(d, Seen(d)) = UNION {DOMAIN d[i].body : i \in Seen(d)}
    BY BodyOfShape, Zenon
  <1>6. CASE d[Len(d)].exact
    <2> DEFINE R == Reached(d)
               x == Chained(d).xref
    <2>1. View(d) = Chained(d) /\ Seen(d) = R
      BY <1>6 DEF View, Seen
    <2>2. /\ Chained(d).body = BodyOf(d, R) /\ Chained(d).seals = SealsOf(d, R)
          /\ Chained(d).encrypt = d[Len(d)].encrypt
      BY DEF Chained
    <2>3. /\ DOMAIN x = UNION {DOMAIN d[i].xref : i \in R}
          /\ x = [n \in DOMAIN x |-> x[n]]
          /\ \A n \in DOMAIN x : \E i \in R : n \in DOMAIN d[i].xref /\ x[n] = d[i].xref[n]
          /\ IsFiniteSet(DOMAIN x) /\ DOMAIN x \subseteq Nat
      BY <1>1, ChainedXref DEF XrefOwners
    <2> HIDE DEF R, x
    <2>4. OwnNumbers(x)
      BY <1>3, <2>1, <2>3 DEF OwnNumbers
    <2>5. \A i \in R : \A id \in DOMAIN d[i].body : id[1] \in DOMAIN x
      BY <1>3, <2>1, <2>3 DEF Listed
    <2>6. IsEntryMap(x, BodyOf(d, R))
      <3>1. ASSUME NEW n \in DOMAIN x
            PROVE  /\ x[n] \in [kind : {"normal", "packed"}, at : Ids,
                                container : Nat, index : Nat]
                   /\ x[n].kind = "normal" => x[n].at \in DOMAIN BodyOf(d, R)
        <4>1. PICK i \in R : n \in DOMAIN d[i].xref /\ x[n] = d[i].xref[n]
          BY <2>3, <3>1
        <4>2. IsEntryMap(d[i].xref, d[i].body) /\ DOMAIN d[i].body \subseteq DOMAIN BodyOf(d, R)
          BY <1>2, <1>4, <1>5, <2>1, <4>1
        <4> QED
          BY <4>1, <4>2 DEF IsEntryMap
      <3> QED
        BY <2>3, <3>1 DEF IsEntryMap
    <2> QED
      BY <1>2, <2>1, <2>2, <2>4, <2>5, <2>6 DEF x
  <1>7. CASE ~d[Len(d)].exact
    <2> DEFINE R == DOMAIN d
               x == Scanned(d).xref
    <2>1. View(d) = Scanned(d) /\ Seen(d) = R
      BY <1>7 DEF View, Seen
    <2>2. /\ Scanned(d).body = BodyOf(d, R) /\ Scanned(d).seals = SealsOf(d, R)
          /\ Scanned(d).encrypt = d[LastTable(d)].encrypt
      BY DEF Scanned
    <2>3. /\ DOMAIN x = {id[1] : id \in UNION {DOMAIN d[i].body : i \in R}}
          /\ x = [n \in DOMAIN x |-> x[n]]
          /\ \A n \in DOMAIN x : \E i \in R : \E id \in DOMAIN d[i].body :
                id[1] = n /\ x[n] = Normal(id)
          /\ IsFiniteSet(DOMAIN x) /\ DOMAIN x \subseteq Nat
      BY <1>1, ScannedXref
    <2>4. LastTable(d) \in DOMAIN d
      BY <1>1, <1>7, LastTableIsOne
    <2> HIDE DEF R, x
    <2>5. OwnNumbers(x)
      <3>1. \A id : Normal(id).at = id
        BY DEF Normal
      <3> QED
        BY <2>3, <3>1 DEF OwnNumbers
    <2>6. \A i \in R : \A id \in DOMAIN d[i].body : id[1] \in DOMAIN x
      BY <2>3
    <2>7. IsEntryMap(x, BodyOf(d, R))
      <3>1. ASSUME NEW n \in DOMAIN x
            PROVE  /\ x[n] \in [kind : {"normal", "packed"}, at : Ids,
                                container : Nat, index : Nat]
                   /\ x[n].kind = "normal" => x[n].at \in DOMAIN BodyOf(d, R)
        <4>1. PICK i \in R : \E id \in DOMAIN d[i].body : id[1] = n /\ x[n] = Normal(id)
          BY <2>3, <3>1
        <4>2. PICK id \in DOMAIN d[i].body : x[n] = Normal(id)
          BY <4>1
        <4>3. id \in Ids /\ id \in DOMAIN BodyOf(d, R)
          BY <1>2, <1>4, <1>5, <2>1, <4>2 DEF IsObjectMap
        <4> QED
          BY <4>2, <4>3 DEF Normal
      <3> QED
        BY <2>3, <3>1 DEF IsEntryMap
    <2> QED
      BY <1>2, <2>1, <2>2, <2>4, <2>5, <2>6, <2>7 DEF x
  <1> QED
    BY <1>6, <1>7

LEMMA ViewIsSound ==
    ASSUME NEW d, IsGiven(d), Readable(d)
    PROVE  /\ IsSoundView(View(d))
           /\ BodyIds(View(d).body) \subseteq SeenIds(d)
  <1> DEFINE v == View(d)
             R == Seen(d)
  <1>1. IsFile(d) /\ Len(d) > 0 /\ R \in SUBSET DOMAIN d
    BY ReachedShape DEF IsGiven
  <1>2. v.body = BodyOf(d, R) /\ v.seals = SealsOf(d, R)
    BY ViewBody
  <1>3. /\ IsObjectMap(v.body)
        /\ \A id \in DOMAIN v.body : \E i \in R :
              /\ id \in DOMAIN d[i].body /\ v.body[id] = d[i].body[id]
              /\ v.seals[id] = d[i].seals[id]
    BY <1>1, <1>2, BodyOfIsObjectMap
  <1>4. /\ DOMAIN v.seals = DOMAIN v.body
        /\ v.seals = [id \in DOMAIN v.seals |-> v.seals[id]]
    <2>1. DOMAIN SealsOf(d, R) = DOMAIN BodyOf(d, R)
      BY DEF BodyOf, SealsOf
    <2>2. SealsOf(d, R) = [id \in DOMAIN SealsOf(d, R) |-> SealsOf(d, R)[id]]
      BY DEF SealsOf
    <2> QED
      BY <1>2, <2>1, <2>2
  <1>5. /\ v.encrypt \subseteq Ids
        /\ \A i \in R : \A id \in DOMAIN d[i].body : id[1] \in DOMAIN v.xref
        /\ IsEntryMap(v.xref, v.body)
        /\ OwnNumbers(v.xref)
    BY ViewBody
  <1>6. OneGeneration(SeenIds(d)) /\ \A i \in R : IsKeyed(d[i], v.encrypt)
    BY DEF IsGiven, IsSound
  <1> HIDE DEF v, R
  <1>7. BodyIds(v.body) \subseteq SeenIds(d)
    <2>1. ASSUME NEW id \in DOMAIN v.body
          PROVE  /\ id \in SeenIds(d)
                 /\ \A n \in DOMAIN v.body[id].members : <<n, 0>> \in SeenIds(d)
      <3>1. PICK i \in R : id \in DOMAIN d[i].body /\ v.body[id] = d[i].body[id]
        BY <1>3, <2>1
      <3>2. /\ id \in BodyIds(d[i].body)
            /\ \A n \in DOMAIN v.body[id].members : <<n, 0>> \in BodyIds(d[i].body)
        BY <3>1 DEF BodyIds
      <3> QED
        BY <3>2 DEF SeenIds, R
    <2> QED
      BY <2>1 DEF BodyIds
  <1>8. Listed(v.body, v.xref)
    BY <1>3, <1>5 DEF Listed
  <1>9. OneGeneration(BodyIds(v.body))
    BY <1>6, <1>7 DEF OneGeneration
  <1>10. IsKeyed(v, v.encrypt)
    BY <1>3, <1>6 DEF IsKeyed
  <1>11. IsSoundView(v)
    BY <1>3, <1>4, <1>5, <1>8, <1>9, <1>10 DEF IsSoundView
  <1> QED
    BY <1>7, <1>11 DEF v
-----------------------------------------------------------------------------
(***************************************************************************)
(* What is read of a view.                                                 *)
(***************************************************************************)
PlainPart(v) == [body |-> v.body, xref |-> v.xref]

\* Nothing of a sound plain file is taken for something else.
LEMMA PlainAsWritten ==
    ASSUME NEW v, IsSoundView(v), v.encrypt = {}
    PROVE  Results(v) = LoadResults(PlainPart(v))
  <1> DEFINE b == [id \in DOMAIN v.body |-> Opened(v.body[id], v.seals[id], << >>)]
  <1>1. \A id \in DOMAIN v.body : Opened(v.body[id], v.seals[id], << >>) = v.body[id]
    BY DEF IsSoundView, IsKeyed, Opened
  <1>2. v.body = [id \in DOMAIN v.body |-> v.body[id]]
    BY DEF IsSoundView, IsObjectMap
  <1>3. b = v.body
    BY <1>1, <1>2
  <1>4. Results(v) = LoadResults([body |-> b, xref |-> v.xref])
    BY DEF Results, PlainResults
  <1> HIDE DEF b
  <1> QED
    BY <1>3, <1>4 DEF PlainPart

\* The objects that are decrypted, and the members that are taken from them.
Direct(v) == Restricted(v.body, NormalIds(v) \ v.encrypt)

PackedNums(v) ==
    {n \in DOMAIN v.xref :
        /\ v.xref[n].kind = "packed"
        /\ <<v.xref[n].container, 0>> \in DOMAIN Direct(v)
        /\ n \in DOMAIN Direct(v)[<<v.xref[n].container, 0>>].members}

PackedMembers(v) ==
    [id \in PackedNums(v) \X {0} |->
        Data(Direct(v)[<<v.xref[id[1]].container, 0>>].members[id[1]])]

LEMMA NormalIdsInBody ==
    ASSUME NEW v, IsEntryMap(v.xref, v.body)
    PROVE  NormalIds(v) \subseteq DOMAIN v.body
  BY DEF NormalIds, IsEntryMap

LEMMA DecryptedAsWritten ==
    ASSUME NEW v, IsSoundView(v), v.encrypt # {}
    PROVE  Results(v) = {Put(Direct(v), PackedMembers(v))}
  <1> DEFINE S == NormalIds(v) \ v.encrypt
             o == [id \in S |-> Opened(v.body[id], v.seals[id], <<id>>)]
  <1>1. S \subseteq DOMAIN v.body
    BY NormalIdsInBody DEF IsSoundView
  <1>2. \A id \in S : Opened(v.body[id], v.seals[id], <<id>>) = v.body[id]
    BY <1>1 DEF IsSoundView, IsKeyed, Opened
  <1>3. Direct(v) = o
    BY <1>1, <1>2 DEF Direct, Restricted
  <1>4. Decrypted(v) =
            LET packed == {n \in DOMAIN v.xref :
                              /\ v.xref[n].kind = "packed"
                              /\ <<v.xref[n].container, 0>> \in DOMAIN o
                              /\ n \in DOMAIN o[<<v.xref[n].container, 0>>].members}
            IN  Put(o, [id \in packed \X {0} |->
                            Data(o[<<v.xref[id[1]].container, 0>>].members[id[1]])])
    BY DEF Decrypted
  <1> HIDE DEF o, S
  <1>5. Decrypted(v) = Put(Direct(v), PackedMembers(v))
    BY <1>3, <1>4 DEF PackedMembers, PackedNums
  <1> QED
    BY <1>5 DEF Results

LEMMA ResultsAreObjectMaps ==
    ASSUME NEW v, IsSoundView(v), NEW objs \in Results(v)
    PROVE  /\ IsObjectMap(objs)
           /\ DOMAIN objs \subseteq BodyIds(v.body)
  <1> USE DEF IsSoundView
  <1>1. NormalIds(v) \subseteq DOMAIN v.body
    BY NormalIdsInBody
  <1>2. CASE v.encrypt = {}
    <2> DEFINE f == PlainPart(v)
    <2>1. objs \in LoadResults(f)
      BY <1>2, PlainAsWritten
    <2>2. IsLoadable(f) /\ f.body = v.body /\ f.xref = v.xref
      BY DEF IsLoadable, PlainPart
    <2> HIDE DEF f
    <2>3. IsObjectMap(objs)
      BY <2>1, <2>2, LoadedIsObjectMap
    <2>4. PICK src \in [MemberNums(f) -> NormalIds(f)] :
              objs = Put([id \in MemberNums(f) \X {0} |->
                             Data(f.body[src[id[1]]].members[id[1]])], ListedObjects(f))
      BY <2>1 DEF LoadResults
    <2>5. DOMAIN objs = (MemberNums(f) \X {0}) \cup DOMAIN ListedObjects(f)
      BY <2>4 DEF Put
    <2>6. DOMAIN ListedObjects(f) \subseteq DOMAIN v.body
      BY <2>2 DEF ListedObjects, Restricted
    <2>7. NormalIds(f) \subseteq DOMAIN v.body
      BY <2>2, ListedIsObjectMap
    <2>8. \A n \in MemberNums(f) : <<n, 0>> \in BodyIds(v.body)
      BY <2>2, <2>7 DEF MemberNums, BodyIds
    <2> QED
      BY <2>3, <2>5, <2>6, <2>8 DEF BodyIds
  <1>3. CASE v.encrypt # {}
    <2>1. objs = Put(Direct(v), PackedMembers(v))
      BY <1>3, DecryptedAsWritten
    <2>2. IsObjectMap(Direct(v)) /\ DOMAIN Direct(v) \subseteq DOMAIN v.body
      BY RestrictedIsObjectMap DEF Direct, Restricted
    <2>3. \A c \in DOMAIN Direct(v) : Direct(v)[c] = v.body[c] /\ c \in DOMAIN v.body
      BY DEF Direct, Restricted
    <2>4. ASSUME NEW n \in PackedNums(v)
          PROVE  /\ n \in Nat /\ <<n, 0>> \in BodyIds(v.body)
                 /\ Direct(v)[<<v.xref[n].container, 0>>].members[n] \in Vals
      <3> DEFINE c == <<v.xref[n].container, 0>>
      <3>1. c \in DOMAIN Direct(v) /\ n \in DOMAIN Direct(v)[c].members
        BY <2>4 DEF PackedNums
      <3>2. IsObject(Direct(v)[c])
        BY <2>2, <3>1 DEF IsObjectMap
      <3>3. Direct(v)[c].members[n] \in Vals /\ n \in Nat
        BY <3>1, <3>2 DEF IsObject
      <3>4. c \in DOMAIN v.body /\ n \in DOMAIN v.body[c].members
        BY <2>3, <3>1
      <3> HIDE DEF c
      <3>5. <<n, 0>> \in BodyIds(v.body)
        BY <3>4 DEF BodyIds
      <3> QED
        BY <3>3, <3>5 DEF c
    <2>5. IsObjectMap(PackedMembers(v))
      <3>1. IsFiniteSet(PackedNums(v))
        BY FS_Subset DEF PackedNums, IsEntryMap
      <3>2. IsFiniteSet(PackedNums(v) \X {0})
        BY <3>1, FS_Singleton, FS_Product
      <3>3. PackedNums(v) \X {0} \subseteq Ids
        BY <2>4, GensAssumption DEF Ids
      <3>4. \A id \in PackedNums(v) \X {0} : PackedMembers(v)[id] \in UserObjects
        BY <2>4 DEF PackedMembers, UserObjects
      <3>5. DOMAIN PackedMembers(v) = PackedNums(v) \X {0}
            /\ PackedMembers(v) = [id \in DOMAIN PackedMembers(v) |-> PackedMembers(v)[id]]
        BY DEF PackedMembers
      <3> QED
        BY <3>2, <3>3, <3>4, <3>5, UserObjectsAreObjects DEF IsObjectMap
    <2>6. DOMAIN objs = DOMAIN Direct(v) \cup (PackedNums(v) \X {0})
      BY <2>1 DEF Put, PackedMembers
    <2>7. IsObjectMap(objs)
      BY <2>1, <2>2, <2>5, PutIsObjectMap
    <2>8. \A id \in PackedNums(v) \X {0} : id \in BodyIds(v.body)
      <3>1. \A id \in PackedNums(v) \X {0} : id[1] \in PackedNums(v) /\ id = <<id[1], 0>>
        OBVIOUS
      <3>2. \A n \in PackedNums(v) : <<n, 0>> \in BodyIds(v.body)
        BY <2>4
      <3> QED
        BY <3>1, <3>2
    <2>9. DOMAIN Direct(v) \subseteq BodyIds(v.body)
      BY <2>2 DEF BodyIds
    <2> QED
      BY <2>6, <2>7, <2>8, <2>9
  <1> QED
    BY <1>2, <1>3
-----------------------------------------------------------------------------
(***************************************************************************)
(* Reading keeps the invariant.                                            *)
(***************************************************************************)
LEMMA ReadingKeepsInv ==
    ASSUME NEW d, IsGiven(d), Readable(d), NEW objs, IsObjectMap(objs),
           NEW unlocked \in BOOLEAN, Reading(d, objs, unlocked),
           unlocked => /\ DictFound(View(d))
                       /\ View(d).encrypt = {} => objs \in Results(View(d))
                       /\ objs \in Results(View(d)) \cup {Empty},
           ~unlocked => View(d).encrypt # {}
    PROVE  UpdateInv' /\ base' = d /\ PrevInv' /\ NumbersInv'
  <1> DEFINE v == View(d)
             max == LoadedMaxId(v, objs)
  <1>1. IsFile(d) /\ Len(d) > 0 /\ IsLoadable(v) /\ v.encrypt \subseteq Ids
    BY ViewIsSound DEF IsGiven, IsSoundView, IsLoadable
  <1>2. /\ max \in Nat
        /\ \A id \in DOMAIN objs : id[1] <= max
        /\ \A n \in DOMAIN v.xref : n <= max
    BY <1>1, LoadedMaxIdIsCeiling
  <1>3. /\ base' = d /\ prevObjs' = objs
        /\ security' = IF v.encrypt = {} THEN "none"
                       ELSE IF unlocked THEN "unlocked" ELSE "locked"
        /\ encryptId' = IF unlocked THEN v.encrypt ELSE {}
        /\ xrefType' = IF d[Len(d)].exact THEN d[Len(d)].xtype ELSE "table"
        /\ newObjs' = Empty /\ layers' = Empty /\ maxId' = max
        /\ trailer' = [prev |-> IF d[Len(d)].exact THEN {Len(d)} ELSE d[LastTable(d)].prev,
                       encrypt |-> IF unlocked THEN {} ELSE v.encrypt]
    BY DEF Reading, new_from_prev
  <1>4. /\ \A i \in DOMAIN d : d[i].prev \subseteq DOMAIN d /\ d[i].xtype \in XrefTypes
        /\ Len(d) \in DOMAIN d
    BY <1>1, FileShape DEF IsRevision
  <1>5. trailer'.prev \subseteq DOMAIN d /\ (d[Len(d)].exact => trailer'.prev = {Len(d)})
    BY <1>1, <1>3, <1>4, LastTableIsOne
  <1>6. View(base)' = v
    BY <1>3
  <1>7. /\ security' = "none" => v.encrypt = {} /\ objs \in Results(v)
        /\ security' = "unlocked" => unlocked /\ v.encrypt # {} /\ trailer'.encrypt = {}
        /\ security' = "locked" => ~unlocked /\ v.encrypt # {} /\ trailer'.encrypt = v.encrypt
        /\ security' \in {"none", "unlocked", "locked"}
        /\ trailer'.encrypt # {} => security' = "locked"
    BY <1>3
  <1>8. xrefType' \in XrefTypes
    BY <1>3, <1>4 DEF XrefTypes
  <1> HIDE DEF v, max
  <1>9. UpdateInv'
    <2>1. DOMAIN Empty = {}
      BY DEF Empty
    <2>2. layers' = [id \in DOMAIN newObjs' |-> << >>]
      BY <1>3, <2>1 DEF Empty
    <2>3. trailer' = [prev |-> trailer'.prev, encrypt |-> trailer'.encrypt]
      BY <1>3
    <2> QED
      BY <1>2, <1>3, <1>7, <1>8, <2>2, <2>3, EmptyIsObjectMap DEF UpdateInv
  <1>10. PrevInv'
    <2>1. (DictFound(View(base)))' <=> DictFound(v)
      BY <1>6
    <2>2. (Results(View(base)))' = Results(v)
      BY <1>6
    <2>3. unlocked => DictFound(v) /\ objs \in Results(v) \cup {Empty}
      BY DEF v
    <2>4. /\ base'[Len(base')].exact => trailer'.prev = {Len(base')}
          /\ trailer'.prev \subseteq DOMAIN base'
      BY <1>3, <1>5
    <2>5. security' = "unlocked" => encryptId' = v.encrypt /\ encryptId' # {}
      BY <1>3, <1>7
    <2>6. Empty' = Empty
      BY DEF Empty
    <2> QED
      BY <1>3, <1>6, <1>7, <2>1, <2>2, <2>3, <2>4, <2>5, <2>6 DEF PrevInv
  <1>11. NumbersInv'
    BY <1>2, <1>3, <1>6 DEF NumbersInv, Empty
  <1> QED
    BY <1>3, <1>9, <1>10, <1>11

LEMMA OpenKeepsInv ==
    ASSUME IncrementalInv, Open \/ OpenLocked \/ OpenThenDecrypt
    PROVE  IncrementalInv'
  <1>1. disk # << >> /\ Readable(disk) /\ disk' = disk
    BY DEF Open, OpenLocked, OpenThenDecrypt
  <1>2. IsGiven(disk)
    BY <1>1 DEF IncrementalInv
  <1>3. IsSoundView(View(disk))
    BY <1>1, <1>2, ViewIsSound
  <1>4. UpdateInv' /\ base' = disk /\ PrevInv' /\ NumbersInv'
    <2>1. CASE Open
      <3>1. PICK objs \in Results(View(disk)) : Reading(disk, objs, TRUE)
        BY <2>1 DEF Open
      <3>2. IsObjectMap(objs)
        BY <1>3, <3>1, ResultsAreObjectMaps
      <3>3. DictFound(View(disk))
        BY <2>1 DEF Open
      <3> QED
        BY <1>1, <1>2, <3>1, <3>2, <3>3, ReadingKeepsInv
    <2>2. CASE OpenLocked
      <3> DEFINE objs == Restricted(ListedObjects(View(disk)), View(disk).encrypt)
      <3>1. Reading(disk, objs, FALSE) /\ View(disk).encrypt # {}
        BY <2>2 DEF OpenLocked
      <3>2. IsObjectMap(objs)
        BY <1>3, RestrictedIsObjectMap DEF IsSoundView, ListedObjects
      <3> HIDE DEF objs
      <3> QED
        BY <1>1, <1>2, <3>1, <3>2, ReadingKeepsInv
    <2>3. CASE OpenThenDecrypt
      <3>1. Reading(disk, Empty, TRUE) /\ View(disk).encrypt # {} /\ DictFound(View(disk))
        BY <2>3 DEF OpenThenDecrypt
      <3> QED
        BY <1>1, <1>2, <3>1, EmptyIsObjectMap, ReadingKeepsInv
    <2> QED
      BY <2>1, <2>2, <2>3, Zenon
  <1>5. (disk # << >> => IsGiven(disk))' /\ (base # << >> => IsGiven(base) /\ Readable(base))'
    BY <1>1, <1>2, <1>4
  <1> QED
    BY <1>4, <1>5 DEF IncrementalInv
-----------------------------------------------------------------------------
(***************************************************************************)
(* Edits keep the invariant.                                               *)
(***************************************************************************)
LEMMA PlacedIsPlain ==
    ASSUME UpdateInv, NEW id \in Ids, NEW obj, IsObject(obj), Place(id, obj)
    PROVE  /\ IsObjectMap(newObjs')
           /\ layers' = [x \in DOMAIN newObjs' |-> << >>]
           /\ DOMAIN newObjs' = DOMAIN newObjs \cup {id}
           /\ newObjs'[id] = obj
           /\ \A x \in DOMAIN newObjs \ {id} : newObjs'[x] = newObjs[x]
  <1>1. IsObjectMap([x \in {id} |-> obj])
    BY SingletonIsObjectMap
  <1>2. IsObjectMap(newObjs')
    BY <1>1, PutIsObjectMap DEF UpdateInv, Place
  <1>3. /\ DOMAIN newObjs' = DOMAIN newObjs \cup {id}
        /\ newObjs'[id] = obj
        /\ \A x \in DOMAIN newObjs \ {id} : newObjs'[x] = newObjs[x]
    BY DEF Place, Put
  <1>4. layers' = [x \in DOMAIN newObjs' |-> << >>]
    BY <1>3 DEF UpdateInv, Place, Put
  <1> QED
    BY <1>2, <1>3, <1>4

LEMMA EditsKeepInv ==
    ASSUME IncrementalInv, CloneObject \/ SetObject \/ AddObject \/ RemoveObject
    PROVE  IncrementalInv'
  <1>1. /\ base # << >>
        /\ UNCHANGED <<disk, base, prevObjs, security, encryptId, xrefType, trailer>>
    BY DEF CloneObject, SetObject, AddObject, RemoveObject, Edit, document
  <1>2. /\ UpdateInv /\ PrevInv /\ NumbersInv /\ IsGiven(base) /\ Readable(base)
        /\ disk # << >> => IsGiven(disk)
    BY <1>1 DEF IncrementalInv
  <1>3. View(base)' = View(base)
    BY <1>1
  <1>4. PrevInv'
    BY <1>1, <1>2 DEF PrevInv
  <1>5. IsObjectMap(prevObjs) /\ IsObjectMap(newObjs) /\ maxId \in Nat
    BY <1>2 DEF PrevInv, UpdateInv
  <1>6. \A n : IsUnused(n)' <=> IsUnused(n)
    BY <1>1, <1>3 DEF IsUnused
  <1>7. UpdateInv' /\ NumbersInv'
    <2>1. CASE CloneObject
      <3>1. PICK id \in DOMAIN prevObjs \ DOMAIN newObjs : Place(id, prevObjs[id])
        BY <2>1 DEF CloneObject
      <3>2. id \in Ids /\ IsObject(prevObjs[id]) /\ maxId' = maxId
        BY <1>5, <2>1, <3>1 DEF IsObjectMap, CloneObject
      <3>3. /\ IsObjectMap(newObjs')
            /\ layers' = [x \in DOMAIN newObjs' |-> << >>]
            /\ DOMAIN newObjs' = DOMAIN newObjs \cup {id}
            /\ newObjs'[id] = prevObjs[id]
            /\ \A x \in DOMAIN newObjs \ {id} : newObjs'[x] = newObjs[x]
        BY <1>2, <3>1, <3>2, PlacedIsPlain
      <3>4. UpdateInv'
        BY <1>1, <1>2, <3>2, <3>3 DEF UpdateInv
      <3>5. \A x \in DOMAIN newObjs' : Replaces(x)' \/ Adds(x)'
        BY <1>1, <1>2, <1>6, <3>1, <3>3 DEF NumbersInv, Replaces, Adds
      <3> QED
        BY <1>1, <1>2, <1>3, <3>1, <3>2, <3>3, <3>4, <3>5 DEF NumbersInv
    <2>2. CASE SetObject
      <3>1. PICK id \in DOMAIN UserPart(Put(prevObjs, newObjs)), obj \in NewObjects :
                Place(id, obj)
        BY <2>2 DEF SetObject
      <3>2. IsObject(obj) /\ maxId' = maxId
        BY <2>2, NewObjectsAssumption, UserObjectsAreObjects DEF SetObject
      <3>3. \/ id \in DOMAIN newObjs /\ newObjs[id].type \in UserTypes
            \/ id \in DOMAIN prevObjs /\ prevObjs[id].type \in UserTypes
        BY DEF UserPart, Restricted, Put
      <3>4. id \in Ids
        BY <1>5, <3>3 DEF IsObjectMap
      <3>5. /\ IsObjectMap(newObjs')
            /\ layers' = [x \in DOMAIN newObjs' |-> << >>]
            /\ DOMAIN newObjs' = DOMAIN newObjs \cup {id}
            /\ newObjs'[id] = obj
            /\ \A x \in DOMAIN newObjs \ {id} : newObjs'[x] = newObjs[x]
        BY <1>2, <3>1, <3>2, <3>4, PlacedIsPlain
      <3>6. UpdateInv'
        BY <1>1, <1>2, <3>2, <3>5 DEF UpdateInv
      <3>7. Replaces(id)' \/ Adds(id)'
        BY <1>1, <1>2, <1>6, <3>3, <3>5 DEF NumbersInv, Replaces, Adds
      <3>8. \A x \in DOMAIN newObjs \ {id} : Replaces(x)' \/ Adds(x)'
        BY <1>1, <1>2, <1>6, <3>5 DEF NumbersInv, Replaces, Adds
      <3>9. id[1] <= maxId
        BY <1>2, <3>3 DEF NumbersInv
      <3> QED
        BY <1>1, <1>2, <1>3, <3>2, <3>5, <3>6, <3>7, <3>8, <3>9 DEF NumbersInv
    <2>3. CASE AddObject
      <3>0. PICK id : id = <<maxId + 1, 0>>
        OBVIOUS
      <3>1. PICK obj \in NewObjects : Place(id, obj)
        BY <2>3, <3>0 DEF AddObject
      <3>2. IsObject(obj) /\ maxId' = maxId + 1
        BY <2>3, NewObjectsAssumption, UserObjectsAreObjects DEF AddObject
      <3>3. id \in Ids /\ id[1] = maxId + 1 /\ id[2] = 0
        BY <1>5, <3>0, GensAssumption DEF Ids
      <3>4. IsUnused(id[1])
        BY <1>2, <1>5, <3>3 DEF NumbersInv, IsUnused
      <3>5. /\ IsObjectMap(newObjs')
            /\ layers' = [x \in DOMAIN newObjs' |-> << >>]
            /\ DOMAIN newObjs' = DOMAIN newObjs \cup {id}
            /\ newObjs'[id] = obj
            /\ \A x \in DOMAIN newObjs \ {id} : newObjs'[x] = newObjs[x]
        BY <1>2, <3>1, <3>2, <3>3, PlacedIsPlain
      <3>6. UpdateInv'
        BY <1>1, <1>2, <1>5, <3>2, <3>5 DEF UpdateInv
      <3>7. Adds(id)'
        BY <1>6, <3>3, <3>4 DEF Adds
      <3>8. \A x \in DOMAIN newObjs \ {id} : Replaces(x)' \/ Adds(x)'
        BY <1>1, <1>2, <1>6, <3>5 DEF NumbersInv, Replaces, Adds
      <3>9. /\ \A n \in DOMAIN View(base).xref : n \in Nat /\ n <= maxId'
            /\ \A x \in DOMAIN prevObjs \cup DOMAIN newObjs' : x[1] <= maxId'
        <4>1. \A n \in DOMAIN View(base).xref : n \in Nat
          BY <1>2, ViewIsSound DEF IsSoundView, IsEntryMap
        <4>2. \A x \in DOMAIN prevObjs \cup DOMAIN newObjs : x[1] \in Nat /\ x[1] <= maxId
          BY <1>2, <1>5 DEF IsObjectMap, Ids, NumbersInv
        <4> QED
          BY <1>2, <1>5, <3>2, <3>3, <3>5, <4>1, <4>2 DEF NumbersInv
      <3> QED
        BY <1>1, <1>3, <1>5, <3>2, <3>5, <3>6, <3>7, <3>8, <3>9 DEF NumbersInv
    <2>4. CASE RemoveObject
      <3>1. PICK id \in DOMAIN newObjs :
                /\ newObjs' = Restricted(newObjs, DOMAIN newObjs \ {id})
                /\ layers' = Restricted(layers, DOMAIN layers \ {id})
        BY <2>4 DEF RemoveObject
      <3>2. maxId' = maxId /\ DOMAIN newObjs' = DOMAIN newObjs \ {id}
            /\ \A x \in DOMAIN newObjs' : newObjs'[x] = newObjs[x]
        BY <2>4, <3>1 DEF RemoveObject, Restricted
      <3>3. IsObjectMap(newObjs')
        BY <1>5, <3>1, RestrictedIsObjectMap
      <3>4. layers' = [x \in DOMAIN newObjs' |-> << >>]
        BY <1>2, <3>1, <3>2 DEF UpdateInv, Restricted
      <3>5. UpdateInv'
        BY <1>1, <1>2, <3>2, <3>3, <3>4 DEF UpdateInv
      <3>6. \A x \in DOMAIN newObjs' : Replaces(x)' \/ Adds(x)'
        BY <1>1, <1>2, <1>6, <3>2 DEF NumbersInv, Replaces, Adds
      <3> QED
        BY <1>1, <1>2, <1>3, <3>2, <3>5, <3>6 DEF NumbersInv
    <2> QED
      BY <2>1, <2>2, <2>3, <2>4
  <1> QED
    BY <1>1, <1>2, <1>4, <1>7 DEF IncrementalInv
-----------------------------------------------------------------------------
(***************************************************************************)
(* What a save appends.                                                    *)
(***************************************************************************)
LEMMA SectionShape ==
    ASSUME NEW b, IsObjectMap(b), OneGeneration(DOMAIN b)
    PROVE  LET x == SectionOf(DOMAIN b)
           IN  /\ DOMAIN x = {id[1] : id \in DOMAIN b}
               /\ \A id \in DOMAIN b : x[id[1]] = Normal(id)
               /\ IsEntryMap(x, b)
  <1> DEFINE ids == DOMAIN b
             x == SectionOf(ids)
             nums == {id[1] : id \in ids}
             first == [id \in ids |-> id[1]]
             At(n) == <<n, Highest({id[2] : id \in {y \in ids : y[1] = n}})>>
  <1>1. IsFiniteSet(ids) /\ ids \subseteq Nat \X Gens /\ Gens \subseteq Nat
    BY GensAssumption DEF IsObjectMap, Ids
  <1>0. ASSUME NEW id \in ids
        PROVE  id[1] \in Nat /\ id[2] \in Nat /\ id \in Ids /\ id = <<id[1], id[2]>>
    <2>1. id \in Nat \X Gens
      BY <1>1
    <2>2. id[1] \in Nat /\ id[2] \in Gens /\ id = <<id[1], id[2]>>
      BY <2>1
    <2> QED
      BY <1>1, <2>1, <2>2 DEF Ids
  <1>2. ASSUME NEW id \in ids
        PROVE  At(id[1]) = id
    <2>1. {y \in ids : y[1] = id[1]} = {id}
      BY DEF OneGeneration
    <2>2. {y[2] : y \in {z \in ids : z[1] = id[1]}} = {id[2]}
      BY <2>1
    <2>3. id[2] \in Nat /\ id = <<id[1], id[2]>>
      BY <1>0
    <2>4. Highest({id[2]}) = id[2]
      BY <2>3 DEF Highest
    <2> QED
      BY <2>2, <2>3, <2>4
  <1>3. x = [n \in nums |-> Normal(At(n))]
    BY DEF SectionOf
  <1>4. IsFiniteSet(nums) /\ nums \subseteq Nat
    <2>1. DOMAIN first = ids /\ nums = {first[id] : id \in ids}
      OBVIOUS
    <2>2. nums \subseteq Nat
      BY <1>0
    <2> HIDE DEF first, ids, nums
    <2> QED
      BY <1>1, <2>1, <2>2, FiniteImage
  <1> HIDE DEF At, x
  <1>5. \A id \in ids : x[id[1]] = Normal(id)
    BY <1>2, <1>3
  <1>6. ASSUME NEW n \in nums
        PROVE  /\ x[n] \in [kind : {"normal", "packed"}, at : Ids, container : Nat, index : Nat]
               /\ x[n].at \in ids
    <2>1. PICK id \in ids : n = id[1]
      OBVIOUS
    <2>2. x[n] = Normal(id) /\ id \in Ids
      BY <1>0, <1>5, <2>1
    <2> HIDE DEF ids, nums
    <2> QED
      BY <2>2 DEF Normal
  <1>7. DOMAIN x = nums /\ x = [n \in DOMAIN x |-> x[n]]
    BY <1>3
  <1>8. IsEntryMap(x, b)
    BY <1>4, <1>6, <1>7 DEF IsEntryMap
  <1> QED
    BY <1>5, <1>7, <1>8 DEF x

OwnIds == IF xrefType = "stream" THEN {<<maxId + 1, 0>>} ELSE {}

AppendedIds == Written \cup OwnIds

LEMMA AppendedIdsShape ==
    ASSUME IncrementalInv, base # << >>, Supported
    PROVE  /\ AppendedIds \subseteq Ids /\ IsFiniteSet(AppendedIds)
           /\ \A id \in Written : id \notin OwnIds /\ id \in DOMAIN newObjs
           /\ \A id \in AppendedIds :
                 \/ id \in DOMAIN prevObjs /\ prevObjs[id].type \in UserTypes
                 \/ id[2] = 0 /\ IsUnused(id[1])
           /\ \A id \in OwnIds : IsUnused(id[1])
           /\ OneGeneration(AppendedIds)
  <1>1. /\ IsObjectMap(newObjs) /\ IsObjectMap(prevObjs) /\ NumbersInv /\ PrevInv
        /\ IsGiven(base) /\ Readable(base)
    BY DEF IncrementalInv, UpdateInv, PrevInv
  <1>2. Written \subseteq DOMAIN newObjs
    BY DEF Written
  <1>3. OwnIds \subseteq {<<maxId + 1, 0>>} /\ maxId \in Nat
    BY <1>1 DEF OwnIds, NumbersInv
  <1>4. OwnIds \subseteq Ids /\ IsFiniteSet(OwnIds)
    <2>1. <<maxId + 1, 0>> \in Ids
      BY <1>3, GensAssumption DEF Ids
    <2> QED
      BY <2>1, FS_Singleton, FS_EmptySet DEF OwnIds
  <1>5. AppendedIds \subseteq Ids /\ IsFiniteSet(AppendedIds)
    <2>1. Written \subseteq Ids /\ IsFiniteSet(Written)
      BY <1>1, <1>2, FS_Subset DEF IsObjectMap
    <2> QED
      BY <1>4, <2>1, FS_Union DEF AppendedIds
  <1>6. \A id \in DOMAIN newObjs \cup DOMAIN prevObjs : id[1] \in Nat /\ id[1] <= maxId
    BY <1>1 DEF IsObjectMap, Ids, NumbersInv
  <1>7. \A id \in DOMAIN newObjs \cup DOMAIN prevObjs : id[1] # maxId + 1
    BY <1>3, <1>6
  <1>8. \A id \in OwnIds : id[2] = 0 /\ id[1] = maxId + 1 /\ IsUnused(id[1])
    <2>1. \A n \in DOMAIN View(base).xref : n \in Nat /\ n <= maxId
      BY <1>1, ViewIsSound DEF IsSoundView, IsEntryMap, NumbersInv
    <2>2. maxId + 1 \notin DOMAIN View(base).xref
      BY <1>3, <2>1
    <2> QED
      BY <1>3, <1>7, <2>2 DEF IsUnused
  <1>9. \A id \in Written :
            \/ id \in DOMAIN prevObjs /\ prevObjs[id].type \in UserTypes
            \/ id[2] = 0 /\ IsUnused(id[1])
    BY <1>1 DEF Written, NumbersInv, Replaces, Adds
  <1>10. OneGeneration(DOMAIN prevObjs)
    <2>1. prevObjs \in Results(View(base)) \cup {Empty}
      BY <1>1 DEF PrevInv, Supported
    <2>2. DOMAIN prevObjs \subseteq BodyIds(View(base).body)
      BY <1>1, <2>1, ViewIsSound, ResultsAreObjectMaps DEF Empty
    <2>3. OneGeneration(BodyIds(View(base).body))
      BY <1>1, ViewIsSound DEF IsSoundView
    <2> QED
      BY <2>2, <2>3 DEF OneGeneration
  <1>11. OneGeneration(AppendedIds)
    <2>1. \A id \in AppendedIds : id = <<id[1], id[2]>>
      BY <1>5 DEF Ids
    <2>2. \A id \in AppendedIds :
              id \in DOMAIN prevObjs \/ (id[2] = 0 /\ \A x \in DOMAIN prevObjs : x[1] # id[1])
      BY <1>8, <1>9 DEF AppendedIds, IsUnused
    <2> QED
      BY <1>10, <2>1, <2>2 DEF OneGeneration
  <1> QED
    BY <1>2, <1>5, <1>6, <1>7, <1>8, <1>9, <1>11 DEF AppendedIds
LEMMA NoMembers == DOMAIN Empty = {} /\ IsObject(XRefStm)
  <1>1. DOMAIN Empty = {} /\ Empty \in [DOMAIN Empty -> Vals]
    BY DEF Empty
  <1> QED
    BY <1>1, FS_EmptySet DEF IsObject, XRefStm, Types, UserTypes

LEMMA AppendedShape ==
    ASSUME IncrementalInv, base # << >>, Supported
    PROVE  /\ DOMAIN Appended.body = AppendedIds
           /\ \A id \in Written :
                 /\ Appended.body[id] = newObjs[id]
                 /\ newObjs[id].type \in UserTypes
           /\ \A id \in OwnIds : Appended.body[id] = XRefStm
           /\ \A id \in AppendedIds : DOMAIN Appended.body[id].members = {}
           /\ Appended.xref = SectionOf(AppendedIds)
           /\ Appended.encrypt = View(base).encrypt
           /\ Appended.exact = TRUE
           /\ Appended.prev \subseteq DOMAIN base
           /\ base[Len(base)].exact => Appended.prev = {Len(base)}
           /\ Appended.seals = [id \in DOMAIN Appended.seals |-> Appended.seals[id]]
           /\ IsRevision(Appended)
           /\ IsKeyed(Appended, View(base).encrypt)
  <1> DEFINE A == Appended
             b == [id \in AppendedIds |-> IF id \in OwnIds THEN XRefStm ELSE newObjs[id]]
             s == [id \in AppendedIds |-> IF id \in OwnIds THEN << >> ELSE SealFor(id)]
  <1>1. A = [body |-> b, seals |-> s, xtype |-> xrefType, xref |-> SectionOf(AppendedIds),
             prev |-> SavedTrailer.prev, encrypt |-> SavedTrailer.encrypt, exact |-> TRUE]
    BY DEF Appended, AppendedIds, OwnIds
  <1>2. /\ UpdateInv /\ PrevInv /\ IsObjectMap(newObjs)
        /\ IsGiven(base) /\ Readable(base)
    BY DEF IncrementalInv, UpdateInv
  <1>3. /\ AppendedIds \subseteq Ids /\ IsFiniteSet(AppendedIds) /\ OneGeneration(AppendedIds)
        /\ \A id \in Written : id \notin OwnIds /\ id \in DOMAIN newObjs /\ id \in AppendedIds
        /\ \A id \in OwnIds : id \in AppendedIds
        /\ \A id \in AppendedIds : id \in Written \/ id \in OwnIds
    BY AppendedIdsShape DEF AppendedIds
  <1>4. \A id \in Written : newObjs[id].type \in UserTypes
    BY DEF Written
  <1>5. \A id \in Written : b[id] = newObjs[id]
    BY <1>3
  <1>6. \A id \in OwnIds : b[id] = XRefStm
    BY <1>3
  <1>7. ASSUME NEW id \in AppendedIds
        PROVE  IsObject(b[id]) /\ DOMAIN b[id].members = {}
    <2>1. CASE id \in OwnIds
      <3>1. DOMAIN XRefStm.members = {}
        BY NoMembers DEF XRefStm
      <3> QED
        BY <2>1, <3>1, <1>6, NoMembers
    <2>2. CASE id \in Written
      <3>1. IsObject(newObjs[id]) /\ newObjs[id].type # "ObjStm"
        BY <1>2, <1>3, <1>4, <2>2 DEF IsObjectMap, UserTypes
      <3>2. DOMAIN newObjs[id].members = {}
        BY <3>1, NoMembers DEF IsObject
      <3> QED
        BY <1>5, <2>2, <3>1, <3>2
    <2> QED
      BY <1>3, <2>1, <2>2
  <1>8. DOMAIN b = AppendedIds /\ b = [id \in DOMAIN b |-> b[id]]
    OBVIOUS
  <1>9. DOMAIN s = AppendedIds /\ s = [id \in DOMAIN s |-> s[id]]
    OBVIOUS
  <1>10. \A id \in Written : s[id] = IF security = "unlocked" THEN <<id>> ELSE << >>
    <2>1. \A id \in Written : layers[id] = << >>
      BY <1>2, <1>3 DEF UpdateInv
    <2>2. \A id : Append(<< >>, id) = <<id>>
      OBVIOUS
    <2> QED
      BY <1>3, <2>1, <2>2 DEF SealFor
  <1>11. \A id \in OwnIds : s[id] = << >>
    BY <1>3
  <1> HIDE DEF b, s, A
  <1>12. IsObjectMap(b)
    BY <1>3, <1>7, <1>8 DEF IsObjectMap
  <1>13. SavedTrailer.encrypt = View(base).encrypt /\ SavedTrailer.prev = trailer.prev
    <2>1. CASE security = "unlocked"
      BY <1>2, <2>1 DEF PrevInv, SavedTrailer, UpdateInv
    <2>2. CASE security = "none"
      BY <1>2, <2>2 DEF PrevInv, SavedTrailer
    <2> QED
      BY <1>2, <2>1, <2>2 DEF PrevInv, Supported
  <1>14. /\ trailer.prev \subseteq DOMAIN base
         /\ base[Len(base)].exact => trailer.prev = {Len(base)}
         /\ xrefType \in XrefTypes
         /\ View(base).encrypt \subseteq Ids
    BY <1>2, ViewIsSound DEF PrevInv, UpdateInv, IsSoundView
  <1>15. security = "unlocked" <=> View(base).encrypt # {}
    BY <1>2 DEF PrevInv, Supported
  <1>16. IsEntryMap(SectionOf(AppendedIds), b)
    BY <1>3, <1>8, <1>12, SectionShape
  <1>17. \A id \in AppendedIds : s[id] \in Seq(Ids)
    <2>1. ASSUME NEW id \in AppendedIds
          PROVE  s[id] \in Seq(Ids)
      <3>1. id \in Ids /\ s[id] \in {<<id>>, << >>}
        BY <1>3, <1>10, <1>11
      <3>2. <<id>> \in Seq(Ids) /\ << >> \in Seq(Ids)
        BY <3>1
      <3> QED
        BY <3>1, <3>2
    <2> QED
      BY <2>1
  <1>18. IsRevision(A)
    BY <1>1, <1>8, <1>9, <1>12, <1>13, <1>14, <1>16, <1>17 DEF IsRevision
  <1>19. IsKeyed(A, View(base).encrypt)
    <2>1. ASSUME NEW id \in AppendedIds
          PROVE  b[id].type = "XRef" \/ s[id] = IF View(base).encrypt = {} THEN << >> ELSE <<id>>
      <3>1. CASE id \in OwnIds
        BY <1>6, <3>1 DEF XRefStm
      <3>2. CASE id \in Written
        BY <1>10, <1>15, <3>2
      <3> QED
        BY <1>3, <3>1, <3>2
    <2> QED
      BY <1>1, <1>8, <2>1 DEF IsKeyed
  <1> QED
    BY <1>1, <1>4, <1>5, <1>6, <1>7, <1>8, <1>9, <1>13, <1>14, <1>18, <1>19 DEF A

\* What is appended under a number is the update of what had it, or nothing had.
LEMMA AppendedKeepsOne ==
    ASSUME IncrementalInv, base # << >>, Supported
    PROVE  OneGeneration(SeenIds(base) \cup AppendedIds)
  <1>1. IsGiven(base) /\ Readable(base)
    BY DEF IncrementalInv
  <1>2. OneGeneration(SeenIds(base))
    BY <1>1 DEF IsGiven, IsSound
  <1>3. OneGeneration(AppendedIds) /\ AppendedIds \subseteq Ids
    BY AppendedIdsShape
  <1>4. DOMAIN prevObjs \subseteq SeenIds(base)
    <2>1. prevObjs \in Results(View(base)) \cup {Empty}
      BY DEF IncrementalInv, PrevInv, Supported
    <2> QED
      BY <1>1, <2>1, ViewIsSound, ResultsAreObjectMaps DEF Empty
  <1>5. ASSUME NEW a \in SeenIds(base), NEW id \in AppendedIds, a[1] = id[1]
        PROVE  a = id
    <2>1. CASE id \in DOMAIN prevObjs
      BY <1>2, <1>4, <1>5, <2>1 DEF OneGeneration
    <2>2. CASE id[2] = 0 /\ IsUnused(id[1])
      <3>1. PICK i \in Seen(base) : a \in BodyIds(base[i].body)
        BY DEF SeenIds
      <3>2. a \notin DOMAIN base[i].body
        BY <1>1, <1>5, <2>2, <3>1, ViewBody DEF IsUnused
      <3>3. PICK n : a = <<n, 0>>
        BY <3>1, <3>2 DEF BodyIds
      <3>4. id = <<id[1], id[2]>>
        BY <1>3 DEF Ids
      <3> QED
        BY <1>5, <2>2, <3>3, <3>4
    <2> QED
      BY <2>1, <2>2, AppendedIdsShape
  <1>6. \A a, b \in SeenIds(base) \cup AppendedIds : a[1] = b[1] => a = b
    BY <1>2, <1>3, <1>5 DEF OneGeneration
  <1> QED
    BY <1>6 DEF OneGeneration

\* The appended revision makes a sound file of one: its numbers are those of what it
\* replaces, or nothing in the file has them.
LEMMA SavedIsGiven ==
    ASSUME IncrementalInv, base # << >>, Supported
    PROVE  IsGiven(Append(base, Appended))
  <1> DEFINE e == Append(base, Appended)
             last == Len(base) + 1
  <1>1. IsGiven(base) /\ Readable(base) /\ IsFile(base) /\ Len(base) > 0
    BY DEF IncrementalInv, IsGiven
  <1>2. /\ Len(e) = last /\ DOMAIN e = DOMAIN base \cup {last} /\ last \notin DOMAIN base
        /\ \A i \in DOMAIN base : e[i] = base[i]
        /\ e[last] = Appended
        /\ \A T : (\A i \in DOMAIN e : e[i] \in T) => e \in Seq(T)
    BY <1>1, AppendShape
  <1>3. /\ DOMAIN Appended.body = AppendedIds
        /\ \A id \in AppendedIds : DOMAIN Appended.body[id].members = {}
        /\ Appended.xref = SectionOf(AppendedIds)
        /\ Appended.encrypt = View(base).encrypt
        /\ Appended.exact = TRUE
        /\ Appended.prev \subseteq DOMAIN base
        /\ base[Len(base)].exact => Appended.prev = {Len(base)}
        /\ IsRevision(Appended)
        /\ IsKeyed(Appended, View(base).encrypt)
    BY AppendedShape
  <1>4. last \in Nat /\ last > 0
    BY <1>1, FileShape
  <1>5. IsFile(e) /\ Len(e) > 0
    <2>1. \A i \in DOMAIN base : IsRevision(base[i]) /\ base[i].prev \subseteq DOMAIN base
      BY <1>1, FileShape
    <2>2. e \in Seq({e[i] : i \in DOMAIN e})
      <3> HIDE DEF e
      <3> QED
        BY <1>2
    <2> QED
      BY <1>2, <1>3, <1>4, <2>1, <2>2 DEF IsFile
  <1>6. Seen(e) \subseteq Seen(base) \cup {last}
    <2>1. Seen(e) = Reached(e)
      BY <1>2, <1>3 DEF Seen
    <2>2. CASE base[Len(base)].exact
      BY <1>1, <1>3, <2>1, <2>2, ReachedOfAppend DEF Seen
    <2>3. CASE ~base[Len(base)].exact
      <3>1. Seen(base) = DOMAIN base
        BY <2>3 DEF Seen
      <3> QED
        BY <1>2, <1>5, <3>1, ReachedShape
    <2> QED
      BY <2>2, <2>3
  <1>7. Seen(base) \subseteq DOMAIN base
    BY <1>1, ReachedShape
  <1> HIDE DEF e, last
  <1>8. OwnNumbers(Appended.xref) /\ Listed(Appended.body, Appended.xref)
    <2>1. IsObjectMap(Appended.body) /\ OneGeneration(DOMAIN Appended.body)
      BY <1>3, AppendedIdsShape DEF IsRevision
    <2>2. /\ DOMAIN Appended.xref = {id[1] : id \in DOMAIN Appended.body}
          /\ \A id \in DOMAIN Appended.body : Appended.xref[id[1]] = Normal(id)
      BY <1>3, <2>1, SectionShape
    <2>3. \A id : Normal(id).at = id
      BY DEF Normal
    <2> QED
      BY <2>2, <2>3 DEF OwnNumbers, Listed
  <1>9. \A i \in Seen(e) : OwnNumbers(e[i].xref) /\ Listed(e[i].body, e[i].xref)
    BY <1>1, <1>2, <1>6, <1>7, <1>8 DEF IsGiven, IsSound
  <1>10. View(e).encrypt = View(base).encrypt
    BY <1>2, <1>3 DEF View, Chained
  <1>11. \A i \in Seen(e) : IsKeyed(e[i], View(e).encrypt)
    BY <1>1, <1>2, <1>3, <1>6, <1>7, <1>10 DEF IsGiven
  <1>12. OneGeneration(SeenIds(e))
    <2>1. SeenIds(e) \subseteq SeenIds(base) \cup AppendedIds
      <3>1. BodyIds(Appended.body) = AppendedIds
        BY <1>3 DEF BodyIds
      <3> QED
        BY <1>2, <1>6, <1>7, <3>1 DEF SeenIds
    <2> QED
      BY <2>1, AppendedKeepsOne DEF OneGeneration
  <1> QED
    BY <1>5, <1>9, <1>11, <1>12 DEF IsGiven, IsSound, e

LEMMA SavesKeepInv ==
    ASSUME IncrementalInv, Save \/ SaveFails \/ SaveRefused
    PROVE  IncrementalInv'
  <1>1. /\ base # << >>
        /\ UNCHANGED <<base, prevObjs, security, encryptId, xrefType, newObjs, layers, trailer>>
    BY DEF Save, SaveFails, SaveRefused, document, LayersAfter, TrailerAfter
  <1>2. /\ UpdateInv /\ PrevInv /\ NumbersInv /\ IsGiven(base) /\ Readable(base)
        /\ disk # << >> => IsGiven(disk)
    BY <1>1 DEF IncrementalInv
  <1>3. maxId' \in {maxId, maxId + 1} /\ maxId \in Nat
    BY <1>2 DEF Save, SaveFails, SaveRefused, UpdateInv
  <1>4. View(base)' = View(base)
    BY <1>1
  <1>5. UpdateInv' /\ PrevInv'
    BY <1>1, <1>2, <1>3, <1>4 DEF UpdateInv, PrevInv
  <1>6. NumbersInv'
    <2>1. \A n \in DOMAIN View(base).xref : n \in Nat /\ n <= maxId
      BY <1>2, ViewIsSound DEF IsSoundView, IsEntryMap, NumbersInv
    <2>2. \A id \in DOMAIN prevObjs \cup DOMAIN newObjs : id[1] \in Nat /\ id[1] <= maxId
      BY <1>2 DEF UpdateInv, PrevInv, NumbersInv, IsObjectMap, Ids
    <2>3. /\ maxId' \in Nat
          /\ \A n \in Nat : n <= maxId => n <= maxId'
      BY <1>3
    <2>4. \A id \in DOMAIN newObjs : Replaces(id)' \/ Adds(id)'
      BY <1>1, <1>2, <1>4 DEF NumbersInv, Replaces, Adds, IsUnused
    <2> QED
      BY <1>1, <1>4, <2>1, <2>2, <2>3, <2>4 DEF NumbersInv
  <1>7. disk' # << >> => IsGiven(disk')
    <2>1. CASE Save
      BY <1>1, <2>1, SavedIsGiven DEF Save
    <2>2. CASE SaveFails
      BY <2>2 DEF SaveFails
    <2>3. CASE SaveRefused
      BY <1>2, <2>3 DEF SaveRefused
    <2> QED
      BY <2>1, <2>2, <2>3
  <1> QED
    BY <1>1, <1>2, <1>5, <1>6, <1>7 DEF IncrementalInv
-----------------------------------------------------------------------------
(***************************************************************************)
(* What a saved file shows: the view before, overridden by what was        *)
(* appended.                                                               *)
(***************************************************************************)
LEMMA OwnersAfterAppend ==
    ASSUME NEW d, IsFile(d), Len(d) > 0, NEW r, NEW R \in SUBSET DOMAIN d
    PROVE  LET e == Append(d, r)
               last == Len(d) + 1
           IN  /\ \A id : Highest(BodyOwners(e, R \cup {last}, id)) =
                              IF id \in DOMAIN r.body THEN last
                              ELSE Highest(BodyOwners(d, R, id))
               /\ \A n : Highest(XrefOwners(e, R \cup {last}, n)) =
                              IF n \in DOMAIN r.xref THEN last
                              ELSE Highest(XrefOwners(d, R, n))
  <1> DEFINE e == Append(d, r)
             last == Len(d) + 1
  <1>1. /\ last \notin DOMAIN d /\ e[last] = r
        /\ \A i \in DOMAIN d : e[i] = d[i]
    BY AppendShape
  <1>2. \A P \in SUBSET R : Highest(P \cup {last}) = last
    BY NewestAfterAppend
  <1> HIDE DEF e, last
  <1>3. ASSUME NEW id
        PROVE  Highest(BodyOwners(e, R \cup {last}, id)) =
                   IF id \in DOMAIN r.body THEN last ELSE Highest(BodyOwners(d, R, id))
    <2> DEFINE P == BodyOwners(d, R, id)
    <2>1. P \in SUBSET R
      BY DEF BodyOwners
    <2>2. BodyOwners(e, R \cup {last}, id) = IF id \in DOMAIN r.body THEN P \cup {last} ELSE P
      BY <1>1 DEF BodyOwners
    <2> HIDE DEF P
    <2> QED
      BY <1>2, <2>1, <2>2 DEF P
  <1>4. ASSUME NEW n
        PROVE  Highest(XrefOwners(e, R \cup {last}, n)) =
                   IF n \in DOMAIN r.xref THEN last ELSE Highest(XrefOwners(d, R, n))
    <2> DEFINE P == XrefOwners(d, R, n)
    <2>1. P \in SUBSET R
      BY DEF XrefOwners
    <2>2. XrefOwners(e, R \cup {last}, n) = IF n \in DOMAIN r.xref THEN P \cup {last} ELSE P
      BY <1>1 DEF XrefOwners
    <2> HIDE DEF P
    <2> QED
      BY <1>2, <2>1, <2>2 DEF P
  <1> QED
    BY <1>3, <1>4 DEF e, last

LEMMA ViewAfterSave ==
    ASSUME NEW d, IsGiven(d), Readable(d), d[Len(d)].exact,
           NEW r, r.exact, r.prev = {Len(d)}, DOMAIN r.seals = DOMAIN r.body,
           IsFile(Append(d, r))
    PROVE  LET v == View(d)
               w == View(Append(d, r))
           IN  /\ w.body = Put(v.body, r.body)
               /\ w.seals = Put(v.seals, r.seals)
               /\ w.xref = Put(v.xref, r.xref)
               /\ w.encrypt = r.encrypt
  <1> DEFINE e == Append(d, r)
             last == Len(d) + 1
             R == Reached(d)
             S == R \cup {last}
             v == View(d)
             w == View(e)
  <1>1. IsFile(d) /\ Len(d) > 0 /\ Len(e) > 0 /\ R \in SUBSET DOMAIN d
    <2>1. IsFile(d) /\ Len(d) > 0
      BY DEF IsGiven
    <2>2. Len(e) > 0
      BY <2>1, AppendShape, FileShape
    <2> QED
      BY <2>1, <2>2, ReachedShape
  <1>2. /\ Len(e) = last /\ e[last] = r /\ last \notin DOMAIN d
        /\ \A i \in DOMAIN d : e[i] = d[i]
        /\ Reached(e) = S
    BY <1>1, AppendShape, ReachedOfAppend
  <1>3. v = Chained(d) /\ w = Chained(e)
    BY <1>2 DEF View
  <1>4. /\ v.body = BodyOf(d, R) /\ v.seals = SealsOf(d, R)
        /\ w.body = BodyOf(e, S) /\ w.seals = SealsOf(e, S) /\ w.encrypt = r.encrypt
    BY <1>2, <1>3 DEF Chained
  <1>5. /\ \A id : Highest(BodyOwners(e, S, id)) =
                       IF id \in DOMAIN r.body THEN last ELSE Highest(BodyOwners(d, R, id))
        /\ \A n : Highest(XrefOwners(e, S, n)) =
                       IF n \in DOMAIN r.xref THEN last ELSE Highest(XrefOwners(d, R, n))
    BY <1>1, OwnersAfterAppend
  <1>6. /\ DOMAIN v.xref = UNION {DOMAIN d[i].xref : i \in R}
        /\ \A n \in DOMAIN v.xref :
              /\ v.xref[n] = d[Highest(XrefOwners(d, R, n))].xref[n]
              /\ Highest(XrefOwners(d, R, n)) \in XrefOwners(d, R, n)
    <2> DEFINE x == Chained(d).xref
    <2>1. /\ DOMAIN x = UNION {DOMAIN d[i].xref : i \in R}
          /\ \A n \in DOMAIN x :
                /\ x[n] = d[Highest(XrefOwners(d, R, n))].xref[n]
                /\ Highest(XrefOwners(d, R, n)) \in XrefOwners(d, R, n)
      BY <1>1, ChainedXref
    <2>2. v.xref = x
      BY <1>3
    <2> HIDE DEF x, v, R
    <2> QED
      BY <2>1, <2>2
  <1>7. /\ DOMAIN w.xref = UNION {DOMAIN e[i].xref : i \in S}
        /\ w.xref = [n \in DOMAIN w.xref |-> w.xref[n]]
        /\ \A n \in DOMAIN w.xref : w.xref[n] = e[Highest(XrefOwners(e, S, n))].xref[n]
    <2> DEFINE x == Chained(e).xref
               T == Reached(e)
    <2>1. /\ DOMAIN x = UNION {DOMAIN e[i].xref : i \in T}
          /\ x = [n \in DOMAIN x |-> x[n]]
          /\ \A n \in DOMAIN x : x[n] = e[Highest(XrefOwners(e, T, n))].xref[n]
      BY <1>1, ChainedXref
    <2>2. w.xref = x /\ T = S
      BY <1>2, <1>3
    <2> HIDE DEF x, w, S, T
    <2> QED
      BY <2>1, <2>2
  <1>10. \A x : x \in S <=> x \in R \/ x = last
    OBVIOUS
  <1> HIDE DEF e, last, v, w, R, S
  <1>8. w.xref = Put(v.xref, r.xref)
    <2>1. DOMAIN w.xref = DOMAIN v.xref \cup DOMAIN r.xref
      <3>1. \A n : n \in DOMAIN w.xref <=> \E i \in S : n \in DOMAIN e[i].xref
        BY <1>7
      <3>2. \A n : n \in DOMAIN v.xref <=> \E i \in R : n \in DOMAIN d[i].xref
        BY <1>6
      <3>3. \A i \in R : e[i] = d[i]
        BY <1>1, <1>2
      <3>4. \A n : n \in DOMAIN w.xref <=> n \in DOMAIN v.xref \/ n \in DOMAIN r.xref
        BY <1>2, <1>10, <3>1, <3>2, <3>3
      <3> QED
        BY <3>4
    <2>2. ASSUME NEW n \in DOMAIN w.xref
          PROVE  w.xref[n] = IF n \in DOMAIN r.xref THEN r.xref[n] ELSE v.xref[n]
      <3>1. CASE n \in DOMAIN r.xref
        BY <1>2, <1>5, <1>7, <3>1
      <3>2. CASE n \notin DOMAIN r.xref
        <4> DEFINE h == Highest(XrefOwners(d, R, n))
        <4>1. n \in DOMAIN v.xref
          BY <2>1, <3>2
        <4>2. h \in DOMAIN d
          BY <1>1, <1>6, <4>1 DEF XrefOwners
        <4>3. Highest(XrefOwners(e, S, n)) = h
          BY <1>5, <3>2
        <4>4. e[h] = d[h]
          BY <1>2, <4>2
        <4>5. w.xref[n] = e[h].xref[n] /\ v.xref[n] = d[h].xref[n]
          <5> HIDE DEF h
          <5>1. w.xref[n] = e[Highest(XrefOwners(e, S, n))].xref[n]
            BY <1>7
          <5>2. v.xref[n] = d[h].xref[n]
            BY <1>6, <4>1 DEF h
          <5> QED
            BY <4>3, <5>1, <5>2
        <4> HIDE DEF h
        <4> QED
          BY <3>2, <4>4, <4>5
      <3> QED
        BY <3>1, <3>2
    <2> QED
      BY <1>7, <2>1, <2>2 DEF Put
  <1>9. w.body = Put(v.body, r.body) /\ w.seals = Put(v.seals, r.seals)
    <2>1. /\ DOMAIN v.body = UNION {DOMAIN d[i].body : i \in R}
          /\ DOMAIN w.body = UNION {DOMAIN e[i].body : i \in S}
          /\ DOMAIN v.seals = DOMAIN v.body /\ DOMAIN w.seals = DOMAIN w.body
          /\ w.body = [id \in DOMAIN w.body |-> w.body[id]]
          /\ w.seals = [id \in DOMAIN w.seals |-> w.seals[id]]
      BY <1>4 DEF BodyOf, SealsOf
    <2>2. \A id \in DOMAIN v.body :
              /\ v.body[id] = d[Highest(BodyOwners(d, R, id))].body[id]
              /\ v.seals[id] = d[Highest(BodyOwners(d, R, id))].seals[id]
      BY <1>4 DEF BodyOf, SealsOf, NewestWith, BodyOwners
    <2>3. \A id \in DOMAIN w.body :
              /\ w.body[id] = e[Highest(BodyOwners(e, S, id))].body[id]
              /\ w.seals[id] = e[Highest(BodyOwners(e, S, id))].seals[id]
      BY <1>4 DEF BodyOf, SealsOf, NewestWith, BodyOwners
    <2>4. DOMAIN w.body = DOMAIN v.body \cup DOMAIN r.body
      <3>1. \A id : id \in DOMAIN w.body <=> \E i \in S : id \in DOMAIN e[i].body
        BY <2>1
      <3>2. \A id : id \in DOMAIN v.body <=> \E i \in R : id \in DOMAIN d[i].body
        BY <2>1
      <3>3. \A i \in R : e[i] = d[i]
        BY <1>1, <1>2
      <3>4. \A id : id \in DOMAIN w.body <=> id \in DOMAIN v.body \/ id \in DOMAIN r.body
        BY <1>2, <1>10, <3>1, <3>2, <3>3
      <3> QED
        BY <3>4
    <2>5. ASSUME NEW id \in DOMAIN w.body
          PROVE  /\ w.body[id] = IF id \in DOMAIN r.body THEN r.body[id] ELSE v.body[id]
                 /\ w.seals[id] = IF id \in DOMAIN r.body THEN r.seals[id] ELSE v.seals[id]
      <3>1. CASE id \in DOMAIN r.body
        BY <1>2, <1>5, <2>3, <3>1
      <3>2. CASE id \notin DOMAIN r.body
        <4>1. BodyOwners(d, R, id) \in SUBSET R /\ BodyOwners(d, R, id) # {}
          BY <2>1, <2>4, <3>2 DEF BodyOwners
        <4>2. Highest(BodyOwners(d, R, id)) \in DOMAIN d
          BY <1>1, <4>1, NewestIsOne
        <4> DEFINE h == Highest(BodyOwners(d, R, id))
        <4>3. Highest(BodyOwners(e, S, id)) = h
          BY <1>5, <3>2
        <4>4. e[h] = d[h]
          BY <1>2, <4>2
        <4>5. /\ w.body[id] = e[h].body[id]
              /\ w.seals[id] = e[h].seals[id]
          <5> HIDE DEF h
          <5> QED BY <2>3, <4>3
        <4>6. /\ v.body[id] = d[h].body[id]
              /\ v.seals[id] = d[h].seals[id]
          BY <2>2, <2>4, <3>2
        <4> HIDE DEF h
        <4> QED
          BY <3>2, <4>4, <4>5, <4>6
      <3> QED
        BY <3>1, <3>2
    <2> QED
      BY <2>1, <2>4, <2>5 DEF Put
  <1> QED
    BY <1>4, <1>8, <1>9 DEF e, v, w

-----------------------------------------------------------------------------
(***************************************************************************)
(* Reading the view of a saved file: w is v overridden by a.               *)
(***************************************************************************)
Updates(w, v, a) ==
    /\ IsSoundView(v) /\ IsSoundView(w)
    /\ w.body = Put(v.body, a.body) /\ w.xref = Put(v.xref, a.xref)
    /\ w.encrypt = v.encrypt /\ DictFound(v)
    /\ DOMAIN a.xref = {id[1] : id \in DOMAIN a.body}
    /\ \A id \in DOMAIN a.body : /\ a.xref[id[1]] = Normal(id)
                                 /\ DOMAIN a.body[id].members = {}
    /\ OneGeneration(BodyIds(v.body) \cup DOMAIN a.body)
    /\ \A id \in DOMAIN a.body \cap NormalIds(v) :
          DOMAIN v.body[id].members = {} /\ id \notin v.encrypt

\* The objects that are listed are those of before, but for the numbers of a.
LEMMA ListedAfterUpdate ==
    ASSUME NEW w, NEW v, NEW a, Updates(w, v, a)
    PROVE  /\ \A id \in DOMAIN a.body : id \in NormalIds(w) /\ w.body[id] = a.body[id]
           /\ \A id : id[1] \notin DOMAIN a.xref =>
                 /\ id \in NormalIds(w) <=> id \in NormalIds(v)
                 /\ id \in NormalIds(v) => w.body[id] = v.body[id]
           /\ \A n : n \notin DOMAIN a.xref =>
                 /\ n \in DOMAIN w.xref <=> n \in DOMAIN v.xref
                 /\ w.xref[n] = v.xref[n] \/ n \notin DOMAIN v.xref
           /\ \A n \in DOMAIN a.xref : n \in DOMAIN w.xref /\ w.xref[n].kind = "normal"
  <1> DEFINE X == DOMAIN a.xref
  <1>1. /\ w.body = Put(v.body, a.body) /\ w.xref = Put(v.xref, a.xref)
        /\ X = {id[1] : id \in DOMAIN a.body}
        /\ \A id \in DOMAIN a.body : a.xref[id[1]] = Normal(id)
        /\ OwnNumbers(v.xref) /\ OwnNumbers(w.xref)
    BY DEF Updates, IsSoundView
  <1>2. \A id : Normal(id).at = id /\ Normal(id).kind = "normal"
    BY DEF Normal
  <1>3. /\ DOMAIN w.xref = DOMAIN v.xref \cup X
        /\ \A n \in DOMAIN w.xref : w.xref[n] = IF n \in X THEN a.xref[n] ELSE v.xref[n]
        /\ DOMAIN w.body = DOMAIN v.body \cup DOMAIN a.body
        /\ \A id \in DOMAIN w.body :
               w.body[id] = IF id \in DOMAIN a.body THEN a.body[id] ELSE v.body[id]
    BY <1>1 DEF Put
  <1>4. NormalIds(v) \subseteq DOMAIN v.body
    BY NormalIdsInBody DEF Updates, IsSoundView
  <1>5. ASSUME NEW id \in DOMAIN a.body
        PROVE  id \in NormalIds(w) /\ w.body[id] = a.body[id]
    <2>1. id[1] \in X /\ w.xref[id[1]] = Normal(id) /\ id[1] \in DOMAIN w.xref
      BY <1>1, <1>3
    <2> QED
      BY <1>2, <1>3, <2>1 DEF NormalIds
  <1>6. ASSUME NEW id, id[1] \notin X
        PROVE  /\ id \in NormalIds(w) <=> id \in NormalIds(v)
               /\ id \in NormalIds(v) => w.body[id] = v.body[id]
    <2>1. id \in NormalIds(w) => id \in NormalIds(v)
      <3> SUFFICES ASSUME id \in NormalIds(w) PROVE id \in NormalIds(v)
        OBVIOUS
      <3>1. PICK n \in DOMAIN w.xref : w.xref[n].kind = "normal" /\ w.xref[n].at = id
        BY DEF NormalIds
      <3>2. n = id[1]
        BY <1>1, <3>1 DEF OwnNumbers
      <3>3. n \in DOMAIN v.xref /\ w.xref[n] = v.xref[n]
        BY <1>3, <1>6, <3>2
      <3> QED
        BY <3>1, <3>3 DEF NormalIds
    <2>2. id \in NormalIds(v) => id \in NormalIds(w)
      <3> SUFFICES ASSUME id \in NormalIds(v) PROVE id \in NormalIds(w)
        OBVIOUS
      <3>1. PICK n \in DOMAIN v.xref : v.xref[n].kind = "normal" /\ v.xref[n].at = id
        BY DEF NormalIds
      <3>2. n = id[1]
        BY <1>1, <3>1 DEF OwnNumbers
      <3>3. n \in DOMAIN w.xref /\ w.xref[n] = v.xref[n]
        BY <1>3, <1>6, <3>2
      <3> QED
        BY <3>1, <3>3 DEF NormalIds
    <2>3. id \notin DOMAIN a.body
      BY <1>1, <1>6
    <2> QED
      BY <1>3, <1>4, <2>1, <2>2, <2>3
  <1>7. \A n \in X : n \in DOMAIN w.xref /\ w.xref[n].kind = "normal"
    BY <1>1, <1>2, <1>3
  <1> QED
    BY <1>3, <1>5, <1>6, <1>7

\* What has a number of a is of a.
LEMMA OneForNumber ==
    ASSUME NEW w, NEW v, NEW a, Updates(w, v, a)
    PROVE  \A id \in BodyIds(v.body) \cup BodyIds(w.body) :
               id[1] \in DOMAIN a.xref => id \in DOMAIN a.body
  <1>1. BodyIds(w.body) \subseteq BodyIds(v.body) \cup DOMAIN a.body
    <2>1. /\ DOMAIN w.body = DOMAIN v.body \cup DOMAIN a.body
          /\ \A id \in DOMAIN w.body :
                 w.body[id] = IF id \in DOMAIN a.body THEN a.body[id] ELSE v.body[id]
          /\ \A id \in DOMAIN a.body : DOMAIN a.body[id].members = {}
      BY DEF Updates, Put
    <2> QED
      BY <2>1 DEF BodyIds
  <1>2. /\ DOMAIN a.xref = {id[1] : id \in DOMAIN a.body}
        /\ OneGeneration(BodyIds(v.body) \cup DOMAIN a.body)
    BY DEF Updates
  <1> QED
    BY <1>1, <1>2 DEF OneGeneration

\* The containers that are read are those of before.
LEMMA ContainersAfterUpdate ==
    ASSUME NEW w, NEW v, NEW a, Updates(w, v, a), NEW c, NEW n
    PROVE  (c \in NormalIds(w) /\ n \in DOMAIN w.body[c].members) <=>
               (c \in NormalIds(v) /\ n \in DOMAIN v.body[c].members)
  <1>1. ASSUME c \in NormalIds(w), n \in DOMAIN w.body[c].members
        PROVE  c[1] \notin DOMAIN a.xref
    <2>1. c \in BodyIds(w.body)
      BY <1>1, NormalIdsInBody DEF BodyIds, Updates, IsSoundView
    <2>2. c \notin DOMAIN a.body
      <3>1. \A id \in DOMAIN a.body : w.body[id] = a.body[id]
        BY ListedAfterUpdate
      <3>2. \A id \in DOMAIN a.body : DOMAIN a.body[id].members = {}
        BY DEF Updates
      <3> QED
        BY <1>1, <3>1, <3>2
    <2> QED
      BY <2>1, <2>2, OneForNumber
  <1>2. ASSUME c \in NormalIds(v), n \in DOMAIN v.body[c].members
        PROVE  c[1] \notin DOMAIN a.xref
    <2>1. c \in BodyIds(v.body)
      BY <1>2, NormalIdsInBody DEF BodyIds, Updates, IsSoundView
    <2>2. c \notin DOMAIN a.body
      BY <1>2 DEF Updates
    <2> QED
      BY <2>1, <2>2, OneForNumber
  <1>3. c[1] \notin DOMAIN a.xref =>
            /\ c \in NormalIds(w) <=> c \in NormalIds(v)
            /\ c \in NormalIds(v) => w.body[c] = v.body[c]
    BY ListedAfterUpdate
  <1> QED
    BY <1>1, <1>2, <1>3

\* The objects x are the objects o overridden by a, those with a number of a left
\* out.
Overridden(x, o, a) ==
    /\ \A id \in DOMAIN x \cup DOMAIN o :
          IF id[1] \in DOMAIN a.xref THEN id \in DOMAIN a.body
          ELSE id \in DOMAIN x /\ id \in DOMAIN o /\ x[id] = o[id]
    /\ \A id \in DOMAIN a.body : id \in DOMAIN x /\ x[id] = a.body[id]

LEMMA DecryptedAfterUpdate ==
    ASSUME NEW w, NEW v, NEW a, Updates(w, v, a), v.encrypt # {}, NEW x \in Results(w)
    PROVE  \E o \in Results(v) : Overridden(x, o, a)
  <1> DEFINE o == Put(Direct(v), PackedMembers(v))
  <1>1. IsSoundView(v) /\ IsSoundView(w) /\ w.encrypt = v.encrypt
    BY DEF Updates
  <1>2. o \in Results(v) /\ x = Put(Direct(w), PackedMembers(w))
    BY <1>1, DecryptedAsWritten
  <1>3. DOMAIN x \subseteq BodyIds(w.body) /\ DOMAIN o \subseteq BodyIds(v.body)
    BY <1>1, <1>2, ResultsAreObjectMaps
  <1>4. \A u : /\ DOMAIN Put(Direct(u), PackedMembers(u)) =
                      DOMAIN Direct(u) \cup (PackedNums(u) \X {0})
               /\ \A id \in DOMAIN Put(Direct(u), PackedMembers(u)) :
                      Put(Direct(u), PackedMembers(u))[id] =
                          IF id \in PackedNums(u) \X {0} THEN PackedMembers(u)[id]
                          ELSE Direct(u)[id]
    BY DEF Put, PackedMembers
  <1>5. \A u : IsSoundView(u) =>
            /\ DOMAIN Direct(u) = NormalIds(u) \ u.encrypt
            /\ \A id \in DOMAIN Direct(u) : Direct(u)[id] = u.body[id]
    BY NormalIdsInBody DEF Direct, Restricted, IsSoundView
  <1>6. /\ DOMAIN Direct(v) = NormalIds(v) \ v.encrypt
        /\ DOMAIN Direct(w) = NormalIds(w) \ v.encrypt
        /\ \A id \in DOMAIN Direct(v) : Direct(v)[id] = v.body[id]
        /\ \A id \in DOMAIN Direct(w) : Direct(w)[id] = w.body[id]
    BY <1>1, <1>5
  <1>7. \A id : id[1] \notin DOMAIN a.xref =>
            /\ id \in DOMAIN Direct(w) <=> id \in DOMAIN Direct(v)
            /\ id \in DOMAIN Direct(v) => Direct(w)[id] = Direct(v)[id]
    BY <1>6, ListedAfterUpdate
  <1>8. \A c, n : (c \in DOMAIN Direct(w) /\ n \in DOMAIN Direct(w)[c].members) <=>
                  (c \in DOMAIN Direct(v) /\ n \in DOMAIN Direct(v)[c].members)
    BY <1>6, ContainersAfterUpdate
  <1>9. ASSUME NEW c, NEW n, c \in DOMAIN Direct(v), n \in DOMAIN Direct(v)[c].members
        PROVE  Direct(w)[c] = Direct(v)[c]
    <2>1. c \in BodyIds(v.body) /\ c \notin DOMAIN a.body
      BY <1>6, <1>9, NormalIdsInBody DEF BodyIds, Updates, IsSoundView
    <2>2. c[1] \notin DOMAIN a.xref
      BY <2>1, OneForNumber
    <2> QED
      BY <1>7, <1>9, <2>2
  <1>10. ASSUME NEW n, n \notin DOMAIN a.xref
         PROVE  /\ n \in PackedNums(w) <=> n \in PackedNums(v)
                /\ n \in PackedNums(v) => PackedMembers(w)[<<n, 0>>] = PackedMembers(v)[<<n, 0>>]
    <2>1. /\ n \in DOMAIN w.xref <=> n \in DOMAIN v.xref
          /\ n \in DOMAIN v.xref => w.xref[n] = v.xref[n]
      BY <1>10, ListedAfterUpdate
    <2>2. n \in PackedNums(w) <=> n \in PackedNums(v)
      BY <1>8, <2>1 DEF PackedNums
    <2>3. ASSUME n \in PackedNums(v)
          PROVE  PackedMembers(w)[<<n, 0>>] = PackedMembers(v)[<<n, 0>>]
      <3>1. /\ n \in DOMAIN v.xref /\ w.xref[n] = v.xref[n]
            /\ <<v.xref[n].container, 0>> \in DOMAIN Direct(v)
            /\ n \in DOMAIN Direct(v)[<<v.xref[n].container, 0>>].members
        BY <2>1, <2>3 DEF PackedNums
      <3>2. Direct(w)[<<v.xref[n].container, 0>>] = Direct(v)[<<v.xref[n].container, 0>>]
        BY <1>9, <3>1
      <3>3. <<n, 0>> \in PackedNums(v) \X {0} /\ <<n, 0>> \in PackedNums(w) \X {0}
        BY <2>2, <2>3
      <3>4. /\ PackedMembers(w)[<<n, 0>>] =
                   Data(Direct(w)[<<w.xref[n].container, 0>>].members[n])
            /\ PackedMembers(v)[<<n, 0>>] =
                   Data(Direct(v)[<<v.xref[n].container, 0>>].members[n])
        BY <3>3 DEF PackedMembers
      <3> QED
        BY <3>1, <3>2, <3>4
    <2> QED
      BY <2>2, <2>3
  <1>11. ASSUME NEW id, id[1] \notin DOMAIN a.xref
         PROVE  /\ id \in DOMAIN x <=> id \in DOMAIN o
                /\ id \in DOMAIN o => x[id] = o[id]
    <2>1. id \in PackedNums(w) \X {0} <=> id \in PackedNums(v) \X {0}
      BY <1>10, <1>11
    <2>2. id \in PackedNums(v) \X {0} => PackedMembers(w)[id] = PackedMembers(v)[id]
      BY <1>10, <1>11
    <2>3. /\ id \in DOMAIN Direct(w) <=> id \in DOMAIN Direct(v)
          /\ id \in DOMAIN Direct(v) => Direct(w)[id] = Direct(v)[id]
      BY <1>7, <1>11
    <2>4. /\ DOMAIN x = DOMAIN Direct(w) \cup (PackedNums(w) \X {0})
          /\ id \in DOMAIN x => x[id] = IF id \in PackedNums(w) \X {0}
                                        THEN PackedMembers(w)[id] ELSE Direct(w)[id]
      BY <1>2, <1>4
    <2>5. /\ DOMAIN o = DOMAIN Direct(v) \cup (PackedNums(v) \X {0})
          /\ id \in DOMAIN o => o[id] = IF id \in PackedNums(v) \X {0}
                                        THEN PackedMembers(v)[id] ELSE Direct(v)[id]
      BY <1>4
    <2> HIDE DEF o
    <2> QED
      BY <2>1, <2>2, <2>3, <2>4, <2>5
  <1>12. ASSUME NEW id \in DOMAIN a.body
         PROVE  id \in DOMAIN x /\ x[id] = a.body[id]
    <2>1. id \in DOMAIN Direct(w) /\ Direct(w)[id] = a.body[id]
      <3>1. id \in NormalIds(w) /\ w.body[id] = a.body[id]
        BY ListedAfterUpdate
      <3>2. id \notin v.encrypt
        BY DEF Updates, DictFound
      <3> QED
        BY <1>6, <3>1, <3>2
    <2>2. id[1] \in DOMAIN a.xref
      BY DEF Updates
    <2>3. id[1] \notin PackedNums(w)
      BY <2>2, ListedAfterUpdate DEF PackedNums
    <2> QED
      BY <1>2, <1>4, <2>1, <2>3
  <1> HIDE DEF o
  <1>13. \A id \in DOMAIN x \cup DOMAIN o :
             id[1] \in DOMAIN a.xref => id \in DOMAIN a.body
    BY <1>3, OneForNumber
  <1>14. Overridden(x, o, a)
    BY <1>11, <1>12, <1>13 DEF Overridden
  <1> QED
    BY <1>2, <1>14

\* What a load takes for a number that was not in an object of its own: some
\* container offers it, and which one counts is left open.
Loaded(f, src) ==
    Put([id \in MemberNums(f) \X {0} |-> Data(f.body[src[id[1]]].members[id[1]])],
        ListedObjects(f))

IsSourceOf(f, src) ==
    src \in [MemberNums(f) -> NormalIds(f)] /\ \A n \in MemberNums(f) : Accepts(f, src[n], n)

LEMMA LoadResultsAre ==
    ASSUME NEW f, NEW x
    PROVE  x \in LoadResults(f) <=> \E src : IsSourceOf(f, src) /\ x = Loaded(f, src)
  BY DEF LoadResults, Loaded, IsSourceOf

LEMMA LoadedShape ==
    ASSUME NEW f, NEW src, IsEntryMap(f.xref, f.body)
    PROVE  /\ DOMAIN Loaded(f, src) = (MemberNums(f) \X {0}) \cup NormalIds(f)
           /\ \A id \in DOMAIN Loaded(f, src) :
                 Loaded(f, src)[id] =
                     IF id \in NormalIds(f) THEN f.body[id]
                     ELSE Data(f.body[src[id[1]]].members[id[1]])
  <1>1. /\ DOMAIN ListedObjects(f) = NormalIds(f)
        /\ \A id \in NormalIds(f) : ListedObjects(f)[id] = f.body[id]
    BY NormalIdsInBody DEF ListedObjects, Restricted
  <1> QED
    BY <1>1 DEF Loaded, Put

LEMMA AcceptsShape ==
    ASSUME NEW f, IsLoadable(f), NEW c, NEW n
    PROVE  Accepts(f, c, n) <=>
               /\ c \in NormalIds(f) /\ n \in DOMAIN f.body[c].members
               /\ \/ n \notin DOMAIN f.xref
                  \/ f.xref[n].kind # "packed"
                  \/ f.xref[n].container = c[1]
  <1>1. /\ DOMAIN ListedObjects(f) = NormalIds(f)
        /\ \A id \in NormalIds(f) : ListedObjects(f)[id] = f.body[id]
        /\ NormalIds(f) \subseteq DOMAIN f.body
    BY NormalIdsInBody DEF IsLoadable, ListedObjects, Restricted
  <1>2. \A id \in NormalIds(f) : f.body[id].type = "ObjStm" \/ DOMAIN f.body[id].members = {}
    BY <1>1, NoMembers DEF IsLoadable, IsObjectMap, IsObject
  <1> QED
    BY <1>1, <1>2 DEF Accepts

LEMMA LoadedAfterUpdate ==
    ASSUME NEW w, NEW v, NEW a, Updates(w, v, a), v.encrypt = {}, NEW x \in Results(w)
    PROVE  \E o \in Results(v) : Overridden(x, o, a)
  <1> DEFINE f == PlainPart(v)
             g == PlainPart(w)
             X == DOMAIN a.xref
  <1>1. /\ IsSoundView(v) /\ IsSoundView(w) /\ w.encrypt = {}
        /\ Results(v) = LoadResults(f) /\ Results(w) = LoadResults(g)
    BY PlainAsWritten DEF Updates
  <1>2. /\ f.body = v.body /\ f.xref = v.xref /\ NormalIds(f) = NormalIds(v)
        /\ g.body = w.body /\ g.xref = w.xref /\ NormalIds(g) = NormalIds(w)
    BY DEF PlainPart, NormalIds
  <1>3. IsLoadable(f) /\ IsLoadable(g)
    BY <1>1, <1>2 DEF IsLoadable, IsSoundView
  <1> HIDE DEF f, g
  <1>4. PICK src : IsSourceOf(g, src) /\ x = Loaded(g, src)
    BY <1>1, LoadResultsAre
  <1>5. \A c, n : (c \in NormalIds(g) /\ n \in DOMAIN g.body[c].members) <=>
                  (c \in NormalIds(f) /\ n \in DOMAIN f.body[c].members)
    BY <1>2, ContainersAfterUpdate
  <1>6. ASSUME NEW c, NEW n, n \notin X
        PROVE  Accepts(g, c, n) <=> Accepts(f, c, n)
    <2>1. /\ n \in DOMAIN g.xref <=> n \in DOMAIN f.xref
          /\ n \in DOMAIN f.xref => g.xref[n] = f.xref[n]
      BY <1>2, <1>6, ListedAfterUpdate
    <2>2. (c \in NormalIds(g) /\ n \in DOMAIN g.body[c].members) <=>
          (c \in NormalIds(f) /\ n \in DOMAIN f.body[c].members)
      BY <1>5
    <2> QED
      BY <1>3, <2>1, <2>2, AcceptsShape
  <1>7. \A u : IsLoadable(u) => \A n : n \in MemberNums(u) <=> \E c \in NormalIds(u) : Accepts(u, c, n)
    BY AcceptsShape DEF MemberNums
  <1>8. ASSUME NEW n, n \notin X
        PROVE  n \in MemberNums(g) <=> n \in MemberNums(f)
    <2>1. \A c : Accepts(g, c, n) <=> Accepts(f, c, n)
      BY <1>6, <1>8
    <2>2. \A c : (Accepts(f, c, n) => c \in NormalIds(f)) /\ (Accepts(g, c, n) => c \in NormalIds(g))
      BY <1>3, AcceptsShape
    <2> QED
      BY <1>3, <1>7, <2>1, <2>2
  <1> DEFINE old == [n \in MemberNums(f) |->
                        IF n \in X THEN CHOOSE c \in NormalIds(f) : Accepts(f, c, n) ELSE src[n]]
             o == Loaded(f, old)
  <1>9. \A n \in MemberNums(f) : old[n] \in NormalIds(f) /\ Accepts(f, old[n], n)
    <2> TAKE n \in MemberNums(f)
    <2>1. CASE n \in X
      <3>1. \E c \in NormalIds(f) : Accepts(f, c, n)
        BY <1>3, <1>7
      <3>2. old[n] = CHOOSE c \in NormalIds(f) : Accepts(f, c, n)
        BY <2>1
      <3> HIDE DEF old
      <3> QED
        BY <3>1, <3>2
    <2>2. CASE n \notin X
      <3>1. old[n] = src[n] /\ n \in MemberNums(g)
        BY <1>8, <2>2
      <3> HIDE DEF old
      <3>2. Accepts(f, src[n], n)
        BY <1>4, <1>6, <2>2, <3>1 DEF IsSourceOf
      <3>3. src[n] \in NormalIds(f)
        BY <1>3, <3>2, AcceptsShape
      <3> QED
        BY <3>1, <3>2, <3>3
    <2> QED
      BY <2>1, <2>2
  <1>10. IsSourceOf(f, old)
    <2>1. old \in [MemberNums(f) -> NormalIds(f)]
      <3>1. old = [n \in MemberNums(f) |-> old[n]]
        OBVIOUS
      <3> HIDE DEF old
      <3> QED
        BY <1>9, <3>1
    <2> HIDE DEF old
    <2> QED
      BY <1>9, <2>1 DEF IsSourceOf
  <1>11. \A n \in MemberNums(f) : n \notin X => old[n] = src[n]
    OBVIOUS
  <1> HIDE DEF old
  <1>12. o \in Results(v)
    BY <1>1, <1>10, LoadResultsAre
  <1>13. /\ DOMAIN x = (MemberNums(g) \X {0}) \cup NormalIds(g)
         /\ \A id \in DOMAIN x :
               x[id] = IF id \in NormalIds(g) THEN g.body[id]
                       ELSE Data(g.body[src[id[1]]].members[id[1]])
         /\ DOMAIN o = (MemberNums(f) \X {0}) \cup NormalIds(f)
         /\ \A id \in DOMAIN o :
               o[id] = IF id \in NormalIds(f) THEN f.body[id]
                       ELSE Data(f.body[old[id[1]]].members[id[1]])
    <2>1. IsEntryMap(g.xref, g.body) /\ IsEntryMap(f.xref, f.body)
      BY <1>3 DEF IsLoadable
    <2>2. /\ DOMAIN x = (MemberNums(g) \X {0}) \cup NormalIds(g)
          /\ \A id \in DOMAIN x :
                x[id] = IF id \in NormalIds(g) THEN g.body[id]
                        ELSE Data(g.body[src[id[1]]].members[id[1]])
      <3> DEFINE z == Loaded(g, src)
      <3>1. /\ DOMAIN z = (MemberNums(g) \X {0}) \cup NormalIds(g)
            /\ \A id \in DOMAIN z :
                  z[id] = IF id \in NormalIds(g) THEN g.body[id]
                          ELSE Data(g.body[src[id[1]]].members[id[1]])
        BY <2>1, LoadedShape, Zenon
      <3> HIDE DEF z
      <3> QED
        BY <1>4, <3>1 DEF z
    <2>4. /\ DOMAIN o = (MemberNums(f) \X {0}) \cup NormalIds(f)
          /\ \A id \in DOMAIN o :
                o[id] = IF id \in NormalIds(f) THEN f.body[id]
                        ELSE Data(f.body[old[id[1]]].members[id[1]])
      BY <2>1, LoadedShape, Zenon
    <2> QED
      BY <2>2, <2>4
  <1>14. DOMAIN x \subseteq BodyIds(w.body) /\ DOMAIN o \subseteq BodyIds(v.body)
    BY <1>1, <1>12, ResultsAreObjectMaps
  <1> HIDE DEF o
  <1>15. ASSUME NEW id, id[1] \notin X
         PROVE  /\ id \in DOMAIN x <=> id \in DOMAIN o
                /\ id \in DOMAIN o => x[id] = o[id]
    <2>1. /\ id \in NormalIds(g) <=> id \in NormalIds(f)
          /\ id \in NormalIds(f) => g.body[id] = f.body[id]
      BY <1>2, <1>15, ListedAfterUpdate
    <2>2. id \in MemberNums(g) \X {0} <=> id \in MemberNums(f) \X {0}
      BY <1>8, <1>15
    <2>3. ASSUME id \in MemberNums(f) \X {0}
          PROVE  g.body[src[id[1]]] = f.body[old[id[1]]]
      <3>1. PICK n : n = id[1] /\ n \in MemberNums(f) /\ n \notin X
        BY <1>15, <2>3
      <3>2. PICK c : c = src[n] /\ c = old[n]
        BY <1>11, <3>1
      <3>3. c \in NormalIds(f) /\ n \in DOMAIN f.body[c].members
        BY <1>3, <1>9, <3>1, <3>2, AcceptsShape
      <3>4. c \notin DOMAIN a.body /\ c \in BodyIds(v.body)
        BY <1>1, <1>2, <3>3, NormalIdsInBody DEF Updates, BodyIds, IsSoundView
      <3>5. c[1] \notin X
        BY <3>4, OneForNumber
      <3>6. g.body[c] = f.body[c]
        BY <1>2, <3>3, <3>5, ListedAfterUpdate
      <3> QED
        BY <3>1, <3>2, <3>6
    <2> QED
      BY <1>13, <2>1, <2>2, <2>3
  <1>16. ASSUME NEW id \in DOMAIN a.body
         PROVE  id \in DOMAIN x /\ x[id] = a.body[id]
    <2>1. id \in NormalIds(g) /\ g.body[id] = a.body[id]
      BY <1>2, ListedAfterUpdate
    <2> QED
      BY <1>13, <2>1
  <1>17. \A id \in DOMAIN x \cup DOMAIN o : id[1] \in X => id \in DOMAIN a.body
    BY <1>14, OneForNumber
  <1>18. Overridden(x, o, a)
    BY <1>15, <1>16, <1>17 DEF Overridden
  <1> QED
    BY <1>12, <1>18

LEMMA OverriddenUserPart ==
    ASSUME NEW x, NEW o, NEW a, Overridden(x, o, a),
           NEW u,
           \A id \in DOMAIN a.body : id[1] \in DOMAIN a.xref,
           \A id \in DOMAIN u : u[id].type \in UserTypes =>
                                   id \in DOMAIN a.body /\ a.body[id] = u[id],
           \A id \in DOMAIN a.body :
               \/ id \in DOMAIN u /\ u[id].type \in UserTypes
               \/ a.body[id].type \notin UserTypes /\ id \notin DOMAIN o
    PROVE  UserPart(x) = Put(UserPart(o), UserPart(u))
  <1> DEFINE l == UserPart(x)
             r == Put(UserPart(o), UserPart(u))
             User(z) == {id \in DOMAIN z : z[id].type \in UserTypes}
  <1>1. \A z : DOMAIN UserPart(z) = User(z) /\ \A id \in User(z) : UserPart(z)[id] = z[id]
    BY DEF UserPart, Restricted
  <1>2. /\ DOMAIN l = User(x) /\ \A id \in User(x) : l[id] = x[id]
        /\ DOMAIN r = User(o) \cup User(u)
        /\ \A id \in DOMAIN r : r[id] = IF id \in User(u) THEN u[id] ELSE o[id]
    <2> DEFINE p == UserPart(o)
               q == UserPart(u)
    <2>1. DOMAIN p = User(o) /\ DOMAIN q = User(u)
          /\ (\A id \in User(o) : p[id] = o[id]) /\ \A id \in User(u) : q[id] = u[id]
      BY <1>1
    <2> HIDE DEF p, q
    <2>2. /\ DOMAIN Put(p, q) = DOMAIN p \cup DOMAIN q
          /\ \A id \in DOMAIN Put(p, q) :
                Put(p, q)[id] = IF id \in DOMAIN q THEN q[id] ELSE p[id]
      BY DEF Put
    <2>3. r = Put(p, q)
      BY DEF p, q
    <2>4. DOMAIN l = User(x) /\ \A id \in User(x) : l[id] = x[id]
      BY <1>1
    <2> HIDE DEF l, r, User
    <2> QED
      BY <2>1, <2>2, <2>3, <2>4
  <1>3. l = [id \in DOMAIN l |-> l[id]] /\ r = [id \in DOMAIN r |-> r[id]]
    BY DEF UserPart, Restricted, Put
  <1> HIDE DEF l, r
  <1>4. \A id \in DOMAIN a.body : id[1] \in DOMAIN a.xref
    OBVIOUS
  <1>5. ASSUME NEW id \in User(x)
        PROVE  id \in DOMAIN r /\ x[id] = r[id]
    <2>1. CASE id[1] \in DOMAIN a.xref
      <3>1. id \in DOMAIN a.body /\ x[id] = a.body[id]
        BY <2>1 DEF Overridden
      <3>2. id \in User(u)
        BY <1>5, <3>1
      <3> QED
        BY <1>2, <3>1, <3>2
    <2>2. CASE id[1] \notin DOMAIN a.xref
      <3>1. id \in DOMAIN o /\ x[id] = o[id]
        BY <2>2 DEF Overridden
      <3>2. id \notin User(u) /\ id \in User(o)
        BY <1>4, <1>5, <2>2, <3>1
      <3> QED
        BY <1>2, <3>1, <3>2
    <2> QED
      BY <2>1, <2>2
  <1>6. ASSUME NEW id \in DOMAIN r
        PROVE  id \in User(x)
    <2>1. CASE id \in User(u)
      <3>1. id \in DOMAIN x /\ x[id] = u[id]
        BY <2>1 DEF Overridden
      <3> QED
        BY <2>1, <3>1
    <2>2. CASE id \notin User(u)
      <3>1. id \in User(o)
        BY <1>2, <2>2
      <3>2. id \notin DOMAIN a.body
        BY <2>2, <3>1
      <3>3. id \in DOMAIN x /\ x[id] = o[id]
        BY <3>1, <3>2 DEF Overridden
      <3> QED
        BY <3>1, <3>3
    <2> QED
      BY <2>1, <2>2
  <1>7. DOMAIN l = DOMAIN r /\ \A id \in DOMAIN l : l[id] = r[id]
    BY <1>2, <1>5, <1>6
  <1>8. l = r
    BY <1>3, <1>7
  <1> QED
    BY <1>8 DEF l, r

\* However the file before is read, the objects of the document are there.
LEMMA ReadBefore ==
    ASSUME IncrementalInv, base # << >>, Supported
    PROVE  LET v == View(base)
           IN  /\ \A id \in NormalIds(v) : id[1] \in DOMAIN v.xref /\ v.xref[id[1]].kind = "normal"
               /\ \A id \in DOMAIN prevObjs \cap NormalIds(v) :
                     prevObjs[id] = v.body[id] /\ id \notin v.encrypt
               /\ \A o \in Results(v) : \A id \in DOMAIN o : ~ IsUnused(id[1])
  <1> DEFINE v == View(base)
  <1>1. IsSoundView(v) /\ PrevInv /\ prevObjs \in Results(v) \cup {Empty}
    BY ViewIsSound DEF IncrementalInv, PrevInv, Supported
  <1>2. DOMAIN Empty = {}
    BY NoMembers
  <1>3. IsUnused(0) \in BOOLEAN /\ \A n : IsUnused(n) =>
            n \notin DOMAIN v.xref /\ \A id \in DOMAIN prevObjs : id[1] # n
    BY DEF IsUnused
  <1>4. v.encrypt = {} => prevObjs \in Results(v)
    BY <1>1 DEF PrevInv
  <1> HIDE DEF v
  <1>5. \A id \in NormalIds(v) : id[1] \in DOMAIN v.xref /\ v.xref[id[1]].kind = "normal"
    BY <1>1 DEF IsSoundView, OwnNumbers, NormalIds
  <1>6. CASE v.encrypt = {}
    <2> DEFINE f == PlainPart(v)
    <2>1. Results(v) = LoadResults(f)
      BY <1>1, <1>6, PlainAsWritten
    <2>2. f.body = v.body /\ NormalIds(f) = NormalIds(v) /\ IsEntryMap(f.xref, f.body)
      BY <1>1 DEF PlainPart, NormalIds, IsSoundView
    <2> HIDE DEF f
    <2>3. ASSUME NEW o \in Results(v)
          PROVE  /\ DOMAIN o = (MemberNums(f) \X {0}) \cup NormalIds(v)
                 /\ \A id \in NormalIds(v) : o[id] = v.body[id]
      <3>1. PICK src : o = Loaded(f, src)
        BY <2>1, LoadResultsAre
      <3> QED
        BY <2>2, <3>1, LoadedShape
    <2>4. \A o \in Results(v) : DOMAIN o = DOMAIN prevObjs
      BY <1>4, <1>6, <2>3
    <2> QED
      BY <1>3, <1>4, <1>5, <1>6, <2>3, <2>4 DEF v
  <1>7. CASE v.encrypt # {}
    <2>1. Results(v) = {Put(Direct(v), PackedMembers(v))}
      BY <1>1, <1>7, DecryptedAsWritten
    <2>2. \A o \in Results(v) : /\ DOMAIN o = DOMAIN Direct(v) \cup (PackedNums(v) \X {0})
                                /\ \A id \in DOMAIN o \ (PackedNums(v) \X {0}) : o[id] = Direct(v)[id]
      <3>1. DOMAIN PackedMembers(v) = PackedNums(v) \X {0}
        BY DEF PackedMembers
      <3> DEFINE p == Direct(v)
                 q == PackedMembers(v)
      <3> HIDE DEF p, q
      <3>2. /\ DOMAIN Put(p, q) = DOMAIN p \cup DOMAIN q
            /\ \A id \in DOMAIN Put(p, q) \ DOMAIN q : Put(p, q)[id] = p[id]
        BY DEF Put
      <3>3. \A o \in Results(v) : o = Put(p, q)
        BY <2>1 DEF p, q
      <3>4. DOMAIN q = PackedNums(v) \X {0} /\ p = Direct(v)
        BY <3>1 DEF p, q
      <3> QED
        BY <3>2, <3>3, <3>4
    <2>3. /\ DOMAIN Direct(v) = NormalIds(v) \ v.encrypt
          /\ \A id \in DOMAIN Direct(v) : Direct(v)[id] = v.body[id]
      BY <1>1, NormalIdsInBody DEF Direct, Restricted, IsSoundView
    <2>4. \A id \in PackedNums(v) \X {0} :
              id[1] \in DOMAIN v.xref /\ v.xref[id[1]].kind = "packed"
      BY DEF PackedNums
    <2>5. \A id \in NormalIds(v) : id \notin PackedNums(v) \X {0}
      BY <1>5, <2>4
    <2>6. \A o \in Results(v) : \A id \in DOMAIN o : id[1] \in DOMAIN v.xref
      BY <1>5, <2>2, <2>3, <2>4
    <2>7. \A o \in Results(v) : \A id \in DOMAIN o \cap NormalIds(v) :
              o[id] = v.body[id] /\ id \notin v.encrypt
      BY <2>2, <2>3, <2>5
    <2> QED
      BY <1>1, <1>2, <1>3, <1>5, <2>6, <2>7 DEF v
  <1> QED
    BY <1>6, <1>7

LEMMA SavedUpdates ==
    ASSUME IncrementalInv, base # << >>, Supported, base[Len(base)].exact
    PROVE  Updates(View(Append(base, Appended)), View(base), Appended)
  <1> DEFINE v == View(base)
             e == Append(base, Appended)
             w == View(e)
             a == Appended
  <1>1. /\ IsGiven(base) /\ Readable(base) /\ IsFile(base) /\ Len(base) > 0
        /\ IsGiven(e) /\ IsFile(e) /\ PrevInv
    BY SavedIsGiven DEF IncrementalInv, IsGiven
  <1>2. /\ DOMAIN a.body = AppendedIds
        /\ \A id \in Written : a.body[id] = newObjs[id] /\ newObjs[id].type \in UserTypes
        /\ \A id \in AppendedIds : DOMAIN a.body[id].members = {}
        /\ a.xref = SectionOf(AppendedIds)
        /\ a.encrypt = v.encrypt /\ a.exact = TRUE /\ a.prev = {Len(base)}
        /\ IsRevision(a)
    BY AppendedShape
  <1>3. Readable(e)
    BY <1>1, <1>2, AppendShape DEF Readable
  <1>4. IsSoundView(v) /\ IsSoundView(w) /\ BodyIds(v.body) \subseteq SeenIds(base)
    BY <1>1, <1>3, ViewIsSound
  <1>5. w.body = Put(v.body, a.body) /\ w.xref = Put(v.xref, a.xref) /\ w.encrypt = v.encrypt
    <2>1. DOMAIN a.seals = DOMAIN a.body
      BY <1>2 DEF IsRevision
    <2> HIDE DEF a
    <2>2. /\ View(Append(base, a)).body = Put(View(base).body, a.body)
          /\ View(Append(base, a)).xref = Put(View(base).xref, a.xref)
          /\ View(Append(base, a)).encrypt = a.encrypt
      BY <1>1, <1>2, <2>1, ViewAfterSave DEF a
    <2> QED
      BY <1>2, <2>2 DEF a
  <1>6. DictFound(v)
    <2>1. v.encrypt = {} => DictFound(v)
      BY DEF DictFound
    <2> QED
      BY <1>1, <2>1 DEF PrevInv, Supported
  <1>7. /\ DOMAIN a.xref = {id[1] : id \in DOMAIN a.body}
        /\ \A id \in DOMAIN a.body : a.xref[id[1]] = Normal(id)
    <2>1. IsObjectMap(a.body) /\ OneGeneration(DOMAIN a.body)
      BY <1>2, AppendedIdsShape DEF IsRevision
    <2>2. a.xref = SectionOf(DOMAIN a.body)
      BY <1>2
    <2> DEFINE b == a.body
               y == SectionOf(DOMAIN b)
    <2>3. IsObjectMap(b) /\ OneGeneration(DOMAIN b)
      BY <2>1
    <2> HIDE DEF a, b
    <2>4. DOMAIN y = {id[1] : id \in DOMAIN b} /\ \A id \in DOMAIN b : y[id[1]] = Normal(id)
      BY <2>3, SectionShape
    <2>5. y = a.xref
      BY <2>2 DEF b
    <2> HIDE DEF y
    <2> QED
      BY <2>4, <2>5 DEF b
  <1>8. OneGeneration(BodyIds(v.body) \cup DOMAIN a.body)
    BY <1>2, <1>4, AppendedKeepsOne DEF OneGeneration
  <1>9. \A id \in DOMAIN a.body \cap NormalIds(v) :
            DOMAIN v.body[id].members = {} /\ id \notin v.encrypt
    <2> TAKE id \in DOMAIN a.body \cap NormalIds(v)
    <2>1. id[1] \in DOMAIN v.xref
      BY ReadBefore
    <2>2. id \in DOMAIN prevObjs /\ prevObjs[id].type \in UserTypes
      BY <1>2, <2>1, AppendedIdsShape DEF IsUnused
    <2>3. prevObjs[id] = v.body[id] /\ id \notin v.encrypt
      BY <2>2, ReadBefore
    <2>4. IsObject(prevObjs[id])
      BY <1>1, <2>2 DEF PrevInv, IsObjectMap
    <2>5. DOMAIN prevObjs[id].members = {}
      BY <2>2, <2>4, NoMembers DEF IsObject, UserTypes
    <2> QED
      BY <2>3, <2>5
  <1> HIDE DEF v, w, a
  <1>10. Updates(w, v, a)
    BY <1>2, <1>4, <1>5, <1>6, <1>7, <1>8, <1>9 DEF Updates
  <1> QED
    BY <1>10 DEF v, w, a

LEMMA SavedReloads ==
    ASSUME IncrementalInv, Save
    PROVE  UpdateReloads'
  <1>1. /\ base # << >> /\ Supported /\ disk' = Append(base, Appended)
        /\ base' = base /\ newObjs' = newObjs
    BY DEF Save, document
  <1> SUFFICES ASSUME base[Len(base)].exact, NEW x \in Results(View(Append(base, Appended)))
               PROVE  \E o \in Results(View(base)) :
                          UserPart(x) = Put(UserPart(o), UserPart(newObjs))
    BY <1>1 DEF UpdateReloads
  <1>2. Updates(View(Append(base, Appended)), View(base), Appended)
    BY <1>1, SavedUpdates
  <1>3. PICK o \in Results(View(base)) : Overridden(x, o, Appended)
    BY <1>2, DecryptedAfterUpdate, LoadedAfterUpdate
  <1>4. /\ DOMAIN Appended.body = AppendedIds
        /\ \A id \in Written : Appended.body[id] = newObjs[id]
        /\ \A id \in OwnIds : Appended.body[id] = XRefStm
    BY <1>1, AppendedShape
  <1>5. DOMAIN Appended.xref = {id[1] : id \in DOMAIN Appended.body}
    BY <1>2 DEF Updates
  <1>6. \A id \in OwnIds : IsUnused(id[1])
    BY <1>1, AppendedIdsShape
  <1>7. \A id \in OwnIds : id \notin DOMAIN o
    BY <1>1, <1>3, <1>6, ReadBefore
  <1>8. XRefStm.type \notin UserTypes
    BY DEF XRefStm, UserTypes
  <1>9. UserPart(x) = Put(UserPart(o), UserPart(newObjs))
    <2>1. \A id : id \in Written <=> id \in DOMAIN newObjs /\ newObjs[id].type \in UserTypes
      BY DEF Written
    <2>2. \A id : id \in DOMAIN Appended.body <=> id \in Written \/ id \in OwnIds
      BY <1>4 DEF AppendedIds
    <2>4. \A id \in DOMAIN Appended.body : id[1] \in DOMAIN Appended.xref
      BY <1>5
    <2>3. \A id \in OwnIds : Appended.body[id].type \notin UserTypes
      BY <1>4, <1>8
    <2>5. /\ \A id \in DOMAIN newObjs : newObjs[id].type \in UserTypes =>
                id \in DOMAIN Appended.body /\ Appended.body[id] = newObjs[id]
          /\ \A id \in DOMAIN Appended.body :
                \/ id \in DOMAIN newObjs /\ newObjs[id].type \in UserTypes
                \/ Appended.body[id].type \notin UserTypes /\ id \notin DOMAIN o
      BY <1>4, <1>7, <2>1, <2>2, <2>3
    <2> QED
      BY <1>3, <2>4, <2>5, OverriddenUserPart
  <1> QED
    BY <1>9

-----------------------------------------------------------------------------
(***************************************************************************)
(* The theorems.  The files to start from are given files: sound, and      *)
(* encrypted as a whole or not at all.                                     *)
(***************************************************************************)
LEMMA InitHasInv ==
    ASSUME \A d \in InitialFiles : IsGiven(d), Init
    PROVE  IncrementalInv
  <1>1. UpdateInv
    <2>1. DOMAIN Empty = {}
      BY DEF Empty
    <2>2. layers = [id \in DOMAIN newObjs |-> << >>]
      BY <2>1 DEF Init, Empty
    <2> QED
      BY <2>2, EmptyIsObjectMap DEF Init, UpdateInv, XrefTypes
  <1> QED
    BY <1>1 DEF Init, IncrementalInv

LEMMA StepKeepsInv ==
    ASSUME IncrementalInv, [Next]_vars
    PROVE  IncrementalInv'
  <1>1. CASE Open \/ OpenLocked \/ OpenThenDecrypt
    BY <1>1, OpenKeepsInv
  <1>2. CASE CloneObject \/ SetObject \/ AddObject \/ RemoveObject
    BY <1>2, EditsKeepInv
  <1>3. CASE Save \/ SaveFails \/ SaveRefused
    BY <1>3, SavesKeepInv
  <1>4. CASE UNCHANGED vars
    <2>1. UNCHANGED <<disk, base, prevObjs, security, encryptId, xrefType,
                      newObjs, layers, maxId, trailer>>
      BY <1>4 DEF vars, document
    <2>2. UpdateInv' <=> UpdateInv
      BY <2>1 DEF UpdateInv
    <2>3. PrevInv' <=> PrevInv
      BY <2>1 DEF PrevInv
    <2>4. NumbersInv' <=> NumbersInv
      BY <2>1 DEF NumbersInv, Replaces, Adds, IsUnused
    <2> QED
      BY <2>1, <2>2, <2>3, <2>4 DEF IncrementalInv
  <1> QED
    BY <1>1, <1>2, <1>3, <1>4 DEF Next

\* Of sound files and of every update of them: the invariant above.
THEOREM FilesStayGiven ==
    ASSUME \A d \in InitialFiles : IsGiven(d)
    PROVE  Spec => []IncrementalInv
  <1>1. Init => IncrementalInv
    BY InitHasInv
  <1>2. IncrementalInv /\ [Next]_vars => IncrementalInv'
    BY StepKeepsInv
  <1> QED
    BY <1>1, <1>2, PTL DEF Spec

\* Between saves the objects and the trailer in memory are plaintext, whatever
\* was saved, failed to be saved or reopened (save_internal's clones and its
\* trailer swap).
THEOREM PlainBetweenSaves ==
    ASSUME \A d \in InitialFiles : IsGiven(d)
    PROVE  Spec => []PlainInMemory
  <1>1. IncrementalInv => PlainInMemory
    <2> SUFFICES ASSUME IncrementalInv, security = "unlocked"
                 PROVE  /\ trailer.encrypt = {}
                        /\ \A id \in DOMAIN layers : layers[id] = << >>
      BY DEF PlainInMemory
    <2>1. layers = [id \in DOMAIN newObjs |-> << >>]
      BY DEF IncrementalInv, UpdateInv
    <2> QED
      BY <2>1 DEF IncrementalInv, UpdateInv
  <1> QED
    BY <1>1, FilesStayGiven, PTL

\* A number that is taken, for an object or for the section of a save, is one that
\* nothing in the file or in the update has (Document::new_from_prev's max_id,
\* new_object_id, write_cross_reference_stream).
THEOREM TakenNumbersAreUnused ==
    ASSUME \A d \in InitialFiles : IsGiven(d)
    PROVE  Spec => NewIdsUnused
  <1> DEFINE Unused ==
                 maxId' = maxId + 1 /\ base' = base =>
                     /\ \A id \in DOMAIN newObjs \cup DOMAIN prevObjs : id[1] # maxId'
                     /\ maxId' \notin DOMAIN View(base).xref
  <1>1. IncrementalInv /\ [Next]_vars => [Unused]_vars
    <2> SUFFICES ASSUME IncrementalInv, Next, maxId' = maxId + 1, base' = base
                 PROVE  /\ \A id \in DOMAIN newObjs \cup DOMAIN prevObjs : id[1] # maxId'
                        /\ maxId' \notin DOMAIN View(base).xref
      OBVIOUS
    <2>1. base # << >>
      <3>1. CASE Open \/ OpenLocked \/ OpenThenDecrypt
        BY <3>1 DEF Open, OpenLocked, OpenThenDecrypt, Reading
      <3>2. CASE CloneObject \/ SetObject \/ AddObject \/ RemoveObject
        BY <3>2 DEF CloneObject, SetObject, AddObject, RemoveObject, Edit
      <3>3. CASE Save \/ SaveFails \/ SaveRefused
        BY <3>3 DEF Save, SaveFails, SaveRefused
      <3> QED
        BY <3>1, <3>2, <3>3 DEF Next
    <2>2. /\ NumbersInv /\ maxId \in Nat /\ IsSoundView(View(base))
          /\ IsObjectMap(newObjs) /\ IsObjectMap(prevObjs)
      BY <2>1, ViewIsSound DEF IncrementalInv, UpdateInv, PrevInv
    <2>3. \A id \in DOMAIN newObjs \cup DOMAIN prevObjs : id[1] \in Nat /\ id[1] <= maxId
      BY <2>2 DEF NumbersInv, IsObjectMap, Ids
    <2>4. \A n \in DOMAIN View(base).xref : n \in Nat /\ n <= maxId
      BY <2>2 DEF NumbersInv, IsSoundView, IsEntryMap
    <2> QED
      BY <2>2, <2>3, <2>4
  <1>2. NewIdsUnused <=> [][Unused]_vars
    BY DEF NewIdsUnused
  <1> QED
    BY <1>1, <1>2, FilesStayGiven, PTL DEF Spec

\* What is saved is what is read back, however often the update was saved, failed
\* to be saved and was reopened: the objects of all revisions before with those of
\* the new document in their place (IncrementalDocument::save_internal,
\* Reader::read).
THEOREM SavedUpdatesReload ==
    ASSUME \A d \in InitialFiles : IsGiven(d)
    PROVE  Spec => []UpdateReloads
  <1>1. Init => UpdateReloads
    BY DEF Init, UpdateReloads
  <1>2. IncrementalInv /\ UpdateReloads /\ [Next]_vars => UpdateReloads'
    <2> SUFFICES ASSUME IncrementalInv, UpdateReloads, [Next]_vars
                 PROVE  UpdateReloads'
      OBVIOUS
    <2>1. CASE Save
      BY <2>1, SavedReloads
    <2>2. CASE UNCHANGED vars
      <3>1. UNCHANGED <<answer, base, disk, newObjs>>
        BY <2>2 DEF vars, document
      <3> QED
        BY <3>1 DEF UpdateReloads
    <2>3. CASE Next /\ ~Save
      <3>1. answer' # "saved"
        BY <2>3 DEF Next, Open, OpenLocked, OpenThenDecrypt, CloneObject, SetObject,
                    AddObject, RemoveObject, Edit, SaveFails, SaveRefused
      <3> QED
        BY <3>1 DEF UpdateReloads
    <2> QED
      BY <2>1, <2>2, <2>3
  <1> QED
    BY <1>1, <1>2, FilesStayGiven, PTL DEF Spec

=============================================================================
