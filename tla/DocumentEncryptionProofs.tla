----------------------- MODULE DocumentEncryptionProofs -----------------------
(***************************************************************************)
(* Proofs about DocumentEncryption: for any encryption states, any objects *)
(* and any number of calls, nothing is encrypted twice, nothing is         *)
(* forgotten by a decryption, and a file is all ciphertext or none.        *)
(***************************************************************************)
EXTENDS DocumentEncryption, FiniteSetTheorems, SequenceTheorems, NaturalsInduction, WellFoundedInduction, TLAPS

-----------------------------------------------------------------------------
(***************************************************************************)
(* The inductive invariant.  It says of every object what the properties   *)
(* say of the caller's, and the same of the document and of the file: a    *)
(* save turns what holds of the one into what holds of the other, and a    *)
(* load turns it back.                                                     *)
(***************************************************************************)
IsContainer(obj) == obj.kind = "ObjStm"

IsObject(obj) ==
    /\ obj.kind \in Kinds
    /\ (obj.kind = "Value" => obj = Object("Value", obj.val) /\ obj.val \in Vals)
    /\ (IsContainer(obj) => \A m \in DOMAIN obj.members : m \in Nat /\ obj.members[m].val \in Vals)

\* The trailer names no dictionary, or one that is there.
WellFormed(objs, lay, ref) ==
    /\ DOMAIN objs \subseteq Nat /\ DOMAIN lay = DOMAIN objs
    /\ \A n \in DOMAIN objs : IsObject(objs[n])
    /\ \/ ref = {}
       \/ \E r \in DOMAIN objs : ref = {r} /\ objs[r].kind = "Encrypt" /\ objs[r].val \in States

\* No number is above max: no object's, and no member's of a container.
Bounded(objs, max) ==
    \A n \in DOMAIN objs :
        n <= max /\ (IsContainer(objs[n]) => \A m \in DOMAIN objs[n].members : m <= max)

\* All is plain, or all is encrypted once, with a key that fits.
Protected(objs, lay, ref, excepted) ==
    IF ref = {}
    THEN \A n \in DOMAIN objs \ excepted : lay[n] = Open
    ELSE \A n \in DOMAIN objs \ (ref \cup excepted) :
             /\ lay[n] = Sealed(StateOf(objs, ref), n, objs[n], Open)
             /\ ~Unfit(StateOf(objs, ref), objs[n])

\* What is packed was plain when it was packed.
MembersPlain(objs, excepted) ==
    \A c \in DOMAIN objs : IsContainer(objs[c]) =>
        \A m \in DOMAIN objs[c].members \ excepted : objs[c].members[m].layers = Open

DocumentInv ==
    /\ WellFormed(objects, layers, encryptRef)
    /\ maxId \in Nat /\ Bounded(objects, maxId)
    /\ \A n \in DOMAIN plain :
          n \in DOMAIN objects /\ objects[n] = plain[n] /\ plain[n].kind \in UserKinds
    /\ Protected(objects, layers, encryptRef, loose)
    /\ MembersPlain(objects, loose)

\* The caller's objects in the file: written as they are, or packed.
FileHolds(n, obj) ==
    \/ n \in DOMAIN file.objects /\ file.objects[n] = obj
    \/ /\ file.encryptRef = {} /\ n \notin DOMAIN file.objects
       /\ \E c \in DOMAIN file.objects :
             /\ IsContainer(file.objects[c]) /\ n \in DOMAIN file.objects[c].members
             /\ obj = Object("Value", file.objects[c].members[n].val)

FileInv ==
    /\ WellFormed(file.objects, file.layers, file.encryptRef)
    /\ \E max \in Nat : Bounded(file.objects, max)
    /\ \A c \in DOMAIN file.objects : IsContainer(file.objects[c]) =>
          /\ file.layers[c] = Open
          /\ \A d \in DOMAIN file.objects : IsContainer(file.objects[d]) => c = d
    /\ \A n \in DOMAIN fileView.plain :
          FileHolds(n, fileView.plain[n]) /\ fileView.plain[n].kind \in UserKinds
    /\ Protected(file.objects, file.layers, file.encryptRef, fileView.loose)
    /\ MembersPlain(file.objects, fileView.loose)

EncryptionInv == DocumentInv /\ FileInv

-----------------------------------------------------------------------------
(***************************************************************************)
(* Facts about the operators.                                              *)
(***************************************************************************)
\* What was put on last comes off again.
LEMMA PeelsAppended ==
    ASSUME NEW k
    PROVE  /\ Peeled(Append(<< >>, k), k) = << >>
           /\ SubSeq(Append(<< >>, k), 1, Len(Append(<< >>, k)) - 1) = << >>
  <1> DEFINE part == Append(<< >>, k)
  <1>1. part # << >> /\ Len(part) = 1 /\ part[1] = k
    <2>1. << >> \in Seq({k}) /\ Len(<< >>) = 0
      BY EmptySeq
    <2> QED
      BY <2>1, AppendProperties
  <1>2. SubSeq(part, 1, 0) = << >>
    BY SubSeqEmpty
  <1> HIDE DEF part
  <1>3. SubSeq(part, 1, Len(part) - 1) = << >>
    BY <1>1, <1>2
  <1>4. Peeled(part, k) = << >>
    BY <1>1, <1>3 DEF Peeled
  <1> QED
    BY <1>3, <1>4 DEF part

\* decrypt_object undoes encrypt_object, and notices nothing.
LEMMA UnsealsSealed ==
    ASSUME NEW s, NEW n, NEW obj
    PROVE  /\ Unsealed(s, n, obj, Sealed(s, n, obj, Open)) = Open
           /\ ~Noticed(s, n, obj, Sealed(s, n, obj, Open))
  <1> DEFINE k == <<s.key, n>>
             l == Sealed(s, n, obj, Open)
  <1>1. /\ l.strings = IF TouchesStrings(s, obj) THEN Append(<< >>, k) ELSE << >>
        /\ l.content = IF TouchesContent(s, obj) THEN Append(<< >>, k) ELSE << >>
    BY DEF Sealed, Open
  <1>2. /\ Peeled(Append(<< >>, k), k) = << >>
        /\ SubSeq(Append(<< >>, k), 1, Len(Append(<< >>, k)) - 1) = << >>
    BY PeelsAppended
  <1> HIDE DEF k, l
  <1>3. /\ TouchesStrings(s, obj) => /\ Peeled(l.strings, k) = << >>
                                     /\ SubSeq(l.strings, 1, Len(l.strings) - 1) = << >>
        /\ TouchesContent(s, obj) => /\ Peeled(l.content, k) = << >>
                                     /\ SubSeq(l.content, 1, Len(l.content) - 1) = << >>
    BY <1>1, <1>2
  <1>4. Unsealed(s, n, obj, l) = Open
    BY <1>1, <1>3 DEF Unsealed, Open, k
  <1>5. ~Noticed(s, n, obj, l)
    BY <1>3 DEF Noticed, k
  <1> QED
    BY <1>4, <1>5 DEF l

\* The dictionary the trailer names.
LEMMA NamedState ==
    ASSUME NEW objs, NEW lay, NEW ref, WellFormed(objs, lay, ref), ref # {}
    PROVE  \E r \in DOMAIN objs : /\ ref = {r} /\ objs[r].kind = "Encrypt"
                                  /\ StateOf(objs, ref) = objs[r].val
                                  /\ StateOf(objs, ref) \in States
  BY DEF WellFormed, StateOf

\* What is bounded has a highest number.
LEMMA HighestBounds ==
    ASSUME NEW S \in SUBSET Nat, S # {}, NEW b \in Nat, \A n \in S : n <= b
    PROVE  Highest(S) \in S /\ \A n \in S : n <= Highest(S)
  <1> DEFINE T == {b - n : n \in S}
             R == OpToRel(<, Nat)
  <1>1. T \subseteq Nat /\ T # {}
    <2>1. \A n \in S : b - n \in Nat
      OBVIOUS
    <2> QED
      BY <2>1
  <1>2. IsWellFoundedOn(R, Nat)
    BY NatLessThanWellFounded
  <1> HIDE DEF R, T
  <1>3. PICK x \in T : \A y \in T : ~ (<<y, x>> \in R)
    BY <1>1, <1>2, WFMin
  <1>4. \A y \in T : ~ (y < x)
    BY <1>1, <1>3 DEF R, OpToRel
  <1>5. PICK m \in S : x = b - m
    BY DEF T
  <1>6. \A n \in S : n <= m
    <2>1. \A n \in S : ~ (b - n < b - m)
      BY <1>4, <1>5 DEF T
    <2>2. m \in Nat /\ \A n \in S : n \in Nat
      OBVIOUS
    <2> QED
      BY <2>1, <2>2
  <1> QED
    BY <1>6 DEF Highest

\* What the containers offer: values, under numbers that are in a container.
LEMMA OfferedFacts ==
    ASSUME NEW objs, NEW lay, NEW ref, WellFormed(objs, lay, ref)
    PROVE  /\ DOMAIN Offered(objs, lay) \subseteq Nat
           /\ DOMAIN OfferedLayers(objs, lay) = DOMAIN Offered(objs, lay)
           /\ \A m \in DOMAIN Offered(objs, lay) :
                 /\ IsObject(Offered(objs, lay)[m]) /\ ~IsContainer(Offered(objs, lay)[m])
                 /\ \E c \in DOMAIN objs :
                       /\ IsContainer(objs[c]) /\ lay[c] = Open /\ m \in DOMAIN objs[c].members
                       /\ Offered(objs, lay)[m] = Object("Value", objs[c].members[m].val)
                       /\ OfferedLayers(objs, lay)[m] = objs[c].members[m].layers
           /\ \A c \in DOMAIN objs : IsContainer(objs[c]) /\ lay[c] = Open =>
                 DOMAIN objs[c].members \subseteq DOMAIN Offered(objs, lay)
  <1> DEFINE nums == Members(objs, lay)
             from(m) == SourceOf(objs, lay, m)
             offered == Offered(objs, lay)
             keys == OfferedLayers(objs, lay)
  <1>1. /\ DOMAIN offered = nums /\ DOMAIN keys = nums
        /\ \A m \in nums : /\ offered[m] = Object("Value", objs[from(m)].members[m].val)
                           /\ keys[m] = objs[from(m)].members[m].layers
    BY DEF Offered, OfferedLayers
  <1>2. \A m \in nums : from(m) \in DOMAIN objs /\ m \in DOMAIN MembersOf(objs, lay, from(m))
    BY DEF Members, SourceOf
  <1>3. \A n \in DOMAIN objs :
            /\ IsContainer(objs[n]) /\ lay[n] = Open => MembersOf(objs, lay, n) = objs[n].members
            /\ \A m \in DOMAIN MembersOf(objs, lay, n) :
                  IsContainer(objs[n]) /\ lay[n] = Open /\ m \in DOMAIN objs[n].members
    BY DEF MembersOf, NoMembers, IsContainer
  <1> HIDE DEF from
  <1>4. ASSUME NEW m \in nums
        PROVE  /\ IsContainer(objs[from(m)]) /\ lay[from(m)] = Open
               /\ m \in DOMAIN objs[from(m)].members /\ from(m) \in DOMAIN objs
               /\ m \in Nat /\ objs[from(m)].members[m].val \in Vals
    <2>1. from(m) \in DOMAIN objs /\ m \in DOMAIN MembersOf(objs, lay, from(m))
      BY <1>2
    <2>2. IsContainer(objs[from(m)]) /\ lay[from(m)] = Open /\ m \in DOMAIN objs[from(m)].members
      BY <2>1, <1>3
    <2> QED
      BY <2>1, <2>2 DEF WellFormed, IsObject
  <1>5. \A v \in Vals : IsObject(Object("Value", v)) /\ ~IsContainer(Object("Value", v))
    BY DEF IsObject, IsContainer, Object, Kinds
  <1>6. \A c \in DOMAIN objs : IsContainer(objs[c]) /\ lay[c] = Open =>
            DOMAIN objs[c].members \subseteq nums
    BY <1>3 DEF Members
  <1> HIDE DEF nums, offered, keys
  <1> QED
    BY <1>1, <1>4, <1>5, <1>6 DEF offered, keys

-----------------------------------------------------------------------------
(***************************************************************************)
(* One step each.                                                          *)
(***************************************************************************)
LEMMA FileKept == FileInv /\ UNCHANGED <<file, fileView>> => FileInv'
  BY DEF FileInv, FileHolds

\* A document is encrypted if its trailer says so.
LEMMA EncryptedByTrailer ==
    ASSUME DocumentInv
    PROVE  IsEncrypted <=> encryptRef # {}
  BY DEF DocumentInv, WellFormed, IsEncrypted

LEMMA InitEncrypts == Init => EncryptionInv
  <1> SUFFICES ASSUME Init PROVE EncryptionInv
    OBVIOUS
  <1>1. DOMAIN Empty = {}
    BY DEF Empty
  <1>2. DocumentInv
    BY <1>1 DEF Init, DocumentInv, WellFormed, Bounded, Protected, MembersPlain
  <1>3. FileInv
    <2>1. /\ file.objects = Empty /\ file.layers = Empty /\ file.encryptRef = {}
          /\ fileView.plain = Empty /\ fileView.loose = {}
      BY DEF Init
    <2>2. WellFormed(file.objects, file.layers, file.encryptRef)
      BY <1>1, <2>1 DEF WellFormed
    <2>3. Bounded(file.objects, 0)
      BY <1>1, <2>1 DEF Bounded
    <2>4. /\ Protected(file.objects, file.layers, file.encryptRef, fileView.loose)
          /\ MembersPlain(file.objects, fileView.loose)
      BY <1>1, <2>1 DEF Protected, MembersPlain
    <2> QED
      BY <1>1, <2>1, <2>2, <2>3, <2>4 DEF FileInv
  <1> QED
    BY <1>2, <1>3 DEF EncryptionInv

LEMMA AddEncrypts ==
    ASSUME EncryptionInv, NEW k \in UserKinds, NEW v \in Vals, AddObject(Object(k, v))
    PROVE  EncryptionInv'
  <1> DEFINE obj == Object(k, v)
             n == maxId + 1
  <1>1. DocumentInv /\ FileInv /\ WellFormed(objects, layers, encryptRef) /\ maxId \in Nat
    BY DEF EncryptionInv, DocumentInv
  <1>2. /\ maxId' = n
        /\ objects' = Put(objects, [x \in {n} |-> obj])
        /\ layers' = Put(layers, [x \in {n} |-> Open])
        /\ plain' = Put(plain, [x \in {n} |-> obj])
        /\ loose' = IF IsEncrypted THEN loose \cup {n} ELSE loose \ {n}
        /\ UNCHANGED <<encryptRef, state, file, fileView>>
    BY DEF AddObject
  <1>3. n \in Nat /\ n \notin DOMAIN objects
    BY <1>1 DEF DocumentInv, Bounded
  <1>4. /\ IsObject(obj) /\ ~IsContainer(obj) /\ obj.kind \in UserKinds
    BY DEF IsObject, IsContainer, Object, UserKinds, Kinds
  <1> HIDE DEF obj
  <1>5. /\ DOMAIN objects' = DOMAIN objects \cup {n} /\ DOMAIN layers' = DOMAIN layers \cup {n}
        /\ DOMAIN plain' = DOMAIN plain \cup {n}
        /\ \A x \in DOMAIN objects : objects'[x] = objects[x]
        /\ \A x \in DOMAIN layers \ {n} : layers'[x] = layers[x]
        /\ \A x \in DOMAIN plain \ {n} : plain'[x] = plain[x]
        /\ objects'[n] = obj /\ layers'[n] = Open /\ plain'[n] = obj
    BY <1>2, <1>3 DEF Put
  <1>6. WellFormed(objects', layers', encryptRef')
    BY <1>1, <1>2, <1>3, <1>4, <1>5 DEF WellFormed
  <1>7. Bounded(objects', maxId')
    <2>1. \A x \in DOMAIN objects : x \in Nat /\ x <= maxId
      BY <1>1 DEF DocumentInv, WellFormed, Bounded
    <2>2. \A x \in DOMAIN objects : IsContainer(objects[x]) =>
              \A m \in DOMAIN objects[x].members : m \in Nat /\ m <= maxId
      BY <1>1 DEF DocumentInv, WellFormed, Bounded, IsObject
    <2> QED
      BY <2>1, <2>2, <1>1, <1>2, <1>4, <1>5 DEF Bounded
  <1>8. \A x \in DOMAIN plain' :
            x \in DOMAIN objects' /\ objects'[x] = plain'[x] /\ plain'[x].kind \in UserKinds
    BY <1>1, <1>4, <1>5 DEF DocumentInv
  <1>9. Protected(objects', layers', encryptRef', loose')
    <2>1. Protected(objects, layers, encryptRef, loose)
      BY <1>1 DEF DocumentInv
    <2>2. CASE encryptRef = {}
      BY <2>1, <2>2, <1>1, <1>2, <1>3, <1>5 DEF Protected, WellFormed, IsEncrypted
    <2>3. CASE encryptRef # {}
      <3>1. loose' = loose \cup {n}
        BY <2>3, <1>1, <1>2, EncryptedByTrailer
      <3>2. StateOf(objects', encryptRef') = StateOf(objects, encryptRef)
        BY <2>3, <1>1, <1>2, <1>5, <1>6, NamedState
      <3> QED
        BY <2>1, <2>3, <3>1, <3>2, <1>1, <1>2, <1>5 DEF Protected, WellFormed
    <2> QED
      BY <2>2, <2>3
  <1>10. MembersPlain(objects', loose')
    <2>1. \A x \in DOMAIN objects : IsContainer(objects[x]) => n \notin DOMAIN objects[x].members
      BY <1>1 DEF DocumentInv, WellFormed, Bounded, IsObject
    <2>2. MembersPlain(objects, loose) /\ loose \ {n} \subseteq loose'
      BY <1>1, <1>2 DEF DocumentInv
    <2> QED
      BY <2>1, <2>2, <1>4, <1>5 DEF MembersPlain
  <1>11. DocumentInv'
    BY <1>1, <1>2, <1>3, <1>6, <1>7, <1>8, <1>9, <1>10 DEF DocumentInv
  <1> QED
    BY <1>1, <1>2, <1>11, FileKept DEF EncryptionInv

LEMMA RemoveEncrypts ==
    ASSUME EncryptionInv, NEW n \in DOMAIN plain, RemoveObject(n)
    PROVE  EncryptionInv'
  <1>1. DocumentInv /\ FileInv /\ WellFormed(objects, layers, encryptRef)
    BY DEF EncryptionInv, DocumentInv
  <1>2. /\ objects' = Restricted(objects, DOMAIN objects \ {n})
        /\ layers' = Restricted(layers, DOMAIN layers \ {n})
        /\ plain' = Restricted(plain, DOMAIN plain \ {n})
        /\ UNCHANGED <<encryptRef, state, maxId, file, loose, fileView>>
    BY DEF RemoveObject
  <1>3. /\ DOMAIN objects' = DOMAIN objects \ {n} /\ DOMAIN layers' = DOMAIN layers \ {n}
        /\ DOMAIN plain' = DOMAIN plain \ {n}
        /\ \A x \in DOMAIN objects' : objects'[x] = objects[x]
        /\ \A x \in DOMAIN layers' : layers'[x] = layers[x]
        /\ \A x \in DOMAIN plain' : plain'[x] = plain[x]
    BY <1>2 DEF Restricted
  <1>4. n \notin encryptRef
    BY <1>1 DEF DocumentInv, WellFormed, UserKinds
  <1>5. WellFormed(objects', layers', encryptRef')
    BY <1>1, <1>2, <1>3, <1>4 DEF WellFormed
  <1>6. Bounded(objects', maxId')
    BY <1>1, <1>2, <1>3 DEF DocumentInv, Bounded
  <1>7. \A x \in DOMAIN plain' :
            x \in DOMAIN objects' /\ objects'[x] = plain'[x] /\ plain'[x].kind \in UserKinds
    BY <1>1, <1>3 DEF DocumentInv
  <1>8. Protected(objects', layers', encryptRef', loose')
    <2>1. Protected(objects, layers, encryptRef, loose)
      BY <1>1 DEF DocumentInv
    <2>2. ASSUME encryptRef # {}
          PROVE  StateOf(objects', encryptRef') = StateOf(objects, encryptRef)
      <3>1. PICK r \in DOMAIN objects : encryptRef = {r}
        BY <2>2, <1>1 DEF WellFormed
      <3>2. objects'[r] = objects[r]
        BY <3>1, <1>3, <1>4
      <3> QED
        BY <3>1, <3>2, <1>2 DEF StateOf
    <2> QED
      BY <2>1, <2>2, <1>1, <1>2, <1>3 DEF Protected, WellFormed
  <1>9. MembersPlain(objects', loose')
    BY <1>1, <1>2, <1>3 DEF DocumentInv, MembersPlain
  <1>10. DocumentInv'
    BY <1>1, <1>2, <1>5, <1>6, <1>7, <1>8, <1>9 DEF DocumentInv
  <1> QED
    BY <1>1, <1>2, <1>10, FileKept DEF EncryptionInv

LEMMA EncryptEncrypts ==
    ASSUME EncryptionInv, NEW s \in States, Encrypt(s)
    PROVE  EncryptionInv'
  <1> DEFINE d == maxId + 1
  <1>1. DocumentInv /\ FileInv /\ WellFormed(objects, layers, encryptRef) /\ maxId \in Nat
    BY DEF EncryptionInv, DocumentInv
  <1>2. /\ maxId' = d /\ encryptRef' = {d}
        /\ objects' = Put(objects, [n \in {d} |-> Dictionary(s)])
        /\ layers' = [n \in DOMAIN objects \cup {d} |->
                         IF n = d THEN Open ELSE Sealed(s, n, objects[n], layers[n])]
        /\ UNCHANGED <<file, plain, loose, fileView>>
        /\ \A n \in DOMAIN objects : ~Unfit(s, objects[n])
    BY DEF Encrypt, history, Refused
  <1>3. d \in Nat /\ d \notin DOMAIN objects
    BY <1>1 DEF DocumentInv, Bounded
  <1>4. encryptRef = {}
    BY <1>1, EncryptedByTrailer DEF Encrypt, MayEncrypt
  <1> DEFINE dict == Dictionary(s)
  <1>5. dict.kind = "Encrypt" /\ dict.val = s /\ IsObject(dict) /\ ~IsContainer(dict)
    BY DEF Dictionary, Object, IsObject, IsContainer, Kinds
  <1> HIDE DEF dict
  <1>6. /\ DOMAIN objects' = DOMAIN objects \cup {d} /\ DOMAIN layers' = DOMAIN objects \cup {d}
        /\ \A n \in DOMAIN objects : objects'[n] = objects[n]
        /\ \A n \in DOMAIN objects : layers'[n] = Sealed(s, n, objects[n], layers[n])
        /\ objects'[d] = dict
    BY <1>2, <1>3 DEF Put, dict
  <1>7. WellFormed(objects', layers', encryptRef')
    BY <1>1, <1>2, <1>3, <1>5, <1>6 DEF WellFormed
  <1>8. Bounded(objects', maxId')
    <2>1. \A x \in DOMAIN objects : x \in Nat /\ x <= maxId
      BY <1>1 DEF DocumentInv, WellFormed, Bounded
    <2>2. \A x \in DOMAIN objects : IsContainer(objects[x]) =>
              \A m \in DOMAIN objects[x].members : m \in Nat /\ m <= maxId
      BY <1>1 DEF DocumentInv, WellFormed, Bounded, IsObject
    <2> QED
      BY <2>1, <2>2, <1>1, <1>2, <1>5, <1>6 DEF Bounded
  <1>9. \A x \in DOMAIN plain' :
            x \in DOMAIN objects' /\ objects'[x] = plain'[x] /\ plain'[x].kind \in UserKinds
    BY <1>1, <1>2, <1>6 DEF DocumentInv
  <1>10. Protected(objects', layers', encryptRef', loose')
    <2>1. \A n \in DOMAIN objects \ loose : layers[n] = Open
      BY <1>1, <1>4 DEF DocumentInv, Protected
    <2>2. StateOf(objects', encryptRef') = s
      BY <1>2, <1>5, <1>6, <1>7, NamedState
    <2> QED
      BY <2>1, <2>2, <1>2, <1>6 DEF Protected
  <1>11. MembersPlain(objects', loose')
    BY <1>1, <1>2, <1>5, <1>6 DEF DocumentInv, MembersPlain
  <1>12. DocumentInv'
    BY <1>1, <1>2, <1>3, <1>7, <1>8, <1>9, <1>10, <1>11 DEF DocumentInv
  <1> QED
    BY <1>1, <1>2, <1>12, FileKept DEF EncryptionInv

LEMMA EncryptFailsEncrypts ==
    ASSUME EncryptionInv, NEW s \in States, EncryptFails(s)
    PROVE  EncryptionInv'
  <1>1. DocumentInv /\ FileInv /\ WellFormed(objects, layers, encryptRef)
    BY DEF EncryptionInv, DocumentInv
  <1>2. UNCHANGED <<objects, encryptRef, maxId, file, plain, fileView>>
    BY DEF EncryptFails
  <1>3. /\ DOMAIN layers' = DOMAIN layers /\ loose \subseteq loose'
        /\ \A n \in DOMAIN objects \ loose' : layers'[n] = layers[n]
    BY <1>1 DEF EncryptFails, WellFormed
  <1>4. encryptRef = {}
    BY <1>1, EncryptedByTrailer DEF EncryptFails, MayEncrypt
  <1>5. WellFormed(objects', layers', encryptRef')
    BY <1>1, <1>2, <1>3 DEF WellFormed
  <1>6. Protected(objects', layers', encryptRef', loose')
    BY <1>1, <1>2, <1>3, <1>4 DEF DocumentInv, Protected
  <1>7. MembersPlain(objects', loose')
    BY <1>1, <1>2, <1>3 DEF DocumentInv, MembersPlain
  <1>8. DocumentInv'
    BY <1>1, <1>2, <1>5, <1>6, <1>7 DEF DocumentInv
  <1> QED
    BY <1>1, <1>2, <1>8, FileKept DEF EncryptionInv

LEMMA DecryptEncrypts ==
    ASSUME EncryptionInv, Decrypt
    PROVE  EncryptionInv'
  <1> DEFINE s == StateOf(objects, encryptRef)
             ids == Decryptable(objects, encryptRef)
             after == [n \in DOMAIN layers |->
                          IF n \in ids THEN Unsealed(s, n, objects[n], layers[n]) ELSE layers[n]]
             members == Offered(objects, after)
             keys == OfferedLayers(objects, after)
             all == Put(members, objects)
  <1>1. DocumentInv /\ FileInv /\ WellFormed(objects, layers, encryptRef) /\ maxId \in Nat
    BY DEF EncryptionInv, DocumentInv
  <1>2. encryptRef # {} /\ ids = DOMAIN objects \ encryptRef
    BY <1>1, EncryptedByTrailer DEF Decrypt, Decryptable
  <1>3. /\ objects' = Restricted(all, DOMAIN all \ encryptRef)
        /\ layers' = Restricted(Put(keys, after), DOMAIN all \ encryptRef)
        /\ encryptRef' = {}
        /\ UNCHANGED <<maxId, file, plain, loose, fileView>>
    BY DEF Decrypt, history
  <1>4. /\ DOMAIN after = DOMAIN objects
        /\ \A n \in ids : after[n] = Unsealed(s, n, objects[n], layers[n])
    BY <1>1, <1>2 DEF WellFormed
  <1> HIDE DEF s, ids, after
  <1>5. WellFormed(objects, after, encryptRef)
    BY <1>1, <1>4 DEF WellFormed
  <1>6. /\ DOMAIN members \subseteq Nat /\ DOMAIN keys = DOMAIN members
        /\ \A m \in DOMAIN members :
              /\ IsObject(members[m]) /\ ~IsContainer(members[m])
              /\ \E c \in DOMAIN objects : /\ IsContainer(objects[c])
                                           /\ m \in DOMAIN objects[c].members
                                           /\ keys[m] = objects[c].members[m].layers
    BY <1>5, OfferedFacts
  <1> HIDE DEF members, keys
  <1>7. /\ DOMAIN all = DOMAIN members \cup DOMAIN objects
        /\ \A n \in DOMAIN objects : all[n] = objects[n]
        /\ \A n \in DOMAIN members \ DOMAIN objects : all[n] = members[n]
    BY DEF Put
  <1> HIDE DEF all
  <1>8. /\ DOMAIN objects' = DOMAIN all \ encryptRef /\ DOMAIN layers' = DOMAIN all \ encryptRef
        /\ \A n \in DOMAIN objects' : objects'[n] = all[n]
        /\ \A n \in DOMAIN objects' : layers'[n] = IF n \in DOMAIN after THEN after[n] ELSE keys[n]
    <2>1. /\ DOMAIN Put(keys, after) = DOMAIN all
          /\ \A n \in DOMAIN all : Put(keys, after)[n] = IF n \in DOMAIN after THEN after[n] ELSE keys[n]
      BY <1>4, <1>6, <1>7 DEF Put
    <2> QED
      BY <2>1, <1>3 DEF Restricted
  <1>9. WellFormed(objects', layers', encryptRef')
    BY <1>1, <1>3, <1>6, <1>7, <1>8 DEF WellFormed
  <1>10. Bounded(objects', maxId')
    <2>1. Bounded(objects, maxId)
      BY <1>1 DEF DocumentInv
    <2>2. \A m \in DOMAIN members : m <= maxId /\ ~IsContainer(members[m])
      BY <1>6, <2>1 DEF Bounded
    <2> QED
      BY <2>1, <2>2, <1>3, <1>7, <1>8 DEF Bounded
  <1>11. \A n \in DOMAIN plain' :
            n \in DOMAIN objects' /\ objects'[n] = plain'[n] /\ plain'[n].kind \in UserKinds
    <2>1. \A n \in DOMAIN plain : n \notin encryptRef
      BY <1>1 DEF DocumentInv, WellFormed, UserKinds
    <2> QED
      BY <2>1, <1>1, <1>3, <1>7, <1>8 DEF DocumentInv
  <1>12. Protected(objects', layers', encryptRef', loose')
    <2>1. \A n \in DOMAIN objects \ (encryptRef \cup loose) :
              layers[n] = Sealed(s, n, objects[n], Open)
      BY <1>1, <1>2 DEF DocumentInv, Protected, s
    <2>2. \A n \in DOMAIN objects \ (encryptRef \cup loose) : after[n] = Open
      BY <2>1, <1>2, <1>4, UnsealsSealed
    <2>3. \A m \in DOMAIN members \ loose : keys[m] = Open
      BY <1>1, <1>6 DEF DocumentInv, MembersPlain
    <2> QED
      BY <2>2, <2>3, <1>3, <1>4, <1>7, <1>8 DEF Protected
  <1>13. MembersPlain(objects', loose')
    <2>1. \A n \in DOMAIN objects' : IsContainer(objects'[n]) =>
              n \in DOMAIN objects /\ objects'[n] = objects[n]
      BY <1>6, <1>7, <1>8
    <2>2. MembersPlain(objects, loose) /\ loose' = loose
      BY <1>1, <1>3 DEF DocumentInv
    <2> QED
      BY <2>1, <2>2 DEF MembersPlain
  <1>14. DocumentInv'
    BY <1>1, <1>3, <1>9, <1>10, <1>11, <1>12, <1>13 DEF DocumentInv
  <1> QED
    BY <1>1, <1>3, <1>14, FileKept DEF EncryptionInv

LEMMA DecryptFailsEncrypts ==
    ASSUME EncryptionInv, DecryptFails
    PROVE  EncryptionInv'
  <1>1. DocumentInv /\ FileInv /\ WellFormed(objects, layers, encryptRef)
    BY DEF EncryptionInv, DocumentInv
  <1>2. UNCHANGED <<objects, encryptRef, maxId, file, plain, fileView>>
    BY DEF DecryptFails
  <1>3. /\ DOMAIN layers' = DOMAIN layers /\ loose \subseteq loose'
        /\ \A n \in DOMAIN objects \ loose' : layers'[n] = layers[n]
    BY <1>1 DEF DecryptFails, WellFormed
  <1>4. WellFormed(objects', layers', encryptRef')
    BY <1>1, <1>2, <1>3 DEF WellFormed
  <1>5. Protected(objects', layers', encryptRef', loose')
    <2>1. Protected(objects, layers, encryptRef, loose)
      BY <1>1 DEF DocumentInv
    <2>2. Protected(objects, layers', encryptRef, loose')
      BY <2>1, <1>3 DEF Protected
    <2> QED
      BY <2>2, <1>2
  <1>6. MembersPlain(objects', loose')
    BY <1>1, <1>2, <1>3 DEF DocumentInv, MembersPlain
  <1>7. DocumentInv'
    BY <1>1, <1>2, <1>4, <1>5, <1>6 DEF DocumentInv
  <1> QED
    BY <1>1, <1>2, <1>7, FileKept DEF EncryptionInv

\* What the writer adds: a container of what is packed, if anything is, and a
\* cross-reference stream.
LEMMA OwnObjects ==
    ASSUME NEW packed, NEW c, NEW x, NEW useXref \in BOOLEAN, NEW own,
           own = (IF packed = {} THEN << >> ELSE <<c>>) \o (IF useXref THEN <<x>> ELSE << >>)
    PROVE  /\ Len(own) \in Nat /\ DOMAIN own = 1 .. Len(own)
           /\ \A i \in DOMAIN own : own[i] = x \/ (i = 1 /\ packed # {} /\ own[i] = c)
           /\ packed # {} => 1 \in DOMAIN own /\ own[1] = c
  <1>1. CASE packed = {} /\ useXref
    <2>1. own = <<x>>
      BY <1>1
    <2> QED
      BY <2>1, <1>1
  <1>2. CASE packed = {} /\ ~useXref
    <2>1. own = << >>
      BY <1>2
    <2> QED
      BY <2>1, <1>2
  <1>3. CASE packed # {} /\ useXref
    <2>1. own = <<c>> \o <<x>>
      BY <1>3
    <2>2. <<c>> \in Seq({c, x}) /\ <<x>> \in Seq({c, x}) /\ Len(<<c>>) = 1 /\ Len(<<x>>) = 1
      OBVIOUS
    <2>3. /\ own \in Seq({c, x}) /\ Len(own) = 1 + 1
          /\ \A i \in 1 .. 1 + 1 : own[i] = IF i <= 1 THEN <<c>>[i] ELSE <<x>>[i - 1]
      BY <2>1, <2>2, ConcatProperties
    <2>4. DOMAIN own = 1 .. 2 /\ own[1] = c /\ own[2] = x /\ Len(own) = 2
      <3>1. DOMAIN own = 1 .. Len(own)
        BY <2>3, LenProperties
      <3> QED
        BY <2>3, <3>1
    <2> QED
      BY <2>4, <1>3
  <1>4. CASE packed # {} /\ ~useXref
    <2>1. own = <<c>>
      BY <1>4
    <2> QED
      BY <2>1, <1>4
  <1> QED
    BY <1>1, <1>2, <1>3, <1>4

LEMMA SaveEncrypts ==
    ASSUME EncryptionInv, NEW uo \in BOOLEAN, NEW ux \in BOOLEAN, Save(uo, ux)
    PROVE  EncryptionInv'
  <1> DEFINE packed == IF Packs(uo) THEN Packable ELSE {}
             direct == DOMAIN objects \ (Skipped(Packs(uo)) \cup packed)
             c == Container([n \in packed |-> [val |-> objects[n].val, layers |-> layers[n]]])
             own == (IF packed = {} THEN << >> ELSE <<c>>)
                    \o (IF ux THEN <<XRefStream>> ELSE << >>)
             new == [n \in {maxId + i : i \in DOMAIN own} |-> own[n - maxId]]
  <1>1. DocumentInv /\ FileInv /\ WellFormed(objects, layers, encryptRef) /\ maxId \in Nat
    BY DEF EncryptionInv, DocumentInv
  <1>2. /\ file' = [objects |-> Put(Restricted(objects, direct), new),
                    layers |-> Put(Restricted(layers, direct), [n \in DOMAIN new |-> Open]),
                    encryptRef |-> encryptRef]
        /\ maxId' = maxId + Len(own)
        /\ fileView' = [plain |-> plain, loose |-> loose]
        /\ UNCHANGED <<objects, layers, encryptRef, state, plain, loose>>
    BY DEF Save, history
  <1>3. /\ Len(own) \in Nat /\ DOMAIN own = 1 .. Len(own)
        /\ \A i \in DOMAIN own : own[i] = XRefStream \/ (i = 1 /\ packed # {} /\ own[i] = c)
        /\ packed # {} => 1 \in DOMAIN own /\ own[1] = c
    <2> HIDE DEF packed, c
    <2> QED
      BY OwnObjects
  <1> HIDE DEF own
  <1>4. /\ \A n \in DOMAIN new :
              /\ n \in Nat /\ n > maxId /\ n <= maxId + Len(own)
              /\ new[n] = XRefStream \/ (n = maxId + 1 /\ packed # {} /\ new[n] = c)
        /\ packed # {} => maxId + 1 \in DOMAIN new /\ new[maxId + 1] = c
    <2> HIDE DEF packed, c
    <2>1. ASSUME NEW n \in DOMAIN new
          PROVE  /\ n \in Nat /\ n > maxId /\ n <= maxId + Len(own)
                 /\ new[n] = XRefStream \/ (n = maxId + 1 /\ packed # {} /\ new[n] = c)
      <3>1. PICK i \in 1 .. Len(own) : n = maxId + i
        BY <1>3
      <3>2. n - maxId = i /\ i \in DOMAIN own /\ new[n] = own[n - maxId]
        BY <1>1, <1>3, <3>1
      <3> QED
        BY <1>1, <1>3, <3>1, <3>2
    <2>2. packed # {} => maxId + 1 \in DOMAIN new /\ new[maxId + 1] = c
      <3>1. (maxId + 1) - maxId = 1
        BY <1>1
      <3> QED
        BY <1>3, <3>1
    <2> QED
      BY <2>1, <2>2
  <1> HIDE DEF new
  <1>5. /\ packed \subseteq DOMAIN objects
        /\ \A n \in packed : objects[n].kind = "Value" /\ encryptRef = {}
    BY <1>1, EncryptedByTrailer DEF Packs, Packable
  <1>6. /\ c.kind = "ObjStm" /\ DOMAIN c.members = packed
        /\ \A n \in packed : c.members[n].val = objects[n].val /\ c.members[n].layers = layers[n]
    BY DEF Container
  <1>7. XRefStream.kind = "XRef"
    BY DEF XRefStream, Object
  <1>8. /\ direct \subseteq DOMAIN objects
        /\ \A n \in direct : objects[n].kind # "ObjStm"
        /\ \A n \in DOMAIN objects : objects[n].kind \in UserKinds \cup {"Encrypt"} =>
              n \in direct \cup packed
        /\ direct \cap packed = {}
    BY DEF Skipped, UserKinds
  <1> HIDE DEF packed, direct, c
  <1>9. \A n \in DOMAIN objects : n \in Nat /\ n <= maxId /\ n \notin DOMAIN new
    <2>1. \A n \in DOMAIN objects : n \in Nat /\ n <= maxId
      BY <1>1 DEF DocumentInv, WellFormed, Bounded
    <2>2. \A n \in DOMAIN new : n \in Nat /\ ~(n <= maxId)
      BY <1>1, <1>4
    <2> QED
      BY <2>1, <2>2
  <1>10. /\ DOMAIN file'.objects = direct \cup DOMAIN new
         /\ DOMAIN file'.layers = direct \cup DOMAIN new
         /\ \A n \in direct : file'.objects[n] = objects[n] /\ file'.layers[n] = layers[n]
         /\ \A n \in DOMAIN new : file'.objects[n] = new[n] /\ file'.layers[n] = Open
         /\ file'.encryptRef = encryptRef
    <2>1. DOMAIN Restricted(objects, direct) = direct /\ DOMAIN Restricted(layers, direct) = direct
      BY <1>1, <1>8 DEF Restricted, WellFormed
    <2>2. \A n \in direct : /\ Restricted(objects, direct)[n] = objects[n]
                             /\ Restricted(layers, direct)[n] = layers[n]
                             /\ n \notin DOMAIN new
      BY <1>1, <1>8, <1>9 DEF Restricted, WellFormed
    <2> QED
      BY <1>2, <2>1, <2>2 DEF Put
  <1>11. \A n \in DOMAIN new : IsContainer(new[n]) => n = maxId + 1 /\ packed # {} /\ new[n] = c
    BY <1>4, <1>7 DEF IsContainer
  <1>12. WellFormed(file'.objects, file'.layers, file'.encryptRef)
    <2>1. IsObject(XRefStream) /\ ~IsContainer(XRefStream)
      BY DEF IsObject, IsContainer, XRefStream, Object, Kinds
    <2>2. IsObject(c)
      <3>1. \A m \in packed : m \in Nat /\ objects[m].val \in Vals
        BY <1>1, <1>5 DEF WellFormed, IsObject
      <3> QED
        BY <3>1, <1>6 DEF IsObject, Kinds
    <2>3. \A n \in DOMAIN file'.objects : n \in Nat /\ IsObject(file'.objects[n])
      BY <2>1, <2>2, <1>1, <1>4, <1>8, <1>10 DEF WellFormed
    <2>4. \A r \in encryptRef : r \in direct
      BY <1>1, <1>5, <1>8 DEF WellFormed
    <2>5. \/ file'.encryptRef = {}
          \/ \E r \in DOMAIN file'.objects : /\ file'.encryptRef = {r}
                                            /\ file'.objects[r].kind = "Encrypt"
                                            /\ file'.objects[r].val \in States
      BY <2>4, <1>1, <1>10 DEF WellFormed
    <2> QED
      BY <2>3, <2>5, <1>10 DEF WellFormed
  <1>13. maxId + Len(own) \in Nat /\ Bounded(file'.objects, maxId + Len(own))
    <2>1. \A n \in direct : n <= maxId + Len(own) /\ ~IsContainer(objects[n])
      BY <1>1, <1>3, <1>8, <1>9 DEF IsContainer
    <2>2. \A m \in DOMAIN c.members : m <= maxId + Len(own)
      BY <1>1, <1>3, <1>5, <1>6, <1>9
    <2>3. \A n \in DOMAIN new :
              /\ n <= maxId + Len(own)
              /\ IsContainer(new[n]) => \A m \in DOMAIN new[n].members : m <= maxId + Len(own)
      BY <2>2, <1>4, <1>11
    <2> QED
      BY <2>1, <2>3, <1>1, <1>3, <1>10 DEF Bounded
  <1>14. \A d \in DOMAIN file'.objects : IsContainer(file'.objects[d]) =>
             file'.layers[d] = Open /\ d = maxId + 1
    BY <1>8, <1>10, <1>11 DEF IsContainer
  <1>15. ASSUME NEW n \in DOMAIN plain
         PROVE  FileHolds(n, plain[n])' /\ plain[n].kind \in UserKinds
    <2>1. n \in DOMAIN objects /\ objects[n] = plain[n] /\ plain[n].kind \in UserKinds
      BY <1>1 DEF DocumentInv
    <2>2. CASE n \in direct
      BY <2>1, <2>2, <1>2, <1>10 DEF FileHolds
    <2>3. CASE n \in packed
      <3>1. encryptRef = {} /\ n \notin DOMAIN file'.objects
        BY <2>1, <2>3, <1>5, <1>8, <1>9, <1>10
      <3>2. /\ maxId + 1 \in DOMAIN file'.objects /\ file'.objects[maxId + 1] = c
            /\ IsContainer(c) /\ n \in DOMAIN c.members
        BY <2>3, <1>4, <1>6, <1>10 DEF IsContainer
      <3>3. plain[n] = Object("Value", c.members[n].val)
        BY <2>1, <2>3, <1>1, <1>5, <1>6 DEF WellFormed, IsObject
      <3> QED
        BY <2>1, <3>1, <3>2, <3>3, <1>2, <1>10 DEF FileHolds
    <2> QED
      BY <2>1, <2>2, <2>3, <1>8
  <1>16. Protected(file'.objects, file'.layers, file'.encryptRef, loose)
    <2>1. Protected(objects, layers, encryptRef, loose)
      BY <1>1 DEF DocumentInv
    <2>2. CASE encryptRef = {}
      BY <2>1, <2>2, <1>8, <1>10 DEF Protected
    <2>3. CASE encryptRef # {}
      <3> DEFINE s == StateOf(objects, encryptRef)
      <3>1. StateOf(file'.objects, file'.encryptRef) = s
        <4>1. PICK r \in DOMAIN objects :
                  encryptRef = {r} /\ s = objects[r].val /\ objects[r].kind = "Encrypt"
          BY <2>3, <1>1, NamedState
        <4>2. r \in direct
          BY <4>1, <1>5, <1>8
        <4>3. file'.encryptRef = {r} /\ file'.objects[r] = objects[r]
          BY <4>1, <4>2, <1>10
        <4> QED
          BY <4>1, <4>3 DEF StateOf
      <3>2. \A n \in DOMAIN new : new[n] = XRefStream
        BY <2>3, <1>4, <1>5
      <3>3. (\A n : Sealed(s, n, XRefStream, Open) = Open) /\ ~Unfit(s, XRefStream)
        BY <1>7 DEF Sealed, Unfit, TouchesStrings, TouchesContent, Open
      <3> HIDE DEF s
      <3>4. \A n \in direct \ (encryptRef \cup loose) :
                layers[n] = Sealed(s, n, objects[n], Open) /\ ~Unfit(s, objects[n])
        BY <2>1, <2>3, <1>8 DEF Protected, s
      <3> QED
        BY <2>3, <3>1, <3>2, <3>3, <3>4, <1>10 DEF Protected
    <2> QED
      BY <2>2, <2>3
  <1>17. MembersPlain(file'.objects, loose)
    <2>1. \A n \in packed \ loose : layers[n] = Open
      BY <1>1, <1>5 DEF DocumentInv, Protected
    <2>2. \A n \in direct : ~IsContainer(objects[n])
      BY <1>8 DEF IsContainer
    <2> QED
      BY <2>1, <2>2, <1>6, <1>10, <1>11 DEF MembersPlain
  <1>18. FileInv'
    <2>1. \E max \in Nat : Bounded(file'.objects, max)
      BY <1>13
    <2>2. fileView'.plain = plain /\ fileView'.loose = loose
      BY <1>2
    <2>3. \A n \in DOMAIN plain : FileHolds(n, plain[n])' /\ plain[n].kind \in UserKinds
      BY <1>15
    <2>4. plain' = plain
      BY <1>2
    <2>5. \A n \in DOMAIN fileView'.plain :
              FileHolds(n, fileView.plain[n])' /\ fileView'.plain[n].kind \in UserKinds
      BY <2>2, <2>3, <2>4 DEF FileHolds
    <2> QED
      BY <2>1, <2>2, <2>5, <1>12, <1>14, <1>16, <1>17 DEF FileInv
  <1>19. DocumentInv'
    <2>1. maxId' \in Nat
      BY <1>1, <1>2, <1>3
    <2>2. Bounded(objects', maxId')
      <3>1. \A n \in DOMAIN objects : n \in Nat /\ n <= maxId
        BY <1>9
      <3>2. \A n \in DOMAIN objects : IsContainer(objects[n]) =>
                \A m \in DOMAIN objects[n].members : m \in Nat /\ m <= maxId
        BY <1>1 DEF DocumentInv, WellFormed, Bounded, IsObject
      <3> QED
        BY <3>1, <3>2, <1>1, <1>2, <1>3 DEF Bounded
    <2>3. WellFormed(objects', layers', encryptRef')
      BY <1>1, <1>2
    <2>4. Protected(objects', layers', encryptRef', loose') /\ MembersPlain(objects', loose')
      BY <1>1, <1>2 DEF DocumentInv
    <2> QED
      BY <2>1, <2>2, <2>3, <2>4, <1>1, <1>2 DEF DocumentInv
  <1> QED
    BY <1>18, <1>19 DEF EncryptionInv

\* max_id after a load is above what is in the file, packed or not.
LEMMA LoadedMaxIdBounds ==
    ASSUME FileInv
    PROVE  /\ LoadedMaxId \in Nat /\ Bounded(file.objects, LoadedMaxId)
           /\ \A m \in DOMAIN Offered(file.objects, file.layers) : m <= LoadedMaxId
  <1> DEFINE nums == DOMAIN Offered(file.objects, file.layers)
             S == {0} \cup DOMAIN file.objects \cup nums
  <1>1. WellFormed(file.objects, file.layers, file.encryptRef)
    BY DEF FileInv
  <1>2. PICK b \in Nat : Bounded(file.objects, b)
    BY DEF FileInv
  <1>3. /\ nums \subseteq Nat
        /\ \A m \in nums : \E c \in DOMAIN file.objects :
              IsContainer(file.objects[c]) /\ m \in DOMAIN file.objects[c].members
        /\ \A c \in DOMAIN file.objects : IsContainer(file.objects[c]) =>
              DOMAIN file.objects[c].members \subseteq nums
    BY <1>1, OfferedFacts DEF FileInv
  <1> HIDE DEF nums
  <1>4. S \in SUBSET Nat /\ S # {}
    <2>1. DOMAIN file.objects \subseteq Nat
      BY <1>1 DEF WellFormed
    <2>2. nums \subseteq Nat
      BY <1>3
    <2>3. 0 \in Nat
      OBVIOUS
    <2> QED
      BY <2>1, <2>2, <2>3, Zenon
  <1>5. \A n \in S : n <= b
    BY <1>2, <1>3 DEF Bounded
  <1>6. LoadedMaxId \in S /\ \A n \in S : n <= LoadedMaxId
    BY <1>4, <1>5, HighestBounds DEF LoadedMaxId, nums
  <1>7. Bounded(file.objects, LoadedMaxId)
    BY <1>3, <1>6 DEF Bounded
  <1> QED
    BY <1>4, <1>6, <1>7 DEF nums

LEMMA LoadPlainEncrypts ==
    ASSUME EncryptionInv, LoadPlain
    PROVE  EncryptionInv'
  <1> DEFINE members == Offered(file.objects, file.layers)
             keys == OfferedLayers(file.objects, file.layers)
  <1>1. FileInv /\ WellFormed(file.objects, file.layers, file.encryptRef) /\ file.encryptRef = {}
    BY DEF EncryptionInv, FileInv, LoadPlain
  <1>2. /\ objects' = Put(members, file.objects)
        /\ layers' = Put(keys, file.layers)
        /\ encryptRef' = {} /\ maxId' = LoadedMaxId
        /\ plain' = fileView.plain /\ loose' = fileView.loose
        /\ UNCHANGED <<file, fileView>>
    BY DEF LoadPlain
  <1>3. /\ DOMAIN members \subseteq Nat /\ DOMAIN keys = DOMAIN members
        /\ \A m \in DOMAIN members :
              /\ IsObject(members[m]) /\ ~IsContainer(members[m])
              /\ \E c \in DOMAIN file.objects :
                    /\ IsContainer(file.objects[c]) /\ m \in DOMAIN file.objects[c].members
                    /\ members[m] = Object("Value", file.objects[c].members[m].val)
                    /\ keys[m] = file.objects[c].members[m].layers
        /\ \A c \in DOMAIN file.objects : IsContainer(file.objects[c]) =>
              DOMAIN file.objects[c].members \subseteq DOMAIN members
    BY <1>1, OfferedFacts DEF FileInv
  <1>4. /\ LoadedMaxId \in Nat /\ Bounded(file.objects, LoadedMaxId)
        /\ \A m \in DOMAIN members : m <= LoadedMaxId
    BY <1>1, LoadedMaxIdBounds
  <1> HIDE DEF members, keys
  <1>5. /\ DOMAIN objects' = DOMAIN members \cup DOMAIN file.objects
        /\ DOMAIN layers' = DOMAIN members \cup DOMAIN file.objects
        /\ \A n \in DOMAIN file.objects : objects'[n] = file.objects[n] /\ layers'[n] = file.layers[n]
        /\ \A n \in DOMAIN members \ DOMAIN file.objects :
              objects'[n] = members[n] /\ layers'[n] = keys[n]
    BY <1>1, <1>2, <1>3 DEF Put, WellFormed
  <1>6. WellFormed(objects', layers', encryptRef')
    BY <1>1, <1>2, <1>3, <1>5 DEF WellFormed
  <1>7. Bounded(objects', maxId')
    BY <1>2, <1>3, <1>4, <1>5 DEF Bounded
  <1>8. ASSUME NEW n \in DOMAIN plain'
        PROVE  n \in DOMAIN objects' /\ objects'[n] = plain'[n] /\ plain'[n].kind \in UserKinds
    <2>1. FileHolds(n, plain'[n]) /\ plain'[n].kind \in UserKinds
      BY <1>1, <1>2 DEF FileInv
    <2>2. CASE n \in DOMAIN file.objects /\ file.objects[n] = plain'[n]
      BY <2>1, <2>2, <1>5
    <2>3. CASE n \notin DOMAIN file.objects
      <3>1. PICK c \in DOMAIN file.objects :
                /\ IsContainer(file.objects[c]) /\ n \in DOMAIN file.objects[c].members
                /\ plain'[n] = Object("Value", file.objects[c].members[n].val)
        BY <2>1, <2>3 DEF FileHolds
      <3>2. n \in DOMAIN members /\ members[n] = Object("Value", file.objects[c].members[n].val)
        BY <3>1, <1>1, <1>3 DEF FileInv
      <3> QED
        BY <2>1, <2>3, <3>1, <3>2, <1>5
    <2> QED
      BY <2>1, <2>2, <2>3 DEF FileHolds
  <1>9. Protected(objects', layers', encryptRef', loose')
    <2>1. \A n \in DOMAIN file.objects \ loose' : file.layers[n] = Open
      BY <1>1, <1>2 DEF FileInv, Protected
    <2>2. \A m \in DOMAIN members \ loose' : keys[m] = Open
      BY <1>1, <1>2, <1>3 DEF FileInv, MembersPlain
    <2> QED
      BY <2>1, <2>2, <1>2, <1>5 DEF Protected
  <1>10. MembersPlain(objects', loose')
    <2>1. \A n \in DOMAIN objects' : IsContainer(objects'[n]) =>
              n \in DOMAIN file.objects /\ objects'[n] = file.objects[n]
      BY <1>3, <1>5
    <2>2. MembersPlain(file.objects, loose')
      BY <1>1, <1>2 DEF FileInv
    <2> QED
      BY <2>1, <2>2 DEF MembersPlain
  <1>11. DocumentInv'
    BY <1>2, <1>4, <1>6, <1>7, <1>8, <1>9, <1>10 DEF DocumentInv
  <1> QED
    BY <1>1, <1>2, <1>11, FileKept DEF EncryptionInv

LEMMA LoadDecryptedEncrypts ==
    ASSUME EncryptionInv, LoadDecrypted
    PROVE  EncryptionInv'
  <1> DEFINE s == StateOf(file.objects, file.encryptRef)
             ids == Decryptable(file.objects, file.encryptRef)
  <1>1. FileInv /\ WellFormed(file.objects, file.layers, file.encryptRef) /\ file.encryptRef # {}
    BY DEF EncryptionInv, FileInv, LoadDecrypted
  <1> DEFINE Kept(n) == \/ Noticed(s, n, file.objects[n], file.layers[n])
                        \/ Unfit(s, file.objects[n])
  <1>2. /\ objects' = Restricted(file.objects, ids)
        /\ DOMAIN layers' = ids
        /\ \A n \in ids :
              \/ layers'[n] = Unsealed(s, n, file.objects[n], file.layers[n])
              \/ Kept(n)
        /\ encryptRef' = {} /\ maxId' = LoadedMaxId
        /\ plain' = fileView.plain /\ loose' = fileView.loose
        /\ UNCHANGED <<file, fileView>>
    BY DEF LoadDecrypted
  <1>3. ids = DOMAIN file.objects \ file.encryptRef
    BY DEF Decryptable
  <1> HIDE DEF s, ids
  <1>4. /\ DOMAIN objects' = ids /\ DOMAIN layers' = ids
        /\ \A n \in ids : objects'[n] = file.objects[n]
    BY <1>2, <1>3 DEF Restricted
  <1>5. WellFormed(objects', layers', encryptRef')
    BY <1>1, <1>2, <1>3, <1>4 DEF WellFormed
  <1>6. maxId' \in Nat /\ Bounded(objects', maxId')
    BY <1>1, <1>2, <1>3, <1>4, LoadedMaxIdBounds DEF Bounded
  <1>7. \A n \in DOMAIN plain' :
            n \in DOMAIN objects' /\ objects'[n] = plain'[n] /\ plain'[n].kind \in UserKinds
    <2>1. \A n \in DOMAIN plain' : /\ n \in DOMAIN file.objects /\ file.objects[n] = plain'[n]
                                   /\ plain'[n].kind \in UserKinds
      BY <1>1, <1>2 DEF FileInv, FileHolds
    <2>2. \A n \in file.encryptRef : file.objects[n].kind = "Encrypt"
      BY <1>1 DEF WellFormed
    <2> QED
      BY <2>1, <2>2, <1>3, <1>4 DEF UserKinds
  <1>8. Protected(objects', layers', encryptRef', loose')
    <2>1. \A n \in ids \ loose' :
              /\ file.layers[n] = Sealed(s, n, file.objects[n], Open)
              /\ ~Unfit(s, file.objects[n])
      BY <1>1, <1>2, <1>3 DEF FileInv, Protected, s
    <2>2. \A n \in ids \ loose' : layers'[n] = Open
      BY <2>1, <1>2, UnsealsSealed
    <2> QED
      BY <2>2, <1>2, <1>4 DEF Protected
  <1>9. MembersPlain(objects', loose')
    <2>1. ids \subseteq DOMAIN file.objects
      BY <1>3
    <2>2. MembersPlain(file.objects, loose')
      BY <1>1, <1>2 DEF FileInv
    <2> QED
      BY <2>1, <2>2, <1>4 DEF MembersPlain
  <1>10. DocumentInv'
    BY <1>5, <1>6, <1>7, <1>8, <1>9 DEF DocumentInv
  <1> QED
    BY <1>1, <1>2, <1>10, FileKept DEF EncryptionInv

LEMMA LoadLockedEncrypts ==
    ASSUME EncryptionInv, LoadLocked
    PROVE  EncryptionInv'
  <1>1. FileInv /\ WellFormed(file.objects, file.layers, file.encryptRef) /\ file.encryptRef # {}
    BY DEF EncryptionInv, FileInv, LoadLocked
  <1>2. /\ objects' = Restricted(file.objects, file.encryptRef)
        /\ layers' = Restricted(file.layers, file.encryptRef)
        /\ encryptRef' = file.encryptRef /\ maxId' = LoadedMaxId
        /\ plain' = Empty /\ loose' = {}
        /\ UNCHANGED <<file, fileView>>
    BY DEF LoadLocked
  <1>3. PICK r \in DOMAIN file.objects :
            /\ file.encryptRef = {r} /\ file.objects[r].kind = "Encrypt"
            /\ file.objects[r].val \in States
    BY <1>1 DEF WellFormed
  <1>4. DOMAIN objects' = {r} /\ DOMAIN layers' = {r} /\ objects'[r] = file.objects[r]
    BY <1>1, <1>2, <1>3 DEF Restricted, WellFormed
  <1>5. WellFormed(objects', layers', encryptRef')
    BY <1>1, <1>2, <1>3, <1>4 DEF WellFormed
  <1>6. maxId' \in Nat /\ Bounded(objects', maxId')
    BY <1>1, <1>2, <1>3, <1>4, LoadedMaxIdBounds DEF Bounded
  <1>7. /\ DOMAIN plain' = {} /\ Protected(objects', layers', encryptRef', loose')
        /\ MembersPlain(objects', loose')
    BY <1>2, <1>3, <1>4 DEF Empty, Protected, MembersPlain, IsContainer
  <1>8. DocumentInv'
    BY <1>5, <1>6, <1>7 DEF DocumentInv
  <1> QED
    BY <1>1, <1>2, <1>8, FileKept DEF EncryptionInv

LEMMA StepEncrypts == EncryptionInv /\ [Next]_vars => EncryptionInv'
  <1> SUFFICES ASSUME EncryptionInv, [Next]_vars PROVE EncryptionInv'
    OBVIOUS
  <1>1. ASSUME NEW k \in UserKinds, NEW v \in Vals, AddObject(Object(k, v))
        PROVE  EncryptionInv'
    BY <1>1, AddEncrypts
  <1>2. ASSUME NEW n \in DOMAIN plain, RemoveObject(n) PROVE EncryptionInv'
    BY <1>2, RemoveEncrypts
  <1>3. ASSUME NEW s \in States, Encrypt(s) PROVE EncryptionInv'
    BY <1>3, EncryptEncrypts
  <1>4. ASSUME NEW s \in States, EncryptFails(s) PROVE EncryptionInv'
    BY <1>4, EncryptFailsEncrypts
  <1>5. CASE Decrypt
    BY <1>5, DecryptEncrypts
  <1>6. CASE DecryptFails
    BY <1>6, DecryptFailsEncrypts
  <1>7. ASSUME NEW uo \in BOOLEAN, NEW ux \in BOOLEAN, Save(uo, ux) PROVE EncryptionInv'
    BY <1>7, SaveEncrypts
  <1>8. CASE LoadPlain
    BY <1>8, LoadPlainEncrypts
  <1>9. CASE LoadDecrypted
    BY <1>9, LoadDecryptedEncrypts
  <1>10. CASE LoadLocked
    BY <1>10, LoadLockedEncrypts
  <1>11. CASE UNCHANGED vars
    BY <1>11, FileKept
       DEF EncryptionInv, DocumentInv, vars, document, history
  <1> QED
    BY <1>1, <1>2, <1>3, <1>4, <1>5, <1>6, <1>7, <1>8, <1>9, <1>10, <1>11 DEF Next

LEMMA AlwaysEncrypts == Spec => []EncryptionInv
  BY InitEncrypts, StepEncrypts, PTL DEF Spec

-----------------------------------------------------------------------------
(***************************************************************************)
(* The theorems.                                                           *)
(***************************************************************************)
\* However often a document is encrypted, decrypted, saved and read: while it is
\* encrypted, what was in it carries one encryption, with the key of its own number,
\* and when it is not, the caller's objects are there, in plain (encrypt,
\* decrypt_raw, save, Reader::read).
THEOREM EncryptedOnceOrPlain == Spec => []SealedOnceOrPlain
  <1>1. ASSUME EncryptionInv
        PROVE  SealedOnceOrPlain
    <2>1. DocumentInv /\ Protected(objects, layers, encryptRef, loose)
      BY <1>1 DEF EncryptionInv, DocumentInv
    <2>2. CASE encryptRef # {}
      BY <2>1, <2>2, EncryptedByTrailer DEF SealedOnceOrPlain, Protected
    <2>3. CASE encryptRef = {}
      BY <2>1, <2>3, EncryptedByTrailer DEF SealedOnceOrPlain, Protected, DocumentInv
    <2> QED
      BY <2>2, <2>3
  <1> QED
    BY <1>1, AlwaysEncrypts, PTL

\* Nothing is ciphertext in a file without /Encrypt, and in a file with it all of the
\* caller's objects are there, none of them packed in a plain container, and open with
\* the key of their number (save_with_object_streams, save_internal).
THEOREM FilesAreConsistent == Spec => []FileIsConsistent
  <1>1. ASSUME EncryptionInv
        PROVE  FileIsConsistent
    <2>1. /\ FileInv /\ Protected(file.objects, file.layers, file.encryptRef, fileView.loose)
          /\ MembersPlain(file.objects, fileView.loose)
      BY <1>1 DEF EncryptionInv, FileInv
    <2>2. CASE file.encryptRef = {}
      <3>1. \A n \in DOMAIN file.objects : \A m \in DOMAIN MembersOf(file.objects, file.layers, n) :
                IsContainer(file.objects[n]) /\ m \in DOMAIN file.objects[n].members
        BY DEF MembersOf, NoMembers, IsContainer
      <3>2. \A n \in DOMAIN file.objects \ fileView.loose : file.layers[n] = Open
        BY <2>1, <2>2 DEF Protected
      <3>3. \A n \in DOMAIN file.objects :
                \A m \in DOMAIN MembersOf(file.objects, file.layers, n) \ fileView.loose :
                    file.objects[n].members[m].layers = Open
        BY <2>1, <3>1 DEF MembersPlain
      <3> QED
        BY <2>2, <3>2, <3>3 DEF FileIsConsistent
    <2>3. CASE file.encryptRef # {}
      <3> DEFINE s == StateOf(file.objects, file.encryptRef)
      <3>1. \A n \in DOMAIN fileView.plain :
                /\ n \in DOMAIN file.objects /\ file.objects[n] = fileView.plain[n]
                /\ fileView.plain[n].kind \in UserKinds
        BY <2>1, <2>3 DEF FileInv, FileHolds
      <3>2. \A n \in DOMAIN fileView.plain : n \notin file.encryptRef
        BY <2>1, <2>3, <3>1 DEF FileInv, WellFormed, UserKinds
      <3>3. \A n \in DOMAIN fileView.plain \ fileView.loose :
                file.layers[n] = Sealed(s, n, file.objects[n], Open)
        BY <2>1, <2>3, <3>1, <3>2 DEF Protected
      <3> HIDE DEF s
      <3>4. \A n \in DOMAIN fileView.plain \ fileView.loose :
                Unsealed(s, n, file.objects[n], file.layers[n]) = Open
        BY <3>3, UnsealsSealed
      <3> QED
        BY <2>3, <3>1, <3>4 DEF s, FileIsConsistent
    <2> QED
      BY <2>2, <2>3
  <1> QED
    BY <1>1, AlwaysEncrypts, PTL
=============================================================================
