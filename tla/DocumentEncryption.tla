-------------------------- MODULE DocumentEncryption --------------------------
(***************************************************************************)
(* A document that is encrypted, decrypted, saved and read                 *)
(* (src/src/encryption.rs, src/src/document.rs, and what the writer and    *)
(* the reader do about encryption).                                        *)
(*                                                                         *)
(* Ciphers are abstract: a part of an object has the sequence of keys it   *)
(* was encrypted with.  A key is <<file key, object number>>.  An object   *)
(* has two parts: its strings (for a stream, those of its dictionary) and  *)
(* the content of a stream.  Generations are left out.                     *)
(***************************************************************************)
EXTENDS Naturals, Sequences, FiniteSets

CONSTANTS
    Vals,      \* the values of objects
    NoVal,     \* not a value
    States,    \* the encryption states callers make
    Numbers,   \* bound: object numbers
    OpLimit    \* bound: calls that change the document or the file

(***************************************************************************)
(* An encryption state, its crypt filters looked up: does a filter that is *)
(* not Identity apply to strings, to streams; are metadata streams         *)
(* encrypted (EncryptMetadata); can a wrong key be noticed (AES padding);  *)
(* for which of the two parts is the key of a length the filter refuses.   *)
(***************************************************************************)
ASSUME StatesAssumption ==
    \A s \in States : /\ {s.strings, s.streams, s.metadata, s.padded} \subseteq BOOLEAN
                      /\ s.unfit \subseteq {"strings", "content"}

ASSUME BoundsAssumption ==
    /\ Numbers \subseteq Nat \ {0} /\ IsFiniteSet(Numbers)
    /\ OpLimit \in Nat

ASSUME NoValAssumption == NoVal \notin Vals

\* Plain values and streams, metadata streams, object streams, cross-reference
\* streams and encryption dictionaries.
Kinds == {"Value", "Stream", "Metadata", "ObjStm", "XRef", "Encrypt"}

NoMembers == [n \in {} |-> NoVal]

Object(kind, val) == [kind |-> kind, val |-> val, members |-> NoMembers]
\* A member has a value and the keys its strings were encrypted with when it was packed.
Container(members) == [kind |-> "ObjStm", val |-> NoVal, members |-> members]
XRefStream == Object("XRef", NoVal)
Dictionary(state) == Object("Encrypt", state)

UserKinds == {"Value", "Stream", "Metadata"}

Open == [strings |-> << >>, content |-> << >>]

VARIABLES
    objects,    \* document.objects
    layers,     \* the keys the parts of every object are encrypted with
    encryptRef, \* trailer /Encrypt: {} or {number}
    state,      \* document.encryption_state: {} or {state}
    maxId,      \* document.max_id
    file,       \* the file last saved: [objects, layers, encryptRef]
    plain,      \* (history) the caller's objects, as the caller knows them
    loose,      \* (history) added while the document was encrypted, or reached by
                \* a call that broke off
    fileView,   \* (history) [plain, loose] when the file was saved
    ops         \* how many calls were made

document == <<objects, layers, encryptRef, state, maxId>>
history == <<plain, loose>>
vars == <<document, file, history, fileView, ops>>

Put(f, g) ==
    [x \in DOMAIN f \cup DOMAIN g |-> IF x \in DOMAIN g THEN g[x] ELSE f[x]]

Restricted(f, S) == [x \in DOMAIN f \cap S |-> f[x]]

\* Document::is_encrypted: the trailer names a dictionary that is there.
IsEncrypted == encryptRef # {} /\ encryptRef \subseteq DOMAIN objects

-----------------------------------------------------------------------------
(***************************************************************************)
(* encrypt_object and decrypt_object.  The strings in the dictionary of a  *)
(* stream are not touched.                                                 *)
(***************************************************************************)
Exempt(s, obj) == obj.kind = "XRef" \/ (obj.kind = "Metadata" /\ ~s.metadata)

TouchesStrings(s, obj) == obj.kind \in {"Value", "Encrypt"} /\ s.strings

TouchesContent(s, obj) ==
    obj.kind \in {"Stream", "Metadata", "ObjStm"} /\ ~Exempt(s, obj) /\ s.streams

Sealed(s, n, obj, l) ==
    [strings |-> IF TouchesStrings(s, obj) THEN Append(l.strings, <<s.key, n>>) ELSE l.strings,
     content |-> IF TouchesContent(s, obj) THEN Append(l.content, <<s.key, n>>) ELSE l.content]

\* The filter refuses the key, whatever the object contains.
Unfit(s, obj) ==
    \/ TouchesStrings(s, obj) /\ "strings" \in s.unfit
    \/ TouchesContent(s, obj) /\ "content" \in s.unfit

\* A key that was not the last one applied makes things worse.
Peeled(part, key) ==
    IF part # << >> /\ part[Len(part)] = key
    THEN SubSeq(part, 1, Len(part) - 1)
    ELSE Append(part, <<"undone">> \o key)

Unsealed(s, n, obj, l) ==
    [strings |-> IF TouchesStrings(s, obj) THEN Peeled(l.strings, <<s.key, n>>) ELSE l.strings,
     content |-> IF TouchesContent(s, obj) THEN Peeled(l.content, <<s.key, n>>) ELSE l.content]

\* The wrong key, which a padded cipher may notice.
Noticed(s, n, obj, l) ==
    /\ s.padded
    /\ \/ TouchesStrings(s, obj) /\ Peeled(l.strings, <<s.key, n>>) # SubSeq(l.strings, 1, Len(l.strings) - 1)
       \/ TouchesContent(s, obj) /\ Peeled(l.content, <<s.key, n>>) # SubSeq(l.content, 1, Len(l.content) - 1)

\* A container gives up its members only when it is not encrypted.
MembersOf(objs, lay, n) ==
    IF objs[n].kind = "ObjStm" /\ lay[n] = Open THEN objs[n].members ELSE NoMembers

Members(objs, lay) == UNION {DOMAIN MembersOf(objs, lay, n) : n \in DOMAIN objs}

SourceOf(objs, lay, m) == CHOOSE n \in DOMAIN objs : m \in DOMAIN MembersOf(objs, lay, n)

Offered(objs, lay) ==
    [m \in Members(objs, lay) |-> Object("Value", objs[SourceOf(objs, lay, m)].members[m].val)]

OfferedLayers(objs, lay) ==
    [m \in Members(objs, lay) |-> objs[SourceOf(objs, lay, m)].members[m].layers]

-----------------------------------------------------------------------------
Empty == [n \in {} |-> NoVal]

Init ==
    /\ objects = Empty /\ layers = Empty
    /\ encryptRef = {} /\ state = {} /\ maxId = 0
    /\ file = [objects |-> Empty, layers |-> Empty, encryptRef |-> {}]
    /\ plain = Empty /\ loose = {}
    /\ fileView = [plain |-> Empty, loose |-> {}]
    /\ ops = 0

Counted == ops < OpLimit /\ ops' = ops + 1

\* Document::add_object
AddObject(obj) ==
    /\ Counted /\ maxId + 1 \in Numbers
    /\ maxId' = maxId + 1
    /\ objects' = Put(objects, [n \in {maxId'} |-> obj])
    /\ layers' = Put(layers, [n \in {maxId'} |-> Open])
    /\ plain' = Put(plain, [n \in {maxId'} |-> obj])
    /\ loose' = IF IsEncrypted THEN loose \cup {maxId'} ELSE loose \ {maxId'}
    /\ UNCHANGED <<encryptRef, state, file, fileView>>

\* Document::remove_object
RemoveObject(n) ==
    /\ Counted
    /\ objects' = Restricted(objects, DOMAIN objects \ {n})
    /\ layers' = Restricted(layers, DOMAIN layers \ {n})
    /\ plain' = Restricted(plain, DOMAIN plain \ {n})
    /\ UNCHANGED <<encryptRef, state, maxId, file, loose, fileView>>

MayEncrypt == ~IsEncrypted

StateAfterEncrypt == {}

Refused(s) == {n \in DOMAIN objects : Unfit(s, objects[n])}

\* Document::encrypt: every object, then the dictionary is added.
Encrypt(s) ==
    /\ Counted /\ maxId + 1 \in Numbers
    /\ MayEncrypt /\ Refused(s) = {}
    /\ maxId' = maxId + 1
    /\ objects' = Put(objects, [n \in {maxId'} |-> Dictionary(s)])
    /\ layers' = [n \in DOMAIN objects \cup {maxId'} |->
                     IF n = maxId' THEN Open ELSE Sealed(s, n, objects[n], layers[n])]
    /\ encryptRef' = {maxId'}
    /\ state' = StateAfterEncrypt
    /\ UNCHANGED <<file, history, fileView>>

\* encrypt stops at the first object whose filter refuses the key: those before it
\* are encrypted, and the document does not say so.
EncryptFails(s) ==
    /\ Counted /\ MayEncrypt
    /\ \E bad \in Refused(s) :
          /\ \A n \in Refused(s) : bad <= n
          /\ layers' = [n \in DOMAIN layers |->
                           IF n < bad THEN Sealed(s, n, objects[n], layers[n]) ELSE layers[n]]
          /\ loose' = loose \cup {n \in DOMAIN objects : n < bad}
    /\ UNCHANGED <<objects, encryptRef, state, maxId, file, plain, fileView>>

StateOf(objs, ref) == objs[CHOOSE n \in ref : TRUE].val

\* A slip: the strings outside of streams are forgotten.
Decryptable_Streams(objs, ref) == {n \in DOMAIN objs \ ref : objs[n].kind # "Value"}

Decryptable(objs, ref) == DOMAIN objs \ ref

\* decrypt_raw with the right password: every object in the order of the numbers,
\* then the members of the containers, where there is nothing yet.
Decrypt ==
    /\ Counted /\ IsEncrypted
    /\ LET s == StateOf(objects, encryptRef)
           ids == Decryptable(objects, encryptRef)
           after == [n \in DOMAIN layers |->
                        IF n \in ids THEN Unsealed(s, n, objects[n], layers[n]) ELSE layers[n]]
           all == Put(Offered(objects, after), objects)
       IN  /\ \A n \in ids : ~Unfit(s, objects[n])
           /\ objects' = Restricted(all, DOMAIN all \ encryptRef)
           /\ layers' = Restricted(Put(OfferedLayers(objects, after), after),
                                   DOMAIN all \ encryptRef)
           /\ state' = {s}
    /\ encryptRef' = {}
    /\ UNCHANGED <<maxId, file, history, fileView>>

\* decrypt_raw stops at an object it cannot decrypt: those before it are
\* decrypted, and the document still counts as encrypted.
DecryptFails ==
    /\ Counted /\ IsEncrypted
    /\ LET s == StateOf(objects, encryptRef)
           ids == Decryptable(objects, encryptRef)
       IN  \E bad \in ids :
              /\ Unfit(s, objects[bad]) \/ Noticed(s, bad, objects[bad], layers[bad])
              /\ \A n \in ids : n < bad => ~Unfit(s, objects[n])
              /\ layers' = [n \in DOMAIN layers |->
                               IF n \in ids /\ n < bad
                               THEN Unsealed(s, n, objects[n], layers[n]) ELSE layers[n]]
              /\ loose' = loose \cup {n \in ids : n < bad}
    /\ UNCHANGED <<objects, encryptRef, state, maxId, file, plain, fileView>>

-----------------------------------------------------------------------------
\* A slip: object streams are built for encrypted documents as well.
Packs_Always(useObjectStreams) == useObjectStreams

\* save_with_object_streams falls back to save_internal for encrypted documents.
Packs(useObjectStreams) == useObjectStreams /\ ~IsEncrypted

\* What can be packed: values, but neither streams nor the encryption dictionary.
Packable == {n \in DOMAIN objects : objects[n].kind = "Value"}

\* save_with_object_streams leaves out earlier containers, save_internal also
\* earlier cross-reference streams.
Skipped(packs) ==
    {n \in DOMAIN objects : objects[n].kind \in (IF packs THEN {"ObjStm"} ELSE {"ObjStm", "XRef"})}

(***************************************************************************)
(* save, save_with_options: the container and the cross-reference stream   *)
(* of the file are numbered above max_id and are never encrypted.          *)
(***************************************************************************)
Save(useObjectStreams, useXrefStream) ==
    LET packed == IF Packs(useObjectStreams) THEN Packable ELSE {}
        direct == DOMAIN objects \ (Skipped(Packs(useObjectStreams)) \cup packed)
        members == [n \in packed |-> [val |-> objects[n].val, layers |-> layers[n]]]
        own == (IF packed = {} THEN << >> ELSE <<Container(members)>>)
               \o (IF useXrefStream THEN <<XRefStream>> ELSE << >>)
        new == [n \in {maxId + i : i \in DOMAIN own} |-> own[n - maxId]]
    IN  /\ Counted /\ DOMAIN new \subseteq Numbers
        /\ file' = [objects |-> Put(Restricted(objects, direct), new),
                    layers |-> Put(Restricted(layers, direct), [n \in DOMAIN new |-> Open]),
                    encryptRef |-> encryptRef]
        /\ maxId' = maxId + Len(own)
        /\ fileView' = [plain |-> plain, loose |-> loose]
        /\ UNCHANGED <<objects, layers, encryptRef, state, history>>

Highest(S) == CHOOSE n \in S : \A m \in S : m <= n

LoadedMaxId == Highest({0} \cup DOMAIN file.objects \cup DOMAIN Offered(file.objects, file.layers))

\* Reader::read of a file that is not encrypted.
LoadPlain ==
    /\ Counted /\ file.encryptRef = {}
    /\ objects' = Put(Offered(file.objects, file.layers), file.objects)
    /\ layers' = Put(OfferedLayers(file.objects, file.layers), file.layers)
    /\ encryptRef' = {} /\ state' = {}
    /\ maxId' = LoadedMaxId
    /\ plain' = fileView.plain /\ loose' = fileView.loose
    /\ UNCHANGED <<file, fileView>>

\* load_encrypted_document with the password: an object that cannot be decrypted
\* is kept as it is.  (A file lopdf encrypted has no containers.)
LoadDecrypted ==
    /\ Counted /\ file.encryptRef # {}
    /\ LET s == StateOf(file.objects, file.encryptRef)
           ids == Decryptable(file.objects, file.encryptRef)
       IN  /\ objects' = Restricted(file.objects, ids)
           /\ \E kept \in SUBSET {n \in ids : Noticed(s, n, file.objects[n], file.layers[n])} :
                 layers' =
                    [n \in ids |->
                        IF n \in kept \/ Unfit(s, file.objects[n])
                        THEN file.layers[n]
                        ELSE Unsealed(s, n, file.objects[n], file.layers[n])]
           /\ state' = {s}
    /\ encryptRef' = {}
    /\ maxId' = LoadedMaxId
    /\ plain' = fileView.plain /\ loose' = fileView.loose
    /\ UNCHANGED <<file, fileView>>

\* load_encrypted_document without the password: only the dictionary is there.
LoadLocked ==
    /\ Counted /\ file.encryptRef # {}
    /\ objects' = Restricted(file.objects, file.encryptRef)
    /\ layers' = Restricted(file.layers, file.encryptRef)
    /\ encryptRef' = file.encryptRef /\ state' = {}
    /\ maxId' = LoadedMaxId
    /\ plain' = Empty /\ loose' = {}
    /\ UNCHANGED <<file, fileView>>

Next ==
    \/ \E k \in UserKinds, v \in Vals : AddObject(Object(k, v))
    \/ \E n \in DOMAIN plain : RemoveObject(n)
    \/ \E s \in States : Encrypt(s) \/ EncryptFails(s)
    \/ Decrypt \/ DecryptFails
    \/ \E uo, ux \in BOOLEAN : Save(uo, ux)
    \/ LoadPlain \/ LoadDecrypted \/ LoadLocked

Spec == Init /\ [][Next]_vars

-----------------------------------------------------------------------------
(***************************************************************************)
(* Properties.                                                             *)
(***************************************************************************)
\* What the caller put into a document is what the caller finds in it when it is not
\* encrypted, however often it was encrypted, saved, read and decrypted in between.
\* While it is encrypted, what was in it carries exactly one encryption, with the key
\* of its own number: encrypt is refused on an encrypted document, and saves and
\* loads neither encrypt nor decrypt.  What was added while it was encrypted is
\* excepted, and so are the objects that a call which broke off had reached: from the
\* object it stopped at on, the document is as it was, and trying again finishes it.
SealedOnceOrPlain ==
    LET s == StateOf(objects, encryptRef) IN
    IF IsEncrypted
    THEN \A n \in DOMAIN objects \ (encryptRef \cup loose) : layers[n] = Sealed(s, n, objects[n], Open)
    ELSE \A n \in DOMAIN plain :
            /\ n \in DOMAIN objects /\ objects[n] = plain[n]
            /\ n \notin loose => layers[n] = Open

\* A file says it is encrypted or it is not: in a file without /Encrypt nothing is
\* ciphertext, in a file with it everything the caller had when encrypting is
\* there, as an object of its own (packing would hide it in a plain container),
\* and opens with the key of its number.  The exceptions are those above.
FileIsConsistent ==
    LET s == StateOf(file.objects, file.encryptRef) IN
    IF file.encryptRef = {}
    THEN \A n \in DOMAIN file.objects \ fileView.loose :
            /\ file.layers[n] = Open
            /\ \A m \in DOMAIN MembersOf(file.objects, file.layers, n) \ fileView.loose :
                  file.objects[n].members[m].layers = Open
    ELSE /\ DOMAIN fileView.plain \subseteq DOMAIN file.objects
         /\ \A n \in DOMAIN fileView.plain \ fileView.loose :
               Unsealed(s, n, file.objects[n], file.layers[n]) = Open
=============================================================================
