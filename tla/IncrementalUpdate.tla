--------------------------- MODULE IncrementalUpdate ---------------------------
(***************************************************************************)
(* An IncrementalDocument: a file and the document read from it, and a new *)
(* document whose objects are appended to the file as one more revision    *)
(* (src/src/incremental_document.rs, src/src/writer.rs).  The file may be  *)
(* encrypted: what is appended is then encrypted with the key of the       *)
(* revision before, object by object.                                      *)
(***************************************************************************)
EXTENDS PdfFile, Sequences

CONSTANTS
    InitialFiles,  \* files to start from, each a sequence of revisions
    NewObjects,    \* bound: what the caller adds or sets
    OpLimit,       \* bound: edits and saves
    RevisionLimit  \* bound: revisions in a file

ASSUME BoundsAssumption == OpLimit \in Nat /\ RevisionLimit \in Nat

ASSUME NewObjectsAssumption == NewObjects \subseteq UserObjects

(***************************************************************************)
(* A revision: the objects it holds, the keys each was encrypted with (the *)
(* key of an object is named by the identifier it is computed from), the   *)
(* cross-reference section, the /Prev and /Encrypt of its trailer (each a  *)
(* set of at most one element), and whether its startxref is right.        *)
(***************************************************************************)
IsRevision(r) ==
    /\ IsObjectMap(r.body)
    /\ DOMAIN r.seals = DOMAIN r.body
    /\ \A id \in DOMAIN r.seals : r.seals[id] \in Seq(Ids)
    /\ r.xtype \in XrefTypes
    /\ IsEntryMap(r.xref, r.body)
    /\ r.encrypt \in SUBSET Ids
    /\ r.exact \in BOOLEAN

IsFile(d) ==
    /\ d \in Seq({d[i] : i \in DOMAIN d})
    /\ \A i \in DOMAIN d : IsRevision(d[i]) /\ d[i].prev \subseteq DOMAIN d

ASSUME FilesAssumption == \A d \in InitialFiles : IsFile(d) /\ Len(d) > 0

VARIABLES
    disk,      \* the file, << >> when a save broke off
    base,      \* bytes_documents
    prevObjs,  \* prev_documents.objects
    security,  \* "none", "locked" (no password) or "unlocked" (decrypted)
    encryptId, \* prev_documents.encryption_state.encrypt_object_id
    xrefType,  \* prev_documents.reference_table.cross_reference_type
    newObjs,   \* new_document.objects
    layers,    \* the keys the objects of new_document are encrypted with
    maxId,     \* new_document.max_id
    trailer,   \* new_document.trailer: [prev, encrypt]
    answer,    \* what the last save returned
    ops        \* how many edits and saves there were

document == <<base, prevObjs, security, encryptId, xrefType>>
vars == <<disk, document, newObjs, layers, maxId, trailer, answer, ops>>

-----------------------------------------------------------------------------
(***************************************************************************)
(* Reading a file of several revisions.                                    *)
(***************************************************************************)

\* The revisions the /Prev chain reaches from the last one: those in every set that
\* holds the last one and, with a revision, the one its /Prev leads to.
Reached(d) ==
    {i \in DOMAIN d :
        \A S \in SUBSET DOMAIN d :
            Len(d) \in S /\ (\A k \in S : d[k].prev \subseteq S) => i \in S}

\* Of several copies the one in the newest revision of R counts.
NewestWith(d, R, Has(_)) == d[Highest({i \in R : Has(d[i])})]

BodyOf(d, R) ==
    [id \in UNION {DOMAIN d[i].body : i \in R} |->
        NewestWith(d, R, LAMBDA r : id \in DOMAIN r.body).body[id]]

SealsOf(d, R) ==
    [id \in UNION {DOMAIN d[i].body : i \in R} |->
        NewestWith(d, R, LAMBDA r : id \in DOMAIN r.body).seals[id]]

\* resolve_xref_and_trailer (XrefChain has it step by step).
Chained(d) ==
    LET R == Reached(d)
    IN  [body |-> BodyOf(d, R), seals |-> SealsOf(d, R),
         xref |-> [n \in UNION {DOMAIN d[i].xref : i \in R} |->
                      NewestWith(d, R, LAMBDA r : n \in DOMAIN r.xref).xref[n]],
         encrypt |-> d[Len(d)].encrypt]

\* find_latest_trailer: only the trailer of a table can be found by its keyword.
LastTable(d) == Highest({i \in DOMAIN d : d[i].xtype = "table"})

\* The file is refused when scanning it finds no trailer.
Readable(d) == d[Len(d)].exact \/ \E i \in DOMAIN d : d[i].xtype = "table"

\* reconstruct_xref_and_trailer: every object found, the last of a number.
Scanned(d) ==
    LET R == DOMAIN d
        Of(r, n) == {id \in DOMAIN r.body : id[1] = n}
    IN  [body |-> BodyOf(d, R), seals |-> SealsOf(d, R),
         xref |-> [n \in {id[1] : id \in UNION {DOMAIN d[i].body : i \in R}} |->
                      Normal(CHOOSE id \in Of(NewestWith(d, R, LAMBDA r : Of(r, n) # {}), n) : TRUE)],
         encrypt |-> d[LastTable(d)].encrypt]

View(d) == IF d[Len(d)].exact THEN Chained(d) ELSE Scanned(d)

\* What comes out when an object is decrypted with the key of its identifier, in
\* a file that is encrypted or not.  Cross-reference streams never are.
Garbled == [type |-> "Data", val |-> NoVal, members |-> Empty]

Opened(obj, seals, keys) ==
    IF obj.type = "XRef" \/ seals = keys THEN obj ELSE Garbled

\* load_objects_raw
PlainResults(v) ==
    LoadResults([body |-> [id \in DOMAIN v.body |-> Opened(v.body[id], v.seals[id], << >>)],
                 xref |-> v.xref])

\* load_encrypted_document with a password: the listed objects, then the listed
\* members of the containers that were decrypted; the encryption dictionary is
\* left out.
Decrypted(v) ==
    LET objs == [id \in NormalIds(v) \ v.encrypt |->
                    Opened(v.body[id], v.seals[id], <<id>>)]
        packed == {n \in DOMAIN v.xref :
                      /\ v.xref[n].kind = "packed"
                      /\ <<v.xref[n].container, 0>> \in DOMAIN objs
                      /\ n \in DOMAIN objs[<<v.xref[n].container, 0>>].members}
    IN  Put(objs, [id \in packed \X {0} |->
                      Data(objs[<<v.xref[id[1]].container, 0>>].members[id[1]])])

Results(v) == IF v.encrypt = {} THEN PlainResults(v) ELSE {Decrypted(v)}

-----------------------------------------------------------------------------
(***************************************************************************)
(* Reading the file and preparing the update: Document::load, with or      *)
(* without the password, and IncrementalDocument::create_from.             *)
(***************************************************************************)
\* Document::new_from_prev, for a previous document that was read from d with objs: no
\* objects, the numbers going on, the form of the cross-reference and the trailer kept, with
\* /Prev where the cross-reference was found.  A rebuilt document has a table and the
\* /Prev of the trailer that was found.
new_from_prev(d, objs, unlocked) ==
    LET last == d[Len(d)]
    IN  [objects |-> Empty,
         maxId |-> LoadedMaxId(View(d), objs),
         xrefType |-> IF last.exact THEN last.xtype ELSE "table",
         trailer |-> [prev |-> IF last.exact THEN {Len(d)} ELSE d[LastTable(d)].prev,
                      encrypt |-> IF unlocked THEN {} ELSE View(d).encrypt]]

Reading(d, objs, unlocked) ==
    LET v == View(d)
        new == new_from_prev(d, objs, unlocked)
    IN  /\ base' = d
        /\ prevObjs' = objs
        /\ security' = IF v.encrypt = {} THEN "none"
                       ELSE IF unlocked THEN "unlocked" ELSE "locked"
        /\ encryptId' = IF unlocked THEN v.encrypt ELSE {}
        /\ xrefType' = new.xrefType
        /\ newObjs' = new.objects
        /\ layers' = Empty
        /\ maxId' = new.maxId
        /\ trailer' = new.trailer

\* parse_encryption_dictionary: without the dictionary no password is right.
DictFound(v) == v.encrypt \subseteq NormalIds(v)

\* The file is read with its password, if it needs one.
Open ==
    /\ disk # << >> /\ Readable(disk)
    /\ DictFound(View(disk))
    /\ \E objs \in Results(View(disk)) : Reading(disk, objs, TRUE)
    /\ answer' = "none"
    /\ UNCHANGED <<disk, ops>>

\* Without the password nothing of an encrypted file is read but its encryption
\* dictionary.
OpenLocked ==
    /\ disk # << >> /\ Readable(disk)
    /\ View(disk).encrypt # {}
    /\ Reading(disk, Restricted(ListedObjects(View(disk)), View(disk).encrypt), FALSE)
    /\ answer' = "none"
    /\ UNCHANGED <<disk, ops>>

\* Read without the password and then decrypted (Document::decrypt): there are no
\* objects to decrypt, and the encryption dictionary is removed.
OpenThenDecrypt ==
    /\ disk # << >> /\ Readable(disk)
    /\ View(disk).encrypt # {} /\ DictFound(View(disk))
    /\ Reading(disk, Empty, TRUE)
    /\ answer' = "none"
    /\ UNCHANGED <<disk, ops>>

Init ==
    /\ disk \in InitialFiles
    /\ base = << >>
    /\ prevObjs = Empty
    /\ security = "none"
    /\ encryptId = {}
    /\ xrefType = "table"
    /\ newObjs = Empty
    /\ layers = Empty
    /\ maxId = 0
    /\ trailer = [prev |-> {}, encrypt |-> {}]
    /\ answer = "none"
    /\ ops = 0

-----------------------------------------------------------------------------
(***************************************************************************)
(* Edits of the new document.                                              *)
(***************************************************************************)
Counted == ops < OpLimit /\ ops' = ops + 1

Edit ==
    /\ base # << >>
    /\ Counted
    /\ answer' = "none"
    /\ UNCHANGED <<disk, document, trailer>>

\* The objects are plaintext when the caller puts them there.
Place(id, obj) ==
    /\ newObjs' = Put(newObjs, [x \in {id} |-> obj])
    /\ layers' = Put(layers, [x \in {id} |-> << >>])

\* opt_clone_object_to_new_document
CloneObject ==
    /\ Edit
    /\ \E id \in DOMAIN prevObjs \ DOMAIN newObjs : Place(id, prevObjs[id])
    /\ UNCHANGED maxId

\* new_document.set_object, of an object the caller knows
SetObject ==
    /\ Edit
    /\ \E id \in DOMAIN UserPart(Put(prevObjs, newObjs)), obj \in NewObjects :
           Place(id, obj)
    /\ UNCHANGED maxId

\* new_document.add_object
AddObject ==
    /\ Edit
    /\ \E obj \in NewObjects : Place(<<maxId + 1, 0>>, obj)
    /\ maxId' = maxId + 1

\* new_document.remove_object: the object of the previous revision, if there is
\* one, shows again.
RemoveObject ==
    /\ Edit
    /\ \E id \in DOMAIN newObjs :
          /\ newObjs' = Restricted(newObjs, DOMAIN newObjs \ {id})
          /\ layers' = Restricted(layers, DOMAIN layers \ {id})
    /\ UNCHANGED maxId

-----------------------------------------------------------------------------
(***************************************************************************)
(* Saving.                                                                 *)
(***************************************************************************)
Written == {id \in DOMAIN newObjs : newObjs[id].type \in UserTypes}

\* A slip: what is appended to an encrypted file is not encrypted.
SealFor_Plain(id) == layers[id]

\* The appended copy of an object, encrypted if the file is.
SealFor(id) == IF security = "unlocked" THEN Append(layers[id], id) ELSE layers[id]

\* The section lists one object for a number; objects are written by ascending
\* identifier, so that is the one of the highest generation.
SectionOf(ids) ==
    [n \in {id[1] : id \in ids} |->
        Normal(<<n, Highest({id[2] : id \in {x \in ids : x[1] = n}})>>)]

\* The trailer of the appended revision: for the time of the write an encrypted
\* document has its /Encrypt back.
SavedTrailer ==
    IF security = "unlocked" THEN [trailer EXCEPT !.encrypt = encryptId] ELSE trailer

\* With cross-reference streams one more object, numbered above all others.
Appended ==
    LET own == IF xrefType = "stream" THEN {<<maxId + 1, 0>>} ELSE {}
        ids == Written \cup own
    IN  [body |-> [id \in ids |-> IF id \in own THEN XRefStm ELSE newObjs[id]],
         seals |-> [id \in ids |-> IF id \in own THEN << >> ELSE SealFor(id)],
         xtype |-> xrefType,
         xref |-> SectionOf(ids),
         prev |-> SavedTrailer.prev,
         encrypt |-> SavedTrailer.encrypt,
         exact |-> TRUE]

\* A slip: the objects are encrypted where they are.
LayersAfter_InPlace ==
    [id \in DOMAIN layers |-> IF id \in Written THEN SealFor(id) ELSE layers[id]]

\* The copies that are written are encrypted, the objects in memory are not.
LayersAfter == layers

\* The trailer is put back, whether writing it succeeded or not.
TrailerAfter == trailer

\* check_incremental_save_supported
Supported == security # "locked"

Save ==
    /\ base # << >> /\ Len(base) < RevisionLimit /\ Counted
    /\ Supported
    /\ disk' = Append(base, Appended)
    /\ maxId' = IF xrefType = "stream" THEN maxId + 1 ELSE maxId
    /\ layers' = LayersAfter
    /\ trailer' = TrailerAfter
    /\ answer' = "saved"
    /\ UNCHANGED <<document, newObjs>>

\* Writing fails on the way, and the target holds part of the file.  A
\* cross-reference stream may have taken its number.
SaveFails ==
    /\ base # << >> /\ Counted
    /\ Supported
    /\ disk' = << >>
    /\ maxId' \in {maxId} \cup (IF xrefType = "stream" THEN {maxId + 1} ELSE {})
    /\ layers' = LayersAfter
    /\ trailer' = TrailerAfter
    /\ answer' = "failed"
    /\ UNCHANGED <<document, newObjs>>

\* The check comes before the target is created.
SaveRefused ==
    /\ base # << >>
    /\ ~Supported
    /\ answer' = "refused"
    /\ UNCHANGED <<disk, document, newObjs, layers, maxId, trailer, ops>>

Next ==
    \/ Open \/ OpenLocked \/ OpenThenDecrypt
    \/ CloneObject \/ SetObject \/ AddObject \/ RemoveObject
    \/ Save \/ SaveFails \/ SaveRefused

Spec == Init /\ [][Next]_vars

-----------------------------------------------------------------------------
(***************************************************************************)
(* Properties.                                                             *)
(***************************************************************************)
\* What was saved is what is read back: the objects of all revisions before, with
\* those of the new document in their place, decrypted if the file is encrypted,
\* however often the update was saved, failed to be saved and was reopened.  The
\* section that is appended leads to those before; where scanning found the
\* objects there was none to lead to (IncrementalDocument::save_internal,
\* Reader::read).
UpdateReloads ==
    answer = "saved" /\ base[Len(base)].exact =>
        {UserPart(objs) : objs \in Results(View(disk))} \subseteq
        {Put(UserPart(objs), UserPart(newObjs)) : objs \in Results(View(base))}

\* Between saves the document in memory is not encrypted: neither its objects,
\* which the next save would encrypt a second time, nor its trailer
\* (save_internal's clones and its trailer swap).
PlainInMemory ==
    security = "unlocked" =>
        /\ trailer.encrypt = {}
        /\ \A id \in DOMAIN layers : layers[id] = << >>

\* Whoever takes a number, a new object or the section of a save, takes one that
\* nothing in the file or in the update has, be it in the cross-reference or not:
\* no reference already made leads to it (Document::new_from_prev's max_id,
\* new_object_id, write_cross_reference_stream).
NewIdsUnused ==
    [][maxId' = maxId + 1 /\ base' = base =>
           /\ \A id \in DOMAIN newObjs \cup DOMAIN prevObjs : id[1] # maxId'
           /\ maxId' \notin DOMAIN View(base).xref]_vars
=============================================================================
