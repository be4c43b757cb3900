---------------------------- MODULE DocumentStore ----------------------------
(***************************************************************************)
(* An in-memory Document, the identifiers it hands out, the file it is     *)
(* saved to and the document read back from that file.                     *)
(*                                                                         *)
(* Two identifier allocators share Document::max_id: the one that numbers  *)
(* the caller's objects (new_object_id, add_object) and the one that       *)
(* numbers the containers and the cross-reference stream a save appends.   *)
(* Loading computes max_id again from what it finds.                       *)
(***************************************************************************)
EXTENDS PdfFile

CONSTANTS
    MaxObjectsPerStream,  \* ObjectStreamConfig::max_objects_per_stream
    InitialFiles,         \* files of other producers, one of them on disk
    InitialXrefTypes,     \* the cross-reference type of a new document
    NewObjects,           \* bound: what the caller passes to add_object
    NewValues,            \* bound: what the caller passes to set_object
    IdLimit,              \* bound: the highest object number ever used
    EditLimit             \* bound: how many times the caller edits

ASSUME CapAssumption == MaxObjectsPerStream \in Nat \ {0}

ASSUME LimitAssumption == IdLimit \in Nat /\ EditLimit \in Nat

ASSUME XrefTypeAssumption == InitialXrefTypes \subseteq XrefTypes

IsFile(f) ==
    /\ f = [version |-> f.version, xtype |-> f.xtype, size |-> f.size,
            body |-> f.body, xref |-> f.xref]
    /\ f.version \in Versions
    /\ f.xtype \in XrefTypes
    /\ f.size \in Nat
    /\ IsObjectMap(f.body)
    /\ IsEntryMap(f.xref, f.body)

ASSUME FilesAssumption == \A f \in InitialFiles : IsFile(f)

ASSUME InputAssumption == NewObjects \cup NewValues \subseteq UserObjects

VARIABLES
    objects,   \* Document::objects, from identifiers to objects
    maxId,     \* Document::max_id
    xrefType,  \* Document::reference_table.cross_reference_type
    version,   \* Document::version, 14 for "1.4"
    held,      \* identifiers handed to the caller and not given up
    file,      \* the file on disk
    saved,     \* the caller's objects when file was last written
    edits      \* how many edits were made

vars == <<objects, maxId, xrefType, version, held, file, saved, edits>>

(***************************************************************************)
(* saved is Foreign as long as the file is one of InitialFiles.            *)
(***************************************************************************)
Foreign == [foreign |-> TRUE, objects |-> Empty]

Snapshot(f) == [foreign |-> FALSE, objects |-> UserPart(f)]

Init ==
    /\ objects = Empty
    /\ maxId = 0
    /\ xrefType \in InitialXrefTypes
    /\ version = 14
    /\ held = {}
    /\ file \in InitialFiles
    /\ saved = Foreign
    /\ edits = 0

-----------------------------------------------------------------------------
Edit == edits < EditLimit /\ edits' = edits + 1

NewObjectId ==
    /\ Edit
    /\ maxId < IdLimit
    /\ maxId' = maxId + 1
    /\ held' = held \cup {<<maxId + 1, 0>>}
    /\ UNCHANGED <<objects, xrefType, version, file, saved>>

AddObject(o) ==
    /\ Edit
    /\ maxId < IdLimit
    /\ maxId' = maxId + 1
    /\ objects' = Put(objects, [id \in {<<maxId + 1, 0>>} |-> o])
    /\ held' = held \cup {<<maxId + 1, 0>>}
    /\ UNCHANGED <<xrefType, version, file, saved>>

(***************************************************************************)
(* The identifier comes from the document: it names an object, or it was   *)
(* handed out before.                                                      *)
(***************************************************************************)
SetObject(id, o) ==
    /\ Edit
    /\ id \in held \cup DOMAIN objects
    /\ objects' = Put(objects, [x \in {id} |-> o])
    /\ UNCHANGED <<maxId, xrefType, version, held, file, saved>>

(***************************************************************************)
(* References to the object may stay behind: the identifier stays held.    *)
(***************************************************************************)
RemoveObject(id) ==
    /\ Edit
    /\ id \in DOMAIN objects
    /\ objects' = Restricted(objects, DOMAIN objects \ {id})
    /\ held' = held \cup {id}
    /\ UNCHANGED <<maxId, xrefType, version, file, saved>>

-----------------------------------------------------------------------------
(***************************************************************************)
(* ObjectStream::can_be_compressed, for a document without /Encrypt that   *)
(* is not linearized; a Data object is one whose /Type is neither XRef nor *)
(* ObjStm.                                                                 *)
(***************************************************************************)
CanBeCompressed(id) ==
    /\ objects[id].type = "Data"
    /\ id[2] = 0

(***************************************************************************)
(* Objects are packed in the order of their identifiers; a new container   *)
(* is started when the current one is full.                                *)
(***************************************************************************)
PackedIds == {id \in DOMAIN objects : CanBeCompressed(id)}

Rank(n) == Cardinality({id \in PackedIds : id[1] <= n})

StreamIndex(n) == (Rank(n) - 1) \div MaxObjectsPerStream

\* A slip: containers are numbered from the highest live object.
ContainerOf_AboveLive(n) ==
    Highest({0} \cup {id[1] : id \in DOMAIN objects}) + 1 + StreamIndex(n)

ContainerOf(n) == maxId + 1 + StreamIndex(n)

\* A slip: the index is taken after the object was added.
IndexInStream_FromOne(n) == Rank(n) % MaxObjectsPerStream

IndexInStream(n) == (Rank(n) - 1) % MaxObjectsPerStream

StreamCount ==
    (Cardinality(PackedIds) + MaxObjectsPerStream - 1) \div MaxObjectsPerStream

MembersOf(c) ==
    [n \in {m[1] : m \in {id \in PackedIds : ContainerOf(id[1]) = c}} |->
        objects[<<n, 0>>].val]

Containers ==
    [id \in {<<ContainerOf(m[1]), 0>> : m \in PackedIds} |->
        ObjStm(MembersOf(id[1]))]

PackedEntries ==
    [n \in {id[1] : id \in PackedIds} |->
        Packed(ContainerOf(n), IndexInStream(n))]

(***************************************************************************)
(* Writer::write_indirect_object inserts one entry per number: of two      *)
(* generations of a number the later one stays.                            *)
(***************************************************************************)
EntriesOf(body) ==
    [n \in {id[1] : id \in DOMAIN body} |->
        Normal(<<n, Highest({g \in Gens : <<n, g>> \in DOMAIN body})>>)]

CrsOf(crs) == [id \in {<<crs, 0>>} |-> XRefStm]

(***************************************************************************)
(* A classic table has no form for a compressed entry and writes it as     *)
(* free, which a reader drops.                                             *)
(***************************************************************************)
OnDisk(entries, xt) ==
    IF xt = "table"
    THEN Restricted(entries, {n \in DOMAIN entries : entries[n].kind = "normal"})
    ELSE entries

\* A slip: the highest number instead of the number of entries.
SizeFor_Highest(newMax) == newMax

\* The trailer's Size.
SizeFor(newMax) == newMax + 1

(***************************************************************************)
(* The bytes of one save.  The directly written objects come first, then   *)
(* the containers, whose members' entries precede their own, then the      *)
(* cross-reference stream; newMax is max_id when the trailer is written.   *)
(***************************************************************************)
Written(direct, containers, packed, newMax, xt, ver) ==
    LET crs == IF xt = "stream" THEN CrsOf(newMax) ELSE Empty
        ents == Put(Put(Put(EntriesOf(direct), packed), EntriesOf(containers)),
                    EntriesOf(crs))
    IN  [version |-> ver,
         xtype   |-> xt,
         size    |-> SizeFor(newMax),
         body    |-> Put(Put(direct, containers), crs),
         xref    |-> OnDisk(ents, xt)]

CrsCount(xt) == IF xt = "stream" THEN 1 ELSE 0

(***************************************************************************)
(* Document::save_internal: earlier containers and cross-reference streams *)
(* are left out.  (So is the dictionary of a linearized file, which is not *)
(* an object of the caller's and not one of the model's.)                  *)
(***************************************************************************)
SaveInternal(xt, ver) ==
    LET newMax == maxId + CrsCount(xt) IN
    /\ newMax <= IdLimit
    /\ file' = Written(UserPart(objects), Empty, Empty, newMax, xt, ver)
    /\ maxId' = newMax

\* A slip: containers of the document's own file are written again.
SaveWithObjectStreams_KeepsContainers(xt, ver) ==
    LET newMax == maxId + StreamCount + CrsCount(xt)
        direct == Restricted(objects, DOMAIN objects \ PackedIds)
    IN  /\ newMax <= IdLimit
        /\ file' = Written(direct, Containers, PackedEntries, newMax, xt, ver)
        /\ maxId' = newMax

(***************************************************************************)
(* Document::save_with_object_streams: only earlier containers are left    *)
(* out; an earlier cross-reference stream is written like any stream.      *)
(***************************************************************************)
SaveWithObjectStreams(xt, ver) ==
    LET newMax == maxId + StreamCount + CrsCount(xt)
        direct == Restricted(objects, {id \in DOMAIN objects \ PackedIds :
                                          objects[id].type # "ObjStm"})
    IN  /\ newMax <= IdLimit
        /\ file' = Written(direct, Containers, PackedEntries, newMax, xt, ver)
        /\ maxId' = newMax

Raised(ver) == IF ver < 15 THEN 15 ELSE ver

(***************************************************************************)
(* Document::save and save_to are SaveWithOptions(FALSE, FALSE),           *)
(* save_modern is SaveWithOptions(TRUE, TRUE).                             *)
(***************************************************************************)
SaveWithOptions(useObjectStreams, useXrefStreams) ==
    LET xt  == IF useXrefStreams THEN "stream" ELSE xrefType
        ver == IF useObjectStreams \/ useXrefStreams
               THEN Raised(version) ELSE version
    IN  /\ xrefType' = xt
        /\ version' = ver
        /\ \/ useObjectStreams /\ SaveWithObjectStreams(xt, ver)
           \/ ~useObjectStreams /\ SaveInternal(xt, ver)
        /\ saved' = Snapshot(objects)
        /\ UNCHANGED <<objects, held, edits>>

(***************************************************************************)
(* Reader::read: a new Document from the file on disk.                     *)
(***************************************************************************)
Load ==
    /\ \E objs \in LoadResults(file) :
          /\ objects' = objs
          /\ maxId' = LoadedMaxId(file, objs)
    /\ xrefType' = file.xtype
    /\ version' = file.version
    /\ held' = {}
    /\ UNCHANGED <<file, saved, edits>>

Next ==
    \/ NewObjectId
    \/ \E o \in NewObjects : AddObject(o)
    \/ \E id \in held \cup DOMAIN objects, o \in NewValues : SetObject(id, o)
    \/ \E id \in DOMAIN objects : RemoveObject(id)
    \/ \E uo, ux \in BOOLEAN : SaveWithOptions(uo, ux)
    \/ Load

Spec == Init /\ [][Next]_vars

-----------------------------------------------------------------------------
\* Every variable has its type; the file on disk is well formed: a Normal entry
\* leads to an object that was written.
TypeOK ==
    /\ IsObjectMap(objects)
    /\ maxId \in Nat
    /\ xrefType \in XrefTypes
    /\ version \in Versions
    /\ held \subseteq Ids
    /\ IsFile(file)
    /\ saved = [foreign |-> saved.foreign, objects |-> saved.objects]
    /\ saved.foreign \in BOOLEAN
    /\ IsObjectMap(saved.objects)
    /\ edits \in Nat

\* Document::max_id is a ceiling: no live object and no identifier in the
\* caller's hands has a higher number.  Adding, saving (which takes numbers for
\* containers and the cross-reference stream) and loading (which computes the
\* ceiling again, from a cross-reference that need not list every member of a
\* container) all have to keep it.
IdsBelowMaxId == \A id \in held \cup DOMAIN objects : id[1] <= maxId

\* An identifier newly handed out never names a live object: new_object_id and
\* add_object cannot overwrite what was loaded or added before.  (The second
\* case is remove_object, which puts the removed identifier into held.)
FreshIds ==
    [][\A id \in held' \ held :
          id \notin DOMAIN objects \/ id \notin DOMAIN objects']_vars

HasContainers(f) == \E id \in DOMAIN f.body : f.body[id].type = "ObjStm"

\* Reading a saved file back gives exactly the caller's objects, whichever
\* container wins: none is lost, none that was removed comes back, none reverts
\* to the value it had in an earlier file.
ReloadRestores ==
    ~saved.foreign =>
        \A objs \in LoadResults(file) : UserPart(objs) = saved.objects

\* What is packed is there to be read: a container of a saved file holds only current
\* values of current objects, and no more of them than the configured maximum, so that
\* containers of the file the document was read from are never carried over; and a
\* conforming reader finds every object the document had, through the cross-reference
\* alone.  (A classic table with object streams is the exception: what is packed is
\* then written as free.)
SavedFilesConform ==
    ~saved.foreign =>
        /\ \A c \in {id \in DOMAIN file.body : file.body[id].type = "ObjStm"} :
              LET m == file.body[c].members IN
              /\ Cardinality(DOMAIN m) \in 1 .. MaxObjectsPerStream
              /\ \A n \in DOMAIN m :
                    /\ <<n, 0>> \in DOMAIN saved.objects
                    /\ saved.objects[<<n, 0>>] = Data(m[n])
        /\ ~(file.xtype = "table" /\ HasContainers(file)) =>
              \A id \in DOMAIN saved.objects : Locates(file, id, saved.objects[id])

\* The trailer's Size, written from max_id, is above every number the
\* cross-reference lists, those of the containers and of the cross-reference
\* stream included.
SizeCoversEntries ==
    ~saved.foreign => \A n \in DOMAIN file.xref : n < file.size

\* The caller neither edits nor loads.  (A load gives held up, so that nothing
\* can be asked of the numbers the caller held before.)
Saves == edits' = edits /\ held' = held

\* A dangling reference stays dangling while the document is in memory, over any
\* number of edits and saves: a number the caller holds without an object for it
\* (removed, or handed out and not set) is given by no save to a container, to the
\* cross-reference stream or to anything else the file lists, and a number newly
\* handed out is that of no object and of no identifier the caller still holds.
\* (The second disjunct: remove_object puts the removed identifier into held.)
DanglingStaysDangling ==
    [][/\ Saves => \A id \in held \ DOMAIN objects : id[1] \notin DOMAIN file'.xref
       /\ \A new \in held' \ held :
             \/ new \in DOMAIN objects
             \/ \A id \in held \cup DOMAIN objects : id[1] # new[1]]_vars
=============================================================================
