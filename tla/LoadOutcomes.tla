----------------------------- MODULE LoadOutcomes ----------------------------
(***************************************************************************)
(* What comes of loading the objects of a file, whatever the number of     *)
(* threads and the order they work in (src/src/reader.rs,                  *)
(* load_objects_raw, seen from outside).                                   *)
(*                                                                         *)
(* A source is a file as PdfFile describes it, with what can go wrong on   *)
(* the way: objects that do not parse (containers that do not decode),     *)
(* objects the caller's filter drops, and streams whose length is another  *)
(* object.                                                                 *)
(***************************************************************************)
EXTENDS PdfFile

CONSTANT Sources

\* length maps the streams with an indirect /Length to the object it names.
IsSource(f) ==
    /\ IsObjectMap(f.body)
    /\ IsEntryMap(f.xref, f.body)
    /\ f.broken \subseteq DOMAIN f.body
    /\ f.dropped \subseteq Ids
    /\ f.strict \in BOOLEAN
    /\ \A s \in DOMAIN f.length :
           s \in DOMAIN f.body /\ f.body[s].type = "Stream" /\ f.length[s] \in Ids

ASSUME SourcesAssumption == \A f \in Sources : IsSource(f)

\* A stream whose content could not be taken yet.
Hollow == [type |-> "Stream", val |-> NoVal, members |-> Empty]

(***************************************************************************)
(* Reader::get_object on the object a /Length names, while the objects are *)
(* being read: only the cross-reference is there to be asked.              *)
(***************************************************************************)
Resolves(f, id) ==
    /\ id[1] \in DOMAIN f.xref
    /\ LET e == f.xref[id[1]]
       IN  \/ e.kind = "normal" /\ e.at = id /\ id \notin f.broken
           \/ /\ e.kind = "packed" /\ id[2] = 0
              /\ e.container \in DOMAIN f.xref
              /\ f.xref[e.container] = Normal(<<e.container, 0>>)
              /\ <<e.container, 0>> \notin f.broken
              /\ id[1] \in DOMAIN f.body[<<e.container, 0>>].members

Late(f) == {s \in DOMAIN f.length : ~Resolves(f, f.length[s])}

\* An object as it comes out of the parser.
Parsed(f, id) == IF id \in Late(f) THEN Hollow ELSE f.body[id]

\* The objects with an entry of their own that are kept.
KeptIds(f) == NormalIds(f) \ (f.broken \cup f.dropped)

\* A container offers a member unless the cross-reference assigns its number to
\* another container, or the filter drops it.
Offers(f, c, n) ==
    /\ c \in KeptIds(f)
    /\ f.body[c].type = "ObjStm"
    /\ n \in DOMAIN f.body[c].members
    /\ n \in DOMAIN f.xref =>
           f.xref[n].kind # "packed" \/ f.xref[n].container = c[1]
    /\ <<n, 0>> \notin f.dropped

Offered(f) ==
    {n \in UNION {DOMAIN f.body[c].members : c \in KeptIds(f)} :
        \E c \in KeptIds(f) : Offers(f, c, n)}

\* Once everything is there, a stream that came out hollow is filled if its length
\* is known.
Filled(f, objs) ==
    [id \in DOMAIN objs |->
        IF id \in Late(f) \cap KeptIds(f) /\ f.length[id] \in DOMAIN objs
        THEN f.body[id] ELSE objs[id]]

\* Objects are filtered when they are parsed, before containers are decoded.
Fails(f, id) ==
    id \in f.broken /\ (f.body[id].type = "ObjStm" => id \notin f.dropped)

\* A strict reader gives up on the first failure.
Rejected(f) == f.strict /\ \E id \in NormalIds(f) : Fails(f, id)

\* The outcome of a load, Pending as long as there is none.
Loaded(objs) == [status |-> "loaded", objects |-> objs]
Error == [status |-> "error", objects |-> Empty]
Pending == [status |-> "pending", objects |-> Empty]

\* Which container each of the offered members is taken from: any that offers it.
Origins(f) ==
    {src \in [Offered(f) -> KeptIds(f)] : \A n \in Offered(f) : Offers(f, src[n], n)}

\* Objects with an entry of their own come first; a member is added only where
\* there is no object yet.
Assembled(f, src) ==
    Put([id \in Offered(f) \X {0} |-> Data(f.body[src[id[1]]].members[id[1]])],
        [id \in KeptIds(f) |-> Parsed(f, id)])

Outcomes(f) ==
    IF Rejected(f)
    THEN {Error}
    ELSE {Loaded(Filled(f, Assembled(f, src))) : src \in Origins(f)}
=============================================================================
