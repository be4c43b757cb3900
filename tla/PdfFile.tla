------------------------------- MODULE PdfFile -------------------------------
(***************************************************************************)
(* The PDF file as lopdf's reader and writer see it, one revision at a     *)
(* time.                                                                   *)
(*                                                                         *)
(* An object identifier is the pair <<number, generation>>.  The payload   *)
(* of an object is a member of Vals; what the model keeps of its kind is   *)
(* what the code branches on:                                              *)
(*    "Data"    any value that is not a stream (dictionary, array, ...)    *)
(*    "Stream"  a content stream                                           *)
(*    "ObjStm"  an object stream: a container of Data objects              *)
(*    "XRef"    a cross-reference stream                                   *)
(*                                                                         *)
(* A byte offset is abstracted by the identifier of the object written     *)
(* there.  Within one revision the writer counts the bytes it has written, *)
(* so two objects never share an offset, and when the same identifier is   *)
(* written twice only the last copy is reachable from the cross-reference. *)
(***************************************************************************)
EXTENDS Naturals, FiniteSets

CONSTANTS
    Vals,   \* the payloads of Data and Stream objects
    NoVal,  \* the payload of a structural object
    Gens    \* the generation numbers in use

ASSUME GensAssumption == 0 \in Gens /\ Gens \subseteq Nat

ASSUME NoValAssumption == NoVal \notin Vals

Ids == Nat \X Gens

Highest(S) == CHOOSE m \in S : \A n \in S : n <= m

(***************************************************************************)
(* BTreeMap::insert for every pair of g: g overrides f.                    *)
(***************************************************************************)
Put(f, g) ==
    [x \in DOMAIN f \cup DOMAIN g |-> IF x \in DOMAIN g THEN g[x] ELSE f[x]]

Restricted(f, S) == [x \in DOMAIN f \cap S |-> f[x]]

-----------------------------------------------------------------------------
Empty == [x \in {} |-> NoVal]

Data(v)   == [type |-> "Data",   val |-> v,     members |-> Empty]
Stream(v) == [type |-> "Stream", val |-> v,     members |-> Empty]
ObjStm(m) == [type |-> "ObjStm", val |-> NoVal, members |-> m]
XRefStm   == [type |-> "XRef",   val |-> NoVal, members |-> Empty]

UserTypes == {"Data", "Stream"}

Types == UserTypes \cup {"ObjStm", "XRef"}

UserObjects == {Data(v) : v \in Vals} \cup {Stream(v) : v \in Vals}

IsObject(o) ==
    /\ o = [type |-> o.type, val |-> o.val, members |-> o.members]
    /\ o.type \in Types
    /\ o.val \in Vals \cup {NoVal}
    /\ DOMAIN o.members \subseteq Nat
    /\ IsFiniteSet(DOMAIN o.members)
    /\ o.members \in [DOMAIN o.members -> Vals]
    /\ o.type = "ObjStm" \/ o.members = Empty
    /\ o.type \in UserTypes <=> o.val # NoVal

IsObjectMap(f) ==
    /\ f = [id \in DOMAIN f |-> f[id]]
    /\ DOMAIN f \subseteq Ids
    /\ IsFiniteSet(DOMAIN f)
    /\ \A id \in DOMAIN f : IsObject(f[id])

(***************************************************************************)
(* The objects a user of the library sees: containers and cross-reference  *)
(* streams are the writer's business.                                      *)
(***************************************************************************)
UserPart(f) == Restricted(f, {id \in DOMAIN f : f[id].type \in UserTypes})

-----------------------------------------------------------------------------
(***************************************************************************)
(* Cross-reference entries.  Free entries are not represented: both        *)
(* parsers of cross-reference sections drop them.                          *)
(***************************************************************************)
Normal(id)    == [kind |-> "normal", at |-> id, container |-> 0, index |-> 0]
Packed(c, i)  == [kind |-> "packed", at |-> <<0, 0>>, container |-> c,
                  index |-> i]

IsEntryMap(x, body) ==
    /\ x = [n \in DOMAIN x |-> x[n]]
    /\ DOMAIN x \subseteq Nat
    /\ IsFiniteSet(DOMAIN x)
    /\ \A n \in DOMAIN x :
          /\ x[n] \in [kind : {"normal", "packed"}, at : Ids,
                       container : Nat, index : Nat]
          /\ x[n].kind = "normal" => x[n].at \in DOMAIN body

Versions == {14, 15, 17}

XrefTypes == {"table", "stream"}

(***************************************************************************)
(* A conforming reader finds obj under id by its cross-reference entry     *)
(* alone: the entry leads to the object itself, or to a container that     *)
(* holds it at the recorded position.                                      *)
(***************************************************************************)
Locates(f, id, obj) ==
    /\ id[1] \in DOMAIN f.xref
    /\ LET e == f.xref[id[1]]
           c == <<e.container, 0>>
       IN  \/ /\ e.kind = "normal"
              /\ e.at = id
              /\ f.body[id] = obj
           \/ /\ e.kind = "packed"
              /\ id[2] = 0
              /\ e.container \in DOMAIN f.xref
              /\ f.xref[e.container] = Normal(c)
              /\ f.body[c].type = "ObjStm"
              /\ id[1] \in DOMAIN f.body[c].members
              /\ obj = Data(f.body[c].members[id[1]])
              /\ e.index = Cardinality({m \in DOMAIN f.body[c].members :
                                            m < id[1]})

(***************************************************************************)
(* Reader::load_objects_raw on a well-formed file.  First the objects with *)
(* a Normal entry, each under the identifier of its own header.            *)
(***************************************************************************)
NormalIds(f) ==
    {f.xref[n].at : n \in {m \in DOMAIN f.xref : f.xref[m].kind = "normal"}}

ListedObjects(f) == Restricted(f.body, NormalIds(f))

(***************************************************************************)
(* A member of a loaded container is accepted unless the cross-reference   *)
(* assigns its number to another container.                                *)
(***************************************************************************)
Accepts(f, c, n) ==
    LET o == ListedObjects(f) IN
    /\ c \in DOMAIN o
    /\ o[c].type = "ObjStm"
    /\ n \in DOMAIN o[c].members
    /\ \/ n \notin DOMAIN f.xref
       \/ f.xref[n].kind # "packed"
       \/ f.xref[n].container = c[1]

MemberNums(f) ==
    {n \in UNION {DOMAIN f.body[c].members : c \in NormalIds(f)} :
        \E c \in NormalIds(f) : Accepts(f, c, n)}

(***************************************************************************)
(* Accepted members are added, never replacing an object.  When two        *)
(* containers offer the same number the first one merged is kept, and the  *)
(* order in which they are merged is that of the worker threads: every     *)
(* choice of a container is a possible result.                             *)
(***************************************************************************)
LoadResults(f) ==
    LET nums == MemberNums(f)
        objs == ListedObjects(f)
    IN  {Put([id \in nums \X {0} |-> Data(f.body[src[id[1]]].members[id[1]])],
             objs) :
            src \in {s \in [nums -> NormalIds(f)] :
                        \A n \in nums : Accepts(f, s[n], n)}}

\* A slip: members the cross-reference does not list are forgotten.
LoadedMaxId_XrefOnly(f, objs) == Highest({0} \cup DOMAIN f.xref)

(***************************************************************************)
(* Document::max_id after Reader::read: the highest number of the          *)
(* cross-reference, raised to the highest number loaded.                   *)
(***************************************************************************)
LoadedMaxId(f, objs) ==
    Highest({0} \cup DOMAIN f.xref \cup {id[1] : id \in DOMAIN objs})

=============================================================================
