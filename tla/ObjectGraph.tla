------------------------------ MODULE ObjectGraph ------------------------------
(***************************************************************************)
(* The objects of a document as a graph of references, and the two walks   *)
(* over it: traverse_objects (src/src/document.rs), which visits whatever  *)
(* the trailer leads to, and the page iterator, which follows /Kids.       *)
(*                                                                         *)
(* A reference has the identifier it is written with (id) and, for the     *)
(* properties to ask about, the tag of the object it was written for (to). *)
(* An object has a tag of its own, the references that are values of its   *)
(* dictionary (links) and those in its arrays (lists).  Its count is the   *)
(* /Count of a node of the page tree, or the length of a stream.           *)
(***************************************************************************)
EXTENDS Integers, Sequences, FiniteSets, Functions, SequencesExt

CONSTANTS
    Gens,       \* generation numbers
    DepthLimit  \* PAGE_TREE_DEPTH_LIMIT

ASSUME GensAssumption == Gens \subseteq Nat
ASSUME DepthAssumption == DepthLimit \in Nat

Ids == Nat \X Gens

ObjectTypes == {"Catalog", "Pages", "Page", "Other", "Stream"}
LinkKeys == {"Root", "Pages", "Parent", "Link"}
ListKeys == {"Kids", "Annots"}

Refs == [id : Ids, to : Nat]

IsObject(o) ==
    /\ o.tag \in Nat \ {0}
    /\ o.type \in ObjectTypes
    /\ DOMAIN o.links \subseteq LinkKeys /\ \A k \in DOMAIN o.links : o.links[k] \in Refs
    /\ DOMAIN o.lists \subseteq ListKeys
    /\ \A k \in DOMAIN o.lists : o.lists[k] \in Seq(Refs)
    /\ o.count \in Int

IsObjects(objs) == DOMAIN objs \subseteq Ids /\ \A id \in DOMAIN objs : IsObject(objs[id])

\* Object identifiers are ordered by number, then by generation.
Less(a, b) == a[1] < b[1] \/ (a[1] = b[1] /\ a[2] < b[2])

\* A set of identifiers, in their order.
Ordered(S) ==
    [i \in 1 .. Cardinality(S) |->
        CHOOSE x \in S : Cardinality({y \in S : Less(y, x)}) = i - 1]

Put(f, g) ==
    [x \in DOMAIN f \cup DOMAIN g |-> IF x \in DOMAIN g THEN g[x] ELSE f[x]]

Without(f, S) == [x \in DOMAIN f \ S |-> f[x]]

Tags(objs) == {objs[id].tag : id \in DOMAIN objs}

RefsOf(o) == Range(o.links) \cup UNION {Range(o.lists[k]) : k \in DOMAIN o.lists}
IdsOf(o) == {r.id : r \in RefsOf(o)}

------------------------------------------------------------------------------
(***************************************************************************)
(* traverse_objects: every object the trailer leads to is acted upon once, *)
(* and then its references are followed.  acted is what the action makes   *)
(* of each object.                                                         *)
(***************************************************************************)

Visited(acted, trailer) ==
    LET Next(ids) == UNION {IdsOf(acted[id]) : id \in ids \cap DOMAIN acted}
        hops[k \in Nat] ==
            IF k = 0 THEN {trailer[x].id : x \in DOMAIN trailer}
            ELSE LET h == hops[k - 1] IN h \cup Next(h)
    IN  hops[Cardinality(DOMAIN acted) + 1]

Traversed(objs, acted, trailer) ==
    [id \in DOMAIN objs |-> IF id \in Visited(acted, trailer) THEN acted[id] ELSE objs[id]]

------------------------------------------------------------------------------
(***************************************************************************)
(* The page iterator (PageTreeIter).  kids is what is left of the /Kids    *)
(* being read, stack what is left of those above, left the number of       *)
(* entries it will still look at, which is that of the objects.            *)
(***************************************************************************)
KidsOf(objs, id) ==
    IF id \in DOMAIN objs /\ "Kids" \in DOMAIN objs[id].lists
    THEN objs[id].lists["Kids"]
    ELSE << >>

TypeOf(objs, id) == IF id \in DOMAIN objs THEN objs[id].type ELSE "Other"

\* The root of the page tree: /Root in the trailer, /Pages in the catalog.
PageRoots(objs, trailer) ==
    {objs[c].links["Pages"].id :
        c \in {id \in {trailer[k].id : k \in DOMAIN trailer \cap {"Root"}} \cap DOMAIN objs :
                  "Pages" \in DOMAIN objs[id].links}}

StartWalk(objs, trailer) ==
    [kids |-> LET roots == PageRoots(objs, trailer)
              IN  IF roots = {} THEN << >> ELSE KidsOf(objs, CHOOSE r \in roots : TRUE),
     stack |-> << >>,
     left |-> Cardinality(DOMAIN objs),
     found |-> << >>]

Over(w) == (w.kids = << >> /\ w.stack = << >>) \/ (w.kids # << >> /\ w.left = 0)

\* A slip: coming back, the pages after an inner node are forgotten.
Descended_Forgets(objs, w) ==
    [w EXCEPT !.kids = KidsOf(objs, Head(w.kids).id), !.left = @ - 1]

\* A slip: only pages count.
Descended_Uncounted(objs, w) ==
    [w EXCEPT !.stack = IF Tail(w.kids) = << >> THEN @ ELSE Append(@, Tail(w.kids)),
              !.kids = KidsOf(objs, Head(w.kids).id)]

\* What is left of a level is only put aside if anything is.
Descended(objs, w) ==
    [w EXCEPT !.stack = IF Tail(w.kids) = << >> THEN @ ELSE Append(@, Tail(w.kids)),
              !.kids = KidsOf(objs, Head(w.kids).id),
              !.left = @ - 1]

\* A slip: a page does not count.
Passed_Uncounted(w, pages) == [w EXCEPT !.kids = Tail(@), !.found = @ \o pages]

Passed(w, pages) == [w EXCEPT !.kids = Tail(@), !.left = @ - 1, !.found = @ \o pages]

WalkStep(objs, w) ==
    IF w.kids = << >>
    THEN [w EXCEPT !.kids = Last(w.stack), !.stack = Front(@)]
    ELSE LET kid == Head(w.kids).id
             type == TypeOf(objs, kid)
         IN  IF type = "Pages" /\ Len(w.stack) < DepthLimit
             THEN Descended(objs, w)
             ELSE Passed(w, IF type = "Page" THEN <<kid>> ELSE << >>)

\* Document::page_iter, taken to its end: an entry is looked at and a level is left
\* at most once for every object.
PagesOf(objs, trailer) ==
    LET walk[k \in Nat] ==
            IF k = 0 THEN StartWalk(objs, trailer)
            ELSE LET w == walk[k - 1] IN IF Over(w) THEN w ELSE WalkStep(objs, w)
    IN  walk[2 * Cardinality(DOMAIN objs) + 1].found

------------------------------------------------------------------------------
(***************************************************************************)
(* What a page tree should be: every node but the root is in one /Kids,    *)
(* once, and the pages, from left to right, are its leaves.                *)
(***************************************************************************)
\* What the root of the page tree leads to in at most d hops.
NodesWithin(objs, trailer, d) ==
    LET hops[k \in Nat] ==
            IF k = 0 THEN PageRoots(objs, trailer)
            ELSE LET h == hops[k - 1]
                 IN  h \cup UNION {{r.id : r \in Range(KidsOf(objs, id))} : id \in h}
    IN  hops[d]

TreeNodes(objs, trailer) == NodesWithin(objs, trailer, Cardinality(DOMAIN objs) + 1)

IsTree(objs, trailer) ==
    LET nodes == TreeNodes(objs, trailer)
        places == {pl \in nodes \X (1 .. Cardinality(nodes)) : pl[2] \in DOMAIN KidsOf(objs, pl[1])}
        At(pl) == KidsOf(objs, pl[1])[pl[2]].id
    IN  /\ nodes # {} /\ nodes \subseteq DOMAIN objs
        /\ \A r \in PageRoots(objs, trailer) : TypeOf(objs, r) = "Pages"
        /\ \A n \in nodes :
              /\ objs[n].type = IF DOMAIN objs[n].lists \cap {"Kids"} = {} THEN "Page" ELSE "Pages"
              /\ Len(KidsOf(objs, n)) <= Cardinality(nodes)
        /\ \A pl, ql \in places : At(pl) = At(ql) => pl = ql
        /\ \A pl \in places : At(pl) \notin PageRoots(objs, trailer)

\* The leaves below a node of a tree.
LeavesOf(objs, id) ==
    LET leaves[h \in Nat] ==
            IF h = 0 THEN [n \in DOMAIN objs |-> IF objs[n].type = "Page" THEN <<n>> ELSE << >>]
            ELSE LET below == leaves[h - 1]
                 IN  [n \in DOMAIN objs |->
                         IF objs[n].type = "Page" THEN <<n>>
                         ELSE FlattenSeq([i \in DOMAIN KidsOf(objs, n) |->
                                             LET kid == KidsOf(objs, n)[i].id
                                             IN  IF kid \in DOMAIN objs THEN below[kid] ELSE << >>])]
    IN  leaves[Cardinality(DOMAIN objs)][id]
================================================================================
