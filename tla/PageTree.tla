-------------------------------- MODULE PageTree --------------------------------
(***************************************************************************)
(* Reading the pages of a document one by one (src/src/document.rs,        *)
(* PageTreeIter), whatever the page tree looks like: what is a tree in a   *)
(* well-formed document may be any graph in a damaged one.                 *)
(***************************************************************************)
EXTENDS ObjectGraph

CONSTANT Documents  \* the documents whose pages are read: [objs, trailer]

ASSUME DocumentsAssumption == \A d \in Documents : IsObjects(d.objs) /\ IsFiniteSet(DOMAIN d.objs)

VARIABLES
    doc,   \* PageTreeIter.doc
    walk   \* the iterator: kids, stack, iter_limit and the pages it has given

vars == <<doc, walk>>

Init ==
    /\ doc \in Documents
    /\ walk = StartWalk(doc.objs, doc.trailer)

\* One turn of the loops in next(): an entry of /Kids, or a level that is left.
Step ==
    /\ ~Over(walk)
    /\ walk' = WalkStep(doc.objs, walk)
    /\ UNCHANGED doc

\* The caller asks until there are no more pages.
Spec == Init /\ [][Step]_vars /\ WF_vars(Step)

-----------------------------------------------------------------------------
(***************************************************************************)
(* Properties.                                                             *)
(***************************************************************************)
\* A tree no deeper than the iterator goes: below the root there are at most DepthLimit
\* levels of inner nodes, however many there are on each.
Shallow ==
    /\ IsTree(doc.objs, doc.trailer)
    /\ \A n \in TreeNodes(doc.objs, doc.trailer) :
          doc.objs[n].type = "Pages" => n \in NodesWithin(doc.objs, doc.trailer, DepthLimit)

\* In a well-formed tree the iterator gives the leaves from left to right: the
\* limits that guard against damaged files never cut a good one short.
LeavesInOrder ==
    Shallow =>
        LET leaves == LeavesOf(doc.objs, CHOOSE r \in PageRoots(doc.objs, doc.trailer) : TRUE)
        IN  /\ IsPrefix(walk.found, leaves)
            /\ Over(walk) => walk.found = leaves

\* However the graph loops, no more pages are given than there are objects, and
\* what was given counts against the limit.
PagesBounded == Len(walk.found) + walk.left <= Cardinality(DOMAIN doc.objs)

\* Whatever the graph, the iterator comes to an end.
WalkEnds == <>Over(walk)
=================================================================================
