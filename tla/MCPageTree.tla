------------------------------- MODULE MCPageTree -------------------------------
(***************************************************************************)
(* Every way to fill the /Kids of three inner nodes with up to two entries *)
(* each: trees, shared nodes, cycles, entries that lead nowhere.           *)
(***************************************************************************)
EXTENDS PageTree

Ref(n) == [id |-> <<n, 0>>, to |-> n]
NoLinks == [k \in {} |-> Ref(0)]
NoLists == [k \in {} |-> << >>]

Object(n, type, links, lists) ==
    [tag |-> n, type |-> type, links |-> links, lists |-> lists, count |-> 0]

Inner(n, kids) ==
    Object(n, "Pages", NoLinks, [k \in {"Kids"} |-> [i \in DOMAIN kids |-> Ref(kids[i])]])

Leaf(n) == Object(n, "Page", NoLinks, NoLists)

\* Node 9 does not exist.
KidLists(S) == UNION {[1 .. n -> S] : n \in 0 .. 2}

Trailer == [k \in {"Root"} |-> Ref(1)]

MCDocuments ==
    {[objs |-> [id \in (1 .. 6) \X {0} |->
                   CASE id[1] = 1 -> Object(1, "Catalog", [k \in {"Pages"} |-> Ref(2)], NoLists)
                     [] id[1] = 2 -> Inner(2, k2)
                     [] id[1] = 3 -> Inner(3, k3)
                     [] id[1] = 4 -> Inner(4, k4)
                     [] OTHER -> Leaf(id[1])],
      trailer |-> Trailer] :
        k2 \in KidLists({3, 4, 5}), k3 \in KidLists({2, 4, 5, 6}), k4 \in KidLists({3, 5, 6, 9})}
=================================================================================
