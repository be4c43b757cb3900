---------------------------- MODULE MCDocumentGraph ----------------------------
(***************************************************************************)
(* Three documents to edit: one as lopdf writes it, whose pages are in     *)
(* order and whose numbers have no gaps, one whose pages are not in the    *)
(* order of their numbers, with gaps and a generation other than 0, and    *)
(* that one without a /Count that can be used in the root.                 *)
(***************************************************************************)
EXTENDS DocumentGraph

NoLinks == [k \in {} |-> 0]

Object(type, links, lists, count) ==
    [type |-> type, links |-> links, lists |-> lists, count |-> count]

Links(S) == [k \in {p[1] : p \in S} |-> (CHOOSE p \in S : p[1] = k)[2]]

\* A document from objects that name each other by number: every object's tag is
\* its number.
Built(os, gen, max) ==
    LET Ref(n) == [id |-> <<n, gen[n]>>, to |-> n]
        Made(n) == [tag |-> n, type |-> os[n].type, count |-> os[n].count,
                    links |-> [k \in DOMAIN os[n].links |-> Ref(os[n].links[k])],
                    lists |-> [k \in DOMAIN os[n].lists |->
                                  [i \in DOMAIN os[n].lists[k] |-> Ref(os[n].lists[k][i])]]]
    IN  [objs |-> [id \in {<<n, gen[n]>> : n \in DOMAIN os} |-> Made(id[1])],
         trailer |-> [k \in {"Root"} |-> Ref(1)],
         maxId |-> max]

Kids(s) == [k \in {"Kids"} |-> s]
Annotated(s) == [k \in {"Annots"} |-> s]
Nothing == [k \in {} |-> << >>]

InOrder ==
    Built([n \in 1 .. 6 |->
              CASE n = 1 -> Object("Catalog", Links({<<"Pages", 2>>}), Nothing, 0)
                [] n = 2 -> Object("Pages", NoLinks, Kids(<<3, 4>>), 2)
                [] n = 3 -> Object("Page", Links({<<"Parent", 2>>, <<"Link", 5>>}), Annotated(<<6>>), 0)
                [] n = 4 -> Object("Page", Links({<<"Parent", 2>>}), Nothing, 0)
                [] n = 5 -> Object("Stream", NoLinks, Nothing, 0)
                [] OTHER -> Object("Other", Links({<<"Link", 3>>}), Nothing, 0)],
          [n \in 1 .. 6 |-> 0], 6)

Scattered(count) ==
    Built([n \in {1, 2, 4, 6, 7, 8, 9} |->
              CASE n = 1 -> Object("Catalog", Links({<<"Pages", 9>>}), Nothing, 0)
                [] n = 9 -> Object("Pages", NoLinks, Kids(<<8, 7>>), count)
                [] n = 7 -> Object("Pages", Links({<<"Parent", 9>>}), Kids(<<2, 4>>), 2)
                [] n = 8 -> Object("Page", Links({<<"Parent", 9>>}), Annotated(<<6>>), 0)
                [] n = 2 -> Object("Page", Links({<<"Parent", 7>>}), Annotated(<<6>>), 0)
                [] n = 4 -> Object("Page", Links({<<"Parent", 7>>}), Annotated(<< >>), 0)
                [] OTHER -> Object("Other", NoLinks, Nothing, 0)],
          [n \in {1, 2, 4, 6, 7, 8, 9} |-> IF n = 4 THEN 1 ELSE 0], 9)

MCDocuments == {InOrder, Scattered(3), Scattered(-1)}
================================================================================
