------------------------------ MODULE MCOutline ------------------------------
(***************************************************************************)
(* Outline for TLC: two pages, and three documents to begin with: an empty *)
(* one, one whose outline names destinations of a name tree, and one with  *)
(* links that lead nowhere.                                                *)
(***************************************************************************)
EXTENDS Outline

Empty == [objects |-> Nothing, maxId |-> 0, catalog |-> [outlines |-> {}, dests |-> {}]]

Item(parent, prev, next, first, last) ==
    [kind |-> "item", parent |-> parent, prev |-> prev, next |-> next, first |-> first, last |-> last,
     count |-> {}, title |-> {[bom |-> FALSE, text |-> "t"]}, action |-> {}, dest |-> {}]

Node(kids, names) == [kind |-> "names", kids |-> kids, names |-> names]

\* Items 2 and 3 below 1, item 4 below 3; the name tree is 5 with the kids 6, 9
\* (not there) and 7; 8 is the action of item 3.
Named ==
    [objects |->
        [o \in 1 .. 8 |->
            CASE o = 1 -> Root({2}, {3}, {2})
              [] o = 2 -> [Item({1}, {}, {3}, {}, {}) EXCEPT !.dest = {<<"name", "a">>}]
              [] o = 3 -> [Item({1}, {2}, {}, {4}, {4}) EXCEPT !.action = {8}]
              [] o = 4 -> [Item({3}, {}, {}, {}, {}) EXCEPT !.dest = {<<"name", "b">>}]
              [] o = 5 -> Node(<<6, 99, 7>>, << >>)
              [] o = 6 -> Node(<< >>, << <<"a", 102>>, <<"b", 102>> >>)
              [] o = 7 -> Node(<< >>, << <<"b", 101>> >>)
              [] o = 8 -> Action("GoTo", <<"page", 101>>)],
     maxId |-> 8, catalog |-> [outlines |-> {1}, dests |-> {5}]]

\* The next item of 2 is not there, nor is the destination of 3; 4 is a link to the web.
Broken ==
    [objects |->
        [o \in 1 .. 5 |->
            CASE o = 1 -> Root({3}, {2}, {3})
              [] o = 2 -> [Item({1}, {4}, {99}, {}, {}) EXCEPT !.dest = {<<"page", 102>>}]
              [] o = 3 -> [Item({1}, {}, {4}, {}, {}) EXCEPT !.dest = {<<"name", "z">>}]
              [] o = 4 -> [Item({1}, {3}, {2}, {}, {}) EXCEPT !.action = {5}]
              [] o = 5 -> Action("URI", <<"none">>)],
     maxId |-> 5, catalog |-> [outlines |-> {1}, dests |-> {}]]

MCForeign == {Empty, Named, Broken}

MCPages == <<102, 101>>

MCMarks == {<<"t", 102>>, <<"w", 101>>, <<"t", NoPage>>}
=============================================================================
