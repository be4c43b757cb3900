-------------------------- MODULE MCParallelLoader --------------------------
(***************************************************************************)
(* Sources for ParallelLoader: objects 1 and 2 are containers that both    *)
(* hold numbers 3 and 4 (or only one of them), 5 is a stream whose length  *)
(* is object 4, and a value tells where it was read: <<container, number>> *)
(* with container 0 for an object of its own.  In one source the stream    *)
(* does not parse and the second container holds its number.               *)
(***************************************************************************)
EXTENDS ParallelLoader

MCVals == {<<c, n>> : c \in {0, 1, 2}, n \in {3, 4, 5}}
MCNoVal == << >>
MCGens == {0}

Holding(c, nums) == ObjStm([n \in nums |-> <<c, n>>])

\* Where the cross-reference puts a number: nowhere, at an object of its own, in a
\* container.
Places == {"none", "own", "first", "second"}

EntryFor(n, place) ==
    CASE place = "own" -> Normal(<<n, 0>>)
      [] place = "first" -> Packed(1, n - 3)
      [] place = "second" -> Packed(2, 0)

Source(held2, place3, place4, broken, dropped, strict) ==
    LET places == [n \in {3, 4} |-> IF n = 3 THEN place3 ELSE place4]
        owned == {n \in {3, 4} : places[n] = "own"}
        listed == {n \in {3, 4} : places[n] # "none"}
        body == [id \in ({1, 2, 5} \cup owned) \X {0} |->
                    CASE id[1] = 1 -> Holding(1, {3, 4})
                      [] id[1] = 2 -> Holding(2, held2)
                      [] id[1] = 5 -> Stream(<<0, 5>>)
                      [] OTHER -> Data(<<0, id[1]>>)]
    IN  [body |-> body,
         xref |-> [n \in {1, 2, 5} \cup listed |->
                      IF n \in listed THEN EntryFor(n, places[n]) ELSE Normal(<<n, 0>>)],
         broken |-> broken \cap DOMAIN body, dropped |-> dropped, strict |-> strict,
         length |-> [s \in {<<5, 0>>} |-> <<4, 0>>]]

Troubles ==
    {[broken |-> {}, dropped |-> {}, strict |-> FALSE],
     [broken |-> {<<1, 0>>}, dropped |-> {}, strict |-> FALSE],
     [broken |-> {<<1, 0>>}, dropped |-> {}, strict |-> TRUE],
     [broken |-> {<<3, 0>>}, dropped |-> {}, strict |-> TRUE],
     [broken |-> {}, dropped |-> {<<2, 0>>}, strict |-> FALSE],
     [broken |-> {}, dropped |-> {<<4, 0>>}, strict |-> FALSE]}

MCSources ==
    {Source(h, p, q, t.broken, t.dropped, t.strict) :
        h \in {{3}, {3, 4}}, p \in Places \ {"second"}, q \in Places \ {"own"}, t \in Troubles}
    \cup {Source({3, 4}, "none", "own", {}, {}, FALSE),
          Source({3, 5}, "none", "none", {<<5, 0>>}, {}, FALSE)}
=============================================================================
