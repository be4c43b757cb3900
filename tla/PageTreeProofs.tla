----------------------------- MODULE PageTreeProofs -----------------------------
(***************************************************************************)
(* What holds of the page iterator for every document: it never gives more *)
(* pages than there are objects, every turn of its loops uses up some of   *)
(* what it may still do, so that it cannot go round for ever, and of a     *)
(* tree no deeper than it goes it gives the leaves, from left to right.    *)
(***************************************************************************)
EXTENDS PageTree, FiniteSetTheorems, SequenceTheorems, WellFoundedInduction, TLAPS

WalkInv ==
    /\ IsObjects(doc.objs) /\ IsFiniteSet(DOMAIN doc.objs)
    /\ walk = [kids |-> walk.kids, stack |-> walk.stack, left |-> walk.left, found |-> walk.found]
    /\ walk.kids \in Seq(Refs) /\ walk.stack \in Seq(Seq(Refs))
    /\ walk.left \in Nat /\ walk.found \in Seq(Ids)
    /\ PagesBounded

LEMMA LastAndFront ==
    ASSUME NEW S, NEW s \in Seq(S), s # << >>
    PROVE  Last(s) \in S /\ Front(s) \in Seq(S) /\ Len(Front(s)) = Len(s) - 1
  <1>1. Len(s) \in Nat /\ Len(s) > 0
    OBVIOUS
  <1>2. Last(s) \in S
    BY <1>1 DEF Last
  <1>3. Front(s) = [i \in 1 .. Len(s) - 1 |-> s[i]]
    BY <1>1 DEF Front
  <1>4. \A i \in 1 .. Len(s) - 1 : s[i] \in S
    BY <1>1
  <1>5. Len(s) - 1 \in Nat
    BY <1>1
  <1> QED BY <1>2, <1>3, <1>4, <1>5

LEMMA KidsAreRefs ==
    ASSUME NEW objs, IsObjects(objs), NEW id
    PROVE  KidsOf(objs, id) \in Seq(Refs)
  BY DEF KidsOf, IsObjects, IsObject

LEMMA PagesAreObjects ==
    ASSUME NEW objs, IsObjects(objs), NEW id, TypeOf(objs, id) = "Page"
    PROVE  id \in Ids
  BY DEF TypeOf, IsObjects

LEMMA StartIsBounded == Init => WalkInv
  <1> SUFFICES ASSUME Init PROVE WalkInv
    OBVIOUS
  <1>1. IsObjects(doc.objs) /\ IsFiniteSet(DOMAIN doc.objs)
    BY DocumentsAssumption DEF Init
  <1>2. Cardinality(DOMAIN doc.objs) \in Nat
    BY <1>1, FS_CardinalityType
  <1>3. walk.kids \in Seq(Refs)
    <2>1. CASE PageRoots(doc.objs, doc.trailer) = {}
      BY <2>1 DEF Init, StartWalk
    <2>2. CASE PageRoots(doc.objs, doc.trailer) # {}
      BY <1>1, <2>2, KidsAreRefs DEF Init, StartWalk
    <2> QED BY <2>1, <2>2
  <1>4. /\ walk = [kids |-> walk.kids, stack |-> << >>, left |-> Cardinality(DOMAIN doc.objs),
                   found |-> << >>]
    BY DEF Init, StartWalk
  <1>5. /\ walk.stack \in Seq(Seq(Refs)) /\ walk.found \in Seq(Ids) /\ walk.left \in Nat
        /\ Len(walk.found) + walk.left <= Cardinality(DOMAIN doc.objs)
    <2>1. << >> \in Seq(Seq(Refs)) /\ << >> \in Seq(Ids) /\ Len(<< >>) = 0
      OBVIOUS
    <2>2. walk.stack = << >> /\ walk.found = << >> /\ walk.left = Cardinality(DOMAIN doc.objs)
      BY <1>4
    <2> QED BY <1>2, <2>1, <2>2
  <1>6. walk = [kids |-> walk.kids, stack |-> walk.stack, left |-> walk.left, found |-> walk.found]
    BY <1>4
  <1> QED BY <1>1, <1>3, <1>5, <1>6 DEF WalkInv, PagesBounded

\* What one turn does to the walk, and that it uses something up.
Uses(w, v) == 2 * v.left + Len(v.stack) < 2 * w.left + Len(w.stack)

LEMMA TurnIsBounded ==
    ASSUME WalkInv, Step
    PROVE  WalkInv' /\ Uses(walk, walk')
  <1> DEFINE objs == doc.objs
             type == TypeOf(objs, Head(walk.kids).id)
  <1>1. doc' = doc /\ IsObjects(objs) /\ Cardinality(DOMAIN objs) \in Nat
    BY FS_CardinalityType DEF WalkInv, Step
  <1>2. CASE walk.kids = << >>
    <2>1. walk.stack # << >>
      BY <1>2 DEF Step, Over
    <2>2. walk' = [walk EXCEPT !.kids = Last(walk.stack), !.stack = Front(@)]
      BY <1>2 DEF Step, WalkStep
    <2>3. Last(walk.stack) \in Seq(Refs) /\ Front(walk.stack) \in Seq(Seq(Refs))
          /\ Len(Front(walk.stack)) = Len(walk.stack) - 1
      BY <2>1, LastAndFront DEF WalkInv
    <2>4. /\ walk' = [kids |-> walk'.kids, stack |-> walk'.stack, left |-> walk'.left, found |-> walk'.found]
          /\ walk'.kids = Last(walk.stack) /\ walk'.stack = Front(walk.stack)
          /\ walk'.left = walk.left /\ walk'.found = walk.found
      BY <2>2 DEF WalkInv
    <2> QED BY <1>1, <2>3, <2>4 DEF WalkInv, PagesBounded, Uses
  <1>3. CASE walk.kids # << >> /\ type = "Pages" /\ Len(walk.stack) < DepthLimit
    <2>1. walk.left > 0
      BY <1>3 DEF Step, Over, WalkInv
    <2>2. walk' = Descended(objs, walk)
      BY <1>3 DEF Step, WalkStep
    <2> DEFINE rest == IF Tail(walk.kids) = << >> THEN walk.stack ELSE Append(walk.stack, Tail(walk.kids))
               below == KidsOf(objs, Head(walk.kids).id)
    <2>3. below \in Seq(Refs)
      BY <1>1, KidsAreRefs
    <2>4. Tail(walk.kids) \in Seq(Refs)
      BY <1>3 DEF WalkInv
    <2>5. rest \in Seq(Seq(Refs)) /\ Len(rest) <= Len(walk.stack) + 1
      BY <2>4 DEF WalkInv
    <2>6. walk' = [kids |-> below, stack |-> rest, left |-> walk.left - 1, found |-> walk.found]
      BY <2>2 DEF Descended, WalkInv
    <2> HIDE DEF rest, below
    <2> QED BY <1>1, <2>1, <2>3, <2>5, <2>6 DEF WalkInv, PagesBounded, Uses
  <1>4. CASE walk.kids # << >> /\ ~(type = "Pages" /\ Len(walk.stack) < DepthLimit)
    <2>1. walk.left > 0
      BY <1>4 DEF Step, Over, WalkInv
    <2> DEFINE given == IF type = "Page" THEN <<Head(walk.kids).id>> ELSE << >>
    <2>2. walk' = Passed(walk, given)
      BY <1>4 DEF Step, WalkStep
    <2>3. given \in Seq(Ids) /\ Len(given) <= 1
      <3>1. type = "Page" => Head(walk.kids).id \in Ids
        BY <1>1, PagesAreObjects
      <3> QED BY <3>1
    <2>4. Tail(walk.kids) \in Seq(Refs)
      BY <1>4 DEF WalkInv
    <2> HIDE DEF given
    <2>5. walk' = [kids |-> Tail(walk.kids), stack |-> walk.stack, left |-> walk.left - 1,
                   found |-> walk.found \o given]
      BY <2>2 DEF Passed, WalkInv
    <2>6. walk.found \o given \in Seq(Ids) /\ Len(walk.found \o given) <= Len(walk.found) + 1
      BY <2>3 DEF WalkInv
    <2>7. walk.left \in Nat /\ walk.left - 1 \in Nat
      BY <2>1 DEF WalkInv
    <2>8. Len(walk.found) + walk.left <= Cardinality(DOMAIN objs)
          /\ Len(walk.found) \in Nat /\ Len(walk.found \o given) \in Nat
      BY <2>6 DEF WalkInv, PagesBounded
    <2>9. walk'.kids = Tail(walk.kids) /\ walk'.stack = walk.stack /\ walk'.left = walk.left - 1
          /\ walk'.found = walk.found \o given
          /\ walk' = [kids |-> walk'.kids, stack |-> walk'.stack, left |-> walk'.left, found |-> walk'.found]
      BY <2>5
    <2>10. WalkInv'
      <3>1. Len(walk'.found) + walk'.left <= Cardinality(DOMAIN objs)
        BY <1>1, <2>6, <2>7, <2>8, <2>9
      <3> QED BY <1>1, <2>4, <2>6, <2>7, <2>9, <3>1 DEF WalkInv, PagesBounded
    <2>11. Uses(walk, walk')
      <3>1. Len(walk.stack) \in Nat
        BY DEF WalkInv
      <3> QED BY <2>7, <2>9, <3>1 DEF Uses
    <2> QED BY <2>10, <2>11
  <1> QED BY <1>2, <1>3, <1>4

\* However the page tree of a document loops, the iterator gives no more pages than
\* the document has objects.
THEOREM NoMorePagesThanObjects == Spec => []PagesBounded
  <1>1. Init => WalkInv
    BY StartIsBounded
  <1>2. WalkInv /\ [Step]_vars => WalkInv'
    <2>1. WalkInv /\ Step => WalkInv'
      BY TurnIsBounded
    <2>2. WalkInv /\ UNCHANGED vars => WalkInv'
      BY DEF WalkInv, vars, PagesBounded
    <2> QED BY <2>1, <2>2
  <1>3. WalkInv => PagesBounded
    BY DEF WalkInv
  <1> QED BY <1>1, <1>2, <1>3, PTL DEF Spec

\* Every turn of the loops takes an entry off the limit, or a level off the stack that
\* such a turn put there: a natural number goes down, so that there are finitely many.
THEOREM EveryTurnUsesUp ==
    Spec => [][2 * walk'.left + Len(walk'.stack) < 2 * walk.left + Len(walk.stack)]_vars
  <1>1. Init => WalkInv
    BY StartIsBounded
  <1>2. WalkInv /\ [Step]_vars => WalkInv'
    <2>1. WalkInv /\ Step => WalkInv'
      BY TurnIsBounded
    <2>2. WalkInv /\ UNCHANGED vars => WalkInv'
      BY DEF WalkInv, vars, PagesBounded
    <2> QED BY <2>1, <2>2
  <1>3. WalkInv /\ [Step]_vars =>
            [2 * walk'.left + Len(walk'.stack) < 2 * walk.left + Len(walk.stack)]_vars
    BY TurnIsBounded DEF Uses
  <1> QED BY <1>1, <1>2, <1>3, PTL DEF Spec

-----------------------------------------------------------------------------
(***************************************************************************)
(* Induction and recursion over the natural numbers, with sets and         *)
(* functions in the place of operators.                                    *)
(***************************************************************************)
LEMMA SetInduction ==
    ASSUME NEW T, 0 \in T, \A n \in Nat : n \in T => n + 1 \in T
    PROVE  \A n \in Nat : n \in T
  <1> DEFINE M == Nat \ T
             R == OpToRel(<, Nat)
  <1>1. SUFFICES M = {}
    OBVIOUS
  <1>2. SUFFICES ASSUME M # {}
                 PROVE  FALSE
    OBVIOUS
  <1>3. M \subseteq Nat
    OBVIOUS
  <1>4. IsWellFoundedOn(R, Nat)
    BY NatLessThanWellFounded
  <1> HIDE DEF R, M
  <1>5. PICK x \in M : \A y \in M : ~ (<<y, x>> \in R)
    BY <1>2, <1>3, <1>4, WFMin
  <1>6. \A y \in M : ~ (y < x)
    BY <1>3, <1>5 DEF R, OpToRel
  <1>7. x \in Nat /\ x \notin T /\ x # 0
    BY DEF M
  <1>8. x - 1 \in Nat /\ (x - 1) + 1 = x /\ x - 1 < x
    BY <1>7
  <1>9. x - 1 \notin T
    BY <1>7, <1>8
  <1> QED
    BY <1>6, <1>8, <1>9 DEF M

LEMMA IntervalInduction ==
    ASSUME NEW T, NEW n \in Nat, 1 \in T, \A i \in 1 .. n - 1 : i \in T => i + 1 \in T
    PROVE  \A i \in 1 .. n : i \in T
  <1> DEFINE U == {i \in Nat : i + 1 <= n => i + 1 \in T}
  <1>1. 0 \in U
    OBVIOUS
  <1>2. ASSUME NEW i \in Nat, i \in U
        PROVE  i + 1 \in U
    <2>1. CASE i + 2 <= n
      <3>1. i + 1 \in 1 .. n - 1 /\ i + 1 <= n /\ (i + 1) + 1 = i + 2
        BY <2>1
      <3>2. i + 1 \in T
        BY <1>2, <3>1
      <3>3. (i + 1) + 1 \in T
        BY <3>1, <3>2
      <3> QED
        BY <3>3
    <2>2. CASE ~(i + 2 <= n)
      BY <2>2
    <2> QED
      BY <2>1, <2>2
  <1> HIDE DEF U
  <1>3. \A i \in Nat : i \in U
    BY <1>1, <1>2, SetInduction
  <1>4. ASSUME NEW i \in 1 .. n
        PROVE  i \in T
    <2>1. i - 1 \in Nat /\ (i - 1) + 1 = i
      OBVIOUS
    <2>2. i - 1 \in U
      BY <1>3, <2>1
    <2> QED
      BY <2>1, <2>2 DEF U
  <1> QED
    BY <1>4

Recursion(f, S, first, step) ==
    f \in [Nat -> S] /\ f[0] = first /\ \A n \in Nat : f[n + 1] = step[n][f[n]]

LEMMA RecursionExists ==
    ASSUME NEW S, NEW first \in S, NEW step \in [Nat -> [S -> S]]
    PROVE  \E f : Recursion(f, S, first, step)
  <1> DEFINE Starts(f, n) == f[0] = first /\ \A i \in Nat : i < n => f[i + 1] = step[i][f[i]]
             T == {n \in Nat : \E f \in [Nat -> S] : Starts(f, n)}
  <1>1. 0 \in T
    <2>1. [n \in Nat |-> first] \in [Nat -> S] /\ Starts([n \in Nat |-> first], 0)
      OBVIOUS
    <2> QED
      BY <2>1
  <1>2. ASSUME NEW n \in Nat, n \in T
        PROVE  n + 1 \in T
    <2>1. PICK f \in [Nat -> S] : Starts(f, n)
      BY <1>2
    <2> DEFINE g == [i \in Nat |-> IF i <= n THEN f[i] ELSE step[n][f[n]]]
    <2>2. g \in [Nat -> S]
      <3>1. step[n][f[n]] \in S
        OBVIOUS
      <3> QED
        BY <3>1
    <2>3. g[0] = first
      BY <2>1
    <2>4. ASSUME NEW i \in Nat, i < n + 1
          PROVE  g[i + 1] = step[i][g[i]]
      <3>1. CASE i < n
        BY <2>1, <3>1
      <3>2. CASE i = n
        BY <3>2
      <3> QED
        BY <2>4, <3>1, <3>2
    <2> HIDE DEF g
    <2>5. Starts(g, n + 1)
      BY <2>3, <2>4
    <2> QED
      BY <2>2, <2>5
  <1> HIDE DEF T
  <1>3. \A n \in Nat : n \in T
    BY <1>1, <1>2, SetInduction
  <1> DEFINE some == [n \in Nat |-> CHOOSE f \in [Nat -> S] : Starts(f, n)]
             f == [n \in Nat |-> some[n][n]]
  <1>4. \A n \in Nat : some[n] \in [Nat -> S] /\ Starts(some[n], n)
    BY <1>3 DEF T
  <1> HIDE DEF some
  <1>5. f \in [Nat -> S]
    BY <1>4
  <1>6. ASSUME NEW n \in Nat
        PROVE  some[n + 1][n] = some[n][n]
    <2> DEFINE U == {i \in Nat : i <= n => some[n + 1][i] = some[n][i]}
    <2>1. 0 \in U
      BY <1>4
    <2>2. ASSUME NEW i \in Nat, i \in U
          PROVE  i + 1 \in U
      <3>1. CASE i < n
        BY <1>4, <2>2, <3>1
      <3>2. CASE ~(i < n)
        BY <3>2
      <3> QED
        BY <3>1, <3>2
    <2> HIDE DEF U
    <2>3. n \in U
      BY <2>1, <2>2, SetInduction
    <2> QED
      BY <2>3 DEF U
  <1>7. f[0] = first
    BY <1>4
  <1>8. ASSUME NEW n \in Nat
        PROVE  f[n + 1] = step[n][f[n]]
    <2>1. some[n + 1][n + 1] = step[n][some[n + 1][n]]
      BY <1>4
    <2> QED
      BY <1>6, <2>1
  <1> HIDE DEF f
  <1>9. Recursion(f, S, first, step)
    BY <1>5, <1>7, <1>8 DEF Recursion
  <1> QED
    BY <1>9

-----------------------------------------------------------------------------
(***************************************************************************)
(* FlattenSeq.                                                             *)
(***************************************************************************)
\* g[i] is made of the first i sequences.
Flattens(g, s, D) ==
    /\ g \in [1 .. Len(s) -> Seq(D)]
    /\ FlattenSeq(s) = g[Len(s)] /\ g[1] = s[1]
    /\ \A i \in 1 .. Len(s) - 1 : g[i + 1] = g[i] \o s[i + 1]

LEMMA FlattenIs ==
    ASSUME NEW D, NEW s \in Seq(Seq(D)), s # << >>
    PROVE  \E g : Flattens(g, s, D)
  <1> DEFINE n == Len(s)
  <1>1. n \in Nat \ {0} /\ \A i \in 1 .. n : s[i] \in Seq(D)
    OBVIOUS
  <1>a. 1 \in 1 .. n /\ s[1] \in Seq(D)
    BY <1>1
  <1> DEFINE step == [i \in Nat |-> [x \in Seq(D) |-> IF i + 2 \in 1 .. n THEN x \o s[i + 2] ELSE x]]
  <1>2. step \in [Nat -> [Seq(D) -> Seq(D)]]
    <2>1. ASSUME NEW i \in Nat, NEW x \in Seq(D)
          PROVE  (IF i + 2 \in 1 .. n THEN x \o s[i + 2] ELSE x) \in Seq(D)
      BY <1>1, ConcatProperties
    <2> QED
      BY <2>1
  <1>3. \A i \in Nat, x \in Seq(D) :
          step[i][x] = IF i + 2 \in 1 .. n THEN x \o s[i + 2] ELSE x
    OBVIOUS
  <1> HIDE DEF step
  <1>4. PICK f \in [Nat -> Seq(D)] : f[0] = s[1] /\ \A i \in Nat : f[i + 1] = step[i][f[i]]
    <2> DEFINE S == Seq(D)
               first == s[1]
    <2>1. first \in S /\ step \in [Nat -> [S -> S]]
      BY <1>1, <1>2
    <2> HIDE DEF S, first
    <2>2. \E f : Recursion(f, S, first, step)
      BY <2>1, RecursionExists
    <2> QED
      BY <2>2 DEF S, first, Recursion
  <1> DEFINE Is(g) == g = [i \in 1 .. n |-> IF i = 1 THEN s[i] ELSE g[i - 1] \o s[i]]
             h == [i \in 1 .. n |-> f[i - 1]]
  <1>5. Is(h)
    <2>1. ASSUME NEW i \in 1 .. n
          PROVE  h[i] = IF i = 1 THEN s[i] ELSE h[i - 1] \o s[i]
      <3>1. CASE i = 1
        BY <1>1, <1>4, <3>1
      <3>2. CASE i # 1
        <4>1. i - 2 \in Nat /\ (i - 2) + 1 = i - 1 /\ (i - 2) + 2 = i /\ i - 1 \in 1 .. n
              /\ (i - 1) - 1 = i - 2
          BY <3>2
        <4> DEFINE j == i - 2
        <4>2. j \in Nat /\ f[j + 1] = step[j][f[j]] /\ f[j] \in Seq(D)
          BY <1>4, <4>1
        <4>3. step[j][f[j]] = IF j + 2 \in 1 .. n THEN f[j] \o s[j + 2] ELSE f[j]
          BY <1>3, <4>2
        <4>4. f[i - 1] = f[i - 2] \o s[i]
          BY <4>1, <4>2, <4>3
        <4> QED
          BY <3>2, <4>1, <4>4
      <3> QED
        BY <3>1, <3>2
    <2> QED
      BY <2>1
  <1> DEFINE g == CHOOSE g : Is(g)
  <1>6. Is(g)
    <2> HIDE DEF h
    <2> QED
      BY <1>5
  <1>7. FlattenSeq(s) = g[n]
    BY <1>1 DEF FlattenSeq
  <1> HIDE DEF g, h
  <1>8. g[1] = s[1] /\ \A i \in 1 .. n - 1 : g[i + 1] = g[i] \o s[i + 1]
    <2>1. \A i \in 1 .. n : g[i] = IF i = 1 THEN s[i] ELSE g[i - 1] \o s[i]
      BY <1>6
    <2>2. 1 \in 1 .. n
      BY <1>1
    <2>3. ASSUME NEW i \in 1 .. n - 1
          PROVE  g[i + 1] = g[i] \o s[i + 1]
      <3>1. i + 1 \in 1 .. n /\ i + 1 # 1 /\ (i + 1) - 1 = i
        BY <1>1
      <3> QED
        BY <2>1, <3>1
    <2> QED
      BY <2>1, <2>2, <2>3
  <1>9. \A i \in 1 .. n : g[i] \in Seq(D)
    <2> DEFINE U == {i \in 1 .. n : g[i] \in Seq(D)}
    <2>1. 1 \in U
      BY <1>8, <1>a
    <2>2. ASSUME NEW i \in 1 .. n - 1, i \in U
          PROVE  i + 1 \in U
      <3>1. i + 1 \in 1 .. n
        BY <1>1
      <3>2. g[i + 1] = g[i] \o s[i + 1] /\ g[i] \in Seq(D) /\ s[i + 1] \in Seq(D)
        BY <1>1, <1>8, <2>2, <3>1
      <3>3. g[i] \o s[i + 1] \in Seq(D)
        BY <3>2, ConcatProperties
      <3> QED
        BY <3>1, <3>2, <3>3
    <2> HIDE DEF U
    <2>3. \A i \in 1 .. n : i \in U
      BY <1>1, <2>1, <2>2, IntervalInduction
    <2> QED
      BY <2>3 DEF U
  <1>10. g \in [1 .. n -> Seq(D)]
    BY <1>6, <1>9
  <1>11. Flattens(g, s, D)
    BY <1>1, <1>7, <1>8, <1>10 DEF Flattens
  <1> QED
    BY <1>11

LEMMA FlattenEmpty == FlattenSeq(<< >>) = << >>
  BY DEF FlattenSeq

LEMMA FlattenType ==
    ASSUME NEW D, NEW s \in Seq(Seq(D))
    PROVE  FlattenSeq(s) \in Seq(D)
  <1>1. CASE s = << >>
    <2>1. FlattenSeq(s) = << >>
      BY <1>1, FlattenEmpty
    <2> QED
      BY <2>1
  <1>2. CASE s # << >>
    <2>1. Len(s) \in 1 .. Len(s)
      BY <1>2
    <2>2. PICK g : Flattens(g, s, D)
      BY <1>2, FlattenIs
    <2> QED
      BY <2>1, <2>2 DEF Flattens
  <1> QED
    BY <1>1, <1>2

\* The first sequence, and then the others.
LEMMA FlattenHead ==
    ASSUME NEW D, NEW s \in Seq(Seq(D)), s # << >>
    PROVE  FlattenSeq(s) = Head(s) \o FlattenSeq(Tail(s))
  <1> DEFINE n == Len(s)
             t == Tail(s)
  <1>1. /\ n \in Nat \ {0} /\ t \in Seq(Seq(D)) /\ Len(t) = n - 1 /\ Head(s) = s[1]
        /\ s[1] \in Seq(D) /\ \A i \in 1 .. n - 1 : t[i] = s[i + 1] /\ t[i] \in Seq(D)
    OBVIOUS
  <1>0. PICK g : Flattens(g, s, D)
    BY FlattenIs
  <1>2. /\ g \in [1 .. n -> Seq(D)] /\ FlattenSeq(s) = g[n] /\ g[1] = s[1]
        /\ \A i \in 1 .. n - 1 : g[i + 1] = g[i] \o s[i + 1]
    BY <1>0 DEF Flattens
  <1> HIDE DEF t
  <1>3. CASE n = 1
    <2>1. t = << >>
      BY <1>1, <1>3
    <2>2. g[1] \o << >> = g[1]
      BY <1>1, <1>2, ConcatEmptySeq
    <2> QED
      BY <1>1, <1>2, <1>3, <2>1, <2>2, FlattenEmpty DEF t
  <1>4. CASE n # 1
    <2>1. t # << >>
      BY <1>1, <1>4
    <2> DEFINE m == n - 1
    <2>0. PICK h : Flattens(h, t, D)
      BY <1>1, <2>1, FlattenIs
    <2>2. /\ h \in [1 .. m -> Seq(D)] /\ FlattenSeq(t) = h[m] /\ h[1] = t[1]
          /\ \A i \in 1 .. m - 1 : h[i + 1] = h[i] \o t[i + 1]
      BY <1>1, <2>0 DEF Flattens
    <2>a. m \in Nat /\ 1 \in 1 .. m /\ m \in 1 .. m /\ n = m + 1 /\ m + 1 \in 1 .. n
      BY <1>1, <1>4
    <2> HIDE DEF m
    <2> DEFINE U == {i \in 1 .. m : g[i + 1] = s[1] \o h[i]}
    <2>3. 1 \in U
      <3>1. g[1 + 1] = g[1] \o s[1 + 1]
        <4>1. 1 \in 1 .. n - 1
          BY <1>1, <1>4
        <4> QED
          BY <1>2, <4>1
      <3>2. t[1] = s[1 + 1]
        BY <1>1, <2>a
      <3> QED
        BY <1>2, <2>2, <2>a, <3>1, <3>2
    <2>4. ASSUME NEW i \in 1 .. m - 1, i \in U
          PROVE  i + 1 \in U
      <3>1. i \in 1 .. m /\ i + 1 \in 1 .. m /\ i + 1 \in 1 .. n - 1
        BY <2>a
      <3>2. g[(i + 1) + 1] = g[i + 1] \o s[(i + 1) + 1]
        BY <1>2, <3>1
      <3>3. h[i + 1] = h[i] \o t[i + 1]
        BY <2>2
      <3>4. t[i + 1] = s[(i + 1) + 1] /\ t[i + 1] \in Seq(D) /\ h[i] \in Seq(D) /\ s[1] \in Seq(D)
        BY <1>1, <2>2, <3>1
      <3>5. g[i + 1] = s[1] \o h[i]
        BY <2>4
      <3> DEFINE a == s[1]
                 b == h[i]
                 c == t[i + 1]
      <3>6. a \in Seq(D) /\ b \in Seq(D) /\ c \in Seq(D)
        BY <3>4
      <3> HIDE DEF a, b, c
      <3>7. (a \o b) \o c = a \o (b \o c)
        BY <3>6, ConcatAssociative, SMTT(30)
      <3>8. g[(i + 1) + 1] = s[1] \o h[i + 1]
        BY <3>2, <3>3, <3>4, <3>5, <3>7 DEF a, b, c
      <3> QED
        BY <3>1, <3>8
    <2> HIDE DEF U
    <2>5. m \in U
      BY <2>3, <2>4, <2>a, IntervalInduction
    <2>6. g[m + 1] = s[1] \o h[m]
      BY <2>5 DEF U
    <2> QED
      BY <1>1, <1>2, <2>2, <2>6, <2>a DEF t
  <1> QED
    BY <1>3, <1>4

-----------------------------------------------------------------------------
(***************************************************************************)
(* A tree, and the leaves below each of its nodes.                         *)
(***************************************************************************)
KidAt(objs, n, i) == KidsOf(objs, n)[i].id

Sound(objs, nodes, root) ==
    /\ nodes \subseteq DOMAIN objs /\ root \in nodes /\ objs[root].type = "Pages"
    /\ \A n \in nodes :
          /\ objs[n].type = IF "Kids" \in DOMAIN objs[n].lists THEN "Pages" ELSE "Page"
          /\ \A i \in DOMAIN KidsOf(objs, n) : KidAt(objs, n, i) \in nodes \ {root}
    /\ \A n, m \in nodes : \A i \in DOMAIN KidsOf(objs, n), j \in DOMAIN KidsOf(objs, m) :
          KidAt(objs, n, i) = KidAt(objs, m, j) => n = m /\ i = j

\* The leaves below the nodes of a list.
Below(leaves, kids) == FlattenSeq([i \in DOMAIN kids |-> leaves[kids[i].id]])

Leafy(objs, nodes, leaves) ==
    /\ leaves \in [nodes -> Seq(nodes)]
    /\ \A n \in nodes :
          leaves[n] = IF objs[n].type = "Page" THEN <<n>> ELSE Below(leaves, KidsOf(objs, n))

LEMMA BelowFacts ==
    ASSUME NEW nodes, NEW leaves \in [nodes -> Seq(nodes)],
           NEW kids \in Seq(Refs), \A i \in 1 .. Len(kids) : kids[i].id \in nodes
    PROVE  /\ Below(leaves, kids) \in Seq(nodes)
           /\ kids = << >> => Below(leaves, kids) = << >>
           /\ kids # << >> => Below(leaves, kids) = leaves[kids[1].id] \o Below(leaves, Tail(kids))
  <1> DEFINE s == [i \in DOMAIN kids |-> leaves[kids[i].id]]
             n == Len(kids)
  <1>1. n \in Nat /\ DOMAIN kids = 1 .. n
    OBVIOUS
  <1>2. s \in Seq(Seq(nodes)) /\ Len(s) = n /\ \A i \in 1 .. n : s[i] = leaves[kids[i].id]
    <2>1. \A i \in 1 .. n : leaves[kids[i].id] \in Seq(nodes)
      OBVIOUS
    <2> QED
      BY <1>1, <2>1
  <1> HIDE DEF s
  <1>3. Below(leaves, kids) = FlattenSeq(s)
    BY DEF Below, s
  <1>4. Below(leaves, kids) \in Seq(nodes)
    BY <1>2, <1>3, FlattenType
  <1>5. ASSUME kids = << >>
        PROVE  Below(leaves, kids) = << >>
    <2>1. n = 0
      BY <1>5
    <2>2. s = << >>
      BY <1>2, <2>1
    <2> QED
      BY <1>3, <2>2, FlattenEmpty
  <1>6. ASSUME kids # << >>
        PROVE  Below(leaves, kids) = leaves[kids[1].id] \o Below(leaves, Tail(kids))
    <2> DEFINE t == [i \in DOMAIN Tail(kids) |-> leaves[Tail(kids)[i].id]]
    <2>1. n # 0 /\ s # << >>
      BY <1>1, <1>2, <1>6
    <2>2. FlattenSeq(s) = Head(s) \o FlattenSeq(Tail(s))
      BY <1>2, <2>1, FlattenHead
    <2>3. Head(s) = leaves[kids[1].id]
      BY <1>1, <1>2, <2>1
    <2>4. Tail(s) = t
      <3>1. /\ Tail(kids) \in Seq(Refs) /\ Len(Tail(kids)) = n - 1
            /\ \A i \in 1 .. n - 1 : Tail(kids)[i] = kids[i + 1]
        BY <1>1, <1>6
      <3>2. /\ Tail(s) \in Seq(Seq(nodes)) /\ Len(Tail(s)) = n - 1
            /\ \A i \in 1 .. n - 1 : Tail(s)[i] = s[i + 1]
        BY <1>1, <1>2, <2>1
      <3>3. \A i \in 1 .. n - 1 : i + 1 \in 1 .. n
        BY <1>1
      <3>4. \A i \in 1 .. n - 1 : Tail(s)[i] = leaves[Tail(kids)[i].id]
        BY <1>2, <3>1, <3>2, <3>3
      <3>5. t \in Seq(Seq(nodes)) /\ Len(t) = n - 1 /\ \A i \in 1 .. n - 1 : t[i] = Tail(s)[i]
        <4>1. DOMAIN Tail(kids) = 1 .. n - 1 /\ n - 1 \in Nat
          BY <1>1, <2>1, <3>1
        <4>2. t = [i \in 1 .. n - 1 |-> leaves[Tail(kids)[i].id]]
          BY <4>1
        <4>3. \A i \in 1 .. n - 1 : Tail(s)[i] \in Seq(nodes)
          BY <1>2, <3>2, <3>3
        <4> HIDE DEF t
        <4> DEFINE u == Tail(s)
                   v == Tail(kids)
        <4>4. /\ t = [i \in 1 .. n - 1 |-> leaves[v[i].id]]
              /\ \A i \in 1 .. n - 1 : u[i] = leaves[v[i].id] /\ u[i] \in Seq(nodes)
          BY <3>4, <4>2, <4>3
        <4> HIDE DEF u, v
        <4>5. \A i \in 1 .. n - 1 : t[i] = u[i]
          BY <4>4
        <4>6. t \in [1 .. n - 1 -> Seq(nodes)]
          BY <4>4
        <4>7. t \in Seq(Seq(nodes)) /\ Len(t) = n - 1
          <5> DEFINE S == Seq(nodes)
                     m == n - 1
          <5>1. m \in Nat /\ t \in [1 .. m -> S]
            BY <4>1, <4>6
          <5> HIDE DEF S, m
          <5>2. t \in Seq(S) /\ Len(t) = m
            BY <5>1
          <5> QED
            BY <5>2 DEF S, m
        <4> QED
          BY <4>5, <4>7 DEF u
      <3> HIDE DEF t
      <3> QED
        BY <3>2, <3>5, SeqEqual
    <2> QED
      BY <1>3, <2>2, <2>3, <2>4 DEF Below
  <1> QED
    BY <1>4, <1>5, <1>6

\* What is left of the kids of a node from the i-th on.
From(objs, n, i) == SubSeq(KidsOf(objs, n), i, Len(KidsOf(objs, n)))

LEMMA FromFacts ==
    ASSUME NEW objs, IsObjects(objs), NEW n, NEW i \in 1 .. Len(KidsOf(objs, n)) + 1
    PROVE  /\ From(objs, n, i) \in Seq(Refs)
           /\ Len(From(objs, n, i)) = Len(KidsOf(objs, n)) - i + 1
           /\ \A j \in 1 .. Len(From(objs, n, i)) :
                 /\ i + j - 1 \in i .. Len(KidsOf(objs, n)) /\ i + j - 1 \in DOMAIN KidsOf(objs, n)
                 /\ From(objs, n, i)[j] = KidsOf(objs, n)[i + j - 1]
           /\ From(objs, n, i) # << >> =>
                 /\ i \in DOMAIN KidsOf(objs, n) /\ i + 1 \in 1 .. Len(KidsOf(objs, n)) + 1
                 /\ Head(From(objs, n, i)) = KidsOf(objs, n)[i]
                 /\ Tail(From(objs, n, i)) = From(objs, n, i + 1)
  <1> DEFINE k == KidsOf(objs, n)
             l == Len(k)
             f == From(objs, n, i)
  <1>1. k \in Seq(Refs)
    BY KidsAreRefs
  <1> HIDE DEF k
  <1>2. l \in Nat /\ i \in Nat /\ i >= 1 /\ i <= l + 1 /\ DOMAIN k = 1 .. l
    BY <1>1 DEF k
  <1>3. f = SubSeq(k, i, l)
    BY DEF From, k
  <1> HIDE DEF f
  <1>4. \A j \in i .. l : k[j] \in Refs
    BY <1>1, <1>2
  <1>5. f \in Seq(Refs)
    BY <1>2, <1>3, <1>4, SubSeqProperties
  <1>6. Len(f) = l - i + 1
    BY <1>2, <1>3
  <1>7. \A j \in 1 .. Len(f) : i + j - 1 \in i .. l /\ i + j - 1 \in 1 .. l
    BY <1>2, <1>6
  <1>8. \A j \in 1 .. Len(f) : f[j] = k[i + j - 1]
    BY <1>2, <1>3, <1>6
  <1>9. ASSUME f # << >>
        PROVE  /\ i \in 1 .. l /\ i + 1 \in 1 .. l + 1
               /\ Head(f) = k[i] /\ Tail(f) = SubSeq(k, i + 1, l)
    <2>1. i <= l
      BY <1>2, <1>5, <1>6, <1>9
    <2>2. i \in 1 .. Len(k) /\ l \in i .. Len(k)
      BY <1>2, <2>1
    <2>3. Head(f) = k[i] /\ Tail(f) = SubSeq(k, i + 1, l)
      BY <1>1, <1>3, <2>2, HeadTailOfSubSeq
    <2> QED
      BY <1>2, <2>1, <2>3
  <1> QED
    BY <1>2, <1>5, <1>6, <1>7, <1>8, <1>9 DEF f, From, k

\* What has been found, what is below the entries being read, and what is below those
\* put aside are together the leaves of the tree: tail[j] is below the first j levels.
Split(nodes, leaves, root, w, tail) ==
    /\ w.found \in Seq(nodes)
    /\ tail \in [0 .. Len(w.stack) -> Seq(nodes)] /\ tail[0] = << >>
    /\ \A j \in 1 .. Len(w.stack) : tail[j] = Below(leaves, w.stack[j]) \o tail[j - 1]
    /\ leaves[root] = w.found \o (Below(leaves, w.kids) \o tail[Len(w.stack)])

Listed(nodes, kids) == kids \in Seq(Refs) /\ \A i \in 1 .. Len(kids) : kids[i].id \in nodes

LEMMA BelowNothing ==
    ASSUME NEW leaves
    PROVE  Below(leaves, << >>) = << >>
  <1>1. [i \in DOMAIN << >> |-> leaves[<< >>[i].id]] = << >>
    OBVIOUS
  <1> QED
    BY <1>1, FlattenEmpty DEF Below

LEMMA SplitPopped ==
    ASSUME NEW nodes, NEW leaves \in [nodes -> Seq(nodes)], NEW root \in nodes, NEW w, NEW v, NEW tail,
           Split(nodes, leaves, root, w, tail), w.stack \in Seq(Seq(Refs)), w.stack # << >>,
           w.kids = << >>, v.found = w.found, Len(v.stack) = Len(w.stack) - 1,
           v.kids = w.stack[Len(w.stack)], \A j \in 1 .. Len(w.stack) - 1 : v.stack[j] = w.stack[j]
    PROVE  \E t : Split(nodes, leaves, root, v, t)
  <1> DEFINE l == Len(w.stack)
             t == [j \in 0 .. l - 1 |-> tail[j]]
  <1>1. l \in Nat \ {0} /\ l \in 1 .. l /\ l \in 0 .. l /\ l - 1 \in 0 .. l - 1 /\ 0 \in 0 .. l - 1
    BY EmptySeq
  <1>2. /\ w.found \in Seq(nodes) /\ tail \in [0 .. l -> Seq(nodes)] /\ tail[0] = << >>
        /\ \A j \in 1 .. l : tail[j] = Below(leaves, w.stack[j]) \o tail[j - 1]
        /\ leaves[root] = w.found \o (Below(leaves, w.kids) \o tail[l])
    BY DEF Split
  <1>3. Below(leaves, w.kids) = << >>
    BY BelowNothing
  <1>4. leaves[root] = w.found \o tail[l]
    <2>1. tail[l] \in Seq(nodes)
      BY <1>1, <1>2
    <2>2. << >> \o tail[l] = tail[l]
      BY <2>1, ConcatEmptySeq
    <2> QED
      BY <1>2, <1>3, <2>2
  <1>5. leaves[root] = v.found \o (Below(leaves, v.kids) \o tail[l - 1])
    BY <1>1, <1>2, <1>4
  <1>6. t \in [0 .. l - 1 -> Seq(nodes)] /\ t[0] = << >> /\ t[l - 1] = tail[l - 1]
    BY <1>1, <1>2
  <1>7. \A j \in 1 .. l - 1 : t[j] = Below(leaves, v.stack[j]) \o t[j - 1]
    <2>1. ASSUME NEW j \in 1 .. l - 1
          PROVE  t[j] = Below(leaves, v.stack[j]) \o t[j - 1]
      <3>1. j \in 1 .. l /\ j \in 0 .. l - 1 /\ j - 1 \in 0 .. l - 1 /\ v.stack[j] = w.stack[j]
        BY <1>1
      <3> QED
        BY <1>2, <3>1
    <2> QED
      BY <2>1
  <1> HIDE DEF t
  <1>8. Split(nodes, leaves, root, v, t)
    BY <1>1, <1>2, <1>5, <1>6, <1>7 DEF Split
  <1> QED
    BY <1>8

LEMMA SplitDescended ==
    ASSUME NEW nodes, NEW leaves \in [nodes -> Seq(nodes)], NEW root \in nodes, NEW w, NEW v, NEW tail,
           Split(nodes, leaves, root, w, tail), w.stack \in Seq(Seq(Refs)),
           Listed(nodes, w.kids), w.kids # << >>, Tail(w.kids) # << >>, Listed(nodes, Tail(w.kids)),
           leaves[Head(w.kids).id] = Below(leaves, v.kids), Listed(nodes, v.kids),
           v.found = w.found, Len(v.stack) = Len(w.stack) + 1,
           v.stack[Len(w.stack) + 1] = Tail(w.kids), \A j \in 1 .. Len(w.stack) : v.stack[j] = w.stack[j]
    PROVE  \E t : Split(nodes, leaves, root, v, t)
  <1> DEFINE l == Len(w.stack)
             rest == Below(leaves, Tail(w.kids))
             under == Below(leaves, v.kids)
             t == [j \in 0 .. l + 1 |-> IF j = l + 1 THEN rest \o tail[l] ELSE tail[j]]
  <1>1. l \in Nat /\ l \in 0 .. l /\ 0 \in 0 .. l + 1 /\ l + 1 \in 0 .. l + 1 /\ 0 # l + 1
    OBVIOUS
  <1>2. /\ w.found \in Seq(nodes) /\ tail \in [0 .. l -> Seq(nodes)] /\ tail[0] = << >>
        /\ \A j \in 1 .. l : tail[j] = Below(leaves, w.stack[j]) \o tail[j - 1]
        /\ leaves[root] = w.found \o (Below(leaves, w.kids) \o tail[l])
    BY DEF Split
  <1>3. rest \in Seq(nodes) /\ under \in Seq(nodes)
    BY BelowFacts DEF Listed
  <1>4. Below(leaves, w.kids) = under \o rest
    <2>1. Below(leaves, w.kids) = leaves[w.kids[1].id] \o Below(leaves, Tail(w.kids))
      BY BelowFacts DEF Listed
    <2>2. Head(w.kids) = w.kids[1]
      BY DEF Listed
    <2> QED
      BY <2>1, <2>2
  <1> DEFINE a == tail[l]
  <1>a. a \in Seq(nodes)
    BY <1>1, <1>2
  <1>6. rest \o a \in Seq(nodes)
    BY <1>3, <1>a, ConcatProperties
  <1>7. leaves[root] = v.found \o (under \o (rest \o a))
    <2>1. (under \o rest) \o a = under \o (rest \o a)
      <3> HIDE DEF under, rest, a, t, l
      <3> QED
        BY <1>3, <1>a, ConcatAssociative, SMTT(30)
    <2> QED
      BY <1>2, <1>4, <2>1
  <1> HIDE DEF rest, under
  <1>8. t \in [0 .. l + 1 -> Seq(nodes)] /\ t[0] = << >> /\ t[l + 1] = rest \o a
    <2>1. ASSUME NEW j \in 0 .. l + 1
          PROVE  (IF j = l + 1 THEN rest \o tail[l] ELSE tail[j]) \in Seq(nodes)
      <3>1. j # l + 1 => j \in 0 .. l
        BY <1>1
      <3> QED
        BY <1>2, <1>6, <3>1
    <2>2. tail[0] = << >>
      BY <1>2
    <2> HIDE DEF rest
    <2> QED
      BY <1>1, <2>1, <2>2
  <1>9. \A j \in 1 .. l + 1 : t[j] = Below(leaves, v.stack[j]) \o t[j - 1]
    <2>1. ASSUME NEW j \in 1 .. l + 1
          PROVE  t[j] = Below(leaves, v.stack[j]) \o t[j - 1]
      <3>1. CASE j = l + 1
        <4>1. j - 1 = l /\ l \in 0 .. l + 1 /\ l # l + 1
          BY <1>1, <3>1
        <4>2. t[l] = a
          BY <4>1
        <4> HIDE DEF t
        <4> QED
          BY <1>8, <3>1, <4>1, <4>2 DEF rest
      <3>2. CASE j # l + 1
        <4>1. j \in 1 .. l /\ j \in 0 .. l + 1 /\ j - 1 \in 0 .. l + 1 /\ j - 1 # l + 1
          BY <1>1, <3>2
        <4>2. t[j] = tail[j] /\ t[j - 1] = tail[j - 1]
          BY <3>2, <4>1
        <4> HIDE DEF t
        <4> QED
          BY <1>2, <4>1, <4>2
      <3> QED
        BY <3>1, <3>2
    <2> QED
      BY <2>1
  <1> HIDE DEF t
  <1>10. Split(nodes, leaves, root, v, t)
    BY <1>1, <1>2, <1>7, <1>8, <1>9 DEF Split, under
  <1> QED
    BY <1>10

LEMMA SplitReplaced ==
    ASSUME NEW nodes, NEW leaves \in [nodes -> Seq(nodes)], NEW root \in nodes, NEW w, NEW v, NEW tail,
           Split(nodes, leaves, root, w, tail), w.stack \in Seq(Seq(Refs)),
           Listed(nodes, w.kids), w.kids # << >>, Tail(w.kids) = << >>,
           leaves[Head(w.kids).id] = Below(leaves, v.kids), Listed(nodes, v.kids),
           v.found = w.found, v.stack = w.stack
    PROVE  Split(nodes, leaves, root, v, tail)
  <1> DEFINE under == Below(leaves, v.kids)
  <1>1. under \in Seq(nodes)
    BY BelowFacts DEF Listed
  <1>2. Below(leaves, w.kids) = under
    <2>1. Below(leaves, w.kids) = leaves[w.kids[1].id] \o Below(leaves, Tail(w.kids))
      BY BelowFacts DEF Listed
    <2>2. Head(w.kids) = w.kids[1]
      BY DEF Listed
    <2>3. Below(leaves, << >>) = << >>
      BY BelowNothing
    <2>4. under \o << >> = under
      BY <1>1, ConcatEmptySeq
    <2> QED
      BY <2>1, <2>2, <2>3, <2>4
  <1> QED
    BY <1>2 DEF Split

LEMMA SplitPassed ==
    ASSUME NEW nodes, NEW leaves \in [nodes -> Seq(nodes)], NEW root \in nodes, NEW w, NEW v, NEW tail,
           Split(nodes, leaves, root, w, tail), w.stack \in Seq(Seq(Refs)),
           Listed(nodes, w.kids), w.kids # << >>, Listed(nodes, Tail(w.kids)),
           NEW x \in nodes, x = Head(w.kids).id, leaves[x] = <<x>>,
           v.found = w.found \o <<x>>, v.stack = w.stack, v.kids = Tail(w.kids)
    PROVE  Split(nodes, leaves, root, v, tail)
  <1> DEFINE l == Len(w.stack)
             f == w.found
             p == <<x>>
             rest == Below(leaves, Tail(w.kids))
             a == tail[l]
  <1>1. f \in Seq(nodes) /\ p \in Seq(nodes) /\ rest \in Seq(nodes) /\ a \in Seq(nodes)
    <2>1. l \in 0 .. l
      OBVIOUS
    <2>2. rest \in Seq(nodes)
      BY BelowFacts DEF Listed
    <2> QED
      BY <2>1, <2>2 DEF Split
  <1>2. Below(leaves, w.kids) = p \o rest
    <2>1. Below(leaves, w.kids) = leaves[w.kids[1].id] \o Below(leaves, Tail(w.kids))
      BY BelowFacts DEF Listed
    <2>2. Head(w.kids) = w.kids[1]
      BY DEF Listed
    <2> QED
      BY <2>1, <2>2
  <1>3. leaves[root] = f \o ((p \o rest) \o a)
    BY <1>2 DEF Split
  <1>4. f \o ((p \o rest) \o a) = (f \o p) \o (rest \o a) /\ f \o p \in Seq(nodes)
    <2> HIDE DEF f, p, rest, a, l
    <2>1. (p \o rest) \o a = p \o (rest \o a)
      BY <1>1, ConcatAssociative, SMTT(30)
    <2>2. rest \o a \in Seq(nodes) /\ f \o p \in Seq(nodes)
      BY <1>1, ConcatProperties
    <2> DEFINE r == rest \o a
    <2>3. r \in Seq(nodes)
      BY <2>2
    <2>4. (f \o p) \o r = f \o (p \o r)
      <3> HIDE DEF r
      <3>1. f \in Seq(nodes) /\ p \in Seq(nodes)
        BY <1>1
      <3> QED
        BY <2>3, <3>1, ConcatAssociative, SMTT(30)
    <2> QED
      BY <2>1, <2>2, <2>4 DEF r
  <1> QED
    BY <1>3, <1>4 DEF Split

Kin(objs, m, y) == \E i \in DOMAIN KidsOf(objs, m) : KidAt(objs, m, i) = y

\* The i-th kid of n and those after it have not been looked at.
Open(objs, seen, n, i) ==
    /\ objs[n].type = "Pages" /\ i <= Len(KidsOf(objs, n)) + 1
    /\ \A j \in DOMAIN KidsOf(objs, n) : j >= i => KidAt(objs, n, j) \notin seen

\* A node that fewer than d hops do not lead to.
Deep(hops, n, d) == \A k \in Nat : k < d => n \notin hops[k]

\* A node is led to one hop after its parent, not before.
OneByOne(objs, nodes, hops) ==
    \A k \in Nat : \A y \in hops[k], x \in nodes : Kin(objs, x, y) => k # 0 /\ x \in hops[k - 1]

LEMMA DeeperByOne ==
    ASSUME NEW objs, NEW nodes, NEW hops, OneByOne(objs, nodes, hops),
           NEW x \in nodes, NEW y, Kin(objs, x, y), NEW d \in Nat, Deep(hops, x, d)
    PROVE  Deep(hops, y, d + 1) /\ Deep(hops, y, d)
  <1>1. ASSUME NEW k \in Nat, k < d + 1, y \in hops[k]
        PROVE  FALSE
    <2>1. k # 0 /\ x \in hops[k - 1]
      BY <1>1 DEF OneByOne
    <2>2. k - 1 \in Nat /\ k - 1 < d
      BY <1>1, <2>1
    <2> QED
      BY <2>1, <2>2 DEF Deep
  <1>2. \A k \in Nat : k < d => k < d + 1
    OBVIOUS
  <1> QED
    BY <1>1, <1>2 DEF Deep

\* Whose kids are being read, and from where on: par[j] is the inner node of the j-th
\* level, which is as deep at least, and at[j] the place in its /Kids.
Levels(objs, nodes, root, hops, w, seen, par, at) ==
    /\ w.stack \in Seq(Seq(Refs)) /\ w.left \in Int
    /\ seen \subseteq nodes \ {root} /\ Cardinality(seen) + w.left = Cardinality(DOMAIN objs)
    /\ \A y \in seen : \E m \in seen \cup {root} : Kin(objs, m, y)
    /\ par \in [1 .. Len(w.stack) + 1 -> seen \cup {root}]
    /\ at \in [1 .. Len(w.stack) + 1 -> Nat \ {0}]
    /\ \A j, k \in 1 .. Len(w.stack) + 1 : par[j] = par[k] => j = k
    /\ \A j \in 1 .. Len(w.stack) + 1 : Open(objs, seen, par[j], at[j])
    /\ \A j \in 1 .. Len(w.stack) + 1 : Deep(hops, par[j], j - 1)
    /\ \A j \in 1 .. Len(w.stack) : w.stack[j] = From(objs, par[j], at[j])
    /\ w.kids = From(objs, par[Len(w.stack) + 1], at[Len(w.stack) + 1])

LEMMA OneParent ==
    ASSUME NEW objs, NEW nodes, NEW root, Sound(objs, nodes, root),
           NEW m \in nodes, NEW n \in nodes, NEW y, Kin(objs, m, y), Kin(objs, n, y)
    PROVE  m = n
  BY DEF Sound, Kin

LEMMA FromListed ==
    ASSUME NEW objs, IsObjects(objs), NEW nodes, NEW root, Sound(objs, nodes, root),
           NEW n \in nodes, NEW i \in Nat \ {0}, i <= Len(KidsOf(objs, n)) + 1
    PROVE  Listed(nodes, From(objs, n, i))
  <1>1. KidsOf(objs, n) \in Seq(Refs)
    BY KidsAreRefs
  <1>2. i \in 1 .. Len(KidsOf(objs, n)) + 1
    BY <1>1
  <1>3. /\ From(objs, n, i) \in Seq(Refs)
        /\ \A j \in 1 .. Len(From(objs, n, i)) :
              /\ i + j - 1 \in DOMAIN KidsOf(objs, n)
              /\ From(objs, n, i)[j] = KidsOf(objs, n)[i + j - 1]
    BY <1>2, FromFacts
  <1>4. \A j \in DOMAIN KidsOf(objs, n) : KidsOf(objs, n)[j].id \in nodes
    BY DEF Sound, KidAt
  <1> QED
    BY <1>3, <1>4 DEF Listed

LEMMA AllKids ==
    ASSUME NEW objs, IsObjects(objs), NEW n
    PROVE  From(objs, n, 1) = KidsOf(objs, n) /\ 1 <= Len(KidsOf(objs, n)) + 1
  <1> DEFINE k == KidsOf(objs, n)
  <1>1. k \in Seq(Refs)
    BY KidsAreRefs
  <1> HIDE DEF k
  <1>2. SubSeq(k, 1, Len(k)) = k /\ 1 <= Len(k) + 1
    BY <1>1
  <1> QED
    BY <1>2 DEF From, k

\* The first of the kids is x, and it has not been seen.
New(objs, nodes, root, w, seen, par, at, l, x) ==
    /\ x \in nodes \ {root} /\ x \notin seen /\ Kin(objs, par[l + 1], x)
    /\ Tail(w.kids) = From(objs, par[l + 1], at[l + 1] + 1)
    /\ Cardinality(seen \cup {x}) = Cardinality(seen) + 1 /\ w.left >= 1
    /\ \A j \in 1 .. l + 1 :
          Open(objs, seen \cup {x}, par[j], IF j = l + 1 THEN at[j] + 1 ELSE at[j])
    /\ objs[x].type = "Pages" => Open(objs, seen \cup {x}, x, 1)

LEMMA HeadIsNew ==
    ASSUME NEW objs, IsObjects(objs), IsFiniteSet(DOMAIN objs),
           NEW nodes, NEW root, Sound(objs, nodes, root),
           NEW hops, NEW w, NEW seen, NEW par, NEW at, Levels(objs, nodes, root, hops, w, seen, par, at),
           w.kids # << >>,
           NEW l, l = Len(w.stack), NEW x, x = Head(w.kids).id
    PROVE  New(objs, nodes, root, w, seen, par, at, l, x)
  <1> DEFINE n == par[l + 1]
             i == at[l + 1]
  <1>1. /\ l \in Nat /\ l + 1 \in 1 .. l + 1 /\ n \in seen \cup {root} /\ n \in nodes /\ i \in Nat \ {0}
        /\ seen \subseteq nodes \ {root} /\ root \in nodes /\ nodes \subseteq DOMAIN objs
    <2>1. l \in Nat /\ l + 1 \in 1 .. l + 1
      BY DEF Levels
    <2>2. n \in seen \cup {root} /\ i \in Nat \ {0} /\ seen \subseteq nodes \ {root}
      BY <2>1 DEF Levels
    <2> QED
      BY <2>1, <2>2 DEF Sound
  <1>2. w.kids = From(objs, n, i) /\ Open(objs, seen, n, i)
    BY <1>1 DEF Levels
  <1>3. KidsOf(objs, n) \in Seq(Refs) /\ i \in 1 .. Len(KidsOf(objs, n)) + 1
    BY <1>1, <1>2, KidsAreRefs DEF Open
  <1>4. /\ i \in DOMAIN KidsOf(objs, n) /\ i + 1 \in 1 .. Len(KidsOf(objs, n)) + 1
        /\ Head(w.kids) = KidsOf(objs, n)[i] /\ Tail(w.kids) = From(objs, n, i + 1)
    <2> HIDE DEF n, i
    <2>1. From(objs, n, i) # << >>
      BY <1>2
    <2> QED
      BY <1>2, <1>3, <2>1, FromFacts
  <1>5. x = KidAt(objs, n, i) /\ Kin(objs, n, x)
    BY <1>4 DEF KidAt, Kin
  <1>6. x \in nodes \ {root} /\ x \notin seen
    BY <1>1, <1>2, <1>4, <1>5 DEF Open, Sound
  <1>7. Cardinality(seen \cup {x}) = Cardinality(seen) + 1 /\ w.left >= 1
    <2>1. IsFiniteSet(seen) /\ IsFiniteSet(seen \cup {x, root})
      BY <1>1, <1>6, FS_Subset
    <2>2. Cardinality(seen \cup {x}) = Cardinality(seen) + 1
      BY <1>6, <2>1, FS_AddElement
    <2>3. seen \cup {x} \subseteq DOMAIN objs
      BY <1>1, <1>6
    <2>4. Cardinality(seen \cup {x}) <= Cardinality(DOMAIN objs)
      BY <2>3, FS_Subset
    <2>5. Cardinality(seen) \in Nat /\ Cardinality(DOMAIN objs) \in Nat
      BY <2>1, FS_CardinalityType
    <2> QED
      BY <2>2, <2>4, <2>5 DEF Levels
  <1>8. ASSUME NEW j \in 1 .. l + 1
        PROVE  Open(objs, seen \cup {x}, par[j], IF j = l + 1 THEN at[j] + 1 ELSE at[j])
    <2>1. /\ Open(objs, seen, par[j], at[j]) /\ par[j] \in nodes /\ at[j] \in Nat
          /\ par[j] = n => j = l + 1
      BY <1>1 DEF Levels
    <2>2. ASSUME NEW k \in DOMAIN KidsOf(objs, par[j]), KidAt(objs, par[j], k) = x
          PROVE  j = l + 1 /\ k = i
      BY <1>1, <1>4, <1>5, <2>1, <2>2 DEF Sound
    <2>3. CASE j = l + 1
      <3>1. \A k \in DOMAIN KidsOf(objs, n) : k >= i + 1 => KidAt(objs, n, k) \notin seen \cup {x}
        <4>1. ASSUME NEW k \in DOMAIN KidsOf(objs, n), k >= i + 1
              PROVE  KidAt(objs, n, k) \notin seen \cup {x}
          <5>1. k \in Nat /\ k >= i /\ k # i
            BY <1>1, <1>3, <4>1
          <5>2. KidAt(objs, n, k) \notin seen
            BY <1>2, <5>1 DEF Open
          <5> QED
            BY <2>2, <2>3, <5>1, <5>2
        <4> QED
          BY <4>1
      <3>2. i + 1 <= Len(KidsOf(objs, n)) + 1
        BY <1>3, <1>4
      <3> QED
        BY <1>2, <2>3, <3>1, <3>2 DEF Open
    <2>4. CASE j # l + 1
      BY <2>1, <2>2, <2>4 DEF Open
    <2> QED
      BY <2>3, <2>4
  <1>9. ASSUME NEW k \in DOMAIN KidsOf(objs, x)
        PROVE  KidAt(objs, x, k) \notin seen \cup {x}
    <2>1. Kin(objs, x, KidAt(objs, x, k))
      BY DEF Kin
    <2>2. KidAt(objs, x, k) # x
      <3>1. n # x
        BY <1>1, <1>6
      <3> QED
        BY <1>1, <1>5, <1>6, <2>1, <3>1, OneParent
    <2>3. KidAt(objs, x, k) \notin seen
      <3>1. SUFFICES ASSUME KidAt(objs, x, k) \in seen
                     PROVE  FALSE
        OBVIOUS
      <3>2. PICK m \in seen \cup {root} : Kin(objs, m, KidAt(objs, x, k))
        BY <3>1 DEF Levels
      <3>3. m \in nodes /\ m # x
        BY <1>1, <1>6
      <3> QED
        BY <1>6, <2>1, <3>2, <3>3, OneParent
    <2> QED
      BY <2>2, <2>3
  <1>10. 1 <= Len(KidsOf(objs, x)) + 1
    BY AllKids
  <1> QED
    BY <1>4, <1>5, <1>6, <1>7, <1>8, <1>9, <1>10 DEF New, Open

LEMMA LevelsPopped ==
    ASSUME NEW objs, NEW nodes, NEW root,
           NEW hops, NEW w, NEW v, NEW seen, NEW par, NEW at, Levels(objs, nodes, root, hops, w, seen, par, at),
           w.stack # << >>, v.stack \in Seq(Seq(Refs)), Len(v.stack) = Len(w.stack) - 1,
           v.left = w.left, v.kids = w.stack[Len(w.stack)],
           \A j \in 1 .. Len(w.stack) - 1 : v.stack[j] = w.stack[j]
    PROVE  \E p, a : Levels(objs, nodes, root, hops, v, seen, p, a)
  <1> DEFINE l == Len(w.stack)
             p == [j \in 1 .. l |-> par[j]]
             a == [j \in 1 .. l |-> at[j]]
  <1>1. l \in Nat \ {0} /\ l \in 1 .. l /\ Len(v.stack) + 1 = l /\ Len(v.stack) = l - 1
        /\ \A j \in 1 .. l : j \in 1 .. l + 1
    <2>1. w.stack \in Seq(Seq(Refs))
      BY DEF Levels
    <2>2. Len(w.stack) \in Nat \ {0}
      BY <2>1, EmptySeq
    <2> QED
      BY <2>2
  <1>2. \A j \in 1 .. l : p[j] = par[j] /\ a[j] = at[j]
    OBVIOUS
  <1>3. p \in [1 .. l -> seen \cup {root}] /\ a \in [1 .. l -> Nat \ {0}]
    <2>1. \A j \in 1 .. l : par[j] \in seen \cup {root} /\ at[j] \in Nat \ {0}
      BY <1>1 DEF Levels
    <2> QED
      BY <2>1
  <1> HIDE DEF p, a
  <1>4. \A j, k \in 1 .. l : p[j] = p[k] => j = k
    BY <1>1, <1>2 DEF Levels
  <1>5. \A j \in 1 .. l : Open(objs, seen, p[j], a[j])
    BY <1>1, <1>2 DEF Levels
  <1>d. \A j \in 1 .. l : Deep(hops, p[j], j - 1)
    BY <1>1, <1>2 DEF Levels
  <1>6. \A j \in 1 .. l : w.stack[j] = From(objs, p[j], a[j])
    BY <1>2 DEF Levels
  <1>7. \A j \in 1 .. l - 1 : v.stack[j] = From(objs, p[j], a[j])
    <2>1. \A j \in 1 .. l - 1 : j \in 1 .. l
      BY <1>1
    <2> QED
      BY <1>6, <2>1
  <1>8. v.kids = From(objs, p[l], a[l])
    BY <1>1, <1>6
  <1>9. Levels(objs, nodes, root, hops, v, seen, p, a)
    BY <1>1, <1>3, <1>4, <1>5, <1>7, <1>8, <1>d DEF Levels
  <1> QED
    BY <1>9

LEMMA LevelsPassed ==
    ASSUME NEW objs, IsObjects(objs), IsFiniteSet(DOMAIN objs),
           NEW nodes, NEW root, Sound(objs, nodes, root),
           NEW hops, NEW w, NEW v, NEW seen, NEW par, NEW at, Levels(objs, nodes, root, hops, w, seen, par, at),
           w.kids # << >>, NEW x, x = Head(w.kids).id,
           v.stack = w.stack, v.left = w.left - 1, v.kids = Tail(w.kids)
    PROVE  \E s, p, a : Levels(objs, nodes, root, hops, v, s, p, a)
  <1> DEFINE l == Len(w.stack)
             s == seen \cup {x}
             a == [j \in 1 .. l + 1 |-> IF j = l + 1 THEN at[j] + 1 ELSE at[j]]
  <1>1. /\ x \in nodes \ {root} /\ Kin(objs, par[l + 1], x)
        /\ Tail(w.kids) = From(objs, par[l + 1], at[l + 1] + 1)
        /\ Cardinality(s) = Cardinality(seen) + 1
        /\ \A j \in 1 .. l + 1 : Open(objs, s, par[j], IF j = l + 1 THEN at[j] + 1 ELSE at[j])
    <2>1. l = Len(w.stack)
      OBVIOUS
    <2> HIDE DEF l, s, a
    <2>2. /\ x \in nodes \ {root} /\ Kin(objs, par[l + 1], x)
          /\ Tail(w.kids) = From(objs, par[l + 1], at[l + 1] + 1)
          /\ Cardinality(seen \cup {x}) = Cardinality(seen) + 1
          /\ \A j \in 1 .. l + 1 : Open(objs, seen \cup {x}, par[j], IF j = l + 1 THEN at[j] + 1 ELSE at[j])
      <3>1. New(objs, nodes, root, w, seen, par, at, l, x)
        BY <2>1, HeadIsNew
      <3> QED
        BY <3>1 DEF New
    <2> QED
      BY <2>2 DEF s
  <1>2. /\ l \in Nat /\ l + 1 \in 1 .. l + 1 /\ \A j \in 1 .. l : j \in 1 .. l + 1 /\ j # l + 1
    BY DEF Levels
  <1>3. /\ seen \subseteq nodes \ {root} /\ Cardinality(seen) + w.left = Cardinality(DOMAIN objs)
        /\ \A y \in seen : \E m \in seen \cup {root} : Kin(objs, m, y)
        /\ par \in [1 .. l + 1 -> seen \cup {root}] /\ at \in [1 .. l + 1 -> Nat \ {0}]
        /\ \A j, k \in 1 .. l + 1 : par[j] = par[k] => j = k
        /\ \A j \in 1 .. l : w.stack[j] = From(objs, par[j], at[j])
        /\ w.stack \in Seq(Seq(Refs)) /\ w.left \in Int
    BY DEF Levels
  <1>4. \A j \in 1 .. l + 1 : a[j] = IF j = l + 1 THEN at[j] + 1 ELSE at[j]
    OBVIOUS
  <1>5. a \in [1 .. l + 1 -> Nat \ {0}]
    <2>1. ASSUME NEW j \in 1 .. l + 1
          PROVE  (IF j = l + 1 THEN at[j] + 1 ELSE at[j]) \in Nat \ {0}
      <3>1. at[j] \in Nat \ {0}
        BY <1>3
      <3> QED
        BY <3>1
    <2> QED
      BY <2>1
  <1> HIDE DEF a
  <1>6. s \subseteq nodes \ {root} /\ par \in [1 .. l + 1 -> s \cup {root}]
    BY <1>1, <1>3
  <1>7. \A y \in s : \E m \in s \cup {root} : Kin(objs, m, y)
    <2>1. par[l + 1] \in s \cup {root}
      BY <1>2, <1>6
    <2> QED
      BY <1>1, <1>3, <2>1
  <1> DEFINE c == Cardinality(seen)
             d == Cardinality(s)
  <1>8. d + v.left = Cardinality(DOMAIN objs) /\ v.left \in Int
    <2>1. c \in Int
      <3>1. seen \subseteq DOMAIN objs
        BY <1>3 DEF Sound
      <3> QED
        BY <3>1, FS_Subset, FS_CardinalityType
    <2>2. d = c + 1 /\ c + w.left = Cardinality(DOMAIN objs)
      BY <1>1, <1>3
    <2> HIDE DEF c, d
    <2> QED
      BY <1>3, <2>1, <2>2
  <1>9. \A j \in 1 .. l + 1 : Open(objs, s, par[j], a[j])
    BY <1>1, <1>4
  <1>d. \A j \in 1 .. l + 1 : Deep(hops, par[j], j - 1)
    BY DEF Levels
  <1>10. \A j \in 1 .. l : v.stack[j] = From(objs, par[j], a[j])
    BY <1>2, <1>3, <1>4
  <1>11. v.kids = From(objs, par[l + 1], a[l + 1])
    BY <1>1, <1>2, <1>4
  <1> HIDE DEF s
  <1>12. Levels(objs, nodes, root, hops, v, s, par, a)
    BY <1>3, <1>5, <1>6, <1>7, <1>8, <1>9, <1>10, <1>11, <1>d DEF Levels
  <1> QED
    BY <1>12

\* The level of the kids is done with, and that of the first of them takes its place.
LEMMA LevelsReplaced ==
    ASSUME NEW objs, IsObjects(objs), IsFiniteSet(DOMAIN objs),
           NEW nodes, NEW root, Sound(objs, nodes, root),
           NEW hops, OneByOne(objs, nodes, hops), NEW w, NEW v, NEW seen, NEW par, NEW at, Levels(objs, nodes, root, hops, w, seen, par, at),
           w.kids # << >>, NEW x, x = Head(w.kids).id, objs[x].type = "Pages",
           v.stack = w.stack, v.left = w.left - 1, v.kids = KidsOf(objs, x)
    PROVE  \E s, p, a : Levels(objs, nodes, root, hops, v, s, p, a)
  <1> DEFINE l == Len(w.stack)
             s == seen \cup {x}
             p == [j \in 1 .. l + 1 |-> IF j = l + 1 THEN x ELSE par[j]]
             a == [j \in 1 .. l + 1 |-> IF j = l + 1 THEN 1 ELSE at[j]]
  <1>1. /\ x \in nodes \ {root} /\ x \notin seen /\ Kin(objs, par[l + 1], x)
        /\ Cardinality(s) = Cardinality(seen) + 1
        /\ \A j \in 1 .. l + 1 : Open(objs, s, par[j], IF j = l + 1 THEN at[j] + 1 ELSE at[j])
        /\ Open(objs, s, x, 1)
    <2>1. l = Len(w.stack)
      OBVIOUS
    <2> HIDE DEF l, s, a, p
    <2>2. /\ x \in nodes \ {root} /\ x \notin seen /\ Kin(objs, par[l + 1], x)
          /\ Cardinality(seen \cup {x}) = Cardinality(seen) + 1
          /\ \A j \in 1 .. l + 1 : Open(objs, seen \cup {x}, par[j], IF j = l + 1 THEN at[j] + 1 ELSE at[j])
          /\ Open(objs, seen \cup {x}, x, 1)
      <3>1. New(objs, nodes, root, w, seen, par, at, l, x)
        BY <2>1, HeadIsNew
      <3> QED
        BY <3>1 DEF New
    <2> QED
      BY <2>2 DEF s
  <1>2. /\ l \in Nat /\ l + 1 \in 1 .. l + 1 /\ \A j \in 1 .. l : j \in 1 .. l + 1 /\ j # l + 1
    BY DEF Levels
  <1>3. /\ seen \subseteq nodes \ {root} /\ Cardinality(seen) + w.left = Cardinality(DOMAIN objs)
        /\ \A y \in seen : \E m \in seen \cup {root} : Kin(objs, m, y)
        /\ par \in [1 .. l + 1 -> seen \cup {root}] /\ at \in [1 .. l + 1 -> Nat \ {0}]
        /\ \A j, k \in 1 .. l + 1 : par[j] = par[k] => j = k
        /\ \A j \in 1 .. l : w.stack[j] = From(objs, par[j], at[j])
        /\ w.stack \in Seq(Seq(Refs)) /\ w.left \in Int
    BY DEF Levels
  <1>4. \A j \in 1 .. l + 1 : /\ a[j] = IF j = l + 1 THEN 1 ELSE at[j]
                              /\ p[j] = IF j = l + 1 THEN x ELSE par[j]
    OBVIOUS
  <1>5. a \in [1 .. l + 1 -> Nat \ {0}] /\ p \in [1 .. l + 1 -> s \cup {root}]
    <2>1. ASSUME NEW j \in 1 .. l + 1
          PROVE  /\ (IF j = l + 1 THEN 1 ELSE at[j]) \in Nat \ {0}
                 /\ (IF j = l + 1 THEN x ELSE par[j]) \in s \cup {root}
      <3>1. at[j] \in Nat \ {0} /\ par[j] \in seen \cup {root}
        BY <1>3
      <3> QED
        BY <3>1
    <2> QED
      BY <2>1
  <1> HIDE DEF a, p
  <1>6. s \subseteq nodes \ {root} /\ par[l + 1] \in s \cup {root}
    BY <1>1, <1>2, <1>3
  <1>7. \A y \in s : \E m \in s \cup {root} : Kin(objs, m, y)
    BY <1>1, <1>3, <1>6
  <1> DEFINE c == Cardinality(seen)
             d == Cardinality(s)
  <1>8. d + v.left = Cardinality(DOMAIN objs) /\ v.left \in Int
    <2>1. c \in Int
      <3>1. seen \subseteq DOMAIN objs
        BY <1>3 DEF Sound
      <3> QED
        BY <3>1, FS_Subset, FS_CardinalityType
    <2>2. d = c + 1 /\ c + w.left = Cardinality(DOMAIN objs)
      BY <1>1, <1>3
    <2> HIDE DEF c, d
    <2> QED
      BY <1>3, <2>1, <2>2
  <1>9. \A j \in 1 .. l + 1 : Open(objs, s, p[j], a[j])
    BY <1>1, <1>4
  <1>10. \A j, k \in 1 .. l + 1 : p[j] = p[k] => j = k
    <2>1. \A j \in 1 .. l + 1 : par[j] # x
      BY <1>1, <1>3
    <2> QED
      BY <1>3, <1>4, <2>1
  <1>11. \A j \in 1 .. l : v.stack[j] = From(objs, p[j], a[j])
    BY <1>2, <1>3, <1>4
  <1>12. v.kids = From(objs, p[l + 1], a[l + 1])
    BY <1>2, <1>4, AllKids
  <1>d. \A j \in 1 .. l + 1 : Deep(hops, p[j], j - 1)
    <2>1. par[l + 1] \in nodes /\ Deep(hops, par[l + 1], l) /\ \A j \in 1 .. l + 1 : Deep(hops, par[j], j - 1)
      <3>1. root \in nodes
        BY DEF Sound
      <3>2. \A j \in 1 .. l + 1 : Deep(hops, par[j], j - 1)
        BY DEF Levels
      <3>3. (l + 1) - 1 = l
        BY <1>2
      <3> HIDE DEF l, s
      <3>4. Deep(hops, par[l + 1], (l + 1) - 1)
        BY <1>2, <3>2
      <3> QED
        BY <1>2, <1>3, <3>1, <3>2, <3>3, <3>4
    <2> HIDE DEF l, s
    <2>2. Deep(hops, x, l)
      BY <1>1, <1>2, <2>1, DeeperByOne
    <2>3. ASSUME NEW j \in 1 .. l + 1
          PROVE  Deep(hops, p[j], j - 1)
      <3>1. CASE j = l + 1
        <4>1. p[j] = x /\ j - 1 = l
          BY <1>2, <1>4, <3>1
        <4> QED
          BY <2>2, <4>1
      <3>2. CASE j # l + 1
        BY <1>4, <2>1, <3>2
      <3> QED
        BY <3>1, <3>2
    <2> QED
      BY <2>3
  <1> HIDE DEF s
  <1>13. Levels(objs, nodes, root, hops, v, s, p, a)
    BY <1>3, <1>5, <1>6, <1>7, <1>8, <1>9, <1>10, <1>11, <1>12, <1>d DEF Levels
  <1> QED
    BY <1>13

\* What is left of the kids is put aside, and a level begun for the first of them.
LEMMA LevelsDescended ==
    ASSUME NEW objs, IsObjects(objs), IsFiniteSet(DOMAIN objs),
           NEW nodes, NEW root, Sound(objs, nodes, root),
           NEW hops, OneByOne(objs, nodes, hops), NEW w, NEW v, NEW seen, NEW par, NEW at, Levels(objs, nodes, root, hops, w, seen, par, at),
           w.kids # << >>, NEW x, x = Head(w.kids).id, objs[x].type = "Pages",
           v.stack \in Seq(Seq(Refs)), Len(v.stack) = Len(w.stack) + 1,
           v.stack[Len(w.stack) + 1] = Tail(w.kids), \A j \in 1 .. Len(w.stack) : v.stack[j] = w.stack[j],
           v.left = w.left - 1, v.kids = KidsOf(objs, x)
    PROVE  \E s, p, a : Levels(objs, nodes, root, hops, v, s, p, a)
  <1> DEFINE l == Len(w.stack)
             s == seen \cup {x}
             p == [j \in 1 .. l + 2 |-> IF j = l + 2 THEN x ELSE par[j]]
             a == [j \in 1 .. l + 2 |-> IF j = l + 2 THEN 1 ELSE IF j = l + 1 THEN at[j] + 1 ELSE at[j]]
  <1>1. /\ x \in nodes \ {root} /\ x \notin seen /\ Kin(objs, par[l + 1], x)
        /\ Tail(w.kids) = From(objs, par[l + 1], at[l + 1] + 1)
        /\ Cardinality(s) = Cardinality(seen) + 1
        /\ \A j \in 1 .. l + 1 : Open(objs, s, par[j], IF j = l + 1 THEN at[j] + 1 ELSE at[j])
        /\ Open(objs, s, x, 1)
    <2>1. l = Len(w.stack)
      OBVIOUS
    <2> HIDE DEF l, s, a, p
    <2>2. /\ x \in nodes \ {root} /\ x \notin seen /\ Kin(objs, par[l + 1], x)
          /\ Tail(w.kids) = From(objs, par[l + 1], at[l + 1] + 1)
          /\ Cardinality(seen \cup {x}) = Cardinality(seen) + 1
          /\ \A j \in 1 .. l + 1 : Open(objs, seen \cup {x}, par[j], IF j = l + 1 THEN at[j] + 1 ELSE at[j])
          /\ Open(objs, seen \cup {x}, x, 1)
      <3>1. New(objs, nodes, root, w, seen, par, at, l, x)
        BY <2>1, HeadIsNew
      <3> QED
        BY <3>1 DEF New
    <2> QED
      BY <2>2 DEF s
  <1>2. /\ l \in Nat /\ l + 1 \in 1 .. l + 1 /\ l + 1 \in 1 .. l + 2 /\ l + 2 \in 1 .. l + 2 /\ l + 1 # l + 2
        /\ \A j \in 1 .. l : j \in 1 .. l + 1 /\ j \in 1 .. l + 2 /\ j # l + 1 /\ j # l + 2
        /\ \A j \in 1 .. l + 2 : j # l + 2 => j \in 1 .. l + 1
        /\ \A j \in 1 .. l + 1 : j # l + 1 => j \in 1 .. l
        /\ (l + 1) + 1 = l + 2
    <2>1. l \in Nat
      BY DEF Levels
    <2> HIDE DEF l
    <2>2. l + 1 \in 1 .. l + 1 /\ l + 1 \in 1 .. l + 2 /\ l + 2 \in 1 .. l + 2 /\ l + 1 # l + 2
      BY <2>1
    <2>3. \A j \in 1 .. l : j \in 1 .. l + 1 /\ j \in 1 .. l + 2 /\ j # l + 1 /\ j # l + 2
      BY <2>1
    <2>4. \A j \in 1 .. l + 2 : j # l + 2 => j \in 1 .. l + 1
      BY <2>1
    <2>5. \A j \in 1 .. l + 1 : j # l + 1 => j \in 1 .. l
      BY <2>1
    <2>6. (l + 1) + 1 = l + 2
      BY <2>1
    <2> QED
      BY <2>1, <2>2, <2>3, <2>4, <2>5, <2>6
  <1>3. /\ seen \subseteq nodes \ {root} /\ Cardinality(seen) + w.left = Cardinality(DOMAIN objs)
        /\ \A y \in seen : \E m \in seen \cup {root} : Kin(objs, m, y)
        /\ par \in [1 .. l + 1 -> seen \cup {root}] /\ at \in [1 .. l + 1 -> Nat \ {0}]
        /\ \A j, k \in 1 .. l + 1 : par[j] = par[k] => j = k
        /\ \A j \in 1 .. l : w.stack[j] = From(objs, par[j], at[j])
        /\ w.left \in Int
    BY DEF Levels
  <1>4. \A j \in 1 .. l + 2 :
           /\ a[j] = IF j = l + 2 THEN 1 ELSE IF j = l + 1 THEN at[j] + 1 ELSE at[j]
           /\ p[j] = IF j = l + 2 THEN x ELSE par[j]
    OBVIOUS
  <1>5. a \in [1 .. l + 2 -> Nat \ {0}] /\ p \in [1 .. l + 2 -> s \cup {root}]
    <2>1. ASSUME NEW j \in 1 .. l + 2
          PROVE  /\ (IF j = l + 2 THEN 1 ELSE IF j = l + 1 THEN at[j] + 1 ELSE at[j]) \in Nat \ {0}
                 /\ (IF j = l + 2 THEN x ELSE par[j]) \in s \cup {root}
      <3>1. j # l + 2 => at[j] \in Nat \ {0} /\ par[j] \in seen \cup {root}
        BY <1>2, <1>3
      <3> QED
        BY <3>1
    <2> QED
      BY <2>1
  <1> HIDE DEF a, p
  <1>6. s \subseteq nodes \ {root} /\ par[l + 1] \in s \cup {root}
    BY <1>1, <1>2, <1>3
  <1>7. \A y \in s : \E m \in s \cup {root} : Kin(objs, m, y)
    BY <1>1, <1>3, <1>6
  <1> DEFINE c == Cardinality(seen)
             d == Cardinality(s)
  <1>8. d + v.left = Cardinality(DOMAIN objs) /\ v.left \in Int
    <2>1. c \in Int
      <3>1. seen \subseteq DOMAIN objs
        BY <1>3 DEF Sound
      <3> QED
        BY <3>1, FS_Subset, FS_CardinalityType
    <2>2. d = c + 1 /\ c + w.left = Cardinality(DOMAIN objs)
      BY <1>1, <1>3
    <2> HIDE DEF c, d
    <2> QED
      BY <1>3, <2>1, <2>2
  <1>9. \A j \in 1 .. l + 2 : Open(objs, s, p[j], a[j])
    <2>1. ASSUME NEW j \in 1 .. l + 2
          PROVE  Open(objs, s, p[j], a[j])
      <3>1. CASE j = l + 2
        BY <1>1, <1>4, <3>1
      <3>2. CASE j # l + 2
        <4>1. j \in 1 .. l + 1
          BY <1>2, <3>2
        <4>2. p[j] = par[j] /\ a[j] = IF j = l + 1 THEN at[j] + 1 ELSE at[j]
          BY <1>4, <3>2
        <4> QED
          BY <1>1, <4>1, <4>2
      <3> QED
        BY <3>1, <3>2
    <2> QED
      BY <2>1
  <1>10. \A j, k \in 1 .. l + 2 : p[j] = p[k] => j = k
    <2>1. \A j \in 1 .. l + 1 : par[j] # x
      BY <1>1, <1>3
    <2> QED
      BY <1>2, <1>3, <1>4, <2>1
  <1>11. \A j \in 1 .. l + 1 : v.stack[j] = From(objs, p[j], a[j])
    <2>1. ASSUME NEW j \in 1 .. l + 1
          PROVE  v.stack[j] = From(objs, p[j], a[j])
      <3>1. CASE j = l + 1
        BY <1>1, <1>2, <1>4, <3>1
      <3>2. CASE j # l + 1
        BY <1>2, <1>3, <1>4, <3>2
      <3> QED
        BY <3>1, <3>2
    <2> QED
      BY <2>1
  <1>12. v.kids = From(objs, p[l + 2], a[l + 2])
    <2>1. p[l + 2] = x /\ a[l + 2] = 1
      BY <1>2, <1>4
    <2>2. From(objs, x, 1) = KidsOf(objs, x)
      BY AllKids
    <2> QED
      BY <2>1, <2>2
  <1>d. \A j \in 1 .. l + 2 : Deep(hops, p[j], j - 1)
    <2>1. par[l + 1] \in nodes /\ Deep(hops, par[l + 1], l) /\ \A j \in 1 .. l + 1 : Deep(hops, par[j], j - 1)
      <3>1. root \in nodes
        BY DEF Sound
      <3>2. \A j \in 1 .. l + 1 : Deep(hops, par[j], j - 1)
        BY DEF Levels
      <3>3. (l + 1) - 1 = l
        BY <1>2
      <3> HIDE DEF l, s
      <3>4. Deep(hops, par[l + 1], (l + 1) - 1)
        BY <1>2, <3>2
      <3> QED
        BY <1>2, <1>3, <3>1, <3>2, <3>3, <3>4
    <2> HIDE DEF l, s
    <2>2. Deep(hops, x, l + 1)
      BY <1>1, <1>2, <2>1, DeeperByOne
    <2>3. ASSUME NEW j \in 1 .. l + 2
          PROVE  Deep(hops, p[j], j - 1)
      <3>1. CASE j = l + 2
        <4>1. p[j] = x /\ j - 1 = l + 1
          BY <1>2, <1>4, <3>1
        <4> QED
          BY <2>2, <4>1
      <3>2. CASE j # l + 2
        BY <1>2, <1>4, <2>1, <3>2
      <3> QED
        BY <3>1, <3>2
    <2> QED
      BY <2>3
  <1> HIDE DEF s
  <1>13. Levels(objs, nodes, root, hops, v, s, p, a)
    <2>1. Len(v.stack) = l + 1 /\ Len(v.stack) + 1 = l + 2
      BY <1>2
    <2> HIDE DEF l
    <2> QED
      BY <1>5, <1>6, <1>7, <1>8, <1>9, <1>10, <1>11, <1>12, <1>d, <2>1 DEF Levels
  <1> QED
    BY <1>13

LEMMA PrefixOf ==
    ASSUME NEW D, NEW s \in Seq(D), NEW t \in Seq(D)
    PROVE  IsPrefix(s, s \o t)
  <1> DEFINE u == s \o t
             n == Len(s)
  <1>1. u \in Seq(D) /\ Len(u) = n + Len(t) /\ n \in Nat /\ Len(t) \in Nat
        /\ \A i \in 1 .. n : u[i] = s[i]
    BY ConcatProperties
  <1>2. SubSeq(s, 1, n) = s
    BY SubSeqFull
  <1> HIDE DEF u
  <1>3. \A i \in 1 .. n : u[i] \in D
    BY <1>1
  <1>4. /\ SubSeq(u, 1, n) \in Seq(D) /\ Len(SubSeq(u, 1, n)) = n
        /\ \A i \in 1 .. n : SubSeq(u, 1, n)[i] = s[i]
    BY <1>1, <1>3
  <1> DEFINE p == SubSeq(u, 1, n)
  <1>5. p = s
    <2> HIDE DEF p
    <2> QED
      BY <1>4, SeqEqual DEF p
  <1>6. n <= Len(u)
    BY <1>1
  <1> QED
    BY <1>2, <1>5, <1>6 DEF IsPrefix, u

Walking(objs, nodes, root, hops, leaves, w) ==
    /\ w = [kids |-> w.kids, stack |-> w.stack, left |-> w.left, found |-> w.found]
    /\ \E seen, par, at : Levels(objs, nodes, root, hops, w, seen, par, at)
    /\ \E tail : Split(nodes, leaves, root, w, tail)

LEMMA WalkStarts ==
    ASSUME NEW objs, IsObjects(objs), IsFiniteSet(DOMAIN objs),
           NEW nodes, NEW root, Sound(objs, nodes, root), NEW leaves, Leafy(objs, nodes, leaves),
           NEW hops, NEW w, w = [kids |-> KidsOf(objs, root), stack |-> << >>,
                       left |-> Cardinality(DOMAIN objs), found |-> << >>]
    PROVE  Walking(objs, nodes, root, hops, leaves, w)
  <1> DEFINE par == [j \in 1 .. 1 |-> root]
             at == [j \in 1 .. 1 |-> 1]
             none == {}
             tail == [j \in 0 .. 0 |-> << >>]
  <1>1. w.kids = KidsOf(objs, root) /\ w.stack = << >> /\ w.left = Cardinality(DOMAIN objs)
        /\ w.found = << >>
    OBVIOUS
  <1>2. w.left \in Int /\ Cardinality(none) + w.left = Cardinality(DOMAIN objs)
    BY <1>1, FS_CardinalityType, FS_EmptySet
  <1>3. /\ Len(w.stack) = 0 /\ Len(w.stack) + 1 = 1 /\ w.stack \in Seq(Seq(Refs))
        /\ 1 \in 1 .. 1 /\ 0 \in 0 .. 0 /\ \A j \in 1 .. 1 : j = 1
    BY <1>1
  <1>4. root \in nodes /\ objs[root].type = "Pages"
    BY DEF Sound
  <1>5. Open(objs, none, root, 1) /\ w.kids = From(objs, root, 1)
    BY <1>1, <1>4, AllKids DEF Open
  <1>6. Levels(objs, nodes, root, hops, w, none, par, at)
    <2>1. par \in [1 .. 1 -> none \cup {root}] /\ at \in [1 .. 1 -> Nat \ {0}] /\ par[1] = root /\ at[1] = 1
      BY <1>3
    <2> HIDE DEF par, at
    <2>2. \A j, k \in 1 .. 1 : par[j] = par[k] => j = k
      BY <1>3
    <2>3. \A j \in 1 .. 1 : Open(objs, none, par[j], at[j])
      BY <1>3, <1>5, <2>1
    <2>4. w.kids = From(objs, par[1], at[1])
      BY <1>5, <2>1
    <2>5. \A j \in 1 .. 0 : w.stack[j] = From(objs, par[j], at[j])
      OBVIOUS
    <2>6. none \subseteq nodes \ {root} /\ \A y \in none : \E m \in none \cup {root} : Kin(objs, m, y)
      OBVIOUS
    <2>7. \A j \in 1 .. 1 : Deep(hops, par[j], j - 1)
      BY <1>3 DEF Deep
    <2> HIDE DEF none
    <2> QED
      BY <1>2, <1>3, <2>1, <2>2, <2>3, <2>4, <2>5, <2>6, <2>7 DEF Levels
  <1>7. Split(nodes, leaves, root, w, tail)
    <2>1. leaves \in [nodes -> Seq(nodes)] /\ leaves[root] = Below(leaves, KidsOf(objs, root))
      BY <1>4 DEF Leafy
    <2> DEFINE b == Below(leaves, KidsOf(objs, root))
    <2>2. b \in Seq(nodes)
      BY <1>4, <2>1
    <2>3. b \o << >> = b /\ << >> \o b = b
      BY <2>2, ConcatEmptySeq
    <2>4. << >> \in Seq(nodes)
      BY EmptySeq
    <2>5. tail \in [0 .. 0 -> Seq(nodes)] /\ tail[0] = << >>
      BY <1>3, <2>4
    <2>6. leaves[root] = w.found \o (Below(leaves, w.kids) \o tail[0])
      BY <1>1, <2>1, <2>3, <2>5
    <2>7. w.found \in Seq(nodes) /\ Len(w.stack) = 0
      BY <1>1, <1>3, <2>4
    <2> HIDE DEF tail
    <2>8. \A j \in 1 .. 0 : tail[j] = Below(leaves, w.stack[j]) \o tail[j - 1]
      OBVIOUS
    <2> QED
      BY <2>5, <2>6, <2>7, <2>8 DEF Split
  <1> HIDE DEF par, at, none, tail
  <1>8. \E seen, p, a : Levels(objs, nodes, root, hops, w, seen, p, a)
    BY <1>6
  <1>9. \E t : Split(nodes, leaves, root, w, t)
    BY <1>7
  <1> QED
    BY <1>1, <1>8, <1>9 DEF Walking

LEMMA WalkGives ==
    ASSUME NEW objs, IsObjects(objs), IsFiniteSet(DOMAIN objs),
           NEW nodes, NEW root, Sound(objs, nodes, root), NEW leaves, Leafy(objs, nodes, leaves),
           NEW hops, NEW w, Walking(objs, nodes, root, hops, leaves, w)
    PROVE  IsPrefix(w.found, leaves[root]) /\ (Over(w) => w.found = leaves[root])
  <1>1. PICK seen, par, at : Levels(objs, nodes, root, hops, w, seen, par, at)
    BY DEF Walking
  <1>2. PICK tail : Split(nodes, leaves, root, w, tail)
    BY DEF Walking
  <1>3. leaves \in [nodes -> Seq(nodes)]
    BY DEF Leafy
  <1> DEFINE l == Len(w.stack)
             b == Below(leaves, w.kids)
             a == tail[l]
             f == w.found
  <1>4. /\ l \in Nat /\ l + 1 \in 1 .. l + 1 /\ l \in 0 .. l
        /\ par[l + 1] \in nodes /\ at[l + 1] \in Nat \ {0} /\ Open(objs, seen, par[l + 1], at[l + 1])
        /\ w.kids = From(objs, par[l + 1], at[l + 1])
    <2>1. l \in Nat
      BY <1>1 DEF Levels
    <2>2. l + 1 \in 1 .. l + 1 /\ l \in 0 .. l
      BY <2>1
    <2> QED
      BY <1>1, <2>1, <2>2 DEF Levels, Sound
  <1>5. Listed(nodes, w.kids)
    BY <1>4, FromListed DEF Open
  <1>6. b \in Seq(nodes)
    BY <1>3, <1>5, BelowFacts DEF Listed
  <1>7. a \in Seq(nodes) /\ f \in Seq(nodes) /\ leaves[root] = f \o (b \o a) /\ tail[0] = << >>
    BY <1>2, <1>4 DEF Split
  <1>8. IsPrefix(f, leaves[root])
    <2> HIDE DEF a, b, f
    <2>1. b \o a \in Seq(nodes)
      BY <1>6, <1>7, ConcatProperties
    <2> QED
      BY <1>7, <2>1, PrefixOf
  <1>9. ASSUME Over(w)
        PROVE  f = leaves[root]
    <2>1. w.kids = << >> /\ w.stack = << >>
      <3>1. w.kids # << >> => w.left >= 1
        <4> DEFINE x == Head(w.kids).id
        <4>1. l = Len(w.stack) /\ x = Head(w.kids).id
          OBVIOUS
        <4> HIDE DEF l, x
        <4>2. w.kids # << >> => New(objs, nodes, root, w, seen, par, at, l, x)
          BY <1>1, <4>1, HeadIsNew
        <4> QED
          BY <4>2 DEF New
      <3> QED
        BY <1>9, <3>1 DEF Over
    <2>2. b = << >> /\ l = 0 /\ a = << >>
      BY <1>7, <2>1, BelowNothing
    <2>3. << >> \in Seq(nodes) /\ << >> \o << >> = << >>
      BY EmptySeq, ConcatEmptySeq
    <2>4. f \o << >> = f
      BY <1>7, ConcatEmptySeq
    <2> HIDE DEF a, b, l, f
    <2> QED
      BY <1>7, <2>2, <2>3, <2>4
  <1> QED
    BY <1>8, <1>9

\* The node the kids of are being read is as deep as there are levels put aside.
LEMMA NotTooDeep ==
    ASSUME NEW objs, NEW nodes, NEW root, Sound(objs, nodes, root),
           NEW hops, OneByOne(objs, nodes, hops),
           NEW w, NEW seen, NEW par, NEW at, Levels(objs, nodes, root, hops, w, seen, par, at),
           NEW x \in nodes, Kin(objs, par[Len(w.stack) + 1], x), x \in hops[DepthLimit]
    PROVE  Len(w.stack) < DepthLimit
  <1> DEFINE l == Len(w.stack)
  <1>1. l \in Nat
    BY DEF Levels
  <1>2. l + 1 \in 1 .. l + 1 /\ (l + 1) - 1 = l
    BY <1>1
  <1>3. par[l + 1] \in nodes /\ Deep(hops, par[l + 1], l)
    <2>1. root \in nodes
      BY DEF Sound
    <2>2. Deep(hops, par[l + 1], (l + 1) - 1) /\ par[l + 1] \in seen \cup {root} /\ seen \subseteq nodes \ {root}
      BY <1>2 DEF Levels
    <2> QED
      BY <1>2, <2>1, <2>2
  <1> HIDE DEF l
  <1>4. Deep(hops, x, l + 1)
    BY <1>1, <1>3, DeeperByOne DEF l
  <1>5. ~(DepthLimit < l + 1)
    BY <1>4, DepthAssumption DEF Deep
  <1>6. l < DepthLimit
    BY <1>1, <1>5, DepthAssumption
  <1> QED
    BY <1>6 DEF l

LEMMA FrontIs ==
    ASSUME NEW S, NEW s \in Seq(S), s # << >>
    PROVE  /\ Front(s) \in Seq(S) /\ Len(Front(s)) = Len(s) - 1 /\ Last(s) = s[Len(s)]
           /\ \A j \in 1 .. Len(s) - 1 : Front(s)[j] = s[j]
  <1>1. Len(s) \in Nat /\ Len(s) > 0
    OBVIOUS
  <1>2. Front(s) = [i \in 1 .. Len(s) - 1 |-> s[i]]
    BY <1>1 DEF Front
  <1>3. \A i \in 1 .. Len(s) - 1 : s[i] \in S
    BY <1>1
  <1>4. Len(s) - 1 \in Nat
    BY <1>1
  <1> QED
    BY <1>2, <1>3, <1>4 DEF Last

LEMMA WalkGoesOn ==
    ASSUME NEW objs, IsObjects(objs), IsFiniteSet(DOMAIN objs),
           NEW nodes, NEW root, Sound(objs, nodes, root), NEW leaves, Leafy(objs, nodes, leaves),
           NEW hops, OneByOne(objs, nodes, hops), \A n \in nodes : objs[n].type = "Pages" => n \in hops[DepthLimit],
           NEW w, Walking(objs, nodes, root, hops, leaves, w), ~Over(w)
    PROVE  Walking(objs, nodes, root, hops, leaves, WalkStep(objs, w))
  <1> DEFINE v == WalkStep(objs, w)
             l == Len(w.stack)
             x == Head(w.kids).id
  <1>1. PICK seen, par, at : Levels(objs, nodes, root, hops, w, seen, par, at)
    BY DEF Walking
  <1>2. PICK tail : Split(nodes, leaves, root, w, tail)
    BY DEF Walking
  <1>3. leaves \in [nodes -> Seq(nodes)]
    BY DEF Leafy
  <1>4. /\ w = [kids |-> w.kids, stack |-> w.stack, left |-> w.left, found |-> w.found]
        /\ w.stack \in Seq(Seq(Refs)) /\ l \in Nat
    BY <1>1 DEF Walking, Levels
  <1>5. /\ par[l + 1] \in nodes /\ at[l + 1] \in Nat \ {0} /\ Open(objs, seen, par[l + 1], at[l + 1])
        /\ w.kids = From(objs, par[l + 1], at[l + 1]) /\ root \in nodes
    <2>1. l + 1 \in 1 .. l + 1
      BY <1>4
    <2> QED
      BY <1>1, <2>1 DEF Levels, Sound
  <1>6. Listed(nodes, w.kids)
    BY <1>5, FromListed DEF Open
  <1>7. CASE w.kids = << >>
    <2>1. w.stack # << >>
      BY <1>7 DEF Over
    <2>2. v = [w EXCEPT !.kids = Last(w.stack), !.stack = Front(@)]
      BY <1>7 DEF WalkStep
    <2>3. /\ v = [kids |-> v.kids, stack |-> v.stack, left |-> v.left, found |-> v.found]
          /\ v.kids = Last(w.stack) /\ v.stack = Front(w.stack) /\ v.left = w.left /\ v.found = w.found
      BY <1>4, <2>2
    <2> HIDE DEF v
    <2>4. /\ v.stack \in Seq(Seq(Refs)) /\ Len(v.stack) = Len(w.stack) - 1
          /\ v.kids = w.stack[Len(w.stack)]
          /\ \A j \in 1 .. Len(w.stack) - 1 : v.stack[j] = w.stack[j]
      <3> DEFINE S == Seq(Refs)
      <3>1. w.stack \in Seq(S)
        BY <1>4
      <3> HIDE DEF S
      <3>2. /\ Front(w.stack) \in Seq(S) /\ Len(Front(w.stack)) = Len(w.stack) - 1
            /\ Last(w.stack) = w.stack[Len(w.stack)]
            /\ \A j \in 1 .. Len(w.stack) - 1 : Front(w.stack)[j] = w.stack[j]
        BY <2>1, <3>1, FrontIs
      <3> QED
        BY <2>3, <3>2 DEF S
    <2>5. \E p, a : Levels(objs, nodes, root, hops, v, seen, p, a)
      BY <1>1, <2>1, <2>3, <2>4, LevelsPopped
    <2>6. \E t : Split(nodes, leaves, root, v, t)
      BY <1>2, <1>3, <1>4, <1>5, <1>7, <2>1, <2>3, <2>4, SplitPopped
    <2>7. Walking(objs, nodes, root, hops, leaves, v)
      BY <2>3, <2>5, <2>6 DEF Walking
    <2> QED
      BY <2>7 DEF v
  <1>8. CASE w.kids # << >>
    <2>1. New(objs, nodes, root, w, seen, par, at, l, x)
      <3>1. l = Len(w.stack) /\ x = Head(w.kids).id
        OBVIOUS
      <3> HIDE DEF l, x
      <3> QED
        BY <1>1, <1>8, <3>1, HeadIsNew
    <2>2. /\ x \in nodes \ {root} /\ x \notin seen /\ w.left >= 1
          /\ Tail(w.kids) = From(objs, par[l + 1], at[l + 1] + 1)
          /\ Open(objs, seen \cup {x}, par[l + 1], at[l + 1] + 1)
      <3>1. l + 1 \in 1 .. l + 1
        BY <1>4
      <3> HIDE DEF l, x
      <3>2. Open(objs, seen \cup {x}, par[l + 1], IF l + 1 = l + 1 THEN at[l + 1] + 1 ELSE at[l + 1])
        BY <2>1, <3>1 DEF New
      <3> QED
        BY <2>1, <3>2 DEF New
    <2>3. Listed(nodes, Tail(w.kids))
      <3> DEFINE n == par[l + 1]
                 i == at[l + 1] + 1
      <3>1. n \in nodes /\ i \in Nat \ {0} /\ i <= Len(KidsOf(objs, n)) + 1 /\ Tail(w.kids) = From(objs, n, i)
        BY <1>5, <2>2 DEF Open
      <3> HIDE DEF n, i
      <3> QED
        BY <3>1, FromListed
    <2>4. Listed(nodes, KidsOf(objs, x))
      <3> HIDE DEF x
      <3>1. 1 \in Nat \ {0} /\ From(objs, x, 1) = KidsOf(objs, x) /\ 1 <= Len(KidsOf(objs, x)) + 1
        BY AllKids
      <3> QED
        BY <2>2, <3>1, FromListed
    <2>5. x \in DOMAIN objs /\ TypeOf(objs, x) = objs[x].type /\ objs[x].type \in {"Page", "Pages"}
      BY <2>2 DEF Sound, TypeOf
    <2>6. leaves[x] = IF objs[x].type = "Page" THEN <<x>> ELSE Below(leaves, KidsOf(objs, x))
      BY <2>2 DEF Leafy
    <2>7. CASE objs[x].type = "Pages"
      <3>1. Len(w.stack) < DepthLimit
        <4>1. x \in nodes /\ x \in hops[DepthLimit] /\ Kin(objs, par[Len(w.stack) + 1], x)
          BY <2>1, <2>2, <2>7 DEF New
        <4> HIDE DEF x, l
        <4> QED
          BY <1>1, <4>1, NotTooDeep
      <3>2. v = Descended(objs, w)
        BY <1>8, <2>5, <2>7, <3>1 DEF WalkStep
      <3>3. /\ v = [kids |-> v.kids, stack |-> v.stack, left |-> v.left, found |-> v.found]
            /\ v.kids = KidsOf(objs, x) /\ v.left = w.left - 1 /\ v.found = w.found
            /\ v.stack = IF Tail(w.kids) = << >> THEN w.stack ELSE Append(w.stack, Tail(w.kids))
        <4>1. v = [kids |-> KidsOf(objs, x), left |-> w.left - 1, found |-> w.found,
                   stack |-> IF Tail(w.kids) = << >> THEN w.stack ELSE Append(w.stack, Tail(w.kids))]
          BY <1>4, <3>2 DEF Descended
        <4> HIDE DEF v
        <4> QED
          BY <4>1
      <3>a. x = Head(w.kids).id /\ leaves[Head(w.kids).id] = Below(leaves, v.kids) /\ Listed(nodes, v.kids)
        BY <2>4, <2>6, <2>7, <3>3
      <3> HIDE DEF v, x
      <3>4. CASE Tail(w.kids) = << >>
        <4>1. v.stack = w.stack
          BY <3>3, <3>4
        <4>2. \E s, p, a : Levels(objs, nodes, root, hops, v, s, p, a)
          BY <1>1, <1>8, <2>7, <3>3, <3>a, <4>1, LevelsReplaced
        <4>3. Split(nodes, leaves, root, v, tail)
          BY <1>2, <1>3, <1>4, <1>5, <1>6, <1>8, <3>3, <3>a, <3>4, <4>1, SplitReplaced
        <4>4. Walking(objs, nodes, root, hops, leaves, v)
          BY <3>3, <4>2, <4>3 DEF Walking
        <4> QED
          BY <4>4 DEF v
      <3>5. CASE Tail(w.kids) # << >>
        <4>1. /\ v.stack \in Seq(Seq(Refs)) /\ Len(v.stack) = Len(w.stack) + 1
              /\ v.stack[Len(w.stack) + 1] = Tail(w.kids)
              /\ \A j \in 1 .. Len(w.stack) : v.stack[j] = w.stack[j]
          <5> DEFINE S == Seq(Refs)
                     e == Tail(w.kids)
          <5>1. w.stack \in Seq(S) /\ e \in S /\ v.stack = Append(w.stack, e)
            BY <1>4, <2>3, <3>3, <3>5 DEF Listed
          <5> HIDE DEF S, e
          <5>2. /\ Append(w.stack, e) \in Seq(S) /\ Len(Append(w.stack, e)) = Len(w.stack) + 1
                /\ Append(w.stack, e)[Len(w.stack) + 1] = e
                /\ \A j \in 1 .. Len(w.stack) : Append(w.stack, e)[j] = w.stack[j]
            BY <5>1, AppendProperties
          <5> QED
            BY <5>1, <5>2 DEF S, e
        <4>2. \E s, p, a : Levels(objs, nodes, root, hops, v, s, p, a)
          BY <1>1, <1>8, <2>7, <3>3, <3>a, <4>1, LevelsDescended
        <4>3. \E t : Split(nodes, leaves, root, v, t)
          BY <1>2, <1>3, <1>4, <1>5, <1>6, <1>8, <2>3, <3>3, <3>a, <3>5, <4>1, SplitDescended
        <4>4. Walking(objs, nodes, root, hops, leaves, v)
          BY <3>3, <4>2, <4>3 DEF Walking
        <4> QED
          BY <4>4 DEF v
      <3> QED
        BY <3>4, <3>5
    <2>8. CASE objs[x].type # "Pages"
      <3>1. objs[x].type = "Page" /\ leaves[x] = <<x>>
        BY <2>5, <2>6, <2>8
      <3>2. v = Passed(w, <<x>>)
        BY <1>8, <2>5, <3>1 DEF WalkStep
      <3>3. /\ v = [kids |-> v.kids, stack |-> v.stack, left |-> v.left, found |-> v.found]
            /\ v.kids = Tail(w.kids) /\ v.left = w.left - 1 /\ v.found = w.found \o <<x>>
            /\ v.stack = w.stack
        <4>1. v = [kids |-> Tail(w.kids), stack |-> w.stack, left |-> w.left - 1,
                   found |-> w.found \o <<x>>]
          BY <1>4, <3>2 DEF Passed
        <4> HIDE DEF v
        <4> QED
          BY <4>1
      <3>a. x = Head(w.kids).id
        OBVIOUS
      <3> HIDE DEF v, x
      <3>4. \E s, p, a : Levels(objs, nodes, root, hops, v, s, p, a)
        BY <1>1, <1>8, <3>3, <3>a, LevelsPassed
      <3>5. Split(nodes, leaves, root, v, tail)
        BY <1>2, <1>3, <1>4, <1>5, <1>6, <1>8, <2>2, <2>3, <3>1, <3>3, <3>a, SplitPassed
      <3>6. Walking(objs, nodes, root, hops, leaves, v)
        BY <3>3, <3>4, <3>5 DEF Walking
      <3> QED
        BY <3>6 DEF v
    <2> QED
      BY <2>7, <2>8
  <1> QED
    BY <1>7, <1>8

-----------------------------------------------------------------------------
(***************************************************************************)
(* What IsTree says: the nodes the root leads to, hop by hop, are a tree.  *)
(***************************************************************************)
KidIds(objs, h) == UNION {{r.id : r \in Range(KidsOf(objs, id))} : id \in h}

\* Whatever the root of the page tree leads to, hop by hop.
Hops(objs, trailer, hops) ==
    /\ hops \in [Nat -> SUBSET Ids]
    /\ hops[0] = PageRoots(objs, trailer)
    /\ \A k \in Nat : hops[k + 1] = hops[k] \cup KidIds(objs, hops[k])
    /\ \A k \in Nat : NodesWithin(objs, trailer, k) = hops[k]
    /\ TreeNodes(objs, trailer) = hops[Cardinality(DOMAIN objs) + 1]

LEMMA KidIdsAre ==
    ASSUME NEW objs, IsObjects(objs), NEW h
    PROVE  /\ KidIds(objs, h) \subseteq Ids
           /\ \A y : y \in KidIds(objs, h) <=> \E m \in h : Kin(objs, m, y)
  <1>1. ASSUME NEW m
        PROVE  /\ \A y : y \in {r.id : r \in Range(KidsOf(objs, m))} <=> Kin(objs, m, y)
               /\ {r.id : r \in Range(KidsOf(objs, m))} \subseteq Ids
    <2> DEFINE k == KidsOf(objs, m)
    <2>1. k \in Seq(Refs)
      BY KidsAreRefs
    <2>2. Range(k) = {k[i] : i \in DOMAIN k}
      BY DEF Range
    <2>3. \A i \in DOMAIN k : k[i].id \in Ids
      <3>1. \A i \in DOMAIN k : k[i] \in Refs
        BY <2>1
      <3> QED
        BY <3>1 DEF Refs
    <2> QED
      BY <2>2, <2>3 DEF Kin, KidAt
  <1> QED
    BY <1>1 DEF KidIds

LEMMA RootsAre ==
    ASSUME NEW objs, IsObjects(objs), NEW trailer
    PROVE  /\ PageRoots(objs, trailer) \subseteq Ids
           /\ \A r, s \in PageRoots(objs, trailer) : r = s
  <1>1. ASSUME NEW c \in DOMAIN objs, "Pages" \in DOMAIN objs[c].links
        PROVE  objs[c].links["Pages"].id \in Ids
    <2>1. objs[c].links["Pages"] \in Refs
      BY <1>1 DEF IsObjects, IsObject
    <2> QED
      BY <2>1 DEF Refs
  <1> QED
    BY <1>1 DEF PageRoots

LEMMA HopsExist ==
    ASSUME NEW objs, IsObjects(objs), IsFiniteSet(DOMAIN objs), NEW trailer
    PROVE  \E hops : Hops(objs, trailer, hops)
  <1> DEFINE S == SUBSET Ids
             first == PageRoots(objs, trailer)
             n == Cardinality(DOMAIN objs) + 1
             step == [k \in Nat |-> [h \in S |-> h \cup KidIds(objs, h)]]
  <1>1. first \in S /\ step \in [Nat -> [S -> S]]
    <2>1. first \in S
      BY RootsAre
    <2>2. ASSUME NEW h \in S
          PROVE  h \cup KidIds(objs, h) \in S
      BY KidIdsAre
    <2> QED
      BY <2>1, <2>2
  <1>2. \A k \in Nat, h \in S : step[k][h] = h \cup KidIds(objs, h)
    OBVIOUS
  <1>3. n \in Nat
    BY FS_CardinalityType
  <1> HIDE DEF S, first, step, n
  <1>4. PICK f : Recursion(f, S, first, step)
    BY <1>1, RecursionExists
  <1>5. f \in [Nat -> S] /\ f[0] = first /\ \A k \in Nat : f[k + 1] = f[k] \cup KidIds(objs, f[k])
    BY <1>2, <1>4 DEF Recursion
  <1> DEFINE Is(g) == g = [k \in Nat |-> IF k = 0 THEN PageRoots(objs, trailer)
                                         ELSE LET h == g[k - 1]
                                              IN  h \cup UNION {{r.id : r \in Range(KidsOf(objs, id))} : id \in h}]
             g == CHOOSE g : Is(g)
  <1>6. Is(f)
    <2>1. ASSUME NEW k \in Nat
          PROVE  f[k] = IF k = 0 THEN PageRoots(objs, trailer)
                        ELSE LET h == f[k - 1]
                             IN  h \cup UNION {{r.id : r \in Range(KidsOf(objs, id))} : id \in h}
      <3>1. CASE k = 0
        BY <1>5, <3>1 DEF first
      <3>2. CASE k # 0
        <4>1. k - 1 \in Nat /\ (k - 1) + 1 = k
          BY <3>2
        <4>2. f[k] = f[k - 1] \cup KidIds(objs, f[k - 1])
          BY <1>5, <4>1
        <4> QED
          BY <3>2, <4>2 DEF KidIds
      <3> QED
        BY <3>1, <3>2
    <2>2. f = [k \in Nat |-> f[k]]
      BY <1>5
    <2> QED
      BY <2>1, <2>2
  <1>7. Is(g)
    BY <1>6
  <1>8. TreeNodes(objs, trailer) = g[n] /\ \A k \in Nat : NodesWithin(objs, trailer, k) = g[k]
    BY DEF TreeNodes, NodesWithin, n
  <1> HIDE DEF g
  <1>9. \A k \in Nat : g[k] = IF k = 0 THEN PageRoots(objs, trailer)
                              ELSE g[k - 1] \cup KidIds(objs, g[k - 1])
    BY <1>7 DEF KidIds
  <1>10. g[0] = first /\ \A k \in Nat : g[k + 1] = g[k] \cup KidIds(objs, g[k])
    <2>1. ASSUME NEW k \in Nat
          PROVE  g[k + 1] = g[k] \cup KidIds(objs, g[k])
      <3>1. k + 1 \in Nat /\ k + 1 # 0 /\ (k + 1) - 1 = k
        OBVIOUS
      <3> QED
        BY <1>9, <3>1
    <2> QED
      BY <1>9, <2>1 DEF first
  <1>11. \A k \in Nat : g[k] \in S
    <2> DEFINE T == {k \in Nat : g[k] \in S}
    <2>1. 0 \in T
      BY <1>1, <1>10
    <2>2. \A k \in Nat : k \in T => k + 1 \in T
      BY <1>10, KidIdsAre DEF S
    <2> HIDE DEF T
    <2>3. \A k \in Nat : k \in T
      BY <2>1, <2>2, SetInduction
    <2> QED
      BY <2>3 DEF T
  <1>12. g \in [Nat -> S]
    BY <1>7, <1>11
  <1>13. Hops(objs, trailer, g)
    BY <1>8, <1>10, <1>12 DEF Hops, S, first, n
  <1> QED
    BY <1>13

LEMMA HopsGrow ==
    ASSUME NEW objs, NEW trailer, NEW hops, Hops(objs, trailer, hops),
           NEW i \in Nat, NEW j \in Nat, i <= j
    PROVE  hops[i] \subseteq hops[j]
  <1> DEFINE T == {k \in Nat : hops[i] \subseteq hops[i + k]}
  <1>1. 0 \in T
    OBVIOUS
  <1>2. ASSUME NEW k \in Nat, k \in T
        PROVE  k + 1 \in T
    <2>1. i + (k + 1) = (i + k) + 1 /\ i + k \in Nat
      OBVIOUS
    <2>2. hops[i + k] \subseteq hops[i + (k + 1)]
      BY <2>1 DEF Hops
    <2> QED
      BY <1>2, <2>2
  <1> HIDE DEF T
  <1>3. \A k \in Nat : k \in T
    BY <1>1, <1>2, SetInduction
  <1>4. j - i \in Nat /\ i + (j - i) = j
    OBVIOUS
  <1> QED
    BY <1>3, <1>4 DEF T

\* A hop that leads nowhere new is the last.
LEMMA HopsStop ==
    ASSUME NEW objs, NEW trailer, NEW hops, Hops(objs, trailer, hops),
           NEW i \in Nat, hops[i + 1] = hops[i], NEW j \in Nat, i <= j
    PROVE  hops[j] = hops[i]
  <1> DEFINE T == {k \in Nat : hops[i + k] = hops[i]}
  <1>1. 0 \in T
    OBVIOUS
  <1>2. ASSUME NEW k \in Nat, k \in T
        PROVE  k + 1 \in T
    <2>1. i + (k + 1) = (i + k) + 1 /\ i + k \in Nat
      OBVIOUS
    <2>2. hops[i + (k + 1)] = hops[i + k] \cup KidIds(objs, hops[i + k])
      BY <2>1 DEF Hops
    <2>3. hops[i + 1] = hops[i] \cup KidIds(objs, hops[i])
      BY DEF Hops
    <2> QED
      BY <1>2, <2>2, <2>3
  <1> HIDE DEF T
  <1>3. \A k \in Nat : k \in T
    BY <1>1, <1>2, SetInduction
  <1>4. j - i \in Nat /\ i + (j - i) = j
    OBVIOUS
  <1> QED
    BY <1>3, <1>4 DEF T

\* Every hop but the last leads to a node, so that there are fewer of them than objects.
LEMMA HopsEnd ==
    ASSUME NEW objs, IsFiniteSet(DOMAIN objs), NEW trailer,
           NEW hops, Hops(objs, trailer, hops),
           TreeNodes(objs, trailer) # {}, TreeNodes(objs, trailer) \subseteq DOMAIN objs
    PROVE  /\ Cardinality(DOMAIN objs) \in Nat \ {0}
           /\ \A j \in Nat : j >= Cardinality(DOMAIN objs) - 1 => hops[j] = TreeNodes(objs, trailer)
           /\ hops[0] # {}
  <1> DEFINE n == Cardinality(DOMAIN objs)
             nodes == TreeNodes(objs, trailer)
  <1>1. n \in Nat \ {0}
    BY FS_CardinalityType, FS_EmptySet
  <1>2. hops[0] # {}
    <2>1. SUFFICES ASSUME hops[0] = {}
                   PROVE  FALSE
      OBVIOUS
    <2>2. hops[0 + 1] = hops[0] \cup KidIds(objs, hops[0])
      BY DEF Hops
    <2>3. hops[0 + 1] = hops[0]
      BY <2>1, <2>2 DEF KidIds
    <2>4. nodes = hops[n + 1] /\ n + 1 \in Nat /\ 0 <= n + 1 /\ 0 \in Nat
      BY <1>1 DEF Hops
    <2> HIDE DEF n, nodes
    <2>5. hops[n + 1] = hops[0]
      BY <2>3, <2>4, HopsStop
    <2> QED
      BY <2>1, <2>4, <2>5 DEF nodes
  <1>3. \A k \in 0 .. n + 1 : hops[k] \subseteq DOMAIN objs /\ IsFiniteSet(hops[k]) /\ Cardinality(hops[k]) \in Nat
    <2>1. ASSUME NEW k \in 0 .. n + 1
          PROVE  hops[k] \subseteq DOMAIN objs
      <3>1. k \in Nat /\ n + 1 \in Nat /\ k <= n + 1 /\ nodes = hops[n + 1]
        BY <1>1 DEF Hops
      <3> HIDE DEF n
      <3>2. hops[k] \subseteq hops[n + 1]
        BY <3>1, HopsGrow
      <3> QED
        BY <3>1, <3>2
    <2> QED
      BY <2>1, FS_Subset, FS_CardinalityType
  <1> DEFINE T == {k \in Nat : k <= n => hops[k + 1] = hops[k] \/ Cardinality(hops[k]) >= k + 1}
  <1>4. 0 \in T
    <2>1. 0 \in 0 .. n + 1
      BY <1>1
    <2>2. Cardinality(hops[0]) \in Nat /\ Cardinality(hops[0]) # 0
      BY <1>2, <1>3, <2>1, FS_EmptySet
    <2> QED
      BY <2>2
  <1>5. ASSUME NEW k \in Nat, k \in T
        PROVE  k + 1 \in T
    <2>1. SUFFICES ASSUME k + 1 <= n
                   PROVE  hops[(k + 1) + 1] = hops[k + 1] \/ Cardinality(hops[k + 1]) >= (k + 1) + 1
      OBVIOUS
    <2>2. CASE hops[k + 1] = hops[k]
      <3>1. k + 2 \in Nat /\ k <= k + 2 /\ (k + 1) + 1 = k + 2
        OBVIOUS
      <3>2. hops[k + 2] = hops[k]
        BY <2>2, <3>1, HopsStop
      <3> QED
        BY <2>2, <3>1, <3>2
    <2>3. CASE hops[k + 1] # hops[k]
      <3>1. k <= n /\ k \in 0 .. n + 1 /\ k + 1 \in 0 .. n + 1
        BY <1>1, <2>1
      <3>2. Cardinality(hops[k]) >= k + 1
        BY <1>5, <2>3, <3>1
      <3>3. hops[k] \subseteq hops[k + 1]
        BY DEF Hops
      <3>4. Cardinality(hops[k]) <= Cardinality(hops[k + 1]) /\ Cardinality(hops[k]) # Cardinality(hops[k + 1])
        BY <1>3, <2>3, <3>1, <3>3, FS_Subset
      <3>5. Cardinality(hops[k]) \in Nat /\ Cardinality(hops[k + 1]) \in Nat
        BY <1>3, <3>1
      <3> DEFINE c == Cardinality(hops[k])
                 d == Cardinality(hops[k + 1])
      <3>6. c >= k + 1 /\ c <= d /\ c # d /\ c \in Nat /\ d \in Nat
        BY <3>2, <3>4, <3>5
      <3> HIDE DEF c, d
      <3>7. d >= (k + 1) + 1
        BY <3>6
      <3> QED
        BY <3>7 DEF d
    <2> QED
      BY <2>2, <2>3
  <1> HIDE DEF T
  <1>6. \A k \in Nat : k \in T
    BY <1>4, <1>5, SetInduction
  <1> DEFINE m == n - 1
  <1>7. m \in Nat /\ m + 1 = n /\ m <= n /\ m \in 0 .. n + 1 /\ n \in 0 .. n + 1 /\ n + 1 \in Nat /\ m <= n + 1
    BY <1>1
  <1>8. hops[m + 1] = hops[m]
    <2>1. SUFFICES ASSUME Cardinality(hops[m]) >= m + 1
                   PROVE  hops[m + 1] = hops[m]
      BY <1>6, <1>7 DEF T
    <2>2. hops[m] \subseteq DOMAIN objs /\ Cardinality(hops[m]) <= Cardinality(DOMAIN objs)
          /\ Cardinality(hops[m]) \in Nat
      BY <1>3, <1>7, FS_Subset
    <2>3. Cardinality(hops[m]) = Cardinality(DOMAIN objs)
      BY <1>1, <1>7, <2>1, <2>2
    <2>4. hops[m] = DOMAIN objs
      BY <2>2, <2>3, FS_Subset
    <2>5. hops[m] \subseteq hops[m + 1] /\ hops[m + 1] \subseteq DOMAIN objs
      BY <1>3, <1>7 DEF Hops
    <2> QED
      BY <2>4, <2>5
  <1>9. nodes = hops[n + 1]
    BY DEF Hops
  <1> HIDE DEF m, n
  <1>10. nodes = hops[m]
    BY <1>7, <1>8, <1>9, HopsStop
  <1>11. ASSUME NEW j \in Nat, j >= m
         PROVE  hops[j] = nodes
    <2>1. m <= j
      BY <1>7, <1>11
    <2>2. hops[j] = hops[m]
      BY <1>7, <1>8, <2>1, HopsStop
    <2> QED
      BY <1>10, <2>2
  <1> QED
    BY <1>1, <1>2, <1>11 DEF m, n

LEMMA TreeIsSound ==
    ASSUME NEW objs, IsObjects(objs), IsFiniteSet(DOMAIN objs), NEW trailer, IsTree(objs, trailer),
           NEW root, root = CHOOSE r \in PageRoots(objs, trailer) : TRUE
    PROVE  Sound(objs, TreeNodes(objs, trailer), root) /\ PageRoots(objs, trailer) = {root}
  <1> DEFINE nodes == TreeNodes(objs, trailer)
             roots == PageRoots(objs, trailer)
             n == Cardinality(DOMAIN objs)
             places == {pl \in nodes \X (1 .. Cardinality(nodes)) : pl[2] \in DOMAIN KidsOf(objs, pl[1])}
             At(pl) == KidsOf(objs, pl[1])[pl[2]].id
  <1>1. /\ nodes # {} /\ nodes \subseteq DOMAIN objs
        /\ \A r \in roots : TypeOf(objs, r) = "Pages"
        /\ \A x \in nodes :
              /\ objs[x].type = IF DOMAIN objs[x].lists \cap {"Kids"} = {} THEN "Page" ELSE "Pages"
              /\ Len(KidsOf(objs, x)) <= Cardinality(nodes)
        /\ \A pl, ql \in places : At(pl) = At(ql) => pl = ql
        /\ \A pl \in places : At(pl) \notin roots
    BY DEF IsTree
  <1> HIDE DEF nodes, roots
  <1>2. PICK hops : Hops(objs, trailer, hops)
    BY HopsExist
  <1>3. n \in Nat \ {0} /\ (\A j \in Nat : j >= n - 1 => hops[j] = nodes) /\ hops[0] # {} /\ hops[0] = roots
    <2>1. TreeNodes(objs, trailer) # {} /\ TreeNodes(objs, trailer) \subseteq DOMAIN objs
      BY <1>1 DEF nodes
    <2> HIDE DEF n
    <2>2. /\ Cardinality(DOMAIN objs) \in Nat \ {0}
          /\ \A j \in Nat : j >= Cardinality(DOMAIN objs) - 1 => hops[j] = TreeNodes(objs, trailer)
          /\ hops[0] # {}
      BY <1>2, <2>1, HopsEnd
    <2>3. hops[0] = PageRoots(objs, trailer)
      BY <1>2 DEF Hops
    <2> QED
      BY <2>2, <2>3 DEF n, nodes, roots
  <1>4. root \in roots /\ roots = {root}
    BY <1>3, RootsAre DEF roots
  <1>5. root \in nodes /\ objs[root].type = "Pages"
    <2>1. n \in Nat /\ n >= n - 1 /\ 0 <= n
      BY <1>3
    <2>2. hops[0] \subseteq hops[n] /\ hops[n] = nodes
      <3> HIDE DEF n
      <3> QED
        BY <1>2, <1>3, <2>1, HopsGrow
    <2> QED
      BY <1>1, <1>3, <1>4, <2>2 DEF TypeOf
  <1>6. ASSUME NEW x \in nodes, NEW i \in DOMAIN KidsOf(objs, x)
        PROVE  KidAt(objs, x, i) \in nodes \ {root} /\ <<x, i>> \in places
    <2>1. <<x, i>> \in places
      <3>1. KidsOf(objs, x) \in Seq(Refs)
        BY KidsAreRefs
      <3>2. IsFiniteSet(nodes) /\ Cardinality(nodes) \in Nat
        BY <1>1, FS_Subset, FS_CardinalityType
      <3>3. i \in 1 .. Len(KidsOf(objs, x)) /\ Len(KidsOf(objs, x)) \in Nat
        BY <3>1
      <3>4. i \in 1 .. Cardinality(nodes)
        BY <1>1, <3>2, <3>3
      <3> QED
        BY <3>4
    <2>2. KidAt(objs, x, i) \notin roots
      BY <1>1, <2>1 DEF KidAt
    <2>3. KidAt(objs, x, i) \in nodes
      <3>1. hops[n] = nodes /\ hops[n + 1] = nodes /\ hops[n + 1] = hops[n] \cup KidIds(objs, hops[n])
        <4>1. n \in Nat /\ n >= n - 1 /\ n + 1 \in Nat /\ n + 1 >= n - 1
          BY <1>3
        <4> QED
          BY <1>2, <1>3, <4>1 DEF Hops
      <3>2. KidAt(objs, x, i) \in KidIds(objs, nodes)
        BY KidIdsAre DEF Kin
      <3> QED
        BY <3>1, <3>2
    <2> QED
      BY <1>4, <2>1, <2>2, <2>3
  <1>7. ASSUME NEW x \in nodes, NEW y \in nodes,
               NEW i \in DOMAIN KidsOf(objs, x), NEW j \in DOMAIN KidsOf(objs, y),
               KidAt(objs, x, i) = KidAt(objs, y, j)
        PROVE  x = y /\ i = j
    <2>1. <<x, i>> \in places /\ <<y, j>> \in places
      BY <1>6
    <2>2. At(<<x, i>>) = At(<<y, j>>)
      BY <1>7 DEF KidAt
    <2>3. <<x, i>> = <<y, j>>
      BY <1>1, <2>1, <2>2
    <2> QED
      BY <2>3
  <1>8. \A x \in nodes : objs[x].type = IF "Kids" \in DOMAIN objs[x].lists THEN "Pages" ELSE "Page"
    BY <1>1
  <1> QED
    BY <1>1, <1>4, <1>5, <1>6, <1>7, <1>8 DEF Sound, nodes, roots

-----------------------------------------------------------------------------
(***************************************************************************)
(* What LeavesOf says: after enough rounds every node has its leaves.      *)
(***************************************************************************)
BelowIn(objs, leaves, kids) ==
    FlattenSeq([i \in DOMAIN kids |->
                   LET kid == kids[i].id IN IF kid \in DOMAIN objs THEN leaves[kid] ELSE << >>])

\* The leaves no more than h levels below, for every h.
Grown(objs, g) ==
    /\ g \in [Nat -> [DOMAIN objs -> Seq(DOMAIN objs)]]
    /\ \A x \in DOMAIN objs : g[0][x] = IF objs[x].type = "Page" THEN <<x>> ELSE << >>
    /\ \A h \in Nat : \A x \in DOMAIN objs :
          g[h + 1][x] = IF objs[x].type = "Page" THEN <<x>> ELSE BelowIn(objs, g[h], KidsOf(objs, x))
    /\ \A id : LeavesOf(objs, id) = g[Cardinality(DOMAIN objs)][id]

LEMMA BelowInType ==
    ASSUME NEW objs, NEW leaves \in [DOMAIN objs -> Seq(DOMAIN objs)], NEW kids \in Seq(Refs)
    PROVE  BelowIn(objs, leaves, kids) \in Seq(DOMAIN objs)
  <1> DEFINE D == DOMAIN objs
             S == Seq(D)
             n == Len(kids)
             s == [i \in DOMAIN kids |->
                      LET kid == kids[i].id IN IF kid \in DOMAIN objs THEN leaves[kid] ELSE << >>]
  <1>1. DOMAIN kids = 1 .. n /\ n \in Nat
    OBVIOUS
  <1>2. << >> \in S
    BY EmptySeq
  <1>3. s \in [1 .. n -> S]
    <2>1. \A y \in D : leaves[y] \in S
      OBVIOUS
    <2> HIDE DEF S
    <2> QED
      BY <1>1, <1>2, <2>1
  <1> HIDE DEF s, S, n, D
  <1>4. s \in Seq(S)
    BY <1>1, <1>3
  <1>5. FlattenSeq(s) \in Seq(D)
    BY <1>4, FlattenType DEF S
  <1> QED
    BY <1>5 DEF BelowIn, s, D

LEMMA LeavesGrow ==
    ASSUME NEW objs, IsObjects(objs), IsFiniteSet(DOMAIN objs)
    PROVE  \E g : Grown(objs, g)
  <1> DEFINE D == DOMAIN objs
             S == [D -> Seq(D)]
             n == Cardinality(DOMAIN objs)
             first == [x \in D |-> IF objs[x].type = "Page" THEN <<x>> ELSE << >>]
             over(below) == [x \in D |-> IF objs[x].type = "Page" THEN <<x>> ELSE BelowIn(objs, below, KidsOf(objs, x))]
             step == [h \in Nat |-> [below \in S |-> over(below)]]
  <1>1. first \in S
    <2>1. << >> \in Seq(D)
      BY EmptySeq
    <2>2. ASSUME NEW x \in D
          PROVE  <<x>> \in Seq(D)
      OBVIOUS
    <2>3. \A x \in D : (IF objs[x].type = "Page" THEN <<x>> ELSE << >>) \in Seq(D)
      BY <2>1, <2>2
    <2> QED
      BY <2>3
  <1>2. ASSUME NEW below \in S
        PROVE  over(below) \in S
    <2>1. ASSUME NEW x \in D
          PROVE  (IF objs[x].type = "Page" THEN <<x>> ELSE BelowIn(objs, below, KidsOf(objs, x))) \in Seq(D)
      <3>1. BelowIn(objs, below, KidsOf(objs, x)) \in Seq(D)
        <4>1. KidsOf(objs, x) \in Seq(Refs)
          BY KidsAreRefs
        <4> QED
          BY <4>1, BelowInType
      <3>2. <<x>> \in Seq(D)
        OBVIOUS
      <3> QED
        BY <3>1, <3>2
    <2> QED
      BY <2>1
  <1>3. step \in [Nat -> [S -> S]] /\ \A h \in Nat, below \in S : step[h][below] = over(below)
    <2> HIDE DEF S, over
    <2> QED
      BY <1>2
  <1>4. n \in Nat
    BY FS_CardinalityType
  <1> HIDE DEF S, first, step
  <1>5. PICK f : Recursion(f, S, first, step)
    BY <1>1, <1>3, RecursionExists
  <1>6. f \in [Nat -> S] /\ f[0] = first /\ \A h \in Nat : f[h + 1] = over(f[h])
    <2> HIDE DEF over
    <2> QED
      BY <1>3, <1>5 DEF Recursion
  <1> DEFINE Is(g) == g = [h \in Nat |->
                IF h = 0 THEN [x \in DOMAIN objs |-> IF objs[x].type = "Page" THEN <<x>> ELSE << >>]
                ELSE LET below == g[h - 1]
                     IN  [x \in DOMAIN objs |->
                             IF objs[x].type = "Page" THEN <<x>>
                             ELSE FlattenSeq([i \in DOMAIN KidsOf(objs, x) |->
                                                 LET kid == KidsOf(objs, x)[i].id
                                                 IN  IF kid \in DOMAIN objs THEN below[kid] ELSE << >>])]]
             g == CHOOSE g : Is(g)
             IsToo(k) == k = [h \in Nat |-> IF h = 0 THEN first ELSE over(k[h - 1])]
  <1>7. \A k : Is(k) <=> IsToo(k)
    BY DEF first, BelowIn
  <1>8. \A id : LeavesOf(objs, id) = g[n][id]
    BY DEF LeavesOf
  <1> HIDE DEF Is, over
  <1>9. IsToo(f)
    <2>1. ASSUME NEW h \in Nat
          PROVE  f[h] = IF h = 0 THEN first ELSE over(f[h - 1])
      <3>1. CASE h = 0
        BY <1>6, <3>1
      <3>2. CASE h # 0
        <4>1. h - 1 \in Nat /\ (h - 1) + 1 = h
          BY <3>2
        <4>2. f[(h - 1) + 1] = over(f[h - 1])
          BY <1>6, <4>1
        <4> QED
          BY <3>2, <4>1, <4>2
      <3> QED
        BY <3>1, <3>2
    <2>2. f = [h \in Nat |-> f[h]]
      BY <1>6
    <2> QED
      BY <2>1, <2>2
  <1> HIDE DEF IsToo
  <1>10. IsToo(g)
    <2>1. Is(f)
      BY <1>7, <1>9
    <2>2. Is(g)
      BY <2>1
    <2> QED
      BY <1>7, <2>2
  <1> HIDE DEF g
  <1>11. g[0] = first /\ \A h \in Nat : g[h + 1] = over(g[h])
    <2>1. \A h \in Nat : g[h] = IF h = 0 THEN first ELSE over(g[h - 1])
      BY <1>10 DEF IsToo
    <2>2. ASSUME NEW h \in Nat
          PROVE  g[h + 1] = over(g[h])
      <3>1. h + 1 \in Nat /\ h + 1 # 0 /\ (h + 1) - 1 = h
        OBVIOUS
      <3> QED
        BY <2>1, <3>1
    <2> QED
      BY <2>1, <2>2
  <1>12. \A h \in Nat : g[h] \in S
    <2> DEFINE T == {h \in Nat : g[h] \in S}
    <2>1. 0 \in T
      BY <1>1, <1>11
    <2>2. \A h \in Nat : h \in T => h + 1 \in T
      BY <1>2, <1>11
    <2> HIDE DEF T
    <2>3. \A h \in Nat : h \in T
      BY <2>1, <2>2, SetInduction
    <2> QED
      BY <2>3 DEF T
  <1>13. g \in [Nat -> S]
    BY <1>10, <1>12 DEF IsToo
  <1>14. \A x \in DOMAIN objs : g[0][x] = IF objs[x].type = "Page" THEN <<x>> ELSE << >>
    BY <1>11 DEF first
  <1>15. \A h \in Nat : \A x \in DOMAIN objs :
            g[h + 1][x] = IF objs[x].type = "Page" THEN <<x>> ELSE BelowIn(objs, g[h], KidsOf(objs, x))
    BY <1>11 DEF over
  <1>16. Grown(objs, g)
    BY <1>8, <1>13, <1>14, <1>15 DEF Grown, S
  <1> QED
    BY <1>16

\* In a tree the leaves of a node are those of its kids, in their order.
LEMMA KidsOfNode ==
    ASSUME NEW objs, IsObjects(objs), NEW nodes, NEW root, Sound(objs, nodes, root),
           NEW leaves, NEW n \in nodes
    PROVE  BelowIn(objs, leaves, KidsOf(objs, n)) = Below(leaves, KidsOf(objs, n))
  <1> DEFINE k == KidsOf(objs, n)
  <1>1. \A i \in DOMAIN k : k[i].id \in DOMAIN objs
    BY DEF Sound, KidAt
  <1> HIDE DEF k
  <1>2. [i \in DOMAIN k |-> LET kid == k[i].id IN IF kid \in DOMAIN objs THEN leaves[kid] ELSE << >>]
        = [i \in DOMAIN k |-> leaves[k[i].id]]
    BY <1>1
  <1> QED
    BY <1>2 DEF BelowIn, Below, k

\* A node is not led to before its parent.
LEMMA ParentsFirst ==
    ASSUME NEW objs, IsObjects(objs), NEW trailer, NEW hops, Hops(objs, trailer, hops),
           NEW nodes, NEW root, Sound(objs, nodes, root), hops[0] = {root},
           \A j \in Nat : hops[j] \subseteq nodes,
           NEW j \in Nat, NEW y \in hops[j], NEW x \in nodes, Kin(objs, x, y)
    PROVE  j # 0 /\ x \in hops[j - 1]
  <1> DEFINE Right(i) == \A z \in hops[i], n \in nodes : Kin(objs, n, z) => i # 0 /\ n \in hops[i - 1]
             T == {i \in Nat : Right(i)}
  <1>0. \A n \in nodes : \A z : Kin(objs, n, z) => z # root
    BY DEF Sound, Kin
  <1>1. 0 \in T
    <2> QED
      BY <1>0
  <1>2. ASSUME NEW i \in Nat, i \in T
        PROVE  i + 1 \in T
    <2>1. SUFFICES ASSUME NEW z \in hops[i + 1], NEW n \in nodes, Kin(objs, n, z)
                   PROVE  n \in hops[i]
      OBVIOUS
    <2>2. hops[i + 1] = hops[i] \cup KidIds(objs, hops[i])
      BY DEF Hops
    <2>3. CASE z \in hops[i]
      <3>1. i # 0 /\ n \in hops[i - 1]
        BY <1>2, <2>1, <2>3
      <3>2. i - 1 \in Nat /\ (i - 1) + 1 = i
        BY <3>1
      <3>3. hops[i - 1] \subseteq hops[i]
        BY <3>2 DEF Hops
      <3> QED
        BY <3>1, <3>3
    <2>4. CASE z \in KidIds(objs, hops[i])
      <3>1. PICK m \in hops[i] : Kin(objs, m, z)
        BY <2>4, KidIdsAre
      <3>2. m = n
        BY <2>1, <3>1, OneParent
      <3> QED
        BY <3>1, <3>2
    <2> QED
      BY <2>2, <2>3, <2>4
  <1> HIDE DEF T
  <1>3. \A i \in Nat : i \in T
    BY <1>1, <1>2, SetInduction
  <1> QED
    BY <1>3 DEF T

\* What is below a list does not change where the leaves of its entries do not.
LEMMA BelowSame ==
    ASSUME NEW kids, NEW f, NEW g, \A i \in DOMAIN kids : f[kids[i].id] = g[kids[i].id]
    PROVE  Below(f, kids) = Below(g, kids)
  <1>1. [i \in DOMAIN kids |-> f[kids[i].id]] = [i \in DOMAIN kids |-> g[kids[i].id]]
    OBVIOUS
  <1> QED
    BY <1>1 DEF Below

\* The hops stay in the tree, and from the m-th on they cover it.
Covered(hops, nodes, root, m) ==
    /\ hops[0] = {root}
    /\ \A j \in Nat : hops[j] \subseteq nodes
    /\ \A j \in Nat : j >= m => hops[j] = nodes

\* The leaves are all there once there has been a hop for every object.
LEMMA LeavesSettle ==
    ASSUME NEW objs, IsObjects(objs), NEW trailer, NEW hops, Hops(objs, trailer, hops),
           NEW nodes, NEW root, Sound(objs, nodes, root),
           NEW m \in Nat, Covered(hops, nodes, root, m),
           NEW g, Grown(objs, g), NEW n \in nodes
    PROVE  g[m + 1][n] = g[m][n]
  <1> DEFINE Unstable(k, x) == g[k + 1][x] # g[k][x]
             Late(x, j) == j = 0 \/ x \notin hops[j - 1]
             T == {k \in Nat : \A x \in nodes, j \in Nat : Unstable(k, x) /\ Late(x, j) => j + k + 1 <= m}
  <1>1. ASSUME NEW x \in nodes, NEW y, Kin(objs, x, y), NEW j \in Nat, Late(x, j)
        PROVE  Late(y, j + 1)
    <2>1. SUFFICES ASSUME y \in hops[j]
                   PROVE  FALSE
      OBVIOUS
    <2>2. j # 0 /\ x \in hops[j - 1]
      BY <1>1, <2>1, ParentsFirst DEF Covered
    <2> QED
      BY <1>1, <2>2
  <1>2. ASSUME NEW x \in nodes, NEW j \in Nat, Late(x, j)
        PROVE  j <= m
    <2>1. SUFFICES ASSUME j > m
                   PROVE  FALSE
      OBVIOUS
    <2>2. j # 0 /\ j - 1 \in Nat /\ j - 1 >= m
      BY <2>1
    <2> QED
      BY <1>2, <2>2 DEF Covered
  <1>3. ASSUME NEW x \in nodes, NEW h \in Nat
        PROVE  g[h + 1][x] = IF objs[x].type = "Page" THEN <<x>> ELSE Below(g[h], KidsOf(objs, x))
    <2>1. x \in DOMAIN objs
      BY DEF Sound
    <2>2. BelowIn(objs, g[h], KidsOf(objs, x)) = Below(g[h], KidsOf(objs, x))
      BY KidsOfNode
    <2> QED
      BY <2>1, <2>2 DEF Grown
  <1>4. ASSUME NEW x \in nodes, NEW i \in DOMAIN KidsOf(objs, x)
        PROVE  KidAt(objs, x, i) \in nodes /\ Kin(objs, x, KidAt(objs, x, i))
    BY DEF Sound, Kin
  <1>5. 0 \in T
    <2>1. SUFFICES ASSUME NEW x \in nodes, NEW j \in Nat, g[0 + 1][x] # g[0][x], Late(x, j)
                   PROVE  j + 0 + 1 <= m
      OBVIOUS
    <2>2. g[0][x] = IF objs[x].type = "Page" THEN <<x>> ELSE << >>
      BY DEF Grown, Sound
    <2>3. Below(g[0], KidsOf(objs, x)) # << >>
      BY <1>3, <2>1, <2>2
    <2>4. KidsOf(objs, x) # << >>
      BY <2>3, BelowNothing
    <2>5. 1 \in DOMAIN KidsOf(objs, x)
      <3>1. KidsOf(objs, x) \in Seq(Refs)
        BY KidsAreRefs
      <3> QED
        BY <2>4, <3>1, EmptySeq
    <2>6. Late(KidAt(objs, x, 1), j + 1) /\ KidAt(objs, x, 1) \in nodes
      BY <1>1, <1>4, <2>1, <2>5
    <2>7. j + 1 <= m
      BY <1>2, <2>6
    <2> QED
      BY <2>7
  <1>6. ASSUME NEW k \in Nat, k \in T
        PROVE  k + 1 \in T
    <2>1. SUFFICES ASSUME NEW x \in nodes, NEW j \in Nat, g[(k + 1) + 1][x] # g[k + 1][x], Late(x, j)
                   PROVE  j + (k + 1) + 1 <= m
      OBVIOUS
    <2>2. Below(g[k + 1], KidsOf(objs, x)) # Below(g[k], KidsOf(objs, x))
      <3>1. k + 1 \in Nat
        OBVIOUS
      <3>2. g[(k + 1) + 1][x] = IF objs[x].type = "Page" THEN <<x>> ELSE Below(g[k + 1], KidsOf(objs, x))
        BY <1>3, <3>1
      <3>3. g[k + 1][x] = IF objs[x].type = "Page" THEN <<x>> ELSE Below(g[k], KidsOf(objs, x))
        BY <1>3
      <3> QED
        BY <2>1, <3>2, <3>3
    <2>3. PICK i \in DOMAIN KidsOf(objs, x) : g[k + 1][KidAt(objs, x, i)] # g[k][KidAt(objs, x, i)]
      BY <2>2, BelowSame DEF KidAt
    <2> DEFINE y == KidAt(objs, x, i)
    <2>4. y \in nodes /\ Late(y, j + 1)
      BY <1>1, <1>4, <2>1
    <2>5. Unstable(k, y) /\ j + 1 \in Nat
      BY <2>3
    <2> HIDE DEF y
    <2>6. (j + 1) + k + 1 <= m
      BY <1>6, <2>4, <2>5
    <2> QED
      BY <2>6
  <1> HIDE DEF T
  <1>7. \A k \in Nat : k \in T
    BY <1>5, <1>6, SetInduction
  <1>8. SUFFICES ASSUME Unstable(m, n)
                 PROVE  FALSE
    OBVIOUS
  <1>9. 0 + m + 1 <= m
    <2>1. m \in T /\ Late(n, 0) /\ 0 \in Nat
      BY <1>7
    <2> QED
      BY <1>8, <2>1 DEF T
  <1> QED
    BY <1>9

LEMMA HopsInTree ==
    ASSUME NEW objs, IsObjects(objs), IsFiniteSet(DOMAIN objs), NEW trailer, IsTree(objs, trailer),
           NEW root, root = CHOOSE r \in PageRoots(objs, trailer) : TRUE,
           NEW hops, Hops(objs, trailer, hops),
           NEW m, m = Cardinality(DOMAIN objs) - 1
    PROVE  /\ m \in Nat /\ Covered(hops, TreeNodes(objs, trailer), root, m)
           /\ OneByOne(objs, TreeNodes(objs, trailer), hops)
  <1> DEFINE nodes == TreeNodes(objs, trailer)
             c == Cardinality(DOMAIN objs)
  <1>1. Sound(objs, nodes, root) /\ PageRoots(objs, trailer) = {root}
    BY TreeIsSound
  <1>2. c \in Nat \ {0} /\ \A j \in Nat : j >= c - 1 => hops[j] = nodes
    <2>1. TreeNodes(objs, trailer) # {} /\ TreeNodes(objs, trailer) \subseteq DOMAIN objs
      BY <1>1 DEF Sound
    <2> HIDE DEF c, nodes
    <2>2. /\ Cardinality(DOMAIN objs) \in Nat \ {0}
          /\ \A j \in Nat : j >= Cardinality(DOMAIN objs) - 1 => hops[j] = TreeNodes(objs, trailer)
      BY <2>1, HopsEnd
    <2> QED
      BY <2>2 DEF c, nodes
  <1> HIDE DEF nodes, c
  <1>3. m \in Nat /\ \A j \in Nat : j >= m => hops[j] = nodes
    BY <1>2 DEF c
  <1>4. \A j \in Nat : hops[j] \subseteq nodes
    <2>1. ASSUME NEW j \in Nat
          PROVE  hops[j] \subseteq nodes
      <3>1. j + m \in Nat /\ j <= j + m /\ j + m >= m
        BY <1>3
      <3>2. hops[j] \subseteq hops[j + m]
        BY <3>1, HopsGrow
      <3> QED
        BY <1>3, <3>1, <3>2
    <2> QED
      BY <2>1
  <1>5. hops[0] = {root}
    BY <1>1 DEF Hops
  <1>6. OneByOne(objs, nodes, hops)
    BY <1>1, <1>4, <1>5, ParentsFirst DEF OneByOne
  <1> QED
    BY <1>3, <1>4, <1>5, <1>6 DEF Covered, nodes

LEMMA HasLeaves ==
    ASSUME NEW objs, IsObjects(objs), IsFiniteSet(DOMAIN objs), NEW trailer, IsTree(objs, trailer),
           NEW root, root = CHOOSE r \in PageRoots(objs, trailer) : TRUE
    PROVE  \E leaves : Leafy(objs, TreeNodes(objs, trailer), leaves) /\ leaves[root] = LeavesOf(objs, root)
  <1> DEFINE nodes == TreeNodes(objs, trailer)
             c == Cardinality(DOMAIN objs)
             m == c - 1
  <1>1. Sound(objs, nodes, root) /\ PageRoots(objs, trailer) = {root}
    BY TreeIsSound
  <1>2. PICK hops : Hops(objs, trailer, hops)
    BY HopsExist
  <1>3. PICK g : Grown(objs, g)
    BY LeavesGrow
  <1>4. m \in Nat /\ Covered(hops, nodes, root, m)
    <2>1. m = Cardinality(DOMAIN objs) - 1
      OBVIOUS
    <2> HIDE DEF m, c
    <2> QED
      BY <1>2, <2>1, HopsInTree
  <1>5. c \in Nat /\ m + 1 = c
    <2>1. c \in Nat
      BY FS_CardinalityType
    <2> HIDE DEF c
    <2> QED
      BY <2>1
  <1> HIDE DEF nodes, c, m
  <1>7. ASSUME NEW n \in nodes
        PROVE  g[c][n] = g[m][n]
    <2>1. g[m + 1][n] = g[m][n]
      BY <1>1, <1>2, <1>3, <1>4, LeavesSettle
    <2> QED
      BY <1>5, <2>1
  <1>8. ASSUME NEW x \in nodes, NEW h \in Nat
        PROVE  g[h + 1][x] = IF objs[x].type = "Page" THEN <<x>> ELSE Below(g[h], KidsOf(objs, x))
    <2>1. x \in DOMAIN objs
      BY <1>1 DEF Sound
    <2>2. BelowIn(objs, g[h], KidsOf(objs, x)) = Below(g[h], KidsOf(objs, x))
      BY <1>1, KidsOfNode
    <2> QED
      BY <1>3, <2>1, <2>2 DEF Grown
  <1>9. ASSUME NEW x \in nodes
        PROVE  KidsOf(objs, x) \in Seq(Refs) /\ \A i \in 1 .. Len(KidsOf(objs, x)) : KidsOf(objs, x)[i].id \in nodes
    <2>1. KidsOf(objs, x) \in Seq(Refs)
      BY KidsAreRefs
    <2>2. \A i \in DOMAIN KidsOf(objs, x) : KidsOf(objs, x)[i].id \in nodes
      BY <1>1 DEF Sound, KidAt
    <2> QED
      BY <2>1, <2>2
  <1> DEFINE T == {h \in Nat : \A x \in nodes : g[h][x] \in Seq(nodes)}
  <1>10. 0 \in T
    <2>1. \A x \in nodes : g[0][x] = IF objs[x].type = "Page" THEN <<x>> ELSE << >>
      BY <1>1, <1>3 DEF Grown, Sound
    <2>2. << >> \in Seq(nodes) /\ \A x \in nodes : <<x>> \in Seq(nodes)
      OBVIOUS
    <2> QED
      BY <2>1, <2>2
  <1>11. ASSUME NEW h \in Nat, h \in T
         PROVE  h + 1 \in T
    <2>1. ASSUME NEW x \in nodes
          PROVE  g[h + 1][x] \in Seq(nodes)
      <3> DEFINE lv == [y \in nodes |-> g[h][y]]
                 k == KidsOf(objs, x)
      <3>1. lv \in [nodes -> Seq(nodes)] /\ \A y \in nodes : lv[y] = g[h][y]
        BY <1>11
      <3>2. k \in Seq(Refs) /\ (\A i \in 1 .. Len(k) : k[i].id \in nodes) /\ DOMAIN k = 1 .. Len(k)
        BY <1>9
      <3> HIDE DEF lv, k
      <3>3. Below(lv, k) = Below(g[h], k)
        BY <3>1, <3>2, BelowSame
      <3>4. Below(lv, k) \in Seq(nodes)
        BY <3>1, <3>2, BelowFacts
      <3>5. <<x>> \in Seq(nodes)
        OBVIOUS
      <3> QED
        BY <1>8, <3>3, <3>4, <3>5 DEF k
    <2> QED
      BY <2>1
  <1> HIDE DEF T
  <1>12. c \in T
    <2>1. \A h \in Nat : h \in T
      BY <1>10, <1>11, SetInduction
    <2> QED
      BY <1>5, <2>1
  <1> DEFINE leaves == [x \in nodes |-> g[c][x]]
  <1>13. leaves \in [nodes -> Seq(nodes)] /\ \A x \in nodes : leaves[x] = g[c][x]
    BY <1>12 DEF T
  <1> HIDE DEF leaves
  <1>14. ASSUME NEW x \in nodes
         PROVE  leaves[x] = IF objs[x].type = "Page" THEN <<x>> ELSE Below(leaves, KidsOf(objs, x))
    <2> DEFINE k == KidsOf(objs, x)
    <2>1. leaves[x] = IF objs[x].type = "Page" THEN <<x>> ELSE Below(g[m], k)
      BY <1>4, <1>5, <1>8, <1>13
    <2>2. (\A i \in 1 .. Len(k) : k[i].id \in nodes) /\ DOMAIN k = 1 .. Len(k)
      BY <1>9
    <2> HIDE DEF k
    <2>3. ASSUME NEW i \in DOMAIN k
          PROVE  leaves[k[i].id] = g[m][k[i].id]
      <3> DEFINE y == k[i].id
      <3>1. y \in nodes
        BY <2>2
      <3> HIDE DEF y
      <3>2. leaves[y] = g[m][y]
        BY <1>7, <1>13, <3>1
      <3> QED
        BY <3>2 DEF y
    <2>4. Below(leaves, k) = Below(g[m], k)
      BY <2>3, BelowSame
    <2> QED
      BY <2>1, <2>4 DEF k
  <1>15. Leafy(objs, nodes, leaves)
    BY <1>13, <1>14 DEF Leafy
  <1>16. leaves[root] = LeavesOf(objs, root)
    <2>1. root \in nodes
      BY <1>1 DEF Sound
    <2> QED
      BY <1>3, <1>13, <2>1 DEF Grown, c
  <1> QED
    BY <1>15, <1>16 DEF nodes

-----------------------------------------------------------------------------
(***************************************************************************)
(* The theorem.                                                            *)
(***************************************************************************)
OnCourse(hops, leaves) ==
    LET nodes == TreeNodes(doc.objs, doc.trailer)
        root == CHOOSE r \in PageRoots(doc.objs, doc.trailer) : TRUE
    IN  /\ Hops(doc.objs, doc.trailer, hops)
        /\ Leafy(doc.objs, nodes, leaves) /\ leaves[root] = LeavesOf(doc.objs, root)
        /\ Walking(doc.objs, nodes, root, hops, leaves, walk)

CourseInv == WalkInv /\ (Shallow => \E hops, leaves : OnCourse(hops, leaves))

LEMMA CourseStarts == Init => CourseInv
  <1> SUFFICES ASSUME Init, Shallow
               PROVE  \E hops, leaves : OnCourse(hops, leaves)
    BY StartIsBounded DEF CourseInv
  <1> DEFINE objs == doc.objs
             trailer == doc.trailer
             nodes == TreeNodes(objs, trailer)
             root == CHOOSE r \in PageRoots(objs, trailer) : TRUE
  <1>1. IsObjects(objs) /\ IsFiniteSet(DOMAIN objs) /\ IsTree(objs, trailer)
    BY DocumentsAssumption DEF Init, Shallow
  <1>2. Sound(objs, nodes, root) /\ PageRoots(objs, trailer) = {root}
    BY <1>1, TreeIsSound
  <1>3. PICK leaves : Leafy(objs, nodes, leaves) /\ leaves[root] = LeavesOf(objs, root)
    <2>1. root = CHOOSE r \in PageRoots(objs, trailer) : TRUE
      OBVIOUS
    <2> HIDE DEF root, objs, trailer
    <2> QED
      BY <1>1, <2>1, HasLeaves
  <1>h. PICK hops : Hops(objs, trailer, hops)
    BY <1>1, HopsExist
  <1>4. walk = [kids |-> KidsOf(objs, root), stack |-> << >>, left |-> Cardinality(DOMAIN objs), found |-> << >>]
    <2>1. PageRoots(objs, trailer) # {}
      BY <1>2
    <2> QED
      BY <2>1 DEF Init, StartWalk
  <1> HIDE DEF objs, nodes, root
  <1>5. Walking(objs, nodes, root, hops, leaves, walk)
    BY <1>1, <1>2, <1>3, <1>4, WalkStarts
  <1>6. OnCourse(hops, leaves)
    BY <1>3, <1>5, <1>h DEF OnCourse, objs, nodes, root
  <1> QED
    BY <1>6

LEMMA CourseGoesOn ==
    ASSUME CourseInv, Step
    PROVE  CourseInv'
  <1> DEFINE objs == doc.objs
             trailer == doc.trailer
             nodes == TreeNodes(objs, trailer)
             root == CHOOSE r \in PageRoots(objs, trailer) : TRUE
  <1>1. WalkInv' /\ doc' = doc
    BY TurnIsBounded DEF CourseInv, Step
  <1>2. SUFFICES ASSUME Shallow
                 PROVE  \E hops, leaves : OnCourse(hops, leaves)'
    <2>1. Shallow' <=> Shallow
      BY <1>1 DEF Shallow
    <2> QED
      BY <1>1, <2>1 DEF CourseInv
  <1>3. IsObjects(objs) /\ IsFiniteSet(DOMAIN objs) /\ IsTree(objs, trailer)
    BY <1>2 DEF CourseInv, WalkInv, Shallow
  <1>4. \A n \in nodes : objs[n].type = "Pages" => n \in NodesWithin(objs, trailer, DepthLimit)
    BY <1>2 DEF Shallow
  <1>5. Sound(objs, nodes, root)
    BY <1>3, TreeIsSound
  <1>6. PICK hops, leaves : OnCourse(hops, leaves)
    BY <1>2 DEF CourseInv
  <1>7. Leafy(objs, nodes, leaves) /\ leaves[root] = LeavesOf(objs, root) /\ Walking(objs, nodes, root, hops, leaves, walk)
        /\ Hops(objs, trailer, hops)
    BY <1>6 DEF OnCourse
  <1>d. OneByOne(objs, nodes, hops) /\ \A n \in nodes : objs[n].type = "Pages" => n \in hops[DepthLimit]
    <2>1. root = (CHOOSE r \in PageRoots(objs, trailer) : TRUE) /\ nodes = TreeNodes(objs, trailer)
      OBVIOUS
    <2> HIDE DEF objs, trailer, nodes, root
    <2>2. OneByOne(objs, nodes, hops)
      BY <1>3, <1>7, <2>1, HopsInTree
    <2> QED
      BY <1>4, <1>7, <2>2, DepthAssumption DEF Hops
  <1>8. ~Over(walk) /\ walk' = WalkStep(objs, walk)
    BY DEF Step
  <1>9. Walking(objs, nodes, root, hops, leaves, WalkStep(objs, walk))
    <2> HIDE DEF objs, nodes, root
    <2> QED
      BY <1>3, <1>5, <1>7, <1>8, <1>d, WalkGoesOn
  <1>10. OnCourse(hops, leaves)'
    BY <1>1, <1>7, <1>8, <1>9 DEF OnCourse
  <1> QED
    BY <1>10

LEMMA CourseIsRight == CourseInv => LeavesInOrder
  <1> SUFFICES ASSUME CourseInv, Shallow
               PROVE  LET leaves == LeavesOf(doc.objs, CHOOSE r \in PageRoots(doc.objs, doc.trailer) : TRUE)
                      IN  /\ IsPrefix(walk.found, leaves)
                          /\ Over(walk) => walk.found = leaves
    BY DEF LeavesInOrder
  <1> DEFINE objs == doc.objs
             trailer == doc.trailer
             nodes == TreeNodes(objs, trailer)
             root == CHOOSE r \in PageRoots(objs, trailer) : TRUE
  <1>1. IsObjects(objs) /\ IsFiniteSet(DOMAIN objs) /\ IsTree(objs, trailer)
    BY DEF CourseInv, WalkInv, Shallow
  <1>2. Sound(objs, nodes, root)
    BY <1>1, TreeIsSound
  <1>3. PICK hops, leaves : OnCourse(hops, leaves)
    BY DEF CourseInv
  <1>4. Leafy(objs, nodes, leaves) /\ leaves[root] = LeavesOf(objs, root) /\ Walking(objs, nodes, root, hops, leaves, walk)
    BY <1>3 DEF OnCourse
  <1> HIDE DEF nodes, root
  <1>5. IsPrefix(walk.found, leaves[root]) /\ (Over(walk) => walk.found = leaves[root])
    BY <1>1, <1>2, <1>4, WalkGives
  <1> QED
    BY <1>4, <1>5 DEF root

\* Of a page tree as it should be, no deeper than the iterator goes, the pages come out
\* from left to right, and when it is at its end they have all come out: the limits on
\* entries and on depth, there for damaged files, never cut a good one short.
THEOREM PagesInOrder == Spec => []LeavesInOrder
  <1>1. Init => CourseInv
    BY CourseStarts
  <1>2. CourseInv /\ [Step]_vars => CourseInv'
    <2>1. CourseInv /\ Step => CourseInv'
      BY CourseGoesOn
    <2>2. CourseInv /\ UNCHANGED vars => CourseInv'
      BY DEF CourseInv, WalkInv, vars, PagesBounded, Shallow, OnCourse
    <2> QED
      BY <2>1, <2>2
  <1>3. CourseInv => LeavesInOrder
    BY CourseIsRight
  <1> QED
    BY <1>1, <1>2, <1>3, PTL DEF Spec
=================================================================================
