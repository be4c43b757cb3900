------------------------- MODULE ParallelLoaderProofs -------------------------
(***************************************************************************)
(* Proofs about ParallelLoader: whatever the number of workers, the order  *)
(* they work in and the files there are, a load returns one of the         *)
(* outcomes the abstract load may return, and an object that can be        *)
(* located by its entry is in it.                                          *)
(***************************************************************************)
EXTENDS ParallelLoader, PdfFileFacts, SequenceTheorems

-------------------------------------------------------------------------------
(***************************************************************************)
(* The inductive invariant.                                                *)
(***************************************************************************)
Entries == {n \in DOMAIN source.xref : source.xref[n].kind = "normal"}

Tasks == [entry : Entries, step : {"read", "decoding", "decoded", "locked"}]

TypeOK ==
    /\ source \in Sources
    /\ todo \subseteq Entries
    /\ stack \in [Workers -> Seq(Tasks)]
    /\ members \in Seq(Nat \X Vals)
    /\ failed \in BOOLEAN
    /\ phase \in {"tasks", "merge", "fill", "done"}

IdOf(n) == source.xref[n].at

\* Nobody has taken the entry, or a worker has not finished with it.
Unfinished(n) == n \in todo \/ \E w \in Workers : \E t \in Range(stack[w]) : t.entry = n

\* What the task of an entry leaves behind.
Accounted(n) ==
    /\ IdOf(n) \in KeptIds(source) =>
           /\ IdOf(n) \in DOMAIN objects
           /\ \A m \in DOMAIN source.body[IdOf(n)].members :
                 Offers(source, IdOf(n), m) =>
                     <<m, source.body[IdOf(n)].members[m]>> \in Range(members)
    /\ source.strict /\ Fails(source, IdOf(n)) => failed

\* What a worker knows of an entry by the step it has come to.
TaskSound(t) ==
    /\ t.step # "read" =>
           source.body[IdOf(t.entry)].type = "ObjStm" /\ IdOf(t.entry) \notin source.dropped
    /\ t.step \in {"decoded", "locked"} => IdOf(t.entry) \notin source.broken

TasksSound == \A w \in Workers : \A t \in Range(stack[w]) : TaskSound(t)

ObjectsParsed ==
    /\ DOMAIN objects \subseteq KeptIds(source)
    /\ objects = [id \in DOMAIN objects |-> Parsed(source, id)]

MembersOffered ==
    \A m \in Range(members) :
        \E c \in KeptIds(source) :
            Offers(source, c, m[1]) /\ m[2] = source.body[c].members[m[1]]

Working ==
    /\ TasksSound
    /\ \A n \in Entries : Unfinished(n) \/ Accounted(n)
    /\ ObjectsParsed /\ MembersOffered
    /\ hollow = DOMAIN objects \cap Late(source)

\* All that is offered has been collected.
Collected ==
    /\ ~failed /\ ~Rejected(source)
    /\ objects = [id \in KeptIds(source) |-> Parsed(source, id)]
    /\ MembersOffered
    /\ \A n \in Offered(source) : \E m \in Range(members) : m[1] = n
    /\ hollow = KeptIds(source) \cap Late(source)

Joined ==
    /\ ~failed /\ ~Rejected(source)
    /\ \E src \in Origins(source) : objects = Assembled(source, src)
    /\ hollow = KeptIds(source) \cap Late(source)

Ended == ~failed => ~Rejected(source) /\ Loaded(objects) \in Outcomes(source)

LoadInv ==
    /\ TypeOK
    /\ (failed => Rejected(source))
    /\ (phase = "tasks" => Working)
    /\ (phase = "merge" => Collected)
    /\ (phase = "fill" => Joined)
    /\ (phase = "done" => Ended)

-------------------------------------------------------------------------------
(***************************************************************************)
(* What is on a stack after a task is put on it or taken off.              *)
(***************************************************************************)
LEMMA Pushed ==
    ASSUME NEW S, NEW s \in Seq(S), NEW t \in S
    PROVE  /\ Append(s, t) \in Seq(S) /\ Append(s, t) # << >>
           /\ Last(Append(s, t)) = t
           /\ Range(Append(s, t)) = Range(s) \cup {t}
  <1>1. /\ Append(s, t) \in Seq(S) /\ Append(s, t) # << >>
        /\ Len(Append(s, t)) = Len(s) + 1
        /\ \A i \in 1 .. Len(s) : Append(s, t)[i] = s[i]
        /\ Append(s, t)[Len(s) + 1] = t
    BY AppendProperties
  <1>2. Range(s) = {s[i] : i \in 1 .. Len(s)}
    BY RangeEquality
  <1>3. Range(Append(s, t)) = {Append(s, t)[i] : i \in 1 .. Len(s) + 1}
    BY <1>1, RangeEquality
  <1>4. Len(s) \in Nat /\ 1 .. Len(s) + 1 = (1 .. Len(s)) \cup {Len(s) + 1}
    BY LenProperties
  <1>5. Range(Append(s, t)) = Range(s) \cup {t}
    <2> HIDE DEF Range
    <2> QED
      BY <1>1, <1>2, <1>3, <1>4
  <1> QED
    BY <1>1, <1>5 DEF Last

LEMMA Popped ==
    ASSUME NEW S, NEW s \in Seq(S), s # << >>
    PROVE  /\ Last(s) \in S /\ Front(s) \in Seq(S)
           /\ Range(s) = Range(Front(s)) \cup {Last(s)}
  <1>1. PICK f \in Seq(S), t \in S : s = Append(f, t)
    BY SequenceEmptyOrAppend
  <1>2. Last(s) = t /\ Range(s) = Range(f) \cup {t}
    BY <1>1, Pushed
  <1>3. Front(s) = f
    <2>1. Len(f) \in Nat /\ Len(s) = Len(f) + 1
      BY <1>1, LenProperties, AppendProperties
    <2>2. \A i \in 1 .. Len(f) : s[i] = f[i] /\ f[i] \in S
      BY <1>1, AppendProperties, ElementOfSeq
    <2>3. /\ Front(s) \in Seq(S) /\ Len(Front(s)) = Len(f)
          /\ \A i \in 1 .. Len(f) : Front(s)[i] = f[i]
      <3>1. Front(s) = SubSeq(s, 1, Len(f))
        BY <2>1 DEF Front
      <3>2. /\ SubSeq(s, 1, Len(f)) \in Seq(S)
            /\ Len(SubSeq(s, 1, Len(f))) = IF 1 <= Len(f) THEN Len(f) - 1 + 1 ELSE 0
            /\ \A i \in 1 .. Len(f) - 1 + 1 : SubSeq(s, 1, Len(f))[i] = s[1 + i - 1]
        BY <2>1, <2>2, SubSeqProperties
      <3> QED
        BY <2>1, <2>2, <3>1, <3>2
    <2> QED
      BY <2>3, SeqEqual
  <1> QED
    BY <1>1, <1>2, <1>3

(***************************************************************************)
(* The list of a container holds what the container offers, and only that. *)
(***************************************************************************)
LEMMA ListingIsWhatIsOffered ==
    ASSUME NEW f \in Sources, NEW c \in KeptIds(f)
    PROVE  /\ Listing(f, c) \in Seq(Nat \X Vals)
           /\ Range(Listing(f, c)) = {<<n, f.body[c].members[n]>> :
                                          n \in {m \in DOMAIN f.body[c].members : Offers(f, c, m)}}
  <1> DEFINE mem == f.body[c].members
             nums == {n \in DOMAIN mem : Offers(f, c, n)}
             nth(i) == CHOOSE n \in nums : Cardinality({m \in nums : m < n}) = i - 1
             k == Cardinality(nums)
  <1>1. IsSource(f)
    BY SourcesAssumption
  <1>2. c \in DOMAIN f.body
    BY <1>1 DEF IsSource, KeptIds, NormalIds, IsEntryMap
  <1>3. DOMAIN mem \subseteq Nat /\ IsFiniteSet(DOMAIN mem) /\ mem \in [DOMAIN mem -> Vals]
    BY <1>1, <1>2 DEF IsSource, IsObjectMap, IsObject
  <1>4. nums \in SUBSET Nat /\ IsFiniteSet(nums) /\ k \in Nat
    BY <1>3, FS_Subset, FS_CardinalityType
  <1>5. Listing(f, c) = [i \in 1 .. k |-> <<nth(i), mem[nth(i)]>>]
    BY DEF Listing
  <1> HIDE DEF nums, mem
  <1>6. \A i \in 1 .. k : nth(i) \in nums
    BY <1>4, Ranked
  <1>7. \A i \in 1 .. k : <<nth(i), mem[nth(i)]>> \in Nat \X Vals
    <2> HIDE DEF nth, k
    <2>1. \A n \in nums : <<n, mem[n]>> \in Nat \X Vals
      BY <1>3 DEF nums
    <2> QED
      BY <2>1, <1>6
  <1>8. Listing(f, c) \in Seq(Nat \X Vals)
    <2> HIDE DEF k, nth
    <2> QED
      BY <1>4, <1>5, <1>7
  <1>9. ASSUME NEW n \in nums
        PROVE  \E i \in 1 .. k : nth(i) = n
    <2> DEFINE i == Cardinality({m \in nums : m < n}) + 1
    <2>1. i \in 1 .. k
      BY <1>4, RankInRange
    <2>2. nth(i) \in nums /\ Cardinality({m \in nums : m < nth(i)}) = i - 1
      BY <2>1, <1>4, Ranked
    <2>3. i - 1 = Cardinality({m \in nums : m < n})
      BY <1>4, FS_Subset, FS_CardinalityType
    <2> HIDE DEF nth, i
    <2>4. Cardinality({m \in nums : m < nth(i)}) = Cardinality({m \in nums : m < n})
      BY <2>2, <2>3
    <2>5. ASSUME NEW x \in nums, NEW y \in nums,
                 Cardinality({m \in nums : m < x}) = Cardinality({m \in nums : m < y})
          PROVE  x = y
      BY <2>5, <1>4, SameRank
    <2>6. nth(i) = n
      BY <2>2, <2>4, <2>5
    <2> QED
      BY <2>1, <2>6
  <1>10. Range(Listing(f, c)) = {<<n, mem[n]>> : n \in nums}
    <2>1. Range(Listing(f, c)) = {<<nth(i), mem[nth(i)]>> : i \in 1 .. k}
      BY <1>5 DEF Range
    <2> HIDE DEF k, nth
    <2> QED
      BY <2>1, <1>6, <1>9
  <1> QED
    BY <1>8, <1>10 DEF nums, mem

-------------------------------------------------------------------------------
(***************************************************************************)
(* Facts about sources, and about a step of a worker.                      *)
(***************************************************************************)
LEMMA SourceFacts ==
    ASSUME NEW f \in Sources
    PROVE  /\ KeptIds(f) \subseteq DOMAIN f.body
           /\ \A id \in Late(f) : f.body[id].type = "Stream"
           /\ \A id \in KeptIds(f) : DOMAIN f.body[id].members \subseteq Nat
           /\ \A id \in KeptIds(f) : id \in Ids
  <1>1. IsSource(f)
    BY SourcesAssumption
  <1>2. NormalIds(f) \subseteq DOMAIN f.body
    BY <1>1 DEF IsSource, NormalIds, IsEntryMap
  <1>3. KeptIds(f) \subseteq DOMAIN f.body
    BY <1>2 DEF KeptIds
  <1>4. \A id \in Late(f) : f.body[id].type = "Stream"
    BY <1>1 DEF IsSource, Late
  <1>5. \A id \in DOMAIN f.body : DOMAIN f.body[id].members \subseteq Nat /\ id \in Ids
    BY <1>1 DEF IsSource, IsObjectMap, IsObject
  <1> QED
    BY <1>3, <1>4, <1>5

\* The entry a worker is busy with is one of the source's own.
LEMMA TopIsTask ==
    ASSUME TypeOK, NEW w \in Workers, Busy(w)
    PROVE  /\ Top(w) \in Tasks /\ Top(w) \in Range(stack[w])
           /\ Top(w).entry \in Entries
           /\ Target(w) = IdOf(Top(w).entry)
           /\ Target(w) \in NormalIds(source)
  <1>1. stack[w] \in Seq(Tasks) /\ stack[w] # << >>
    BY DEF TypeOK, Busy
  <1>2. Top(w) \in Tasks /\ Top(w) \in Range(stack[w])
    BY <1>1, Popped DEF Top
  <1> QED
    BY <1>2 DEF Tasks, Entries, Target, IdOf, NormalIds

\* Going on with a task replaces it by itself at its new step.
LEMMA GoingOn ==
    ASSUME TypeOK, NEW w \in Workers, Busy(w), UNCHANGED <<source, todo>>,
           NEW step \in {"read", "decoding", "decoded", "locked"}, GoTo(w, step)
    PROVE  /\ stack' \in [Workers -> Seq(Tasks)]
           /\ \A n \in Entries : Unfinished(n) => Unfinished(n)'
           /\ TasksSound /\ TaskSound([Top(w) EXCEPT !.step = step]) => TasksSound'
  <1> DEFINE t == [Top(w) EXCEPT !.step = step]
             s == stack[w]
  <1>1. s \in Seq(Tasks) /\ s # << >> /\ Top(w) = Last(s)
    BY DEF TypeOK, Busy, Top
  <1>2. t \in Tasks /\ t.entry = Top(w).entry
    BY TopIsTask DEF Tasks
  <1>3. Front(s) \in Seq(Tasks) /\ Range(s) = Range(Front(s)) \cup {Top(w)}
    BY <1>1, Popped
  <1>4. Append(Front(s), t) \in Seq(Tasks) /\ Range(Append(Front(s), t)) = Range(Front(s)) \cup {t}
    BY <1>2, <1>3, Pushed
  <1>5. stack' = [stack EXCEPT ![w] = Append(Front(s), t)]
    BY DEF GoTo
  <1>6. stack' \in [Workers -> Seq(Tasks)]
    BY <1>4, <1>5 DEF TypeOK
  <1>7. /\ Range(stack'[w]) = Range(Front(s)) \cup {t}
        /\ \A v \in Workers \ {w} : stack'[v] = stack[v]
    BY <1>4, <1>5 DEF TypeOK
  <1> HIDE DEF t, s, Range
  <1>8. ASSUME NEW n \in Entries, Unfinished(n)
        PROVE  Unfinished(n)'
    <2>1. CASE n \in todo
      BY <2>1 DEF Unfinished
    <2>2. CASE \E v \in Workers : \E x \in Range(stack[v]) : x.entry = n
      <3>1. PICK v \in Workers : \E x \in Range(stack[v]) : x.entry = n
        BY <2>2
      <3>2. CASE v # w
        BY <3>1, <3>2, <1>7 DEF Unfinished
      <3>3. CASE v = w
        <4>1. PICK x \in Range(s) : x.entry = n
          BY <3>1, <3>3 DEF s
        <4>2. x \in Range(stack'[w]) \/ x = Top(w)
          BY <4>1, <1>3, <1>7
        <4>3. t \in Range(stack'[w])
          BY <1>7
        <4> QED
          BY <4>1, <4>2, <4>3, <1>2 DEF Unfinished
      <3> QED
        BY <3>2, <3>3
    <2> QED
      BY <1>8, <2>1, <2>2 DEF Unfinished
  <1>9. ASSUME TasksSound, TaskSound(t)
        PROVE  TasksSound'
    <2>1. ASSUME NEW v \in Workers, NEW x \in Range(stack'[v])
          PROVE  TaskSound(x)
      <3>1. CASE v # w
        BY <3>1, <1>7, <1>9, <2>1 DEF TasksSound
      <3>2. CASE v = w
        BY <3>2, <1>3, <1>7, <1>9, <2>1 DEF TasksSound, s
      <3> QED
        BY <3>1, <3>2
    <2>2. \A x : TaskSound(x) = TaskSound(x)'
      BY DEF TaskSound, IdOf
    <2> QED
      BY <2>1, <2>2 DEF TasksSound
  <1> QED
    BY <1>6, <1>8, <1>9 DEF t

\* Returning from a task finishes its entry and no other.
LEMMA Returning ==
    ASSUME TypeOK, NEW w \in Workers, Busy(w), UNCHANGED <<source, todo>>, Return(w)
    PROVE  /\ stack' \in [Workers -> Seq(Tasks)]
           /\ \A n \in Entries : Unfinished(n) => Unfinished(n)' \/ n = Top(w).entry
           /\ TasksSound => TasksSound'
  <1> DEFINE s == stack[w]
  <1>1. s \in Seq(Tasks) /\ s # << >> /\ Top(w) = Last(s)
    BY DEF TypeOK, Busy, Top
  <1>2. Front(s) \in Seq(Tasks) /\ Range(s) = Range(Front(s)) \cup {Top(w)}
    BY <1>1, Popped
  <1>3. stack' = [stack EXCEPT ![w] = Front(s)]
    BY DEF Return
  <1>4. stack' \in [Workers -> Seq(Tasks)]
    BY <1>2, <1>3 DEF TypeOK
  <1>5. stack'[w] = Front(s) /\ \A v \in Workers \ {w} : stack'[v] = stack[v]
    BY <1>3 DEF TypeOK
  <1> HIDE DEF s, Range
  <1>6. ASSUME NEW n \in Entries, Unfinished(n), n # Top(w).entry
        PROVE  Unfinished(n)'
    <2>1. CASE n \in todo
      BY <2>1 DEF Unfinished
    <2>2. CASE \E v \in Workers : \E x \in Range(stack[v]) : x.entry = n
      <3>1. PICK v \in Workers : \E x \in Range(stack[v]) : x.entry = n
        BY <2>2
      <3>2. PICK x \in Range(stack[v]) : x.entry = n
        BY <3>1
      <3>3. x \in Range(stack'[v])
        BY <3>2, <1>2, <1>5, <1>6 DEF s
      <3> QED
        BY <3>2, <3>3 DEF Unfinished
    <2> QED
      BY <1>6, <2>1, <2>2 DEF Unfinished
  <1>7. ASSUME TasksSound
        PROVE  TasksSound'
    <2>1. \A v \in Workers : \A x \in Range(stack'[v]) : TaskSound(x)
      BY <1>2, <1>5, <1>7 DEF TasksSound, s
    <2>2. \A x : TaskSound(x) = TaskSound(x)'
      BY DEF TaskSound, IdOf
    <2> QED
      BY <2>1, <2>2 DEF TasksSound
  <1> QED
    BY <1>4, <1>6, <1>7

\* What an entry has left behind stays.
LEMMA StaysAccounted ==
    ASSUME NEW n \in Entries, Accounted(n), UNCHANGED source,
           DOMAIN objects \subseteq DOMAIN objects', Range(members) \subseteq Range(members)',
           failed => failed'
    PROVE  Accounted(n)'
  BY DEF Accounted, IdOf

-------------------------------------------------------------------------------
(***************************************************************************)
(* One step each.  While there are tasks, LoadInv is Working and the types.*)
(***************************************************************************)
LEMMA InitLoads == Init => LoadInv
  <1> SUFFICES ASSUME Init PROVE LoadInv
    OBVIOUS
  <1>1. \A w \in Workers : Range(stack[w]) = {}
    BY DEF Init, Range
  <1>2. TypeOK
    <2>1. << >> \in Seq(Tasks) /\ << >> \in Seq(Nat \X Vals)
      BY EmptySeq
    <2>2. todo \subseteq Entries
      BY DEF Init, Entries
    <2> QED
      BY <2>1, <2>2 DEF Init, TypeOK
  <1>3. ObjectsParsed /\ MembersOffered /\ hollow = DOMAIN objects \cap Late(source)
    <2>1. objects = Empty /\ DOMAIN Empty = {} /\ Range(members) = {} /\ hollow = {}
      BY DEF Init, Empty, Range
    <2>2. objects = [id \in DOMAIN objects |-> Parsed(source, id)]
      BY <2>1 DEF Empty
    <2> QED
      BY <2>1, <2>2 DEF ObjectsParsed, MembersOffered
  <1>4. TasksSound
    BY <1>1 DEF TasksSound
  <1>5. \A n \in Entries : Unfinished(n)
    BY DEF Init, Unfinished, Entries
  <1> QED
    BY <1>2, <1>3, <1>4, <1>5 DEF Init, LoadInv, Working

LEMMA TakeLoads ==
    ASSUME LoadInv, NEW w \in Workers, Take(w)
    PROVE  LoadInv'
  <1>1. phase = "tasks" /\ phase' = "tasks" /\ Working /\ TypeOK
    BY DEF Take, LoadInv
  <1>2. UNCHANGED <<source, members, hollow, objects, failed>>
    BY DEF Take
  <1>3. PICK n \in todo :
            /\ todo' = todo \ {n}
            /\ stack' = [stack EXCEPT ![w] = Append(@, [entry |-> n, step |-> "read"])]
    BY DEF Take
  <1> DEFINE t == [entry |-> n, step |-> "read"]
  <1>4. t \in Tasks
    BY <1>1 DEF TypeOK, Tasks
  <1>5. stack[w] \in Seq(Tasks)
    BY <1>1 DEF TypeOK
  <1>6. /\ Append(stack[w], t) \in Seq(Tasks)
        /\ Range(Append(stack[w], t)) = Range(stack[w]) \cup {t}
    BY <1>4, <1>5, Pushed
  <1>7. /\ stack' \in [Workers -> Seq(Tasks)] /\ Range(stack'[w]) = Range(stack[w]) \cup {t}
        /\ \A v \in Workers \ {w} : stack'[v] = stack[v]
    BY <1>1, <1>3, <1>6 DEF TypeOK
  <1> HIDE DEF t, Range
  <1>8. t.entry = n /\ TaskSound(t)
    BY DEF t, TaskSound
  <1>9. TypeOK'
    BY <1>1, <1>2, <1>3, <1>7 DEF TypeOK, Tasks, Entries
  <1>10. ASSUME NEW m \in Entries, Unfinished(m)
         PROVE  Unfinished(m)'
    <2>1. CASE m = n
      BY <2>1, <1>7, <1>8 DEF Unfinished
    <2>2. CASE m # n /\ m \in todo
      BY <2>2, <1>3 DEF Unfinished
    <2>3. CASE \E v \in Workers : \E x \in Range(stack[v]) : x.entry = m
      BY <2>3, <1>7 DEF Unfinished
    <2> QED
      BY <1>10, <2>1, <2>2, <2>3 DEF Unfinished
  <1>11. TasksSound'
    <2>1. ASSUME NEW v \in Workers, NEW x \in Range(stack'[v])
          PROVE  TaskSound(x)
      BY <1>1, <1>7, <1>8 DEF Working, TasksSound
    <2>2. \A x : TaskSound(x) = TaskSound(x)'
      BY <1>2 DEF TaskSound, IdOf
    <2> QED
      BY <2>1, <2>2 DEF TasksSound
  <1>12. Working'
    <2>1. \A m \in Entries : Unfinished(m)' \/ Accounted(m)'
      <3>1. \A m \in Entries : Accounted(m) => Accounted(m)'
        BY <1>2, StaysAccounted
      <3> QED
        BY <3>1, <1>1, <1>10 DEF Working
    <2>2. Entries' = Entries
      BY <1>2 DEF Entries
    <2>3. ObjectsParsed' /\ MembersOffered' /\ (hollow = DOMAIN objects \cap Late(source))'
      BY <1>1, <1>2 DEF Working, ObjectsParsed, MembersOffered
    <2> QED
      BY <2>1, <2>2, <2>3, <1>11 DEF Working
  <1> QED
    BY <1>1, <1>2, <1>9, <1>12 DEF LoadInv

\* A worker goes on: nothing is left behind yet.
LEMMA GoesOn ==
    ASSUME LoadInv, NEW w \in Workers, Busy(w), phase = "tasks",
           NEW step \in {"read", "decoding", "decoded", "locked"}, GoTo(w, step),
           TaskSound(Top(w)) => TaskSound([Top(w) EXCEPT !.step = step]),
           UNCHANGED <<source, todo, members, hollow, objects, failed, phase>>
    PROVE  LoadInv'
  <1>1. Working /\ TypeOK
    BY DEF LoadInv
  <1>2. TaskSound(Top(w))
    BY <1>1, TopIsTask DEF Working, TasksSound
  <1>3. /\ stack' \in [Workers -> Seq(Tasks)]
        /\ \A n \in Entries : Unfinished(n) => Unfinished(n)'
        /\ TasksSound'
    BY <1>1, <1>2, GoingOn DEF Working
  <1>4. TypeOK' /\ Entries' = Entries
    BY <1>1, <1>3 DEF TypeOK, Tasks, Entries
  <1>5. \A n \in Entries : Accounted(n) => Accounted(n)'
    BY StaysAccounted
  <1>6. ObjectsParsed' /\ MembersOffered' /\ (hollow = DOMAIN objects \cap Late(source))'
    BY <1>1 DEF Working, ObjectsParsed, MembersOffered
  <1>7. Working'
    BY <1>1, <1>3, <1>4, <1>5, <1>6 DEF Working
  <1> QED
    BY <1>1, <1>4, <1>7 DEF LoadInv

\* A worker returns: the entry it was busy with is accounted for, and what is new
\* is as it should be.
LEMMA ReturnsWith ==
    ASSUME LoadInv, NEW w \in Workers, Busy(w), phase = "tasks", Return(w),
           UNCHANGED <<source, todo, phase>>,
           NEW e \in Entries, e = Top(w).entry, Accounted(e)',
           failed' \in BOOLEAN, failed => failed', failed' => Rejected(source),
           members' \in Seq(Nat \X Vals), Range(members) \subseteq Range(members'),
           DOMAIN objects \subseteq DOMAIN objects',
           ObjectsParsed', MembersOffered', (hollow = DOMAIN objects \cap Late(source))'
    PROVE  LoadInv'
  <1>1. Working /\ TypeOK
    BY DEF LoadInv
  <1>2. /\ stack' \in [Workers -> Seq(Tasks)]
        /\ \A n \in Entries : Unfinished(n) => Unfinished(n)' \/ n = Top(w).entry
        /\ TasksSound'
    BY <1>1, Returning DEF Working
  <1>3. TypeOK' /\ Entries' = Entries
    BY <1>1, <1>2 DEF TypeOK, Tasks, Entries
  <1>4. \A n \in Entries : Accounted(n) => Accounted(n)'
    BY StaysAccounted
  <1>5. \A n \in Entries : Unfinished(n)' \/ Accounted(n)'
    BY <1>1, <1>2, <1>4 DEF Working
  <1>6. Working'
    BY <1>2, <1>3, <1>5 DEF Working
  <1> QED
    BY <1>3, <1>6 DEF LoadInv

LEMMA GivesUpLoads ==
    ASSUME LoadInv, NEW w \in Workers, ReadError(w) \/ DecodeError(w) \/ Filter(w)
    PROVE  LoadInv'
  <1>1. TypeOK /\ Working /\ Busy(w) /\ phase = "tasks" /\ Return(w)
    BY DEF ReadError, DecodeError, GiveUpOn, Filter, At, LoadInv
  <1>2. UNCHANGED <<source, todo, members, hollow, objects, phase>>
    BY DEF ReadError, DecodeError, GiveUpOn, Filter
  <1>3. PICK e \in Entries : e = Top(w).entry
    BY <1>1, TopIsTask
  <1>4. Target(w) = IdOf(e) /\ IdOf(e) \in NormalIds(source)
    BY <1>1, <1>3, TopIsTask
  <1>5. /\ failed' \in BOOLEAN /\ (failed => failed') /\ (failed' => Rejected(source))
        /\ Accounted(e)'
    <2>1. CASE ReadError(w) \/ DecodeError(w)
      <3>1. Fails(source, IdOf(e)) /\ failed' = (failed \/ source.strict)
        BY <2>1, <1>4 DEF ReadError, DecodeError, GiveUpOn
      <3>2. IdOf(e) \notin KeptIds(source) /\ source.strict \in BOOLEAN
        BY <3>1, <1>1, SourcesAssumption DEF Fails, KeptIds, TypeOK, IsSource
      <3>3. source.strict => Rejected(source)
        BY <3>1, <1>4 DEF Rejected
      <3> QED
        BY <3>1, <3>2, <3>3, <1>1, <1>2 DEF Accounted, IdOf, LoadInv, TypeOK
    <2>2. CASE Filter(w)
      <3>1. ~Fails(source, IdOf(e)) /\ IdOf(e) \notin KeptIds(source) /\ failed' = failed
        BY <2>2, <1>4 DEF Filter, KeptIds
      <3> QED
        BY <3>1, <1>1, <1>2 DEF Accounted, IdOf, LoadInv, TypeOK
    <2> QED
      BY <2>1, <2>2
  <1>6. ObjectsParsed' /\ MembersOffered' /\ (hollow = DOMAIN objects \cap Late(source))'
    BY <1>1, <1>2 DEF Working, ObjectsParsed, MembersOffered
  <1>7. members' \in Seq(Nat \X Vals)
    BY <1>1, <1>2 DEF TypeOK
  <1> QED
    BY <1>1, <1>2, <1>3, <1>5, <1>6, <1>7, ReturnsWith

LEMMA GoesOnLoads ==
    ASSUME LoadInv, NEW w \in Workers, ReadContainer(w) \/ Decoded(w) \/ Lock(w)
    PROVE  LoadInv'
  <1>1. TypeOK /\ Busy(w) /\ phase = "tasks"
    BY DEF ReadContainer, Decoded, Lock, At, LoadInv
  <1>2. UNCHANGED <<source, todo, members, hollow, objects, failed, phase>>
    BY DEF ReadContainer, Decoded, Lock
  <1>3. Top(w) \in Tasks /\ Target(w) = IdOf(Top(w).entry)
    BY <1>1, TopIsTask
  <1>4. \A step : [Top(w) EXCEPT !.step = step].step = step
                  /\ [Top(w) EXCEPT !.step = step].entry = Top(w).entry
    BY <1>3 DEF Tasks
  <1>5. CASE ReadContainer(w)
    <2>1. GoTo(w, "decoding") /\ TaskSound([Top(w) EXCEPT !.step = "decoding"])
      BY <1>5, <1>3, <1>4 DEF ReadContainer, IsContainer, TaskSound
    <2> QED
      BY <2>1, <1>1, <1>2, GoesOn
  <1>6. CASE Decoded(w)
    <2>1. /\ GoTo(w, "decoded")
          /\ TaskSound(Top(w)) => TaskSound([Top(w) EXCEPT !.step = "decoded"])
      BY <1>6, <1>3, <1>4 DEF Decoded, At, TaskSound
    <2> QED
      BY <2>1, <1>1, <1>2, GoesOn
  <1>7. CASE Lock(w)
    <2>1. /\ GoTo(w, "locked")
          /\ TaskSound(Top(w)) => TaskSound([Top(w) EXCEPT !.step = "locked"])
      BY <1>7, <1>3, <1>4 DEF Lock, At, TaskSound
    <2> QED
      BY <2>1, <1>1, <1>2, GoesOn
  <1> QED
    BY <1>5, <1>6, <1>7

\* What a parsed object adds to the objects.
LEMMA OneMoreParsed ==
    ASSUME ObjectsParsed, UNCHANGED source, NEW id \in KeptIds(source),
           objects' = Put(objects, [x \in {id} |-> Parsed(source, x)])
    PROVE  ObjectsParsed' /\ DOMAIN objects' = DOMAIN objects \cup {id}
  <1> DEFINE new == [x \in {id} |-> Parsed(source, x)]
  <1>1. DOMAIN new = {id}
    OBVIOUS
  <1>2. objects' = [x \in DOMAIN objects \cup {id} |-> IF x \in {id} THEN new[x] ELSE objects[x]]
    BY <1>1 DEF Put
  <1>3. DOMAIN objects' = DOMAIN objects \cup {id}
    BY <1>2
  <1>4. \A x \in DOMAIN objects : objects[x] = Parsed(source, x)
    BY DEF ObjectsParsed
  <1>5. objects' = [x \in DOMAIN objects' |-> Parsed(source, x)]
    BY <1>2, <1>3, <1>4
  <1> QED
    BY <1>3, <1>5 DEF ObjectsParsed

LEMMA ReadObjectLoads ==
    ASSUME LoadInv, NEW w \in Workers, ReadObject(w)
    PROVE  LoadInv'
  <1>1. TypeOK /\ Working /\ Busy(w) /\ phase = "tasks" /\ Return(w)
    BY DEF ReadObject, At, LoadInv
  <1>2. UNCHANGED <<source, todo, members, failed, phase>>
    BY DEF ReadObject
  <1>3. PICK e \in Entries : e = Top(w).entry
    BY <1>1, TopIsTask
  <1>4. Target(w) = IdOf(e)
    BY <1>1, <1>3, TopIsTask
  <1> DEFINE id == IdOf(e)
  <1>5. /\ id \in KeptIds(source) /\ source.body[id].type # "ObjStm"
        /\ objects' = Put(objects, [x \in {id} |-> Parsed(source, x)])
        /\ hollow' = hollow \cup ({id} \cap Late(source))
    BY <1>4 DEF ReadObject, IsContainer
  <1>6. ObjectsParsed' /\ DOMAIN objects' = DOMAIN objects \cup {id}
    BY <1>1, <1>2, <1>5, OneMoreParsed DEF Working
  <1>7. MembersOffered' /\ (hollow = DOMAIN objects \cap Late(source))'
    BY <1>1, <1>2, <1>5, <1>6 DEF Working, MembersOffered
  <1>8. Accounted(e)'
    <2>1. ~Fails(source, id) /\ \A m : ~Offers(source, id, m)
      BY <1>5 DEF Fails, KeptIds, Offers
    <2> QED
      BY <2>1, <1>2, <1>6 DEF Accounted, IdOf
  <1>9. failed' \in BOOLEAN /\ (failed => failed') /\ (failed' => Rejected(source))
    BY <1>1, <1>2 DEF TypeOK, LoadInv
  <1>10. members' \in Seq(Nat \X Vals) /\ DOMAIN objects \subseteq DOMAIN objects'
    BY <1>1, <1>2, <1>6 DEF TypeOK
  <1> QED
    BY <1>1, <1>2, <1>3, <1>6, <1>7, <1>8, <1>9, <1>10, ReturnsWith

LEMMA ExtendLoads ==
    ASSUME LoadInv, NEW w \in Workers, Extend(w)
    PROVE  LoadInv'
  <1>1. TypeOK /\ Working /\ Busy(w) /\ phase = "tasks" /\ Return(w) /\ Top(w).step = "locked"
    BY DEF Extend, At, LoadInv
  <1>2. UNCHANGED <<source, todo, hollow, failed, phase>>
    BY DEF Extend
  <1>3. PICK e \in Entries : e = Top(w).entry
    BY <1>1, TopIsTask
  <1>4. Target(w) = IdOf(e) /\ IdOf(e) \in NormalIds(source) /\ TaskSound(Top(w))
    BY <1>1, <1>3, TopIsTask DEF Working, TasksSound
  <1> DEFINE id == IdOf(e)
  <1>5. source \in Sources /\ id \in KeptIds(source) /\ source.body[id].type = "ObjStm"
    BY <1>1, <1>3, <1>4 DEF TaskSound, KeptIds, TypeOK
  <1>6. /\ members' = members \o Listing(source, id)
        /\ objects' = Put(objects, [x \in {id} |-> Parsed(source, x)])
    BY <1>4 DEF Extend
  <1>7. /\ members' \in Seq(Nat \X Vals)
        /\ Range(members') = Range(members) \cup Range(Listing(source, id))
    BY <1>1, <1>5, <1>6, ListingIsWhatIsOffered, ConcatProperties, RangeConcatenation DEF TypeOK
  <1>8. Range(Listing(source, id)) =
            {<<n, source.body[id].members[n]>> :
                n \in {m \in DOMAIN source.body[id].members : Offers(source, id, m)}}
    BY <1>5, ListingIsWhatIsOffered
  <1>9. ObjectsParsed' /\ DOMAIN objects' = DOMAIN objects \cup {id}
    BY <1>1, <1>2, <1>5, <1>6, OneMoreParsed DEF Working
  <1>10. (hollow = DOMAIN objects \cap Late(source))'
    <2>1. id \notin Late(source)
      BY <1>5, SourceFacts
    <2> QED
      BY <2>1, <1>1, <1>2, <1>9 DEF Working
  <1>11. MembersOffered'
    <2>1. ASSUME NEW m \in Range(members')
          PROVE  \E c \in KeptIds(source) :
                     Offers(source, c, m[1]) /\ m[2] = source.body[c].members[m[1]]
      <3>1. CASE m \in Range(members)
        BY <3>1, <1>1 DEF Working, MembersOffered
      <3>2. CASE m \in Range(Listing(source, id))
        BY <3>2, <1>5, <1>8
      <3> QED
        BY <2>1, <3>1, <3>2, <1>7
    <2> QED
      BY <2>1, <1>2 DEF MembersOffered
  <1>12. Accounted(e)'
    <2>1. ~Fails(source, id)
      BY <1>5 DEF Fails, KeptIds
    <2>2. \A m \in DOMAIN source.body[id].members :
              Offers(source, id, m) => <<m, source.body[id].members[m]>> \in Range(members')
      BY <1>7, <1>8
    <2> QED
      BY <2>1, <2>2, <1>2, <1>9 DEF Accounted, IdOf
  <1>13. failed' \in BOOLEAN /\ (failed => failed') /\ (failed' => Rejected(source))
    BY <1>1, <1>2 DEF TypeOK, LoadInv
  <1>14. Range(members) \subseteq Range(members') /\ DOMAIN objects \subseteq DOMAIN objects'
    BY <1>7, <1>9
  <1> QED
    BY <1>1, <1>2, <1>3, <1>7, <1>9, <1>10, <1>11, <1>12, <1>13, <1>14, ReturnsWith

LEMMA JoinLoads ==
    ASSUME LoadInv, Join
    PROVE  LoadInv'
  <1>1. TypeOK /\ Working /\ phase = "tasks" /\ (failed => Rejected(source))
    BY DEF Join, LoadInv
  <1>2. /\ UNCHANGED <<source, todo, stack, mutex, members, hollow, objects, failed>>
        /\ phase' = IF failed THEN "done" ELSE "merge"
    BY DEF Join
  <1>3. TypeOK'
    BY <1>1, <1>2 DEF TypeOK, Tasks, Entries
  <1>4. CASE failed
    BY <1>1, <1>2, <1>3, <1>4 DEF LoadInv, Ended
  <1>5. CASE ~failed
    <2>1. \A n \in Entries : ~Unfinished(n)
      <3>1. \A w \in Workers : Range(stack[w]) = {}
        BY DEF Join, Busy, Range
      <3>2. todo = {}
        BY <1>5 DEF Join
      <3> QED
        BY <3>1, <3>2 DEF Unfinished
    <2>2. \A n \in Entries : Accounted(n)
      BY <2>1, <1>1 DEF Working
    <2>3. \A id \in NormalIds(source) : \E n \in Entries : id = IdOf(n)
      BY DEF NormalIds, Entries, IdOf
    <2>4. ~Rejected(source)
      BY <2>2, <2>3, <1>5 DEF Rejected, Accounted
    <2>5. DOMAIN objects = KeptIds(source)
      BY <2>2, <2>3, <1>1 DEF Working, ObjectsParsed, Accounted, KeptIds
    <2>6. ASSUME NEW n \in Offered(source)
          PROVE  \E m \in Range(members) : m[1] = n
      <3>1. PICK c \in KeptIds(source) : Offers(source, c, n)
        BY DEF Offered
      <3>2. PICK e \in Entries : c = IdOf(e)
        BY <2>3 DEF KeptIds
      <3>3. <<n, source.body[c].members[n]>> \in Range(members)
        BY <3>1, <3>2, <2>2 DEF Accounted, Offers
      <3> QED
        BY <3>3
    <2>7. Collected
      BY <2>4, <2>5, <2>6, <1>1, <1>5 DEF Collected, Working, ObjectsParsed
    <2>8. Collected'
      BY <2>7, <1>2 DEF Collected, MembersOffered
    <2> QED
      BY <2>8, <1>1, <1>2, <1>3, <1>5 DEF LoadInv
  <1> QED
    BY <1>4, <1>5

\* The first member of a number was offered, by some container.
LEMMA FirstWasOffered ==
    ASSUME TypeOK, Collected, NEW n \in Offered(source)
    PROVE  \E c \in KeptIds(source) :
               /\ Offers(source, c, n)
               /\ members[SelectInSeq(members, LAMBDA m : m[1] = n)][2] = source.body[c].members[n]
  <1> DEFINE I == {i \in 1 .. Len(members) : members[i][1] = n}
  <1>1. Len(members) \in Nat /\ DOMAIN members = 1 .. Len(members)
    BY DEF TypeOK
  <1>2. I # {}
    BY <1>1 DEF Collected, Range
  <1>3. I \in SUBSET Nat /\ IsFiniteSet(I)
    <2>1. IsFiniteSet(1 .. Len(members))
      BY <1>1, FS_Interval
    <2>2. I \in SUBSET (1 .. Len(members)) /\ I \in SUBSET Nat
      BY <1>1
    <2> HIDE DEF I
    <2> QED
      BY <2>1, <2>2, FS_Subset
  <1>4. Min(I) \in I
    BY <1>2, <1>3, LeastNatural DEF Min
  <1>5. SelectInSeq(members, LAMBDA m : m[1] = n) = Min(I)
    BY <1>2 DEF SelectInSeq
  <1>6. members[Min(I)] \in Range(members) /\ members[Min(I)][1] = n
    BY <1>1, <1>4 DEF Range
  <1> QED
    BY <1>5, <1>6 DEF Collected, MembersOffered

LEMMA MergeLoads ==
    ASSUME LoadInv, Merge
    PROVE  LoadInv'
  <1>1. TypeOK /\ Collected
    BY DEF Merge, LoadInv
  <1>2. /\ UNCHANGED <<source, todo, stack, mutex, members, hollow, failed>>
        /\ phase' = "fill" /\ objects' = Put(Firsts, objects)
    BY DEF Merge
  <1> DEFINE first(n) == SelectInSeq(members, LAMBDA m : m[1] = n)
             From(n, c) == /\ Offers(source, c, n)
                           /\ members[first(n)][2] = source.body[c].members[n]
             src == [n \in Offered(source) |-> CHOOSE c \in KeptIds(source) : From(n, c)]
             taken == [id \in Offered(source) \X {0} |->
                          Data(source.body[src[id[1]]].members[id[1]])]
  <1>3. \A n \in Offered(source) : src[n] \in KeptIds(source) /\ From(n, src[n])
    <2>1. \A n \in Offered(source) : \E c \in KeptIds(source) : From(n, c)
      BY <1>1, FirstWasOffered
    <2> HIDE DEF From
    <2> QED
      BY <2>1
  <1>4. src \in Origins(source)
    <2>1. src \in [Offered(source) -> KeptIds(source)]
      BY <1>3
    <2> HIDE DEF src
    <2> QED
      BY <2>1, <1>3 DEF Origins
  <1>5. {<<m[1], 0>> : m \in Range(members)} = Offered(source) \X {0}
    <2>1. \A m \in Range(members) : m[1] \in Offered(source)
      BY <1>1 DEF Collected, MembersOffered, Offers, Offered
    <2>2. \A n \in Offered(source) : \E m \in Range(members) : m[1] = n
      BY <1>1 DEF Collected
    <2> HIDE DEF Range
    <2> QED
      BY <2>1, <2>2
  <1>6. Firsts = [id \in Offered(source) \X {0} |-> Data(members[first(id[1])][2])]
    BY <1>5 DEF Firsts
  <1>7. ASSUME NEW id \in Offered(source) \X {0}
        PROVE  Data(members[first(id[1])][2]) = taken[id]
    <2>1. id[1] \in Offered(source)
      OBVIOUS
    <2>2. From(id[1], src[id[1]])
      BY <2>1, <1>3
    <2> HIDE DEF first, src
    <2> QED
      BY <2>2
  <1>8. Firsts = taken
    <2> HIDE DEF first, src
    <2> QED
      BY <1>6, <1>7
  <1>9. objects' = Assembled(source, src)
    <2> HIDE DEF src
    <2> QED
      BY <1>1, <1>2, <1>8 DEF Collected, Assembled
  <1> HIDE DEF src
  <1>10. Joined'
    BY <1>1, <1>2, <1>4, <1>9 DEF Joined, Collected
  <1>11. TypeOK'
    BY <1>1, <1>2 DEF TypeOK, Tasks, Entries
  <1> QED
    BY <1>1, <1>2, <1>10, <1>11 DEF LoadInv, Collected

LEMMA FillLoads ==
    ASSUME LoadInv, Fill
    PROVE  LoadInv' /\ Ended' /\ ~failed'
  <1>1. TypeOK /\ Joined
    BY DEF Fill, LoadInv
  <1>2. UNCHANGED <<source, todo, stack, mutex, members, hollow, failed>> /\ phase' = "done"
    BY DEF Fill
  <1>3. objects' = Filled(source, objects)
    BY <1>1 DEF Fill, Filled, Joined
  <1>4. Loaded(objects') \in Outcomes(source)
    BY <1>1, <1>3 DEF Joined, Outcomes
  <1>5. TypeOK' /\ Ended' /\ ~failed'
    BY <1>1, <1>2, <1>4 DEF TypeOK, Tasks, Entries, Ended, Joined
  <1> QED
    BY <1>2, <1>5 DEF LoadInv

LEMMA StutterLoads ==
    ASSUME LoadInv, UNCHANGED vars
    PROVE  LoadInv'
  BY DEF LoadInv, vars, TypeOK, Tasks, Entries, Working, TasksSound, TaskSound, IdOf,
         Unfinished, Accounted, ObjectsParsed, MembersOffered, Collected, Joined, Ended

LEMMA StepLoads == LoadInv /\ [Next]_vars => LoadInv'
  <1> SUFFICES ASSUME LoadInv, [Next]_vars PROVE LoadInv'
    OBVIOUS
  <1>1. ASSUME NEW w \in Workers, Take(w) PROVE LoadInv'
    BY <1>1, TakeLoads
  <1>2. ASSUME NEW w \in Workers, Work(w) PROVE LoadInv'
    BY <1>2, GivesUpLoads, GoesOnLoads, ReadObjectLoads, ExtendLoads DEF Work
  <1>3. CASE Join
    BY <1>3, JoinLoads
  <1>4. CASE Merge
    BY <1>4, MergeLoads
  <1>5. CASE Fill
    BY <1>5, FillLoads
  <1>6. CASE UNCHANGED vars
    BY <1>6, StutterLoads
  <1> QED
    BY <1>1, <1>2, <1>3, <1>4, <1>5, <1>6 DEF Next

LEMMA AlwaysLoads == Spec => []LoadInv
  BY InitLoads, StepLoads, PTL DEF Spec

-------------------------------------------------------------------------------
(***************************************************************************)
(* The theorems.                                                           *)
(***************************************************************************)
\* However many threads work on a file and in whatever order, what the pool returns
\* is nothing, until it is once and for all one of the outcomes of the abstract load:
\* every step of load_objects_raw is that load or changes nothing the caller sees.
THEOREM StepsImplementLoad == Spec => Promise!Steps
  <1>1. Init => Promise!Init
    BY DEF Init, Promise!Init, Returned
  <1>2. LoadInv /\ [Next]_vars => [Promise!Load]_<<source, Returned>>
    <2> SUFFICES ASSUME LoadInv, [Next]_vars
                 PROVE  Promise!Load \/ UNCHANGED <<source, Returned>>
      OBVIOUS
    <2>1. ASSUME NEW w \in Workers, Take(w) \/ Work(w)
          PROVE  UNCHANGED <<source, Returned>>
      <3>1. phase = "tasks" /\ UNCHANGED <<source, phase>>
        BY <2>1 DEF Take, Work, ReadError, DecodeError, GiveUpOn, Filter, ReadObject,
                    ReadContainer, Decoded, Lock, Extend, At
      <3> QED
        BY <3>1 DEF Returned
    <2>2. CASE Merge
      BY <2>2 DEF Merge, Returned
    <2>3. CASE UNCHANGED vars
      BY <2>3 DEF vars, Returned
    <2>4. CASE Join
      <3>1. CASE failed
        <4>1. Rejected(source) /\ phase = "tasks" /\ phase' = "done" /\ failed'
              /\ UNCHANGED source
          BY <2>4, <3>1 DEF Join, LoadInv
        <4>2. Returned = Pending /\ Returned' = Error
          BY <4>1 DEF Returned
        <4> QED
          BY <4>1, <4>2 DEF Promise!Load, Outcomes
      <3>2. CASE ~failed
        BY <2>4, <3>2 DEF Join, Returned
      <3> QED
        BY <3>1, <3>2
    <2>5. CASE Fill
      <3>1. phase = "fill" /\ phase' = "done" /\ UNCHANGED source
        BY <2>5 DEF Fill
      <3>2. ~failed' /\ Loaded(objects') \in Outcomes(source)
        BY <2>5, <3>1, FillLoads DEF Ended
      <3>3. Returned = Pending /\ Returned' = Loaded(objects')
        BY <3>1, <3>2 DEF Returned
      <3> QED
        BY <3>1, <3>2, <3>3 DEF Promise!Load
    <2> QED
      BY <2>1, <2>2, <2>3, <2>4, <2>5 DEF Next
  <1> QED
    BY <1>1, <1>2, AlwaysLoads, PTL DEF Spec, Promise!Steps

\* A packed number is taken from the container its entry names: where every entry's
\* number is its header's, no other container with that number is there.
LEMMA PackedComesFromItsContainer ==
    ASSUME NEW f \in Sources, OwnNumbers(f), NEW src \in Origins(f), NEW n \in Offered(f),
           n \in DOMAIN f.xref, f.xref[n].kind = "packed",
           f.xref[n].container \in DOMAIN f.xref,
           f.xref[f.xref[n].container] = Normal(<<f.xref[n].container, 0>>)
    PROVE  src[n] = <<f.xref[n].container, 0>>
  <1>1. src[n] \in KeptIds(f) /\ Offers(f, src[n], n)
    BY DEF Origins
  <1>2. src[n][1] = f.xref[n].container
    BY <1>1 DEF Offers
  <1>3. PICK m \in DOMAIN f.xref : f.xref[m].kind = "normal" /\ f.xref[m].at = src[n]
    BY <1>1 DEF KeptIds, NormalIds
  <1>4. m = f.xref[n].container
    BY <1>2, <1>3 DEF OwnNumbers
  <1> QED
    BY <1>3, <1>4 DEF Normal

\* What is in a finished load, by the source and the choice of containers.
LEMMA WhatIsAssembled ==
    ASSUME NEW f \in Sources, NEW src \in Origins(f), NEW objs,
           objs = Filled(f, Assembled(f, src))
    PROVE  /\ DOMAIN objs = (Offered(f) \X {0}) \cup KeptIds(f)
           /\ \A id \in KeptIds(f) :
                 IF id \in Late(f) /\ f.length[id] \notin DOMAIN objs
                 THEN objs[id] = Hollow
                 ELSE objs[id] = f.body[id]
           /\ \A n \in Offered(f) :
                 <<n, 0>> \notin KeptIds(f) => objs[<<n, 0>>] = Data(f.body[src[n]].members[n])
  <1> DEFINE taken == [id \in Offered(f) \X {0} |-> Data(f.body[src[id[1]]].members[id[1]])]
             own == [id \in KeptIds(f) |-> Parsed(f, id)]
             all == Assembled(f, src)
  <1>1. /\ DOMAIN all = (Offered(f) \X {0}) \cup KeptIds(f)
        /\ \A id \in KeptIds(f) : all[id] = Parsed(f, id)
        /\ \A id \in Offered(f) \X {0} : id \notin KeptIds(f) => all[id] = taken[id]
    <2>1. DOMAIN taken = Offered(f) \X {0} /\ DOMAIN own = KeptIds(f)
      OBVIOUS
    <2>2. \A id \in KeptIds(f) : own[id] = Parsed(f, id)
      OBVIOUS
    <2>3. all = Put(taken, own)
      BY DEF Assembled
    <2> HIDE DEF taken, own
    <2> QED
      BY <2>1, <2>2, <2>3 DEF Put
  <1>2. DOMAIN objs = DOMAIN all
    BY DEF Filled
  <1>3. \A id \in DOMAIN all :
            objs[id] = IF id \in Late(f) \cap KeptIds(f) /\ f.length[id] \in DOMAIN all
                       THEN f.body[id] ELSE all[id]
    BY DEF Filled
  <1>4. \A n \in Offered(f) :
            <<n, 0>> \notin KeptIds(f) => objs[<<n, 0>>] = Data(f.body[src[n]].members[n])
    BY <1>1, <1>3
  <1> HIDE DEF all
  <1>5. ASSUME NEW id \in KeptIds(f)
        PROVE  IF id \in Late(f) /\ f.length[id] \notin DOMAIN objs
               THEN objs[id] = Hollow
               ELSE objs[id] = f.body[id]
    <2>1. objs[id] = IF id \in Late(f) /\ f.length[id] \in DOMAIN objs
                     THEN f.body[id] ELSE Parsed(f, id)
      BY <1>1, <1>2, <1>3
    <2> QED
      BY <2>1 DEF Parsed
  <1> QED
    BY <1>1, <1>2, <1>4, <1>5

\* Whatever the schedule, an object a conforming reader finds by its entry is loaded
\* with the value found there and no stale copy in its place, and a stream whose
\* length was loaded is complete (load_objects_raw).
THEOREM LocatedIsLoaded == Spec => []LoadedAsLocated
  <1>1. ASSUME LoadInv, phase = "done", ~failed
        PROVE  LoadedAsLocated
    <2>1. PICK src \in Origins(source) :
              Loaded(objects) = Loaded(Filled(source, Assembled(source, src)))
      BY <1>1 DEF LoadInv, Ended, Outcomes
    <2>2. objects = Filled(source, Assembled(source, src)) /\ source \in Sources
      BY <2>1, <1>1 DEF Loaded, LoadInv, TypeOK
    <2> DEFINE f == source
    <2>3. /\ DOMAIN objects = (Offered(f) \X {0}) \cup KeptIds(f)
          /\ \A id \in KeptIds(f) :
                IF id \in Late(f) /\ f.length[id] \notin DOMAIN objects
                THEN objects[id] = Hollow
                ELSE objects[id] = f.body[id]
          /\ \A n \in Offered(f) :
                <<n, 0>> \notin KeptIds(f) => objects[<<n, 0>>] = Data(f.body[src[n]].members[n])
      BY <2>2, WhatIsAssembled
    <2>4. \A s \in DOMAIN f.length \cap KeptIds(f) :
              f.length[s] \in DOMAIN objects => objects[s] = f.body[s]
      BY <2>3
    <2>5. ASSUME OwnNumbers(f), NEW id \in DOMAIN f.body \cup (Offered(f) \X {0}), NEW obj,
                 Locates(f, id, obj), Undisturbed(f, id)
          PROVE  id \in DOMAIN objects /\ (objects[id] = obj \/ id \in Late(f))
      <3> DEFINE n == id[1]
                 e == f.xref[n]
                 c == <<e.container, 0>>
      <3>1. n \in DOMAIN f.xref
        BY <2>5 DEF Locates
      <3>2. CASE e.kind = "normal" /\ e.at = id /\ f.body[id] = obj
        <4>1. id \in KeptIds(f)
          BY <3>1, <3>2, <2>5 DEF KeptIds, NormalIds, Undisturbed
        <4> QED
          BY <4>1, <3>2, <2>3
      <3>3. CASE /\ e.kind = "packed" /\ id[2] = 0
                 /\ e.container \in DOMAIN f.xref /\ f.xref[e.container] = Normal(c)
                 /\ f.body[c].type = "ObjStm"
                 /\ n \in DOMAIN f.body[c].members
                 /\ obj = Data(f.body[c].members[n])
        <4>1. c \in KeptIds(f)
          <5>1. c \notin f.broken \cup f.dropped
            BY <3>3, <2>5 DEF Undisturbed
          <5>2. f.xref[e.container].kind = "normal" /\ f.xref[e.container].at = c
            BY <3>3 DEF Normal
          <5>3. c \in NormalIds(f)
            BY <3>3, <5>2 DEF NormalIds
          <5> QED
            BY <5>1, <5>3 DEF KeptIds
        <4>2. id = <<n, 0>>
          <5>1. DOMAIN f.body \subseteq Ids
            BY <2>2, SourcesAssumption DEF IsSource, IsObjectMap
          <5>2. id \in Nat \X Gens \/ id \in Offered(f) \X {0}
            BY <5>1 DEF Ids
          <5> QED
            BY <5>2, <3>3
        <4>3. n \in Offered(f)
          BY <3>1, <3>3, <4>1, <4>2, <2>5 DEF Offered, Offers, Undisturbed
        <4>4. id \notin KeptIds(f)
          BY <3>1, <3>3, <2>5 DEF KeptIds, NormalIds, OwnNumbers
        <4>5. src[n] = c
          BY <3>1, <3>3, <4>3, <2>2, <2>5, PackedComesFromItsContainer
        <4> QED
          BY <3>3, <4>2, <4>3, <4>4, <4>5, <2>3
      <3> QED
        BY <2>5, <3>2, <3>3 DEF Locates
    <2> QED
      BY <2>4, <2>5 DEF LoadedAsLocated
  <1>2. LoadInv => LoadedAsLocated
    BY <1>1 DEF LoadedAsLocated
  <1> QED
    BY <1>2, AlwaysLoads, PTL

-------------------------------------------------------------------------------
(***************************************************************************)
(* The lock.  That loading ends is left to TLC; what it rests on is that   *)
(* the lock is never held by a task that is not the topmost of its worker. *)
(***************************************************************************)
HolderIsOnTop ==
    /\ mutex = NoOne \/ \E w \in Workers : mutex = {w}
    /\ \A w \in Workers : mutex = {w} => Busy(w) /\ Top(w).step = "locked"

LockInv == TypeOK /\ (phase = "tasks" => HolderIsOnTop)

\* A worker that does not hold the lock, and does not take it, leaves it as it is.
LEMMA OthersKeepLock ==
    ASSUME HolderIsOnTop, TypeOK, NEW w \in Workers, UNCHANGED mutex,
           Busy(w) => Top(w).step # "locked",
           \A v \in Workers \ {w} : stack'[v] = stack[v]
    PROVE  HolderIsOnTop'
  BY DEF HolderIsOnTop, Busy, Top, NoOne

\* The worker that holds the lock of the list of members has nothing on top of the
\* task that took it, so that it can always go on and release it: no task it took up
\* meanwhile waits for the lock below it (load_objects_raw).
THEOREM HolderCanRelease == Spec => [](phase = "tasks" => HolderIsOnTop)
  <1>1. Init => LockInv
    <2> SUFFICES ASSUME Init PROVE LockInv
      OBVIOUS
    <2>1. TypeOK
      BY InitLoads DEF LoadInv
    <2>2. HolderIsOnTop
      BY DEF Init, HolderIsOnTop, NoOne
    <2> QED
      BY <2>1, <2>2 DEF LockInv
  <1>2. LoadInv /\ LoadInv' /\ LockInv /\ [Next]_vars => LockInv'
    <2> SUFFICES ASSUME LoadInv, LoadInv', LockInv, [Next]_vars, phase' = "tasks"
                 PROVE  HolderIsOnTop'
      BY DEF LockInv, LoadInv
    <2>1. TypeOK
      BY DEF LockInv
    <2>2. ASSUME NEW w \in Workers, Take(w)
          PROVE  HolderIsOnTop'
      <3>1. /\ phase = "tasks" /\ UNCHANGED mutex /\ (Busy(w) => Top(w).step # "locked")
            /\ \A v \in Workers \ {w} : stack'[v] = stack[v]
        BY <2>1, <2>2 DEF Take, TypeOK
      <3> QED
        BY <2>1, <3>1, OthersKeepLock DEF LockInv
    <2>3. ASSUME NEW w \in Workers, Work(w), ~Lock(w), ~Extend(w)
          PROVE  HolderIsOnTop'
      <3>1. phase = "tasks" /\ UNCHANGED mutex /\ Top(w).step # "locked"
        BY <2>3 DEF Work, ReadError, DecodeError, GiveUpOn, Filter, ReadObject,
                    ReadContainer, Decoded, At
      <3>2. Return(w) \/ \E step \in {"decoding", "decoded"} : GoTo(w, step)
        BY <2>3 DEF Work, ReadError, DecodeError, GiveUpOn, Filter, ReadObject,
                    ReadContainer, Decoded
      <3>3. \A v \in Workers \ {w} : stack'[v] = stack[v]
        BY <2>1, <3>2 DEF Return, GoTo, TypeOK
      <3> QED
        BY <2>1, <3>1, <3>3, OthersKeepLock DEF LockInv
    <2>4. ASSUME NEW w \in Workers, Lock(w)
          PROVE  HolderIsOnTop'
      <3>1. mutex' = {w} /\ GoTo(w, "locked") /\ Busy(w)
        BY <2>4 DEF Lock, At
      <3> DEFINE t == [Top(w) EXCEPT !.step = "locked"]
      <3>2. stack[w] \in Seq(Tasks) /\ stack[w] # << >>
        BY <2>1, <3>1 DEF TypeOK, Busy
      <3>3. t \in Tasks /\ t.step = "locked" /\ Front(stack[w]) \in Seq(Tasks)
        BY <2>1, <3>1, <3>2, TopIsTask, Popped DEF Tasks
      <3>4. stack'[w] = Append(Front(stack[w]), t)
        BY <2>1, <3>1 DEF GoTo, TypeOK
      <3> HIDE DEF t
      <3>5. stack'[w] # << >> /\ Last(stack'[w]) = t
        BY <3>3, <3>4, Pushed
      <3> QED
        BY <3>1, <3>3, <3>5 DEF HolderIsOnTop, Busy, Top
    <2>5. ASSUME NEW w \in Workers, Extend(w)
          PROVE  HolderIsOnTop'
      BY <2>5 DEF Extend, HolderIsOnTop, NoOne
    <2>6. CASE Join \/ Merge \/ Fill
      BY <2>6 DEF Join, Merge, Fill
    <2>7. CASE UNCHANGED vars
      BY <2>7 DEF vars, LockInv, HolderIsOnTop, Busy, Top
    <2> QED
      BY <2>2, <2>3, <2>4, <2>5, <2>6, <2>7 DEF Next
  <1>3. LockInv => (phase = "tasks" => HolderIsOnTop)
    BY DEF LockInv
  <1> QED
    BY <1>1, <1>2, <1>3, AlwaysLoads, PTL DEF Spec
=============================================================================
