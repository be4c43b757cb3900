---------------------------- MODULE ParallelLoader ----------------------------
(***************************************************************************)
(* Loading the objects of a file with a pool of threads                    *)
(* (src/src/reader.rs, load_objects_raw, built with the rayon feature; the *)
(* build without it is the case of one worker).                            *)
(*                                                                         *)
(* Every cross-reference entry is a task.  A task that finds a container   *)
(* decodes it with a parallel iterator of its own, and a thread that waits *)
(* for the parts of that decoding may take up another task meanwhile: a    *)
(* worker has a stack of tasks.  The members of containers go to one list  *)
(* behind a mutex, which is not reentrant.                                 *)
(***************************************************************************)
EXTENDS LoadOutcomes, Sequences, SequencesExt

CONSTANT Workers

ASSUME WorkersAssumption == IsFiniteSet(Workers) /\ Workers # {}

VARIABLES
    source,    \* the file, and what goes wrong with it
    todo,      \* entries no worker has taken
    stack,     \* for every worker its unfinished tasks: [entry, step]
    mutex,     \* {} or the worker that holds the lock of members
    members,   \* object_streams: <<number, value>> in the order of arrival
    hollow,    \* zero_length_streams
    objects,   \* what the tasks returned, then document.objects
    failed,    \* a task returned an error
    phase      \* "tasks", then "merge", "fill" and "done"

vars == <<source, todo, stack, mutex, members, hollow, objects, failed, phase>>

NoOne == {}

Init ==
    /\ source \in Sources
    /\ todo = {n \in DOMAIN source.xref : source.xref[n].kind = "normal"}
    /\ stack = [w \in Workers |-> << >>]
    /\ mutex = NoOne
    /\ members = << >>
    /\ hollow = {}
    /\ objects = Empty
    /\ failed = FALSE
    /\ phase = "tasks"

Busy(w) == stack[w] # << >>
Top(w) == Last(stack[w])
At(w, step) == phase = "tasks" /\ Busy(w) /\ Top(w).step = step
Target(w) == source.xref[Top(w).entry].at

GoTo(w, step) ==
    stack' = [stack EXCEPT ![w] = Append(Front(@), [Top(w) EXCEPT !.step = step])]

Return(w) == stack' = [stack EXCEPT ![w] = Front(@)]

-------------------------------------------------------------------------------
\* A slip: the members are filtered in parallel while the lock is held, so that
\* the worker may take up another task there.
Take_UnderLock(w) ==
    /\ phase = "tasks"
    /\ Busy(w) => Top(w).step \in {"decoding", "locked"}
    /\ \E n \in todo :
          /\ todo' = todo \ {n}
          /\ stack' = [stack EXCEPT ![w] = Append(@, [entry |-> n, step |-> "read"])]
    /\ UNCHANGED <<source, mutex, members, hollow, objects, failed, phase>>

\* An idle worker takes an entry; so does one that waits for a decoding.
Take(w) ==
    /\ phase = "tasks"
    /\ Busy(w) => Top(w).step = "decoding"
    /\ \E n \in todo :
          /\ todo' = todo \ {n}
          /\ stack' = [stack EXCEPT ![w] = Append(@, [entry |-> n, step |-> "read"])]
    /\ UNCHANGED <<source, mutex, members, hollow, objects, failed, phase>>

\* The object does not parse, or the container does not decode: a lenient reader
\* goes on without it.
GiveUpOn(w, step) ==
    /\ At(w, step) /\ Fails(source, Target(w))
    /\ failed' = (failed \/ source.strict)
    /\ Return(w)
    /\ UNCHANGED <<source, todo, mutex, members, hollow, objects, phase>>

IsContainer(w) == source.body[Target(w)].type = "ObjStm"

ReadError(w) == GiveUpOn(w, "read") /\ ~IsContainer(w)

DecodeError(w) == GiveUpOn(w, "decoding") /\ IsContainer(w)

\* The filter drops what was read, a container with all its members.
Filter(w) ==
    /\ At(w, "read") /\ ~Fails(source, Target(w))
    /\ Target(w) \in source.dropped
    /\ Return(w)
    /\ UNCHANGED <<source, todo, mutex, members, hollow, objects, failed, phase>>

ReadObject(w) ==
    /\ At(w, "read") /\ ~IsContainer(w)
    /\ Target(w) \in KeptIds(source)
    /\ objects' = Put(objects, [id \in {Target(w)} |-> Parsed(source, id)])
    /\ hollow' = hollow \cup ({Target(w)} \cap Late(source))
    /\ Return(w)
    /\ UNCHANGED <<source, todo, mutex, members, failed, phase>>

\* ObjectStream::new_with_limit: the parts are decoded by the pool.
ReadContainer(w) ==
    /\ At(w, "read") /\ IsContainer(w)
    /\ Target(w) \notin source.dropped
    /\ GoTo(w, "decoding")
    /\ UNCHANGED <<source, todo, mutex, members, hollow, objects, failed, phase>>

Decoded(w) ==
    /\ At(w, "decoding") /\ Target(w) \notin source.broken
    /\ GoTo(w, "decoded")
    /\ UNCHANGED <<source, todo, mutex, members, hollow, objects, failed, phase>>

Lock(w) ==
    /\ At(w, "decoded") /\ mutex = NoOne
    /\ mutex' = {w}
    /\ GoTo(w, "locked")
    /\ UNCHANGED <<source, todo, members, hollow, objects, failed, phase>>

\* A slip: nobody asks which container the cross-reference names.
Listing_AllMembers(f, c) ==
    LET order == SetToSortSeq(DOMAIN f.body[c].members, <)
    IN  [i \in DOMAIN order |-> <<order[i], f.body[c].members[order[i]]>>]

\* The members of a container in the order of their numbers.
Listing(f, c) ==
    LET nums == {n \in DOMAIN f.body[c].members : Offers(f, c, n)}
        nth(i) == CHOOSE n \in nums : Cardinality({m \in nums : m < n}) = i - 1
    IN  [i \in 1 .. Cardinality(nums) |-> <<nth(i), f.body[c].members[nth(i)]>>]

\* extend, filtering as it goes; the lock is released at the end of the block.
Extend(w) ==
    /\ At(w, "locked")
    /\ members' = members \o Listing(source, Target(w))
    /\ objects' = Put(objects, [id \in {Target(w)} |-> Parsed(source, id)])
    /\ mutex' = NoOne
    /\ Return(w)
    /\ UNCHANGED <<source, todo, hollow, failed, phase>>

\* collect: all tasks have returned, or one has failed and no more are started.
Join ==
    /\ phase = "tasks"
    /\ \A w \in Workers : ~Busy(w)
    /\ todo = {} \/ failed
    /\ phase' = IF failed THEN "done" ELSE "merge"
    /\ UNCHANGED <<source, todo, stack, mutex, members, hollow, objects, failed>>

\* "Only add entries, but never replace entries": the first of a number is kept.
Firsts ==
    [id \in {<<m[1], 0>> : m \in Range(members)} |->
        Data(members[SelectInSeq(members, LAMBDA m : m[1] = id[1])][2])]

\* A slip: a member replaces the object of its number.
Merge_Replaces ==
    /\ phase = "merge"
    /\ objects' = Put(objects, Firsts)
    /\ phase' = "fill"
    /\ UNCHANGED <<source, todo, stack, mutex, members, hollow, failed>>

Merge ==
    /\ phase = "merge"
    /\ objects' = Put(Firsts, objects)
    /\ phase' = "fill"
    /\ UNCHANGED <<source, todo, stack, mutex, members, hollow, failed>>

\* read_stream_content for every stream that came out empty.
Fill ==
    /\ phase = "fill"
    /\ objects' = [id \in DOMAIN objects |->
                      IF id \in hollow /\ source.length[id] \in DOMAIN objects
                      THEN source.body[id] ELSE objects[id]]
    /\ phase' = "done"
    /\ UNCHANGED <<source, todo, stack, mutex, members, hollow, failed>>

Work(w) ==
    \/ ReadError(w) \/ Filter(w) \/ ReadObject(w)
    \/ ReadContainer(w) \/ DecodeError(w) \/ Decoded(w)
    \/ Lock(w) \/ Extend(w)

Next ==
    \/ \E w \in Workers : Take(w) \/ Work(w)
    \/ Join \/ Merge \/ Fill

\* Every worker goes on with what it has begun, the pool hands out every entry,
\* and the caller waits for the pool.
Fairness ==
    /\ \A w \in Workers : WF_vars(Work(w))
    /\ WF_vars(\E w \in Workers : Take(w))
    /\ WF_vars(Join \/ Merge \/ Fill)

Spec == Init /\ [][Next]_vars /\ Fairness

-------------------------------------------------------------------------------
(***************************************************************************)
(* Properties.                                                             *)
(***************************************************************************)
\* What the pool returns, seen from outside.
Returned ==
    CASE phase # "done" -> Pending
      [] phase = "done" /\ failed -> Error
      [] phase = "done" /\ ~failed -> Loaded(objects)

Promise == INSTANCE LoadPromise WITH result <- Returned

\* However the threads interleave, loading returns one of the results the
\* abstract load may return, and it does return (load_objects_raw).
KeepsPromise == Promise!Spec

\* No worker waits for a lock that a suspended task of its own holds, and two
\* workers never wait for each other: the pool comes to rest.
LoadEnds == <>(phase = "done")

\* Every header is the one its entry's number asks for.
OwnNumbers(f) ==
    \A n \in DOMAIN f.xref : f.xref[n].kind = "normal" => f.xref[n].at[1] = n

\* The filter keeps id and the container it is packed in, and both parse.
Undisturbed(f, id) ==
    /\ id \notin f.broken \cup f.dropped
    /\ f.xref[id[1]].kind = "packed" =>
           <<f.xref[id[1]].container, 0>> \notin f.broken \cup f.dropped

\* Whatever the schedule, an object that a conforming reader finds by its
\* cross-reference entry is loaded with the value found there: no stale copy in
\* another container takes its place ("This prevents stale ObjStm copies from
\* overriding the correct version").  A stream that came out empty is filled in the
\* end if its length was loaded, also when that is a member of a container.
LoadedAsLocated ==
    phase = "done" /\ ~failed =>
        /\ OwnNumbers(source) =>
              \A id \in DOMAIN source.body \cup (Offered(source) \X {0}) :
                  \A obj \in {source.body[x] : x \in DOMAIN source.body} \cup {Data(v) : v \in Vals} :
                      Locates(source, id, obj) /\ Undisturbed(source, id) =>
                          /\ id \in DOMAIN objects
                          /\ objects[id] = obj \/ id \in Late(source)
        /\ \A s \in DOMAIN source.length \cap KeptIds(source) :
              source.length[s] \in DOMAIN objects => objects[s] = source.body[s]
=============================================================================
