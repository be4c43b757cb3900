--------------------------- MODULE MCDocumentStore ---------------------------
(***************************************************************************)
(* DocumentStore for TLC: three files of other producers.                  *)
(***************************************************************************)
EXTENDS DocumentStore, TLC

CONSTANTS v1, v2

MCVals == {v1, v2}

\* A PDF 1.4 file with a classic table, a hole at 1 and an object of generation 1.
TableFile ==
    [version |-> 14, xtype |-> "table", size |-> 3,
     body |-> (<<2, 1>> :> Data(v1)),
     xref |-> (2 :> Normal(<<2, 1>>))]

\* An updated PDF 1.5 file: container 2 still holds the old value of object 3.
StaleMemberFile ==
    [version |-> 15, xtype |-> "stream", size |-> 5,
     body |-> (<<2, 0>> :> ObjStm(1 :> v1 @@ 3 :> v2)) @@
              (<<3, 0>> :> Data(v1)) @@ (<<4, 0>> :> XRefStm),
     xref |-> (1 :> Packed(2, 0)) @@ (2 :> Normal(<<2, 0>>)) @@
              (3 :> Normal(<<3, 0>>)) @@ (4 :> Normal(<<4, 0>>))]

\* A file whose table lists a container but not its members, which have the
\* higher numbers.
UnlistedMembersFile ==
    [version |-> 15, xtype |-> "table", size |-> 2,
     body |-> (<<1, 0>> :> ObjStm(2 :> v1 @@ 3 :> v2)),
     xref |-> (1 :> Normal(<<1, 0>>))]

MCNewObjects == {Data(v1), Stream(v1)}

MCNewValues == {Data(v2)}

MCInitialFiles == {TableFile, StaleMemberFile, UnlistedMembersFile}
=============================================================================
