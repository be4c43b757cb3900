------------------------- MODULE MCIncrementalUpdate -------------------------
(***************************************************************************)
(* IncrementalUpdate for TLC: the files the updates start from.            *)
(***************************************************************************)
EXTENDS IncrementalUpdate, TLC

CONSTANTS v1, v2

MCVals == {v1, v2}

MCNewObjects == {Stream(v2)}

Unsealed(body) == [id \in DOMAIN body |-> << >>]

\* The writer's encryption: every object with the key of its identifier, but for
\* the encryption dictionary and cross-reference streams.
Sealed(body, dict) ==
    [id \in DOMAIN body |->
        IF id = dict \/ body[id].type = "XRef" THEN << >> ELSE <<id>>]

Classic(body, encrypt, seals, exact) ==
    [body |-> body, seals |-> seals, xtype |-> "table",
     xref |-> [n \in {id[1] : id \in DOMAIN body} |->
                  Normal(CHOOSE id \in DOMAIN body : id[1] = n)],
     prev |-> {}, encrypt |-> encrypt, exact |-> exact]

\* A table; an object of generation 1.
PlainBody == (<<1, 0>> :> Data(v1)) @@ (<<2, 1>> :> Stream(v1))

PlainFile == <<Classic(PlainBody, {}, Unsealed(PlainBody), TRUE)>>

\* The same with a startxref that leads nowhere.
DamagedFile == <<Classic(PlainBody, {}, Unsealed(PlainBody), FALSE)>>

\* A container with member 1, which the cross-reference stream lists, and 4,
\* which it does not.
PackedBody == (<<2, 0>> :> ObjStm(1 :> v1 @@ 4 :> v1)) @@ (<<3, 0>> :> XRefStm)

PackedRevision(encrypt, body, seals) ==
    [body |-> body, seals |-> seals, xtype |-> "stream",
     xref |-> (1 :> Packed(2, 0)) @@
              [n \in {id[1] : id \in DOMAIN body} |-> Normal(<<n, 0>>)],
     prev |-> {}, encrypt |-> encrypt, exact |-> TRUE]

PackedFile == <<PackedRevision({}, PackedBody, Unsealed(PackedBody))>>

\* Encrypted; object 3 is the encryption dictionary.
LockedBody == (<<1, 0>> :> Data(v1)) @@ (<<2, 0>> :> Stream(v1)) @@ (<<3, 0>> :> Data(v2))

LockedFile == <<Classic(LockedBody, {<<3, 0>>}, Sealed(LockedBody, <<3, 0>>), TRUE)>>

LockedPackedBody == PackedBody @@ (<<4, 0>> :> Data(v2))

LockedPackedFile ==
    <<PackedRevision({<<4, 0>>}, LockedPackedBody, Sealed(LockedPackedBody, <<4, 0>>))>>

\* A stream only, which a scan finds no trailer of: the file is refused.
UnreadableFile == <<[PackedFile[1] EXCEPT !.exact = FALSE]>>

\* A table, and an update of it by a section that its startxref does not lead to.
DamagedUpdate ==
    LET body == (<<2, 1>> :> Stream(v2)) @@ (<<3, 0>> :> Data(v2))
    IN  PlainFile \o <<[Classic(body, {}, Unsealed(body), FALSE) EXCEPT !.prev = {1}]>>

MCFiles ==
    {PlainFile, DamagedFile, DamagedUpdate, PackedFile, UnreadableFile, LockedFile,
     LockedPackedFile}
=============================================================================
