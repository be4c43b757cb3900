----------------------------- MODULE LoadPromise -----------------------------
(***************************************************************************)
(* Loading as the caller sees it: one step, from a source to an outcome.   *)
(***************************************************************************)
CONSTANTS
    Sources,     \* the files there are
    Outcomes(_), \* what may come of loading one
    Pending      \* no outcome yet

VARIABLES source, result

Init == source \in Sources /\ result = Pending

Load ==
    /\ result = Pending
    /\ result' \in Outcomes(source)
    /\ UNCHANGED source

\* At most one load, and what it may return; and that it returns.
Steps == Init /\ [][Load]_<<source, result>>

Spec == Steps /\ WF_<<source, result>>(Load)
=============================================================================
