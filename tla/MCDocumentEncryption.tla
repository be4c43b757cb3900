------------------------ MODULE MCDocumentEncryption ------------------------
(***************************************************************************)
(* DocumentEncryption for TLC: RC4 for everything, AES for streams only,   *)
(* metadata excepted, and RC4 for strings beside AES for streams with a    *)
(* key that is too short for it.                                           *)
(***************************************************************************)
EXTENDS DocumentEncryption

CONSTANTS v1

MCVals == {v1}

MCStates ==
    {[key |-> "rc4", strings |-> TRUE, streams |-> TRUE, metadata |-> TRUE,
      padded |-> FALSE, unfit |-> {}],
     [key |-> "aes", strings |-> FALSE, streams |-> TRUE, metadata |-> FALSE,
      padded |-> TRUE, unfit |-> {}],
     [key |-> "short", strings |-> TRUE, streams |-> TRUE, metadata |-> TRUE,
      padded |-> TRUE, unfit |-> {"content"}]}
=============================================================================
