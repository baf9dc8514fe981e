----------------------------- MODULE MCInstance -----------------------------
(* Small instances of Instance.                                             *)
EXTENDS Instance
=============================================================================
