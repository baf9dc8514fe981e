-------------------------- MODULE MCSandboxManager --------------------------
(***************************************************************************)
(* Small instances of SandboxManager.                                      *)
(***************************************************************************)
EXTENDS SandboxManager, TLC

CONSTANTS b1, b2

MCAll == b1 :> Kinds
\* One sandbox used in every way beside one that comes and goes.
MCTwo == (b1 :> Kinds) @@ (b2 :> {"create", "delete"})

\* Calls are interchangeable, and so are processes.
Sym == Permutations(Ops) \cup Permutations(Procs)
=============================================================================
