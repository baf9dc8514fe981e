---------------------------- MODULE MCAgentClient ----------------------------
(***************************************************************************)
(* A small instance of AgentClient: a stream and a unary request with      *)
(* request ids of their own.                                               *)
(***************************************************************************)
EXTENDS AgentClient, TLC

CONSTANTS k1, k2, r1, r2

RidUnique == (k1 :> r1) @@ (k2 :> r2)
=============================================================================
