---------------------------- MODULE MCAgentServer ----------------------------
(* Two streams of one session and its cancellers.                           *)
EXTENDS AgentServer, TLC

CONSTANTS s1, a, b, k1, k2

MCSessionOf == (a :> s1) @@ (b :> s1)
==============================================================================
