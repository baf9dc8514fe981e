--------------------------- MODULE MCMessageHandler ---------------------------
(* Instances of MessageHandler for TLC: all inputs belong to session s1,      *)
(* except r2.                                                                 *)
EXTENDS MessageHandler
CONSTANTS s1, s2, r1, r2, m1, m2, c1, a1, a2

MCSessionOf == [i \in Inputs |-> IF i = r2 THEN s2 ELSE s1]
=============================================================================
