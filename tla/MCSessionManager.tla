-------------------------- MODULE MCSessionManager --------------------------
(***************************************************************************)
(* Small instances of SessionManager: a session with a backlog, and a      *)
(* second session so that cancel_all_session_tasks has somewhere to go.    *)
(***************************************************************************)
EXTENDS SessionManager, TLC

CONSTANTS s1, s2, t1, t2, t3, t4, c1, c2

MCSessionOf1234 == (t1 :> s1) @@ (t2 :> s1) @@ (t3 :> s1) @@ (t4 :> s2)

\* Where t1, t2 and t3 are unary tasks they are interchangeable, and so are
\* cancellers.
SymUnary == Permutations({t1, t2, t3}) \cup Permutations({c1, c2})
=============================================================================
