-------------------------------- MODULE Rpc --------------------------------
(***************************************************************************)
(* What the gateway's client promises its callers: a call receives only    *)
(* the frames the server sent for that very call, in the order they were   *)
(* sent, without gaps or repetitions, and nothing once it has ended.  A    *)
(* call may end early, and then it has a prefix of the answer.             *)
(***************************************************************************)
EXTENDS Integers, Sequences

CONSTANTS Calls

VARIABLES
    stat,           \* life of a call
    sent,           \* how many frames the server sent for it
    got             \* the frames it received, as [call, seq] records

vars == <<stat, sent, got>>

Init ==
    /\ stat = [c \in Calls |-> "idle"]
    /\ sent = [c \in Calls |-> 0]
    /\ got = [c \in Calls |-> <<>>]

\* A call is made, or refused at once.
Start(c) ==
    /\ stat[c] = "idle"
    /\ \E s \in {"pending", "ended"} : stat' = [stat EXCEPT ![c] = s]
    /\ UNCHANGED <<sent, got>>

Send(c) ==
    /\ stat[c] # "idle"
    /\ sent' = [sent EXCEPT ![c] = @ + 1]
    /\ UNCHANGED <<stat, got>>

\* The next frame is delivered, and may be the last.
Deliver(c) ==
    /\ stat[c] = "pending"
    /\ Len(got[c]) < sent[c]
    /\ got' = [got EXCEPT ![c] = Append(@, [call |-> c, seq |-> Len(@) + 1])]
    /\ \E s \in {"pending", "ended"} : stat' = [stat EXCEPT ![c] = s]
    /\ UNCHANGED sent

End(c) ==
    /\ stat[c] = "pending"
    /\ stat' = [stat EXCEPT ![c] = "ended"]
    /\ UNCHANGED <<sent, got>>

Next == \E c \in Calls : Start(c) \/ Send(c) \/ Deliver(c) \/ End(c)

Spec == Init /\ [][Next]_vars
=============================================================================
