------------------------- MODULE AgentClientProofs -------------------------
(***************************************************************************)
(* Proofs about AgentClient, for any calls, request ids and bounds.        *)
(*                                                                         *)
(* That queues and marks do not leak follows from IInv however request ids *)
(* are chosen.  That frames reach the call they answer needs request ids   *)
(* that identify a call (UniqueIds), since the receiver sees nothing else; *)
(* then a queue registered for a request id is the queue of the call that  *)
(* has it, and Routed carries that from the wire to the caller.            *)
(***************************************************************************)
EXTENDS AgentClient, SequenceTheorems, TLAPS

\* Request ids identify a call.
UniqueIds == \A c, d \in Calls : RidOf[c] = RidOf[d] => c = d

\* What is on the wire is a server_push, or answers the call whose request id
\* it carries.
WireTrue ==
    \A i \in DOMAIN wire :
        wire[i].push \/ (wire[i] \in Reply /\ wire[i].rid = RidOf[wire[i].call])

\* The inductive invariant, whatever the request ids.
IInv == TypeOK /\ WireTrue /\ QueueHasCaller /\ MarksExpire

\* The queue of a call holds frames that answer it.
Routed == \A c \in Calls : \A i \in DOMAIN buf[c] : buf[c][i].call = c

-----------------------------------------------------------------------------
(* What the end of a call does.                                            *)

\* _drain_and_remove_queue keeps types and marks in order.
LEMMA DrainInv ==
    ASSUME TypeOK, MarksExpire, NEW rid \in Rids, Drain(rid)
    PROVE  /\ owner' \in [Rids -> Calls \cup {Nil}]
           /\ buf' \in [Calls -> Seq(Reply)]
           /\ marked' \in SUBSET Rids
           /\ timers' \in [Rids -> Nat]
           /\ \A r \in marked' : timers'[r] > 0
<1>1. CASE owner[rid] = Nil
  BY <1>1 DEF Drain, TypeOK, MarksExpire
<1>2. CASE owner[rid] # Nil
  <2>1. owner[rid] \in Calls
    BY <1>2 DEF TypeOK
  <2>2. buf' \in [Calls -> Seq(Reply)]
    <3>1. <<>> \in Seq(Reply)
      BY EmptySeq
    <3>2. buf' = [buf EXCEPT ![owner[rid]] = <<>>]
      BY <1>2 DEF Drain
    <3> QED
      BY <2>1, <3>1, <3>2 DEF TypeOK
  <2>3. timers' \in [Rids -> Nat] /\ \A r \in marked' : timers'[r] > 0
    <3>1. marked' = marked \cup {rid} /\ timers' = [timers EXCEPT ![rid] = @ + 1]
      BY <1>2 DEF Drain
    <3>2. \A r \in marked : r \in Rids /\ timers[r] > 0
      BY DEF TypeOK, MarksExpire
    <3> QED
      BY <3>1, <3>2 DEF TypeOK
  <2> QED
    BY <1>2, <2>2, <2>3 DEF Drain, TypeOK
<1> QED
  BY <1>1, <1>2

\* After a call has ended the queue under its request id is gone, and the other
\* queues are as they were.
LEMMA DrainOwner ==
    ASSUME TypeOK, NEW rid \in Rids, Drain(rid)
    PROVE  \A r \in Rids : owner'[r] = IF r = rid THEN Nil ELSE owner[r]
BY DEF Drain, TypeOK

\* The end of a call keeps the invariant.
LEMMA EndsInv ==
    ASSUME IInv, NEW c \in Calls, NEW how \in Over, Ends(c, how),
           got' \in [Calls -> Seq(Reply)], srv' = srv,
           UNCHANGED <<conn, up, connects, wire, sent, pushes>>
    PROVE  IInv'
<1>1. RidOf[c] \in Rids /\ Drain(RidOf[c])
  BY RidOfAssumption DEF Ends
<1>2. cstat' \in [Calls -> {"idle"} \cup Pending \cup Over]
      /\ \A d \in Calls \ {c} : cstat'[d] = cstat[d]
  BY DEF Ends, IInv, TypeOK
<1>3. TypeOK' /\ MarksExpire'
  BY <1>1, <1>2, DrainInv DEF IInv, TypeOK, MarksExpire
<1>4. QueueHasCaller'
  <2> SUFFICES ASSUME NEW r \in Rids, owner'[r] # Nil
               PROVE  RidOf[owner'[r]] = r /\ cstat'[owner'[r]] \in Pending
    BY DEF QueueHasCaller
  <2>1. r # RidOf[c] /\ owner'[r] = owner[r]
    BY <1>1, DrainOwner DEF IInv
  <2>2. RidOf[owner[r]] = r /\ cstat[owner[r]] \in Pending /\ owner[r] \in Calls
    BY <2>1 DEF IInv, QueueHasCaller, TypeOK
  <2> QED
    BY <1>2, <2>1, <2>2
<1> QED
  BY <1>3, <1>4 DEF IInv, WireTrue

-----------------------------------------------------------------------------
(* The inductive invariant.                                                *)

LEMMA InitInv == Init => IInv
<1> SUFFICES ASSUME Init PROVE IInv
  OBVIOUS
<1>1. <<>> \in Seq(Frame) /\ <<>> \in Seq(Reply)
  BY EmptySeq
<1>2. connects = 0 /\ pushes = 0 /\ connects \in 0 .. MaxConnects /\ pushes \in 0 .. MaxPushes
  <2>1. connects = 0 /\ pushes = 0
    BY DEF Init
  <2> QED
    BY <2>1, BoundsAssumption
<1>6. /\ conn \in {"none", "open", "stopping", "closing"} /\ up \in BOOLEAN
      /\ owner \in [Rids -> Calls \cup {Nil}] /\ marked \in SUBSET Rids /\ timers \in [Rids -> Nat]
      /\ cstat \in [Calls -> {"idle"} \cup Pending \cup Over]
      /\ srv \in [Calls -> {"none", "working", "finished", "gone"}] /\ sent \in [Calls -> Nat]
  BY DEF Init
<1>3. wire \in Seq(Frame) /\ buf \in [Calls -> Seq(Reply)] /\ got \in [Calls -> Seq(Reply)]
  BY <1>1 DEF Init
<1>4. TypeOK
  BY <1>2, <1>3, <1>6 DEF TypeOK
<1>5. WireTrue
  BY DEF Init, WireTrue
<1> QED
  BY <1>4, <1>5 DEF Init, IInv, QueueHasCaller, MarksExpire

\* What the server emits is well typed and true to its call.
LEMMA EmitInv ==
    ASSUME IInv, NEW c \in Calls, NEW final \in BOOLEAN, Emit(c, final),
           srv' \in [Calls -> {"none", "working", "finished", "gone"}],
           UNCHANGED <<conn, up, connects, clientVars, pushes>>
    PROVE  IInv'
<1> DEFINE f == [rid |-> RidOf[c], call |-> c, seq |-> sent[c] + 1,
                 final |-> final, push |-> FALSE]
<1>1. sent[c] \in Nat /\ sent' \in [Calls -> Nat]
  BY DEF Emit, IInv, TypeOK
<1>2. f \in Reply /\ f \in Frame /\ f.rid = RidOf[f.call]
  BY <1>1, RidOfAssumption DEF Reply, Frame
<1>3. wire \in Seq(Frame) /\ wire' = Append(wire, f)
  BY DEF Emit, IInv, TypeOK
<1>4. /\ wire' \in Seq(Frame)
      /\ \A i \in DOMAIN wire' : wire'[i] = f \/ (i \in DOMAIN wire /\ wire'[i] = wire[i])
  BY <1>2, <1>3
<1>5. WireTrue'
  BY <1>2, <1>4 DEF IInv, WireTrue
<1> QED
  BY <1>1, <1>4, <1>5 DEF IInv, TypeOK, QueueHasCaller, MarksExpire, clientVars

LEMMA TransmitInv == ASSUME IInv, NEW c \in Calls, Transmit(c) PROVE IInv'
<1>1. CASE Linked /\ cstat' = [cstat EXCEPT ![c] = "waiting"]
           /\ srv' = [srv EXCEPT ![c] = "working"] /\ UNCHANGED <<owner, buf, marked, timers>>
  BY <1>1 DEF Transmit, IInv, TypeOK, WireTrue, QueueHasCaller, MarksExpire, Pending
<1>2. CASE ~Linked /\ Ends(c, "failed") /\ UNCHANGED srv
  BY <1>2, EndsInv DEF Transmit, Over, IInv, TypeOK
<1> QED
  BY <1>1, <1>2 DEF Transmit

LEMMA ReceiveInv == ASSUME IInv, Receive PROVE IInv'
<1> DEFINE f == Head(wire)
           q == RouteTo(f)
<1>1. wire \in Seq(Frame) /\ wire # <<>> /\ wire' = Tail(wire)
  BY DEF Receive, IInv, TypeOK
<1>2. f \in Frame /\ f = wire[1] /\ 1 \in DOMAIN wire
  BY <1>1
<1>3. wire' \in Seq(Frame) /\ \A i \in DOMAIN wire' : i + 1 \in DOMAIN wire /\ wire'[i] = wire[i + 1]
  BY <1>1
<1>4. WireTrue'
  BY <1>3 DEF IInv, WireTrue
<1>5. q # Nil => q \in Calls /\ f \in Reply
  BY <1>2 DEF RouteTo, Frame, IInv, TypeOK, WireTrue
<1>6. buf' \in [Calls -> Seq(Reply)]
  BY <1>5 DEF Receive, IInv, TypeOK
<1> QED
  BY <1>3, <1>4, <1>6 DEF Receive, IInv, TypeOK, QueueHasCaller, MarksExpire, serverVars

LEMMA TakeChunkInv == ASSUME IInv, NEW c \in Calls, TakeChunk(c) PROVE IInv'
<1>1. buf[c] \in Seq(Reply) /\ buf[c] # <<>> /\ got[c] \in Seq(Reply)
  BY DEF TakeChunk, IInv, TypeOK
<1>2. Head(buf[c]) \in Reply /\ Tail(buf[c]) \in Seq(Reply)
  BY <1>1
<1>3. got' \in [Calls -> Seq(Reply)] /\ buf' \in [Calls -> Seq(Reply)]
  BY <1>1, <1>2 DEF TakeChunk, IInv, TypeOK
<1>4. /\ cstat' \in [Calls -> {"idle"} \cup Pending \cup Over]
      /\ \A d \in Calls : cstat[d] \in Pending => cstat'[d] \in Pending
  BY DEF TakeChunk, IInv, TypeOK, Pending
<1> QED
  BY <1>3, <1>4 DEF TakeChunk, IInv, TypeOK, WireTrue, QueueHasCaller, MarksExpire, serverVars

LEMMA TakeReplyInv == ASSUME IInv, NEW c \in Calls, TakeReply(c) PROVE IInv'
<1>1. buf[c] \in Seq(Reply) /\ buf[c] # <<>> /\ got[c] \in Seq(Reply)
  BY DEF TakeReply, IInv, TypeOK
<1>2. Head(buf[c]) \in Reply
  BY <1>1
<1>3. got' \in [Calls -> Seq(Reply)]
  BY <1>1, <1>2 DEF TakeReply, IInv, TypeOK
<1> QED
  BY <1>3, EndsInv DEF TakeReply, Over, serverVars

\* Every step keeps the invariant.
LEMMA StepInv == IInv /\ [Next]_vars => IInv'
<1> SUFFICES ASSUME IInv, [Next]_vars PROVE IInv'
  OBVIOUS
<1> USE DEF serverVars
<1>1. CASE Connect
  <2>1. wire' = <<>> /\ wire' \in Seq(Frame)
    BY <1>1, EmptySeq DEF Connect
  <2>2. WireTrue'
    BY <2>1 DEF WireTrue
  <2>3. connects' \in 0 .. MaxConnects
    BY <1>1, BoundsAssumption DEF Connect, IInv, TypeOK
  <2> QED
    BY <1>1, <2>1, <2>2, <2>3 DEF Connect, IInv, TypeOK, QueueHasCaller, MarksExpire, clientVars
<1>2. CASE Lose
  <2>1. srv' \in [Calls -> {"none", "working", "finished", "gone"}]
    BY <1>2 DEF Lose, ServerForgets, IInv, TypeOK
  <2>2. PICK n \in 0 .. Len(wire) : wire' = SubSeq(wire, 1, n)
    BY <1>2 DEF Lose
  <2>3. wire \in Seq(Frame)
    BY DEF IInv, TypeOK
  <2>4. /\ wire' \in Seq(Frame)
        /\ \A i \in DOMAIN wire' : i \in DOMAIN wire /\ wire'[i] = wire[i]
    BY <2>2, <2>3
  <2> QED
    BY <1>2, <2>1, <2>4 DEF Lose, IInv, TypeOK, WireTrue, QueueHasCaller, MarksExpire, clientVars
<1>3. CASE StopReceiver
  BY <1>3 DEF StopReceiver, IInv, TypeOK, WireTrue, QueueHasCaller, MarksExpire, clientVars
<1>4. CASE ForgetQueues
  BY <1>4 DEF ForgetQueues, IInv, TypeOK, WireTrue, QueueHasCaller, MarksExpire
<1>5. CASE Close
  <2>1. wire' = <<>> /\ wire' \in Seq(Frame)
    BY <1>5, EmptySeq DEF Close
  <2>2. srv' \in [Calls -> {"none", "working", "finished", "gone"}]
    BY <1>5 DEF Close, ServerForgets, IInv, TypeOK
  <2>3. WireTrue'
    BY <2>1 DEF WireTrue
  <2> QED
    BY <1>5, <2>1, <2>2, <2>3 DEF Close, IInv, TypeOK, QueueHasCaller, MarksExpire, clientVars
<1>6. CASE Receive
  BY <1>6, ReceiveInv
<1>7. ASSUME NEW c \in Calls, Register(c) PROVE IInv'
  <2>1. RidOf[c] \in Rids /\ cstat[c] = "idle"
    BY <1>7, RidOfAssumption DEF Register
  <2>2. \A r \in Rids : owner[r] # c
    BY <2>1, NilAssumption DEF IInv, QueueHasCaller, Pending
  <2>3. /\ cstat' \in [Calls -> {"idle"} \cup Pending \cup Over]
        /\ owner' \in [Rids -> Calls \cup {Nil}]
    <3>1. CASE owner' = owner /\ cstat' = [cstat EXCEPT ![c] = "refused"]
      BY <3>1 DEF IInv, TypeOK, Over
    <3>2. CASE /\ owner' = [owner EXCEPT ![RidOf[c]] = c]
               /\ cstat' = [cstat EXCEPT ![c] = "registered"]
      BY <2>1, <3>2 DEF IInv, TypeOK, Pending
    <3> QED
      BY <1>7, <3>1, <3>2 DEF Register
  <2>4. QueueHasCaller'
    <3>1. CASE owner' = owner /\ cstat' = [cstat EXCEPT ![c] = "refused"]
      BY <2>2, <3>1 DEF IInv, TypeOK, QueueHasCaller
    <3>2. CASE /\ owner' = [owner EXCEPT ![RidOf[c]] = c]
               /\ cstat' = [cstat EXCEPT ![c] = "registered"]
      BY <2>1, <3>2 DEF IInv, TypeOK, QueueHasCaller, Pending
    <3> QED
      BY <1>7, <3>1, <3>2 DEF Register
  <2> QED
    BY <1>7, <2>3, <2>4 DEF Register, IInv, TypeOK, WireTrue, MarksExpire
<1>8. ASSUME NEW c \in Calls, Transmit(c) PROVE IInv'
  BY <1>8, TransmitInv
<1>9. ASSUME NEW c \in Calls, TakeReply(c) PROVE IInv'
  BY <1>9, TakeReplyInv
<1>10. ASSUME NEW c \in Calls, TakeChunk(c) PROVE IInv'
  BY <1>10, TakeChunkInv
<1>11. ASSUME NEW c \in Calls, TrailingGrace(c) PROVE IInv'
  BY <1>11, EndsInv DEF TrailingGrace, Over, IInv, TypeOK
<1>12. ASSUME NEW c \in Calls, UnaryTimeout(c) PROVE IInv'
  BY <1>12, EndsInv DEF UnaryTimeout, Over, IInv, TypeOK
<1>13. ASSUME NEW c \in Calls, CancelCall(c) PROVE IInv'
  BY <1>13, EndsInv DEF CancelCall, Over, IInv, TypeOK
<1>14. ASSUME NEW c \in Calls, ServerChunk(c) PROVE IInv'
  BY <1>14, EmitInv DEF ServerChunk, IInv, TypeOK
<1>15. ASSUME NEW c \in Calls, ServerFinal(c) PROVE IInv'
  BY <1>15, EmitInv DEF ServerFinal, IInv, TypeOK
<1>16. ASSUME NEW rid \in Rids, Cleanup(rid) PROVE IInv'
  BY <1>16 DEF Cleanup, IInv, TypeOK, WireTrue, QueueHasCaller, MarksExpire
<1>17. ASSUME NEW rid \in Rids, ServerPush(rid) PROVE IInv'
  <2> DEFINE f == [rid |-> rid, call |-> Nil, seq |-> 0, final |-> FALSE, push |-> TRUE]
  <2>1. f \in Frame /\ f.push /\ wire \in Seq(Frame) /\ wire' = Append(wire, f)
    BY <1>17 DEF ServerPush, Frame, IInv, TypeOK
  <2>2. /\ wire' \in Seq(Frame)
        /\ \A i \in DOMAIN wire' : wire'[i] = f \/ (i \in DOMAIN wire /\ wire'[i] = wire[i])
    BY <2>1
  <2>3. WireTrue'
    BY <2>1, <2>2 DEF IInv, WireTrue
  <2>4. pushes' \in 0 .. MaxPushes
    BY <1>17, BoundsAssumption DEF ServerPush, IInv, TypeOK
  <2> QED
    BY <1>17, <2>2, <2>3, <2>4 DEF ServerPush, IInv, TypeOK, QueueHasCaller, MarksExpire, clientVars
<1>18. CASE UNCHANGED vars
  BY <1>18 DEF vars, IInv, TypeOK, WireTrue, QueueHasCaller, MarksExpire
<1> QED
  BY <1>1, <1>2, <1>3, <1>4, <1>5, <1>6, <1>7, <1>8, <1>9, <1>10, <1>11, <1>12, <1>13, <1>14,
     <1>15, <1>16, <1>17, <1>18 DEF Next

\* The inductive invariant of the client.
THEOREM Invariance == Spec => []IInv
BY InitInv, StepInv, PTL DEF Spec

\* The client's variables keep their types; a server_push is never put into the
\* queue of a request.
THEOREM TypeCorrect == Spec => []TypeOK
BY Invariance, PTL DEF IInv

\* A registered queue belongs to a call that waits on it: whatever request ids
\* the gateway uses, queues do not leak.
THEOREM QueuesOwned == Spec => []QueueHasCaller
BY Invariance, PTL DEF IInv

\* Every mark in _cancelled_request_ids will be removed.
THEOREM MarksTimed == Spec => []MarksExpire
BY Invariance, PTL DEF IInv

-----------------------------------------------------------------------------
(* Frames reach the call they answer.                                      *)

LEMMA DrainRouted ==
    ASSUME TypeOK, Routed, NEW rid \in Rids, Drain(rid)
    PROVE  Routed'
<1>1. \A c \in Calls : buf'[c] = buf[c] \/ buf'[c] = <<>>
  <2>1. CASE owner[rid] = Nil
    BY <2>1 DEF Drain
  <2>2. CASE owner[rid] # Nil
    BY <2>2 DEF Drain, TypeOK
  <2> QED
    BY <2>1, <2>2
<1> SUFFICES ASSUME NEW c \in Calls, NEW i \in DOMAIN buf'[c] PROVE buf'[c][i].call = c
  BY DEF Routed
<1>2. CASE buf'[c] = buf[c]
  BY <1>2 DEF Routed
<1>3. CASE buf'[c] = <<>>
  BY <1>3
<1> QED
  BY <1>1, <1>2, <1>3

\* The receiver puts a frame into the queue of the call it answers.
LEMMA ReceiveRouted ==
    ASSUME UniqueIds, IInv, Routed, Receive
    PROVE  Routed'
<1> DEFINE f == Head(wire)
           q == RouteTo(f)
<1>1. f \in Frame /\ f = wire[1] /\ 1 \in DOMAIN wire
  BY DEF Receive, IInv, TypeOK
<1>2. CASE q = Nil
  BY <1>2 DEF Receive, Routed
<1>3. CASE q # Nil
  <2>1. /\ ~f.push /\ f \in Reply /\ f.rid = RidOf[f.call] /\ q = owner[f.rid] /\ q \in Calls
    BY <1>1, <1>3 DEF RouteTo, Frame, IInv, TypeOK, WireTrue
  <2>2. f.rid \in Rids /\ f.call \in Calls
    BY <2>1 DEF Reply
  <2>3. RidOf[q] = f.rid
    BY <1>3, <2>1, <2>2 DEF IInv, QueueHasCaller
  <2>4. f.call = q
    BY <2>1, <2>2, <2>3 DEF UniqueIds
  <2>5. buf' = [buf EXCEPT ![q] = Append(@, f)]
    BY <1>3 DEF Receive
  <2> SUFFICES ASSUME NEW c \in Calls, NEW i \in DOMAIN buf'[c] PROVE buf'[c][i].call = c
    BY DEF Routed
  <2>6. CASE c # q
    BY <2>5, <2>6 DEF Routed, IInv, TypeOK
  <2>7. CASE c = q
    <3>1. buf[q] \in Seq(Reply) /\ buf'[q] = Append(buf[q], f)
      BY <2>1, <2>5 DEF IInv, TypeOK
    <3>2. buf'[q][i] = f \/ (i \in DOMAIN buf[q] /\ buf'[q][i] = buf[q][i])
      BY <2>7, <3>1
    <3> QED
      BY <2>1, <2>4, <2>7, <3>2 DEF Routed
  <2> QED
    BY <2>6, <2>7
<1> QED
  BY <1>2, <1>3

\* A caller that takes the first frame of its queue takes an answer to its call.
LEMMA TakenRight ==
    ASSUME IInv, Routed, RightAnswers, NEW c \in Calls, buf[c] # <<>>,
           got' = [got EXCEPT ![c] = Append(@, Head(buf[c]))]
    PROVE  RightAnswers'
<1>1. buf[c] \in Seq(Reply) /\ got \in [Calls -> Seq(Reply)]
  BY DEF IInv, TypeOK
<1>2. Head(buf[c]).call = c
  BY <1>1 DEF Routed
<1> SUFFICES ASSUME NEW d \in Calls, NEW i \in DOMAIN got'[d] PROVE got'[d][i].call = d
  BY DEF RightAnswers
<1>3. CASE d # c
  BY <1>1, <1>3 DEF RightAnswers
<1>4. CASE d = c
  <2>1. got'[c] = Append(got[c], Head(buf[c])) /\ got[c] \in Seq(Reply)
    BY <1>1
  <2>2. got'[c][i] = Head(buf[c]) \/ (i \in DOMAIN got[c] /\ got'[c][i] = got[c][i])
    BY <1>4, <2>1
  <2> QED
    BY <1>2, <1>4, <2>2 DEF RightAnswers
<1> QED
  BY <1>3, <1>4

RInv == IInv /\ Routed /\ RightAnswers

LEMMA StepRouted ==
    ASSUME UniqueIds, RInv, [Next]_vars
    PROVE  RInv'
<1>1. IInv'
  BY StepInv DEF RInv
<1>2. CASE UNCHANGED <<buf, got>>
  BY <1>1, <1>2 DEF RInv, Routed, RightAnswers
<1>3. CASE Receive
  <2>1. got' = got
    BY <1>3 DEF Receive
  <2> QED
    BY <1>1, <1>3, <2>1, ReceiveRouted DEF RInv, RightAnswers
<1>4. ASSUME NEW c \in Calls, Drain(RidOf[c]), got' = got PROVE RInv'
  BY <1>1, <1>4, DrainRouted, RidOfAssumption DEF RInv, IInv, RightAnswers
<1>5. ASSUME NEW c \in Calls, TakeReply(c) PROVE RInv'
  <2>1. Drain(RidOf[c]) /\ RidOf[c] \in Rids
    BY <1>5, RidOfAssumption DEF TakeReply, Ends
  <2>2. Routed'
    BY <2>1, DrainRouted DEF RInv, IInv
  <2>3. RightAnswers'
    BY <1>5, TakenRight DEF TakeReply, RInv
  <2> QED
    BY <1>1, <2>2, <2>3 DEF RInv
<1>6. ASSUME NEW c \in Calls, TakeChunk(c) PROVE RInv'
  <2>1. buf \in [Calls -> Seq(Reply)] /\ buf[c] # <<>> /\ buf' = [buf EXCEPT ![c] = Tail(@)]
    BY <1>6 DEF TakeChunk, RInv, IInv, TypeOK
  <2>2. \A i \in DOMAIN Tail(buf[c]) : i + 1 \in DOMAIN buf[c] /\ Tail(buf[c])[i] = buf[c][i + 1]
    BY <2>1
  <2>3. Routed'
    BY <2>1, <2>2 DEF RInv, Routed
  <2>4. RightAnswers'
    BY <1>6, TakenRight DEF TakeChunk, RInv
  <2> QED
    BY <1>1, <2>3, <2>4 DEF RInv
<1>7. ASSUME NEW c \in Calls, Transmit(c) PROVE RInv'
  BY <1>2, <1>4, <1>7 DEF Transmit, Ends
<1>8. ASSUME NEW c \in Calls, TrailingGrace(c) \/ UnaryTimeout(c) \/ CancelCall(c) PROVE RInv'
  BY <1>4, <1>8 DEF TrailingGrace, UnaryTimeout, CancelCall, Ends
<1>9. CASE Connect \/ Lose \/ StopReceiver \/ ForgetQueues \/ Close
  BY <1>2, <1>9 DEF Connect, Lose, StopReceiver, ForgetQueues, Close, clientVars
<1>10. ASSUME NEW c \in Calls, Register(c) \/ ServerChunk(c) \/ ServerFinal(c) PROVE RInv'
  BY <1>2, <1>10 DEF Register, ServerChunk, ServerFinal, clientVars
<1>11. ASSUME NEW rid \in Rids, Cleanup(rid) \/ ServerPush(rid) PROVE RInv'
  BY <1>2, <1>11 DEF Cleanup, ServerPush, clientVars
<1>12. CASE UNCHANGED vars
  BY <1>2, <1>12 DEF vars
<1> QED
  BY <1>3, <1>5, <1>6, <1>7, <1>8, <1>9, <1>10, <1>11, <1>12 DEF Next

\* Where request ids identify a call, a caller receives answers to its own call
\* only: no late frame of another call and no server_push.
THEOREM AnswersRight ==
    ASSUME UniqueIds
    PROVE  Spec => []RightAnswers
<1>1. Init => RInv
  BY InitInv DEF Init, RInv, Routed, RightAnswers
<1>2. RInv /\ [Next]_vars => RInv'
  BY StepRouted
<1> QED
  BY <1>1, <1>2, PTL DEF Spec, RInv

-----------------------------------------------------------------------------
(* A call keeps its queue.                                                 *)

\* Where request ids identify a call, only the end of the call itself or
\* disconnect() takes its queue away.
THEOREM QueueKept ==
    ASSUME UniqueIds
    PROVE  Spec => QueueKeptWhileWaiting
<1> DEFINE Kept == \A c \in Calls : owner[RidOf[c]] = c /\ owner'[RidOf[c]] # c =>
                      cstat'[c] \in Over \/ conn = "stopping"
<1>1. IInv /\ [Next]_vars => [Kept]_vars
  <2> SUFFICES ASSUME IInv, Next, NEW c \in Calls,
                      owner[RidOf[c]] = c, owner'[RidOf[c]] # c
               PROVE  cstat'[c] \in Over \/ conn = "stopping"
    OBVIOUS
  <2>1. RidOf[c] \in Rids /\ owner[RidOf[c]] # Nil /\ owner' # owner
    BY RidOfAssumption, NilAssumption
  <2>2. ASSUME NEW d \in Calls, NEW how \in Over, Ends(d, how) PROVE cstat'[c] \in Over
    <3>1. RidOf[d] \in Rids
      BY RidOfAssumption
    <3>2. owner'[RidOf[c]] = IF RidOf[c] = RidOf[d] THEN Nil ELSE owner[RidOf[c]]
      BY <2>1, <2>2, <3>1, DrainOwner DEF Ends, IInv
    <3>3. d = c
      BY <3>2 DEF UniqueIds
    <3> QED
      BY <2>2, <3>3 DEF Ends, IInv, TypeOK
  <2>3. ASSUME NEW d \in Calls, Register(d) PROVE FALSE
    <3>1. owner[RidOf[d]] = Nil /\ owner' = [owner EXCEPT ![RidOf[d]] = d]
      BY <2>1, <2>3 DEF Register
    <3>2. RidOf[d] # RidOf[c]
      BY <2>1, <3>1
    <3> QED
      BY <2>1, <3>1, <3>2 DEF IInv, TypeOK
  <2>4. ASSUME NEW d \in Calls,
               Transmit(d) \/ TakeReply(d) \/ TrailingGrace(d) \/ UnaryTimeout(d) \/ CancelCall(d)
        PROVE  cstat'[c] \in Over
    BY <2>1, <2>2, <2>4 DEF Transmit, TakeReply, TrailingGrace, UnaryTimeout, CancelCall, Over
  <2>5. ASSUME NEW d \in Calls, TakeChunk(d) \/ ServerChunk(d) \/ ServerFinal(d) PROVE FALSE
    BY <2>1, <2>5 DEF TakeChunk, ServerChunk, ServerFinal, clientVars
  <2>6. ASSUME NEW rid \in Rids, Cleanup(rid) \/ ServerPush(rid) PROVE FALSE
    BY <2>1, <2>6 DEF Cleanup, ServerPush, clientVars
  <2>7. CASE ForgetQueues
    BY <2>7 DEF ForgetQueues
  <2>8. CASE Connect \/ Lose \/ StopReceiver \/ Close \/ Receive
    BY <2>1, <2>8 DEF Connect, Lose, StopReceiver, Close, Receive, clientVars
  <2> QED
    BY <2>3, <2>4, <2>5, <2>6, <2>7, <2>8 DEF Next
<1>2. Spec => []IInv
  BY Invariance
<1> QED
  BY <1>1, <1>2, PTL DEF Spec, QueueKeptWhileWaiting

-----------------------------------------------------------------------------
(* Nothing is lost between the server and the queue.                       *)

\* The server works for calls that were transmitted.
Started ==
    \A c \in Calls :
        /\ sent[c] > 0 => srv[c] # "none"
        /\ srv[c] # "none" => cstat[c] \notin {"idle", "registered"}

\* What was transmitted on a connection has lost its queue when disconnect()
\* closes that connection.
Unlinked ==
    /\ conn = "none" => ~up
    /\ \A c \in Calls : owner[RidOf[c]] = c /\ conn \in {"closing", "none"}
                           => cstat[c] = "registered"

\* A request id is marked when its call has ended: no frame of a call that has
\* its queue is dropped.
MarkedOver == \A c \in Calls : RidOf[c] \in marked => cstat[c] \in Over

\* A server_push answers no call, and what answers a call was sent for it.
WireSent ==
    \A i \in DOMAIN wire : wire[i].call # Nil => ~wire[i].push /\ sent[wire[i].call] > 0

\* How many frames reached the queue of a call.
Count(c) == Len(got[c]) + Len(buf[c])

\* What a call took, and while it goes on what is queued behind that, is an
\* initial part of what was sent.
InOrder(c) ==
    /\ Len(got[c]) <= sent[c]
    /\ \A i \in DOMAIN got[c] : got[c][i].seq = i
    /\ cstat[c] \notin Over =>
          /\ Count(c) <= sent[c]
          /\ \A i \in DOMAIN buf[c] : buf[c][i].seq = Len(got[c]) + i

Consecutive == \A c \in Calls : InOrder(c)

\* What is on the wire continues, without gaps, what reached the queue.
OnTheWay(c) ==
    /\ \A i \in Answers(c) : wire[i].seq \in Count(c) + 1 .. sent[c]
    /\ \A i, j \in Answers(c) : i < j => wire[i].seq < wire[j].seq
    /\ \A n \in Count(c) + 1 .. sent[c] :
          up \/ (\E i \in Answers(c) : n < wire[i].seq) => \E i \in Answers(c) : wire[i].seq = n

Continued == \A c \in Calls : owner[RidOf[c]] = c => OnTheWay(c)

FInv == RInv /\ Started /\ Unlinked /\ MarkedOver /\ WireSent /\ Consecutive /\ Continued

\* Of the end of a call: its queue goes, its request id is marked, and other
\* calls are not concerned.
LEMMA EndsAlone ==
    ASSUME UniqueIds, IInv, NEW c \in Calls, NEW how \in Over, Ends(c, how)
    PROVE  /\ cstat'[c] = how /\ \A d \in Calls \ {c} : cstat'[d] = cstat[d]
           /\ owner'[RidOf[c]] = Nil
           /\ \A d \in Calls \ {c} : owner'[RidOf[d]] = owner[RidOf[d]] /\ buf'[d] = buf[d]
           /\ marked' \subseteq marked \cup {RidOf[c]}
<1>1. cstat' = [cstat EXCEPT ![c] = how] /\ Drain(RidOf[c]) /\ RidOf[c] \in Rids
  BY RidOfAssumption DEF Ends
<1>2. \A d \in Calls \ {c} : RidOf[d] \in Rids /\ RidOf[d] # RidOf[c]
  BY RidOfAssumption DEF UniqueIds
<1>3. /\ owner'[RidOf[c]] = Nil
      /\ \A d \in Calls \ {c} : owner'[RidOf[d]] = owner[RidOf[d]]
  BY <1>1, <1>2, DrainOwner DEF IInv
<1>4. owner[RidOf[c]] # Nil => owner[RidOf[c]] = c
  BY <1>1 DEF IInv, QueueHasCaller, TypeOK, UniqueIds
<1>5. \A d \in Calls \ {c} : buf'[d] = buf[d]
  BY <1>1, <1>4 DEF Drain, IInv, TypeOK
<1>6. marked' \subseteq marked \cup {RidOf[c]}
  BY <1>1 DEF Drain
<1>7. cstat'[c] = how /\ \A d \in Calls \ {c} : cstat'[d] = cstat[d]
  BY <1>1 DEF IInv, TypeOK
<1> QED
  BY <1>3, <1>5, <1>6, <1>7

\* Calls, marks and the connection go together at every step.
LEMMA StepOrder ==
    ASSUME UniqueIds, FInv, [Next]_vars
    PROVE  Started' /\ Unlinked' /\ MarkedOver'
<1> USE DEF clientVars, serverVars
<1>0. IInv /\ TypeOK /\ QueueHasCaller /\ Started /\ Unlinked /\ MarkedOver
  BY DEF FInv, RInv, IInv
<1> DEFINE Ended(c) == \E how \in Over : Ends(c, how)
<1>1. ASSUME NEW c \in Calls, Ended(c), UNCHANGED <<conn, up, srv, sent>>
      PROVE  Started' /\ Unlinked' /\ MarkedOver'
  <2>1. PICK how \in Over : Ends(c, how)
    BY <1>1
  <2>2. how \notin {"idle", "registered"} /\ cstat'[c] = how
    BY <1>0, <2>1, EndsAlone DEF Over
  <2>3. Started'
    BY <1>0, <1>1, <2>1, <2>2, EndsAlone DEF Started
  <2>4. Unlinked'
    BY <1>0, <1>1, <2>1, EndsAlone, NilAssumption DEF Unlinked
  <2>5. MarkedOver'
    BY <1>0, <2>1, EndsAlone DEF MarkedOver, UniqueIds
  <2> QED
    BY <2>3, <2>4, <2>5
<1>2. ASSUME UNCHANGED <<marked, cstat>> PROVE MarkedOver'
  BY <1>0, <1>2 DEF MarkedOver
<1>3. ASSUME UNCHANGED <<conn, up, owner, cstat>> PROVE Unlinked'
  BY <1>0, <1>3 DEF Unlinked
<1>4. ASSUME UNCHANGED <<sent, srv, cstat>> PROVE Started'
  BY <1>0, <1>4 DEF Started
<1>5. CASE Connect
  <2>1. Unlinked'
    BY <1>5 DEF Connect, Unlinked
  <2> QED
    BY <1>2, <1>4, <1>5, <2>1 DEF Connect
<1>6. CASE Lose
  <2>1. Started'
    BY <1>0, <1>6 DEF Lose, ServerForgets, Started, TypeOK
  <2>2. Unlinked'
    BY <1>0, <1>6 DEF Lose, Unlinked
  <2> QED
    BY <1>2, <1>6, <2>1, <2>2 DEF Lose
<1>7. CASE StopReceiver
  <2>1. Unlinked'
    BY <1>7 DEF StopReceiver, Unlinked
  <2> QED
    BY <1>2, <1>4, <1>7, <2>1 DEF StopReceiver
<1>8. CASE ForgetQueues
  <2>1. Unlinked'
    BY <1>8, RidOfAssumption, NilAssumption DEF ForgetQueues, Unlinked
  <2> QED
    BY <1>2, <1>4, <1>8, <2>1 DEF ForgetQueues
<1>9. CASE Close
  <2>1. Started'
    BY <1>0, <1>9 DEF Close, ServerForgets, Started, TypeOK
  <2>2. Unlinked'
    BY <1>0, <1>9 DEF Close, Unlinked
  <2> QED
    BY <1>2, <1>9, <2>1, <2>2 DEF Close
<1>10. CASE Receive
  BY <1>2, <1>3, <1>4, <1>10 DEF Receive
<1>11. ASSUME NEW c \in Calls, Register(c) PROVE Started' /\ Unlinked' /\ MarkedOver'
  <2>1. /\ cstat[c] = "idle" /\ cstat'[c] \in {"refused", "registered"}
        /\ \A d \in Calls \ {c} : cstat'[d] = cstat[d]
        /\ UNCHANGED <<conn, up, srv, sent, marked>>
    BY <1>0, <1>11 DEF Register, TypeOK
  <2>2. Started'
    BY <1>0, <2>1 DEF Started
  <2>3. MarkedOver'
    BY <1>0, <2>1 DEF MarkedOver, Over
  <2>4. \A d \in Calls : owner'[RidOf[d]] = d => owner[RidOf[d]] = d \/ (d = c /\ cstat'[c] = "registered")
    <3>1. CASE cstat' = [cstat EXCEPT ![c] = "refused"] /\ owner' = owner
      BY <3>1
    <3>2. CASE cstat' = [cstat EXCEPT ![c] = "registered"] /\ owner' = [owner EXCEPT ![RidOf[c]] = c]
      BY <1>0, <3>2, RidOfAssumption DEF UniqueIds, TypeOK
    <3> QED
      BY <1>11, <3>1, <3>2 DEF Register
  <2>5. Unlinked'
    <3>1. owner[RidOf[c]] # c
      BY <1>0, <2>1, RidOfAssumption, NilAssumption DEF QueueHasCaller, Pending
    <3> QED
      BY <1>0, <2>1, <2>4, <3>1 DEF Unlinked
  <2> QED
    BY <2>2, <2>3, <2>5
<1>12. ASSUME NEW c \in Calls, Transmit(c) PROVE Started' /\ Unlinked' /\ MarkedOver'
  <2>1. CASE /\ Linked /\ cstat' = [cstat EXCEPT ![c] = "waiting"]
             /\ srv' = [srv EXCEPT ![c] = "working"] /\ UNCHANGED <<owner, buf, marked, timers>>
    <3>1. cstat[c] = "registered" /\ UNCHANGED <<conn, up, sent>>
      BY <1>12 DEF Transmit
    <3>2. conn \notin {"closing", "none"}
      BY <1>0, <2>1 DEF Linked, Unlinked
    <3>3. /\ cstat'[c] = "waiting" /\ \A d \in Calls \ {c} : cstat'[d] = cstat[d] /\ srv'[d] = srv[d]
          /\ srv'[c] = "working"
      BY <1>0, <2>1 DEF TypeOK
    <3>4. Started'
      BY <1>0, <3>1, <3>3 DEF Started
    <3>5. MarkedOver'
      BY <1>0, <2>1, <3>1, <3>3 DEF MarkedOver, Over
    <3>6. Unlinked'
      BY <1>0, <3>1, <3>2 DEF Unlinked
    <3> QED
      BY <3>4, <3>5, <3>6
  <2>2. CASE ~Linked /\ Ends(c, "failed") /\ UNCHANGED srv
    <3>1. UNCHANGED <<conn, up, srv, sent>> /\ Ended(c)
      BY <1>12, <2>2 DEF Transmit, Over
    <3> QED
      BY <1>1, <3>1
  <2> QED
    BY <1>12, <2>1, <2>2 DEF Transmit
<1>13. ASSUME NEW c \in Calls,
              TakeReply(c) \/ TrailingGrace(c) \/ UnaryTimeout(c) \/ CancelCall(c)
       PROVE  Started' /\ Unlinked' /\ MarkedOver'
  <2>1. UNCHANGED <<conn, up, srv, sent>> /\ Ended(c)
    BY <1>13 DEF TakeReply, TrailingGrace, UnaryTimeout, CancelCall, Over
  <2> QED
    BY <1>1, <2>1
<1>14. ASSUME NEW c \in Calls, TakeChunk(c) PROVE Started' /\ Unlinked' /\ MarkedOver'
  <2>1. /\ cstat[c] \in {"waiting", "trailing"} /\ cstat'[c] \in {"waiting", "trailing"}
        /\ \A d \in Calls \ {c} : cstat'[d] = cstat[d]
        /\ UNCHANGED <<conn, up, srv, sent, marked, owner>>
    BY <1>0, <1>14 DEF TakeChunk, TypeOK
  <2>2. Started'
    BY <1>0, <2>1 DEF Started
  <2>3. MarkedOver'
    BY <1>0, <2>1 DEF MarkedOver, Over
  <2>4. Unlinked'
    BY <1>0, <2>1 DEF Unlinked
  <2> QED
    BY <2>2, <2>3, <2>4
<1>15. ASSUME NEW c \in Calls, ServerChunk(c) \/ ServerFinal(c)
       PROVE  Started' /\ Unlinked' /\ MarkedOver'
  <2>1. /\ srv[c] # "none" /\ \A d \in Calls : srv'[d] # "none" <=> srv[d] # "none"
        /\ \A d \in Calls \ {c} : sent'[d] = sent[d]
        /\ UNCHANGED <<conn, up, cstat, owner, marked>>
    BY <1>0, <1>15 DEF ServerChunk, ServerFinal, Emit, TypeOK
  <2>2. Started'
    BY <1>0, <2>1 DEF Started
  <2> QED
    BY <1>2, <1>3, <2>1, <2>2
<1>16. ASSUME NEW rid \in Rids, Cleanup(rid) PROVE Started' /\ Unlinked' /\ MarkedOver'
  <2>1. MarkedOver'
    BY <1>0, <1>16 DEF Cleanup, MarkedOver
  <2> QED
    BY <1>3, <1>4, <1>16, <2>1 DEF Cleanup
<1>17. ASSUME NEW rid \in Rids, ServerPush(rid) PROVE Started' /\ Unlinked' /\ MarkedOver'
  BY <1>2, <1>3, <1>4, <1>17 DEF ServerPush
<1>18. CASE UNCHANGED vars
  BY <1>2, <1>3, <1>4, <1>18 DEF vars
<1> QED
  BY <1>5, <1>6, <1>7, <1>8, <1>9, <1>10, <1>11, <1>12, <1>13, <1>14, <1>15, <1>16, <1>17,
     <1>18 DEF Next

\* A frame stays on the wire, arrives at the head of it, or goes to its end.
LEMMA WireSteps ==
    ASSUME TypeOK
    PROVE  /\ \A n \in 0 .. Len(wire) : \A i \in DOMAIN SubSeq(wire, 1, n) :
                 i \in DOMAIN wire /\ SubSeq(wire, 1, n)[i] = wire[i]
           /\ wire # <<>> => \A i \in DOMAIN Tail(wire) :
                 i + 1 \in DOMAIN wire /\ Tail(wire)[i] = wire[i + 1]
           /\ \A f \in Frame : \A i \in DOMAIN Append(wire, f) :
                 IF i = Len(wire) + 1 THEN Append(wire, f)[i] = f
                 ELSE i \in DOMAIN wire /\ Append(wire, f)[i] = wire[i]
BY DEF TypeOK

LEMMA EmittedFrame ==
    ASSUME TypeOK, NEW c \in Calls, NEW final \in BOOLEAN, Emit(c, final)
    PROVE  \E f \in Frame : /\ f.call = c /\ ~f.push /\ f.seq = sent[c] + 1
                            /\ wire' = Append(wire, f)
<1> DEFINE f == [rid |-> RidOf[c], call |-> c, seq |-> sent[c] + 1,
                 final |-> final, push |-> FALSE]
<1>1. f \in Frame
  BY RidOfAssumption DEF Frame, TypeOK
<1> QED
  BY <1>1 DEF Emit

LEMMA StepWireSent ==
    ASSUME TypeOK, WireSent, [Next]_vars
    PROVE  WireSent'
<1> USE DEF clientVars, serverVars
<1>1. CASE (wire' = wire \/ wire' = <<>>) /\ sent' = sent
  BY <1>1 DEF WireSent
<1>2. CASE Lose
  BY <1>2, WireSteps DEF Lose, WireSent
<1>3. CASE Receive
  BY <1>3, WireSteps DEF Receive, WireSent
<1>4. ASSUME NEW c \in Calls, ServerChunk(c) \/ ServerFinal(c) PROVE WireSent'
  <2>1. PICK f \in Frame : f.call = c /\ ~f.push /\ wire' = Append(wire, f)
    BY <1>4, EmittedFrame DEF ServerChunk, ServerFinal
  <2>2. sent'[c] = sent[c] + 1 /\ sent[c] \in Nat /\ \A d \in Calls \ {c} : sent'[d] = sent[d]
    BY <1>4 DEF ServerChunk, ServerFinal, Emit, TypeOK
  <2>3. \A i \in DOMAIN wire : wire[i] \in Frame /\ wire[i].call \in Calls \cup {Nil}
    <3>1. \A i \in DOMAIN wire : wire[i] \in Frame
      BY DEF TypeOK
    <3> QED
      BY <3>1 DEF Frame
  <2> SUFFICES ASSUME NEW i \in DOMAIN wire', wire'[i].call # Nil
               PROVE  ~wire'[i].push /\ sent'[wire'[i].call] > 0
    BY DEF WireSent
  <2>4. CASE wire'[i] = f
    BY <2>1, <2>2, <2>4
  <2>5. CASE i \in DOMAIN wire /\ wire'[i] = wire[i]
    <3>1. wire[i].call \in Calls /\ ~wire[i].push /\ sent[wire[i].call] > 0
      BY <2>3, <2>5 DEF WireSent
    <3> QED
      BY <2>2, <2>5, <3>1
  <2> QED
    BY <2>1, <2>4, <2>5, WireSteps
<1>5. ASSUME NEW rid \in Rids, ServerPush(rid) PROVE WireSent'
  <2> DEFINE f == [rid |-> rid, call |-> Nil, seq |-> 0, final |-> FALSE, push |-> TRUE]
  <2>1. f \in Frame /\ f.call = Nil /\ wire' = Append(wire, f) /\ sent' = sent
    BY <1>5 DEF ServerPush, Frame
  <2> HIDE DEF f
  <2> QED
    BY <2>1, WireSteps DEF WireSent
<1> QED
  BY <1>1, <1>2, <1>3, <1>4, <1>5 DEF Next, Connect, StopReceiver, ForgetQueues, Close, Register,
     Transmit, TakeReply, TakeChunk, TrailingGrace, UnaryTimeout, CancelCall, Cleanup, vars

\* The receiver appends a frame to the queue of the call it answers, if that
\* call has its queue, and to no other.
LEMMA ReceiveRoute ==
    ASSUME UniqueIds, FInv, Receive, NEW c \in Calls
    PROVE  /\ owner[RidOf[c]] = c /\ wire[1].call = c => buf'[c] = Append(buf[c], wire[1])
           /\ owner[RidOf[c]] # c \/ wire[1].call # c => buf'[c] = buf[c]
<1> DEFINE f == Head(wire)
           q == RouteTo(f)
<1>1. f \in Frame /\ f = wire[1] /\ 1 \in DOMAIN wire
  BY DEF Receive, FInv, RInv, IInv, TypeOK
<1>2. f.push => f.call = Nil
  BY <1>1 DEF FInv, WireSent
<1>3. ~f.push => f.call \in Calls /\ f.rid = RidOf[f.call] /\ f.rid \in Rids
  BY <1>1 DEF FInv, RInv, IInv, WireTrue, Reply, Frame
<1>4. ASSUME owner[RidOf[c]] = c, f.call = c PROVE buf'[c] = Append(buf[c], f)
  <2>1. ~f.push /\ f.rid = RidOf[c]
    BY <1>2, <1>3, <1>4, NilAssumption
  <2>2. RidOf[c] \notin marked
    BY <1>4, RidOfAssumption, NilAssumption
       DEF FInv, RInv, IInv, QueueHasCaller, MarkedOver, Pending, Over
  <2>3. q = c
    BY <1>4, <2>1, <2>2 DEF RouteTo
  <2> QED
    BY <2>3, NilAssumption DEF Receive, FInv, RInv, IInv, TypeOK
<1>5. ASSUME q = c PROVE owner[RidOf[c]] = c /\ f.call = c
  <2>1. ~f.push /\ q = owner[f.rid]
    BY <1>5, NilAssumption DEF RouteTo
  <2>2. RidOf[c] = f.rid
    BY <1>3, <1>5, <2>1, NilAssumption DEF FInv, RInv, IInv, QueueHasCaller
  <2> QED
    BY <1>3, <1>5, <2>1, <2>2 DEF UniqueIds
<1>6. q # c => buf'[c] = buf[c]
  BY DEF Receive, FInv, RInv, IInv, TypeOK
<1> QED
  BY <1>1, <1>4, <1>5, <1>6

\* Sequences are what their lengths say.
LEMMA Lengths ==
    ASSUME TypeOK
    PROVE  /\ Len(wire) \in Nat /\ DOMAIN wire = 1 .. Len(wire)
           /\ \A c \in Calls :
                 /\ buf[c] \in Seq(Reply) /\ Len(buf[c]) \in Nat /\ DOMAIN buf[c] = 1 .. Len(buf[c])
                 /\ got[c] \in Seq(Reply) /\ Len(got[c]) \in Nat /\ DOMAIN got[c] = 1 .. Len(got[c])
                 /\ sent[c] \in Nat /\ Count(c) \in Nat
           /\ \A c \in Calls : \A i \in Answers(c) : wire[i].seq \in Nat
<1>1. wire \in Seq(Frame) /\ sent \in [Calls -> Nat]
  BY DEF TypeOK
<1>2. \A i \in DOMAIN wire : wire[i] \in Frame
  BY <1>1
<1>3. \A i \in DOMAIN wire : wire[i].seq \in Nat
  BY <1>2 DEF Frame
<1> QED
  BY <1>1, <1>3 DEF TypeOK, Count, Answers

\* Nothing about a call changes that its frames are counted by.
LEMMA CallUntouched ==
    ASSUME FInv, NEW c \in Calls, sent'[c] = sent[c], got'[c] = got[c],
           cstat'[c] \notin Over => cstat[c] \notin Over /\ buf'[c] = buf[c]
    PROVE  InOrder(c)'
BY DEF FInv, Consecutive, InOrder, Count

\* A numbered sequence that is split into what was taken and what is queued
\* stays numbered when the head of the queue is taken.
LEMMA TakeNumbered ==
    ASSUME NEW g \in Seq(Reply), NEW b \in Seq(Reply), b # <<>>,
           NEW n \in Nat, Len(g) + Len(b) <= n,
           \A i \in DOMAIN g : g[i].seq = i,
           \A i \in DOMAIN b : b[i].seq = Len(g) + i
    PROVE  /\ Len(Append(g, Head(b))) = Len(g) + 1 /\ Len(Append(g, Head(b))) <= n
           /\ Len(Append(g, Head(b))) + Len(Tail(b)) = Len(g) + Len(b)
           /\ \A i \in DOMAIN Append(g, Head(b)) : Append(g, Head(b))[i].seq = i
           /\ \A i \in DOMAIN Tail(b) : Tail(b)[i].seq = Len(Append(g, Head(b))) + i
<1>1. Head(b) = b[1] /\ b[1].seq = Len(g) + 1 /\ Head(b) \in Reply
  OBVIOUS
<1>2. Len(Append(g, Head(b))) = Len(g) + 1 /\ Len(Append(g, Head(b))) <= n
  BY <1>1
<1>3. Len(Append(g, Head(b))) + Len(Tail(b)) = Len(g) + Len(b)
  BY <1>1
<1>4. \A i \in DOMAIN Append(g, Head(b)) : Append(g, Head(b))[i].seq = i
  BY <1>1
<1>5. \A i \in DOMAIN Tail(b) : Tail(b)[i].seq = Len(Append(g, Head(b))) + i
  BY <1>1
<1> QED
  BY <1>2, <1>3, <1>4, <1>5

\* A caller takes what comes next.
LEMMA TakeConsecutive ==
    ASSUME FInv, NEW c \in Calls, cstat[c] \notin Over, buf[c] # <<>>,
           got'[c] = Append(got[c], Head(buf[c])), sent'[c] = sent[c],
           cstat'[c] \notin Over => buf'[c] = Tail(buf[c])
    PROVE  InOrder(c)' /\ (cstat'[c] \notin Over => Count(c)' = Count(c))
<1> DEFINE g == Append(got[c], Head(buf[c]))
           b == Tail(buf[c])
<1>1. /\ buf[c] \in Seq(Reply) /\ got[c] \in Seq(Reply) /\ sent[c] \in Nat
      /\ Len(buf[c]) \in Nat /\ Len(got[c]) \in Nat
  BY Lengths DEF FInv, RInv, IInv
<1>2. /\ Len(got[c]) + Len(buf[c]) <= sent[c]
      /\ \A i \in DOMAIN got[c] : got[c][i].seq = i
      /\ \A i \in DOMAIN buf[c] : buf[c][i].seq = Len(got[c]) + i
  BY DEF FInv, Consecutive, InOrder, Count
<1>3. /\ Len(g) = Len(got[c]) + 1 /\ Len(g) <= sent[c]
      /\ Len(g) + Len(b) = Len(got[c]) + Len(buf[c])
      /\ \A i \in DOMAIN g : g[i].seq = i
      /\ \A i \in DOMAIN b : b[i].seq = Len(g) + i
  BY <1>1, <1>2, TakeNumbered
<1>4. got'[c] = g /\ (cstat'[c] \notin Over => buf'[c] = b) /\ sent'[c] = sent[c]
  OBVIOUS
<1> HIDE DEF g, b
<1>5. cstat'[c] \notin Over => Count(c)' = Count(c) /\ Count(c)' <= sent'[c]
  <2>1. /\ Count(c)' = Len(got'[c]) + Len(buf'[c])
        /\ Count(c) = Len(got[c]) + Len(buf[c])
    BY DEF Count
  <2>2. cstat'[c] \notin Over => Len(got'[c]) + Len(buf'[c]) = Len(got[c]) + Len(buf[c])
    BY <1>3, <1>4, Zenon
  <2> QED
    BY <1>2, <1>4, <2>1, <2>2, Zenon
<1>6. /\ Len(got'[c]) = Len(got[c]) + 1 /\ Len(got'[c]) <= sent'[c]
      /\ \A i \in DOMAIN got'[c] : got'[c][i].seq = i
  BY <1>3, <1>4
<1>7. cstat'[c] \notin Over => \A i \in DOMAIN buf'[c] : buf'[c][i].seq = Len(got'[c]) + i
  BY <1>3, <1>4
<1> QED
  BY <1>5, <1>6, <1>7 DEF InOrder

\* The frame at the head of the wire is the next one of its call.
LEMMA HeadIsNext ==
    ASSUME FInv, wire # <<>>, NEW c \in Calls, owner[RidOf[c]] = c, wire[1].call = c
    PROVE  wire[1].seq = Count(c) + 1 /\ Count(c) + 1 <= sent[c]
<1> USE Lengths DEF FInv, RInv, IInv
<1>1. OnTheWay(c) /\ 1 \in Answers(c)
  BY DEF Continued, Answers
<1>2. wire[1].seq \in Count(c) + 1 .. sent[c]
  BY <1>1 DEF OnTheWay
<1>3. ASSUME Count(c) + 1 < wire[1].seq PROVE FALSE
  <2>1. PICK i \in Answers(c) : wire[i].seq = Count(c) + 1
    BY <1>1, <1>2, <1>3 DEF OnTheWay
  <2>2. i # 1 /\ i \in 1 .. Len(wire)
    BY <1>3, <2>1 DEF Answers
  <2> QED
    BY <1>1, <1>3, <2>1, <2>2 DEF OnTheWay
<1> QED
  BY <1>2, <1>3

\* The next frame of a call enters its queue.
LEMMA ArriveNumbered ==
    ASSUME NEW b \in Seq(Reply), NEW f \in Reply, NEW g \in Nat, NEW n \in Nat,
           \A i \in DOMAIN b : b[i].seq = g + i,
           f.seq = g + Len(b) + 1, g + Len(b) + 1 <= n
    PROVE  /\ g + Len(Append(b, f)) = g + Len(b) + 1
           /\ g + Len(Append(b, f)) <= n
           /\ \A i \in DOMAIN Append(b, f) : Append(b, f)[i].seq = g + i
OBVIOUS

LEMMA ReceiveInOrder ==
    ASSUME UniqueIds, FInv, Receive, NEW c \in Calls
    PROVE  /\ InOrder(c)'
           /\ owner[RidOf[c]] = c =>
                 Count(c)' = IF wire[1].call = c THEN Count(c) + 1 ELSE Count(c)
<1>1. cstat' = cstat /\ got' = got /\ sent' = sent /\ wire # <<>>
  BY DEF Receive, serverVars
<1>2. CASE owner[RidOf[c]] # c \/ wire[1].call # c
  <2>1. buf'[c] = buf[c]
    BY <1>2, ReceiveRoute
  <2>2. InOrder(c)'
    BY <1>1, <2>1, CallUntouched
  <2>3. Count(c)' = Count(c)
    BY <1>1, <2>1 DEF Count
  <2> QED
    BY <1>2, <2>2, <2>3
<1>3. CASE owner[RidOf[c]] = c /\ wire[1].call = c
  <2>1. buf'[c] = Append(buf[c], wire[1])
    BY <1>3, ReceiveRoute
  <2>2. wire[1].seq = Count(c) + 1 /\ Count(c) + 1 <= sent[c]
    BY <1>1, <1>3, HeadIsNext
  <2>3. wire[1] \in Reply
    <3>1. 1 \in DOMAIN wire
      BY <1>1 DEF FInv, RInv, IInv, TypeOK
    <3>2. ~wire[1].push
      BY <1>3, <3>1, NilAssumption DEF FInv, WireSent
    <3> QED
      BY <3>1, <3>2 DEF FInv, RInv, IInv, WireTrue
  <2>4. cstat[c] \notin Over
    BY <1>3, RidOfAssumption, NilAssumption DEF FInv, RInv, IInv, QueueHasCaller, Pending, Over
  <2>5. buf[c] \in Seq(Reply) /\ Len(got[c]) \in Nat /\ sent[c] \in Nat
    BY Lengths DEF FInv, RInv, IInv
  <2>6. \A i \in DOMAIN buf[c] : buf[c][i].seq = Len(got[c]) + i
    BY <2>4 DEF FInv, Consecutive, InOrder
  <2>7. /\ Len(got[c]) + Len(buf'[c]) = Len(got[c]) + Len(buf[c]) + 1
        /\ Len(got[c]) + Len(buf'[c]) <= sent[c]
        /\ \A i \in DOMAIN buf'[c] : buf'[c][i].seq = Len(got[c]) + i
    <3>1. /\ wire[1].seq = Len(got[c]) + Len(buf[c]) + 1
          /\ Len(got[c]) + Len(buf[c]) + 1 <= sent[c]
      BY <2>2 DEF Count
    <3>2. /\ Len(got[c]) + Len(Append(buf[c], wire[1])) = Len(got[c]) + Len(buf[c]) + 1
          /\ Len(got[c]) + Len(Append(buf[c], wire[1])) <= sent[c]
          /\ \A i \in DOMAIN Append(buf[c], wire[1]) :
                Append(buf[c], wire[1])[i].seq = Len(got[c]) + i
      BY <2>3, <2>5, <2>6, <3>1, ArriveNumbered, Zenon
    <3> QED
      BY <2>1, <3>2, Zenon
  <2>8. Count(c)' = Count(c) + 1 /\ Count(c)' <= sent[c]
    BY <1>1, <2>7 DEF Count
  <2>9. InOrder(c)'
    BY <1>1, <2>7, <2>8 DEF FInv, Consecutive, InOrder
  <2> QED
    BY <1>3, <2>8, <2>9
<1> QED
  BY <1>2, <1>3

\* What is on the wire for a call that nothing was sent for, that nothing
\* happened to, or that the step was not about.
LEMMA NothingSent ==
    ASSUME NEW c \in Calls, sent'[c] = 0, Count(c)' \in Nat, Answers(c)' = {}
    PROVE  OnTheWay(c)'
BY DEF OnTheWay

LEMMA SameWay ==
    ASSUME NEW c \in Calls, OnTheWay(c), wire' = wire, up' = up,
           sent'[c] = sent[c], Count(c)' = Count(c)
    PROVE  OnTheWay(c)'
BY DEF OnTheWay, Answers

LEMMA OthersFrame ==
    ASSUME TypeOK, NEW c \in Calls, OnTheWay(c), NEW f \in Frame, f.call # c,
           wire' = Append(wire, f), up' = up, sent'[c] = sent[c], Count(c)' = Count(c)
    PROVE  OnTheWay(c)'
<1>1. /\ \A i \in DOMAIN wire' : IF i = Len(wire) + 1 THEN wire'[i] = f
                                 ELSE i \in DOMAIN wire /\ wire'[i] = wire[i]
      /\ \A i \in DOMAIN wire : i \in DOMAIN wire' /\ wire'[i] = wire[i]
  BY DEF TypeOK
<1>2. Answers(c)' = Answers(c) /\ \A i \in Answers(c) : wire'[i] = wire[i]
  BY <1>1 DEF Answers
<1> QED
  BY <1>2 DEF OnTheWay

\* What the server sends next goes behind what is under way.
LEMMA SendOnTheWay ==
    ASSUME TypeOK, NEW c \in Calls, OnTheWay(c), Count(c) <= sent[c], up, up' = up,
           NEW f \in Frame, f.call = c, f.seq = sent[c] + 1, wire' = Append(wire, f),
           sent'[c] = sent[c] + 1, Count(c)' = Count(c)
    PROVE  OnTheWay(c)'
<1> DEFINE last == Len(wire) + 1
<1>1. /\ sent[c] \in Nat /\ Count(c) \in Nat /\ Len(wire) \in Nat
      /\ \A i \in Answers(c) : i \in 1 .. Len(wire) /\ wire[i].seq \in Nat
  BY Lengths DEF Answers
<1>2. /\ \A i \in DOMAIN wire' : IF i = last THEN wire'[i] = f
                                 ELSE i \in DOMAIN wire /\ wire'[i] = wire[i]
      /\ \A i \in DOMAIN wire : i \in DOMAIN wire' /\ wire'[i] = wire[i]
      /\ last \in DOMAIN wire' /\ wire'[last] = f
  BY DEF TypeOK
<1>3. Answers(c)' = Answers(c) \cup {last} /\ \A i \in Answers(c) : wire'[i] = wire[i]
  BY <1>2 DEF Answers
<1>4. \A i \in Answers(c) : wire[i].seq \in Count(c) + 1 .. sent[c] /\ i < last
  BY <1>1 DEF OnTheWay
<1>5. \A i \in Answers(c)' : wire'[i].seq \in Count(c) + 1 .. sent[c] + 1
  BY <1>1, <1>2, <1>3, <1>4
<1>6. ASSUME NEW i \in Answers(c)', NEW j \in Answers(c)', i < j PROVE wire'[i].seq < wire'[j].seq
  <2>1. CASE j = last
    BY <1>1, <1>2, <1>3, <1>4, <1>6, <2>1
  <2>2. CASE j # last
    <3>1. i \in Answers(c) /\ j \in Answers(c)
      BY <1>1, <1>3, <1>4, <1>6, <2>2
    <3> QED
      BY <1>3, <1>6, <3>1 DEF OnTheWay
  <2> QED
    BY <2>1, <2>2
<1>7. ASSUME NEW n \in Count(c) + 1 .. sent[c] + 1 PROVE \E i \in Answers(c)' : wire'[i].seq = n
  <2>1. CASE n = sent[c] + 1
    BY <1>2, <1>3, <2>1
  <2>2. CASE n # sent[c] + 1
    <3>1. n \in Count(c) + 1 .. sent[c]
      BY <1>1, <2>2
    <3> QED
      BY <1>3, <3>1 DEF OnTheWay
  <2> QED
    BY <2>1, <2>2
<1> QED
  BY <1>5, <1>6, <1>7 DEF OnTheWay

\* What a loss leaves of the frames under way is an initial part of them.
LEMMA LoseOnTheWay ==
    ASSUME TypeOK, NEW c \in Calls, OnTheWay(c), Lose
    PROVE  OnTheWay(c)'
<1>1. PICK n \in 0 .. Len(wire) : wire' = SubSeq(wire, 1, n)
  BY DEF Lose
<1>2. ~up' /\ sent' = sent /\ Count(c)' = Count(c)
  BY DEF Lose, clientVars, Count
<1>3. /\ Len(wire) \in Nat /\ DOMAIN wire' = 1 .. n
      /\ \A i \in 1 .. n : i \in DOMAIN wire /\ wire'[i] = wire[i]
  BY <1>1 DEF TypeOK
<1>4. Answers(c)' = {i \in Answers(c) : i <= n} /\ \A i \in Answers(c)' : wire'[i] = wire[i]
  BY <1>3, Lengths DEF Answers
<1>5. /\ \A i \in Answers(c)' : wire'[i].seq \in Count(c) + 1 .. sent[c]
      /\ \A i, j \in Answers(c)' : i < j => wire'[i].seq < wire'[j].seq
  BY <1>4 DEF OnTheWay
<1>6. ASSUME NEW k \in Count(c) + 1 .. sent[c], NEW j \in Answers(c)', k < wire'[j].seq
      PROVE  \E i \in Answers(c)' : wire'[i].seq = k
  <2>1. PICK i \in Answers(c) : wire[i].seq = k
    BY <1>4, <1>6 DEF OnTheWay
  <2>2. j \in Answers(c) /\ wire[i].seq < wire[j].seq
    BY <1>4, <1>6, <2>1
  <2>3. i \in Nat /\ j \in Nat /\ wire[i].seq \in Nat /\ wire[j].seq \in Nat
    BY <2>2, Lengths DEF Answers
  <2>4. ~(j < i)
    BY <2>2, <2>3 DEF OnTheWay
  <2>5. i \in Answers(c)'
    BY <1>1, <1>4, <2>3, <2>4
  <2> QED
    BY <1>4, <2>1, <2>5
<1> QED
  BY <1>2, <1>5, <1>6 DEF OnTheWay

\* A frame that is received moves from the wire to the queue.
LEMMA ReceiveOnTheWay ==
    ASSUME UniqueIds, FInv, Receive, NEW c \in Calls, owner[RidOf[c]] = c
    PROVE  OnTheWay(c)'
<1>1. TypeOK /\ wire # <<>> /\ wire' = Tail(wire) /\ up' = up /\ sent' = sent
  BY DEF Receive, FInv, RInv, IInv, serverVars
<1>2. OnTheWay(c) /\ Count(c) \in Nat /\ sent[c] \in Nat
      /\ \A i \in Answers(c) : i \in DOMAIN wire /\ i \in Nat \ {0} /\ wire[i].seq \in Nat
  BY <1>1, Lengths DEF FInv, Continued, Answers
<1>3. /\ \A i \in DOMAIN wire' : i \in Nat \ {0} /\ i + 1 \in DOMAIN wire /\ wire'[i] = wire[i + 1]
      /\ \A i \in DOMAIN wire : i # 1 => i - 1 \in DOMAIN wire' /\ wire'[i - 1] = wire[i]
  BY <1>1 DEF TypeOK
<1>4. /\ \A i \in Answers(c)' : i \in Nat \ {0} /\ i + 1 \in Answers(c) /\ wire'[i] = wire[i + 1]
      /\ \A i \in Answers(c) : i # 1 => i - 1 \in Answers(c)' /\ wire'[i - 1] = wire[i]
  BY <1>3 DEF Answers
<1>5. ASSUME NEW i \in Answers(c)', NEW j \in Answers(c)', i < j PROVE wire'[i].seq < wire'[j].seq
  <2>1. i + 1 \in Answers(c) /\ j + 1 \in Answers(c) /\ i + 1 < j + 1
    BY <1>4, <1>5
  <2> QED
    BY <1>2, <1>4, <2>1 DEF OnTheWay
<1>6. Count(c)' = IF wire[1].call = c THEN Count(c) + 1 ELSE Count(c)
  BY ReceiveInOrder
<1>7. CASE wire[1].call # c
  <2>1. 1 \notin Answers(c) /\ Count(c)' = Count(c)
    BY <1>6, <1>7 DEF Answers
  <2>2. \A i \in Answers(c)' : wire'[i].seq \in Count(c)' + 1 .. sent'[c]
    BY <1>1, <1>2, <1>4, <2>1 DEF OnTheWay
  <2>3. ASSUME NEW n \in Count(c) + 1 .. sent[c],
               up \/ \E i \in Answers(c)' : n < wire'[i].seq
        PROVE  \E i \in Answers(c)' : wire'[i].seq = n
    <3>1. up \/ \E i \in Answers(c) : n < wire[i].seq
      BY <1>4, <2>3
    <3>2. PICK i \in Answers(c) : wire[i].seq = n
      BY <1>2, <3>1 DEF OnTheWay
    <3> QED
      BY <1>4, <2>1, <3>2
  <2> QED
    BY <1>1, <1>5, <2>1, <2>2, <2>3 DEF OnTheWay
<1>8. CASE wire[1].call = c
  <2>1. wire[1].seq = Count(c) + 1 /\ Count(c)' = Count(c) + 1 /\ 1 \in Answers(c)
    <3>1. 1 \in DOMAIN wire
      BY <1>1 DEF TypeOK
    <3> QED
      BY <1>1, <1>6, <1>8, <3>1, HeadIsNext DEF Answers
  <2>2. ASSUME NEW i \in Answers(c)' PROVE wire'[i].seq \in Count(c)' + 1 .. sent'[c]
    <3>1. i + 1 \in Answers(c) /\ 1 < i + 1 /\ wire'[i] = wire[i + 1]
      BY <1>4, <2>2
    <3>2. wire[1].seq < wire[i + 1].seq /\ wire[i + 1].seq \in Count(c) + 1 .. sent[c]
      BY <1>2, <2>1, <3>1 DEF OnTheWay
    <3> DEFINE s == wire[i + 1].seq
               n == Count(c)
    <3>3. s \in n + 1 .. sent[c] /\ n + 1 < s /\ n \in Nat /\ sent[c] \in Nat
      BY <1>2, <2>1, <3>2
    <3> HIDE DEF s, n
    <3>4. s \in (n + 1) + 1 .. sent[c]
      BY <3>3
    <3> QED
      BY <1>1, <2>1, <3>1, <3>4 DEF s, n
  <2>3. ASSUME NEW n \in Count(c) + 2 .. sent[c],
               up \/ \E i \in Answers(c)' : n < wire'[i].seq
        PROVE  \E i \in Answers(c)' : wire'[i].seq = n
    <3>1. up \/ \E i \in Answers(c) : n < wire[i].seq
      BY <1>4, <2>3
    <3>2. n \in Count(c) + 1 .. sent[c] /\ n # Count(c) + 1
      BY <1>2
    <3>3. PICK i \in Answers(c) : wire[i].seq = n
      BY <1>2, <3>1, <3>2 DEF OnTheWay
    <3>4. i # 1
      BY <2>1, <3>2, <3>3
    <3> QED
      BY <1>4, <3>3, <3>4
  <2>4. \A n : n \in Count(c)' + 1 .. sent[c] => n \in Count(c) + 2 .. sent[c]
    BY <1>2, <2>1
  <2> QED
    BY <1>1, <1>5, <2>2, <2>3, <2>4 DEF OnTheWay
<1> QED
  BY <1>7, <1>8

\* Every step keeps every call's frames in order and without gaps.
LEMMA StepFlow ==
    ASSUME UniqueIds, FInv, [Next]_vars
    PROVE  Consecutive' /\ Continued'
<1> USE DEF clientVars, serverVars
<1> DEFINE Flows(d) == InOrder(d)' /\ (owner'[RidOf[d]] = d => OnTheWay(d)')
<1>0. /\ TypeOK /\ IInv /\ QueueHasCaller /\ Started /\ Unlinked /\ WireSent
      /\ \A d \in Calls : InOrder(d) /\ (owner[RidOf[d]] = d => OnTheWay(d) /\ cstat[d] \notin Over)
      /\ \A d \in Calls : Count(d) \in Nat /\ sent[d] \in Nat
  BY Lengths, RidOfAssumption, NilAssumption
     DEF FInv, RInv, IInv, Consecutive, Continued, QueueHasCaller, Pending, Over
<1> SUFFICES \A d \in Calls : Flows(d)
  BY DEF Consecutive, Continued
<1>1. ASSUME NEW d \in Calls, UNCHANGED <<up, wire>>,
             sent'[d] = sent[d], got'[d] = got[d], buf'[d] = buf[d],
             cstat'[d] \notin Over => cstat[d] \notin Over,
             owner'[RidOf[d]] = d => owner[RidOf[d]] = d
      PROVE  Flows(d)
  <2>1. InOrder(d)'
    BY <1>1, CallUntouched
  <2>2. Count(d)' = Count(d)
    BY <1>1 DEF Count
  <2> QED
    BY <1>0, <1>1, <2>1, <2>2, SameWay
<1>2. ASSUME NEW c \in Calls, NEW how \in Over, Ends(c, how),
             got'[c] = got[c] \/ (/\ cstat[c] \notin Over /\ buf[c] # <<>>
                                  /\ got'[c] = Append(got[c], Head(buf[c]))),
             \A d \in Calls \ {c} : got'[d] = got[d], UNCHANGED <<up, wire, sent>>
      PROVE  \A d \in Calls : Flows(d)
  <2>1. ASSUME NEW d \in Calls \ {c} PROVE Flows(d)
    <3>1. cstat'[d] = cstat[d] /\ owner'[RidOf[d]] = owner[RidOf[d]] /\ buf'[d] = buf[d]
      BY <1>0, <1>2, EndsAlone
    <3> QED
      BY <1>1, <1>2, <3>1
  <2>2. cstat'[c] \in Over /\ owner'[RidOf[c]] # c
    BY <1>0, <1>2, EndsAlone, NilAssumption
  <2>3. InOrder(c)'
    BY <1>2, <2>2, CallUntouched, TakeConsecutive
  <2> QED
    BY <2>1, <2>2, <2>3
<1>3. ASSUME NEW c \in Calls, NEW final \in BOOLEAN, Emit(c, final), srv[c] # "none", up,
             UNCHANGED <<up, clientVars>>
      PROVE  \A d \in Calls : Flows(d)
  <2>1. PICK f \in Frame : f.call = c /\ f.seq = sent[c] + 1 /\ wire' = Append(wire, f)
    BY <1>0, <1>3, EmittedFrame
  <2>2. sent'[c] = sent[c] + 1 /\ \A d \in Calls \ {c} : sent'[d] = sent[d]
    BY <1>0, <1>3 DEF Emit, TypeOK
  <2>3. \A d \in Calls : Count(d)' = Count(d)
    BY <1>3 DEF Count
  <2>4. ASSUME NEW d \in Calls \ {c} PROVE Flows(d)
    <3>1. InOrder(d)'
      BY <1>3, <2>2, CallUntouched
    <3>2. owner[RidOf[d]] = d => OnTheWay(d)'
      BY <1>0, <1>3, <2>1, <2>2, <2>3, OthersFrame
    <3> QED
      BY <1>3, <3>1, <3>2
  <2>5. InOrder(c)'
    <3>1. \A n : n <= sent[c] /\ n \in Nat => n <= sent'[c]
      BY <1>0, <2>2
    <3>2. Len(got[c]) \in Nat
      BY <1>0, Lengths
    <3> QED
      BY <1>0, <1>3, <2>3, <3>1, <3>2 DEF InOrder
  <2>6. owner[RidOf[c]] = c => OnTheWay(c)'
    <3> SUFFICES ASSUME owner[RidOf[c]] = c PROVE OnTheWay(c)'
      OBVIOUS
    <3>1. OnTheWay(c) /\ Count(c) <= sent[c]
      BY <1>0 DEF InOrder
    <3> QED
      BY <1>0, <1>3, <2>1, <2>2, <2>3, <3>1, SendOnTheWay
  <2> QED
    BY <1>3, <2>4, <2>5, <2>6
<1>4. ASSUME NEW d \in Calls, srv[d] = "none", Answers(d)' = {}, sent' = sent,
             got' = got, buf' = buf
      PROVE  OnTheWay(d)'
  <2>1. sent[d] = 0
    BY <1>0, <1>4 DEF Started
  <2>2. sent'[d] = 0 /\ Count(d)' = Count(d)
    BY <1>4, <2>1 DEF Count
  <2> QED
    BY <1>0, <1>4, <2>2, NothingSent
<1>5. CASE Connect \/ Close
  <2>1. /\ conn \in {"none", "closing"} /\ wire' = <<>>
        /\ UNCHANGED <<cstat, sent, got, buf, owner>>
    BY <1>5 DEF Connect, Close
  <2> SUFFICES ASSUME NEW d \in Calls PROVE Flows(d)
    OBVIOUS
  <2>2. InOrder(d)'
    BY <2>1, CallUntouched
  <2>3. Answers(d)' = {}
    BY <2>1 DEF Answers
  <2>4. owner[RidOf[d]] = d => srv[d] = "none"
    BY <1>0, <2>1 DEF Unlinked, Started
  <2> QED
    BY <1>4, <2>1, <2>2, <2>3, <2>4
<1>6. CASE Lose
  <2> SUFFICES ASSUME NEW d \in Calls PROVE Flows(d)
    OBVIOUS
  <2>1. InOrder(d)' /\ owner' = owner
    BY <1>6, CallUntouched DEF Lose
  <2> QED
    BY <1>0, <1>6, <2>1, LoseOnTheWay
<1>7. CASE StopReceiver
  BY <1>1, <1>7 DEF StopReceiver
<1>8. CASE ForgetQueues
  BY <1>1, <1>8, RidOfAssumption, NilAssumption DEF ForgetQueues
<1>9. CASE Receive
  <2>1. owner' = owner
    BY <1>9 DEF Receive
  <2> QED
    BY <1>9, <2>1, ReceiveInOrder, ReceiveOnTheWay
<1>10. ASSUME NEW c \in Calls, Register(c) PROVE \A d \in Calls : Flows(d)
  <2>1. /\ cstat[c] = "idle" /\ \A d \in Calls \ {c} : cstat'[d] = cstat[d]
        /\ UNCHANGED <<up, wire, sent, got, buf>>
    BY <1>0, <1>10 DEF Register, TypeOK
  <2>2. ASSUME NEW d \in Calls \ {c} PROVE Flows(d)
    <3>1. owner' = owner \/ owner' = [owner EXCEPT ![RidOf[c]] = c]
      BY <1>10 DEF Register
    <3>2. owner'[RidOf[d]] = owner[RidOf[d]]
      BY <1>0, <3>1, RidOfAssumption DEF UniqueIds, TypeOK
    <3> QED
      BY <1>1, <2>1, <3>2
  <2>3. srv[c] = "none" /\ sent[c] = 0
    BY <1>0, <2>1 DEF Started
  <2>4. InOrder(c)'
    <3>1. cstat[c] \notin Over
      BY <2>1 DEF Over
    <3> QED
      BY <2>1, <3>1, CallUntouched
  <2>5. Answers(c)' = {}
    BY <1>0, <2>1, <2>3, NilAssumption DEF WireSent, Answers
  <2> QED
    BY <1>4, <2>1, <2>2, <2>3, <2>4, <2>5
<1>11. ASSUME NEW c \in Calls, Transmit(c) PROVE \A d \in Calls : Flows(d)
  <2>1. CASE cstat' = [cstat EXCEPT ![c] = "waiting"] /\ UNCHANGED <<owner, buf>>
    BY <1>0, <1>1, <1>11, <2>1 DEF Transmit, TypeOK, Over
  <2>2. CASE Ends(c, "failed")
    BY <1>2, <1>11, <2>2 DEF Transmit, Over
  <2> QED
    BY <1>11, <2>1, <2>2 DEF Transmit
<1>12. ASSUME NEW c \in Calls, TakeReply(c) PROVE \A d \in Calls : Flows(d)
  BY <1>0, <1>2, <1>12 DEF TakeReply, Over
<1>13. ASSUME NEW c \in Calls, TrailingGrace(c) \/ UnaryTimeout(c) \/ CancelCall(c)
       PROVE  \A d \in Calls : Flows(d)
  BY <1>2, <1>13 DEF TrailingGrace, UnaryTimeout, CancelCall, Over
<1>14. ASSUME NEW c \in Calls, TakeChunk(c) PROVE \A d \in Calls : Flows(d)
  <2>1. /\ cstat[c] \notin Over /\ buf[c] # <<>> /\ cstat'[c] \notin Over
        /\ got'[c] = Append(got[c], Head(buf[c])) /\ buf'[c] = Tail(buf[c])
        /\ \A d \in Calls \ {c} : /\ got'[d] = got[d] /\ buf'[d] = buf[d]
                                  /\ cstat'[d] = cstat[d]
        /\ UNCHANGED <<up, wire, sent, owner>>
    BY <1>0, <1>14 DEF TakeChunk, TypeOK, Over
  <2>2. InOrder(c)' /\ Count(c)' = Count(c)
    BY <2>1, TakeConsecutive
  <2>3. owner[RidOf[c]] = c => OnTheWay(c)'
    BY <1>0, <2>1, <2>2, SameWay
  <2> QED
    BY <1>1, <2>1, <2>2, <2>3
<1>15. ASSUME NEW c \in Calls, ServerChunk(c) \/ ServerFinal(c) PROVE \A d \in Calls : Flows(d)
  BY <1>3, <1>15 DEF ServerChunk, ServerFinal, Linked
<1>16. ASSUME NEW rid \in Rids, Cleanup(rid) PROVE \A d \in Calls : Flows(d)
  BY <1>1, <1>16 DEF Cleanup
<1>17. ASSUME NEW rid \in Rids, ServerPush(rid) PROVE \A d \in Calls : Flows(d)
  <2> DEFINE f == [rid |-> rid, call |-> Nil, seq |-> 0, final |-> FALSE, push |-> TRUE]
  <2>1. f \in Frame /\ f.call = Nil /\ wire' = Append(wire, f)
    BY <1>17 DEF ServerPush, Frame
  <2> HIDE DEF f
  <2> SUFFICES ASSUME NEW d \in Calls PROVE Flows(d)
    OBVIOUS
  <2>2. UNCHANGED <<up, sent, clientVars>> /\ Count(d)' = Count(d) /\ f.call # d
    BY <1>17, <2>1, NilAssumption DEF ServerPush, Count
  <2>3. InOrder(d)'
    BY <2>2, CallUntouched
  <2> QED
    BY <1>0, <2>1, <2>2, <2>3, OthersFrame
<1>18. CASE UNCHANGED vars
  BY <1>1, <1>18 DEF vars
<1> QED
  BY <1>5, <1>6, <1>7, <1>8, <1>9, <1>10, <1>11, <1>12, <1>13, <1>14, <1>15, <1>16, <1>17,
     <1>18 DEF Next

\* FInv is an invariant where request ids identify a call.
LEMMA Flow ==
    ASSUME UniqueIds
    PROVE  Spec => []FInv
<1>1. Init => FInv
  <2> SUFFICES ASSUME Init PROVE FInv
    OBVIOUS
  <2>1. RInv
    BY InitInv DEF Init, RInv, Routed, RightAnswers
  <2>2. Started /\ Unlinked /\ MarkedOver /\ WireSent
    BY RidOfAssumption, NilAssumption DEF Init, Started, Unlinked, MarkedOver, WireSent
  <2>3. \A c \in Calls : got[c] = <<>> /\ buf[c] = <<>> /\ sent[c] = 0 /\ owner[RidOf[c]] # c
    BY RidOfAssumption, NilAssumption DEF Init
  <2>4. Len(<<>>) = 0 /\ DOMAIN <<>> = {}
    OBVIOUS
  <2>5. Consecutive
    <3> SUFFICES ASSUME NEW c \in Calls PROVE InOrder(c)
      BY DEF Consecutive
    <3>1. DOMAIN got[c] = {} /\ DOMAIN buf[c] = {} /\ Len(got[c]) = 0 /\ Len(buf[c]) = 0
      BY <2>3, <2>4, Zenon
    <3>2. Count(c) = 0 /\ sent[c] = 0
      BY <2>3, <3>1 DEF Count
    <3> QED
      BY <3>1, <3>2 DEF InOrder
  <2>6. Continued
    BY <2>3 DEF Continued
  <2> QED
    BY <2>1, <2>2, <2>5, <2>6 DEF FInv
<1>2. FInv /\ [Next]_vars => FInv'
  <2> SUFFICES ASSUME FInv, [Next]_vars PROVE FInv'
    OBVIOUS
  <2>1. RInv' /\ WireSent'
    BY StepRouted, StepWireSent DEF FInv, RInv, IInv
  <2> QED
    BY <2>1, StepOrder, StepFlow DEF FInv
<1> QED
  BY <1>1, <1>2, PTL DEF Spec

\* Where request ids identify a call, a call that has its queue misses nothing:
\* what it took, what is queued and what is under way is all the server sent.
THEOREM NoneMissing ==
    ASSUME UniqueIds
    PROVE  Spec => []NothingMissing
<1>1. FInv => NothingMissing
  <2> SUFFICES ASSUME FInv, NEW c \in Calls, owner[RidOf[c]] = c
               PROVE  /\ \A i \in 1 .. Len(Arrived(c)) :
                            Arrived(c)[i].call = c /\ Arrived(c)[i].seq = i
                      /\ Len(Arrived(c)) = Count(c) /\ Count(c) <= sent[c] /\ OnTheWay(c)
    BY DEF NothingMissing, OnTheWay
  <2>1. cstat[c] \notin Over /\ OnTheWay(c)
    BY RidOfAssumption, NilAssumption
       DEF FInv, RInv, IInv, QueueHasCaller, Continued, Pending, Over
  <2>2. /\ got[c] \in Seq(Reply) /\ buf[c] \in Seq(Reply)
        /\ \A i \in DOMAIN got[c] : got[c][i].call = c /\ got[c][i].seq = i
        /\ \A i \in DOMAIN buf[c] : buf[c][i].call = c /\ buf[c][i].seq = Len(got[c]) + i
        /\ Count(c) <= sent[c]
    BY <2>1, Lengths DEF FInv, RInv, IInv, Routed, RightAnswers, Consecutive, InOrder
  <2>3. Len(Arrived(c)) = Count(c)
    BY <2>2 DEF Arrived, Count
  <2>4. \A i \in 1 .. Len(Arrived(c)) : Arrived(c)[i].call = c /\ Arrived(c)[i].seq = i
    <3> SUFFICES ASSUME NEW i \in 1 .. Len(got[c]) + Len(buf[c])
                 PROVE  Arrived(c)[i].call = c /\ Arrived(c)[i].seq = i
      BY <2>3 DEF Count
    <3>1. CASE i <= Len(got[c])
      <4>1. i \in DOMAIN got[c] /\ Arrived(c)[i] = got[c][i]
        BY <2>2, <3>1 DEF Arrived
      <4> QED
        BY <2>2, <4>1
    <3>2. CASE ~(i <= Len(got[c]))
      <4> DEFINE j == i - Len(got[c])
      <4>1. Len(got[c]) \in Nat /\ Len(buf[c]) \in Nat /\ DOMAIN buf[c] = 1 .. Len(buf[c])
        BY <2>2
      <4>2. j \in DOMAIN buf[c] /\ Len(got[c]) + j = i
        <5>1. \A m, k \in Nat : \A x \in 1 .. m + k :
                 ~(x <= m) => x - m \in 1 .. k /\ m + (x - m) = x
          OBVIOUS
        <5> QED
          BY <3>2, <4>1, <5>1, Zenon
      <4>3. Arrived(c)[i] = buf[c][j]
        BY <2>2, <3>2, <4>1, ConcatProperties DEF Arrived
      <4> HIDE DEF j
      <4> QED
        BY <2>2, <4>2, <4>3
    <3> QED
      BY <3>1, <3>2
  <2> QED
    BY <2>1, <2>2, <2>3, <2>4
<1> QED
  BY <1>1, Flow, PTL

-----------------------------------------------------------------------------
(* The client implements Rpc.                                              *)

\* What the abstract state shows of a sequence of frames.
Shown(s) == [i \in DOMAIN s |-> [call |-> s[i].call, seq |-> s[i].seq]]
LifeOf(s) == IF s \in Pending THEN "pending" ELSE IF s \in Over THEN "ended" ELSE "idle"

LEMMA ShownAppend ==
    ASSUME NEW s \in Seq(Reply), NEW f \in Reply
    PROVE  Shown(Append(s, f)) = Append(Shown(s), [call |-> f.call, seq |-> f.seq])
<1> DEFINE R == [call : Calls, seq : Nat]
           x == [call |-> f.call, seq |-> f.seq]
<1>1. \A i \in DOMAIN s : s[i] \in Reply
  OBVIOUS
<1>2. Len(s) \in Nat /\ DOMAIN s = 1 .. Len(s)
  OBVIOUS
<1>3. x \in R /\ \A i \in 1 .. Len(s) : [call |-> s[i].call, seq |-> s[i].seq] \in R
  BY <1>1, <1>2 DEF Reply
<1>4. Shown(s) \in Seq(R) /\ Len(Shown(s)) = Len(s)
  BY <1>2, <1>3 DEF Shown
<1>5. Append(s, f) \in Seq(Reply) /\ Len(Append(s, f)) = Len(s) + 1
  OBVIOUS
<1>6. \A i \in 1 .. Len(s) + 1 : Append(s, f)[i] = IF i = Len(s) + 1 THEN f ELSE s[i]
  OBVIOUS
<1>7. /\ DOMAIN Shown(Append(s, f)) = 1 .. Len(s) + 1
      /\ \A i \in 1 .. Len(s) + 1 :
            Shown(Append(s, f))[i] = IF i = Len(s) + 1 THEN x ELSE Shown(s)[i]
  BY <1>2, <1>5, <1>6 DEF Shown
<1>8. /\ DOMAIN Append(Shown(s), x) = 1 .. Len(s) + 1
      /\ \A i \in 1 .. Len(s) + 1 :
            Append(Shown(s), x)[i] = IF i = Len(s) + 1 THEN x ELSE Shown(s)[i]
  BY <1>3, <1>4
<1> QED
  BY <1>7, <1>8 DEF Shown

\* Steps of a call that change its life, in the abstract state.
LEMMA LifeSteps ==
    ASSUME NEW c \in Calls, cstat \in [Calls -> {"idle"} \cup Pending \cup Over],
           NEW new, cstat' = [cstat EXCEPT ![c] = new], sent' = sent
    PROVE  /\ got' = got /\ cstat[c] = "idle" /\ new \in Pending \cup Over => Contract!Start(c)
           /\ got' = got /\ cstat[c] \in Pending /\ new \in Over => Contract!End(c)
           /\ got' = got /\ cstat[c] \in Pending /\ new \in Pending => UNCHANGED Contract!vars
           /\ /\ cstat[c] \in Pending /\ new \in Pending \cup Over
              /\ got \in [Calls -> Seq(Reply)] /\ Len(got[c]) < sent[c]
              /\ \E f \in Reply : /\ f.call = c /\ f.seq = Len(got[c]) + 1
                                  /\ got' = [got EXCEPT ![c] = Append(@, f)]
              => Contract!Deliver(c)
<1> DEFINE stat == [d \in Calls |-> LifeOf(cstat[d])]
<1>1. stat' = [stat EXCEPT ![c] = LifeOf(new)]
  BY DEF LifeOf
<1>2. /\ cstat[c] = "idle" => stat[c] = "idle"
      /\ cstat[c] \in Pending => stat[c] = "pending"
      /\ new \in Pending => LifeOf(new) = "pending"
      /\ new \in Over => LifeOf(new) = "ended"
  BY DEF LifeOf, Pending, Over
<1>3. got' = got /\ cstat[c] = "idle" /\ new \in Pending \cup Over => Contract!Start(c)
  <2> SUFFICES ASSUME got' = got, cstat[c] = "idle", new \in Pending \cup Over
               PROVE  Contract!Start(c)
    OBVIOUS
  <2>1. stat[c] = "idle" /\ \E s \in {"pending", "ended"} : stat' = [stat EXCEPT ![c] = s]
    BY <1>1, <1>2
  <2> QED
    BY <2>1 DEF Contract!Start, LifeOf
<1>4. got' = got /\ cstat[c] \in Pending /\ new \in Over => Contract!End(c)
  BY <1>1, <1>2 DEF Contract!End, LifeOf
<1>5. got' = got /\ cstat[c] \in Pending /\ new \in Pending => UNCHANGED Contract!vars
  BY <1>1, <1>2 DEF Contract!vars, LifeOf
<1>6. ASSUME cstat[c] \in Pending, new \in Pending \cup Over,
             got \in [Calls -> Seq(Reply)], Len(got[c]) < sent[c],
             NEW f \in Reply, f.call = c, f.seq = Len(got[c]) + 1,
             got' = [got EXCEPT ![c] = Append(@, f)]
      PROVE  Contract!Deliver(c)
  <2> DEFINE shown == [d \in Calls |-> Shown(got[d])]
  <2>1. got[c] \in Seq(Reply) /\ Len(Shown(got[c])) = Len(got[c])
    BY <1>6 DEF Shown
  <2>2. Shown(got'[c]) = Append(Shown(got[c]), [call |-> c, seq |-> Len(Shown(got[c])) + 1])
    BY <1>6, <2>1, ShownAppend
  <2>3. shown' = [shown EXCEPT ![c] = Append(@, [call |-> c, seq |-> Len(@) + 1])]
    BY <1>6, <2>2
  <2>4. stat[c] = "pending" /\ LifeOf(new) \in {"pending", "ended"} /\ Len(shown[c]) < sent[c]
    BY <1>2, <1>6, <2>1
  <2> QED
    BY <1>1, <2>3, <2>4 DEF Contract!Deliver, LifeOf, Shown
<1> QED
  BY <1>3, <1>4, <1>5, <1>6

\* Every step of the client is a step of Rpc, or leaves Rpc's state alone.
LEMMA StepRpc ==
    ASSUME UniqueIds, FInv, [Next]_vars
    PROVE  [Contract!Next]_(Contract!vars)
<1> USE DEF clientVars, serverVars
<1>0. /\ cstat \in [Calls -> {"idle"} \cup Pending \cup Over]
      /\ got \in [Calls -> Seq(Reply)] /\ sent \in [Calls -> Nat] /\ buf \in [Calls -> Seq(Reply)]
  BY DEF FInv, RInv, IInv, TypeOK
<1>1. ASSUME UNCHANGED <<cstat, got, sent>> PROVE UNCHANGED Contract!vars
  BY <1>1 DEF Contract!vars
<1>2. ASSUME NEW c \in Calls, cstat[c] \in Pending, NEW how \in Over, Ends(c, how),
             got' = got, sent' = sent
      PROVE  Contract!Next
  BY <1>0, <1>2, LifeSteps DEF Ends, Contract!Next
<1>3. ASSUME NEW c \in Calls, cstat[c] \in Pending, buf[c] # <<>>
      PROVE  /\ Head(buf[c]) \in Reply /\ Head(buf[c]).call = c
             /\ Head(buf[c]).seq = Len(got[c]) + 1 /\ Len(got[c]) < sent[c]
  <2>1. /\ buf[c] \in Seq(Reply) /\ Len(got[c]) \in Nat /\ Len(buf[c]) \in Nat /\ sent[c] \in Nat
    BY <1>0
  <2>2. Head(buf[c]) = buf[c][1] /\ 1 \in DOMAIN buf[c] /\ buf[c][1] \in Reply /\ Len(buf[c]) > 0
    BY <1>3, <2>1
  <2>3. buf[c][1].call = c /\ buf[c][1].seq = Len(got[c]) + 1 /\ Len(got[c]) + Len(buf[c]) <= sent[c]
    <3>1. cstat[c] \notin Over
      BY <1>3 DEF Pending, Over
    <3>2. buf[c][1].call = c
      BY <2>2 DEF FInv, RInv, Routed
    <3> QED
      BY <2>2, <3>1, <3>2 DEF FInv, Consecutive, InOrder, Count
  <2>4. Len(got[c]) < sent[c]
    <3>1. \A m, k, n \in Nat : k > 0 /\ m + k <= n => m < n
      OBVIOUS
    <3> QED
      BY <2>1, <2>2, <2>3, <3>1, Zenon
  <2> QED
    BY <2>2, <2>3, <2>4
<1>4. CASE Connect \/ Lose \/ StopReceiver \/ ForgetQueues \/ Close \/ Receive
  BY <1>1, <1>4 DEF Connect, Lose, StopReceiver, ForgetQueues, Close, Receive
<1>5. ASSUME NEW c \in Calls, Register(c) PROVE Contract!Next
  <2>1. \E new \in Pending \cup Over : cstat' = [cstat EXCEPT ![c] = new]
    BY <1>5 DEF Register, Pending, Over
  <2>2. cstat[c] = "idle" /\ got' = got /\ sent' = sent
    BY <1>5 DEF Register
  <2> QED
    BY <1>0, <2>1, <2>2, LifeSteps DEF Contract!Next
<1>6. ASSUME NEW c \in Calls, Transmit(c) PROVE Contract!Next \/ UNCHANGED Contract!vars
  <2>1. cstat[c] \in Pending /\ got' = got /\ sent' = sent
    BY <1>6 DEF Transmit, Pending
  <2>2. CASE cstat' = [cstat EXCEPT ![c] = "waiting"]
    <3>1. "waiting" \in Pending
      BY DEF Pending
    <3> QED
      BY <1>0, <2>1, <2>2, <3>1, LifeSteps
  <2>3. CASE Ends(c, "failed")
    BY <1>2, <2>1, <2>3 DEF Over
  <2> QED
    BY <1>6, <2>2, <2>3 DEF Transmit
<1>7. ASSUME NEW c \in Calls, TakeReply(c) \/ TakeChunk(c) PROVE Contract!Next
  <2>1. cstat[c] \in Pending /\ buf[c] # <<>> /\ sent' = sent
        /\ got' = [got EXCEPT ![c] = Append(@, Head(buf[c]))]
    BY <1>7 DEF TakeReply, TakeChunk, Pending
  <2>2. \E new \in Pending \cup Over : cstat' = [cstat EXCEPT ![c] = new]
    BY <1>7, <2>1 DEF TakeReply, TakeChunk, Ends, Pending, Over
  <2> QED
    BY <1>0, <1>3, <2>1, <2>2, LifeSteps DEF Contract!Next
<1>8. ASSUME NEW c \in Calls, TrailingGrace(c) \/ UnaryTimeout(c) \/ CancelCall(c)
      PROVE  Contract!Next
  BY <1>2, <1>8 DEF TrailingGrace, UnaryTimeout, CancelCall, Pending, Over
<1>9. ASSUME NEW c \in Calls, ServerChunk(c) \/ ServerFinal(c) PROVE Contract!Next
  <2>1. srv[c] # "none" /\ sent' = [sent EXCEPT ![c] = @ + 1] /\ cstat' = cstat /\ got' = got
    BY <1>9 DEF ServerChunk, ServerFinal, Emit
  <2>2. cstat[c] # "idle"
    BY <2>1 DEF FInv, Started
  <2>3. LifeOf(cstat[c]) # "idle"
    BY <1>0, <2>2 DEF LifeOf
  <2> QED
    BY <2>1, <2>3 DEF Contract!Next, Contract!Send, LifeOf
<1>10. ASSUME NEW rid \in Rids, Cleanup(rid) \/ ServerPush(rid) PROVE UNCHANGED Contract!vars
  BY <1>1, <1>10 DEF Cleanup, ServerPush
<1>11. CASE UNCHANGED vars
  BY <1>1, <1>11 DEF vars
<1> QED
  BY <1>4, <1>5, <1>6, <1>7, <1>8, <1>9, <1>10, <1>11 DEF Next

\* Where request ids identify a call, the client implements Rpc: a call gets
\* what the server sent for it, in order, without gaps, and nothing once it has
\* ended, whatever is lost, cancelled or reconnected.
THEOREM RpcImplemented ==
    ASSUME UniqueIds
    PROVE  Spec => ImplementsRpc
<1>1. Init => Contract!Init
  BY DEF Init, Contract!Init, Pending, Over
<1>2. FInv /\ [Next]_vars => [Contract!Next]_(Contract!vars)
  BY StepRpc
<1> QED
  BY <1>1, <1>2, Flow, PTL DEF Spec, ImplementsRpc, Contract!Spec
=============================================================================
