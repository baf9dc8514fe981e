---------------------------- MODULE AgentClient ----------------------------
(***************************************************************************)
(* The gateway's end of the gateway - agent server connection              *)
(* (jiuwenswarm/gateway/routing/agent_client.py): requests and streams     *)
(* multiplexed over one WebSocket by request_id, a receiver that routes    *)
(* frames to per-request queues, request ids marked as cancelled for a     *)
(* grace period, and the loss and replacement of the connection.           *)
(*                                                                         *)
(* A call is one invocation of send_request or send_request_stream.  Each  *)
(* frame carries the call it answers as a history field: the client only   *)
(* sees its request_id.  _queue_lock never spans a suspension, so what it  *)
(* guards is one step.                                                     *)
(***************************************************************************)
EXTENDS Integers, Sequences

CONSTANTS
    Calls,          \* invocations of send_request(_stream)
    Streams,        \* those that are send_request_stream
    Rids,           \* request ids on the wire
    RidOf,          \* the request_id of a call
    MaxChunks,      \* bound: frames of a stream besides the final one
    MaxPushes,      \* bound: server_push frames
    MaxConnects,    \* bound: connections opened
    Nil

ASSUME StreamsAssumption == Streams \subseteq Calls
ASSUME RidOfAssumption == RidOf \in [Calls -> Rids]
ASSUME BoundsAssumption == MaxChunks \in Nat /\ MaxPushes \in Nat /\ MaxConnects \in Nat
ASSUME NilAssumption == Nil \notin Calls

VARIABLES
    conn,           \* _ws and _running, and how far disconnect() has come
    up,             \* whether the WebSocket still carries frames
    connects,       \* how many connections were opened
    wire,           \* frames sent by the server and not yet received
    owner,          \* _message_queues: the call whose queue is registered
    buf,            \* the content of the queue object a call created
    marked,         \* _cancelled_request_ids
    timers,         \* pending _delayed_cleanup_cancelled_request_id tasks
    cstat,          \* control state of a call
    got,            \* frames handed to the caller
    srv,            \* what the server does for a call
    sent,           \* frames the server has sent for a call
    pushes          \* server_push frames sent

vars == <<conn, up, connects, wire, owner, buf, marked, timers, cstat, got, srv,
          sent, pushes>>

clientVars == <<owner, buf, marked, timers, cstat, got>>
serverVars == <<srv, sent, pushes>>

Pending == {"registered", "waiting", "trailing"}
Over == {"returned", "timeout", "cancelled", "refused", "failed"}

Frame == [rid : Rids, call : Calls \cup {Nil}, seq : Nat, final : BOOLEAN, push : BOOLEAN]

\* What may enter the queue of a request.
Reply == [rid : Rids, call : Calls, seq : Nat \ {0}, final : BOOLEAN, push : {FALSE}]

TypeOK ==
    /\ conn \in {"none", "open", "stopping", "closing"}
    /\ up \in BOOLEAN
    /\ connects \in 0 .. MaxConnects
    /\ wire \in Seq(Frame)
    /\ owner \in [Rids -> Calls \cup {Nil}]
    /\ buf \in [Calls -> Seq(Reply)]
    /\ marked \in SUBSET Rids
    /\ timers \in [Rids -> Nat]
    /\ cstat \in [Calls -> {"idle"} \cup Pending \cup Over]
    /\ got \in [Calls -> Seq(Reply)]
    /\ srv \in [Calls -> {"none", "working", "finished", "gone"}]
    /\ sent \in [Calls -> Nat]
    /\ pushes \in 0 .. MaxPushes

Init ==
    /\ conn = "none"
    /\ up = FALSE
    /\ connects = 0
    /\ wire = <<>>
    /\ owner = [r \in Rids |-> Nil]
    /\ buf = [c \in Calls |-> <<>>]
    /\ marked = {}
    /\ timers = [r \in Rids |-> 0]
    /\ cstat = [c \in Calls |-> "idle"]
    /\ got = [c \in Calls |-> <<>>]
    /\ srv = [c \in Calls |-> "none"]
    /\ sent = [c \in Calls |-> 0]
    /\ pushes = 0

-----------------------------------------------------------------------------
(* The connection.                                                         *)

\* connect(): the WebSocket is open, connection.ack was read, the receiver
\* runs.
Connect ==
    /\ conn = "none" /\ connects < MaxConnects
    /\ conn' = "open"
    /\ up' = TRUE
    /\ connects' = connects + 1
    /\ wire' = <<>>
    /\ UNCHANGED <<clientVars, serverVars>>

\* The server sees its end closed and cancels all its work.
ServerForgets ==
    srv' = [c \in Calls |-> IF srv[c] = "working" THEN "gone" ELSE srv[c]]

\* The connection drops: some of the frames under way still arrive.  From then
\* on recv() raises, and the receiver logs and sleeps for ever.
Lose ==
    /\ up
    /\ up' = FALSE
    /\ \E n \in 0 .. Len(wire) : wire' = SubSeq(wire, 1, n)
    /\ ServerForgets
    /\ UNCHANGED <<conn, connects, clientVars, sent, pushes>>

\* disconnect(), also from connect() when there is a connection: stop the
\* receiver ...
StopReceiver ==
    /\ conn = "open"
    /\ conn' = "stopping"
    /\ UNCHANGED <<up, connects, wire, clientVars, serverVars>>

\* ... forget all queues, without waking those who wait on them ...
ForgetQueues ==
    /\ conn = "stopping"
    /\ conn' = "closing"
    /\ owner' = [r \in Rids |-> Nil]
    /\ UNCHANGED <<up, connects, wire, buf, marked, timers, cstat, got, serverVars>>

\* ... and close the WebSocket.
Close ==
    /\ conn = "closing"
    /\ conn' = "none"
    /\ up' = FALSE
    /\ wire' = <<>>
    /\ ServerForgets
    /\ UNCHANGED <<connects, clientVars, sent, pushes>>

-----------------------------------------------------------------------------
(* The receiver.                                                           *)

\* Drop what answers a marked request id, hand a server_push to its handler,
\* put the rest into the queue registered for its request id, if any.
RouteWithPushes(f) == IF f.rid \in marked THEN Nil ELSE owner[f.rid]
RouteTo(f) == IF f.push \/ f.rid \in marked THEN Nil ELSE owner[f.rid]

Receive ==
    /\ conn = "open"
    /\ wire # <<>>
    /\ wire' = Tail(wire)
    /\ LET c == RouteTo(Head(wire)) IN
          buf' = IF c = Nil THEN buf ELSE [buf EXCEPT ![c] = Append(@, Head(wire))]
    /\ UNCHANGED <<conn, up, connects, owner, marked, timers, cstat, got, serverVars>>

-----------------------------------------------------------------------------
(* The callers.                                                            *)

\* send_request and send_request_stream up to the first suspension: refuse
\* without a connection or with a duplicate request id in flight, else
\* register a new queue.
Register(c) ==
    /\ cstat[c] = "idle"
    /\ \/ /\ conn = "none" \/ owner[RidOf[c]] # Nil
          /\ cstat' = [cstat EXCEPT ![c] = "refused"]
          /\ UNCHANGED owner
       \/ /\ conn # "none" /\ owner[RidOf[c]] = Nil
          /\ cstat' = [cstat EXCEPT ![c] = "registered"]
          /\ owner' = [owner EXCEPT ![RidOf[c]] = c]
    /\ UNCHANGED <<conn, up, connects, wire, buf, marked, timers, got, serverVars>>

\* _drain_and_remove_queue(rid), in the finally of every call: whatever queue
\* is registered for rid is emptied and removed, rid is marked, and a task is
\* created that removes the mark later.
DrainLeavesQueue(rid) ==
    /\ marked' = marked \cup {rid}
    /\ timers' = [timers EXCEPT ![rid] = @ + 1]
    /\ UNCHANGED <<owner, buf>>
Drain(rid) ==
    IF owner[rid] = Nil
    THEN UNCHANGED <<owner, buf, marked, timers>>
    ELSE /\ marked' = marked \cup {rid}
         /\ owner' = [owner EXCEPT ![rid] = Nil]
         /\ buf' = [buf EXCEPT ![owner[rid]] = <<>>]
         /\ timers' = [timers EXCEPT ![rid] = @ + 1]

Ends(c, how) ==
    /\ cstat' = [cstat EXCEPT ![c] = how]
    /\ Drain(RidOf[c])

\* The WebSocket takes what is sent.
Linked == up /\ conn # "closing"

\* The request goes out, or ws.send raises.
Transmit(c) ==
    /\ cstat[c] = "registered"
    /\ \/ /\ Linked
          /\ cstat' = [cstat EXCEPT ![c] = "waiting"]
          /\ srv' = [srv EXCEPT ![c] = "working"]
          /\ UNCHANGED <<owner, buf, marked, timers>>
       \/ /\ ~Linked
          /\ Ends(c, "failed")
          /\ UNCHANGED srv
    /\ UNCHANGED <<conn, up, connects, wire, got, sent, pushes>>

\* A unary caller takes the one frame it waits for.
TakeReply(c) ==
    /\ c \notin Streams /\ cstat[c] = "waiting" /\ buf[c] # <<>>
    /\ got' = [got EXCEPT ![c] = Append(@, Head(buf[c]))]
    /\ Ends(c, "returned")
    /\ UNCHANGED <<conn, up, connects, wire, serverVars>>

\* A streaming caller takes a frame; after the final one it goes on taking
\* what trails behind, for a short time.
TakeLatestChunk(c) ==
    /\ c \in Streams /\ cstat[c] \in {"waiting", "trailing"} /\ buf[c] # <<>>
    /\ got' = [got EXCEPT ![c] = Append(@, buf[c][Len(buf[c])])]
    /\ buf' = [buf EXCEPT ![c] = <<>>]
    /\ UNCHANGED <<conn, up, connects, wire, owner, marked, timers, cstat, serverVars>>
TakeChunkWithoutGrace(c) ==
    /\ c \in Streams /\ cstat[c] \in {"waiting", "trailing"} /\ buf[c] # <<>>
    /\ got' = [got EXCEPT ![c] = Append(@, Head(buf[c]))]
    /\ buf' = [buf EXCEPT ![c] = Tail(@)]
    /\ IF Head(buf[c]).final
       THEN /\ cstat' = [cstat EXCEPT ![c] = "trailing"]
            /\ owner' = [owner EXCEPT ![RidOf[c]] = Nil]
       ELSE UNCHANGED <<cstat, owner>>
    /\ UNCHANGED <<conn, up, connects, wire, marked, timers, serverVars>>
TakeChunk(c) ==
    /\ c \in Streams /\ cstat[c] \in {"waiting", "trailing"} /\ buf[c] # <<>>
    /\ got' = [got EXCEPT ![c] = Append(@, Head(buf[c]))]
    /\ buf' = [buf EXCEPT ![c] = Tail(@)]
    /\ cstat' = [cstat EXCEPT ![c] = IF Head(buf[c]).final THEN "trailing" ELSE @]
    /\ UNCHANGED <<conn, up, connects, wire, owner, marked, timers, serverVars>>

TrailingGrace(c) ==
    /\ cstat[c] = "trailing" /\ buf[c] = <<>>
    /\ Ends(c, "returned")
    /\ UNCHANGED <<conn, up, connects, wire, got, serverVars>>

UnaryTimeout(c) ==
    /\ c \notin Streams /\ cstat[c] = "waiting" /\ buf[c] = <<>>
    /\ Ends(c, "timeout")
    /\ UNCHANGED <<conn, up, connects, wire, got, serverVars>>

\* The caller's task is cancelled, or its generator closed.
CancelCall(c) ==
    /\ cstat[c] \in Pending
    /\ Ends(c, "cancelled")
    /\ UNCHANGED <<conn, up, connects, wire, got, serverVars>>

\* Two seconds after a call on rid ended.
Cleanup(rid) ==
    /\ timers[rid] > 0
    /\ timers' = [timers EXCEPT ![rid] = @ - 1]
    /\ marked' = marked \ {rid}
    /\ UNCHANGED <<conn, up, connects, wire, owner, buf, cstat, got, serverVars>>

-----------------------------------------------------------------------------
(* The server's end, as far as frames go: a unary request is answered by   *)
(* one final frame; a stream by chunks, a final frame, and possibly a      *)
(* status frame behind it.                                                 *)

Emit(c, final) ==
    /\ sent' = [sent EXCEPT ![c] = @ + 1]
    /\ wire' = Append(wire, [rid |-> RidOf[c], call |-> c, seq |-> sent[c] + 1,
                             final |-> final, push |-> FALSE])

ServerChunk(c) ==
    /\ Linked /\ c \in Streams
    /\ srv[c] \in {"working", "finished"} /\ sent[c] < MaxChunks
    /\ Emit(c, FALSE)
    /\ UNCHANGED <<conn, up, connects, clientVars, srv, pushes>>

ServerFinal(c) ==
    /\ Linked /\ srv[c] = "working"
    /\ srv' = [srv EXCEPT ![c] = "finished"]
    /\ Emit(c, TRUE)
    /\ UNCHANGED <<conn, up, connects, clientVars, pushes>>

\* send_push, which names the request it belongs to.
ServerPush(rid) ==
    /\ Linked /\ pushes < MaxPushes
    /\ pushes' = pushes + 1
    /\ wire' = Append(wire, [rid |-> rid, call |-> Nil, seq |-> 0,
                             final |-> FALSE, push |-> TRUE])
    /\ UNCHANGED <<conn, up, connects, clientVars, srv, sent>>

-----------------------------------------------------------------------------

Next ==
    \/ Connect \/ Lose \/ StopReceiver \/ ForgetQueues \/ Close
    \/ Receive
    \/ \E c \in Calls :
          \/ Register(c) \/ Transmit(c) \/ TakeReply(c) \/ TakeChunk(c)
          \/ TrailingGrace(c) \/ UnaryTimeout(c) \/ CancelCall(c)
          \/ ServerChunk(c) \/ ServerFinal(c)
    \/ \E rid \in Rids : Cleanup(rid) \/ ServerPush(rid)

Spec == Init /\ [][Next]_vars

\* The event loop runs what is ready, timers fire, disconnect() goes on.
LoopFairness ==
    /\ WF_vars(Receive) /\ WF_vars(ForgetQueues) /\ WF_vars(Close)
    /\ \A c \in Calls :
          /\ WF_vars(Transmit(c)) /\ WF_vars(TakeReply(c)) /\ WF_vars(TakeChunk(c))
          /\ WF_vars(TrailingGrace(c)) /\ WF_vars(UnaryTimeout(c))
    /\ \A rid \in Rids : WF_vars(Cleanup(rid))

\* The server finishes what it works on.
ServerFairness == \A c \in Calls : WF_vars(ServerFinal(c))

FairSpec == Spec /\ LoopFairness /\ ServerFairness

-----------------------------------------------------------------------------
(* Properties.                                                             *)

\* Where on the wire the answers to a call are.
Answers(c) == {i \in DOMAIN wire : wire[i].call = c}

\* The frames that reached a call's queue, taken from it or not.
Arrived(c) == got[c] \o buf[c]

\* A registered queue belongs to a call that still waits on it, under its own
\* request id: queues do not leak, and a request id is free once its call ended.
QueueHasCaller ==
    \A r \in Rids : owner[r] # Nil => RidOf[owner[r]] = r /\ cstat[owner[r]] \in Pending

\* A mark always has a task that will remove it: marks do not accumulate.
MarksExpire == \A r \in marked : timers[r] > 0

\* Frames reach the call they answer: not a later call that reuses the request
\* id, and a server_push never enters the queue of a request.
RightAnswers ==
    \A c \in Calls : \A i \in DOMAIN got[c] : got[c][i].call = c

\* A frame in no queue can only be under way: while a call has its queue, what
\* it took, what is queued and what is on the wire is all the server sent, in
\* order, each frame once (after a loss, an initial part of it).
NothingMissing ==
    \A c \in Calls : owner[RidOf[c]] = c =>
        LET arrived == Len(Arrived(c)) IN
        /\ \A i \in 1 .. arrived : Arrived(c)[i].call = c /\ Arrived(c)[i].seq = i
        /\ arrived <= sent[c]
        /\ \A i \in Answers(c) : wire[i].seq \in arrived + 1 .. sent[c]
        /\ \A i, j \in Answers(c) : i < j => wire[i].seq < wire[j].seq
        /\ \A n \in arrived + 1 .. sent[c] :
              up \/ (\E i \in Answers(c) : n < wire[i].seq)
                => \E i \in Answers(c) : wire[i].seq = n

\* Only the end of the call, or disconnect(), takes its queue away.
QueueKeptWhileWaiting ==
    [][\A c \in Calls : owner[RidOf[c]] = c /\ owner'[RidOf[c]] # c =>
          cstat'[c] \in Over \/ conn = "stopping"]_vars

\* A stream ends unless its connection went away: then its queue is forgotten
\* at the latest when the connection is replaced.
StreamEndsOrLost ==
    \A c \in Streams :
        cstat[c] \in Pending ~> cstat[c] \in Over \/ ~up \/ owner[RidOf[c]] # c

\* The client implements the calls of module Rpc.
Contract == INSTANCE Rpc WITH
    stat <- [c \in Calls |-> IF cstat[c] \in Pending THEN "pending"
                             ELSE IF cstat[c] \in Over THEN "ended" ELSE "idle"],
    got <- [c \in Calls |->
              [i \in DOMAIN got[c] |-> [call |-> got[c][i].call, seq |-> got[c][i].seq]]]

ImplementsRpc == Contract!Spec
=============================================================================
