----------------------------- MODULE AgentServer -----------------------------
(***************************************************************************)
(* The request handlers of the agent server's WebSocket endpoint           *)
(* (jiuwenswarm/server/agent_ws_server.py), composed with the task queue   *)
(* of its sessions (SessionManager).                                       *)
(*                                                                         *)
(* Each request that a gateway connection brings is handled by an asyncio  *)
(* task of its own.  A chat request waits for hooks and for its agent,     *)
(* submits work to the session queue and waits for the outcome; chat.cancel *)
(* cancels the handler of the session's latest stream and then the work;   *)
(* the end of a connection cancels the work of all sessions and then the   *)
(* handlers of that connection.  Work and handler are different asyncio    *)
(* tasks, and a cancelled handler leaves its work where it is.             *)
(***************************************************************************)
EXTENDS Integers

CONSTANTS
    Sessions, Tasks, Streams, SessionOf, Nil, Absent,  \* as in SessionManager
    Chats,          \* chat.cancel requests
    MaxConns        \* bound: how often the gateway connects

Conns == 1 .. MaxConns

\* Whoever runs cancel_session_task: the handler of a chat.cancel, and the
\* handler of a connection that has ended.
Cancellers == Chats \cup Conns
Requests == Tasks \cup Chats

ASSUME StreamsAssumption == Streams \subseteq Tasks
ASSUME SessionOfAssumption == SessionOf \in [Tasks -> Sessions]
ASSUME NilAssumption ==
    Nil \notin Requests \cup Conns /\ Absent \notin Tasks /\ Nil # Absent
ASSUME DistinctAssumption ==
    Tasks \cap Chats = {} /\ Conns \cap Requests = {}
ASSUME MaxConnsAssumption == MaxConns \in Nat

VARIABLES
    sessTask, queue, prio, proc, cur, tstat, cancelReq, waiter,
    cpc, target, todo, stamp, arrivals,                \* of SessionManager
    hstat,          \* life of the handler of a request
    hcancel,        \* the handler was cancelled, CancelledError not yet thrown
    via,            \* the connection that brought a request
    subject,        \* the session a chat.cancel is about
    streamTask,     \* _session_stream_tasks: whose handler a session keeps
    conn,           \* life of a connection and its handler
    currentWs,      \* _current_ws
    latest,         \* history: the last stream registered for a session, until it ends
    overlap,        \* history: a connection was opened while another was open
    aim             \* history: the tasks a canceller found running when it began

Queue == INSTANCE SessionManager

queueVars == <<sessTask, queue, prio, proc, cur, tstat, cancelReq, waiter,
               cpc, target, todo, stamp, arrivals>>
handlerVars == <<hstat, hcancel, via, subject, streamTask, latest>>
connVars == <<conn, currentWs, overlap>>
vars == <<queueVars, handlerVars, connVars, aim>>

HandlerState == {"new", "accepted", "preparing", "waiting",
                 "interrupting", "cancelling", "ended"}
ConnState == {"new", "open", "cancelling", "gathering", "closed"}

TypeOK ==
    /\ Queue!TypeOK
    /\ hstat \in [Requests -> HandlerState]
    /\ hcancel \in [Requests -> BOOLEAN]
    /\ via \in [Requests -> Conns \cup {Nil}]
    /\ subject \in [Chats -> Sessions \cup {Nil}]
    /\ streamTask \in [Sessions -> Streams \cup {Nil}]
    /\ conn \in [Conns -> ConnState]
    /\ currentWs \in Conns \cup {Nil}
    /\ latest \in [Sessions -> Streams \cup {Nil}]
    /\ overlap \in BOOLEAN
    /\ aim \in [Cancellers -> SUBSET Tasks]

Init ==
    /\ Queue!Init
    /\ hstat = [r \in Requests |-> "new"]
    /\ hcancel = [r \in Requests |-> FALSE]
    /\ via = [r \in Requests |-> Nil]
    /\ subject = [k \in Chats |-> Nil]
    /\ streamTask = [s \in Sessions |-> Nil]
    /\ conn = [c \in Conns |-> "new"]
    /\ currentWs = Nil
    /\ latest = [s \in Sessions |-> Nil]
    /\ overlap = FALSE
    /\ aim = [c \in Cancellers |-> {}]

Active(r) == hstat[r] \notin {"new", "ended"}

\* A handler ends; nothing is left of its task.
EndHandler(r) ==
    /\ hstat' = [hstat EXCEPT ![r] = "ended"]
    /\ hcancel' = [hcancel EXCEPT ![r] = FALSE]
    /\ via' = [via EXCEPT ![r] = Nil]
    /\ subject' = [k \in Chats |-> IF k = r THEN Nil ELSE subject[k]]
    /\ latest' = [s \in Sessions |-> IF latest[s] = r THEN Nil ELSE latest[s]]
    /\ aim' = [c \in Cancellers |-> IF c = r THEN {} ELSE aim[c]]

------------------------------------------------------------------------------
(* Chat requests.                                                           *)

\* The gateway sends a request on the last connection it has opened.
Arrives(r) ==
    \E c \in Conns :
        /\ conn[c] = "open"
        /\ \A d \in c + 1 .. MaxConns : conn[d] = "new"
        /\ via' = [via EXCEPT ![r] = c]

\* The connection creates a task for _handle_message, which waits for the
\* before-chat hook.
Accept(t) ==
    /\ Queue!NoneResuming
    /\ hstat[t] = "new"
    /\ Arrives(t)
    /\ hstat' = [hstat EXCEPT ![t] = "accepted"]
    /\ UNCHANGED <<queueVars, hcancel, subject, streamTask, latest, connVars, aim>>

\* _handle_stream enters its handler for the session before it waits for the
\* agent.
Register(t) ==
    /\ Queue!NoneResuming
    /\ t \in Streams /\ hstat[t] = "accepted" /\ ~hcancel[t]
    /\ hstat' = [hstat EXCEPT ![t] = "preparing"]
    /\ streamTask' = [streamTask EXCEPT ![SessionOf[t]] = t]
    /\ latest' = [latest EXCEPT ![SessionOf[t]] = t]
    /\ UNCHANGED <<queueVars, hcancel, via, subject, connVars, aim>>

\* The agent is there: the work goes into the session's queue and the handler
\* waits for its future, or for the chunks of its stream.
Enqueue(t) ==
    /\ hstat[t] = (IF t \in Streams THEN "preparing" ELSE "accepted")
    /\ ~hcancel[t]
    /\ Queue!Submit(t)
    /\ hstat' = [hstat EXCEPT ![t] = "waiting"]
    /\ UNCHANGED <<hcancel, via, subject, streamTask, latest, connVars, aim>>

\* A stream that leaves removes its own entry, not that of a later stream.
UnregisterAny(t) == [streamTask EXCEPT ![SessionOf[t]] = Nil]
Unregister(t) ==
    [s \in Sessions |-> IF streamTask[s] = t THEN Nil ELSE streamTask[s]]

\* The future is settled, or the stream is done: the handler answers and ends.
Answer(t) ==
    /\ Queue!NoneResuming
    /\ hstat[t] = "waiting" /\ waiter[t] = "resolved"
    /\ EndHandler(t)
    /\ streamTask' = Unregister(t)
    /\ UNCHANGED <<queueVars, connVars>>

\* CancelledError is thrown into a handler that waits for its hooks or its
\* agent; a stream that has been entered stays in _session_stream_tasks.
HandlerStopped(t) ==
    /\ Queue!NoneResuming
    /\ hcancel[t] /\ hstat[t] \in {"accepted", "preparing"}
    /\ EndHandler(t)
    /\ UNCHANGED <<queueVars, streamTask, connVars>>

\* CancelledError is thrown into a handler that waits for its work, which the
\* queue does not learn of.
HandlerAbandons(t) ==
    /\ hcancel[t] /\ hstat[t] = "waiting"
    /\ Queue!Abandon(t)
    /\ EndHandler(t)
    /\ streamTask' = Unregister(t)
    /\ UNCHANGED connVars

------------------------------------------------------------------------------
(* chat.cancel.                                                             *)

RunningIn(S) ==
    {t \in Tasks : \E s \in S : sessTask[s] = t /\ tstat[t] \in Queue!Live}

\* cancel_session_task or cancel_all_session_tasks over the sessions of S.
CancelWithoutAwait(c, S) ==
    /\ cancelReq' = [t \in Tasks |-> cancelReq[t] \/ t \in RunningIn(S)]
    /\ aim' = [aim EXCEPT ![c] = RunningIn(S)]
    /\ UNCHANGED <<sessTask, queue, prio, proc, cur, tstat, waiter,
                   cpc, target, todo, stamp, arrivals>>
CancelWork(c, S) ==
    /\ Queue!CancelNext(c, S)
    /\ aim' = [aim EXCEPT ![c] = RunningIn(S)]
    /\ UNCHANGED <<sessTask, queue, prio, proc, cur, tstat, waiter, stamp, arrivals>>

\* The handler of the session's stream is cancelled first.  "cancel" goes on
\* to cancel the work at once, "supplement" when the agent has been told.
ChatCancel(k) ==
    /\ Queue!NoneResuming
    /\ hstat[k] = "new"
    /\ Arrives(k)
    /\ \E s \in Sessions :
          /\ subject' = [subject EXCEPT ![k] = s]
          /\ hcancel' = [r \in Requests |->
                            hcancel[r] \/ (r = streamTask[s] /\ Active(r))]
          /\ \/ /\ hstat' = [hstat EXCEPT ![k] = "cancelling"]
                /\ CancelWork(k, {s})
             \/ /\ hstat' = [hstat EXCEPT ![k] = "interrupting"]
                /\ UNCHANGED <<queueVars, aim>>
    /\ UNCHANGED <<streamTask, latest, connVars>>

SupplementCancels(k) ==
    /\ Queue!NoneResuming
    /\ hstat[k] = "interrupting" /\ ~hcancel[k]
    /\ hstat' = [hstat EXCEPT ![k] = "cancelling"]
    /\ CancelWork(k, {subject[k]})
    /\ UNCHANGED <<hcancel, via, subject, streamTask, latest, connVars>>

\* A chat.cancel answers when its cancelling has returned; while it waits for
\* that, its own cancellation is swallowed by cancel_session_task.
ChatReplies(k) ==
    /\ Queue!NoneResuming
    /\ \/ hstat[k] = "cancelling" /\ cpc[k] = "idle"
       \/ hstat[k] = "interrupting" /\ hcancel[k]
    /\ EndHandler(k)
    /\ UNCHANGED <<queueVars, streamTask, connVars>>

------------------------------------------------------------------------------
(* Connections.                                                             *)

Open(c) ==
    /\ Queue!NoneResuming
    /\ conn[c] = "new" /\ \A d \in 1 .. c - 1 : conn[d] # "new"
    /\ conn' = [conn EXCEPT ![c] = "open"]
    /\ currentWs' = c
    /\ overlap' = (overlap \/ \E d \in Conns : conn[d] = "open")
    /\ UNCHANGED <<queueVars, handlerVars, aim>>

\* The socket is closed: the handler of the connection forgets the current
\* one and all streams, whosever they are, and cancels the work of every
\* session.
Close(c) ==
    /\ Queue!NoneResuming
    /\ conn[c] = "open"
    /\ conn' = [conn EXCEPT ![c] = "cancelling"]
    /\ currentWs' = Nil
    /\ streamTask' = [s \in Sessions |-> Nil]
    /\ CancelWork(c, {s \in Sessions : sessTask[s] # Absent})
    /\ UNCHANGED <<hstat, hcancel, via, subject, latest, overlap>>

\* When that has returned, it cancels the handlers of its requests ...
GatherOnly(c) ==
    /\ Queue!NoneResuming
    /\ conn[c] = "cancelling" /\ cpc[c] = "idle"
    /\ conn' = [conn EXCEPT ![c] = "gathering"]
    /\ aim' = [aim EXCEPT ![c] = {}]
    /\ UNCHANGED <<queueVars, handlerVars, currentWs, overlap>>
CancelHandlers(c) ==
    /\ Queue!NoneResuming
    /\ conn[c] = "cancelling" /\ cpc[c] = "idle"
    /\ conn' = [conn EXCEPT ![c] = "gathering"]
    /\ hcancel' = [r \in Requests |-> hcancel[r] \/ (via[r] = c /\ Active(r))]
    /\ aim' = [aim EXCEPT ![c] = {}]
    /\ UNCHANGED <<queueVars, hstat, via, subject, streamTask, latest,
                   currentWs, overlap>>

\* ... and returns when they have ended.
CloseForgetsLate(c) ==
    /\ Queue!NoneResuming
    /\ conn[c] = "gathering"
    /\ \A r \in Requests : via[r] = c => ~Active(r)
    /\ conn' = [conn EXCEPT ![c] = "closed"]
    /\ currentWs' = Nil
    /\ UNCHANGED <<queueVars, handlerVars, overlap, aim>>
CloseReturns(c) ==
    /\ Queue!NoneResuming
    /\ conn[c] = "gathering"
    /\ \A r \in Requests : via[r] = c => ~Active(r)
    /\ conn' = [conn EXCEPT ![c] = "closed"]
    /\ UNCHANGED <<queueVars, handlerVars, currentWs, overlap, aim>>

------------------------------------------------------------------------------

\* The queue's own steps: its processors, and the tasks that begin or are
\* interrupted.
QueueStep ==
    /\ \/ \E t \in Tasks : Queue!Begin(t) \/ Queue!Interrupted(t)
       \/ \E s \in Sessions : Queue!Dequeue(s) \/ Queue!ProcessorNext(s) \/ Queue!ProcessorExit(s)
    /\ UNCHANGED <<handlerVars, connVars, aim>>

\* A canceller goes on to the next session, or is through.
CancelOn(c) == Queue!CancellerResumes(c) /\ UNCHANGED <<handlerVars, connVars, aim>>

\* An agent run comes to an end by itself.
TaskEnds(t) == Queue!Finish(t) /\ UNCHANGED <<handlerVars, connVars, aim>>

\* What the event loop does of its own accord; hooks return and agents come
\* into being.
LoopStep ==
    \/ \E t \in Tasks : \/ Register(t) \/ Enqueue(t) \/ Answer(t)
                        \/ HandlerStopped(t) \/ HandlerAbandons(t)
    \/ \E k \in Chats : SupplementCancels(k) \/ ChatReplies(k)
    \/ \E c \in Conns : CancelHandlers(c) \/ CloseReturns(c)
    \/ \E c \in Cancellers : CancelOn(c)
    \/ QueueStep

\* What the gateway does.
Request ==
    \/ \E t \in Tasks : Accept(t)
    \/ \E k \in Chats : ChatCancel(k)
    \/ \E c \in Conns : Open(c) \/ Close(c)

Next == LoopStep \/ Request \/ \E t \in Tasks : TaskEnds(t)

Spec == Init /\ [][Next]_vars

\* The event loop does not stop while something is ready.
LoopFairness == WF_vars(LoopStep)

TasksEnd == WF_vars(\E t \in Tasks : TaskEnds(t))

LoopSpec == Spec /\ LoopFairness

------------------------------------------------------------------------------
(* Properties.                                                              *)

\* chat.cancel answers, and the end of a connection goes on to the handlers,
\* only when every task is over that ran in their sessions when they began,
\* although other cancellers overtake them and processors come and go.
Over(S) == \A t \in S : tstat[t] \notin Queue!Live
CancelIsEffective ==
    [][/\ \A k \in Chats : Active(k) /\ hstat'[k] = "ended" => Over(aim[k])
       /\ \A c \in Conns : conn[c] = "cancelling" /\ conn'[c] # conn[c] => Over(aim[c])]_vars

\* chat.cancel finds the latest stream of a session, while it is being served
\* on an open connection, unless connections overlapped: an earlier stream
\* that ends after the latest has begun does not take its entry away.
LatestStreamFound ==
    ~overlap => \A s \in Sessions :
        latest[s] # Nil /\ conn[via[latest[s]]] = "open" => streamTask[s] = latest[s]

\* send_push finds an open connection, unless connections overlapped: the end
\* of the earlier one then hides the later one.
PushFindsConnection ==
    ~overlap => \A c \in Conns : conn[c] = "open" => currentWs = c

\* The end of a connection is always dealt with, even if no agent run comes to
\* an end by itself and no task of the queue will ever be answered.
CloseEnds == \A c \in Conns : conn[c] = "cancelling" ~> conn[c] = "closed"

\* Every chat.cancel is answered, or ends with its connection.
ChatCancelEnds == \A k \in Chats : Active(k) ~> ~Active(k)

\* If agent runs end, every chat request is, unless its work was cancelled or
\* dropped with the queue.
HandlersEnd ==
    TasksEnd => \A t \in Tasks :
        Active(t) ~> ~Active(t) \/ tstat[t] \in {"cancelled", "lost"}

\* The endpoint uses the session queue only as its module allows.
ImplementsQueue == Queue!Spec

\* "Cancel the tasks in flight": when the end of the last connection has been
\* dealt with, no work runs.
NothingLeftRunning ==
    (\A c \in Conns : conn[c] = "closed") => \A t \in Tasks : tstat[t] \notin Queue!Live
==============================================================================
