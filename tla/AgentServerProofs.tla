-------------------------- MODULE AgentServerProofs --------------------------
(***************************************************************************)
(* Proofs about AgentServer, for any sets of sessions, requests and any    *)
(* number of connections.  The endpoint implements SessionManager, so what *)
(* is proved of the session queue holds in the composition too; Finders is *)
(* the inductive invariant behind chat.cancel and send_push finding what   *)
(* they look for.                                                          *)
(***************************************************************************)
EXTENDS AgentServer, TLAPS

QueueProofs == INSTANCE SessionManagerProofs

\* A canceller that has not begun, or is through, awaits nothing.
AtRest(c) == cpc[c] = "idle" /\ target[c] = Nil /\ todo[c] = {}

CancellersAtRest ==
    /\ cpc \in [Cancellers -> {"idle", "waiting", "resumed"}]
    /\ target \in [Cancellers -> Tasks \cup {Nil}]
    /\ todo \in [Cancellers -> SUBSET Sessions]
    /\ hstat \in [Requests -> HandlerState]
    /\ conn \in [Conns -> ConnState]
    /\ subject \in [Chats -> Sessions \cup {Nil}]
    /\ \A k \in Chats : hstat[k] = "interrupting" => subject[k] \in Sessions
    /\ \A c \in Cancellers : cpc[c] = "idle" => AtRest(c)
    /\ \A k \in Chats : hstat[k] \in {"new", "interrupting"} => AtRest(k)
    /\ \A c \in Conns : conn[c] \in {"new", "open"} => AtRest(c)

------------------------------------------------------------------------------
(* The endpoint implements the session queue.                               *)

LEMMA Kinds ==
    /\ Chats \subseteq Cancellers /\ Conns \subseteq Cancellers
    /\ Chats \subseteq Requests /\ Tasks \subseteq Requests
    /\ Tasks \cap Chats = {} /\ Conns \cap Requests = {}
    /\ Cancellers = Chats \cup Conns /\ Requests = Tasks \cup Chats
BY DistinctAssumption DEF Cancellers, Requests

\* A canceller that finds nothing to cancel leaves the queue as it is.
LEMMA CancelWorkImplements ==
    ASSUME NEW c \in Cancellers, NEW S \in SUBSET Sessions,
           (\E s \in Sessions : S = {s}) \/ S = {s \in Sessions : sessTask[s] # Absent},
           CancellersAtRest, AtRest(c), Queue!NoneResuming, CancelWork(c, S)
    PROVE  Queue!Cancel(c) \/ UNCHANGED queueVars
<1>1. CASE \E s \in S : Queue!HasLiveTask(s)
  <2>1. S \in {{s} : s \in Sessions} \cup {{s \in Sessions : sessTask[s] # Absent}}
    OBVIOUS
  <2>2. Queue!CancelNext(c, S)
    BY DEF CancelWork
  <2>3. cpc[c] = "idle" /\ UNCHANGED <<sessTask, queue, prio, proc, cur, tstat, waiter, stamp, arrivals>>
    BY DEF CancelWork, AtRest
  <2>4. Queue!Cancel(c)
    BY <1>1, <2>1, <2>2, <2>3 DEF Queue!Cancel, Queue!history
  <2> QED
    BY <2>4
<1>2. CASE ~ \E s \in S : Queue!HasLiveTask(s)
  <2>1. /\ cpc' = [cpc EXCEPT ![c] = "idle"] /\ target' = [target EXCEPT ![c] = Nil]
        /\ todo' = [todo EXCEPT ![c] = {}] /\ UNCHANGED cancelReq
    BY <1>2 DEF CancelWork, Queue!CancelNext
  <2>2. UNCHANGED <<cpc, target, todo>>
    BY <2>1 DEF CancellersAtRest, AtRest
  <2> QED
    BY <2>1, <2>2 DEF CancelWork, queueVars
<1> QED
  BY <1>1, <1>2

\* Every step is a step of the queue or leaves it as it is.
LEMMA StepImplements == CancellersAtRest /\ [Next]_vars => [Queue!Next]_Queue!vars
<1> SUFFICES ASSUME CancellersAtRest, [Next]_vars
             PROVE  Queue!Next \/ UNCHANGED queueVars
  BY DEF queueVars, Queue!vars
<1>1. ASSUME NEW t \in Tasks,
             Accept(t) \/ Register(t) \/ Answer(t) \/ HandlerStopped(t)
      PROVE  UNCHANGED queueVars
  BY <1>1 DEF Accept, Register, Answer, HandlerStopped
<1>2. ASSUME NEW t \in Tasks, Enqueue(t) \/ HandlerAbandons(t) \/ TaskEnds(t)
      PROVE  Queue!Next
  BY <1>2 DEF Enqueue, HandlerAbandons, TaskEnds, Queue!Next
<1>3. ASSUME NEW k \in Chats, ChatCancel(k)
      PROVE  Queue!Next \/ UNCHANGED queueVars
  <2>1. PICK s \in Sessions : CancelWork(k, {s}) \/ UNCHANGED queueVars
    BY <1>3 DEF ChatCancel
  <2>2. AtRest(k) /\ Queue!NoneResuming /\ k \in Cancellers
    BY <1>3, Kinds DEF ChatCancel, CancellersAtRest
  <2>3. CancelWork(k, {s}) => Queue!Cancel(k) \/ UNCHANGED queueVars
    BY <2>2, CancelWorkImplements
  <2> QED
    BY <2>1, <2>2, <2>3 DEF Queue!Next
<1>4. ASSUME NEW k \in Chats, SupplementCancels(k)
      PROVE  Queue!Next \/ UNCHANGED queueVars
  <2>1. AtRest(k) /\ Queue!NoneResuming /\ k \in Cancellers /\ CancelWork(k, {subject[k]})
    BY <1>4, Kinds DEF SupplementCancels, CancellersAtRest
  <2>2. subject[k] \in Sessions
    BY <1>4 DEF SupplementCancels, CancellersAtRest
  <2> QED
    BY <2>1, <2>2, CancelWorkImplements DEF Queue!Next
<1>5. ASSUME NEW k \in Chats, ChatReplies(k)
      PROVE  UNCHANGED queueVars
  BY <1>5 DEF ChatReplies
<1>6. ASSUME NEW c \in Conns, Open(c) \/ CancelHandlers(c) \/ CloseReturns(c)
      PROVE  UNCHANGED queueVars
  BY <1>6 DEF Open, CancelHandlers, CloseReturns
<1>7. ASSUME NEW c \in Conns, Close(c)
      PROVE  Queue!Next \/ UNCHANGED queueVars
  <2>1. AtRest(c) /\ Queue!NoneResuming /\ c \in Cancellers
    BY <1>7, Kinds DEF Close, CancellersAtRest
  <2>2. CancelWork(c, {s \in Sessions : sessTask[s] # Absent})
    BY <1>7 DEF Close
  <2> QED
    BY <2>1, <2>2, CancelWorkImplements DEF Queue!Next
<1>8. ASSUME NEW c \in Cancellers, CancelOn(c)
      PROVE  Queue!Next
  BY <1>8 DEF CancelOn, Queue!Next
<1>9. QueueStep => Queue!Next
  BY DEF QueueStep, Queue!Next
<1>10. UNCHANGED vars => UNCHANGED queueVars
  BY DEF vars
<1> QED
  BY <1>1, <1>2, <1>3, <1>4, <1>5, <1>6, <1>7, <1>8, <1>9, <1>10
     DEF Next, LoopStep, Request

\* CancelNext moves one canceller, which rests when it has returned.
LEMMA CancelNextRests ==
    ASSUME NEW c \in Cancellers, NEW S \in SUBSET Sessions,
           CancellersAtRest, Queue!CancelNext(c, S)
    PROVE  /\ cpc' \in [Cancellers -> {"idle", "waiting", "resumed"}]
           /\ target' \in [Cancellers -> Tasks \cup {Nil}]
           /\ todo' \in [Cancellers -> SUBSET Sessions]
           /\ \A d \in Cancellers : cpc'[d] = "idle" => AtRest(d)'
           /\ \A d \in Cancellers \ {c} : AtRest(d) => AtRest(d)'
<1>1. CASE /\ cpc' = [cpc EXCEPT ![c] = "idle"] /\ target' = [target EXCEPT ![c] = Nil]
           /\ todo' = [todo EXCEPT ![c] = {}]
  BY <1>1 DEF CancellersAtRest, AtRest
<1>2. CASE \E s \in S, rest \in SUBSET S :
             /\ sessTask[s] \in Tasks
             /\ cpc' = [cpc EXCEPT ![c] = "waiting"]
             /\ target' = [target EXCEPT ![c] = sessTask[s]]
             /\ todo' = [todo EXCEPT ![c] = rest]
  BY <1>2 DEF CancellersAtRest, AtRest
<1> QED
  BY <1>1, <1>2 DEF Queue!CancelNext, Queue!HasLiveTask

\* No step of the queue makes a canceller at rest do anything.
LEMMA RestInv == CancellersAtRest /\ [Next]_vars => CancellersAtRest'
<1> SUFFICES ASSUME CancellersAtRest, [Next]_vars
             PROVE  CancellersAtRest'
  OBVIOUS
<1> USE Kinds
<1>1. ASSUME NEW t \in Tasks, Accept(t) \/ Register(t)
      PROVE  CancellersAtRest'
  BY <1>1 DEF Accept, Register, CancellersAtRest, AtRest, HandlerState, connVars, queueVars
<1>2. ASSUME NEW t \in Tasks, Answer(t) \/ HandlerStopped(t)
      PROVE  CancellersAtRest'
  BY <1>2 DEF Answer, HandlerStopped, EndHandler, CancellersAtRest, AtRest, HandlerState,
              connVars, queueVars
<1>3. ASSUME NEW t \in Tasks, Enqueue(t)
      PROVE  CancellersAtRest'
  BY <1>3 DEF Enqueue, Queue!Submit, Queue!cancelVars, CancellersAtRest, AtRest,
              HandlerState, connVars
<1>4. ASSUME NEW t \in Tasks, HandlerAbandons(t)
      PROVE  CancellersAtRest'
  BY <1>4 DEF HandlerAbandons, Queue!Abandon, Queue!cancelVars, EndHandler,
              CancellersAtRest, AtRest, HandlerState, connVars
<1>5. ASSUME NEW t \in Tasks, TaskEnds(t)
      PROVE  CancellersAtRest'
  BY <1>5 DEF TaskEnds, Queue!Finish, Queue!OnlyTasksChange, Queue!cancelVars,
              CancellersAtRest, AtRest, handlerVars, connVars
<1>6. ASSUME NEW k \in Chats, ChatCancel(k)
      PROVE  CancellersAtRest'
  <2>1. PICK s \in Sessions :
           /\ subject' = [subject EXCEPT ![k] = s]
           /\ \/ /\ hstat' = [hstat EXCEPT ![k] = "cancelling"]
                 /\ CancelWork(k, {s})
              \/ /\ hstat' = [hstat EXCEPT ![k] = "interrupting"]
                 /\ UNCHANGED <<queueVars, aim>>
    BY <1>6 DEF ChatCancel
  <2>2. UNCHANGED conn /\ hstat[k] = "new"
    BY <1>6 DEF ChatCancel, connVars
  <2>3. CASE hstat' = [hstat EXCEPT ![k] = "cancelling"] /\ CancelWork(k, {s})
    <3>1. Queue!CancelNext(k, {s}) /\ {s} \in SUBSET Sessions
      BY <2>3 DEF CancelWork
    <3> QED
      BY <3>1, <2>1, <2>2, <2>3, CancelNextRests DEF CancellersAtRest, HandlerState
  <2>4. CASE hstat' = [hstat EXCEPT ![k] = "interrupting"] /\ UNCHANGED <<queueVars, aim>>
    BY <2>1, <2>2, <2>4 DEF CancellersAtRest, AtRest, HandlerState, queueVars
  <2> QED
    BY <2>1, <2>3, <2>4
<1>7. ASSUME NEW k \in Chats, SupplementCancels(k)
      PROVE  CancellersAtRest'
  <2>1. Queue!CancelNext(k, {subject[k]}) /\ {subject[k]} \in SUBSET Sessions
    BY <1>7 DEF SupplementCancels, CancelWork, CancellersAtRest
  <2>2. hstat' = [hstat EXCEPT ![k] = "cancelling"] /\ UNCHANGED <<conn, subject>>
    BY <1>7 DEF SupplementCancels, connVars
  <2> QED
    BY <2>1, <2>2, CancelNextRests DEF CancellersAtRest, HandlerState
<1>8. ASSUME NEW k \in Chats, ChatReplies(k)
      PROVE  CancellersAtRest'
  BY <1>8 DEF ChatReplies, EndHandler, CancellersAtRest, AtRest, HandlerState,
              connVars, queueVars
<1>9. ASSUME NEW c \in Conns, Open(c) \/ CancelHandlers(c) \/ CloseReturns(c)
      PROVE  CancellersAtRest'
  BY <1>9 DEF Open, CancelHandlers, CloseReturns, CancellersAtRest, AtRest, ConnState,
              handlerVars, queueVars
<1>10. ASSUME NEW c \in Conns, Close(c)
       PROVE  CancellersAtRest'
  <2>1. Queue!CancelNext(c, {s \in Sessions : sessTask[s] # Absent})
    BY <1>10 DEF Close, CancelWork
  <2>2. conn' = [conn EXCEPT ![c] = "cancelling"] /\ UNCHANGED <<hstat, subject>>
    BY <1>10 DEF Close
  <2>3. {s \in Sessions : sessTask[s] # Absent} \in SUBSET Sessions
    OBVIOUS
  <2> QED
    BY <2>1, <2>2, <2>3, CancelNextRests DEF CancellersAtRest, ConnState
<1>11. ASSUME NEW c \in Cancellers, CancelOn(c)
       PROVE  CancellersAtRest'
  <2>1. Queue!CancelNext(c, todo[c]) /\ todo[c] \in SUBSET Sessions /\ cpc[c] = "resumed"
    BY <1>11 DEF CancelOn, Queue!CancellerResumes, CancellersAtRest
  <2>2. UNCHANGED <<hstat, subject, conn>>
    BY <1>11 DEF CancelOn, handlerVars, connVars
  <2>3. \A d \in Cancellers : AtRest(d) => d # c
    BY <2>1 DEF AtRest
  <2> QED
    BY <2>1, <2>2, <2>3, CancelNextRests DEF CancellersAtRest
<1>12. CASE QueueStep
  <2>1. UNCHANGED <<hstat, subject, conn>>
    BY <1>12 DEF QueueStep, handlerVars, connVars
  <2>2. /\ UNCHANGED <<target, todo>>
        /\ \/ UNCHANGED cpc
           \/ \E t : cpc' = [c \in Cancellers |->
                 IF cpc[c] = "waiting" /\ target[c] = t THEN "resumed" ELSE cpc[c]]
    <3>1. ASSUME NEW t \in Tasks, Queue!Begin(t) \/ Queue!Interrupted(t)
          PROVE  UNCHANGED <<cpc, target, todo>>
      BY <3>1 DEF Queue!Begin, Queue!Interrupted, Queue!OnlyTasksChange, Queue!cancelVars
    <3>2. ASSUME NEW s \in Sessions, Queue!Dequeue(s)
          PROVE  UNCHANGED <<cpc, target, todo>>
      BY <3>2 DEF Queue!Dequeue, Queue!cancelVars
    <3>3. ASSUME NEW s \in Sessions, Queue!ProcessorNext(s) \/ Queue!ProcessorExit(s)
          PROVE  /\ UNCHANGED <<target, todo>>
                 /\ Queue!WakeCancellers(cur[s])
      BY <3>3 DEF Queue!ProcessorNext, Queue!ProcessorExit
    <3> QED
      BY <1>12, <3>1, <3>2, <3>3 DEF QueueStep, Queue!WakeCancellers
  <2> QED
    BY <2>1, <2>2 DEF CancellersAtRest, AtRest
<1>13. CASE UNCHANGED vars
  BY <1>13 DEF vars, queueVars, handlerVars, connVars, CancellersAtRest, AtRest
<1> QED
  BY <1>1, <1>2, <1>3, <1>4, <1>5, <1>6, <1>7, <1>8, <1>9, <1>10, <1>11, <1>12, <1>13
     DEF Next, LoopStep, Request

\* The endpoint implements the session queue: whatever requests, cancellations
\* and connections do, the queue sees only submissions, abandoned waits and
\* cancellers it allows for.
THEOREM QueueOnly == Spec => ImplementsQueue
<1>1. Init => Queue!Init /\ CancellersAtRest
  BY Kinds DEF Init, Queue!Init, CancellersAtRest, AtRest, HandlerState, ConnState
<1> QED
  BY <1>1, StepImplements, RestInv, PTL DEF Spec, ImplementsQueue, Queue!Spec

LEMMA SameQueue ==
    /\ Queue!Init <=> QueueProofs!Init
    /\ Queue!Next <=> QueueProofs!Next
    /\ Queue!vars = QueueProofs!vars
<1>1. /\ Queue!Init <=> QueueProofs!Init
      /\ Queue!vars = QueueProofs!vars
  BY DEF Queue!Init, QueueProofs!Init, Queue!vars, QueueProofs!vars
<1>2. Queue!NoneResuming <=> QueueProofs!NoneResuming
  BY DEF Queue!NoneResuming, QueueProofs!NoneResuming
<1>3. ASSUME NEW t \in Tasks
      PROVE  /\ Queue!Submit(t) <=> QueueProofs!Submit(t)
             /\ Queue!Abandon(t) <=> QueueProofs!Abandon(t)
             /\ Queue!Begin(t) <=> QueueProofs!Begin(t)
             /\ Queue!Finish(t) <=> QueueProofs!Finish(t)
             /\ Queue!Interrupted(t) <=> QueueProofs!Interrupted(t)
  BY <1>2 DEF Queue!Submit, QueueProofs!Submit, Queue!Abandon, QueueProofs!Abandon,
     Queue!Begin, QueueProofs!Begin, Queue!Finish, QueueProofs!Finish,
     Queue!Interrupted, QueueProofs!Interrupted, Queue!BaseQueue, QueueProofs!BaseQueue,
     Queue!BasePrio, QueueProofs!BasePrio, Queue!EnsureProcessor,
     QueueProofs!EnsureProcessor, Queue!Resolve, QueueProofs!Resolve,
     Queue!OnlyTasksChange, QueueProofs!OnlyTasksChange, Queue!Live, QueueProofs!Live,
     Queue!cancelVars, QueueProofs!cancelVars, Queue!history, QueueProofs!history
<1>4. ASSUME NEW s \in Sessions
      PROVE  Queue!StartNext(s) <=> QueueProofs!StartNext(s)
  BY DEF Queue!StartNext, QueueProofs!StartNext, Queue!IsFirst, QueueProofs!IsFirst
<1>5. ASSUME NEW s \in Sessions
      PROVE  /\ Queue!Dequeue(s) <=> QueueProofs!Dequeue(s)
             /\ Queue!ProcessorNext(s) <=> QueueProofs!ProcessorNext(s)
             /\ Queue!ProcessorExit(s) <=> QueueProofs!ProcessorExit(s)
  BY <1>2, <1>4 DEF Queue!Dequeue, QueueProofs!Dequeue, Queue!ProcessorNext,
     QueueProofs!ProcessorNext, Queue!ProcessorExit, QueueProofs!ProcessorExit,
     Queue!WakeCancellers, QueueProofs!WakeCancellers,
     Queue!cancelVars, QueueProofs!cancelVars, Queue!history, QueueProofs!history
<1>6. ASSUME NEW s
      PROVE  Queue!HasLiveTask(s) <=> QueueProofs!HasLiveTask(s)
  BY DEF Queue!HasLiveTask, QueueProofs!HasLiveTask, Queue!Live, QueueProofs!Live
<1>7. ASSUME NEW c, NEW S
      PROVE  Queue!CancelNext(c, S) <=> QueueProofs!CancelNext(c, S)
  BY <1>6 DEF Queue!CancelNext, QueueProofs!CancelNext
<1>8. ASSUME NEW c \in Cancellers
      PROVE  /\ Queue!Cancel(c) <=> QueueProofs!Cancel(c)
             /\ Queue!CancellerResumes(c) <=> QueueProofs!CancellerResumes(c)
  BY <1>2, <1>6, <1>7 DEF Queue!Cancel, QueueProofs!Cancel, Queue!CancellerResumes,
     QueueProofs!CancellerResumes, Queue!history, QueueProofs!history
<1> QED
  BY <1>1, <1>3, <1>5, <1>8 DEF Queue!Next, QueueProofs!Next

\* What is proved of the session queue holds of the endpoint's.
LEMMA QueueInvariant == Spec => []QueueProofs!IInv
<1>1. Nil \notin Tasks /\ Absent \notin Tasks /\ Nil # Absent
  BY NilAssumption DEF Requests
<1>2. QueueProofs!Spec => []QueueProofs!IInv
  BY <1>1, QueueProofs!Invariance, StreamsAssumption, SessionOfAssumption, PTL
<1>3. Queue!Init => QueueProofs!Init
  BY SameQueue
<1>4. [Queue!Next]_Queue!vars => [QueueProofs!Next]_QueueProofs!vars
  BY SameQueue DEF Queue!vars, QueueProofs!vars
<1>5. Queue!Spec => QueueProofs!Spec
  BY <1>3, <1>4, PTL DEF Queue!Spec, QueueProofs!Spec
<1> QED
  BY QueueOnly, <1>2, <1>5, PTL DEF ImplementsQueue

\* In the composition too, tasks of a session never overlap.
THEOREM SessionsExclusive == Spec => []Queue!OneTaskPerSession
<1>1. QueueProofs!IInv => Queue!OneTaskPerSession
  BY DEF QueueProofs!IInv, QueueProofs!Awaited, QueueProofs!Live, Queue!OneTaskPerSession,
         Queue!Executing, Queue!Live
<1> QED
  BY <1>1, QueueInvariant, PTL

------------------------------------------------------------------------------
(* Finding streams and the connection.                                      *)

HandlerTypes ==
    /\ hstat \in [Requests -> HandlerState]
    /\ hcancel \in [Requests -> BOOLEAN]
    /\ via \in [Requests -> Conns \cup {Nil}]
    /\ subject \in [Chats -> Sessions \cup {Nil}]
    /\ streamTask \in [Sessions -> Streams \cup {Nil}]
    /\ conn \in [Conns -> ConnState]
    /\ currentWs \in Conns \cup {Nil}
    /\ latest \in [Sessions -> Streams \cup {Nil}]
    /\ overlap \in BOOLEAN
    /\ aim \in [Cancellers -> SUBSET Tasks]

\* The latest stream of a session has entered its handler and not yet ended,
\* and no request came by a connection that was never opened.
Finders ==
    /\ HandlerTypes
    /\ \A r \in Requests : via[r] # Nil => conn[via[r]] # "new"
    /\ \A r \in Requests : Active(r) => via[r] # Nil
    /\ \A s \in Sessions : latest[s] # Nil =>
          SessionOf[latest[s]] = s /\ hstat[latest[s]] \in {"preparing", "waiting"}
    /\ LatestStreamFound
    /\ PushFindsConnection

LEMMA ConnNil == Nil \notin Conns /\ Nil \notin Requests /\ Streams \subseteq Requests
BY NilAssumption, StreamsAssumption DEF Requests

\* The end of a handler takes away its own entry and nobody else's.
LEMMA EndHandlerFinders ==
    ASSUME NEW r \in Requests, Finders, EndHandler(r), UNCHANGED connVars,
           streamTask' = Unregister(r) \/ streamTask' = streamTask
    PROVE  Finders'
<1> USE Kinds, ConnNil
<1>1. HandlerTypes'
  BY DEF Finders, HandlerTypes, EndHandler, Unregister, HandlerState, connVars
<1>2. \A q \in Requests : via'[q] = (IF q = r THEN Nil ELSE via[q])
  BY DEF Finders, HandlerTypes, EndHandler
<1>3. \A q \in Requests : hstat'[q] = (IF q = r THEN "ended" ELSE hstat[q])
  BY DEF Finders, HandlerTypes, EndHandler
<1>4. \A s \in Sessions : latest'[s] = (IF latest[s] = r THEN Nil ELSE latest[s])
  BY DEF EndHandler
<1>5. \A s \in Sessions : streamTask'[s] = streamTask[s] \/ streamTask[s] = r
  BY DEF Unregister
<1>6. \A s \in Sessions : latest[s] \in Requests \cup {Nil}
  BY DEF Finders, HandlerTypes
<1>7. /\ \A q \in Requests : via'[q] # Nil => conn'[via'[q]] # "new"
      /\ \A q \in Requests : Active(q)' => via'[q] # Nil
  BY <1>2, <1>3 DEF Finders, Active, connVars
<1>8. \A s \in Sessions : latest'[s] # Nil =>
         SessionOf[latest'[s]] = s /\ hstat'[latest'[s]] \in {"preparing", "waiting"}
  BY <1>3, <1>4, <1>6 DEF Finders
<1>9. LatestStreamFound'
  BY <1>2, <1>4, <1>5, <1>6 DEF Finders, LatestStreamFound, connVars
<1>10. PushFindsConnection'
  BY DEF Finders, PushFindsConnection, connVars
<1> QED
  BY <1>1, <1>7, <1>8, <1>9, <1>10 DEF Finders

\* A step that leaves streams, requests' connections and the connections alone
\* and only moves handlers on keeps Finders.
LEMMA HandlersMoveOn ==
    ASSUME Finders, HandlerTypes', UNCHANGED <<via, streamTask, latest, connVars>>,
           \A r \in Requests : Active(r)' => Active(r),
           \A r \in Streams : hstat[r] \in {"preparing", "waiting"} =>
                                 hstat'[r] \in {"preparing", "waiting"}
    PROVE  Finders'
<1>1. \A s \in Sessions : latest[s] # Nil => latest[s] \in Streams
  BY DEF Finders, HandlerTypes
<1> QED
  BY <1>1 DEF Finders, LatestStreamFound, PushFindsConnection, connVars

LEMMA FindersInv == Finders /\ [Next]_vars => Finders'
<1> SUFFICES ASSUME Finders, [Next]_vars
             PROVE  Finders'
  OBVIOUS
<1> USE Kinds, ConnNil
<1>1. ASSUME NEW t \in Tasks, Accept(t)
      PROVE  Finders'
  <2>1. PICK c \in Conns : conn[c] = "open" /\ via' = [via EXCEPT ![t] = c]
    BY <1>1 DEF Accept, Arrives
  <2>2. /\ hstat[t] = "new" /\ hstat' = [hstat EXCEPT ![t] = "accepted"]
        /\ UNCHANGED <<hcancel, subject, streamTask, latest, aim, connVars>>
    BY <1>1 DEF Accept
  <2>3. HandlerTypes'
    BY <2>1, <2>2 DEF Finders, HandlerTypes, HandlerState, connVars
  <2>4. \A s \in Sessions : latest[s] # Nil => latest[s] \in Requests /\ latest[s] # t
    BY <2>2 DEF Finders, HandlerTypes
  <2> QED
    BY <2>1, <2>2, <2>3, <2>4
       DEF Finders, HandlerTypes, Active, LatestStreamFound, PushFindsConnection, connVars
<1>2. ASSUME NEW t \in Tasks, Register(t)
      PROVE  Finders'
  <2> DEFINE s == SessionOf[t]
  <2>1. /\ t \in Streams /\ hstat[t] = "accepted" /\ hstat' = [hstat EXCEPT ![t] = "preparing"]
        /\ streamTask' = [streamTask EXCEPT ![s] = t] /\ latest' = [latest EXCEPT ![s] = t]
        /\ UNCHANGED <<hcancel, via, subject, aim, connVars>>
    BY <1>2 DEF Register
  <2>2. s \in Sessions
    BY SessionOfAssumption
  <2>3. HandlerTypes'
    BY <2>1, <2>2 DEF Finders, HandlerTypes, HandlerState, connVars
  <2>4. \A q \in Sessions : latest[q] # Nil => latest[q] \in Requests /\ latest[q] # t
    BY <2>1 DEF Finders, HandlerTypes
  <2> QED
    BY <2>1, <2>2, <2>3, <2>4
       DEF Finders, HandlerTypes, Active, LatestStreamFound, PushFindsConnection, connVars
<1>3. ASSUME NEW t \in Tasks, Answer(t) \/ HandlerStopped(t) \/ HandlerAbandons(t)
      PROVE  Finders'
  <2>1. EndHandler(t) /\ UNCHANGED connVars
    BY <1>3 DEF Answer, HandlerStopped, HandlerAbandons
  <2>2. streamTask' = Unregister(t) \/ streamTask' = streamTask
    BY <1>3 DEF Answer, HandlerStopped, HandlerAbandons
  <2> QED
    BY <2>1, <2>2, EndHandlerFinders
<1>4. ASSUME NEW t \in Tasks, Enqueue(t)
      PROVE  Finders'
  <2>1. /\ hstat[t] \in {"preparing", "accepted"} /\ hstat' = [hstat EXCEPT ![t] = "waiting"]
        /\ UNCHANGED <<hcancel, via, subject, streamTask, latest, connVars, aim>>
    BY <1>4 DEF Enqueue
  <2>2. HandlerTypes'
    BY <2>1 DEF Finders, HandlerTypes, HandlerState, connVars
  <2>3. \A r \in Requests : hstat'[r] = IF r = t THEN "waiting" ELSE hstat[r]
    BY <2>1 DEF Finders, HandlerTypes
  <2>4. \A r \in Requests : Active(r)' => Active(r)
    BY <2>1, <2>3 DEF Active
  <2>5. \A r \in Streams : hstat[r] \in {"preparing", "waiting"} =>
                               hstat'[r] \in {"preparing", "waiting"}
    BY <2>3
  <2> QED
    BY <2>1, <2>2, <2>4, <2>5, HandlersMoveOn
<1>5. ASSUME NEW k \in Chats, ChatCancel(k)
      PROVE  Finders'
  <2>1. PICK c \in Conns : conn[c] = "open" /\ via' = [via EXCEPT ![k] = c]
    BY <1>5 DEF ChatCancel, Arrives
  <2>2. PICK s \in Sessions :
          /\ subject' = [subject EXCEPT ![k] = s]
          /\ hcancel' = [r \in Requests |-> hcancel[r] \/ (r = streamTask[s] /\ Active(r))]
          /\ \/ /\ hstat' = [hstat EXCEPT ![k] = "cancelling"]
                /\ CancelWork(k, {s})
             \/ /\ hstat' = [hstat EXCEPT ![k] = "interrupting"]
                /\ UNCHANGED <<queueVars, aim>>
    BY <1>5 DEF ChatCancel
  <2>3. hstat[k] = "new" /\ UNCHANGED <<streamTask, latest, connVars>>
    BY <1>5 DEF ChatCancel
  <2>4. PICK st \in {"cancelling", "interrupting"} : hstat' = [hstat EXCEPT ![k] = st]
    BY <2>2
  <2>5. aim' \in [Cancellers -> SUBSET Tasks]
    BY <2>2 DEF CancelWork, RunningIn, Finders, HandlerTypes
  <2>6. HandlerTypes'
    BY <2>1, <2>2, <2>3, <2>4, <2>5 DEF Finders, HandlerTypes, HandlerState, connVars
  <2>7. \A q \in Sessions : latest[q] # Nil => latest[q] \in Requests /\ latest[q] # k
    BY <2>3 DEF Finders, HandlerTypes
  <2> QED
    BY <2>1, <2>3, <2>4, <2>6, <2>7
       DEF Finders, HandlerTypes, Active, LatestStreamFound, PushFindsConnection, connVars
<1>6. ASSUME NEW k \in Chats, SupplementCancels(k)
      PROVE  Finders'
  <2>1. /\ hstat[k] = "interrupting" /\ hstat' = [hstat EXCEPT ![k] = "cancelling"]
        /\ CancelWork(k, {subject[k]})
        /\ UNCHANGED <<hcancel, via, subject, streamTask, latest, connVars>>
    BY <1>6 DEF SupplementCancels
  <2>2. HandlerTypes'
    BY <2>1 DEF Finders, HandlerTypes, HandlerState, connVars, CancelWork, RunningIn
  <2>3. \A r \in Requests : Active(r)' => Active(r)
    BY <2>1 DEF Finders, HandlerTypes, Active
  <2>4. \A r \in Streams : hstat[r] \in {"preparing", "waiting"} =>
                               hstat'[r] \in {"preparing", "waiting"}
    BY <2>1 DEF Finders, HandlerTypes
  <2> QED
    BY <2>1, <2>2, <2>3, <2>4, HandlersMoveOn
<1>7. ASSUME NEW k \in Chats, ChatReplies(k)
      PROVE  Finders'
  BY <1>7, EndHandlerFinders DEF ChatReplies
<1>8. ASSUME NEW c \in Conns, Open(c)
      PROVE  Finders'
  <2>1. /\ conn[c] = "new" /\ conn' = [conn EXCEPT ![c] = "open"] /\ currentWs' = c
        /\ overlap' = (overlap \/ \E d \in Conns : conn[d] = "open")
        /\ UNCHANGED <<handlerVars, aim>>
    BY <1>8 DEF Open
  <2>2. HandlerTypes'
    BY <2>1 DEF Finders, HandlerTypes, ConnState, handlerVars
  <2>3. \A r \in Requests : via[r] # c
    BY <2>1 DEF Finders
  <2>4. \A d \in Conns : conn'[d] = IF d = c THEN "open" ELSE conn[d]
    BY <2>1 DEF Finders, HandlerTypes
  <2>5. \A s \in Sessions : latest[s] # Nil => latest[s] \in Requests
    BY DEF Finders, HandlerTypes
  <2>6. /\ \A r \in Requests : via'[r] # Nil => conn'[via'[r]] # "new"
        /\ \A r \in Requests : Active(r)' => via'[r] # Nil
        /\ \A s \in Sessions : latest'[s] # Nil =>
              SessionOf[latest'[s]] = s /\ hstat'[latest'[s]] \in {"preparing", "waiting"}
    BY <2>1, <2>3, <2>4 DEF Finders, HandlerTypes, Active, handlerVars
  <2>7. PushFindsConnection'
    BY <2>1, <2>4 DEF PushFindsConnection
  <2>8. LatestStreamFound'
    BY <2>1, <2>3, <2>4, <2>5 DEF Finders, HandlerTypes, LatestStreamFound, handlerVars
  <2> QED
    BY <2>2, <2>6, <2>7, <2>8 DEF Finders
<1>9. ASSUME NEW c \in Conns, Close(c)
      PROVE  Finders'
  <2>1. /\ conn[c] = "open" /\ conn' = [conn EXCEPT ![c] = "cancelling"] /\ currentWs' = Nil
        /\ streamTask' = [s \in Sessions |-> Nil]
        /\ CancelWork(c, {s \in Sessions : sessTask[s] # Absent})
        /\ UNCHANGED <<hstat, hcancel, via, subject, latest, overlap>>
    BY <1>9 DEF Close
  <2>2. HandlerTypes'
    BY <2>1 DEF Finders, HandlerTypes, ConnState, CancelWork, RunningIn
  <2>3. ~overlap => \A d \in Conns : conn'[d] # "open"
    BY <2>1 DEF Finders, HandlerTypes, PushFindsConnection
  <2> QED
    BY <2>1, <2>2, <2>3
       DEF Finders, HandlerTypes, Active, LatestStreamFound, PushFindsConnection
<1>10. ASSUME NEW c \in Conns, CancelHandlers(c) \/ CloseReturns(c)
       PROVE  Finders'
  <2>1. PICK st \in {"gathering", "closed"} : conn' = [conn EXCEPT ![c] = st]
    BY <1>10 DEF CancelHandlers, CloseReturns
  <2>2. UNCHANGED <<hstat, via, subject, streamTask, latest, currentWs, overlap>>
    BY <1>10 DEF CancelHandlers, CloseReturns, handlerVars
  <2>3. hcancel' \in [Requests -> BOOLEAN] /\ aim' \in [Cancellers -> SUBSET Tasks]
    <3>1. CASE CancelHandlers(c)
      BY <3>1 DEF CancelHandlers, Finders, HandlerTypes
    <3>2. CASE CloseReturns(c)
      BY <3>2 DEF CloseReturns, Finders, HandlerTypes, handlerVars
    <3> QED
      BY <1>10, <3>1, <3>2
  <2>4. HandlerTypes'
    BY <2>1, <2>2, <2>3 DEF Finders, HandlerTypes, ConnState
  <2> QED
    BY <2>1, <2>2, <2>4
       DEF Finders, HandlerTypes, Active, LatestStreamFound, PushFindsConnection
<1>11. ASSUME UNCHANGED <<handlerVars, connVars, aim>>
       PROVE  Finders'
  BY <1>11 DEF Finders, HandlerTypes, Active, LatestStreamFound, PushFindsConnection,
               handlerVars, connVars
<1>12. QueueStep \/ (\E c \in Cancellers : CancelOn(c)) \/ (\E t \in Tasks : TaskEnds(t))
       \/ UNCHANGED vars => UNCHANGED <<handlerVars, connVars, aim>>
  BY DEF QueueStep, CancelOn, TaskEnds, vars
<1> QED
  BY <1>1, <1>2, <1>3, <1>4, <1>5, <1>6, <1>7, <1>8, <1>9, <1>10, <1>11, <1>12
     DEF Next, LoopStep, Request

LEMMA FindersAlways == Spec => []Finders
<1>1. ASSUME Init PROVE HandlerTypes
  BY <1>1, Kinds DEF Init, HandlerTypes, HandlerState, ConnState
<1>2. ASSUME Init PROVE Finders
  BY <1>1, <1>2 DEF Init, Finders, Active, LatestStreamFound, PushFindsConnection
<1> QED
  BY <1>2, FindersInv, PTL DEF Spec

\* Handlers, connections and the queue keep their types.
THEOREM TypeCorrect == Spec => []TypeOK
<1>1. Finders /\ QueueProofs!IInv => TypeOK
  BY DEF Finders, HandlerTypes, TypeOK, QueueProofs!IInv, QueueProofs!TypeOK, Queue!TypeOK,
     QueueProofs!TaskState, Queue!TaskState, QueueProofs!Priorities, Queue!Priorities,
     QueueProofs!Items, Queue!Items
<1> QED
  BY <1>1, FindersAlways, QueueInvariant, PTL

\* Unless connections overlap, chat.cancel finds the latest stream of a session
\* for as long as it is being served on an open connection.
THEOREM StreamsFound == Spec => []LatestStreamFound
<1>1. Finders => LatestStreamFound
  BY DEF Finders
<1> QED
  BY <1>1, FindersAlways, PTL

\* Unless connections overlap, send_push finds the open connection.
THEOREM PushesFind == Spec => []PushFindsConnection
<1>1. Finders => PushFindsConnection
  BY DEF Finders
<1> QED
  BY <1>1, FindersAlways, PTL
------------------------------------------------------------------------------
(* Cancelling is effective.  A canceller aims at the tasks it found running. *)
(* Each of these is over, or the one it awaits, or still the one the table   *)
(* shows for a session it has yet to visit (Aims).  Nobody who overwrites    *)
(* the table does so in that session meanwhile, since whoever awaits a task  *)
(* of a session awaits the one its processor does (Joins).                   *)

\* What the queue's invariant says of running and queued tasks.
QueueFacts ==
    /\ sessTask \in [Sessions -> Tasks \cup {Nil, Absent}]
    /\ cur \in [Sessions -> Tasks \cup {Nil}]
    /\ tstat \in [Tasks -> Queue!TaskState]
    /\ cpc \in [Cancellers -> {"idle", "waiting", "resumed"}]
    /\ target \in [Cancellers -> Tasks \cup {Nil}]
    /\ todo \in [Cancellers -> SUBSET Sessions]
    /\ \A s \in Sessions : proc[s] = "busy" <=> cur[s] # Nil
    /\ \A s \in Sessions : cur[s] \in Tasks => SessionOf[cur[s]] = s
    /\ \A t \in Tasks : tstat[t] \in Queue!Live => cur[SessionOf[t]] = t
    /\ \A s \in Sessions : \A i \in queue[s] :
          i.task \in Tasks /\ SessionOf[i.task] = s /\ tstat[i.task] = "queued"

LEMMA QueueKnown == QueueProofs!IInv => QueueFacts
BY DEF QueueFacts, QueueProofs!IInv, QueueProofs!TypeOK, QueueProofs!Awaited,
       QueueProofs!Queued, QueueProofs!Live, Queue!Live, QueueProofs!TaskState,
       Queue!TaskState, QueueProofs!Items

Filed == \A s \in Sessions : sessTask[s] \in Tasks => SessionOf[sessTask[s]] = s

Joins ==
    \A c \in Cancellers :
        /\ cpc[c] = "waiting" => target[c] \in Tasks /\ cur[SessionOf[target[c]]] = target[c]
        /\ cpc[c] = "resumed" => target[c] \in Tasks

Begun(t) == tstat[t] \in Queue!Live \cup Queue!Ended

Aims ==
    \A c \in Cancellers : \A t \in aim[c] :
        /\ Begun(t)
        /\ tstat[t] \in Queue!Live =>
              /\ \/ cpc[c] = "waiting" /\ target[c] = t
                 \/ SessionOf[t] \in todo[c] /\ sessTask[SessionOf[t]] = t
              /\ \A d \in Cancellers : cpc[d] = "resumed" => SessionOf[target[d]] # SessionOf[t]

Unaimed == \A k \in Chats : hstat[k] \in {"new", "interrupting"} => aim[k] = {}

AimTypes == aim \in [Cancellers -> SUBSET Tasks]
Effective == Filed /\ Joins /\ Aims

\* Tasks that move on without a processor or canceller doing so.
LEMMA EffectiveQuiet ==
    ASSUME QueueFacts, Effective, AimTypes,
           UNCHANGED <<sessTask, cur, cpc, target, todo>>,
           \A t \in Tasks : Begun(t) => Begun(t)' /\ (tstat'[t] \in Queue!Live =>
                                                        tstat[t] \in Queue!Live),
           \A c \in Cancellers : aim'[c] \subseteq aim[c]
    PROVE  Effective'
<1>1. Filed' /\ Joins'
  BY DEF Effective, Filed, Joins
<1>2. Aims'
  BY DEF Effective, Aims, AimTypes
<1> QED
  BY <1>1, <1>2 DEF Effective

\* A processor takes an item.
LEMMA TakesQueued ==
    ASSUME QueueFacts, NEW s \in Sessions, Queue!StartNext(s)
    PROVE  /\ sessTask'[s] \in Tasks /\ SessionOf[sessTask'[s]] = s
           /\ \A r \in Sessions : r # s => cur'[r] = cur[r] /\ sessTask'[r] = sessTask[r]
           /\ \A t \in Tasks : tstat'[t] # tstat[t] => tstat[t] = "queued"
BY DEF Queue!StartNext, QueueFacts

\* A step of one session's processor that wakes those who await its task.
LEMMA EffectiveProcessor ==
    ASSUME QueueFacts, Effective, AimTypes, NEW s \in Sessions, Queue!NoneResuming,
           UNCHANGED <<target, todo, aim>>,
           \A r \in Sessions : r # s => cur'[r] = cur[r] /\ sessTask'[r] = sessTask[r],
           sessTask'[s] \in Tasks => SessionOf[sessTask'[s]] = s,
           \A t \in Tasks : tstat'[t] # tstat[t] => tstat[t] = "queued",
           \A t \in Tasks : tstat[t] \in Queue!Live => SessionOf[t] # s,
           \A c \in Cancellers :
              /\ cpc'[c] = "waiting" => cpc[c] = "waiting" /\ target[c] # cur[s]
              /\ cpc'[c] = "resumed" => cpc[c] = "waiting" /\ target[c] = cur[s]
              /\ cpc[c] = "waiting" /\ target[c] # cur[s] => cpc'[c] = "waiting"
    PROVE  Effective'
<1>1. Filed'
  BY DEF Effective, Filed
<1>2. Joins'
  <2> SUFFICES ASSUME NEW c \in Cancellers
               PROVE  /\ cpc'[c] = "waiting" =>
                            target[c] \in Tasks /\ cur'[SessionOf[target[c]]] = target[c]
                      /\ cpc'[c] = "resumed" => target[c] \in Tasks
    BY DEF Joins
  <2>1. cpc[c] = "waiting" => target[c] \in Tasks /\ cur[SessionOf[target[c]]] = target[c]
    BY DEF Effective, Joins
  <2>2. cpc[c] = "waiting" => SessionOf[target[c]] \in Sessions
    BY <2>1, SessionOfAssumption
  <2> QED
    BY <2>1, <2>2
<1>3. Aims'
  <2> SUFFICES ASSUME NEW c \in Cancellers, NEW t \in aim[c]
               PROVE  /\ Begun(t)'
                      /\ tstat'[t] \in Queue!Live =>
                            /\ \/ cpc'[c] = "waiting" /\ target[c] = t
                               \/ SessionOf[t] \in todo[c] /\ sessTask'[SessionOf[t]] = t
                            /\ \A d \in Cancellers :
                                  cpc'[d] = "resumed" => SessionOf[target[d]] # SessionOf[t]
    BY DEF Aims
  <2>1. t \in Tasks /\ SessionOf[t] \in Sessions
    BY SessionOfAssumption DEF AimTypes
  <2>2. Begun(t) /\ tstat'[t] = tstat[t]
    BY <2>1 DEF Effective, Aims, Begun, Queue!Live, Queue!Ended
  <2>3. Begun(t)'
    BY <2>2 DEF Begun
  <2>4. ASSUME tstat'[t] \in Queue!Live
        PROVE  /\ \/ cpc'[c] = "waiting" /\ target[c] = t
                  \/ SessionOf[t] \in todo[c] /\ sessTask'[SessionOf[t]] = t
               /\ \A d \in Cancellers : cpc'[d] = "resumed" => SessionOf[target[d]] # SessionOf[t]
    <3>1. tstat[t] \in Queue!Live /\ SessionOf[t] # s
      BY <2>1, <2>2, <2>4
    <3>2. t # cur[s]
      BY <2>1, <3>1 DEF QueueFacts
    <3>3. \/ cpc[c] = "waiting" /\ target[c] = t
          \/ SessionOf[t] \in todo[c] /\ sessTask[SessionOf[t]] = t
      BY <3>1 DEF Effective, Aims
    <3>4. \A d \in Cancellers : cpc'[d] = "resumed" => target[d] = cur[s] /\ SessionOf[target[d]] = s
      BY DEF Effective, Joins, QueueFacts
    <3> QED
      BY <2>1, <3>1, <3>2, <3>3, <3>4
  <2> QED
    BY <2>3, <2>4
<1> QED
  BY <1>1, <1>2, <1>3 DEF Effective

\* The queue's own steps.
LEMMA EffectiveQueue ==
    ASSUME QueueFacts, Effective, AimTypes, QueueStep PROVE Effective'
<1>1. ASSUME NEW t \in Tasks, Queue!Begin(t) \/ Queue!Interrupted(t) PROVE Effective'
  <2>1. UNCHANGED <<sessTask, cur, cpc, target, todo, aim>>
    BY <1>1 DEF QueueStep, Queue!Begin, Queue!Interrupted, Queue!OnlyTasksChange,
       Queue!cancelVars
  <2>2. \A u \in Tasks : Begun(u) => Begun(u)' /\ (tstat'[u] \in Queue!Live =>
                                                      tstat[u] \in Queue!Live)
    BY <1>1 DEF Queue!Begin, Queue!Interrupted, Begun, Queue!Live, Queue!Ended, QueueFacts
  <2> QED
    BY <2>1, <2>2, EffectiveQuiet
<1>2. ASSUME NEW s \in Sessions, Queue!Dequeue(s) PROVE Effective'
  <2>1. /\ Queue!NoneResuming /\ Queue!StartNext(s) /\ cur[s] = Nil
        /\ UNCHANGED <<cpc, target, todo, aim>>
    BY <1>2 DEF QueueStep, Queue!Dequeue, Queue!cancelVars, QueueFacts
  <2>2. \A t \in Tasks : tstat[t] \in Queue!Live => SessionOf[t] # s
    BY <2>1, NilAssumption DEF QueueFacts, Requests
  <2>3. \A c \in Cancellers :
           /\ cpc[c] # "resumed"
           /\ cpc[c] = "waiting" => target[c] # cur[s]
    BY <2>1, NilAssumption DEF Queue!NoneResuming, Effective, Joins, Requests
  <2> QED
    BY <2>1, <2>2, <2>3, TakesQueued, EffectiveProcessor
<1>3. ASSUME NEW s \in Sessions, Queue!ProcessorNext(s) \/ Queue!ProcessorExit(s)
      PROVE  Effective'
  <2>1. /\ Queue!NoneResuming /\ Queue!WakeCancellers(cur[s])
        /\ UNCHANGED <<target, todo, aim>>
        /\ cur[s] \in Tasks /\ tstat[cur[s]] \in {"done", "cancelled"}
    BY <1>3 DEF QueueStep, Queue!ProcessorNext, Queue!ProcessorExit, QueueFacts
  <2>2. \A c \in Cancellers :
           /\ cpc'[c] = "waiting" => cpc[c] = "waiting" /\ target[c] # cur[s]
           /\ cpc'[c] = "resumed" => cpc[c] = "waiting" /\ target[c] = cur[s]
           /\ cpc[c] = "waiting" /\ target[c] # cur[s] => cpc'[c] = "waiting"
    BY <2>1 DEF Queue!WakeCancellers, Queue!NoneResuming
  <2>3. \A t \in Tasks : tstat[t] \in Queue!Live => SessionOf[t] # s
    BY <2>1 DEF QueueFacts, Queue!Live
  <2>4. /\ sessTask'[s] \in Tasks => SessionOf[sessTask'[s]] = s
        /\ \A r \in Sessions : r # s => cur'[r] = cur[r] /\ sessTask'[r] = sessTask[r]
        /\ \A t \in Tasks : tstat'[t] # tstat[t] => tstat[t] = "queued"
    <3>1. CASE Queue!ProcessorNext(s) /\ Queue!StartNext(s)
      BY <3>1, TakesQueued
    <3>2. CASE Queue!ProcessorNext(s) /\ ~Queue!StartNext(s)
      BY <3>2, NilAssumption DEF Queue!ProcessorNext, QueueFacts, Requests
    <3>3. CASE Queue!ProcessorExit(s)
      BY <3>3, NilAssumption DEF Queue!ProcessorExit, QueueFacts, Requests
    <3> QED
      BY <1>3, <3>1, <3>2, <3>3
  <2> QED
    BY <2>1, <2>2, <2>3, <2>4, EffectiveProcessor
<1> QED
  BY <1>1, <1>2, <1>3 DEF QueueStep

\* Whoever visits sessions finds every task the table shows there, now or later.
LEMMA Chooses ==
    ASSUME QueueFacts, Filed, NEW c \in Cancellers, NEW S \in SUBSET Sessions,
           Queue!CancelNext(c, S)
    PROVE  /\ \A t \in Tasks :
                 tstat[t] \in Queue!Live /\ SessionOf[t] \in S /\ sessTask[SessionOf[t]] = t
                 => \/ cpc'[c] = "waiting" /\ target'[c] = t
                    \/ SessionOf[t] \in todo'[c]
           /\ cpc'[c] \in {"idle", "waiting"}
           /\ cpc'[c] = "waiting" =>
                 target'[c] \in Tasks /\ cur[SessionOf[target'[c]]] = target'[c]
           /\ \A d \in Cancellers : d # c =>
                 cpc'[d] = cpc[d] /\ target'[d] = target[d] /\ todo'[d] = todo[d]
<1>1. CASE /\ \A s \in S : ~Queue!HasLiveTask(s)
           /\ cpc' = [cpc EXCEPT ![c] = "idle"]
           /\ target' = [target EXCEPT ![c] = Nil]
           /\ todo' = [todo EXCEPT ![c] = {}]
  BY <1>1 DEF Queue!HasLiveTask, QueueFacts
<1>2. ASSUME NEW s \in S, NEW rest \in SUBSET (S \ {s}), Queue!HasLiveTask(s),
             \A r \in (S \ {s}) \ rest : ~Queue!HasLiveTask(r),
             cpc' = [cpc EXCEPT ![c] = "waiting"],
             target' = [target EXCEPT ![c] = sessTask[s]],
             todo' = [todo EXCEPT ![c] = rest]
      PROVE  /\ \A t \in Tasks :
                   tstat[t] \in Queue!Live /\ SessionOf[t] \in S /\ sessTask[SessionOf[t]] = t
                   => \/ target'[c] = t
                      \/ SessionOf[t] \in todo'[c]
             /\ cpc'[c] = "waiting"
             /\ target'[c] \in Tasks /\ cur[SessionOf[target'[c]]] = target'[c]
             /\ \A d \in Cancellers : d # c =>
                   cpc'[d] = cpc[d] /\ target'[d] = target[d] /\ todo'[d] = todo[d]
  BY <1>2 DEF Queue!HasLiveTask, QueueFacts
<1> QED
  BY <1>1, <1>2 DEF Queue!CancelNext

\* A canceller begins.
LEMMA EffectiveBegins ==
    ASSUME QueueFacts, Effective, AimTypes, NEW c \in Cancellers,
           NEW S \in SUBSET Sessions, Queue!NoneResuming, CancelWork(c, S)
    PROVE  Effective'
<1>1. /\ Queue!CancelNext(c, S) /\ UNCHANGED <<sessTask, cur, tstat>>
      /\ aim' = [aim EXCEPT ![c] = RunningIn(S)]
  BY DEF CancelWork
<1>2. Filed' /\ Filed
  BY <1>1 DEF Effective, Filed
<1>3. \A d \in Cancellers : cpc'[d] # "resumed"
  BY <1>1, <1>2, Chooses DEF Queue!NoneResuming
<1>4. Joins'
  BY <1>1, <1>2, <1>3, Chooses DEF Effective, Joins
<1>5. \A t \in RunningIn(S) : /\ t \in Tasks /\ tstat[t] \in Queue!Live
                              /\ SessionOf[t] \in S /\ sessTask[SessionOf[t]] = t
  BY <1>2 DEF RunningIn, Filed
<1>6. \A d \in Cancellers : aim'[d] = IF d = c THEN RunningIn(S) ELSE aim[d]
  BY <1>1 DEF AimTypes
<1>7. Aims'
  <2> SUFFICES ASSUME NEW d \in Cancellers, NEW t \in aim'[d]
               PROVE  /\ Begun(t)
                      /\ tstat[t] \in Queue!Live =>
                            \/ cpc'[d] = "waiting" /\ target'[d] = t
                            \/ SessionOf[t] \in todo'[d] /\ sessTask[SessionOf[t]] = t
    BY <1>1, <1>3 DEF Aims, Begun
  <2>1. CASE d = c
    BY <2>1, <1>1, <1>2, <1>5, <1>6, Chooses DEF Begun
  <2>2. CASE d # c
    BY <2>2, <1>1, <1>2, <1>6, Chooses DEF Effective, Aims
  <2> QED
    BY <2>1, <2>2
<1> QED
  BY <1>2, <1>4, <1>7 DEF Effective

\* A canceller goes on: it forgets a session in which nothing is aimed at.
LEMMA EffectiveGoesOn ==
    ASSUME QueueFacts, Effective, AimTypes, NEW c \in Cancellers, CancelOn(c)
    PROVE  Effective'
<1> DEFINE s == SessionOf[target[c]]
<1>1. /\ cpc[c] = "resumed" /\ sessTask' = [sessTask EXCEPT ![s] = Nil]
      /\ Queue!CancelNext(c, todo[c]) /\ todo[c] \in SUBSET Sessions
      /\ UNCHANGED <<cur, tstat, aim>>
  BY DEF CancelOn, Queue!CancellerResumes, QueueFacts
<1>2. Filed
  BY DEF Effective
<1>3. Filed'
  BY <1>1, NilAssumption DEF Effective, Filed, QueueFacts, Requests
<1>4. Joins'
  BY <1>1, <1>2, Chooses DEF Effective, Joins
<1>5. Aims'
  <2> SUFFICES ASSUME NEW d \in Cancellers, NEW t \in aim[d]
               PROVE  /\ Begun(t)
                      /\ tstat[t] \in Queue!Live =>
                            /\ \/ cpc'[d] = "waiting" /\ target'[d] = t
                               \/ SessionOf[t] \in todo'[d] /\ sessTask'[SessionOf[t]] = t
                            /\ \A e \in Cancellers :
                                  cpc'[e] = "resumed" => SessionOf[target'[e]] # SessionOf[t]
    BY <1>1 DEF Aims, Begun
  <2>1. Begun(t) /\ t \in Tasks /\ SessionOf[t] \in Sessions
    BY SessionOfAssumption DEF Effective, Aims, AimTypes
  <2>2. ASSUME tstat[t] \in Queue!Live
        PROVE  /\ \/ cpc'[d] = "waiting" /\ target'[d] = t
                  \/ SessionOf[t] \in todo'[d] /\ sessTask'[SessionOf[t]] = t
               /\ \A e \in Cancellers :
                     cpc'[e] = "resumed" => SessionOf[target'[e]] # SessionOf[t]
    <3>1. SessionOf[t] # s
      BY <1>1, <2>2 DEF Effective, Aims
    <3>2. sessTask'[SessionOf[t]] = sessTask[SessionOf[t]]
      BY <1>1, <2>1, <3>1 DEF QueueFacts
    <3>3. \/ cpc[d] = "waiting" /\ target[d] = t
          \/ SessionOf[t] \in todo[d] /\ sessTask[SessionOf[t]] = t
      BY <2>2 DEF Effective, Aims
    <3>4. \A e \in Cancellers : cpc'[e] = "resumed" => SessionOf[target'[e]] # SessionOf[t]
      BY <1>1, <1>2, <2>2, Chooses DEF Effective, Aims
    <3>5. CASE d = c
      BY <1>1, <1>2, <2>1, <2>2, <3>2, <3>3, <3>4, <3>5, Chooses
    <3>6. CASE d # c
      BY <1>1, <1>2, <3>2, <3>3, <3>4, <3>6, Chooses
    <3> QED
      BY <3>5, <3>6
  <2> QED
    BY <2>1, <2>2
<1> QED
  BY <1>3, <1>4, <1>5 DEF Effective

\* A chat.cancel that has not begun to cancel aims at nothing.
LEMMA UnaimedStep == HandlerTypes /\ Unaimed /\ [Next]_vars => Unaimed'
<1> SUFFICES ASSUME HandlerTypes, Unaimed, [Next]_vars PROVE Unaimed'
  OBVIOUS
<1> USE Kinds
<1>1. ASSUME NEW t \in Tasks, Accept(t) \/ Register(t) \/ Enqueue(t) PROVE Unaimed'
  BY <1>1 DEF Accept, Register, Enqueue, Unaimed, HandlerTypes
<1>2. ASSUME NEW r \in Requests, EndHandler(r) PROVE Unaimed'
  BY <1>2 DEF EndHandler, Unaimed, HandlerTypes
<1>3. ASSUME NEW k \in Chats, ChatCancel(k) PROVE Unaimed'
  <2>1. \/ hstat' = [hstat EXCEPT ![k] = "cancelling"]
           /\ \E S \in SUBSET Sessions : aim' = [aim EXCEPT ![k] = RunningIn(S)]
        \/ UNCHANGED aim /\ hstat' = [hstat EXCEPT ![k] = "interrupting"]
    BY <1>3 DEF ChatCancel, CancelWork
  <2>2. hstat[k] = "new"
    BY <1>3 DEF ChatCancel
  <2> QED
    BY <2>1, <2>2 DEF Unaimed, HandlerTypes
<1>4. ASSUME NEW k \in Chats, SupplementCancels(k) PROVE Unaimed'
  BY <1>4 DEF SupplementCancels, CancelWork, Unaimed, HandlerTypes
<1>5. ASSUME NEW c \in Conns, Open(c) \/ Close(c) \/ CancelHandlers(c) \/ CloseReturns(c)
      PROVE  Unaimed'
  BY <1>5 DEF Open, Close, CancelHandlers, CloseReturns, CancelWork, handlerVars,
     Unaimed, HandlerTypes
<1>6. CASE UNCHANGED <<handlerVars, aim>>
  BY <1>6 DEF handlerVars, Unaimed
<1>7. /\ \A t \in Tasks : Answer(t) \/ HandlerStopped(t) \/ HandlerAbandons(t) => EndHandler(t)
      /\ \A k \in Chats : ChatReplies(k) => EndHandler(k)
      /\ QueueStep \/ (\E c \in Cancellers : CancelOn(c)) \/ (\E t \in Tasks : TaskEnds(t))
         \/ UNCHANGED vars => UNCHANGED <<handlerVars, aim>>
  BY DEF Answer, HandlerStopped, HandlerAbandons, ChatReplies, QueueStep, CancelOn,
     TaskEnds, vars
<1> QED
  BY <1>1, <1>2, <1>3, <1>4, <1>5, <1>6, <1>7 DEF Next, LoopStep, Request

LEMMA EffectiveStep ==
    ASSUME QueueFacts, CancellersAtRest, HandlerTypes, Effective, [Next]_vars
    PROVE  Effective'
<1> USE Kinds
<1>0. AimTypes
  BY DEF HandlerTypes, AimTypes
<1>1. ASSUME UNCHANGED <<sessTask, cur, tstat, cpc, target, todo>>,
             \A c \in Cancellers : aim'[c] \subseteq aim[c]
      PROVE  Effective'
  BY <1>0, <1>1, EffectiveQuiet DEF Begun
<1>2. ASSUME NEW r \in Requests, EndHandler(r) PROVE \A c \in Cancellers : aim'[c] \subseteq aim[c]
  BY <1>2 DEF EndHandler
<1>3. ASSUME NEW t \in Tasks, Accept(t) \/ Register(t) PROVE Effective'
  BY <1>1, <1>3 DEF Accept, Register, queueVars
<1>4. ASSUME NEW t \in Tasks, Enqueue(t) \/ TaskEnds(t) PROVE Effective'
  <2>1. UNCHANGED <<sessTask, cur, cpc, target, todo, aim>>
    BY <1>4 DEF Enqueue, TaskEnds, Queue!Submit, Queue!Finish, Queue!OnlyTasksChange,
       Queue!cancelVars
  <2>2. \A u \in Tasks : Begun(u) => Begun(u)' /\ (tstat'[u] \in Queue!Live =>
                                                      tstat[u] \in Queue!Live)
    BY <1>4 DEF Enqueue, TaskEnds, Queue!Submit, Queue!Finish, Begun, Queue!Live,
       Queue!Ended, QueueFacts
  <2> QED
    BY <1>0, <2>1, <2>2, EffectiveQuiet
<1>5. ASSUME NEW t \in Tasks, Answer(t) \/ HandlerStopped(t) \/ HandlerAbandons(t)
      PROVE  Effective'
  <2>1. UNCHANGED <<sessTask, cur, tstat, cpc, target, todo>>
    BY <1>5 DEF Answer, HandlerStopped, HandlerAbandons, queueVars, Queue!Abandon,
       Queue!cancelVars
  <2>2. EndHandler(t)
    BY <1>5 DEF Answer, HandlerStopped, HandlerAbandons
  <2> QED
    BY <1>1, <1>2, <2>1, <2>2
<1>6. ASSUME NEW k \in Chats, ChatReplies(k) PROVE Effective'
  BY <1>1, <1>2, <1>6 DEF ChatReplies, queueVars
<1>7. ASSUME NEW k \in Chats, ChatCancel(k) PROVE Effective'
  <2>1. CASE UNCHANGED <<queueVars, aim>>
    BY <1>1, <2>1 DEF queueVars
  <2>2. ASSUME NEW s \in Sessions, CancelWork(k, {s}) PROVE Effective'
    BY <1>0, <1>7, <2>2, EffectiveBegins DEF ChatCancel
  <2> QED
    BY <1>7, <2>1, <2>2 DEF ChatCancel
<1>8. ASSUME NEW k \in Chats, SupplementCancels(k) PROVE Effective'
  <2>1. Queue!NoneResuming /\ CancelWork(k, {subject[k]}) /\ subject[k] \in Sessions
    BY <1>8 DEF SupplementCancels, CancellersAtRest
  <2> QED
    BY <1>0, <2>1, EffectiveBegins
<1>9. ASSUME NEW c \in Conns, Close(c) PROVE Effective'
  <2>1. Queue!NoneResuming /\ CancelWork(c, {s \in Sessions : sessTask[s] # Absent})
    BY <1>9 DEF Close
  <2> QED
    BY <1>0, <2>1, EffectiveBegins
<1>10. ASSUME NEW c \in Conns, Open(c) \/ CancelHandlers(c) \/ CloseReturns(c)
       PROVE  Effective'
  <2>1. \A d \in Cancellers : aim'[d] \subseteq aim[d]
    BY <1>0, <1>10 DEF Open, CancelHandlers, CloseReturns, AimTypes
  <2> QED
    BY <1>1, <1>10, <2>1 DEF Open, CancelHandlers, CloseReturns, queueVars
<1>11. CASE UNCHANGED vars
  BY <1>1, <1>11 DEF vars, queueVars
<1> QED
  BY <1>0, <1>3, <1>4, <1>5, <1>6, <1>7, <1>8, <1>9, <1>10, <1>11,
     EffectiveQueue, EffectiveGoesOn DEF Next, LoopStep, Request

\* Who is through awaits nothing and has nobody left to visit.
LEMMA EffectiveEnds ==
    ASSUME CancellersAtRest, HandlerTypes, Effective, Unaimed, [Next]_vars
    PROVE  /\ \A k \in Chats : Active(k) /\ hstat'[k] = "ended" => Over(aim[k])
           /\ \A c \in Conns : conn[c] = "cancelling" /\ conn'[c] # conn[c] => Over(aim[c])
<1> USE Kinds
<1>1. \A c \in Cancellers : cpc[c] = "idle" => Over(aim[c])
  BY DEF CancellersAtRest, AtRest, Effective, Aims, Over
<1>2. ASSUME NEW k \in Chats, Active(k), hstat'[k] = "ended" PROVE ChatReplies(k)
  <2>1. hstat'[k] # hstat[k]
    BY <1>2 DEF Active
  <2>2. ASSUME NEW q \in Chats, ChatReplies(q) PROVE q = k
    BY <2>1, <2>2 DEF ChatReplies, EndHandler, HandlerTypes
  <2>3. ASSUME NEW t \in Tasks, Accept(t) \/ Register(t) \/ Enqueue(t) \/ Answer(t)
                                \/ HandlerStopped(t) \/ HandlerAbandons(t)
        PROVE  FALSE
    <3>1. \A r \in Requests : r # t => hstat'[r] = hstat[r]
      BY <2>3 DEF Accept, Register, Enqueue, Answer, HandlerStopped, HandlerAbandons,
         EndHandler, HandlerTypes
    <3> QED
      BY <2>1, <3>1
  <2>4. ASSUME NEW q \in Chats, ChatCancel(q) \/ SupplementCancels(q) PROVE FALSE
    BY <1>2, <2>1, <2>4 DEF ChatCancel, SupplementCancels, HandlerTypes
  <2>5. hstat' # hstat
    BY <2>1
  <2>6. ASSUME NEW c \in Conns, Open(c) \/ Close(c) \/ CancelHandlers(c) \/ CloseReturns(c)
        PROVE  FALSE
    BY <2>5, <2>6 DEF Open, Close, CancelHandlers, CloseReturns, handlerVars
  <2>7. ~(QueueStep \/ (\E c \in Cancellers : CancelOn(c)) \/ (\E t \in Tasks : TaskEnds(t))
          \/ UNCHANGED vars)
    BY <2>5 DEF QueueStep, CancelOn, TaskEnds, vars, handlerVars
  <2> QED
    BY <2>2, <2>3, <2>4, <2>6, <2>7 DEF Next, LoopStep, Request
<1>3. ASSUME NEW k \in Chats, ChatReplies(k) PROVE Over(aim[k])
  BY <1>1, <1>3 DEF ChatReplies, Unaimed, Over
<1>4. ASSUME NEW c \in Conns, conn[c] = "cancelling", conn'[c] # conn[c] PROVE cpc[c] = "idle"
  <2>1. conn' # conn
    BY <1>4
  <2>2. ASSUME NEW t \in Tasks, Accept(t) \/ Register(t) \/ Enqueue(t) \/ Answer(t)
               \/ HandlerStopped(t) \/ HandlerAbandons(t) \/ TaskEnds(t)
        PROVE  FALSE
    BY <2>1, <2>2 DEF Accept, Register, Enqueue, Answer, HandlerStopped, HandlerAbandons,
       TaskEnds, connVars
  <2>3. ASSUME NEW q \in Chats, ChatCancel(q) \/ SupplementCancels(q) \/ ChatReplies(q)
        PROVE  FALSE
    BY <2>1, <2>3 DEF ChatCancel, SupplementCancels, ChatReplies, connVars
  <2>4. ~(QueueStep \/ (\E d \in Cancellers : CancelOn(d)) \/ UNCHANGED vars)
    BY <2>1 DEF QueueStep, CancelOn, vars, connVars
  <2>5. ASSUME NEW d \in Conns, Open(d) \/ Close(d) \/ CloseReturns(d) PROVE FALSE
    BY <1>4, <2>5 DEF Open, Close, CloseReturns, HandlerTypes
  <2>6. ASSUME NEW d \in Conns, CancelHandlers(d) PROVE cpc[c] = "idle"
    BY <1>4, <2>6 DEF CancelHandlers, HandlerTypes
  <2> QED
    BY <2>2, <2>3, <2>4, <2>5, <2>6 DEF Next, LoopStep, Request
<1> QED
  BY <1>1, <1>2, <1>3, <1>4

\* chat.cancel answers, and the end of a connection goes on to the handlers, only
\* when every task is over that ran in their sessions when they began.
THEOREM CancelsEffective == Spec => CancelIsEffective
<1>1. Init => CancellersAtRest /\ Effective /\ Unaimed
  BY Kinds, NilAssumption
     DEF Init, Queue!Init, CancellersAtRest, AtRest, HandlerState, ConnState, Effective,
         Filed, Joins, Aims, Unaimed, Requests
<1>2. QueueProofs!IInv /\ CancellersAtRest /\ Finders /\ Effective /\ Unaimed /\ [Next]_vars
      => CancellersAtRest' /\ Effective' /\ Unaimed'
  BY QueueKnown, RestInv, EffectiveStep, UnaimedStep DEF Finders
<1>3. CancellersAtRest /\ Finders /\ Effective /\ Unaimed /\ [Next]_vars
      => [/\ \A k \in Chats : Active(k) /\ hstat'[k] = "ended" => Over(aim[k])
          /\ \A c \in Conns : conn[c] = "cancelling" /\ conn'[c] # conn[c] => Over(aim[c])]_vars
  BY EffectiveEnds DEF Finders
<1> QED
  BY <1>1, <1>2, <1>3, QueueInvariant, FindersAlways, PTL DEF Spec, CancelIsEffective
==============================================================================
