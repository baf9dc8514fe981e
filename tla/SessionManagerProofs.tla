------------------------ MODULE SessionManagerProofs ------------------------
(***************************************************************************)
(* Proofs about SessionManager, for any sets of sessions, tasks and        *)
(* cancellers.  The properties follow from one inductive invariant, IInv:  *)
(* the processor of a session awaits the only task of the session that     *)
(* lives (Awaited), its queue holds exactly the queued tasks (Queued), and *)
(* priorities count the arrivals of the present queue backwards (Ordered). *)
(***************************************************************************)
EXTENDS SessionManager, TLAPS

\* A processor is busy exactly when it awaits a task of its session, and a
\* task that lives is the one its session's processor awaits.
Awaited ==
    /\ \A s \in Sessions : proc[s] = "busy" <=> cur[s] # Nil
    /\ \A s \in Sessions : cur[s] \in Tasks =>
          SessionOf[cur[s]] = s /\ tstat[cur[s]] \in Live \cup Ended
    /\ \A t \in Tasks : tstat[t] \in Live => cur[SessionOf[t]] = t

\* The queue of a session holds its queued tasks, each once, and is empty
\* when there is no processor.
Queued ==
    /\ \A s \in Sessions : \A i \in queue[s] :
          SessionOf[i.task] = s /\ tstat[i.task] = "queued"
    /\ \A s \in Sessions : \A i, j \in queue[s] : i.task = j.task => i = j
    /\ \A s \in Sessions : proc[s] = "none" => queue[s] = {}
    /\ QueuedIsServed

\* The counter is below every priority it gave out, and a later arrival has a
\* smaller priority.
Ordered ==
    /\ \A s \in Sessions : \A i \in queue[s] : prio[s] <= i.prio
    /\ PriorityIsReversedArrival

IInv == TypeOK /\ Awaited /\ Queued /\ Ordered

-----------------------------------------------------------------------------

\* In every reachable state the variables have their types: the counters never
\* rise above zero, and _session_tasks holds a task, None or nothing.
LEMMA InitInv == Init => IInv
BY SessionOfAssumption, NilAssumption
   DEF Init, IInv, TypeOK, Awaited, Queued, Ordered, QueuedIsServed, TaskState,
       PriorityIsReversedArrival, Live, Ended, Priorities, Items

\* Submitting keeps the invariant, whatever state the processor is in.
LEMMA SubmitInv == ASSUME NEW t \in Tasks, IInv, Submit(t) PROVE IInv'
<1> DEFINE s == SessionOf[t]
           new == [task |-> t, prio |-> BasePrio(s) - 1]
<1>1. s \in Sessions /\ BasePrio(s) \in Priorities /\ new \in Items
  BY SessionOfAssumption DEF IInv, TypeOK, BasePrio, Priorities, Items
<1>2. BaseQueue(s) = queue[s]
  BY <1>1 DEF IInv, Queued, BaseQueue
<1>3. queue' = [queue EXCEPT ![s] = @ \cup {new}]
  BY <1>2 DEF Submit, IInv, TypeOK
<1>4. TypeOK'
  <2>1. queue' \in [Sessions -> SUBSET Items]
    BY <1>1, <1>3 DEF IInv, TypeOK
  <2>2. prio' \in [Sessions -> Priorities]
    BY <1>1 DEF IInv, TypeOK, Submit, Priorities
  <2>3. stamp' \in [Tasks -> 0 .. arrivals'] /\ arrivals' \in Nat
    BY DEF IInv, TypeOK, Submit
  <2>4. QED
    BY <1>1, <2>1, <2>2, <2>3
       DEF IInv, TypeOK, Submit, TaskState, EnsureProcessor, cancelVars
<1>5. Awaited'
  BY <1>1 DEF IInv, TypeOK, Awaited, Submit, EnsureProcessor, Live, Ended
<1>6. Queued'
  <2>1. \A r \in Sessions : queue'[r] = IF r = s THEN queue[s] \cup {new} ELSE queue[r]
    BY <1>1, <1>3 DEF IInv, TypeOK
  <2>2. \A u \in Tasks : tstat'[u] = IF u = t THEN "queued" ELSE tstat[u]
    BY DEF IInv, TypeOK, Submit
  <2>3. \A r \in Sessions : proc'[r] = IF r = s THEN EnsureProcessor(s) ELSE proc[r]
    BY <1>1 DEF IInv, TypeOK, Submit
  <2>4. \A r \in Sessions : \A i \in queue[r] :
           i.task \in Tasks /\ i.task # t /\ SessionOf[i.task] = r /\ tstat[i.task] = "queued"
    BY DEF IInv, TypeOK, Queued, Submit, Items
  <2>5. new.task = t /\ EnsureProcessor(s) # "none"
    BY DEF EnsureProcessor
  <2>6. \A r \in Sessions : \A i \in queue'[r] : SessionOf[i.task] = r /\ tstat'[i.task] = "queued"
    BY <2>1, <2>2, <2>4, <2>5
  <2>7. \A r \in Sessions : \A i, j \in queue'[r] : i.task = j.task => i = j
    BY <2>1, <2>4, <2>5 DEF IInv, Queued
  <2>8. \A r \in Sessions : proc'[r] = "none" => queue'[r] = {}
    BY <2>1, <2>3, <2>5 DEF IInv, Queued
  <2>9. QueuedIsServed'
    <3> SUFFICES ASSUME NEW u \in Tasks, tstat'[u] = "queued"
                 PROVE  /\ proc'[SessionOf[u]] # "none"
                        /\ \E i \in queue'[SessionOf[u]] : i.task = u
      BY DEF QueuedIsServed
    <3>1. CASE u = t
      BY <3>1, <1>1, <2>1, <2>3, <2>5
    <3>2. CASE u # t
      BY <3>2, <2>1, <2>2, <2>3, <2>5, SessionOfAssumption
         DEF IInv, Queued, QueuedIsServed
    <3>3. QED
      BY <3>1, <3>2
  <2>10. QED
    BY <2>6, <2>7, <2>8, <2>9 DEF Queued
<1>7. Ordered'
  <2>1. \A i \in queue[s] : BasePrio(s) <= i.prio
    BY <1>1, <1>2 DEF IInv, Queued, Ordered, BasePrio
  <2>2. \A r \in Sessions : \A i \in queue[r] : i.task \in Tasks /\ i.task # t /\ i.prio \in Int
    BY DEF IInv, TypeOK, Queued, Submit, Items, Priorities
  <2>3. arrivals \in Nat /\ \A u \in Tasks : stamp[u] \in Nat /\ stamp[u] < arrivals + 1
    BY DEF IInv, TypeOK
  <2>4. \A u \in Tasks : stamp'[u] = IF u = t THEN arrivals + 1 ELSE stamp[u]
    BY DEF IInv, TypeOK, Submit
  <2>5. prio'[s] = BasePrio(s) - 1 /\ \A r \in Sessions \ {s} : prio'[r] = prio[r]
    BY <1>1 DEF IInv, TypeOK, Submit
  <2>6. \A r \in Sessions : queue'[r] = IF r = s THEN queue[s] \cup {new} ELSE queue[r]
    BY <1>3, <1>1 DEF IInv, TypeOK
  <2>7. \A r \in Sessions : \A i \in queue'[r] : prio'[r] <= i.prio
    BY <1>1, <2>1, <2>2, <2>5, <2>6 DEF IInv, Ordered, Priorities
  <2>8. PriorityIsReversedArrival'
    <3> SUFFICES ASSUME NEW r \in Sessions, NEW i \in queue'[r], NEW j \in queue'[r]
                 PROVE  /\ stamp'[i.task] < stamp'[j.task] <=> j.prio < i.prio
                        /\ i.prio = j.prio => i = j
      BY DEF PriorityIsReversedArrival
    <3>0. new.task = t /\ new.prio = BasePrio(s) - 1
      OBVIOUS
    <3>1. CASE i \in queue[r] /\ j \in queue[r]
      BY <3>1, <2>2, <2>4 DEF IInv, Ordered, PriorityIsReversedArrival
    <3>2. CASE r = s /\ i = new /\ j \in queue[s]
      BY <3>0, <3>2, <2>1, <2>2, <2>3, <2>4, <1>1 DEF Priorities
    <3>3. CASE r = s /\ j = new /\ i \in queue[s]
      BY <3>0, <3>3, <2>1, <2>2, <2>3, <2>4, <1>1 DEF Priorities
    <3>4. CASE i = new /\ j = new
      BY <3>0, <3>4, <2>3, <2>4, <1>1 DEF Priorities
    <3>5. QED
      BY <2>6, <3>1, <3>2, <3>3, <3>4
  <2>9. QED
    BY <2>7, <2>8 DEF Ordered
<1>8. QED
  BY <1>4, <1>5, <1>6, <1>7 DEF IInv

\* Part of the type invariant that the queue operations alone can disturb.
QueueTypes ==
    /\ sessTask' \in [Sessions -> Tasks \cup {Nil, Absent}]
    /\ queue' \in [Sessions -> SUBSET Items]
    /\ proc' \in [Sessions -> {"none", "idle", "busy"}]
    /\ cur' \in [Sessions -> Tasks \cup {Nil}]
    /\ tstat' \in [Tasks -> TaskState]

\* Taking the next item when no task of the session lives.
LEMMA StartNextInv ==
    ASSUME NEW s \in Sessions, IInv, StartNext(s),
           \A t \in Tasks : SessionOf[t] = s => tstat[t] \notin Live,
           UNCHANGED <<prio, history>>
    PROVE  QueueTypes /\ Awaited' /\ Queued' /\ Ordered'
<1>1. PICK i \in queue[s] :
        /\ queue' = [queue EXCEPT ![s] = @ \ {i}]
        /\ cur' = [cur EXCEPT ![s] = i.task]
        /\ sessTask' = [sessTask EXCEPT ![s] = i.task]
        /\ proc' = [proc EXCEPT ![s] = "busy"]
        /\ tstat' = [tstat EXCEPT ![i.task] = "created"]
  BY DEF StartNext
<1>2. i.task \in Tasks /\ SessionOf[i.task] = s /\ tstat[i.task] = "queued"
  BY DEF IInv, TypeOK, Queued, Items
<1>3. \A r \in Sessions : queue'[r] = IF r = s THEN queue[s] \ {i} ELSE queue[r]
  BY <1>1 DEF IInv, TypeOK
<1>4. \A u \in Tasks : tstat'[u] = IF u = i.task THEN "created" ELSE tstat[u]
  BY <1>1 DEF IInv, TypeOK
<1>5. \A r \in Sessions : /\ cur'[r] = IF r = s THEN i.task ELSE cur[r]
                          /\ proc'[r] = IF r = s THEN "busy" ELSE proc[r]
  BY <1>1 DEF IInv, TypeOK
<1>6. QueueTypes
  BY <1>1, <1>2 DEF QueueTypes, IInv, TypeOK, TaskState
<1>7. Awaited'
  <2>1. \A r \in Sessions : proc'[r] = "busy" <=> cur'[r] # Nil
    BY <1>2, <1>5, NilAssumption DEF IInv, Awaited
  <2>2. \A r \in Sessions : cur'[r] \in Tasks =>
           SessionOf[cur'[r]] = r /\ tstat'[cur'[r]] \in Live \cup Ended
    BY <1>2, <1>4, <1>5 DEF IInv, Awaited, Live
  <2>3. \A t \in Tasks : tstat'[t] \in Live => cur'[SessionOf[t]] = t
    BY <1>2, <1>4, <1>5, SessionOfAssumption DEF IInv, Awaited
  <2>4. QED
    BY <2>1, <2>2, <2>3 DEF Awaited
<1>8. Queued'
  <2>1. \A r \in Sessions : \A j \in queue[r] : j # i => j.task # i.task
    BY <1>2 DEF IInv, Queued
  <2>2. \A r \in Sessions : \A j \in queue'[r] : SessionOf[j.task] = r /\ tstat'[j.task] = "queued"
    BY <1>3, <1>4, <2>1, <1>2 DEF IInv, TypeOK, Items, Queued
  <2>3. \A r \in Sessions : \A j, k \in queue'[r] : j.task = k.task => j = k
    BY <1>3 DEF IInv, Queued
  <2>4. \A r \in Sessions : proc'[r] = "none" => queue'[r] = {}
    BY <1>3, <1>5 DEF IInv, Queued
  <2>5. QueuedIsServed'
    BY <1>3, <1>4, <1>5, SessionOfAssumption DEF IInv, Queued, QueuedIsServed
  <2>6. QED
    BY <2>2, <2>3, <2>4, <2>5 DEF Queued
<1>9. Ordered'
  BY <1>3 DEF IInv, Ordered, PriorityIsReversedArrival, history
<1>10. QED
  BY <1>6, <1>7, <1>8, <1>9

\* The waiting processor takes an item.
LEMMA DequeueInv == ASSUME NEW s \in Sessions, IInv, Dequeue(s) PROVE IInv'
<1>1. \A t \in Tasks : SessionOf[t] = s => tstat[t] \notin Live
  BY NilAssumption DEF IInv, Awaited, Dequeue
<1>2. QueueTypes /\ Awaited' /\ Queued' /\ Ordered'
  BY <1>1, StartNextInv DEF Dequeue
<1>3. TypeOK'
  BY <1>2 DEF QueueTypes, IInv, TypeOK, Dequeue, history, cancelVars
<1>4. QED
  BY <1>2, <1>3 DEF IInv

\* The processor goes on after a task that ended normally.
LEMMA ProcessorNextInv == ASSUME NEW s \in Sessions, IInv, ProcessorNext(s) PROVE IInv'
<1>1. /\ cur[s] \in Tasks /\ SessionOf[cur[s]] = s /\ tstat[cur[s]] = "done"
      /\ \A t \in Tasks : SessionOf[t] = s => tstat[t] \notin Live
  BY DEF IInv, TypeOK, Awaited, ProcessorNext, Live
<1>2. cpc' \in [Cancellers -> {"idle", "waiting", "resumed"}]
  BY DEF IInv, TypeOK, ProcessorNext, WakeCancellers
<1>3. CASE StartNext(s)
  <2>1. QueueTypes /\ Awaited' /\ Queued' /\ Ordered'
    BY <1>1, <1>3, StartNextInv DEF ProcessorNext
  <2>2. TypeOK'
    BY <1>2, <2>1 DEF QueueTypes, IInv, TypeOK, ProcessorNext, history
  <2>3. QED
    BY <2>1, <2>2 DEF IInv
<1>4. CASE /\ proc' = [proc EXCEPT ![s] = "idle"]
           /\ cur' = [cur EXCEPT ![s] = Nil]
           /\ sessTask' = [sessTask EXCEPT ![s] = Nil]
           /\ UNCHANGED <<queue, tstat>>
  <2>1. TypeOK'
    BY <1>2, <1>4 DEF IInv, TypeOK, ProcessorNext, history
  <2>2. Awaited'
    BY <1>1, <1>4, NilAssumption, SessionOfAssumption DEF IInv, TypeOK, Awaited
  <2>3. Queued'
    BY <1>4, SessionOfAssumption DEF IInv, TypeOK, Queued, QueuedIsServed
  <2>4. Ordered'
    BY <1>4 DEF IInv, Ordered, PriorityIsReversedArrival, ProcessorNext, history
  <2>5. QED
    BY <2>1, <2>2, <2>3, <2>4 DEF IInv
<1>5. QED
  BY <1>3, <1>4 DEF ProcessorNext

\* The processor exits and drops its queue.
LEMMA ProcessorExitInv == ASSUME NEW s \in Sessions, IInv, ProcessorExit(s) PROVE IInv'
<1>1. /\ cur[s] \in Tasks /\ SessionOf[cur[s]] = s
      /\ \A t \in Tasks : SessionOf[t] = s => tstat[t] \notin Live
  BY DEF IInv, TypeOK, Awaited, ProcessorExit, Live
<1>2. \A t \in Tasks :
        tstat'[t] = IF tstat[t] = "queued" /\ SessionOf[t] = s THEN "lost" ELSE tstat[t]
  BY DEF IInv, Queued, QueuedIsServed, ProcessorExit
<1>3. \A r \in Sessions : /\ queue'[r] = IF r = s THEN {} ELSE queue[r]
                          /\ proc'[r] = IF r = s THEN "none" ELSE proc[r]
                          /\ cur'[r] = IF r = s THEN Nil ELSE cur[r]
                          /\ prio'[r] = IF r = s THEN 0 ELSE prio[r]
  BY DEF IInv, TypeOK, ProcessorExit
<1>4. TypeOK'
  <2>1. cpc' \in [Cancellers -> {"idle", "waiting", "resumed"}]
    BY DEF IInv, TypeOK, ProcessorExit, WakeCancellers
  <2>2. tstat' \in [Tasks -> TaskState]
    BY DEF IInv, TypeOK, ProcessorExit, TaskState
  <2>3. queue' \in [Sessions -> SUBSET Items] /\ prio' \in [Sessions -> Priorities]
    BY DEF IInv, TypeOK, ProcessorExit, Priorities
  <2>4. QED
    BY <2>1, <2>2, <2>3 DEF IInv, TypeOK, ProcessorExit, history
<1>5. Awaited'
  BY <1>1, <1>2, <1>3, NilAssumption, SessionOfAssumption
     DEF IInv, TypeOK, Awaited, Live, Ended
<1>6. Queued'
  <2>1. \A r \in Sessions : \A j \in queue'[r] : SessionOf[j.task] = r /\ tstat'[j.task] = "queued"
    BY <1>2, <1>3 DEF IInv, TypeOK, Items, Queued
  <2>2. QueuedIsServed'
    BY <1>2, <1>3, SessionOfAssumption DEF IInv, Queued, QueuedIsServed
  <2>3. QED
    BY <1>3, <2>1, <2>2 DEF IInv, Queued
<1>7. Ordered'
  BY <1>3 DEF IInv, Ordered, PriorityIsReversedArrival, ProcessorExit, history
<1>8. QED
  BY <1>4, <1>5, <1>6, <1>7 DEF IInv

\* What the tasks and the cancellers do leaves the queues alone: only the life
\* of a task that its processor awaits can change, and it stays live or ends.
LEMMA TaskStepInv ==
    ASSUME IInv, TypeOK', UNCHANGED <<queue, prio, proc, cur, history>>,
           \A t \in Tasks : tstat'[t] # tstat[t] =>
               tstat[t] \in Live /\ tstat'[t] \in Live \cup Ended
    PROVE  IInv'
<1>1. Awaited'
  BY SessionOfAssumption DEF IInv, TypeOK, Awaited, Live, Ended
<1>2. Queued'
  <2>1. \A t \in Tasks : tstat[t] = "queued" <=> tstat'[t] = "queued"
    BY DEF Live, Ended
  <2>2. \A s \in Sessions : \A i \in queue[s] : i.task \in Tasks
    BY DEF IInv, TypeOK, Items
  <2>3. QED
    BY <2>1, <2>2, SessionOfAssumption DEF IInv, Queued, QueuedIsServed
<1>3. Ordered'
  BY DEF IInv, Ordered, PriorityIsReversedArrival, history
<1>4. QED
  BY <1>1, <1>2, <1>3 DEF IInv

\* The first step, the end and the interruption of a task, and a caller that
\* gives up waiting.
LEMMA TaskInv ==
    ASSUME NEW t \in Tasks, IInv, Abandon(t) \/ Begin(t) \/ Finish(t) \/ Interrupted(t)
    PROVE  IInv'
<1> USE DEF IInv, TypeOK, TaskState, OnlyTasksChange, Resolve, cancelVars, history, Live, Ended
<1>1. CASE Abandon(t)
  BY <1>1, TaskStepInv DEF Abandon
<1>2. CASE Begin(t)
  BY <1>2, TaskStepInv DEF Begin
<1>3. CASE Finish(t)
  BY <1>3, TaskStepInv DEF Finish
<1>4. CASE Interrupted(t)
  BY <1>4, TaskStepInv DEF Interrupted
<1>5. QED
  BY <1>1, <1>2, <1>3, <1>4

\* Visiting the next session writes only the canceller and a cancel request.
LEMMA CancelNextTypes ==
    ASSUME NEW c \in Cancellers, NEW S \in SUBSET Sessions, TypeOK, CancelNext(c, S)
    PROVE  /\ cancelReq' \in [Tasks -> BOOLEAN]
           /\ cpc' \in [Cancellers -> {"idle", "waiting", "resumed"}]
           /\ target' \in [Cancellers -> Tasks \cup {Nil}]
           /\ todo' \in [Cancellers -> SUBSET Sessions]
<1>1. CASE /\ cpc' = [cpc EXCEPT ![c] = "idle"]
           /\ target' = [target EXCEPT ![c] = Nil]
           /\ todo' = [todo EXCEPT ![c] = {}]
           /\ UNCHANGED cancelReq
  BY <1>1 DEF TypeOK
<1>2. ASSUME NEW s \in S, NEW rest \in SUBSET (S \ {s}), HasLiveTask(s),
             cpc' = [cpc EXCEPT ![c] = "waiting"],
             target' = [target EXCEPT ![c] = sessTask[s]],
             todo' = [todo EXCEPT ![c] = rest],
             cancelReq' = [cancelReq EXCEPT ![sessTask[s]] = TRUE]
      PROVE  /\ cancelReq' \in [Tasks -> BOOLEAN]
             /\ cpc' \in [Cancellers -> {"idle", "waiting", "resumed"}]
             /\ target' \in [Cancellers -> Tasks \cup {Nil}]
             /\ todo' \in [Cancellers -> SUBSET Sessions]
  <2>1. cpc' \in [Cancellers -> {"idle", "waiting", "resumed"}]
    BY <1>2 DEF TypeOK
  <2>2. target' \in [Cancellers -> Tasks \cup {Nil}]
    BY <1>2 DEF TypeOK, HasLiveTask
  <2>3. rest \in SUBSET Sessions
    OBVIOUS
  <2>4. todo' \in [Cancellers -> SUBSET Sessions]
    BY <1>2, <2>3 DEF TypeOK
  <2>5. cancelReq' \in [Tasks -> BOOLEAN]
    BY <1>2 DEF TypeOK
  <2>6. QED
    BY <2>1, <2>2, <2>4, <2>5
<1>3. QED
  BY <1>1, <1>2 DEF CancelNext

\* A cancel call, and its return or its move to the next session.
LEMMA CancelInv ==
    ASSUME NEW c \in Cancellers, IInv, Cancel(c) \/ CancellerResumes(c)
    PROVE  IInv'
<1>1. CASE Cancel(c)
  <2>1. PICK S \in SUBSET Sessions : CancelNext(c, S)
    BY <1>1 DEF Cancel
  <2>2. TypeOK'
    BY <1>1, <2>1, CancelNextTypes DEF IInv, TypeOK, Cancel, history
  <2>3. QED
    BY <1>1, <2>2, TaskStepInv DEF Cancel
<1>2. CASE CancellerResumes(c)
  <2>1. CancelNext(c, todo[c]) /\ todo[c] \in SUBSET Sessions
    BY <1>2 DEF CancellerResumes, IInv, TypeOK
  <2>2. sessTask' \in [Sessions -> Tasks \cup {Nil, Absent}]
    BY <1>2 DEF CancellerResumes, IInv, TypeOK
  <2>3. TypeOK'
    BY <1>2, <2>1, <2>2, CancelNextTypes DEF IInv, TypeOK, CancellerResumes, history
  <2>4. QED
    BY <1>2, <2>3, TaskStepInv DEF CancellerResumes
<1>3. QED
  BY <1>1, <1>2

\* Every step keeps the invariant.
LEMMA NextInv == IInv /\ [Next]_vars => IInv'
<1> SUFFICES ASSUME IInv, [Next]_vars PROVE IInv'
  OBVIOUS
<1>1. ASSUME NEW t \in Tasks, Submit(t) PROVE IInv'
  BY <1>1, SubmitInv
<1>2. ASSUME NEW t \in Tasks, Abandon(t) \/ Begin(t) \/ Finish(t) \/ Interrupted(t)
      PROVE  IInv'
  BY <1>2, TaskInv
<1>3. ASSUME NEW s \in Sessions, Dequeue(s) PROVE IInv'
  BY <1>3, DequeueInv
<1>4. ASSUME NEW s \in Sessions, ProcessorNext(s) PROVE IInv'
  BY <1>4, ProcessorNextInv
<1>5. ASSUME NEW s \in Sessions, ProcessorExit(s) PROVE IInv'
  BY <1>5, ProcessorExitInv
<1>6. ASSUME NEW c \in Cancellers, Cancel(c) \/ CancellerResumes(c) PROVE IInv'
  BY <1>6, CancelInv
<1>7. CASE UNCHANGED vars
  BY <1>7 DEF vars, cancelVars, history, IInv, TypeOK, Awaited, Queued, QueuedIsServed,
              Ordered, PriorityIsReversedArrival
<1>8. QED
  BY <1>1, <1>2, <1>3, <1>4, <1>5, <1>6, <1>7 DEF Next

\* The invariant holds in every reachable state.
THEOREM Invariance == Spec => []IInv
BY InitInv, NextInv, PTL DEF Spec

-----------------------------------------------------------------------------

\* Types are kept: priorities stay non-positive and every queued item carries a
\* negative one, so the counter of a session is never read before it is set.
THEOREM TypeCorrect == Spec => []TypeOK
<1>1. IInv => TypeOK
  BY DEF IInv
<1>2. QED
  BY <1>1, Invariance, PTL

\* Two tasks of one session never execute at the same time, for any number of
\* sessions, tasks and concurrent cancellations.
THEOREM MutualExclusion == Spec => []OneTaskPerSession
<1>1. IInv => OneTaskPerSession
  BY DEF IInv, Awaited, OneTaskPerSession, Executing
<1>2. QED
  BY <1>1, Invariance, PTL

\* The items of a queue are totally ordered by arrival, latest first: the heap
\* never compares two task functions.
THEOREM PrioritiesOrdered == Spec => []PriorityIsReversedArrival
<1>1. IInv => PriorityIsReversedArrival
  BY DEF IInv, Ordered
<1>2. QED
  BY <1>1, Invariance, PTL

\* No queued task is stranded: its session has a processor and a queue entry.
THEOREM NoStrandedTask == Spec => []QueuedIsServed
<1>1. IInv => QueuedIsServed
  BY DEF IInv, Queued
<1>2. QED
  BY <1>1, Invariance, PTL

-----------------------------------------------------------------------------

\* What NewestFirst says of one step.
NewestFirstStep ==
    \A t, u \in Tasks :
        /\ SessionOf[t] = SessionOf[u]
        /\ tstat[t] = "queued" /\ tstat'[t] = "created"
        /\ tstat[u] = "queued" /\ u # t
        => stamp[u] < stamp[t]

\* A step that takes an item takes the latest arrival of its session.
LEMMA StartNextIsNewest ==
    ASSUME NEW s \in Sessions, IInv, StartNext(s) PROVE NewestFirstStep
<1>1. PICK i \in queue[s] :
        IsFirst(i, queue[s]) /\ tstat' = [tstat EXCEPT ![i.task] = "created"]
  BY DEF StartNext
<1>2. SUFFICES ASSUME NEW t \in Tasks, NEW u \in Tasks, SessionOf[t] = SessionOf[u],
                      tstat[t] = "queued", tstat'[t] = "created",
                      tstat[u] = "queued", u # t
               PROVE  stamp[u] < stamp[t]
  BY DEF NewestFirstStep
<1>3. t = i.task /\ SessionOf[t] = s
  BY <1>1, <1>2 DEF IInv, TypeOK, Queued
<1>4. PICK j \in queue[s] : j.task = u
  BY <1>2, <1>3 DEF IInv, Queued, QueuedIsServed
<1>5. i.prio <= j.prio /\ i # j /\ i.prio \in Int /\ j.prio \in Int
  BY <1>1, <1>2, <1>3, <1>4 DEF IsFirst, IInv, TypeOK, Items, Priorities
<1>6. stamp[j.task] < stamp[i.task] <=> i.prio < j.prio
  BY DEF IInv, Ordered, PriorityIsReversedArrival
<1>7. i.prio # j.prio
  BY <1>5 DEF IInv, Ordered, PriorityIsReversedArrival
<1>8. QED
  BY <1>3, <1>4, <1>5, <1>6, <1>7

\* Whatever happens to the session meanwhile, its tasks start newest first.
THEOREM LastInFirstOut == Spec => NewestFirst
<1>1. IInv /\ [Next]_vars => [NewestFirstStep]_vars
  <2> SUFFICES ASSUME IInv, Next PROVE NewestFirstStep
    OBVIOUS
  <2>1. ASSUME NEW t \in Tasks,
               Submit(t) \/ Abandon(t) \/ Begin(t) \/ Finish(t) \/ Interrupted(t)
        PROVE  NewestFirstStep
    BY <2>1 DEF NewestFirstStep, Submit, Abandon, Begin, Finish, Interrupted, IInv,
                TypeOK, Live
  <2>2. ASSUME NEW s \in Sessions, Dequeue(s) PROVE NewestFirstStep
    BY <2>2, StartNextIsNewest DEF Dequeue
  <2>3. ASSUME NEW s \in Sessions, ProcessorNext(s) PROVE NewestFirstStep
    BY <2>3, StartNextIsNewest DEF ProcessorNext, NewestFirstStep
  <2>4. ASSUME NEW s \in Sessions, ProcessorExit(s) PROVE NewestFirstStep
    BY <2>4 DEF ProcessorExit, NewestFirstStep
  <2>5. ASSUME NEW c \in Cancellers, Cancel(c) \/ CancellerResumes(c) PROVE NewestFirstStep
    BY <2>5 DEF Cancel, CancellerResumes, NewestFirstStep
  <2>6. QED
    BY <2>1, <2>2, <2>3, <2>4, <2>5 DEF Next
<1>2. QED
  BY <1>1, Invariance, PTL DEF Spec, NewestFirst, NewestFirstStep
-----------------------------------------------------------------------------
(* The running task of a session without streams is found by cancel and by *)
(* has_active_tasks.  A canceller overwrites _session_tasks only after the *)
(* task it awaited was cancelled, so the processor has exited (Resumed),   *)
(* since a unary task that is to be cancelled cannot end otherwise         *)
(* (Waits).                                                                *)

Unary(s) == \A t \in Streams : SessionOf[t] # s

Shown == \A s \in Sessions : Unary(s) /\ cur[s] # Nil => sessTask[s] = cur[s]

\* Only the awaited task is waited for, and it will end cancelled or has.
Waits ==
    \A c \in Cancellers : cpc[c] = "waiting" =>
        /\ target[c] \in Tasks
        /\ Unary(SessionOf[target[c]]) =>
              /\ cur[SessionOf[target[c]]] = target[c]
              /\ \/ tstat[target[c]] = "cancelled"
                 \/ tstat[target[c]] \in Live /\ cancelReq[target[c]]

Resumed ==
    \A c \in Cancellers : cpc[c] = "resumed" =>
        /\ target[c] \in Tasks
        /\ Unary(SessionOf[target[c]]) => cur[SessionOf[target[c]]] = Nil

Visible == Shown /\ Waits /\ Resumed

\* An item that is taken becomes the task that is awaited and shown.
LEMMA StartNextShows ==
    ASSUME IInv, NEW s \in Sessions, StartNext(s)
    PROVE  /\ sessTask'[s] = cur'[s]
           /\ \A r \in Sessions : r # s => cur'[r] = cur[r] /\ sessTask'[r] = sessTask[r]
           /\ \A t \in Tasks : tstat'[t] # tstat[t] => tstat[t] = "queued"
BY DEF StartNext, IInv, TypeOK, Queued, Items

\* Choosing the next task to cancel: it lives, so its processor awaits it.
LEMMA CancelNextVisible ==
    ASSUME IInv, NEW c \in Cancellers, NEW S \in SUBSET Sessions, CancelNext(c, S),
           Waits, Resumed, UNCHANGED <<cur, tstat>>
    PROVE  Waits' /\ Resumed'
<1>1. CASE cpc' = [cpc EXCEPT ![c] = "idle"] /\ target' = [target EXCEPT ![c] = Nil]
           /\ UNCHANGED cancelReq
  BY <1>1 DEF Waits, Resumed, IInv, TypeOK
<1>2. ASSUME NEW s \in S, HasLiveTask(s), cpc' = [cpc EXCEPT ![c] = "waiting"],
             target' = [target EXCEPT ![c] = sessTask[s]],
             cancelReq' = [cancelReq EXCEPT ![sessTask[s]] = TRUE]
      PROVE  Waits' /\ Resumed'
  <2> DEFINE t == sessTask[s]
  <2>1. t \in Tasks /\ tstat[t] \in Live /\ cur[SessionOf[t]] = t
    BY <1>2 DEF HasLiveTask, IInv, Awaited
  <2>2. \A x \in Cancellers : x # c => cpc'[x] = cpc[x] /\ target'[x] = target[x]
    BY <1>2 DEF IInv, TypeOK
  <2>3. cpc'[c] = "waiting" /\ target'[c] = t /\ cancelReq'[t]
    BY <1>2, <2>1 DEF IInv, TypeOK
  <2>4. \A u \in Tasks : cancelReq[u] => cancelReq'[u]
    BY <1>2, <2>1 DEF IInv, TypeOK
  <2>5. Waits'
    BY <2>1, <2>2, <2>3, <2>4 DEF Waits, Unary
  <2>6. Resumed'
    BY <2>2, <2>3 DEF Resumed, Unary
  <2>7. QED
    BY <2>5, <2>6
<1>3. QED
  BY <1>1, <1>2 DEF CancelNext

LEMMA VisibleStep == IInv /\ Visible /\ [Next]_vars => Visible'
<1> SUFFICES ASSUME IInv, Visible, [Next]_vars PROVE Visible'
  OBVIOUS
<1>1. ASSUME NEW t \in Tasks, Submit(t) \/ Abandon(t) \/ Begin(t) \/ Finish(t) \/ Interrupted(t)
      PROVE  Visible'
  <2>1. UNCHANGED <<sessTask, cur, cpc, target>>
    BY <1>1 DEF Submit, Abandon, Begin, Finish, Interrupted, OnlyTasksChange, cancelVars
  <2>2. \A u \in Tasks : Unary(SessionOf[u]) =>
            /\ tstat[u] = "cancelled" => tstat'[u] = "cancelled"
            /\ tstat[u] \in Live /\ cancelReq[u] =>
                  tstat'[u] = "cancelled" \/ (tstat'[u] \in Live /\ cancelReq'[u])
    BY <1>1, SessionOfAssumption
       DEF Submit, Abandon, Begin, Finish, Interrupted, IInv, TypeOK, Live, Unary
  <2>3. QED
    BY <2>1, <2>2 DEF Visible, Shown, Waits, Resumed, Unary
<1>2. ASSUME NEW s \in Sessions, Dequeue(s) PROVE Visible'
  <2>1. cur[s] = Nil /\ UNCHANGED <<cancelReq, cpc, target>> /\ StartNext(s)
    BY <1>2 DEF Dequeue, cancelVars, IInv, Awaited
  <2>2. Shown'
    BY <2>1, StartNextShows DEF Visible, Shown, Unary
  <2>3. Waits'
    BY <2>1, StartNextShows, SessionOfAssumption, NilAssumption
       DEF Visible, Waits, Unary, Live
  <2>4. Resumed'
    BY <1>2, <2>1 DEF Dequeue, NoneResuming, Resumed
  <2>5. QED
    BY <2>2, <2>3, <2>4 DEF Visible
<1>3. ASSUME NEW s \in Sessions, ProcessorNext(s) \/ ProcessorExit(s) PROVE Visible'
  <2>1. /\ \A c \in Cancellers : cpc[c] # "resumed"
        /\ WakeCancellers(cur[s]) /\ UNCHANGED <<cancelReq, target>>
        /\ cur[s] \in Tasks /\ SessionOf[cur[s]] = s
    BY <1>3 DEF ProcessorNext, ProcessorExit, NoneResuming, IInv, TypeOK, Awaited
  <2>2. \A c \in Cancellers :
            /\ cpc'[c] = "waiting" => cpc[c] = "waiting" /\ target[c] # cur[s]
            /\ cpc'[c] = "resumed" => cpc[c] = "waiting" /\ target[c] = cur[s]
    BY <2>1 DEF WakeCancellers, IInv, TypeOK
  <2>3. /\ \A r \in Sessions : r # s => cur'[r] = cur[r] /\ sessTask'[r] = sessTask[r]
        /\ cur'[s] # Nil => sessTask'[s] = cur'[s]
        /\ \A u \in Tasks : tstat'[u] # tstat[u] => tstat[u] = "queued"
    <3>1. CASE ProcessorNext(s) /\ StartNext(s)
      BY <3>1, StartNextShows
    <3>2. CASE ProcessorNext(s) /\ ~StartNext(s)
      BY <3>2 DEF ProcessorNext, IInv, TypeOK
    <3>3. CASE ProcessorExit(s)
      BY <3>3 DEF ProcessorExit, IInv, TypeOK, Queued
    <3>4. QED
      BY <1>3, <3>1, <3>2, <3>3
  <2>4. Shown'
    BY <2>3 DEF Visible, Shown, Unary
  <2>5. Waits'
    BY <2>1, <2>2, <2>3, SessionOfAssumption DEF Visible, Waits, Unary, Live
  <2>6. Resumed'
    <3> SUFFICES ASSUME NEW c \in Cancellers, cpc'[c] = "resumed", Unary(s)
                 PROVE  cur'[s] = Nil
      BY <2>1, <2>2 DEF Resumed, Unary
    <3>1. tstat[cur[s]] # "done"
      BY <2>1, <2>2 DEF Visible, Waits, Live
    <3>2. QED
      BY <1>3, <3>1 DEF ProcessorNext, ProcessorExit, IInv, TypeOK
  <2>7. QED
    BY <2>4, <2>5, <2>6 DEF Visible
<1>4. ASSUME NEW c \in Cancellers, Cancel(c) PROVE Visible'
  <2>1. PICK S \in SUBSET Sessions : CancelNext(c, S)
    BY <1>4 DEF Cancel
  <2>2. UNCHANGED <<sessTask, cur, tstat>>
    BY <1>4 DEF Cancel
  <2>3. Waits' /\ Resumed'
    BY <2>1, <2>2, CancelNextVisible DEF Visible
  <2>4. QED
    BY <2>2, <2>3 DEF Visible, Shown, Unary
<1>5. ASSUME NEW c \in Cancellers, CancellerResumes(c) PROVE Visible'
  <2> DEFINE s == SessionOf[target[c]]
  <2>1. /\ cpc[c] = "resumed" /\ CancelNext(c, todo[c]) /\ todo[c] \in SUBSET Sessions
        /\ UNCHANGED <<cur, tstat>> /\ sessTask' = [sessTask EXCEPT ![s] = Nil]
    BY <1>5 DEF CancellerResumes, IInv, TypeOK
  <2>2. Waits' /\ Resumed'
    BY <2>1, CancelNextVisible DEF Visible
  <2>3. Unary(s) => cur[s] = Nil
    BY <2>1 DEF Visible, Resumed
  <2>4. Shown'
    BY <2>1, <2>3 DEF Visible, Shown, Unary, IInv, TypeOK
  <2>5. QED
    BY <2>2, <2>4 DEF Visible
<1>6. CASE UNCHANGED vars
  BY <1>6 DEF vars, Visible, Shown, Waits, Resumed, Unary
<1>7. QED
  BY <1>1, <1>2, <1>3, <1>4, <1>5, <1>6 DEF Next

\* In a session without streams the running task is always the one that
\* cancel_session_task and has_active_tasks find in _session_tasks.
THEOREM UnaryShown == Spec => []UnaryIsVisible
<1>1. Init => Visible
  BY DEF Init, Visible, Shown, Waits, Resumed
<1>2. IInv /\ Visible => UnaryIsVisible
  BY NilAssumption, SessionOfAssumption
     DEF UnaryIsVisible, Visible, Shown, Unary, Executing, IInv, Awaited
<1>3. QED
  BY <1>1, <1>2, VisibleStep, Invariance, PTL DEF Spec
=============================================================================
