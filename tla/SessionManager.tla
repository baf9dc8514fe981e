--------------------------- MODULE SessionManager ---------------------------
(***************************************************************************)
(* The per-session task queue of the agent server                          *)
(* (jiuwenswarm/server/runtime/session/session_manager.py) with the two    *)
(* kinds of work its caller submits (agent_adapter/interface.py):          *)
(*   - a unary task, awaited through the future of submit_and_wait;        *)
(*   - a stream task, run_stream_task, which swallows its cancellation and *)
(*     reports its end to the consumer of process_message_stream.          *)
(*                                                                         *)
(* One action is what the event loop runs between two suspensions.  The    *)
(* four dictionaries of the class are sessTask (with Absent for a missing  *)
(* key), queue, prio and proc; a queue and its priority counter exist      *)
(* exactly while the processor does.                                       *)
(***************************************************************************)
EXTENDS Integers

CONSTANTS
    Sessions,       \* session identifiers
    Tasks,          \* the task functions that may be submitted
    Cancellers,     \* concurrent callers of cancel_(all_)session_task(s)
    Streams,        \* the tasks that are run_stream_task closures
    SessionOf,      \* the session a task is submitted to
    Nil,            \* Python's None
    Absent          \* a key that is not in the dictionary

ASSUME StreamsAssumption == Streams \subseteq Tasks
ASSUME SessionOfAssumption == SessionOf \in [Tasks -> Sessions]
ASSUME NilAssumption == Nil \notin Tasks /\ Absent \notin Tasks /\ Nil # Absent

VARIABLES
    sessTask,       \* _session_tasks
    queue,          \* _session_queues: the [task, prio] items not yet taken
    prio,           \* _session_priorities
    proc,           \* the coroutine process_session_queue of a session
    cur,            \* the task the processor of a session awaits
    tstat,          \* life of a task
    cancelReq,      \* Task.cancel() was called, CancelledError not yet thrown
    waiter,         \* the caller waiting for the outcome of a task
    cpc,            \* control state of a canceller
    target,         \* the task a canceller awaits
    todo,           \* the sessions a canceller has still to visit
    stamp,          \* history: when a task was submitted
    arrivals        \* history: how many tasks were submitted

vars == <<sessTask, queue, prio, proc, cur, tstat, cancelReq, waiter,
          cpc, target, todo, stamp, arrivals>>

cancelVars == <<cpc, target, todo>>
history == <<stamp, arrivals>>

TaskState == {"new", "queued", "created", "running", "done", "cancelled", "lost"}
Live == {"created", "running"}
Ended == {"done", "cancelled"}

\* The counter only counts down from 0.
Priorities == {n \in Int : n <= 0}
Items == [task : Tasks, prio : Priorities \ {0}]

TypeOK ==
    /\ sessTask \in [Sessions -> Tasks \cup {Nil, Absent}]
    /\ queue \in [Sessions -> SUBSET Items]
    /\ prio \in [Sessions -> Priorities]
    /\ proc \in [Sessions -> {"none", "idle", "busy"}]
    /\ cur \in [Sessions -> Tasks \cup {Nil}]
    /\ tstat \in [Tasks -> TaskState]
    /\ cancelReq \in [Tasks -> BOOLEAN]
    /\ waiter \in [Tasks -> {"none", "waiting", "resolved", "abandoned"}]
    /\ cpc \in [Cancellers -> {"idle", "waiting", "resumed"}]
    /\ target \in [Cancellers -> Tasks \cup {Nil}]
    /\ todo \in [Cancellers -> SUBSET Sessions]
    /\ stamp \in [Tasks -> 0 .. arrivals]
    /\ arrivals \in Nat

Init ==
    /\ sessTask = [s \in Sessions |-> Absent]
    /\ queue = [s \in Sessions |-> {}]
    /\ prio = [s \in Sessions |-> 0]
    /\ proc = [s \in Sessions |-> "none"]
    /\ cur = [s \in Sessions |-> Nil]
    /\ tstat = [t \in Tasks |-> "new"]
    /\ cancelReq = [t \in Tasks |-> FALSE]
    /\ waiter = [t \in Tasks |-> "none"]
    /\ cpc = [c \in Cancellers |-> "idle"]
    /\ target = [c \in Cancellers |-> Nil]
    /\ todo = [c \in Cancellers |-> {}]
    /\ stamp = [t \in Tasks |-> 0]
    /\ arrivals = 0

(***************************************************************************)
(* asyncio schedules the wake-ups of everyone awaiting a task next to each *)
(* other, the processor's first: when it has resumed, the cancellers of    *)
(* that task run before any other callback.                                *)
(***************************************************************************)
NoneResuming == \A c \in Cancellers : cpc[c] # "resumed"

\* asyncio.PriorityQueue.get returns the item with the least priority.
IsOldest(i, q) == \A j \in q : j.prio <= i.prio
IsFirst(i, q) == \A j \in q : i.prio <= j.prio

\* The processor takes the first item of its queue, creates its task and
\* awaits it.
StartNext(s) ==
    \E i \in queue[s] :
        /\ IsFirst(i, queue[s])
        /\ queue' = [queue EXCEPT ![s] = @ \ {i}]
        /\ cur' = [cur EXCEPT ![s] = i.task]
        /\ sessTask' = [sessTask EXCEPT ![s] = i.task]
        /\ proc' = [proc EXCEPT ![s] = "busy"]
        /\ tstat' = [tstat EXCEPT ![i.task] = "created"]

-----------------------------------------------------------------------------
(* Submitting: ensure_session_processor, then the put.                     *)

\* ensure_session_processor starts a fresh queue, with priorities from 0,
\* when no processor runs; an existing one is left alone even if the task it
\* awaits has just been cancelled and it is about to exit.
BaseQueue(s) == IF proc[s] = "none" THEN {} ELSE queue[s]

BasePrio(s) == IF proc[s] = "none" THEN 0 ELSE prio[s]

EnsureNothing(s) == proc[s]
EnsureProcessor(s) == IF proc[s] = "none" THEN "idle" ELSE proc[s]

\* submit_task and submit_and_wait, whose caller goes on to wait.
Submit(t) ==
    LET s == SessionOf[t] IN
    /\ NoneResuming
    /\ tstat[t] = "new"
    /\ proc' = [proc EXCEPT ![s] = EnsureProcessor(s)]
    /\ prio' = [prio EXCEPT ![s] = BasePrio(s) - 1]
    /\ queue' = [queue EXCEPT ![s] =
                    BaseQueue(s) \cup {[task |-> t, prio |-> BasePrio(s) - 1]}]
    /\ tstat' = [tstat EXCEPT ![t] = "queued"]
    /\ waiter' = [waiter EXCEPT ![t] = "waiting"]
    /\ stamp' = [stamp EXCEPT ![t] = arrivals + 1]
    /\ arrivals' = arrivals + 1
    /\ UNCHANGED <<sessTask, cur, cancelReq, cancelVars>>

\* The caller is itself cancelled (its connection closed, or the request was
\* interrupted): the queue does not learn of it.
Abandon(t) ==
    /\ NoneResuming
    /\ waiter[t] = "waiting"
    /\ waiter' = [waiter EXCEPT ![t] = "abandoned"]
    /\ UNCHANGED <<sessTask, queue, prio, proc, cur, tstat, cancelReq,
                   cancelVars, history>>

-----------------------------------------------------------------------------
(* The processor of a session.                                             *)

DequeueWithoutAwait(s) ==
    /\ NoneResuming
    /\ proc[s] \in {"idle", "busy"}
    /\ StartNext(s)
    /\ UNCHANGED <<prio, cancelReq, waiter, cancelVars, history>>
Dequeue(s) ==
    /\ NoneResuming
    /\ proc[s] = "idle"
    /\ StartNext(s)
    /\ UNCHANGED <<prio, cancelReq, waiter, cancelVars, history>>

WakeCancellers(t) ==
    cpc' = [c \in Cancellers |->
              IF cpc[c] = "waiting" /\ target[c] = t THEN "resumed" ELSE cpc[c]]

\* The awaited task ended without CancelledError: _session_tasks[s] = None,
\* then the loop takes the next item at once or waits for one.
ProcessorNext(s) ==
    /\ NoneResuming
    /\ proc[s] = "busy" /\ tstat[cur[s]] = "done"
    /\ WakeCancellers(cur[s])
    /\ \/ StartNext(s)
       \/ /\ queue[s] = {}
          /\ proc' = [proc EXCEPT ![s] = "idle"]
          /\ cur' = [cur EXCEPT ![s] = Nil]
          /\ sessTask' = [sessTask EXCEPT ![s] = Nil]
          /\ UNCHANGED <<queue, tstat>>
    /\ UNCHANGED <<prio, cancelReq, waiter, target, todo, history>>

\* The awaited task was cancelled: its CancelledError surfaces in the
\* processor, which breaks out of its loop and forgets the session; whatever
\* was still queued goes with the queue.
ProcessorSurvives(s) ==
    /\ NoneResuming
    /\ proc[s] = "busy" /\ tstat[cur[s]] = "cancelled"
    /\ queue[s] # {}
    /\ WakeCancellers(cur[s])
    /\ StartNext(s)
    /\ UNCHANGED <<prio, cancelReq, waiter, target, todo, history>>
ProcessorExit(s) ==
    /\ NoneResuming
    /\ proc[s] = "busy" /\ tstat[cur[s]] = "cancelled"
    /\ WakeCancellers(cur[s])
    /\ proc' = [proc EXCEPT ![s] = "none"]
    /\ cur' = [cur EXCEPT ![s] = Nil]
    /\ sessTask' = [sessTask EXCEPT ![s] = Absent]
    /\ queue' = [queue EXCEPT ![s] = {}]
    /\ prio' = [prio EXCEPT ![s] = 0]
    /\ tstat' = [t \in Tasks |->
                   IF \E i \in queue[s] : i.task = t THEN "lost" ELSE tstat[t]]
    /\ UNCHANGED <<cancelReq, waiter, target, todo, history>>

-----------------------------------------------------------------------------
(* The tasks.                                                              *)

Resolve(t) == waiter' = [waiter EXCEPT ![t] = IF @ = "waiting" THEN "resolved" ELSE @]

OnlyTasksChange == UNCHANGED <<sessTask, queue, prio, proc, cur, cancelVars, history>>

\* The first step of a created task.
Begin(t) ==
    /\ NoneResuming
    /\ tstat[t] = "created" /\ ~cancelReq[t]
    /\ tstat' = [tstat EXCEPT ![t] = "running"]
    /\ UNCHANGED <<cancelReq, waiter>>
    /\ OnlyTasksChange

\* The task function returns or raises: either way the waiter learns of it.
FinishUnanswered(t) ==
    /\ NoneResuming
    /\ tstat[t] = "running" /\ ~cancelReq[t]
    /\ tstat' = [tstat EXCEPT ![t] = "done"]
    /\ UNCHANGED <<cancelReq, waiter>>
    /\ OnlyTasksChange
Finish(t) ==
    /\ NoneResuming
    /\ tstat[t] = "running" /\ ~cancelReq[t]
    /\ tstat' = [tstat EXCEPT ![t] = "done"]
    /\ Resolve(t)
    /\ UNCHANGED cancelReq
    /\ OnlyTasksChange

\* CancelledError is thrown into the task.  A stream task that has entered its
\* try block catches it, tells its consumer and ends normally.  Any other task
\* ends cancelled, and nobody settles its future or its stream_done event:
\* wrapped_task catches Exception only, and a task cancelled before its first
\* step never enters its try block.
InterruptIgnored(t) ==
    /\ NoneResuming
    /\ cancelReq[t] /\ tstat[t] = "running"
    /\ cancelReq' = [cancelReq EXCEPT ![t] = FALSE]
    /\ UNCHANGED <<tstat, waiter>>
    /\ OnlyTasksChange
Interrupted(t) ==
    /\ NoneResuming
    /\ cancelReq[t] /\ tstat[t] \in Live
    /\ cancelReq' = [cancelReq EXCEPT ![t] = FALSE]
    /\ \/ /\ t \in Streams /\ tstat[t] = "running"
          /\ tstat' = [tstat EXCEPT ![t] = "done"]
          /\ Resolve(t)
       \/ /\ ~(t \in Streams /\ tstat[t] = "running")
          /\ tstat' = [tstat EXCEPT ![t] = "cancelled"]
          /\ UNCHANGED waiter
    /\ OnlyTasksChange

-----------------------------------------------------------------------------
(* Cancelling.                                                             *)

\* get_current_task finds a task that is not done.
HasLiveTask(s) == sessTask[s] \in Tasks /\ tstat[sessTask[s]] \in Live

\* Visit the sessions of S: cancel the first live task found and await it, or
\* return when there is none.  Sessions without a live task may have been
\* passed over on the way (the order is that of the dictionary).
CancelNext(c, S) ==
    \/ /\ \A s \in S : ~HasLiveTask(s)
       /\ cpc' = [cpc EXCEPT ![c] = "idle"]
       /\ target' = [target EXCEPT ![c] = Nil]
       /\ todo' = [todo EXCEPT ![c] = {}]
       /\ UNCHANGED cancelReq
    \/ \E s \in S : \E rest \in SUBSET (S \ {s}) :
          /\ HasLiveTask(s)
          /\ \A r \in (S \ {s}) \ rest : ~HasLiveTask(r)
          /\ cpc' = [cpc EXCEPT ![c] = "waiting"]
          /\ target' = [target EXCEPT ![c] = sessTask[s]]
          /\ todo' = [todo EXCEPT ![c] = rest]
          /\ cancelReq' = [cancelReq EXCEPT ![sessTask[s]] = TRUE]

\* cancel_session_task(s) is {s}; cancel_all_session_tasks is every key.
Cancel(c) ==
    /\ NoneResuming
    /\ cpc[c] = "idle"
    /\ \E S \in {{s} : s \in Sessions} \cup {{s \in Sessions : sessTask[s] # Absent}} :
          /\ \E s \in S : HasLiveTask(s)
          /\ CancelNext(c, S)
    /\ UNCHANGED <<sessTask, queue, prio, proc, cur, tstat, waiter, history>>

\* The awaited task is over: _session_tasks[session_id] = None, whatever the
\* processor has put there meanwhile; cancel_all goes on to the next session.
CancellerResumes(c) ==
    LET s == SessionOf[target[c]] IN
    /\ cpc[c] = "resumed"
    /\ sessTask' = [sessTask EXCEPT ![s] = Nil]
    /\ CancelNext(c, todo[c])
    /\ UNCHANGED <<queue, prio, proc, cur, tstat, waiter, history>>

-----------------------------------------------------------------------------

Next ==
    \/ \E t \in Tasks : Submit(t) \/ Abandon(t) \/ Begin(t) \/ Finish(t) \/ Interrupted(t)
    \/ \E s \in Sessions : Dequeue(s) \/ ProcessorNext(s) \/ ProcessorExit(s)
    \/ \E c \in Cancellers : Cancel(c) \/ CancellerResumes(c)

Spec == Init /\ [][Next]_vars

-----------------------------------------------------------------------------
(* Properties.                                                             *)

Executing(s) == {t \in Tasks : SessionOf[t] = s /\ tstat[t] \in Live}

\* Tasks of one session never overlap, through submissions to a processor that
\* is about to exit, restarts of the processor and cancellations.
OneTaskPerSession == \A s \in Sessions : \A t, u \in Executing(s) : t = u

\* Within a queue a later submission has a smaller priority, so no two items
\* compare equal (heapq would go on to compare the task functions and raise
\* TypeError), although the counter restarts at 0 with every new processor.
PriorityIsReversedArrival ==
    \A s \in Sessions : \A i, j \in queue[s] :
        /\ stamp[i.task] < stamp[j.task] <=> j.prio < i.prio
        /\ i.prio = j.prio => i = j

\* "New tasks first": a task leaves the queue only when no later submission to
\* its session is still queued.
NewestFirst ==
    [][\A t, u \in Tasks :
          /\ SessionOf[t] = SessionOf[u]
          /\ tstat[t] = "queued" /\ tstat'[t] = "created"
          /\ tstat[u] = "queued" /\ u # t
          => stamp[u] < stamp[t]]_vars

\* A queued task is never stranded: it is in the queue of a session whose
\* processor is there to take it.
QueuedIsServed ==
    \A t \in Tasks : tstat[t] = "queued" =>
        /\ proc[SessionOf[t]] # "none"
        /\ \E i \in queue[SessionOf[t]] : i.task = t

\* has_active_tasks and cancel_session_task look the running task up in
\* _session_tasks: in a session without stream tasks they find it, across
\* cancellations and restarts of the processor, since the processor of a
\* cancelled unary task exits.
UnaryIsVisible ==
    \A s \in Sessions :
        (\A t \in Streams : SessionOf[t] # s) => \A t \in Executing(s) : sessTask[s] = t
=============================================================================
