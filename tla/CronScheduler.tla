---------------------------- MODULE CronScheduler ----------------------------
(***************************************************************************)
(* The gateway's scheduler of cron jobs                                    *)
(* (jiuwenswarm/gateway/cron/scheduler.py) with the controller that edits  *)
(* jobs (controller.py), the file they live in (store.py), and the agent   *)
(* server, another process that writes the same file.                      *)
(*                                                                         *)
(* Each occurrence of a job has a wake event, which starts the agent       *)
(* early, and a push event, which delivers the result, or a placeholder    *)
(* and later, by a push_update event, the result.                          *)
(*                                                                         *)
(* One unit of time is the interval at which the loop polls the file.  The *)
(* loop handles what is due without letting another coroutine run, except  *)
(* while a push goes through the outbound pipeline's language model.       *)
(***************************************************************************)
EXTENDS Integers, FiniteSets

CONSTANTS
    Jobs,
    Schedule,       \* the times a job's cron expression names
    Offset,         \* wake_offset_seconds
    DeleteAfterRun, \* the jobs with delete_after_run
    Slow,           \* the jobs whose pushes are classified by the pipeline
    Raising,        \* the jobs whose pushes may raise, as those to enterprise Feishu
                    \* do while the job is bound to a session
    Edited,         \* the jobs users and agents change
    FirstJobs,      \* the jobs the file holds at first
    HasFile,        \* whether there is a file at first
    Allowed,        \* what happens besides the schedule, a subset of Happenings
    MaxEdits,       \* bound: changes, manual runs and restarts
    MaxTime,        \* bound: time
    Horizon,        \* bound: the latest time a schedule names
    Nil

Happenings == {"controller", "external", "run_now", "restart", "fail"}

Times == 0 .. Horizon

\* A run_id: the job and the second of its push.
Runs == Jobs \X Times

ASSUME TimeAssumption == MaxTime \in Nat /\ Horizon \in Nat /\ MaxTime < Horizon
ASSUME ScheduleAssumption == Schedule \in [Jobs -> SUBSET Times] /\ Offset \in [Jobs -> Nat]
ASSUME JobsAssumption ==
    /\ IsFiniteSet(Jobs)
    /\ DeleteAfterRun \subseteq Jobs /\ Slow \subseteq Jobs /\ Raising \subseteq Jobs
    /\ Edited \subseteq Jobs /\ FirstJobs \subseteq Jobs
ASSUME FileAssumption == HasFile \in BOOLEAN /\ (FirstJobs # {} => HasFile)
ASSUME AllowedAssumption == Allowed \subseteq Happenings /\ MaxEdits \in Nat

VARIABLES
    now,
    store,          \* cron_jobs.json
    file,           \* whether cron_jobs.json exists
    synced,         \* its mtime compared with _last_store_mtime
    jobs,           \* _jobs
    events,         \* the heap _events
    seq,            \* _seq
    reloadEvent,    \* _reload_event, as it matters while the loop waits
    pc,             \* control state of _loop
    ev,             \* the event in the loop's hands
    sending,        \* what the loop delivers for ev
    own,            \* the job in the loop's hands is the one in _jobs
    reloading,      \* reload() has read the file, not yet its mtime
    text,           \* the runs with a result_text
    placeholder,    \* the runs with placeholder_sent
    final,          \* the runs with pushed_final
    task,           \* _run_tasks
    displaced,      \* history: the runs whose wake event the loop discarded for another event
    disturbed,      \* history: the runs a reload by the loop found under way, and the
                    \* occurrences that went by while a push took time or after one raised
    raised,         \* history: the runs a push or push_update of which raised
    stranded,       \* history: those whose push raised, and nothing is planned since
    slipped,        \* history: another process wrote the file since the last reload
                    \* in a way its mtime does not tell
    edits,          \* how many changes, manual runs and restarts happened
    starts,         \* history: how often the agent was started for a run
    notes,          \* history: how many placeholders a run delivered
    results         \* history: how many results a run delivered

vars == <<now, store, file, synced, jobs, events, seq, reloadEvent, pc, ev, sending, own,
          reloading, text, placeholder, final, task, displaced, disturbed, raised, stranded,
          slipped, edits, starts, notes, results>>

fileVars == <<store, file, synced>>
planVars == <<jobs, events, seq>>
loopVars == <<pc, ev, sending, own>>
runVars == <<text, placeholder, final, task, starts, notes, results>>
mishapVars == <<raised, stranded, slipped>>

JobState == {"absent", "on", "off", "expired"}
Event == [at : Int, n : Nat, kind : {"wake", "push", "push_update"}, run : Runs]

TypeOK ==
    /\ now \in 0 .. MaxTime
    /\ store \in [Jobs -> JobState]
    /\ file \in BOOLEAN
    /\ synced \in {"none", "fresh", "stale"}
    /\ jobs \in [Jobs -> {"absent", "on", "off"}]
    /\ events \in SUBSET Event
    /\ seq \in Nat
    /\ reloadEvent \in BOOLEAN
    /\ pc \in {"down", "top", "idle", "polling", "sleeping", "timedout", "pushing", "error"}
    /\ ev \in Event \cup {Nil}
    /\ sending \in {"nothing", "placeholder", "result"}
    /\ own \in BOOLEAN
    /\ reloading \in BOOLEAN
    /\ text \in SUBSET Runs /\ placeholder \in SUBSET Runs /\ final \in SUBSET Runs
    /\ task \in [Runs -> {"none", "active", "done"}]
    /\ displaced \in SUBSET Runs /\ disturbed \in SUBSET Runs
    /\ raised \in SUBSET Runs /\ stranded \in SUBSET Runs /\ slipped \in BOOLEAN
    /\ edits \in 0 .. MaxEdits
    /\ starts \in [Runs -> Nat] /\ notes \in [Runs -> Nat] /\ results \in [Runs -> Nat]

Init ==
    /\ now = 0 /\ edits = 0
    /\ store = [j \in Jobs |-> IF j \in FirstJobs THEN "on" ELSE "absent"]
    /\ file = HasFile
    /\ synced = "none"
    /\ pc = "down" /\ ev = Nil /\ sending = "nothing" /\ own = FALSE
    /\ reloadEvent = FALSE /\ reloading = FALSE
    /\ jobs = [j \in Jobs |-> "absent"] /\ events = {} /\ seq = 0
    /\ text = {} /\ placeholder = {} /\ final = {} /\ displaced = {} /\ disturbed = {}
    /\ raised = {} /\ stranded = {} /\ slipped = FALSE
    /\ task = [r \in Runs |-> "none"]
    /\ starts = [r \in Runs |-> 0]
    /\ notes = [r \in Runs |-> 0]
    /\ results = [r \in Runs |-> 0]

-----------------------------------------------------------------------------
(* Schedules and the event queue.                                          *)

\* croniter's get_next: strictly later than the base.
UpcomingInclusive(j, t) == {p \in Schedule[j] : p >= t}
Upcoming(j, t) == {p \in Schedule[j] : p > t}

\* _compute_next_run: the next run of each of the jobs J, if it has one.
NextRuns(J, t) ==
    {r \in J \X Times : r[2] \in Upcoming(r[1], t) /\ \A q \in Upcoming(r[1], t) : r[2] <= q}

WakeOf(r, n) == [at |-> r[2] - Offset[r[1]], n |-> n, kind |-> "wake", run |-> r]
PushOf(r, n) == [at |-> r[2], n |-> n, kind |-> "push", run |-> r]

\* heapq: the least (at, seq).
Before(e, f) == e.at < f.at \/ (e.at = f.at /\ e.n <= f.n)
IsHead(e, q) == e \in q /\ \A f \in q : Before(e, f)

-----------------------------------------------------------------------------
(* The file.                                                               *)

Write(s) ==
    /\ store' = s
    /\ file' = TRUE
    /\ synced' = IF synced = "fresh" THEN "stale" ELSE synced

\* What an edit makes of a job that is in state v.
Edits(v) == {"on", "off"} \cup IF v = "absent" THEN {} ELSE {"absent", v}

\* The store as reload() leaves it: jobs whose schedule names no later time
\* are marked as expired.
NoLonger(s) == {j \in Jobs : s[j] = "on" /\ Upcoming(j, now) = {}}
Expire(s) == [j \in Jobs |-> IF j \in NoLonger(s) THEN "expired" ELSE s[j]]

-----------------------------------------------------------------------------
(* reload().  It does not suspend, but the agent server may write the file *)
(* between its reading the file and its reading the mtime.                 *)

\* What reload() puts into _jobs.
Copied(s) == [j \in Jobs |-> IF s[j] = "on" /\ j \notin NoLonger(s) THEN "on"
                             ELSE IF s[j] = "absent" THEN "absent" ELSE "off"]

\* Jobs are listed by the time of their last change, which is left open: a
\* reload meets them in any order.
Orders ==
    {p \in [Jobs -> 1 .. Cardinality(Jobs)] : \A i, j \in Jobs : p[i] = p[j] => i = j}

Planned(s, place) ==
    LET next == NextRuns({j \in Jobs : s[j] = "on"}, now) IN
    {WakeOf(r, 2 * place[r[1]] - 1) : r \in next} \cup {PushOf(r, 2 * place[r[1]]) : r \in next}

\* _jobs and _events are built anew; pending push_updates are kept.
RebuildDropsUpdates(s) ==
    /\ jobs' = Copied(s)
    /\ \E place \in Orders : events' = Planned(s, place)
    /\ seq' = 2 * Cardinality(Jobs)
    /\ stranded' = {} /\ slipped' = FALSE
Rebuild(s) ==
    /\ jobs' = Copied(s)
    /\ \E place \in Orders :
          events' = {e \in events : e.kind = "push_update"} \cup Planned(s, place)
    /\ seq' = 2 * Cardinality(Jobs)
    /\ stranded' = {} /\ slipped' = FALSE

\* reload() of a gateway that has just made the store s.
ReloadWith(s) ==
    /\ Rebuild(s)
    /\ reloading' = TRUE
    /\ IF Expire(s) = store THEN UNCHANGED fileVars ELSE Write(Expire(s))

\* _sync_store_mtime, and the loop is woken.
SyncStoreMtime ==
    /\ reloading
    /\ reloading' = FALSE
    /\ synced' = IF file THEN "fresh" ELSE "none"
    /\ reloadEvent' = TRUE
    /\ UNCHANGED <<now, store, file, planVars, loopVars, runVars, displaced, disturbed, mishapVars,
                   edits>>

-----------------------------------------------------------------------------
(* Handling an event.                                                      *)

Handled == ev' = Nil /\ pc' = "top" /\ UNCHANGED <<sending, own>>
RunsUnchanged == UNCHANGED runVars

\* _on_wake: start the agent unless the run's task is still active.
OnWake(r) ==
    IF task[r] = "active" THEN RunsUnchanged
    ELSE /\ task' = [task EXCEPT ![r] = "active"]
         /\ starts' = [starts EXCEPT ![r] = @ + 1]
         /\ UNCHANGED <<text, placeholder, final, notes, results>>

\* What _on_push and _on_push_update deliver for a run.
OutgoingAlways(e) == IF e.run \in text THEN "result" ELSE "placeholder"
Outgoing(e) ==
    IF e.run \in final THEN "nothing"
    ELSE IF e.run \in text THEN "result"
    ELSE IF e.kind = "push" THEN "placeholder" ELSE "nothing"

\* _handle_event: only a push_update may concern a job that is gone or off.
Handle(e) ==
    \/ /\ e.kind # "push_update" /\ jobs[e.run[1]] # "on"
       /\ Handled
       /\ RunsUnchanged
    \/ /\ e.kind = "wake" /\ jobs[e.run[1]] = "on"
       /\ OnWake(e.run)
       /\ Handled
    \/ /\ e.kind = "push_update" \/ (e.kind = "push" /\ jobs[e.run[1]] = "on")
       /\ pc' = "pushing" /\ ev' = e
       /\ sending' = Outgoing(e)
       /\ own' = TRUE
       /\ RunsUnchanged

\* The message is published and the flag set.
Deliver(r) ==
    /\ final' = IF sending = "result" THEN final \cup {r} ELSE final
    /\ placeholder' = IF sending = "placeholder" THEN placeholder \cup {r} ELSE placeholder
    /\ results' = IF sending = "result" THEN [results EXCEPT ![r] = @ + 1] ELSE results
    /\ notes' = IF sending = "placeholder" THEN [notes EXCEPT ![r] = @ + 1] ELSE notes
    /\ UNCHANGED <<text, task, starts>>

\* After a push: delete the job, or schedule its next occurrence, or mark it
\* as expired, in the file only if it is still there.
AfterPushOnce(j) == UNCHANGED <<planVars, fileVars>>
AfterPushWithoutWake(j) ==
    /\ events' = events \cup {PushOf(r, seq + 1) : r \in NextRuns({j}, now)}
    /\ seq' = seq + 1
    /\ UNCHANGED <<jobs, fileVars>>
AfterPushInMemory(j) ==
    /\ jobs' = IF Upcoming(j, now) = {} THEN [jobs EXCEPT ![j] = "off"] ELSE jobs
    /\ UNCHANGED <<events, seq, fileVars>>
AfterPush(j) ==
    \/ /\ j \in DeleteAfterRun
       /\ jobs' = [jobs EXCEPT ![j] = "absent"]
       /\ IF store[j] = "absent" THEN UNCHANGED fileVars
          ELSE Write([store EXCEPT ![j] = "absent"])
       /\ UNCHANGED <<events, seq>>
    \/ /\ j \notin DeleteAfterRun /\ Upcoming(j, now) # {}
       /\ events' = events \cup {WakeOf(r, seq + 1) : r \in NextRuns({j}, now)}
                            \cup {PushOf(r, seq + 2) : r \in NextRuns({j}, now)}
       /\ seq' = seq + 2
       /\ UNCHANGED <<jobs, fileVars>>
    \/ /\ j \notin DeleteAfterRun /\ Upcoming(j, now) = {}
       /\ jobs' = IF own THEN [jobs EXCEPT ![j] = "off"] ELSE jobs
       /\ IF store[j] = "absent" THEN UNCHANGED fileVars
          ELSE Write([store EXCEPT ![j] = "expired"])
       /\ UNCHANGED <<events, seq>>

-----------------------------------------------------------------------------
(* _loop.  What it schedules itself sets _reload_event too, to no effect:  *)
(* it clears it before it waits.                                           *)

Due(e) == e.at <= now

\* The loop waits for its next event, or for any.
Wait ==
    /\ pc = "top" /\ ~reloading
    /\ \A e \in events : ~Due(e)
    /\ reloadEvent' = FALSE
    /\ \/ events = {} /\ pc' = "idle" /\ ev' = Nil
       \/ \E e \in events : IsHead(e, events) /\ pc' = "sleeping" /\ ev' = e
    /\ UNCHANGED <<now, fileVars, planVars, sending, own, reloading, runVars, displaced, disturbed,
                   mishapVars, edits>>

Woken ==
    /\ pc \in {"idle", "sleeping"} /\ reloadEvent /\ ~reloading
    /\ pc' = "top"
    /\ ev' = Nil
    /\ UNCHANGED <<now, fileVars, planVars, reloadEvent, sending, own, reloading, runVars,
                   displaced, disturbed, mishapVars, edits>>

HandleDue ==
    /\ pc = "top" /\ ~reloading
    /\ \E e \in events :
          /\ IsHead(e, events) /\ Due(e)
          /\ events' = events \ {e}
          /\ Handle(e)
    /\ UNCHANGED <<now, fileVars, jobs, seq, reloadEvent, reloading, displaced, disturbed, mishapVars,
                   edits>>

\* The poll interval or the delay has passed and the file was changed.
StoreChanged == file /\ synced = "stale"

\* The occurrences of the job of run r that have passed since r was due: what
\* is planned after its push is later than these.
PassedSince(r) ==
    {q \in Runs : q[1] = r[1] /\ q[2] \in Schedule[q[1]] /\ r[2] < q[2] /\ q[2] <= now}

\* The runs whose wake is due or past and whose push is still ahead.
UnderWay == {e.run : e \in {p \in events : p.kind = "push" /\ p.at - Offset[p.run[1]] <= now}}

CheckStoreChanged ==
    /\ pc \in {"polling", "timedout"} /\ ~reloading
    /\ StoreChanged
    /\ ReloadWith(store)
    /\ pc' = "top" /\ ev' = Nil
    /\ disturbed' = disturbed \cup UnderWay \cup UNION {PassedSince(r) : r \in stranded}
    /\ UNCHANGED <<now, reloadEvent, sending, own, runVars, displaced, raised, edits>>

PollAgain ==
    /\ ~reloading /\ ~StoreChanged
    /\ pc = "polling" \/ (pc = "timedout" /\ ~Due(ev))
    /\ pc' = "top" /\ ev' = Nil
    /\ UNCHANGED <<now, fileVars, planVars, reloadEvent, sending, own, reloading, runVars,
                   displaced, disturbed, mishapVars, edits>>

\* The head e of the queue is taken out for the event in the loop's hands.
Discards(e) ==
    displaced' = displaced \cup (IF e = ev \/ e.kind # "wake" THEN {} ELSE {e.run})

\* The event the loop waited for is due: it takes the head of the queue out,
\* whatever it is by now, and handles the event it waited for.
TimerDue ==
    /\ pc = "timedout" /\ ~reloading /\ ~StoreChanged
    /\ Due(ev)
    /\ \/ /\ events = {}
          /\ pc' = "error" /\ ev' = Nil
          /\ UNCHANGED <<events, sending, own, displaced>>
          /\ RunsUnchanged
       \/ \E e \in events :
             /\ IsHead(e, events)
             /\ events' = events \ {e}
             /\ Discards(e)
             /\ Handle(ev)
    /\ UNCHANGED <<now, fileVars, jobs, seq, reloadEvent, reloading, disturbed, mishapVars, edits>>

\* The loop has caught an exception and slept.
RecoverFromError ==
    /\ pc = "error" /\ ~reloading
    /\ pc' = "top"
    /\ UNCHANGED <<now, fileVars, planVars, reloadEvent, ev, sending, own, reloading, runVars,
                   displaced, disturbed, mishapVars, edits>>

PushDone ==
    /\ pc = "pushing" /\ ~reloading
    /\ Deliver(ev.run)
    /\ \/ /\ ev.kind = "push" /\ AfterPush(ev.run[1])
          /\ disturbed' = disturbed \cup PassedSince(ev.run)
          /\ stranded' = {r \in stranded : r[1] # ev.run[1]}
       \/ ev.kind # "push" /\ UNCHANGED <<planVars, fileVars, disturbed, stranded>>
    /\ pc' = "top" /\ ev' = Nil /\ sending' = "nothing" /\ own' = FALSE
    /\ UNCHANGED <<now, reloadEvent, reloading, displaced, raised, slipped, edits>>

\* _push_to_targets raises, which the loop catches and survives: the event is
\* gone, nothing is delivered, no flag set, and what follows a push left out.
PushRaises ==
    /\ pc = "pushing" /\ ~reloading
    /\ ev.run[1] \in Raising /\ sending # "nothing"
    /\ raised' = raised \cup {ev.run}
    /\ stranded' = IF ev.kind = "push" THEN stranded \cup {ev.run} ELSE stranded
    /\ pc' = "error" /\ ev' = Nil /\ sending' = "nothing" /\ own' = FALSE
    /\ UNCHANGED <<now, fileVars, planVars, reloadEvent, reloading, runVars, displaced, disturbed,
                   slipped, edits>>

-----------------------------------------------------------------------------
(* The other coroutines of the gateway run while the loop is suspended.    *)

Yielded ==
    /\ ~reloading
    /\ pc # "top"
    /\ pc = "pushing" => ev.run[1] \in Slow /\ sending # "nothing"

\* start(); one process has one service and starts it once.
Start ==
    /\ pc = "down"
    /\ ReloadWith(store)
    /\ pc' = "top"
    /\ UNCHANGED <<now, reloadEvent, ev, sending, own, runVars, displaced, disturbed, raised, edits>>

\* The gateway process ends, by stop() or a crash, and comes back later: all
\* but the file is lost.
Restart ==
    /\ "restart" \in Allowed /\ pc # "down" /\ edits < MaxEdits
    /\ edits' = edits + 1
    /\ now' \in now .. MaxTime
    /\ synced' = "none"
    /\ pc' = "down" /\ ev' = Nil /\ sending' = "nothing" /\ own' = FALSE
    /\ reloadEvent' = FALSE /\ reloading' = FALSE
    /\ jobs' = [j \in Jobs |-> "absent"] /\ events' = {} /\ seq' = 0
    /\ text' = {} /\ placeholder' = {} /\ final' = {}
    /\ displaced' = {} /\ disturbed' = {}
    /\ raised' = {} /\ stranded' = {} /\ slipped' = FALSE
    /\ task' = [r \in Runs |-> "none"]
    /\ starts' = [r \in Runs |-> 0]
    /\ notes' = [r \in Runs |-> 0]
    /\ results' = [r \in Runs |-> 0]
    /\ UNCHANGED <<store, file>>

\* _run_agent ends.  Its finally block schedules a push_update when a
\* placeholder was sent, and one when the push time has passed.
FinallyUpdates(r, answered) ==
    IF ~answered \/ r \in final THEN 0
    ELSE (IF r \in placeholder THEN 1 ELSE 0) + (IF r[2] <= now THEN 1 ELSE 0)

AgentEnds(r, answered) ==
    LET has == answered \/ r \in text
        n == FinallyUpdates(r, has) IN
    /\ Yielded
    /\ task[r] = "active"
    /\ task' = [task EXCEPT ![r] = "done"]
    /\ text' = IF has THEN text \cup {r} ELSE text
    /\ events' = events \cup {[at |-> now, n |-> i, kind |-> "push_update", run |-> r] :
                                 i \in seq + 1 .. seq + n}
    /\ seq' = seq + n
    /\ reloadEvent' = (reloadEvent \/ n > 0)
    /\ UNCHANGED <<now, fileVars, jobs, loopVars, reloading, placeholder, final,
                   starts, notes, results, displaced, disturbed, mishapVars, edits>>

Answers(r) == AgentEnds(r, TRUE)
Fails(r) == "fail" \in Allowed /\ AgentEnds(r, FALSE)

\* create_job, update_job, toggle_job, delete_job: write, then reload.
Controller(j) ==
    /\ "controller" \in Allowed /\ edits < MaxEdits
    /\ Yielded /\ pc # "down"
    /\ edits' = edits + 1
    /\ \E v \in Edits(store[j]) :
          LET s == [store EXCEPT ![j] = v] IN
          /\ Rebuild(s)
          /\ reloading' = TRUE
          /\ Write(Expire(s))
    /\ own' = FALSE
    /\ UNCHANGED <<now, reloadEvent, pc, ev, sending, runVars, displaced, disturbed, raised>>

\* The agent server's cron tools write the file.  The mtime does not tell it
\* between the two halves of a reload, nor when there was no file to sync.
External(j) ==
    /\ "external" \in Allowed /\ edits < MaxEdits
    /\ edits' = edits + 1
    /\ \E v \in Edits(store[j]) : Write([store EXCEPT ![j] = v])
    /\ slipped' = (slipped \/ reloading \/ synced = "none")
    /\ UNCHANGED <<now, planVars, reloadEvent, loopVars, reloading, runVars, displaced, disturbed,
                   raised, stranded>>

\* trigger_run_now.
RunNow(j) ==
    /\ "run_now" \in Allowed /\ edits < MaxEdits
    /\ Yielded /\ pc # "down"
    /\ jobs[j] # "absent" \/ store[j] # "absent"
    /\ edits' = edits + 1
    /\ events' = events \cup
          {[at |-> now, n |-> seq + 1, kind |-> "wake", run |-> <<j, now>>],
           [at |-> now, n |-> seq + 2, kind |-> "push", run |-> <<j, now>>]}
    /\ seq' = seq + 2
    /\ reloadEvent' = TRUE
    /\ UNCHANGED <<now, fileVars, jobs, loopVars, reloading, runVars, displaced, disturbed, mishapVars>>

\* Time passes while the loop waits, whose timer expires, while a slow push is
\* under way, and while the loop sleeps after an error, which ends it.
Tick ==
    /\ now < MaxTime
    /\ now' = now + 1
    /\ ~reloading
    /\ \/ pc \in {"idle", "sleeping"} /\ ~reloadEvent
       \/ pc = "pushing" /\ Yielded
       \/ pc = "error"
    /\ pc' = CASE pc = "idle" -> "polling" [] pc = "sleeping" -> "timedout"
               [] pc = "error" -> "top" [] OTHER -> pc
    /\ UNCHANGED <<fileVars, planVars, reloadEvent, ev, sending, own, reloading, runVars,
                   displaced, disturbed, mishapVars, edits>>

-----------------------------------------------------------------------------

LoopStep ==
    \/ SyncStoreMtime \/ Start \/ Wait \/ Woken \/ HandleDue \/ CheckStoreChanged
    \/ PollAgain \/ TimerDue \/ RecoverFromError \/ PushDone \/ PushRaises

Next ==
    \/ LoopStep \/ Tick \/ Restart
    \/ \E r \in Runs : Answers(r) \/ Fails(r)
    \/ \E j \in Edited : Controller(j) \/ External(j) \/ RunNow(j)

Spec == Init /\ [][Next]_vars

\* The event loop runs what is ready; agents come to an end, if only by the
\* timeout of the request.
Fairness == WF_vars(LoopStep) /\ \A r \in Runs : WF_vars(Answers(r) \/ Fails(r))

FairSpec == Spec /\ Fairness

-----------------------------------------------------------------------------
(* Properties.                                                             *)

\* Within the life of a process a run delivers its result once, although it
\* may have several push and push_update events.
ResultOnce == \A r \in Runs : results[r] <= 1

\* Left alone, the scheduler starts the agent once for an occurrence, and
\* announces it as "in progress" once at most.  The exception is a reload
\* between the wake and the push, which the scheduler also brings about itself
\* when it writes to the file that a job has expired.
UndisturbedOnce ==
    edits = 0 => \A r \in Runs : (starts[r] <= 1 \/ r \in disturbed) /\ notes[r] <= 1

\* Whatever the gateway and the agent server write, the scheduler plans the
\* jobs that are enabled in the file, unless the next poll will find the file
\* changed, or the agent server wrote where the mtime does not tell: between
\* the two halves of a reload, or when there was no file at the last reload.
NothingMissed ==
    ~reloading /\ pc # "down" /\ ~StoreChanged =>
        slipped \/ \A j \in Jobs : jobs[j] = "on" <=> store[j] = "on"

\* Whenever the loop waits, each enabled job has the push event of its next
\* occurrence in the queue.  The exception is a job whose push raised: nothing
\* is planned for it before the next reload.
NextOccurrenceIsPlanned ==
    pc \in {"idle", "sleeping"} /\ ~reloading =>
        \A j \in Jobs : jobs[j] = "on" =>
            \/ \E r \in stranded : r[1] = j
            \/ \E e \in events : e.kind = "push" /\ e.run[1] = j
                                 /\ \A p \in Upcoming(j, now) : e.run[2] <= p

\* A push of an enabled job is preceded by the start of its agent: it was
\* started, or its wake event is still ahead.  The exception is a reload after
\* the loop's timer expired and before the loop goes on: the loop then
\* discards an event for the one it waited for.
PushHasWake ==
    \A e \in events : e.kind = "push" /\ jobs[e.run[1]] = "on" =>
        \/ task[e.run] # "none" \/ e.run \in displaced
        \/ \E w \in events : w.kind = "wake" /\ w.run = e.run

\* While the scheduler is left alone, each occurrence of a recurring job is
\* delivered, if only as a placeholder, when the loop next waits.  The
\* exceptions are a reload that finds the push due, a push that takes so long
\* that the job's next time passes, and a push that raised: its occurrence and
\* those until the next reload.
UndisturbedDelivered ==
    edits = 0 /\ pc \in {"idle", "sleeping"} /\ ~reloading =>
        \A j \in FirstJobs \ DeleteAfterRun : \A p \in Schedule[j] :
            0 < p /\ p <= now =>
                \/ notes[<<j, p>>] + results[<<j, p>>] > 0
                \/ <<j, p>> \in disturbed \cup raised
                \/ \E r \in stranded : r[1] = j /\ r[2] <= p

\* "In progress, the result follows": a placeholder is followed by a result,
\* unless the agent failed, the gateway ended, the loop discarded the event
\* that was to start the agent, or a push or push_update of the run raised.
Failed(r) == task[r] = "done" /\ r \notin text
ResultFollows ==
    \A r \in Runs :
        r \in placeholder ~> \/ r \in final \/ r \notin placeholder
                             \/ Failed(r) \/ r \in displaced \/ r \in raised
=============================================================================
