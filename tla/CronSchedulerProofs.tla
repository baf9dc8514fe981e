------------------------ MODULE CronSchedulerProofs ------------------------
(***************************************************************************)
(* Proofs about CronScheduler, for any jobs, schedules and bounds.         *)
(*                                                                         *)
(* Results are delivered once (ResultOnce) because the loop alone delivers *)
(* them: between its looking at pushed_final and its setting it, which a   *)
(* slow push separates, nobody else sets it.  IInv says so.                *)
(*                                                                         *)
(* The scheduler misses no edit (NothingMissed), whoever writes the file,  *)
(* but one its mtime does not tell.  Known says when _jobs and the file    *)
(* agree; a write of another process between the two halves of a reload    *)
(* slips by.                                                               *)
(*                                                                         *)
(* No push lacks its wake (PushHasWake) but for a reload at the wrong      *)
(* moment: events are planned in pairs.                                    *)
(*                                                                         *)
(* The scheduler forgets no enabled job (NextOccurrenceIsPlanned).  QInv   *)
(* says where the job's next push is, and why the loop, which takes out    *)
(* the head of the queue for the event it waited for, never takes out a    *)
(* push in its place: every push but that event has another before it.     *)
(* Only a push that raises leaves its job without the next, and the job is *)
(* then stranded until a reload.                                           *)
(*                                                                         *)
(* Alone describes the scheduler that nobody interferes with.  Its queue   *)
(* holds one push and at most one wake of a job; the event it waits for    *)
(* stays the head; a run that was started keeps its push ahead             *)
(* (UndisturbedOnce), and each occurrence was delivered, disturbed, lost   *)
(* to a push that raised, or has a push no later than it still ahead       *)
(* (UndisturbedDelivered).                                                 *)
(***************************************************************************)
EXTENDS CronScheduler, FiniteSetTheorems, WellFoundedInduction, TLAPS

\* The loop holds an event whenever it is going to use one.
Held == pc \in {"sleeping", "timedout", "pushing"} => ev \in Event

\* pushed_final counts deliveries, and is not yet set for the result that is
\* being delivered.
Counted ==
    /\ \A r \in Runs : results[r] = IF r \in final THEN 1 ELSE 0
    /\ pc = "pushing" /\ sending = "result" => ev.run \notin final

IInv == TypeOK /\ Held /\ Counted

-----------------------------------------------------------------------------

\* Events made from a run id are events.
LEMMA EventTypes ==
    ASSUME NEW r \in Runs, NEW n \in Nat
    PROVE  WakeOf(r, n) \in Event /\ PushOf(r, n) \in Event
<1>1. r[1] \in Jobs /\ r[2] \in Int
  BY TimeAssumption DEF Runs, Times
<1>2. r[2] - Offset[r[1]] \in Int
  BY <1>1, ScheduleAssumption
<1> QED
  BY <1>1, <1>2 DEF WakeOf, PushOf, Event

\* _compute_next_run returns run ids.
LEMMA NextRunsType == ASSUME NEW J \in SUBSET Jobs, NEW t PROVE NextRuns(J, t) \subseteq Runs
BY DEF NextRuns, Runs

\* A reload leaves jobs, events and the sequence number well typed.
LEMMA RebuildType ==
    ASSUME TypeOK, NEW s \in [Jobs -> JobState], Rebuild(s)
    PROVE  /\ jobs' \in [Jobs -> {"absent", "on", "off"}]
           /\ events' \in SUBSET Event
           /\ seq' \in Nat
           /\ stranded' \in SUBSET Runs /\ slipped' \in BOOLEAN
<1>1. Cardinality(Jobs) \in Nat
  BY FS_CardinalityType, JobsAssumption
<1>2. ASSUME NEW place \in Orders PROVE Planned(s, place) \subseteq Event
  <2>1. \A j \in Jobs : 2 * place[j] - 1 \in Nat /\ 2 * place[j] \in Nat
    BY <1>1 DEF Orders
  <2>2. \A r \in NextRuns({j \in Jobs : s[j] = "on"}, now) : r \in Runs /\ r[1] \in Jobs
    BY NextRunsType DEF Runs
  <2>3. \A r \in NextRuns({j \in Jobs : s[j] = "on"}, now) :
           /\ WakeOf(r, 2 * place[r[1]] - 1) \in Event
           /\ PushOf(r, 2 * place[r[1]]) \in Event
    BY <2>1, <2>2, EventTypes
  <2> QED
    BY <2>3 DEF Planned
<1>3. seq' \in Nat
  BY <1>1 DEF Rebuild
<1> QED
  BY <1>2, <1>3 DEF Rebuild, Copied, TypeOK

\* The file as a reload leaves it is well typed.
LEMMA ExpireType == ASSUME NEW s \in [Jobs -> JobState] PROVE Expire(s) \in [Jobs -> JobState]
BY DEF Expire, JobState

LEMMA WriteType ==
    ASSUME TypeOK, NEW s \in [Jobs -> JobState], Write(s)
    PROVE  /\ store' \in [Jobs -> JobState] /\ file' \in BOOLEAN
           /\ synced' \in {"none", "fresh", "stale"}
BY DEF Write, TypeOK

LEMMA ReloadWithType ==
    ASSUME TypeOK, ReloadWith(store)
    PROVE  /\ jobs' \in [Jobs -> {"absent", "on", "off"}]
           /\ events' \in SUBSET Event
           /\ seq' \in Nat
           /\ store' \in [Jobs -> JobState] /\ file' \in BOOLEAN
           /\ synced' \in {"none", "fresh", "stale"}
           /\ reloading' \in BOOLEAN
           /\ stranded' \in SUBSET Runs /\ slipped' \in BOOLEAN
<1>1. store \in [Jobs -> JobState]
  BY DEF TypeOK
<1>2. CASE Expire(store) = store
  BY <1>1, <1>2, RebuildType DEF ReloadWith, fileVars, TypeOK
<1>3. CASE Expire(store) # store
  BY <1>1, <1>3, RebuildType, ExpireType, WriteType DEF ReloadWith
<1> QED
  BY <1>2, <1>3

LEMMA InitInv == Init => IInv
<1> SUFFICES ASSUME Init PROVE IInv
  OBVIOUS
<1>1. now \in 0 .. MaxTime /\ edits \in 0 .. MaxEdits /\ file \in BOOLEAN
  BY TimeAssumption, AllowedAssumption, FileAssumption DEF Init
<1>2. store \in [Jobs -> JobState]
  BY DEF Init, JobState
<1>3. jobs \in [Jobs -> {"absent", "on", "off"}] /\ events \in SUBSET Event /\ seq \in Nat
  BY DEF Init
<1>4. /\ synced \in {"none", "fresh", "stale"} /\ reloadEvent \in BOOLEAN /\ reloading \in BOOLEAN
      /\ pc = "down" /\ ev = Nil /\ sending = "nothing" /\ own \in BOOLEAN
  BY DEF Init
<1>5. /\ text = {} /\ placeholder = {} /\ final = {} /\ displaced = {} /\ disturbed = {}
      /\ raised = {} /\ stranded = {} /\ slipped \in BOOLEAN
      /\ task \in [Runs -> {"none", "active", "done"}]
      /\ starts \in [Runs -> Nat] /\ notes \in [Runs -> Nat] /\ results \in [Runs -> Nat]
  BY DEF Init
<1>6. TypeOK
  BY <1>1, <1>2, <1>3, <1>4, <1>5 DEF TypeOK
<1> QED
  BY <1>6 DEF Init, IInv, Held, Counted

-----------------------------------------------------------------------------
(* Handling an event.                                                      *)

\* Handling an event in the loop's hands keeps the invariant.
LEMMA HandleInv ==
    ASSUME IInv, NEW e \in Event, Handle(e), pc \in {"top", "timedout"},
           events' \in SUBSET Event, displaced' \in SUBSET Runs,
           UNCHANGED <<now, fileVars, jobs, seq, reloadEvent, reloading, disturbed, mishapVars, edits>>
    PROVE  IInv'
<1>1. e.run \in Runs
  BY DEF Event
<1>2. CASE Handled /\ RunsUnchanged
  BY <1>2 DEF IInv, TypeOK, Held, Counted, mishapVars, Handled, RunsUnchanged, runVars, fileVars
<1>3. CASE Handled /\ OnWake(e.run)
  BY <1>1, <1>3 DEF IInv, TypeOK, Held, Counted, mishapVars, Handled, OnWake, RunsUnchanged, runVars, fileVars
<1>4. CASE pc' = "pushing" /\ ev' = e /\ sending' = Outgoing(e) /\ own' = TRUE /\ RunsUnchanged
  <2>1. sending' \in {"nothing", "placeholder", "result"}
    BY <1>4 DEF Outgoing
  <2>2. sending' = "result" => e.run \notin final
    BY <1>4 DEF Outgoing
  <2> QED
    BY <1>4, <2>1, <2>2 DEF IInv, TypeOK, Held, Counted, mishapVars, RunsUnchanged, runVars, fileVars
<1> QED
  BY <1>2, <1>3, <1>4 DEF Handle

LEMMA HandleDueInv == ASSUME IInv, HandleDue PROVE IInv'
<1>1. PICK e \in events : events' = events \ {e} /\ Handle(e)
  BY DEF HandleDue
<1>2. e \in Event /\ events' \in SUBSET Event /\ displaced' \in SUBSET Runs
  BY <1>1 DEF HandleDue, IInv, TypeOK
<1> QED
  BY <1>1, <1>2, HandleInv DEF HandleDue

LEMMA TimerDueInv == ASSUME IInv, TimerDue PROVE IInv'
<1>1. CASE events = {} /\ pc' = "error" /\ ev' = Nil /\ UNCHANGED <<events, sending, own, displaced>>
           /\ RunsUnchanged
  BY <1>1 DEF TimerDue, IInv, TypeOK, Held, Counted, mishapVars, RunsUnchanged, runVars, fileVars
<1>2. ASSUME NEW e \in events, Discards(e), events' = events \ {e}, Handle(ev) PROVE IInv'
  <2>1. e \in Event /\ e.run \in Runs /\ events' \in SUBSET Event
    BY <1>2 DEF IInv, TypeOK, Event
  <2>2. displaced' \in SUBSET Runs
    BY <1>2, <2>1 DEF Discards, IInv, TypeOK
  <2>3. ev \in Event /\ pc = "timedout"
    BY DEF TimerDue, IInv, Held
  <2> QED
    BY <1>2, <2>1, <2>2, <2>3, HandleInv DEF TimerDue
<1> QED
  BY <1>1, <1>2 DEF TimerDue

-----------------------------------------------------------------------------
(* After a push.                                                           *)

LEMMA AfterPushType ==
    ASSUME TypeOK, NEW j \in Jobs, AfterPush(j)
    PROVE  /\ jobs' \in [Jobs -> {"absent", "on", "off"}]
           /\ events' \in SUBSET Event
           /\ seq' \in Nat
           /\ store' \in [Jobs -> JobState] /\ file' \in BOOLEAN
           /\ synced' \in {"none", "fresh", "stale"}
<1> DEFINE removed == [store EXCEPT ![j] = "absent"]
           expired == [store EXCEPT ![j] = "expired"]
<1>1. removed \in [Jobs -> JobState] /\ expired \in [Jobs -> JobState]
  BY DEF TypeOK, JobState
<1>2. CASE j \in DeleteAfterRun
  BY <1>1, <1>2, WriteType DEF AfterPush, TypeOK, fileVars
<1>3. CASE j \notin DeleteAfterRun /\ Upcoming(j, now) # {}
  <2>1. seq + 1 \in Nat /\ seq + 2 \in Nat
    BY DEF TypeOK
  <2>2. /\ {WakeOf(r, seq + 1) : r \in NextRuns({j}, now)} \subseteq Event
        /\ {PushOf(r, seq + 2) : r \in NextRuns({j}, now)} \subseteq Event
    BY <2>1, EventTypes, NextRunsType
  <2> QED
    BY <1>3, <2>1, <2>2 DEF AfterPush, TypeOK, fileVars
<1>4. CASE j \notin DeleteAfterRun /\ Upcoming(j, now) = {}
  BY <1>1, <1>4, WriteType DEF AfterPush, TypeOK, fileVars
<1> QED
  BY <1>2, <1>3, <1>4

\* The end of a push counts what was delivered.
LEMMA PushDoneInv == ASSUME IInv, PushDone PROVE IInv'
<1>1. ev \in Event /\ ev.run \in Runs /\ ev.run[1] \in Jobs
  BY DEF PushDone, IInv, Held, Event, Runs
<1>2. /\ jobs' \in [Jobs -> {"absent", "on", "off"}]
      /\ events' \in SUBSET Event
      /\ seq' \in Nat
      /\ store' \in [Jobs -> JobState] /\ file' \in BOOLEAN
      /\ synced' \in {"none", "fresh", "stale"}
  <2>1. CASE ev.kind = "push"
    BY <1>1, <2>1, AfterPushType DEF PushDone, IInv
  <2>2. CASE ev.kind # "push"
    BY <2>2 DEF PushDone, IInv, TypeOK, planVars, fileVars
  <2> QED
    BY <2>1, <2>2
<1>3. /\ final' \in SUBSET Runs /\ placeholder' \in SUBSET Runs
      /\ results' \in [Runs -> Nat] /\ notes' \in [Runs -> Nat]
  BY <1>1 DEF PushDone, Deliver, IInv, TypeOK
<1>4. disturbed' \in SUBSET Runs /\ stranded' \in SUBSET Runs
  BY DEF PushDone, PassedSince, IInv, TypeOK
<1>5. TypeOK'
  BY <1>2, <1>3, <1>4 DEF PushDone, Deliver, IInv, TypeOK
<1>6. \A r \in Runs : results'[r] = IF r \in final' THEN 1 ELSE 0
  BY <1>1 DEF PushDone, Deliver, IInv, TypeOK, Counted
<1>7. Held' /\ (pc' = "pushing" /\ sending' = "result" => ev'.run \notin final')
  BY DEF PushDone, Held
<1> QED
  BY <1>5, <1>6, <1>7 DEF IInv, Counted

\* A push that raises delivers nothing.
LEMMA PushRaisesInv == ASSUME IInv, PushRaises PROVE IInv'
<1>1. ev.run \in Runs
  BY DEF PushRaises, IInv, Held, Event
<1> QED
  BY <1>1 DEF PushRaises, IInv, TypeOK, Held, Counted, fileVars, planVars, runVars

-----------------------------------------------------------------------------
(* The other steps.                                                        *)

LEMMA LoopWaitInv ==
    ASSUME IInv, Wait \/ Woken \/ PollAgain \/ RecoverFromError \/ Tick \/ SyncStoreMtime
    PROVE  IInv'
<1>1. CASE Wait
  BY <1>1 DEF Wait, IInv, TypeOK, Held, Counted, mishapVars, fileVars, planVars, runVars
<1>2. CASE Woken
  BY <1>2 DEF Woken, IInv, TypeOK, Held, Counted, mishapVars, fileVars, planVars, runVars
<1>3. CASE PollAgain
  BY <1>3 DEF PollAgain, IInv, TypeOK, Held, Counted, mishapVars, fileVars, planVars, runVars
<1>4. CASE RecoverFromError
  BY <1>4 DEF RecoverFromError, IInv, TypeOK, Held, Counted, mishapVars, fileVars, planVars, runVars
<1>5. CASE Tick
  <2>1. now' \in 0 .. MaxTime /\ (pc' \in {"timedout", "pushing"} => ev \in Event)
    BY <1>5, TimeAssumption DEF Tick, IInv, TypeOK, Held
  <2>2. pc' \in {"polling", "timedout", "pushing", "top"} /\ (pc' = "pushing" => pc = "pushing")
    BY <1>5 DEF Tick, Yielded
  <2> QED
    BY <1>5, <2>1, <2>2 DEF Tick, IInv, TypeOK, Held, Counted, mishapVars, fileVars, planVars, runVars
<1>6. CASE SyncStoreMtime
  BY <1>6 DEF SyncStoreMtime, IInv, TypeOK, Held, Counted, mishapVars, planVars, loopVars, runVars
<1> QED
  BY <1>1, <1>2, <1>3, <1>4, <1>5, <1>6

\* Starting, and reloading what another process has written.
LEMMA ReloadInv == ASSUME IInv, Start \/ CheckStoreChanged PROVE IInv'
<1>1. CASE Start
  BY <1>1, ReloadWithType DEF Start, IInv, TypeOK, Held, Counted, mishapVars, runVars
<1>2. CASE CheckStoreChanged
  <2>1. UnderWay \in SUBSET Runs
    BY DEF UnderWay, IInv, TypeOK, Event
  <2>2. UNION {PassedSince(r) : r \in stranded} \in SUBSET Runs
    BY DEF PassedSince
  <2> QED
    BY <1>2, <2>1, <2>2, ReloadWithType DEF CheckStoreChanged, IInv, TypeOK, Held, Counted, mishapVars, runVars
<1> QED
  BY <1>1, <1>2

LEMMA RestartInv == ASSUME IInv, Restart PROVE IInv'
<1>1. now' \in 0 .. MaxTime /\ edits' \in 0 .. MaxEdits
  BY TimeAssumption, AllowedAssumption DEF Restart, IInv, TypeOK
<1> QED
  BY <1>1 DEF Restart, IInv, TypeOK, Held, Counted, mishapVars

\* The end of an agent run plans push_updates.
LEMMA AgentEndsInv ==
    ASSUME IInv, NEW r \in Runs, NEW answered \in BOOLEAN, AgentEnds(r, answered)
    PROVE  IInv'
<1> DEFINE has == answered \/ r \in text
           n == FinallyUpdates(r, has)
<1>1. n \in Nat
  BY DEF FinallyUpdates
<1>2. now \in Int /\ seq \in Nat
  BY DEF IInv, TypeOK
<1>3. \A i \in seq + 1 .. seq + n :
         [at |-> now, n |-> i, kind |-> "push_update", run |-> r] \in Event
  BY <1>1, <1>2 DEF Event
<1>4. events' \in SUBSET Event /\ seq' \in Nat
  BY <1>1, <1>2, <1>3 DEF AgentEnds, IInv, TypeOK
<1>5. reloadEvent' \in BOOLEAN
  BY <1>1 DEF AgentEnds, IInv, TypeOK
<1>6. text' \in SUBSET Runs /\ task' \in [Runs -> {"none", "active", "done"}]
  BY DEF AgentEnds, IInv, TypeOK
<1> QED
  BY <1>4, <1>5, <1>6 DEF AgentEnds, IInv, TypeOK, Held, Counted, mishapVars, fileVars, loopVars

\* An edit never takes a job out of its states.
LEMMA EditsType == ASSUME NEW v \in JobState PROVE Edits(v) \subseteq JobState
BY DEF Edits, JobState

LEMMA ControllerInv == ASSUME IInv, NEW j \in Jobs, Controller(j) PROVE IInv'
<1>1. PICK v \in Edits(store[j]) :
         LET s == [store EXCEPT ![j] = v] IN Rebuild(s) /\ reloading' = TRUE /\ Write(Expire(s))
  BY DEF Controller
<1> DEFINE s == [store EXCEPT ![j] = v]
<1>2. s \in [Jobs -> JobState]
  BY EditsType DEF IInv, TypeOK
<1>3. /\ jobs' \in [Jobs -> {"absent", "on", "off"}]
      /\ events' \in SUBSET Event
      /\ seq' \in Nat
      /\ stranded' \in SUBSET Runs /\ slipped' \in BOOLEAN
  BY <1>1, <1>2, RebuildType DEF IInv
<1>4. /\ store' \in [Jobs -> JobState] /\ file' \in BOOLEAN
      /\ synced' \in {"none", "fresh", "stale"}
  BY <1>1, <1>2, ExpireType, WriteType DEF IInv
<1>5. edits' \in 0 .. MaxEdits
  BY AllowedAssumption DEF Controller, IInv, TypeOK
<1> QED
  BY <1>1, <1>3, <1>4, <1>5 DEF Controller, IInv, TypeOK, Held, Counted, mishapVars, runVars

LEMMA ExternalInv == ASSUME IInv, NEW j \in Jobs, External(j) PROVE IInv'
<1>1. PICK v \in Edits(store[j]) : Write([store EXCEPT ![j] = v])
  BY DEF External
<1>2. [store EXCEPT ![j] = v] \in [Jobs -> JobState]
  BY EditsType DEF IInv, TypeOK
<1>3. /\ store' \in [Jobs -> JobState] /\ file' \in BOOLEAN
      /\ synced' \in {"none", "fresh", "stale"}
  BY <1>1, <1>2, WriteType DEF IInv
<1>4. edits' \in 0 .. MaxEdits
  BY AllowedAssumption DEF External, IInv, TypeOK
<1> QED
  BY <1>3, <1>4 DEF External, IInv, TypeOK, Held, Counted, mishapVars, planVars, loopVars, runVars

LEMMA RunNowInv == ASSUME IInv, NEW j \in Jobs, RunNow(j) PROVE IInv'
<1>1. now \in Times /\ now \in Int /\ seq + 1 \in Nat /\ seq + 2 \in Nat
  BY TimeAssumption DEF IInv, TypeOK, Times
<1>2. /\ [at |-> now, n |-> seq + 1, kind |-> "wake", run |-> <<j, now>>] \in Event
      /\ [at |-> now, n |-> seq + 2, kind |-> "push", run |-> <<j, now>>] \in Event
  BY <1>1 DEF Event, Runs
<1>3. events' \in SUBSET Event /\ seq' \in Nat
  BY <1>1, <1>2 DEF RunNow, IInv, TypeOK
<1>4. edits' \in 0 .. MaxEdits
  BY AllowedAssumption DEF RunNow, IInv, TypeOK
<1> QED
  BY <1>3, <1>4 DEF RunNow, IInv, TypeOK, Held, Counted, mishapVars, fileVars, loopVars, runVars

LEMMA StutterInv == ASSUME IInv, UNCHANGED vars PROVE IInv'
BY DEF IInv, TypeOK, Held, Counted, mishapVars, vars

LEMMA NextInv == ASSUME IInv, [Next]_vars PROVE IInv'
<1>1. CASE LoopStep
  BY <1>1, LoopWaitInv, ReloadInv, HandleDueInv, TimerDueInv, PushDoneInv, PushRaisesInv
     DEF LoopStep
<1>2. CASE Tick
  BY <1>2, LoopWaitInv
<1>3. CASE Restart
  BY <1>3, RestartInv
<1>4. CASE \E r \in Runs : Answers(r) \/ Fails(r)
  BY <1>4, AgentEndsInv DEF Answers, Fails
<1>5. CASE \E j \in Edited : Controller(j) \/ External(j) \/ RunNow(j)
  BY <1>5, ControllerInv, ExternalInv, RunNowInv, JobsAssumption
<1>6. CASE UNCHANGED vars
  BY <1>6, StutterInv
<1> QED
  BY <1>1, <1>2, <1>3, <1>4, <1>5, <1>6 DEF Next

\* Every reachable state satisfies the inductive invariant.
THEOREM Invariance == Spec => []IInv
BY InitInv, NextInv, PTL DEF Spec

\* The scheduler's variables keep their types: run ids name a job and a time
\* of its schedule or of a manual run.
THEOREM TypeCorrect == Spec => []TypeOK
<1>1. IInv => TypeOK
  BY DEF IInv
<1> QED
  BY <1>1, Invariance, PTL

\* Within the life of a process a run's result is delivered at most once.
THEOREM DeliveredOnce == Spec => []ResultOnce
<1>1. IInv => ResultOnce
  BY DEF IInv, Counted, ResultOnce
<1> QED
  BY <1>1, Invariance, PTL
-----------------------------------------------------------------------------
(* What the scheduler knows of the file.                                   *)

\* It plans exactly the jobs that are enabled in the file.
Same == \A j \in Jobs : jobs[j] = "on" <=> store[j] = "on"

\* The scheduler and the file agree, except after a write whose mtime the next
\* poll finds or one that slipped by; without a file there are no jobs.
Known ==
    /\ reloading => Same \/ slipped
    /\ pc = "down" => ~reloading /\ synced = "none"
    /\ pc # "down" /\ ~reloading /\ synced = "fresh" => Same \/ slipped
    /\ pc # "down" /\ ~reloading /\ synced = "none" => (Same /\ ~file) \/ slipped
    /\ synced # "none" => file
    /\ ~file => \A j \in Jobs : store[j] = "absent"

\* What a reload loads agrees with what it leaves in the file.
LEMMA ReloadSame ==
    ASSUME NEW s \in [Jobs -> JobState], Rebuild(s), store' = Expire(s)
    PROVE  Same'
BY DEF Rebuild, Copied, Expire, Same, JobState

\* A reload of the file establishes the agreement.
LEMMA ReloadWithKnown ==
    ASSUME TypeOK, Known, ReloadWith(store), pc' = "top"
    PROVE  Known'
<1>1. store \in [Jobs -> JobState]
  BY DEF TypeOK
<1>2. store' = Expire(store) /\ reloading'
  BY DEF ReloadWith, Write, fileVars
<1>3. Same'
  BY <1>1, <1>2, ReloadSame DEF ReloadWith
<1>4. /\ synced' # "none" => file'
      /\ ~file' => ~file /\ store' = store
  BY DEF ReloadWith, Write, fileVars, Known
<1> QED
  BY <1>2, <1>3, <1>4 DEF Known

\* What follows a push keeps the agreement, or writes the file so that the
\* next poll reloads.
LEMMA AfterPushKnown ==
    ASSUME TypeOK, Known, NEW j \in Jobs, AfterPush(j),
           pc # "down", ~reloading, pc' = "top", UNCHANGED <<reloading, slipped>>
    PROVE  Known'
<1>1. CASE UNCHANGED fileVars /\ store[j] = "absent"
  BY <1>1 DEF AfterPush, Known, Same, TypeOK, fileVars
<1>2. CASE UNCHANGED fileVars /\ UNCHANGED jobs
  BY <1>2 DEF Known, Same, fileVars
<1>3. CASE store[j] # "absent" /\ \E v \in JobState : Write([store EXCEPT ![j] = v])
  <2>1. file /\ (synced = "none" => slipped)
    BY <1>3 DEF Known
  <2>2. file' /\ (synced' = "stale" \/ (synced' = "none" /\ slipped'))
    BY <1>3, <2>1 DEF Write, TypeOK
  <2> QED
    BY <2>2 DEF Known
<1> QED
  BY <1>1, <1>2, <1>3 DEF AfterPush, JobState

LEMMA ControllerKnown ==
    ASSUME TypeOK, Known, NEW j \in Jobs, Controller(j) PROVE Known'
<1>1. PICK v \in Edits(store[j]) :
         LET s == [store EXCEPT ![j] = v] IN Rebuild(s) /\ reloading' = TRUE /\ Write(Expire(s))
  BY DEF Controller
<1>2. [store EXCEPT ![j] = v] \in [Jobs -> JobState]
  BY EditsType DEF TypeOK
<1>3. Same' /\ reloading' /\ file' /\ pc' # "down"
  BY <1>1, <1>2, ReloadSame DEF Write, Controller, Yielded
<1> QED
  BY <1>3 DEF Known

\* A write of the other process is found by its mtime, or slips by.
LEMMA ExternalKnown ==
    ASSUME TypeOK, Known, NEW j \in Jobs, External(j) PROVE Known'
<1>1. /\ file' /\ synced' = (IF synced = "fresh" THEN "stale" ELSE synced)
      /\ slipped' = (slipped \/ reloading \/ synced = "none")
      /\ UNCHANGED <<pc, reloading>>
  BY DEF External, Write, loopVars
<1> QED
  BY <1>1 DEF Known, TypeOK

LEMMA KnownNext == ASSUME IInv, Known, [Next]_vars PROVE Known'
<1> USE DEF IInv
<1>1. CASE SyncStoreMtime
  BY <1>1 DEF SyncStoreMtime, Known, Same, planVars, loopVars, mishapVars
<1>2. CASE Start \/ CheckStoreChanged
  BY <1>2, ReloadWithKnown DEF Start, CheckStoreChanged
<1>3. CASE Wait \/ Woken \/ PollAgain \/ RecoverFromError
  BY <1>3 DEF Wait, Woken, PollAgain, RecoverFromError, Known, Same, fileVars, planVars,
              mishapVars
<1>4. CASE HandleDue
  <2>1. pc # "down" /\ pc' # "down"
    BY <1>4 DEF HandleDue, Handle, Handled
  <2> QED
    BY <1>4, <2>1 DEF HandleDue, Known, Same, fileVars, mishapVars
<1>5. CASE TimerDue
  <2>1. pc # "down" /\ pc' # "down"
    BY <1>5 DEF TimerDue, Handle, Handled
  <2> QED
    BY <1>5, <2>1 DEF TimerDue, Known, Same, fileVars, mishapVars
<1>6. CASE PushDone
  <2>1. CASE ev.kind = "push"
    <3>1. ev.run[1] \in Jobs
      BY <1>6 DEF PushDone, Held, Event, Runs
    <3> QED
      BY <1>6, <2>1, <3>1, AfterPushKnown DEF PushDone
  <2>2. CASE ev.kind # "push"
    BY <1>6, <2>2 DEF PushDone, Known, Same, planVars, fileVars
  <2> QED
    BY <2>1, <2>2
<1>13. CASE PushRaises
  BY <1>13 DEF PushRaises, Known, Same, fileVars, planVars
<1>7. CASE Tick
  <2>1. pc # "down" /\ pc' # "down"
    BY <1>7 DEF Tick
  <2> QED
    BY <1>7, <2>1 DEF Tick, Known, Same, fileVars, planVars, mishapVars
<1>8. CASE Restart
  BY <1>8 DEF Restart, Known
<1>9. ASSUME NEW r \in Runs, NEW answered \in BOOLEAN, AgentEnds(r, answered) PROVE Known'
  BY <1>9 DEF AgentEnds, Known, Same, fileVars, loopVars, mishapVars
<1>10. ASSUME NEW j \in Jobs, Controller(j) \/ RunNow(j) PROVE Known'
  <2>1. CASE Controller(j)
    BY <2>1, ControllerKnown
  <2>2. CASE RunNow(j)
    BY <2>2 DEF RunNow, Known, Same, fileVars, loopVars, mishapVars
  <2> QED
    BY <1>10, <2>1, <2>2
<1>11. ASSUME NEW j \in Jobs, External(j) PROVE Known'
  BY <1>11, ExternalKnown
<1>12. CASE UNCHANGED vars
  BY <1>12 DEF vars, Known, Same, mishapVars
<1> QED
  BY <1>1, <1>2, <1>3, <1>4, <1>5, <1>6, <1>7, <1>8, <1>9, <1>10, <1>11, <1>12, <1>13,
     JobsAssumption
     DEF Next, LoopStep, Answers, Fails

\* Whoever writes cron_jobs.json, the scheduler misses no edit but one that the
\* mtime does not tell: unless the next poll will reload, it plans the jobs
\* enabled in the file.
THEOREM NoEditMissed == Spec => []NothingMissed
<1>1. Init => Known
  BY FileAssumption DEF Init, Known
<1>2. IInv /\ Known /\ [Next]_vars => Known'
  BY KnownNext
<1>3. IInv /\ Known => NothingMissed
  BY DEF IInv, TypeOK, Known, Same, NothingMissed, StoreChanged
<1> QED
  BY <1>1, <1>2, <1>3, Invariance, PTL DEF Spec

-----------------------------------------------------------------------------
(* Wake events.                                                            *)

\* A reload plans the wake with each push.
LEMMA RebuildHasWake ==
    ASSUME NEW s, Rebuild(s), NEW e \in events', e.kind = "push"
    PROVE  \E w \in events' : w.kind = "wake" /\ w.run = e.run
<1> DEFINE next == NextRuns({j \in Jobs : s[j] = "on"}, now)
<1>1. PICK place \in Orders :
         events' = {d \in events : d.kind = "push_update"} \cup Planned(s, place)
  BY DEF Rebuild
<1>2. PICK r \in next : e = PushOf(r, 2 * place[r[1]])
  BY <1>1 DEF Planned, WakeOf
<1>3. WakeOf(r, 2 * place[r[1]] - 1) \in events'
  BY <1>1 DEF Planned
<1> QED
  BY <1>2, <1>3 DEF WakeOf, PushOf

\* An event the loop handles takes no wake from a push that needs it: a wake
\* event of an enabled job starts the agent.
LEMMA HandleHasWake ==
    ASSUME IInv, PushHasWake, NEW e \in events, NEW h \in Event, Handle(h),
           events' = events \ {e}, UNCHANGED jobs, displaced \subseteq displaced',
           h = e \/ (e.kind = "wake" => e.run \in displaced')
    PROVE  PushHasWake'
<1>1. h.run \in Runs /\ e \in Event
  BY DEF Event, IInv, TypeOK
<1>2. \A r \in Runs : task[r] # "none" => task'[r] # "none"
  BY <1>1 DEF Handle, OnWake, RunsUnchanged, runVars, IInv, TypeOK
<1>3. h.kind = "wake" /\ jobs[h.run[1]] = "on" => task'[h.run] # "none"
  BY <1>1 DEF Handle, OnWake, RunsUnchanged, runVars, IInv, TypeOK
<1> SUFFICES ASSUME NEW p \in events', p.kind = "push", jobs'[p.run[1]] = "on"
             PROVE  \/ task'[p.run] # "none" \/ p.run \in displaced'
                    \/ \E w \in events' : w.kind = "wake" /\ w.run = p.run
  BY DEF PushHasWake
<1>4. p \in events /\ p.run \in Runs /\ jobs[p.run[1]] = "on"
  BY DEF IInv, TypeOK, Event
<1>5. CASE task[p.run] # "none" \/ p.run \in displaced
  BY <1>2, <1>4, <1>5
<1>6. CASE \E w \in events : w.kind = "wake" /\ w.run = p.run
  <2>1. PICK w \in events : w.kind = "wake" /\ w.run = p.run
    BY <1>6
  <2>2. CASE w = e
    BY <1>3, <1>4, <2>1, <2>2
  <2>3. CASE w # e
    BY <2>1, <2>3
  <2> QED
    BY <2>2, <2>3
<1> QED
  BY <1>4, <1>5, <1>6 DEF PushHasWake

\* What follows a push plans the wake with the push.
LEMMA AfterPushHasWake ==
    ASSUME IInv, PushHasWake, NEW j \in Jobs, AfterPush(j), UNCHANGED <<task, displaced>>
    PROVE  PushHasWake'
<1>1. \A i \in Jobs : jobs'[i] = "on" => jobs[i] = "on"
  BY DEF AfterPush, IInv, TypeOK
<1>2. events \subseteq events'
  BY DEF AfterPush
<1>3. ASSUME NEW p \in events', p \notin events
      PROVE  p.kind = "push" => \E w \in events' : w.kind = "wake" /\ w.run = p.run
  <2> SUFFICES ASSUME p.kind = "push" PROVE \E w \in events' : w.kind = "wake" /\ w.run = p.run
    OBVIOUS
  <2>1. events' = events \cup {WakeOf(r, seq + 1) : r \in NextRuns({j}, now)}
                       \cup {PushOf(r, seq + 2) : r \in NextRuns({j}, now)}
    BY <1>3 DEF AfterPush
  <2>2. \A r \in NextRuns({j}, now) : p # WakeOf(r, seq + 1)
    BY DEF WakeOf
  <2>3. PICK r \in NextRuns({j}, now) : p = PushOf(r, seq + 2)
    BY <1>3, <2>1, <2>2, Zenon
  <2>4. WakeOf(r, seq + 1) \in events'
    BY <2>1
  <2> QED
    BY <2>3, <2>4 DEF WakeOf, PushOf
<1>4. ASSUME NEW p \in events, p.kind = "push", jobs'[p.run[1]] = "on"
      PROVE  jobs[p.run[1]] = "on"
  BY <1>1, <1>4 DEF IInv, TypeOK, Event, Runs
<1> QED
  BY <1>2, <1>3, <1>4 DEF PushHasWake

\* The push of an enabled job has its agent's start before it, unless a reload
\* made the loop discard that wake event.
THEOREM WakeBeforePush == Spec => []PushHasWake
<1>1. Init => PushHasWake
  BY DEF Init, PushHasWake
<1>2. ASSUME IInv, PushHasWake, [Next]_vars PROVE PushHasWake'
  <2> USE <1>2
  <2>1. CASE SyncStoreMtime \/ Wait \/ Woken \/ PollAgain \/ RecoverFromError \/ Tick
    BY <2>1 DEF SyncStoreMtime, Wait, Woken, PollAgain, RecoverFromError, Tick, PushHasWake,
                planVars, runVars
  <2>2. CASE Start \/ CheckStoreChanged
    <3>1. Rebuild(store)
      BY <2>2 DEF Start, CheckStoreChanged, ReloadWith
    <3> QED
      BY <3>1, RebuildHasWake DEF PushHasWake
  <2>3. CASE HandleDue
    <3>1. PICK e \in events : events' = events \ {e} /\ Handle(e)
      BY <2>3 DEF HandleDue
    <3>2. e \in Event
      BY DEF IInv, TypeOK
    <3> QED
      BY <2>3, <3>1, <3>2, HandleHasWake DEF HandleDue
  <2>4. CASE TimerDue
    <3>1. CASE events = {} /\ UNCHANGED events
      BY <3>1 DEF PushHasWake
    <3>2. ASSUME NEW e \in events, Discards(e), events' = events \ {e}, Handle(ev)
          PROVE  PushHasWake'
      <4>1. displaced \subseteq displaced' /\ (ev = e \/ (e.kind = "wake" => e.run \in displaced'))
        BY <3>2 DEF Discards
      <4>2. ev \in Event /\ UNCHANGED jobs
        BY <2>4 DEF TimerDue, IInv, Held
      <4> QED
        BY <3>2, <4>1, <4>2, HandleHasWake
    <3> QED
      BY <2>4, <3>1, <3>2 DEF TimerDue
  <2>5. CASE PushDone
    <3>1. CASE ev.kind = "push"
      <4>1. ev.run[1] \in Jobs
        BY <2>5 DEF PushDone, IInv, Held, Event, Runs
      <4> QED
        BY <2>5, <3>1, <4>1, AfterPushHasWake DEF PushDone, Deliver
    <3>2. CASE ev.kind # "push"
      BY <2>5, <3>2 DEF PushDone, Deliver, PushHasWake, planVars
    <3> QED
      BY <3>1, <3>2
  <2>12. CASE PushRaises
    BY <2>12 DEF PushRaises, PushHasWake, planVars, runVars
  <2>6. CASE Restart
    BY <2>6 DEF Restart, PushHasWake
  <2>7. ASSUME NEW r \in Runs, NEW answered \in BOOLEAN, AgentEnds(r, answered)
        PROVE  PushHasWake'
    <3>1. events \subseteq events' /\ \A e \in events' \ events : e.kind = "push_update"
      BY <2>7 DEF AgentEnds
    <3>2. \A q \in Runs : task[q] # "none" => task'[q] # "none"
      BY <2>7 DEF AgentEnds, IInv, TypeOK
    <3>3. \A e \in events : e.run \in Runs
      BY DEF IInv, TypeOK, Event
    <3>4. UNCHANGED <<jobs, displaced>>
      BY <2>7 DEF AgentEnds
    <3> QED
      BY <3>1, <3>2, <3>3, <3>4 DEF PushHasWake
  <2>8. ASSUME NEW j \in Jobs, Controller(j) PROVE PushHasWake'
    <3>1. \E s : Rebuild(s)
      BY <2>8 DEF Controller
    <3> QED
      BY <3>1, RebuildHasWake DEF PushHasWake
  <2>9. ASSUME NEW j \in Jobs, External(j) PROVE PushHasWake'
    BY <2>9 DEF External, PushHasWake, planVars, runVars
  <2>10. ASSUME NEW j \in Jobs, RunNow(j) PROVE PushHasWake'
    <3> DEFINE wake == [at |-> now, n |-> seq + 1, kind |-> "wake", run |-> <<j, now>>]
               push == [at |-> now, n |-> seq + 2, kind |-> "push", run |-> <<j, now>>]
    <3>1. events' = events \cup {wake, push}
      BY <2>10 DEF RunNow
    <3>2. wake.kind = "wake" /\ wake.run = push.run
      OBVIOUS
    <3>3. UNCHANGED <<jobs, task, displaced>>
      BY <2>10 DEF RunNow, runVars
    <3> HIDE DEF push
    <3>4. wake.kind # "push"
      OBVIOUS
    <3> HIDE DEF wake
    <3> QED
      BY <3>1, <3>2, <3>3, <3>4 DEF PushHasWake
  <2>11. CASE UNCHANGED vars
    BY <2>11 DEF vars, PushHasWake
  <2> QED
    BY <2>1, <2>2, <2>3, <2>4, <2>5, <2>6, <2>7, <2>8, <2>9, <2>10, <2>11, <2>12,
       JobsAssumption
       DEF Next, LoopStep, Answers, Fails
<1> QED
  BY <1>1, <1>2, Invariance, PTL DEF Spec
-----------------------------------------------------------------------------
(* The next occurrence.                                                    *)

\* A nonempty set of times has a least element.
LEMMA LeastTime ==
    ASSUME NEW T \in SUBSET Times, T # {}
    PROVE  \E p \in T : \A q \in T : p <= q
<1> DEFINE R == StrictSubsetOrdering(Times)
           S == FiniteSubsetsOf(Times)
           U == {0 .. p : p \in T}
<1>1. T \subseteq Int /\ \A p \in T : 0 <= p /\ p <= Horizon /\ Horizon \in Int
  BY TimeAssumption DEF Times
<1>2. \A p \in T : 0 .. p \subseteq Times /\ IsFiniteSet(0 .. p)
  BY <1>1, FS_Interval DEF Times
<1>3. U \subseteq S /\ U # {}
  BY <1>2 DEF FiniteSubsetsOf
<1>4. IsWellFoundedOn(R, S)
  BY FS_StrictSubsetOrderingWellFounded
<1> HIDE DEF R, S
<1>5. PICK x \in U : \A y \in U : ~ (<<y, x>> \in R)
  BY <1>3, <1>4, WFMin
<1>6. PICK p \in T : x = 0 .. p
  BY <1>5
<1>7. ASSUME NEW q \in T PROVE p <= q
  <2> SUFFICES ASSUME q < p PROVE FALSE
    BY <1>1
  <2>1. 0 .. q \subseteq 0 .. p /\ 0 .. q # 0 .. p
    BY <1>1
  <2>2. <<0 .. q, 0 .. p>> \in R
    BY <1>2, <2>1 DEF R, StrictSubsetOrdering
  <2> QED
    BY <1>5, <1>6, <2>2
<1> QED
  BY <1>7

\* A job whose schedule names a later time has a next run, none of whose
\* later times comes before it.
LEMMA NextRunExists ==
    ASSUME NEW J \in SUBSET Jobs, NEW j \in J, NEW t \in Int, Upcoming(j, t) # {}
    PROVE  \E r \in NextRuns(J, t) : r[1] = j /\ \A p \in Upcoming(j, t) : r[2] <= p
<1>1. Upcoming(j, t) \in SUBSET Times
  BY ScheduleAssumption DEF Upcoming
<1>2. PICK p \in Upcoming(j, t) : \A q \in Upcoming(j, t) : p <= q
  BY <1>1, LeastTime
<1>3. <<j, p>> \in NextRuns(J, t)
  BY <1>1, <1>2 DEF NextRuns
<1> QED
  BY <1>2, <1>3

\* A job has one next run, which lies ahead.
LEMMA NextRunFacts ==
    ASSUME NEW J \in SUBSET Jobs, NEW t \in Int, NEW r \in NextRuns(J, t)
    PROVE  /\ r \in Runs /\ r[1] \in J /\ r[2] \in Int /\ r[2] > t
           /\ r[2] \in Upcoming(r[1], t)
           /\ \A p \in Upcoming(r[1], t) : r[2] <= p
           /\ \A q \in NextRuns(J, t) : q[1] = r[1] => q = r
<1>1. r \in Runs /\ r[1] \in J /\ r[2] \in Int /\ r[2] > t /\ r[2] \in Upcoming(r[1], t)
  BY TimeAssumption DEF NextRuns, Runs, Times, Upcoming
<1>2. \A p \in Upcoming(r[1], t) : r[2] <= p
  BY DEF NextRuns
<1>3. ASSUME NEW q \in NextRuns(J, t), q[1] = r[1] PROVE q = r
  <2>1. q \in J \X Times /\ r \in J \X Times
    BY DEF NextRuns
  <2>2. q[2] <= r[2] /\ r[2] <= q[2] /\ q[2] \in Int
    BY <1>1, <1>2, <1>3, <2>1, TimeAssumption DEF NextRuns, Times
  <2>3. q[2] = r[2]
    BY <1>1, <2>2
  <2> QED
    BY <1>3, <2>1, <2>3
<1> QED
  BY <1>1, <1>2, <1>3

\* Wake and push events have sequence numbers of their own.
Planning(e) == e.kind # "push_update"
Numbered ==
    /\ \A e \in events : Planning(e) => e.n \in 1 .. seq
    /\ \A e, f \in events : Planning(e) /\ Planning(f) /\ e.n = f.n => e = f

\* A push_update is due from the moment it is scheduled.
UpdatesDue == \A e \in events : ~Planning(e) => e.at <= now

\* While the loop waits for an event, a push other than that event is not the
\* head of the queue, whatever is added to the queue or built anew.
PushIsBehind ==
    pc \in {"sleeping", "timedout"} =>
        \A e \in events : e.kind = "push" => e = ev \/ \E f \in events : ~Before(e, f)

\* An enabled job has its next push in the queue, or a push of it is in the
\* loop's hands, and the job in the loop's hands is the one in _jobs, or the
\* last push of it raised.
HasNext(j) ==
    \E e \in events : e.kind = "push" /\ e.run[1] = j /\ \A p \in Upcoming(j, now) : e.run[2] <= p
InHand(j) == pc = "pushing" /\ ev.kind = "push" /\ ev.run[1] = j
Stranded(j) == \E r \in stranded : r[1] = j
EnabledPlanned ==
    \A j \in Jobs : jobs[j] = "on" => HasNext(j) \/ (InHand(j) /\ own) \/ Stranded(j)

\* A reload during a push plans all jobs.
ReloadPlans == pc = "pushing" /\ ~own => stranded = {}

QInv == Numbered /\ UpdatesDue /\ PushIsBehind /\ EnabledPlanned /\ ReloadPlans

\* What a reload finds enabled and puts into the queue.
NextOf(s) == NextRuns({j \in Jobs : s[j] = "on"}, now)

\* The events of a reload: each next run has its wake, and its push behind it.
LEMMA RebuildFacts ==
    ASSUME TypeOK, NEW s \in [Jobs -> JobState], Rebuild(s)
    PROVE  /\ \A e \in events' : Planning(e) =>
                 /\ e.run \in NextOf(s) /\ e.n \in 1 .. seq'
                 /\ e = IF e.kind = "wake" THEN WakeOf(e.run, e.n) ELSE PushOf(e.run, e.n)
           /\ \A e \in events' : ~Planning(e) => e \in events
           /\ \A e, f \in events' : Planning(e) /\ Planning(f) =>
                 /\ e.n = f.n => e = f
                 /\ e.kind = f.kind /\ e.run[1] = f.run[1] => e = f
           /\ \A e \in events' : e.kind = "push" =>
                 \E w \in events' : w.kind = "wake" /\ w.run = e.run /\ ~Before(e, w)
           /\ \A w \in events' : w.kind = "wake" =>
                 \E e \in events' : e.kind = "push" /\ w.run = e.run /\ w.n < e.n
           /\ \A r \in NextOf(s) : \E e \in events' : e.kind = "push" /\ e.run = r
<1>1. PICK place \in Orders :
         events' = {e \in events : e.kind = "push_update"} \cup Planned(s, place)
  BY DEF Rebuild
<1> DEFINE W(r) == WakeOf(r, 2 * place[r[1]] - 1)
           P(r) == PushOf(r, 2 * place[r[1]])
           S == {j \in Jobs : s[j] = "on"}
<1>2. \A e : e \in events' <=> \/ e \in events /\ ~Planning(e)
                               \/ \E r \in NextOf(s) : e = W(r) \/ e = P(r)
  BY <1>1 DEF Planned, NextOf, Planning
<1>3. \A r : /\ W(r).kind = "wake" /\ W(r).run = r /\ W(r).n = 2 * place[r[1]] - 1
             /\ W(r).at = r[2] - Offset[r[1]]
             /\ P(r).kind = "push" /\ P(r).run = r /\ P(r).n = 2 * place[r[1]]
             /\ P(r).at = r[2]
  BY DEF WakeOf, PushOf
<1>4. Cardinality(Jobs) \in Nat
  BY FS_CardinalityType, JobsAssumption
<1>5. \A j \in Jobs : place[j] \in 1 .. Cardinality(Jobs)
  BY DEF Orders
<1>6. \A i, j \in Jobs : place[i] = place[j] => i = j
  BY DEF Orders
<1>7. now \in Int
  BY DEF TypeOK
<1>8. ASSUME NEW r \in NextOf(s)
      PROVE  /\ r \in Runs /\ r[1] \in Jobs /\ r[2] \in Int /\ r[2] - Offset[r[1]] \in Int
             /\ r[2] - Offset[r[1]] <= r[2]
             /\ \A q \in NextOf(s) : q[1] = r[1] => q = r
  <2>1. r \in NextRuns(S, now) /\ S \in SUBSET Jobs
    BY <1>8 DEF NextOf
  <2>2. r \in Runs /\ r[1] \in Jobs /\ r[2] \in Int /\ \A q \in NextOf(s) : q[1] = r[1] => q = r
    BY <1>7, <2>1, NextRunFacts DEF NextOf
  <2> QED
    BY <2>2, ScheduleAssumption
<1> HIDE DEF W, P
<1>9. \A e \in events' : Planning(e) => \E r \in NextOf(s) : e = W(r) \/ e = P(r)
  BY <1>2
<1>10. seq' = 2 * Cardinality(Jobs)
  BY DEF Rebuild
<1>11. ASSUME NEW e \in events', Planning(e)
       PROVE  /\ e.run \in NextOf(s) /\ e.n \in 1 .. seq'
              /\ e = IF e.kind = "wake" THEN WakeOf(e.run, e.n) ELSE PushOf(e.run, e.n)
  <2>1. PICK r \in NextOf(s) : e = W(r) \/ e = P(r)
    BY <1>9, <1>11
  <2>2. place[r[1]] \in 1 .. Cardinality(Jobs)
    BY <1>5, <1>8
  <2>3. 2 * place[r[1]] - 1 \in 1 .. seq' /\ 2 * place[r[1]] \in 1 .. seq'
    <3> DEFINE m == place[r[1]]
               c == Cardinality(Jobs)
    <3>1. c \in Nat /\ m \in Int /\ 1 <= m /\ m <= c
      BY <1>4, <2>2
    <3> HIDE DEF m, c
    <3>2. 2 * m - 1 \in 1 .. 2 * c /\ 2 * m \in 1 .. 2 * c
      BY <3>1
    <3> QED
      BY <1>10, <3>2 DEF m, c
  <2>4. e.run = r /\ e.n \in 1 .. seq'
    <3>1. CASE e = W(r)
      <4>1. e.run = r /\ e.n = 2 * place[r[1]] - 1
        BY <1>3, <3>1
      <4> QED
        BY <2>3, <4>1
    <3>2. CASE e = P(r)
      <4>1. e.run = r /\ e.n = 2 * place[r[1]]
        BY <1>3, <3>2
      <4> QED
        BY <2>3, <4>1
    <3> QED
      BY <2>1, <3>1, <3>2
  <2> QED
    BY <1>3, <2>1, <2>4 DEF W, P
<1>12. ASSUME NEW e \in events', NEW f \in events', Planning(e), Planning(f)
       PROVE  /\ e.n = f.n => e = f
              /\ e.kind = f.kind /\ e.run[1] = f.run[1] => e = f
  <2>1. PICK r \in NextOf(s) : e = W(r) \/ e = P(r)
    BY <1>9, <1>12
  <2>2. PICK q \in NextOf(s) : f = W(q) \/ f = P(q)
    BY <1>9, <1>12
  <2>3. r[1] = q[1] => r = q
    BY <1>8
  <2>4. place[r[1]] \in Int /\ place[q[1]] \in Int /\ (place[r[1]] = place[q[1]] => r = q)
    BY <1>4, <1>5, <1>6, <1>8, <2>3
  <2>5. e.n = f.n => e = f
    <3> DEFINE m == place[r[1]]
               n == place[q[1]]
    <3>1. m \in Int /\ n \in Int /\ (m = n => r = q)
      BY <2>4
    <3>2. (e = W(r) /\ e.n = 2 * m - 1) \/ (e = P(r) /\ e.n = 2 * m)
      BY <1>3, <2>1
    <3>3. (f = W(q) /\ f.n = 2 * n - 1) \/ (f = P(q) /\ f.n = 2 * n)
      BY <1>3, <2>2
    <3> HIDE DEF m, n
    <3>4. 2 * m - 1 # 2 * n /\ 2 * n - 1 # 2 * m
          /\ (2 * m = 2 * n => m = n) /\ (2 * m - 1 = 2 * n - 1 => m = n)
      BY <3>1
    <3> QED
      BY <3>1, <3>2, <3>3, <3>4
  <2>6. e.kind = f.kind /\ e.run[1] = f.run[1] => e = f
    BY <1>3, <2>1, <2>2, <2>3
  <2> QED
    BY <2>5, <2>6
<1>13. ASSUME NEW r \in NextOf(s)
       PROVE  W(r) \in events' /\ P(r) \in events' /\ W(r).n < P(r).n /\ ~Before(P(r), W(r))
  <2>1. place[r[1]] \in Int
    BY <1>4, <1>5, <1>8
  <2>2. W(r).n < P(r).n /\ ~(P(r).n <= W(r).n)
    <3> DEFINE m == place[r[1]]
    <3>1. m \in Int /\ W(r).n = 2 * m - 1 /\ P(r).n = 2 * m
      BY <1>3, <2>1
    <3> HIDE DEF m
    <3> QED
      BY <3>1
  <2>3. W(r).at <= P(r).at /\ W(r).at \in Int /\ P(r).at \in Int
    BY <1>3, <1>8
  <2>4. ~Before(P(r), W(r))
    BY <2>2, <2>3 DEF Before
  <2> QED
    BY <1>2, <2>2, <2>4
<1>14. ASSUME NEW e \in events', e.kind = "push"
       PROVE  \E w \in events' : w.kind = "wake" /\ w.run = e.run /\ ~Before(e, w)
  <2>1. PICK r \in NextOf(s) : e = P(r)
    BY <1>3, <1>9, <1>14 DEF Planning
  <2>2. W(r) \in events' /\ W(r).kind = "wake" /\ W(r).run = e.run /\ ~Before(e, W(r))
    BY <1>3, <1>13, <2>1
  <2> QED
    BY <2>2
<1>15. ASSUME NEW w \in events', w.kind = "wake"
       PROVE  \E e \in events' : e.kind = "push" /\ w.run = e.run /\ w.n < e.n
  <2>1. PICK r \in NextOf(s) : w = W(r)
    BY <1>3, <1>9, <1>15 DEF Planning
  <2>2. P(r) \in events' /\ P(r).kind = "push" /\ w.run = P(r).run /\ w.n < P(r).n
    BY <1>3, <1>13, <2>1
  <2> QED
    BY <2>2
<1>16. \A r \in NextOf(s) : \E e \in events' : e.kind = "push" /\ e.run = r
  BY <1>3, <1>13
<1>17. ASSUME NEW e \in events', ~Planning(e) PROVE e \in events
  <2>1. \A r \in NextOf(s) : e # W(r) /\ e # P(r)
    BY <1>3, <1>17 DEF Planning
  <2> QED
    BY <1>2, <1>17, <2>1
<1> QED
  BY <1>11, <1>12, <1>14, <1>15, <1>16, <1>17

\* A reload plans the next push of the jobs it finds enabled.
LEMMA RebuildQ ==
    ASSUME TypeOK, UpdatesDue, NEW s \in [Jobs -> JobState], Rebuild(s), UNCHANGED now
    PROVE  QInv'
<1>1. Numbered' /\ UpdatesDue'
  BY RebuildFacts DEF Numbered, UpdatesDue
<1>2. PushIsBehind'
  BY RebuildFacts DEF PushIsBehind, Before
<1>3. ASSUME NEW j \in Jobs, jobs'[j] = "on" PROVE HasNext(j)'
  <2>1. s[j] = "on" /\ Upcoming(j, now) # {}
    BY <1>3 DEF Rebuild, Copied, NoLonger
  <2>2. now \in Int
    BY DEF TypeOK
  <2>3. PICK r \in NextOf(s) : r[1] = j /\ \A p \in Upcoming(j, now) : r[2] <= p
    <3> DEFINE J == {i \in Jobs : s[i] = "on"}
    <3>1. J \in SUBSET Jobs /\ j \in J
      BY <2>1
    <3> QED
      BY <2>1, <2>2, <3>1, NextRunExists DEF NextOf
  <2>4. PICK e \in events' : e.kind = "push" /\ e.run = r
    BY RebuildFacts
  <2> QED
    BY <2>3, <2>4 DEF HasNext, Upcoming
<1>4. ReloadPlans'
  BY DEF Rebuild, ReloadPlans
<1> QED
  BY <1>1, <1>2, <1>3, <1>4 DEF QInv, EnabledPlanned

\* Handling an event loses no push but the one handled.
LEMMA HandleQ ==
    ASSUME IInv, Numbered, UpdatesDue, EnabledPlanned, pc \in {"top", "timedout"},
           NEW e \in events, NEW h \in Event, Handle(h), events' = events \ {e},
           e = h \/ e.kind # "push", UNCHANGED <<now, jobs, seq, stranded>>
    PROVE  QInv'
<1>1. Numbered' /\ UpdatesDue'
  BY DEF Numbered, UpdatesDue
<1>2. pc' \in {"top", "pushing"}
  BY DEF Handle, Handled
<1>3. ASSUME NEW j \in Jobs, jobs'[j] = "on" PROVE HasNext(j)' \/ (InHand(j) /\ own)' \/ Stranded(j)'
  <2> SUFFICES ASSUME ~Stranded(j) PROVE HasNext(j)' \/ (InHand(j) /\ own)'
    BY DEF Stranded
  <2>1. PICK p \in events : p.kind = "push" /\ p.run[1] = j /\ \A t \in Upcoming(j, now) : p.run[2] <= t
    BY <1>3 DEF EnabledPlanned, HasNext, InHand
  <2>2. CASE p # e
    BY <2>1, <2>2 DEF HasNext, Upcoming
  <2>3. CASE p = e
    BY <1>3, <2>1, <2>3 DEF Handle, InHand
  <2> QED
    BY <2>2, <2>3
<1>4. ReloadPlans'
  BY DEF Handle, Handled, ReloadPlans
<1> QED
  BY <1>1, <1>2, <1>3, <1>4 DEF QInv, PushIsBehind, EnabledPlanned

\* What follows a push plans the job's next push, if it has one.
LEMMA PushDoneQ == ASSUME IInv, QInv, PushDone PROVE QInv'
<1>1. ev \in Event /\ ev.run \in Runs /\ ev.run[1] \in Jobs
  BY DEF PushDone, IInv, Held, Event, Runs
<1> DEFINE j == ev.run[1]
<1>2. j \in Jobs /\ now \in Int /\ seq \in Nat /\ pc' = "top" /\ UNCHANGED now
  BY <1>1 DEF IInv, TypeOK, PushDone
<1>3. CASE ev.kind # "push"
  <2>1. UNCHANGED <<jobs, events, seq, stranded>>
    BY <1>3 DEF PushDone, planVars
  <2> QED
    BY <1>2, <1>3, <2>1 DEF QInv, Numbered, UpdatesDue, PushIsBehind, EnabledPlanned, HasNext, InHand,
                            Upcoming, Stranded, ReloadPlans
<1>4. CASE ev.kind = "push"
  <2>1. AfterPush(j)
    BY <1>4 DEF PushDone
  <2>4. \A i \in Jobs : i # j /\ Stranded(i) => Stranded(i)'
    BY <1>4 DEF PushDone, Stranded
  <2> HIDE DEF j
  <2>2. ASSUME j \in DeleteAfterRun \/ Upcoming(j, now) = {} PROVE QInv'
    <3>1. UNCHANGED <<events, seq>>
      BY <2>1, <2>2 DEF AfterPush
    <3>2. \A i \in Jobs : jobs'[i] = "on" => jobs[i] = "on"
      BY <1>2, <2>1 DEF AfterPush, IInv, TypeOK
    <3>3. jobs'[j] = "on" => ~own
      BY <1>2, <2>1, <2>2 DEF AfterPush, IInv, TypeOK
    <3>4. \A i \in Jobs : i # j => ~InHand(i)
      BY DEF InHand, j
    <3>5. Numbered' /\ UpdatesDue' /\ PushIsBehind' /\ ReloadPlans'
      BY <1>2, <3>1 DEF QInv, Numbered, UpdatesDue, PushIsBehind, ReloadPlans
    <3>6. ~own => ~Stranded(j)
      BY DEF PushDone, QInv, ReloadPlans, Stranded
    <3>7. ASSUME NEW i \in Jobs, jobs'[i] = "on" PROVE HasNext(i)' \/ Stranded(i)'
      <4>1. HasNext(i) \/ (Stranded(i) /\ i # j)
        BY <3>2, <3>3, <3>4, <3>6, <3>7 DEF QInv, EnabledPlanned
      <4> QED
        BY <1>2, <2>4, <3>1, <4>1 DEF HasNext, Upcoming
    <3> QED
      BY <3>5, <3>7 DEF QInv, EnabledPlanned
  <2>3. ASSUME j \notin DeleteAfterRun, Upcoming(j, now) # {} PROVE QInv'
    <3>1. PICK r \in NextRuns({j}, now) : r[1] = j /\ \A p \in Upcoming(j, now) : r[2] <= p
      BY <1>2, <2>3, NextRunExists
    <3>2. NextRuns({j}, now) = {r}
      <4>1. {j} \in SUBSET Jobs
        BY <1>2
      <4>2. \A q \in NextRuns({j}, now) : q[1] \in {j} /\ (q[1] = r[1] => q = r)
        BY <1>2, <4>1, NextRunFacts
      <4> QED
        BY <3>1, <4>2
    <3> DEFINE w == WakeOf(r, seq + 1)
               p == PushOf(r, seq + 2)
    <3>3. events' = events \cup {w, p} /\ seq' = seq + 2 /\ UNCHANGED jobs
      BY <2>1, <2>3, <3>2 DEF AfterPush
    <3>4. /\ w.kind = "wake" /\ w.n = seq + 1
          /\ p.kind = "push" /\ p.n = seq + 2 /\ p.run = r
      BY DEF WakeOf, PushOf
    <3> HIDE DEF w, p
    <3>5. \A e \in events : Planning(e) => e.n \in Int /\ 1 <= e.n /\ e.n <= seq
      BY <1>2 DEF QInv, Numbered
    <3>6. Numbered'
      <4>1. \A e \in events' : Planning(e) => e.n \in 1 .. seq'
        BY <1>2, <3>3, <3>4, <3>5
      <4>2. \A e, f \in events' : Planning(e) /\ Planning(f) /\ e.n = f.n => e = f
        BY <1>2, <3>3, <3>4, <3>5 DEF QInv, Numbered
      <4> QED
        BY <4>1, <4>2 DEF Numbered
    <3>7. UpdatesDue'
      BY <1>2, <3>3, <3>4 DEF QInv, UpdatesDue, Planning
    <3>8. ASSUME NEW i \in Jobs, jobs'[i] = "on" PROVE HasNext(i)' \/ Stranded(i)'
      <4>1. CASE i = j
        BY <1>2, <3>1, <3>3, <3>4, <4>1 DEF HasNext, Upcoming
      <4>2. CASE i # j
        <5>1. HasNext(i) \/ Stranded(i)
          BY <3>3, <3>8, <4>2 DEF QInv, EnabledPlanned, InHand, j
        <5> QED
          BY <1>2, <2>4, <3>3, <4>2, <5>1 DEF HasNext, Upcoming
      <4> QED
        BY <4>1, <4>2
    <3> QED
      BY <1>2, <3>6, <3>7, <3>8 DEF QInv, PushIsBehind, EnabledPlanned, ReloadPlans
  <2> QED
    BY <2>2, <2>3
<1> QED
  BY <1>3, <1>4

\* A push that raises strands its job.
LEMMA PushRaisesQ == ASSUME IInv, QInv, PushRaises PROVE QInv'
<1>1. UNCHANGED <<now, jobs, events, seq>> /\ pc' = "error" /\ stranded \subseteq stranded'
  BY DEF PushRaises, planVars
<1>2. ASSUME NEW j \in Jobs, InHand(j) PROVE Stranded(j)'
  BY <1>2 DEF PushRaises, InHand, Stranded
<1>3. EnabledPlanned'
  BY <1>1, <1>2 DEF QInv, EnabledPlanned, HasNext, Upcoming, Stranded
<1> QED
  BY <1>1, <1>3 DEF QInv, Numbered, UpdatesDue, PushIsBehind, ReloadPlans

\* Steps of the loop that move no event and plan nothing.
LEMMA WaitQ ==
    ASSUME IInv, QInv, Wait \/ Woken \/ PollAgain \/ RecoverFromError \/ SyncStoreMtime \/ Tick
    PROVE  QInv'
<1>1. UNCHANGED <<jobs, events, seq, own, stranded>> /\ (pc' = "pushing" => pc = "pushing")
  BY DEF Wait, Woken, PollAgain, RecoverFromError, SyncStoreMtime, Tick, planVars, loopVars, mishapVars
<1>2. now \in Int /\ now' \in Int /\ now <= now'
  BY DEF Wait, Woken, PollAgain, RecoverFromError, SyncStoreMtime, Tick, IInv, TypeOK
<1>3. Numbered'
  BY <1>1 DEF QInv, Numbered
<1>4. \A e \in events : e.at \in Int /\ e.n \in Int
  BY DEF IInv, TypeOK, Event
<1>5. UpdatesDue'
  BY <1>1, <1>2, <1>4 DEF QInv, UpdatesDue
<1>6. \A j \in Jobs : InHand(j) => InHand(j)'
  BY DEF Wait, Woken, PollAgain, RecoverFromError, SyncStoreMtime, Tick, loopVars, InHand
<1>7. \A j \in Jobs : HasNext(j) => HasNext(j)'
  <2>1. \A j \in Jobs : Upcoming(j, now') \subseteq Upcoming(j, now)
    BY <1>2, ScheduleAssumption, TimeAssumption DEF Upcoming, Times
  <2>2. ASSUME NEW j \in Jobs, HasNext(j) PROVE HasNext(j)'
    <3>1. PICK e \in events : e.kind = "push" /\ e.run[1] = j
                              /\ \A p \in Upcoming(j, now) : e.run[2] <= p
      BY <2>2 DEF HasNext
    <3>2. \A p \in Upcoming(j, now') : e.run[2] <= p
      BY <2>1, <3>1
    <3> QED
      BY <1>1, <3>1, <3>2 DEF HasNext, Upcoming
  <2> QED
    BY <2>2
<1>8. PushIsBehind'
  <2>1. CASE Wait
    <3>1. ASSUME pc' = "sleeping", NEW e \in events, e.kind = "push", e # ev'
          PROVE  ~Before(e, ev')
      <4>1. IsHead(ev', events) /\ ~Due(ev') /\ UNCHANGED now
        BY <2>1, <3>1 DEF Wait
      <4>2. Planning(ev') /\ Planning(e) /\ ev' \in events
        BY <3>1, <4>1 DEF QInv, UpdatesDue, Due, IsHead, Planning
      <4>3. Before(ev', e) /\ e.n # ev'.n
        BY <3>1, <4>1, <4>2 DEF QInv, Numbered, IsHead
      <4> QED
        BY <1>4, <4>2, <4>3 DEF Before
    <3>2. pc' = "sleeping" => ev' \in events
      BY <2>1 DEF Wait, IsHead
    <3>3. pc' \in {"idle", "sleeping"}
      BY <2>1 DEF Wait
    <3> QED
      BY <1>1, <3>1, <3>2, <3>3 DEF PushIsBehind, Before
  <2>2. CASE Woken \/ PollAgain \/ RecoverFromError
    BY <2>2 DEF Woken, PollAgain, RecoverFromError, PushIsBehind
  <2>3. CASE SyncStoreMtime \/ Tick
    <3>1. ev' = ev /\ (pc' \in {"sleeping", "timedout"} => pc \in {"sleeping", "timedout"})
      BY <2>3 DEF SyncStoreMtime, Tick, loopVars
    <3> QED
      BY <1>1, <3>1 DEF QInv, PushIsBehind, Before
  <2> QED
    BY <2>1, <2>2, <2>3
<1> QED
  BY <1>1, <1>3, <1>5, <1>6, <1>7, <1>8 DEF QInv, EnabledPlanned, Stranded, ReloadPlans

LEMMA TimerDueQ == ASSUME IInv, QInv, TimerDue PROVE QInv'
<1>1. CASE events = {} /\ pc' = "error" /\ UNCHANGED events
  BY <1>1 DEF TimerDue, QInv, Numbered, UpdatesDue, PushIsBehind, EnabledPlanned, HasNext, InHand,
              Stranded, ReloadPlans, mishapVars
<1>2. ASSUME NEW e \in events, IsHead(e, events), events' = events \ {e}, Handle(ev) PROVE QInv'
  <2>1. pc = "timedout" /\ ev \in Event /\ UNCHANGED <<now, jobs, seq, stranded>>
    BY DEF TimerDue, IInv, Held, mishapVars
  <2>2. e = ev \/ e.kind # "push"
    BY <1>2, <2>1 DEF QInv, PushIsBehind, IsHead
  <2> QED
    BY <1>2, <2>1, <2>2, HandleQ DEF QInv
<1> QED
  BY <1>1, <1>2 DEF TimerDue

\* What the other coroutines add to the queue: push_updates that are due, and
\* a wake with a push behind it.
LEMMA AgentEndsQ ==
    ASSUME IInv, QInv, NEW r \in Runs, NEW answered \in BOOLEAN, AgentEnds(r, answered)
    PROVE  QInv'
<1> DEFINE n == FinallyUpdates(r, answered \/ r \in text)
           U == {[at |-> now, n |-> i, kind |-> "push_update", run |-> r] : i \in seq + 1 .. seq + n}
<1>1. n \in Nat /\ seq \in Nat /\ now \in Int
  BY DEF FinallyUpdates, IInv, TypeOK
<1>2. events' = events \cup U /\ seq' = seq + n
      /\ UNCHANGED <<now, jobs, pc, ev, own, stranded>>
  BY DEF AgentEnds, loopVars, mishapVars
<1>3. \A e \in U : ~Planning(e) /\ e.at = now
  BY DEF Planning
<1>4. Numbered'
  <2>1. \A e \in events' : Planning(e) => e \in events
    BY <1>2, <1>3
  <2>2. \A e \in events : Planning(e) => e.n \in Int /\ 1 <= e.n /\ e.n <= seq
    BY <1>1 DEF QInv, Numbered
  <2> HIDE DEF n
  <2>3. seq <= seq' /\ seq' \in Int
    BY <1>1, <1>2
  <2>4. \A e \in events : Planning(e) => e.n \in 1 .. seq'
    BY <1>1, <2>2, <2>3
  <2> QED
    BY <2>1, <2>4 DEF QInv, Numbered
<1> HIDE DEF U
<1>5. UpdatesDue'
  BY <1>1, <1>2, <1>3 DEF QInv, UpdatesDue
<1>6. PushIsBehind'
  BY <1>2, <1>3 DEF QInv, PushIsBehind, Before, Planning
<1>7. EnabledPlanned' /\ ReloadPlans'
  BY <1>2 DEF QInv, EnabledPlanned, HasNext, InHand, Upcoming, Stranded, ReloadPlans
<1> QED
  BY <1>4, <1>5, <1>6, <1>7 DEF QInv

LEMMA RunNowQ == ASSUME IInv, QInv, NEW j \in Jobs, RunNow(j) PROVE QInv'
<1> DEFINE w == [at |-> now, n |-> seq + 1, kind |-> "wake", run |-> <<j, now>>]
           p == [at |-> now, n |-> seq + 2, kind |-> "push", run |-> <<j, now>>]
<1>1. seq \in Nat /\ now \in Int
  BY DEF IInv, TypeOK
<1>2. events' = events \cup {w, p} /\ seq' = seq + 2 /\ UNCHANGED <<now, jobs, pc, ev, own, stranded>>
  BY DEF RunNow, loopVars, mishapVars
<1>3. w.n = seq + 1 /\ p.n = seq + 2 /\ w.at = now /\ p.at = now /\ w.kind = "wake" /\ p.kind = "push"
  OBVIOUS
<1> HIDE DEF w, p
<1>4. \A e \in events : Planning(e) => e.n \in Int /\ 1 <= e.n /\ e.n <= seq
  BY <1>1 DEF QInv, Numbered
<1>5. Numbered'
  <2>1. \A e \in events' : Planning(e) => e.n \in 1 .. seq'
    BY <1>1, <1>2, <1>3, <1>4
  <2>2. \A e, f \in events' : Planning(e) /\ Planning(f) /\ e.n = f.n => e = f
    BY <1>1, <1>2, <1>3, <1>4 DEF QInv, Numbered
  <2> QED
    BY <2>1, <2>2 DEF Numbered
<1>6. UpdatesDue'
  BY <1>2, <1>3 DEF QInv, UpdatesDue, Planning
<1>7. PushIsBehind'
  <2>1. ~Before(p, w)
    BY <1>1, <1>3 DEF Before
  <2> QED
    BY <1>2, <1>3, <2>1 DEF QInv, PushIsBehind, Before
<1>8. EnabledPlanned' /\ ReloadPlans'
  BY <1>2 DEF QInv, EnabledPlanned, HasNext, InHand, Upcoming, Stranded, ReloadPlans
<1> QED
  BY <1>5, <1>6, <1>7, <1>8 DEF QInv

LEMMA InitQ == Init => QInv
BY DEF Init, QInv, Numbered, UpdatesDue, PushIsBehind, EnabledPlanned, ReloadPlans

LEMMA NextQ == ASSUME IInv, QInv, [Next]_vars PROVE QInv'
<1>1. CASE Wait \/ Woken \/ PollAgain \/ RecoverFromError \/ SyncStoreMtime \/ Tick
  BY <1>1, WaitQ
<1>2. CASE Start \/ CheckStoreChanged
  BY <1>2, RebuildQ DEF Start, CheckStoreChanged, ReloadWith, IInv, QInv, TypeOK
<1>3. CASE HandleDue
  <2>1. PICK e \in events : events' = events \ {e} /\ Handle(e)
    BY <1>3 DEF HandleDue
  <2>2. e \in Event /\ pc = "top" /\ UNCHANGED <<now, jobs, seq, stranded>>
    BY <1>3 DEF HandleDue, IInv, TypeOK, mishapVars
  <2> QED
    BY <2>1, <2>2, HandleQ DEF QInv
<1>4. CASE TimerDue
  BY <1>4, TimerDueQ
<1>5. CASE PushDone \/ PushRaises
  BY <1>5, PushDoneQ, PushRaisesQ
<1>6. CASE Restart
  BY <1>6 DEF Restart, QInv, Numbered, UpdatesDue, PushIsBehind, EnabledPlanned, ReloadPlans
<1>7. ASSUME NEW r \in Runs, Answers(r) \/ Fails(r) PROVE QInv'
  BY <1>7, AgentEndsQ DEF Answers, Fails
<1>8. ASSUME NEW j \in Jobs, Controller(j) PROVE QInv'
  <2>1. PICK v \in Edits(store[j]) : Rebuild([store EXCEPT ![j] = v])
    BY <1>8 DEF Controller
  <2>2. [store EXCEPT ![j] = v] \in [Jobs -> JobState]
    BY <1>8, EditsType DEF IInv, TypeOK
  <2> QED
    BY <1>8, <2>1, <2>2, RebuildQ DEF Controller, IInv, QInv
<1>9. ASSUME NEW j \in Jobs, External(j) PROVE QInv'
  BY <1>9 DEF External, planVars, loopVars, QInv, Numbered, UpdatesDue, PushIsBehind, EnabledPlanned,
              HasNext, InHand, Before, Upcoming, Stranded, ReloadPlans
<1>10. ASSUME NEW j \in Jobs, RunNow(j) PROVE QInv'
  BY <1>10, RunNowQ
<1>11. CASE UNCHANGED vars
  BY <1>11 DEF vars, QInv, Numbered, UpdatesDue, PushIsBehind, EnabledPlanned, HasNext, InHand, Before,
               Upcoming, Stranded, ReloadPlans, mishapVars
<1> QED
  BY <1>1, <1>2, <1>3, <1>4, <1>5, <1>6, <1>7, <1>8, <1>9, <1>10, <1>11, JobsAssumption
     DEF Next, LoopStep

\* The scheduler forgets no enabled job: whenever it waits, the job's next
\* occurrence is in its queue, whatever was edited, reloaded or discarded,
\* unless a push of the job raised and nothing was planned since.
THEOREM NextPlanned == Spec => []NextOccurrenceIsPlanned
<1>1. IInv /\ QInv /\ [Next]_vars => QInv'
  BY NextQ
<1>2. QInv => NextOccurrenceIsPlanned
  BY DEF QInv, EnabledPlanned, HasNext, InHand, Stranded, NextOccurrenceIsPlanned
<1> QED
  BY <1>1, <1>2, InitQ, Invariance, PTL DEF Spec

-----------------------------------------------------------------------------
(* The scheduler left alone.                                               *)

\* Events lie where their run says.
Genuine ==
    \A e \in events : /\ e.kind = "wake" => e = WakeOf(e.run, e.n)
                      /\ e.kind = "push" => e = PushOf(e.run, e.n)

\* A job has one push ahead, in the queue or in the loop's hands, and a run
\* one wake; a stranded job has no push ahead.
Single ==
    /\ \A e, f \in events : e.kind = "push" /\ f.kind = "push" /\ e.run[1] = f.run[1] => e = f
    /\ \A e, f \in events : e.kind = "wake" /\ f.kind = "wake" /\ e.run = f.run => e = f
    /\ \A e \in events : e.kind = "push" => ~InHand(e.run[1]) /\ ~Stranded(e.run[1])
    /\ \A j \in Jobs : InHand(j) => ~Stranded(j)

\* A wake has its push behind it.
Paired ==
    \A w \in events : w.kind = "wake" =>
        \E p \in events : p.kind = "push" /\ w.run = p.run /\ w.n < p.n

\* What has a push, or is stranded, is enabled, and what is enabled is so in
\* the file.
OfEnabled ==
    /\ \A e \in events : e.kind = "push" => jobs[e.run[1]] = "on"
    /\ \A j \in Jobs : InHand(j) => jobs[j] = "on" /\ own
    /\ \A j \in Jobs : Stranded(j) => jobs[j] = "on"
    /\ \A j \in Jobs : jobs[j] = "on" => store[j] = "on"

\* Nothing is overdue when the loop waits, and the event it waits for stays
\* the head of the queue until it is due.
Timely ==
    /\ reloading => pc = "top"
    /\ pc \in {"idle", "sleeping"} => \A e \in events : Planning(e) => e.at > now
    /\ pc \in {"polling", "timedout"} => \A e \in events : Planning(e) => e.at >= now
    /\ pc = "sleeping" => reloadEvent \/ \A e \in events : Planning(e)
    /\ pc = "timedout" => \A e \in events : ~Planning(e) => e.at = now /\ ev.n < e.n
    /\ pc \in {"sleeping", "timedout"} =>
          ev \in events /\ Planning(ev) /\ \A e \in events : Planning(e) => e = ev \/ ~Before(e, ev)

\* Starts of agents: a run that was started keeps its push ahead until its
\* time has come, so that no other wake of it is planned.
Started ==
    /\ \A r \in Runs : starts[r] > 0 => r[2] - Offset[r[1]] <= now
    /\ \A r \in Runs : starts[r] > 0 /\ r[2] > now /\ r \notin disturbed =>
          \E p \in events : p.kind = "push" /\ p.run = r
    /\ \A w \in events : w.kind = "wake" => starts[w.run] = 0 \/ w.run \in disturbed
    /\ \A r \in Runs : starts[r] <= 1 \/ r \in disturbed

\* Placeholders: a run whose push is ahead has sent none.
Announced ==
    /\ \A r \in Runs : notes[r] <= 1 /\ (notes[r] > 0 => r[2] <= now)
    /\ \A e \in events : e.kind = "push" => notes[e.run] = 0
    /\ pc = "pushing" /\ sending = "placeholder" => ev.kind = "push" /\ notes[ev.run] = 0

\* Before the start nothing has happened.
NotStarted ==
    pc = "down" => /\ now = 0 /\ events = {}
                   /\ \A j \in FirstJobs : store[j] = "on"
                   /\ \A r \in Runs : task[r] # "active"

\* Each occurrence was delivered, disturbed or lost to a push that raised, or a
\* push of the job no later than the occurrence is still ahead.
Delivered(r) == notes[r] + results[r] > 0
Ahead(j, t) ==
    \/ \E e \in events : e.kind = "push" /\ e.run[1] = j /\ e.run[2] <= t
    \/ InHand(j) /\ ev.run[2] <= t
Lost(j, t) == <<j, t>> \in raised \/ \E r \in stranded : r[1] = j /\ r[2] <= t
Accounted ==
    /\ stranded \subseteq raised
    /\ pc = "pushing" /\ ev.kind = "push" =>
          ev.run[2] <= now /\ (sending = "nothing" => ev.run \in final)
    /\ pc # "down" => \A j \in FirstJobs \ DeleteAfterRun : \A t \in Schedule[j] :
          t > 0 => Delivered(<<j, t>>) \/ <<j, t>> \in disturbed \/ Lost(j, t) \/ Ahead(j, t)

Alone ==
    /\ Genuine /\ Single /\ Paired /\ OfEnabled
    /\ Timely /\ Started /\ Announced
    /\ NotStarted /\ Accounted

AloneInv == edits = 0 => Alone

\* Where an event lies.
LEMMA EventFacts ==
    ASSUME IInv, NEW e \in events
    PROVE  /\ e \in Event /\ e.run \in Runs /\ e.run[1] \in Jobs /\ e.run[2] \in Int
           /\ e.at \in Int /\ e.n \in Nat /\ e.kind \in {"wake", "push", "push_update"}
           /\ Offset[e.run[1]] \in Nat /\ now \in Int
           /\ Genuine /\ e.kind = "push" => e.at = e.run[2]
           /\ Genuine /\ e.kind = "wake" => e.at = e.run[2] - Offset[e.run[1]]
<1>1. /\ e \in Event /\ e.run \in Runs /\ e.run[1] \in Jobs /\ e.run[2] \in Int
      /\ e.at \in Int /\ e.n \in Nat /\ e.kind \in {"wake", "push", "push_update"}
  BY TimeAssumption DEF IInv, TypeOK, Event, Runs, Times
<1>2. Offset[e.run[1]] \in Nat /\ now \in Int
  BY <1>1, ScheduleAssumption DEF IInv, TypeOK
<1>3. Genuine /\ e.kind = "push" => e.at = e.run[2]
  BY DEF Genuine, PushOf
<1>4. Genuine /\ e.kind = "wake" => e.at = e.run[2] - Offset[e.run[1]]
  BY DEF Genuine, WakeOf
<1> QED
  BY <1>1, <1>2, <1>3, <1>4

\* The least event is not the push of a run whose wake is in the queue.
LEMMA HeadIsNoLonePush ==
    ASSUME IInv, Genuine, NEW e \in events, NEW w \in events, Before(e, w),
           e.kind = "push", w.kind = "wake", w.run = e.run
    PROVE  ~(w.n < e.n)
<1>1. /\ e.at \in Int /\ w.at \in Int /\ e.n \in Int /\ w.n \in Int
      /\ e.at = e.run[2] /\ w.at = e.run[2] - Offset[e.run[1]]
      /\ Offset[e.run[1]] \in Nat /\ e.run[2] \in Int
  BY EventFacts
<1>2. w.at <= e.at
  BY <1>1
<1> QED
  BY <1>1, <1>2 DEF Before

\* What the loop does while it waits.
LEMMA AloneWait ==
    ASSUME IInv, QInv, Alone, edits = 0,
           Wait \/ Woken \/ PollAgain \/ RecoverFromError \/ SyncStoreMtime \/ Tick
    PROVE  Alone'
<1>1. /\ UNCHANGED <<store, jobs, events, seq, sending, own, runVars, disturbed, raised, stranded>>
      /\ pc' = "pushing" <=> pc = "pushing"
      /\ pc' = "pushing" => ev' = ev
  BY DEF Wait, Woken, PollAgain, RecoverFromError, SyncStoreMtime, Tick, planVars, loopVars, fileVars,
         mishapVars
<1>2. now \in Int /\ now' \in Int /\ now <= now'
  BY DEF Wait, Woken, PollAgain, RecoverFromError, SyncStoreMtime, Tick, IInv, TypeOK
<1>3. \A j : (InHand(j)' <=> InHand(j)) /\ (Stranded(j)' <=> Stranded(j))
  BY <1>1 DEF InHand, Stranded
<1>4. (Genuine /\ Single /\ Paired /\ OfEnabled)'
  BY <1>1, <1>3 DEF Alone, Genuine, Single, Paired, OfEnabled
<1>5. Started'
  <2>1. \A r \in Runs : r[1] \in Jobs /\ r[2] \in Int /\ Offset[r[1]] \in Int
    BY ScheduleAssumption, TimeAssumption DEF Runs, Times
  <2>2. \A r \in Runs : r[2] > now' => r[2] > now
    BY <1>2, <2>1
  <2>3. \A r \in Runs : r[2] - Offset[r[1]] <= now => r[2] - Offset[r[1]] <= now'
    BY <1>2, <2>1
  <2> QED
    BY <1>1, <2>2, <2>3 DEF Alone, Started, runVars
<1>6. \A r \in Runs : r[2] <= now => r[2] <= now'
  BY <1>2, TimeAssumption DEF Runs, Times
<1>7. Announced'
  <2>1. UNCHANGED <<notes, events, sending>>
    BY <1>1 DEF runVars
  <2>2. \A r \in Runs : notes'[r] <= 1 /\ (notes'[r] > 0 => r[2] <= now')
    BY <1>6, <2>1 DEF Alone, Announced
  <2>3. \A e \in events' : e.kind = "push" => notes'[e.run] = 0
    BY <2>1 DEF Alone, Announced
  <2>4. pc' = "pushing" /\ sending' = "placeholder" => ev'.kind = "push" /\ notes'[ev'.run] = 0
    BY <1>1, <2>1 DEF Alone, Announced
  <2> QED
    BY <2>2, <2>3, <2>4 DEF Announced
<1>8. NotStarted'
  <2>1. pc' = "down" => pc = "down" /\ UNCHANGED now
    BY DEF Wait, Woken, PollAgain, RecoverFromError, SyncStoreMtime, Tick, loopVars
  <2>2. UNCHANGED <<events, store, task>>
    BY <1>1 DEF runVars
  <2> QED
    BY <2>1, <2>2 DEF Alone, NotStarted
<1>9. Accounted'
  <2>1. pc' # "down" => pc # "down"
    BY DEF Wait, Woken, PollAgain, RecoverFromError, SyncStoreMtime, Tick, loopVars
  <2>2. pc = "pushing" => ev.run \in Runs
    BY DEF IInv, Held, Event
  <2>3. \A j, t : Ahead(j, t) => Ahead(j, t)'
    BY <1>1, <1>3 DEF Ahead, InHand
  <2>4. \A r : Delivered(r)' <=> Delivered(r)
    BY <1>1 DEF Delivered, runVars
  <2>5. \A j, t : Lost(j, t)' <=> Lost(j, t)
    BY <1>1 DEF Lost
  <2> QED
    BY <1>1, <1>6, <2>1, <2>2, <2>3, <2>4, <2>5 DEF Alone, Accounted, runVars
<1>10. Timely'
  <2>1. CASE Wait
    <3>1. pc' = "idle" => events = {}
      BY <2>1 DEF Wait
    <3>2. pc' \in {"idle", "sleeping"} /\ ~reloading' /\ UNCHANGED now
      BY <2>1 DEF Wait
    <3>3. \A e \in events : e.at > now
      BY <2>1, EventFacts DEF Wait, Due
    <3>4. \A e \in events : Planning(e)
      BY <2>1 DEF Wait, Due, QInv, UpdatesDue
    <3>5. ASSUME pc' = "sleeping", NEW e \in events, e # ev' PROVE ~Before(e, ev')
      <4>1. IsHead(ev', events)
        BY <2>1, <3>5 DEF Wait
      <4>2. Before(ev', e) /\ e.n # ev'.n /\ ev' \in events
        BY <3>4, <3>5, <4>1 DEF QInv, Numbered, IsHead
      <4>3. e.at \in Int /\ ev'.at \in Int /\ e.n \in Int /\ ev'.n \in Int
        BY <4>2, EventFacts
      <4> QED
        BY <4>2, <4>3 DEF Before
    <3>6. pc' = "sleeping" => ev' \in events
      BY <2>1 DEF Wait, IsHead
    <3> QED
      BY <1>1, <3>1, <3>2, <3>3, <3>4, <3>5, <3>6 DEF Timely, Planning, Before
  <2>2. CASE Woken \/ PollAgain \/ RecoverFromError \/ SyncStoreMtime
    BY <2>2 DEF Woken, PollAgain, RecoverFromError, SyncStoreMtime, loopVars, Alone, Timely
  <2>3. CASE Tick
    <3>1. /\ now' = now + 1 /\ ~reloading' /\ ev' = ev /\ UNCHANGED reloadEvent
          /\ \/ pc' = "polling" /\ pc = "idle"
             \/ pc' = "timedout" /\ pc = "sleeping" /\ ~reloadEvent
             \/ pc' \in {"pushing", "top"}
      BY <2>3 DEF Tick, Yielded
    <3>2. pc' \in {"polling", "timedout"} => \A e \in events : Planning(e) => e.at >= now'
      <4>1. ASSUME pc' \in {"polling", "timedout"}, NEW e \in events, Planning(e) PROVE e.at >= now'
        <5>1. e.at > now /\ e.at \in Int
          BY <3>1, <4>1, EventFacts DEF Alone, Timely
        <5> QED
          BY <1>2, <3>1, <5>1
      <4> QED
        BY <4>1
    <3> QED
      BY <1>1, <3>1, <3>2 DEF Alone, Timely, Planning, Before
  <2> QED
    BY <2>1, <2>2, <2>3
<1> QED
  BY <1>4, <1>5, <1>7, <1>8, <1>9, <1>10 DEF Alone

\* The head of the queue is handled.
LEMMA AloneHandle ==
    ASSUME IInv, Alone, edits = 0, pc \in {"top", "timedout"}, ~reloading,
           NEW e \in events, IsHead(e, events), Due(e), Handle(e), events' = events \ {e},
           UNCHANGED <<now, fileVars, jobs, seq, reloading, disturbed, mishapVars>>
    PROVE  Alone'
<1>1. e \in Event /\ e.run \in Runs /\ e.run[1] \in Jobs /\ e.run[2] \in Int /\ e.at \in Int
      /\ now \in Int /\ e.kind \in {"wake", "push", "push_update"} /\ e.at <= now
  BY EventFacts DEF Due
<1>2. UNCHANGED <<now, store, jobs, final, notes, results, disturbed, raised, stranded>>
  BY DEF Handle, OnWake, RunsUnchanged, runVars, fileVars, mishapVars
<1>3. \/ pc' = "top"
      \/ /\ pc' = "pushing" /\ ev' = e /\ sending' = Outgoing(e) /\ own' = TRUE
         /\ e.kind = "push" => jobs[e.run[1]] = "on"
  BY DEF Handle, Handled
<1>4. e.kind = "push" => InHand(e.run[1])'
  BY <1>1 DEF Handle, InHand, Alone, OfEnabled
<1>5. \A j : InHand(j)' => j = e.run[1] /\ e.kind = "push" /\ ev' = e
  BY <1>3 DEF InHand
<1>6. Genuine'
  BY DEF Alone, Genuine
<1>7. Single'
  <2>1. \A f \in events' : f.kind = "push" => ~InHand(f.run[1])' /\ ~Stranded(f.run[1])'
    BY <1>2, <1>5 DEF Alone, Single, Stranded
  <2>2. \A j \in Jobs : InHand(j)' => ~Stranded(j)'
    BY <1>2, <1>5 DEF Alone, Single, Stranded
  <2> QED
    BY <2>1, <2>2 DEF Alone, Single
<1>8. Paired'
  <2> SUFFICES ASSUME NEW w \in events', w.kind = "wake"
               PROVE  \E p \in events' : p.kind = "push" /\ w.run = p.run /\ w.n < p.n
    BY DEF Paired
  <2>1. PICK p \in events : p.kind = "push" /\ w.run = p.run /\ w.n < p.n
    BY DEF Alone, Paired
  <2>2. p # e
    <3>1. w \in events /\ Before(e, w) /\ Genuine
      BY DEF IsHead, Alone
    <3>2. p = e => ~(w.n < e.n)
      BY <2>1, <3>1, HeadIsNoLonePush
    <3> QED
      BY <2>1, <3>2
  <2> QED
    BY <2>1, <2>2
<1>9. OfEnabled'
  <2>1. \A f \in events' : f.kind = "push" => jobs'[f.run[1]] = "on"
    BY <1>2 DEF Alone, OfEnabled
  <2>2. \A j \in Jobs : InHand(j)' => jobs'[j] = "on" /\ own'
    BY <1>2, <1>3, <1>5 DEF InHand
  <2>3. \A j \in Jobs : jobs'[j] = "on" => store'[j] = "on"
    BY <1>2 DEF Alone, OfEnabled
  <2>4. \A j \in Jobs : Stranded(j)' => jobs'[j] = "on"
    BY <1>2 DEF Alone, OfEnabled, Stranded
  <2> QED
    BY <2>1, <2>2, <2>3, <2>4 DEF OfEnabled
<1>10. Timely'
  BY <1>3 DEF Timely
<1>11. Started'
  <2>1. \A r \in Runs : starts[r] \in Nat
    BY DEF IInv, TypeOK
  <2>2. CASE starts' = starts
    <3>1. \A p \in events : p.kind = "push" /\ p.run[2] > now => p # e
      BY <1>1, EventFacts DEF Alone
    <3> QED
      BY <1>2, <2>2, <3>1 DEF Alone, Started
  <2>3. CASE e.kind = "wake" /\ starts' = [starts EXCEPT ![e.run] = @ + 1]
    <3>1. \A r \in Runs : starts'[r] = IF r = e.run THEN starts[r] + 1 ELSE starts[r]
      BY <2>3 DEF IInv, TypeOK
    <3>2. e.run[2] - Offset[e.run[1]] <= now
      BY <1>1, <2>3, EventFacts DEF Alone
    <3>3. PICK p \in events : p.kind = "push" /\ e.run = p.run
      BY <2>3 DEF Alone, Paired
    <3>4. p \in events'
      BY <2>3, <3>3
    <3>5. \A r \in Runs : starts'[r] > 0 => r[2] - Offset[r[1]] <= now
      BY <3>1, <3>2 DEF Alone, Started
    <3>6. \A r \in Runs : starts'[r] > 0 /\ r[2] > now /\ r \notin disturbed =>
             \E q \in events' : q.kind = "push" /\ q.run = r
      <4> SUFFICES ASSUME NEW r \in Runs, starts'[r] > 0, r[2] > now, r \notin disturbed
                   PROVE  \E q \in events' : q.kind = "push" /\ q.run = r
        OBVIOUS
      <4>1. CASE r = e.run
        BY <3>3, <3>4, <4>1
      <4>2. CASE r # e.run
        <5>1. PICK q \in events : q.kind = "push" /\ q.run = r
          BY <3>1, <4>2 DEF Alone, Started
        <5> QED
          BY <2>3, <5>1
      <4> QED
        BY <4>1, <4>2
    <3>7. \A w \in events' : w.kind = "wake" => starts'[w.run] = 0 \/ w.run \in disturbed
      <4> SUFFICES ASSUME NEW w \in events', w.kind = "wake"
                   PROVE  starts'[w.run] = 0 \/ w.run \in disturbed
        OBVIOUS
      <4>1. w.run # e.run
        BY <2>3 DEF Alone, Single
      <4>2. w.run \in Runs
        BY EventFacts
      <4> QED
        BY <3>1, <4>1, <4>2 DEF Alone, Started
    <3>8. starts[e.run] = 0 \/ e.run \in disturbed
      BY <2>3 DEF Alone, Started
    <3>9. \A r \in Runs : starts'[r] <= 1 \/ r \in disturbed
      BY <3>1, <3>8 DEF Alone, Started
    <3> QED
      BY <1>2, <3>5, <3>6, <3>7, <3>9 DEF Started
  <2> QED
    BY <2>2, <2>3 DEF Handle, OnWake, RunsUnchanged, runVars
<1>12. Announced'
  <2>1. pc' = "pushing" /\ sending' = "placeholder" => ev' = e /\ e.kind = "push"
    BY <1>3 DEF Outgoing
  <2>2. \A r \in Runs : notes'[r] <= 1 /\ (notes'[r] > 0 => r[2] <= now')
    BY <1>2 DEF Alone, Announced
  <2>3. \A f \in events : f.kind = "push" => notes'[f.run] = 0
    BY <1>2 DEF Alone, Announced
  <2> QED
    BY <2>1, <2>2, <2>3 DEF Announced
<1>13. NotStarted'
  BY <1>3 DEF NotStarted
<1>14. Accounted'
  <2>1. ASSUME pc' = "pushing", ev'.kind = "push"
        PROVE  ev'.run[2] <= now' /\ (sending' = "nothing" => ev'.run \in final')
    <3>1. ev' = e /\ e.at = e.run[2] /\ sending' = Outgoing(e)
      BY <1>3, <2>1, EventFacts DEF Alone
    <3> QED
      BY <1>1, <1>2, <2>1, <3>1 DEF Outgoing
  <2>2. ASSUME NEW j, NEW t, Ahead(j, t) PROVE Ahead(j, t)'
    <3>1. PICK p \in events : p.kind = "push" /\ p.run[1] = j /\ p.run[2] <= t
      BY <2>2 DEF Ahead, InHand
    <3>2. CASE p = e
      BY <1>4, <1>5, <3>1, <3>2 DEF Ahead
    <3>3. CASE p # e
      BY <3>1, <3>3 DEF Ahead
    <3> QED
      BY <3>2, <3>3
  <2>3. \A r : Delivered(r)' <=> Delivered(r)
    BY <1>2 DEF Delivered
  <2>4. \A j, t : Lost(j, t)' <=> Lost(j, t)
    BY <1>2 DEF Lost
  <2> QED
    BY <1>2, <2>1, <2>2, <2>3, <2>4 DEF Alone, Accounted
<1> QED
  BY <1>6, <1>7, <1>8, <1>9, <1>10, <1>11, <1>12, <1>13, <1>14 DEF Alone

\* Left alone, the event the loop waited for is the one it takes out.
LEMMA AloneTimerDue == ASSUME IInv, Alone, edits = 0, TimerDue PROVE Alone'
<1>1. /\ pc = "timedout" /\ ~reloading /\ Due(ev)
      /\ UNCHANGED <<now, fileVars, jobs, seq, reloading, disturbed, mishapVars>>
  BY DEF TimerDue
<1>2. ev \in events /\ Planning(ev)
  BY <1>1 DEF Alone, Timely
<1>3. PICK e \in events : IsHead(e, events) /\ events' = events \ {e} /\ Handle(ev)
  BY <1>2 DEF TimerDue
<1>4. Before(e, ev) /\ e.at \in Int /\ ev.at \in Int /\ e.n \in Int /\ ev.n \in Int /\ now \in Int
  BY <1>2, <1>3, EventFacts DEF IsHead
<1>5. e = ev
  <2>1. CASE Planning(e)
    BY <1>1, <1>4, <2>1 DEF Alone, Timely
  <2>2. CASE ~Planning(e)
    <3>1. e.at = now /\ ev.n < e.n /\ ev.at <= now
      BY <1>1, <2>2 DEF Alone, Timely, Due
    <3> QED
      BY <1>4, <3>1 DEF Before
  <2> QED
    BY <2>1, <2>2
<1> QED
  BY <1>1, <1>3, <1>5, AloneHandle

\* A reload that the scheduler itself brings about, and the one at its start.
LEMMA AloneReload ==
    ASSUME IInv, Alone, edits = 0, Start \/ CheckStoreChanged
    PROVE  Alone'
<1>1. Rebuild(store) /\ store \in [Jobs -> JobState] /\ now \in Int
  BY DEF Start, CheckStoreChanged, ReloadWith, IInv, TypeOK
<1>2. pc' = "top" /\ UNCHANGED <<now, runVars>>
  BY DEF Start, CheckStoreChanged
<1>3. store' = store \/ store' = Expire(store)
  BY DEF Start, CheckStoreChanged, ReloadWith, Write, fileVars
<1>4. /\ disturbed \subseteq disturbed' /\ (pc # "down" => UnderWay \subseteq disturbed')
      /\ pc # "down" => \A r \in stranded : PassedSince(r) \subseteq disturbed'
      /\ UNCHANGED raised
  BY DEF Start, CheckStoreChanged
<1>5. ~(\E j : InHand(j)') /\ ~(\E j : Stranded(j)') /\ stranded' = {}
  BY <1>1, <1>2 DEF InHand, Stranded, Rebuild
<1>6. ASSUME NEW e \in events', Planning(e)
      PROVE  /\ e.run \in NextOf(store) /\ e.run \in Runs /\ e.run[1] \in Jobs
             /\ store[e.run[1]] = "on" /\ e.run[2] > now
             /\ e.run[2] \in Upcoming(e.run[1], now)
             /\ e.kind \in {"wake", "push"}
             /\ e = IF e.kind = "wake" THEN WakeOf(e.run, e.n) ELSE PushOf(e.run, e.n)
  <2> DEFINE J == {j \in Jobs : store[j] = "on"}
  <2>1. e.run \in NextOf(store) /\ e = IF e.kind = "wake" THEN WakeOf(e.run, e.n) ELSE PushOf(e.run, e.n)
    BY <1>1, <1>6, RebuildFacts DEF IInv
  <2>2. J \in SUBSET Jobs /\ e.run \in NextRuns(J, now)
    BY <2>1 DEF NextOf
  <2>3. e.run \in Runs /\ e.run[1] \in J /\ e.run[2] > now /\ e.run[2] \in Upcoming(e.run[1], now)
    BY <1>1, <2>2, NextRunFacts
  <2>4. e.kind \in {"wake", "push"}
    BY <2>1 DEF WakeOf, PushOf
  <2> QED
    BY <2>1, <2>3, <2>4
<1>7. Genuine'
  BY <1>6 DEF Genuine, Planning
<1>8. Single'
  <2>1. \A e, f \in events' : Planning(e) /\ Planning(f) /\ e.kind = f.kind /\ e.run[1] = f.run[1] => e = f
    BY <1>1, RebuildFacts DEF IInv
  <2> QED
    BY <1>5, <2>1 DEF Single, Planning
<1>9. Paired'
  BY <1>1, RebuildFacts DEF IInv, Paired
<1>10. OfEnabled'
  <2>1. ASSUME NEW e \in events', e.kind = "push" PROVE jobs'[e.run[1]] = "on"
    BY <1>1, <1>6, <2>1 DEF Rebuild, Copied, NoLonger, Planning
  <2>2. ASSUME NEW j \in Jobs, jobs'[j] = "on" PROVE store'[j] = "on"
    BY <1>1, <1>3, <2>2 DEF Rebuild, Copied, Expire
  <2> QED
    BY <1>5, <2>1, <2>2 DEF OfEnabled
<1>11. Timely'
  BY <1>2 DEF Timely
<1>12. \A r \in Runs : starts[r] > 0 /\ r[2] > now => r \in disturbed'
  <2> SUFFICES ASSUME NEW r \in Runs, starts[r] > 0, r[2] > now, r \notin disturbed
               PROVE  r \in disturbed'
    BY <1>4
  <2>1. PICK p \in events : p.kind = "push" /\ p.run = r
    BY DEF Alone, Started
  <2>2. pc # "down"
    BY <2>1 DEF Alone, NotStarted
  <2>3. p.at = r[2] /\ r[2] - Offset[r[1]] <= now
    BY <2>1, EventFacts DEF Alone, Started
  <2> QED
    BY <1>4, <2>1, <2>2, <2>3 DEF UnderWay
<1>13. Started'
  <2>1. \A r \in Runs : starts[r] \in Nat
    BY DEF IInv, TypeOK
  <2>2. \A w \in events' : w.kind = "wake" => starts[w.run] = 0 \/ w.run \in disturbed'
    BY <1>6, <1>12, <2>1 DEF Planning
  <2>3. \A r \in Runs : starts[r] <= 1 \/ r \in disturbed'
    BY <1>4 DEF Alone, Started
  <2> QED
    BY <1>2, <1>12, <2>2, <2>3 DEF Alone, Started, runVars
<1>14. Announced'
  <2>1. \A r \in Runs : notes[r] \in Nat /\ r[2] \in Int
    BY TimeAssumption DEF IInv, TypeOK, Runs, Times
  <2>2. \A r \in Runs : notes[r] <= 1 /\ (notes[r] > 0 => r[2] <= now)
    BY DEF Alone, Announced
  <2>3. \A e \in events' : e.kind = "push" => notes[e.run] = 0
    BY <1>1, <1>6, <2>1, <2>2 DEF Planning
  <2> QED
    BY <1>2, <2>2, <2>3 DEF Announced, runVars
<1>15. NotStarted'
  BY <1>2 DEF NotStarted
<1>16. Accounted'
  <2>1. ASSUME NEW j \in Jobs, store[j] = "on", NEW t \in Upcoming(j, now) PROVE Ahead(j, t)'
    <3> DEFINE J == {i \in Jobs : store[i] = "on"}
    <3>1. J \in SUBSET Jobs /\ j \in J
      BY <2>1
    <3>2. PICK r \in NextOf(store) : r[1] = j /\ r[2] <= t
      BY <1>1, <2>1, <3>1, NextRunExists DEF NextOf
    <3>3. PICK e \in events' : e.kind = "push" /\ e.run = r
      BY <1>1, RebuildFacts DEF IInv
    <3> QED
      BY <3>2, <3>3 DEF Ahead
  <2> SUFFICES ASSUME NEW j \in FirstJobs \ DeleteAfterRun, NEW t \in Schedule[j], t > 0
               PROVE  (Delivered(<<j, t>>) \/ <<j, t>> \in disturbed \/ Lost(j, t) \/ Ahead(j, t))'
    BY <1>2, <1>5 DEF Accounted
  <2>2. j \in Jobs /\ t \in Times /\ t \in Int
    BY JobsAssumption, ScheduleAssumption, TimeAssumption DEF Times
  <2>3. CASE pc = "down"
    BY <2>1, <2>2, <2>3 DEF Alone, NotStarted, Upcoming
  <2>4. CASE pc # "down"
    <3>1. CASE Delivered(<<j, t>>)
      BY <1>2, <3>1 DEF Delivered, runVars
    <3>2. CASE <<j, t>> \in disturbed
      BY <1>4, <3>2
    <3>3. CASE Ahead(j, t)
      <4>1. pc \in {"polling", "timedout"}
        BY <2>4 DEF Start, CheckStoreChanged
      <4>2. PICK e \in events : e.kind = "push" /\ e.run[1] = j /\ e.run[2] <= t
        BY <3>3, <4>1 DEF Ahead, InHand
      <4>3. jobs[j] = "on" /\ store[j] = "on"
        BY <2>2, <4>2 DEF Alone, OfEnabled
      <4>4. CASE t > now
        BY <2>1, <2>2, <4>3, <4>4 DEF Upcoming
      <4>5. CASE t <= now
        <5>1. /\ e.run \in Runs /\ e.run[2] \in Int /\ e.at = e.run[2] /\ e.at >= now
              /\ Offset[e.run[1]] \in Nat
          BY <4>1, <4>2, EventFacts DEF Alone, Timely, Planning
        <5>2. e.run[2] = t /\ e.at - Offset[e.run[1]] <= now
          BY <1>1, <2>2, <4>2, <4>5, <5>1
        <5>3. e.run = <<j, t>>
          BY <4>2, <5>1, <5>2 DEF Runs
        <5>4. e.run \in UnderWay
          BY <4>2, <5>2 DEF UnderWay
        <5> QED
          BY <1>4, <2>4, <5>3, <5>4
      <4> QED
        BY <1>1, <2>2, <4>4, <4>5
    <3>4. CASE Lost(j, t) /\ <<j, t>> \notin raised
      <4>1. PICK r \in stranded : r[1] = j /\ r[2] <= t
        BY <3>4 DEF Lost
      <4>2. r \in Runs /\ r[2] \in Int /\ r # <<j, t>>
        BY <3>4, <4>1, TimeAssumption DEF Alone, Accounted, IInv, TypeOK, Runs, Times
      <4>3. r[2] < t
        BY <2>2, <4>1, <4>2 DEF Runs
      <4>4. CASE t <= now
        <5>1. <<j, t>> \in PassedSince(r)
          BY <2>2, <4>1, <4>3, <4>4 DEF PassedSince, Runs
        <5> QED
          BY <1>4, <2>4, <4>1, <5>1
      <4>5. CASE t > now
        <5>1. jobs[j] = "on" /\ store[j] = "on"
          BY <2>2, <4>1 DEF Alone, OfEnabled, Stranded
        <5> QED
          BY <2>1, <2>2, <4>5, <5>1 DEF Upcoming
      <4> QED
        BY <1>1, <2>2, <4>4, <4>5
    <3>5. CASE <<j, t>> \in raised
      BY <1>4, <3>5 DEF Lost
    <3> QED
      BY <2>4, <3>1, <3>2, <3>3, <3>4, <3>5 DEF Alone, Accounted
  <2> QED
    BY <2>3, <2>4
<1> QED
  BY <1>7, <1>8, <1>9, <1>10, <1>11, <1>13, <1>14, <1>15, <1>16 DEF Alone

\* A push_update adds a result to what its run delivered.
LEMMA AloneUpdateDone ==
    ASSUME IInv, Alone, edits = 0, PushDone, ev.kind # "push"
    PROVE  Alone'
<1>1. /\ pc = "pushing" /\ pc' = "top" /\ ~reloading'
      /\ UNCHANGED <<now, jobs, events, seq, store, disturbed, raised, stranded, reloading, starts,
                     task>>
  BY DEF PushDone, Deliver, planVars, fileVars
<1>2. sending # "placeholder" /\ UNCHANGED notes
  BY DEF PushDone, Deliver, Alone, Announced
<1>3. \A r \in Runs : results[r] \in Nat /\ results'[r] \in Nat /\ notes[r] \in Nat
                      /\ results[r] <= results'[r]
  BY DEF PushDone, Deliver, IInv, TypeOK
<1>4. \A j : ~InHand(j) /\ ~InHand(j)'
  BY <1>1 DEF InHand
<1>5. (Genuine /\ Single /\ Paired /\ OfEnabled /\ Timely /\ Started /\ Announced /\ NotStarted)'
  BY <1>1, <1>2, <1>4 DEF Alone, Genuine, Single, Paired, OfEnabled, Timely, Started, Announced,
                          NotStarted, Stranded
<1>6. Accounted'
  <2>1. \A r \in Runs : Delivered(r) => Delivered(r)'
    BY <1>2, <1>3 DEF Delivered
  <2>2. \A j, t : Ahead(j, t) => Ahead(j, t)'
    BY <1>1, <1>4 DEF Ahead
  <2>3. \A j \in FirstJobs : \A t \in Schedule[j] : <<j, t>> \in Runs
    BY JobsAssumption, ScheduleAssumption DEF Runs
  <2>4. \A j, t : Lost(j, t)' <=> Lost(j, t)
    BY <1>1 DEF Lost
  <2> QED
    BY <1>1, <2>1, <2>2, <2>3, <2>4 DEF Alone, Accounted
<1> QED
  BY <1>5, <1>6 DEF Alone

\* A push delivers the occurrence it is of, and the next one is planned.
LEMMA AlonePushDone ==
    ASSUME IInv, QInv, Alone, edits = 0, PushDone, ev.kind = "push"
    PROVE  Alone'
<1>0. PICK r \in Runs, j \in Jobs : r = ev.run /\ j = r[1]
  BY DEF PushDone, IInv, Held, Event, Runs
<1>1. r \in Runs /\ j \in Jobs /\ r[1] = j /\ r[2] \in Int /\ now \in Int /\ seq \in Nat
  BY <1>0, TimeAssumption DEF IInv, TypeOK, Runs, Times
<1>2. /\ pc = "pushing" /\ pc' = "top" /\ ~reloading /\ ~reloading' /\ UNCHANGED <<now, starts, task>>
      /\ AfterPush(j) /\ Deliver(r) /\ disturbed' = disturbed \cup PassedSince(r)
      /\ UNCHANGED raised /\ stranded' = {s \in stranded : s[1] # j}
  BY <1>0 DEF PushDone, Deliver
<1>3. r[2] <= now /\ (sending = "nothing" => r \in final)
  BY <1>0, <1>2 DEF Alone, Accounted
<1>4. InHand(j) /\ jobs[j] = "on" /\ own
  BY <1>0, <1>1, <1>2 DEF InHand, Alone, OfEnabled
<1>5. \A i : ~InHand(i)'
  BY <1>2 DEF InHand
<1>6. \A e \in events : e.kind \in {"wake", "push"} => e.run[1] # j
  BY <1>4 DEF Alone, Single, Paired
<1>7. \A i : InHand(i) => i = j
  BY <1>0 DEF InHand
<1>22. ~Stranded(j) /\ UNCHANGED stranded /\ \A i : Stranded(i)' <=> Stranded(i)
  BY <1>2, <1>4 DEF Alone, Single, Stranded
\* What was delivered.
<1>8. /\ \A q \in Runs : notes[q] \in Nat /\ notes'[q] \in Nat /\ results[q] \in Nat /\ results'[q] \in Nat
      /\ \A q \in Runs : notes[q] <= notes'[q] /\ results[q] <= results'[q]
      /\ \A q \in Runs : q # r => notes'[q] = notes[q]
  BY <1>1, <1>2 DEF Deliver, IInv, TypeOK
<1>9. notes'[r] <= 1
  BY <1>0, <1>1, <1>2 DEF Deliver, Alone, Announced, IInv, TypeOK
<1>10. Delivered(r)'
  <2>1. CASE sending = "nothing"
    <3>1. results[r] = 1
      BY <1>1, <1>3, <2>1 DEF IInv, Counted
    <3> QED
      BY <1>1, <1>8, <3>1 DEF Delivered
  <2>2. CASE sending = "placeholder"
    <3>1. notes'[r] = notes[r] + 1
      BY <1>1, <1>2, <2>2 DEF Deliver, IInv, TypeOK
    <3> QED
      BY <1>1, <1>8, <3>1 DEF Delivered
  <2>3. CASE sending = "result"
    <3>1. results'[r] = results[r] + 1
      BY <1>1, <1>2, <2>3 DEF Deliver, IInv, TypeOK
    <3> QED
      BY <1>1, <1>8, <3>1 DEF Delivered
  <2> QED
    BY <2>1, <2>2, <2>3 DEF IInv, TypeOK
\* What was planned: nothing, or the wake and the push of the next run.
<1>11. \/ /\ UNCHANGED events /\ jobs'[j] # "on"
          /\ j \in DeleteAfterRun \/ Upcoming(j, now) = {}
       \/ /\ UNCHANGED <<jobs, store>>
          /\ \E q \in Runs :
                /\ q[1] = j /\ q[2] > now /\ \A t \in Upcoming(j, now) : q[2] <= t
                /\ events' = events \cup {WakeOf(q, seq + 1), PushOf(q, seq + 2)}
  <2>1. CASE j \in DeleteAfterRun \/ Upcoming(j, now) = {}
    BY <1>1, <1>2, <1>4, <2>1 DEF AfterPush, IInv, TypeOK
  <2>2. CASE j \notin DeleteAfterRun /\ Upcoming(j, now) # {}
    <3>1. {j} \in SUBSET Jobs
      BY <1>1
    <3>2. PICK q \in NextRuns({j}, now) : q[1] = j /\ \A t \in Upcoming(j, now) : q[2] <= t
      BY <1>1, <2>2, <3>1, NextRunExists
    <3>3. \A p \in NextRuns({j}, now) : p \in Runs /\ p[1] \in {j} /\ p[2] > now /\ (p[1] = q[1] => p = q)
      BY <1>1, <3>1, NextRunFacts
    <3>4. NextRuns({j}, now) = {q}
      BY <3>2, <3>3
    <3>5. /\ UNCHANGED <<jobs, store>>
          /\ events' = events \cup {WakeOf(q, seq + 1), PushOf(q, seq + 2)}
      BY <1>2, <2>2, <3>4 DEF AfterPush, fileVars
    <3> QED
      BY <3>2, <3>3, <3>5
  <2> QED
    BY <2>1, <2>2
<1>12. /\ \A i \in Jobs : i # j => jobs'[i] = jobs[i] /\ store'[i] = store[i]
       /\ \A i \in Jobs : jobs'[i] = "on" => jobs[i] = "on"
  BY <1>1, <1>2 DEF AfterPush, Write, fileVars, IInv, TypeOK
<1>13. \A i \in Jobs : jobs'[i] = "on" => store'[i] = "on"
  BY <1>11, <1>12 DEF Alone, OfEnabled
<1>14. Timely' /\ NotStarted'
  BY <1>2 DEF Timely, NotStarted
<1>15. disturbed \subseteq disturbed' /\ UNCHANGED starts
  BY <1>2
<1>16. \A q \in Runs : q # r => (notes'[q] = 0 <=> notes[q] = 0)
  BY <1>8
<1>17. \A q \in Runs : notes'[q] <= 1 /\ (notes'[q] > 0 => q[2] <= now)
  BY <1>3, <1>8, <1>9 DEF Alone, Announced
<1>18. \A e \in events : e.kind = "push" => notes'[e.run] = 0
  <2>1. \A e \in events : e.kind = "push" => e.run \in Runs /\ e.run # r
    BY <1>1, <1>6, EventFacts
  <2> QED
    BY <1>16, <2>1 DEF Alone, Announced
\* Occurrences: that of the push, those that passed, and those ahead.
<1>19. ASSUME NEW i \in FirstJobs \ DeleteAfterRun, NEW t \in Schedule[i], t > 0,
              i = j /\ t > now => Ahead(i, t)', events \subseteq events'
       PROVE  (Delivered(<<i, t>>) \/ <<i, t>> \in disturbed \/ Lost(i, t) \/ Ahead(i, t))'
  <2>1. <<i, t>> \in Runs /\ t \in Int
    BY JobsAssumption, ScheduleAssumption, TimeAssumption DEF Runs, Times
  <2>2. CASE Delivered(<<i, t>>)
    BY <1>8, <2>1, <2>2 DEF Delivered
  <2>3. CASE <<i, t>> \in disturbed
    BY <1>15, <2>3
  <2>4. CASE \E e \in events : e.kind = "push" /\ e.run[1] = i /\ e.run[2] <= t
    BY <1>19, <2>4 DEF Ahead
  <2>5. CASE InHand(i) /\ r[2] <= t
    <3>1. i = j
      BY <1>7, <2>5
    <3>2. CASE t = r[2]
      <4>1. <<i, t>> = r
        BY <1>1, <3>1, <3>2 DEF Runs
      <4> QED
        BY <1>10, <4>1
    <3>3. CASE r[2] < t /\ t <= now
      BY <1>1, <1>2, <2>1, <3>1, <3>3 DEF PassedSince
    <3>4. CASE t > now
      BY <1>19, <3>1, <3>4
    <3> QED
      BY <1>1, <2>1, <2>5, <3>2, <3>3, <3>4
  <2>6. CASE Lost(i, t)
    BY <1>2, <1>22, <2>6 DEF Lost
  <2> QED
    BY <1>0, <1>2, <1>19, <2>2, <2>3, <2>4, <2>5, <2>6 DEF Alone, Accounted, Ahead
\* The two cases.
<1>20. CASE UNCHANGED events /\ jobs'[j] # "on" /\ (j \in DeleteAfterRun \/ Upcoming(j, now) = {})
  <2>1. (Genuine /\ Single /\ Paired)'
    BY <1>5, <1>20, <1>22 DEF Alone, Genuine, Single, Paired
  <2>2. OfEnabled'
    <3>1. \A e \in events : e.kind = "push" => e.run[1] \in Jobs /\ e.run[1] # j
      BY <1>6, EventFacts
    <3> QED
      BY <1>5, <1>12, <1>13, <1>20, <1>22, <3>1 DEF Alone, OfEnabled
  <2>3. Started'
    BY <1>2, <1>15, <1>20 DEF Alone, Started
  <2>4. Announced'
    BY <1>2, <1>17, <1>18, <1>20 DEF Announced
  <2>5. Accounted'
    <3>1. \A i \in FirstJobs \ DeleteAfterRun : \A t \in Schedule[i] : ~(i = j /\ t > now)
      BY <1>20 DEF Upcoming
    <3> QED
      BY <1>2, <1>19, <1>20, <1>22, <3>1 DEF Alone, Accounted
  <2> QED
    BY <1>14, <2>1, <2>2, <2>3, <2>4, <2>5 DEF Alone
<1>21. ASSUME NEW q \in Runs, q[1] = j, q[2] > now, \A t \in Upcoming(j, now) : q[2] <= t,
              events' = events \cup {WakeOf(q, seq + 1), PushOf(q, seq + 2)}, UNCHANGED <<jobs, store>>
       PROVE  Alone'
  <2> DEFINE w == WakeOf(q, seq + 1)
             p == PushOf(q, seq + 2)
  <2>1. /\ w.kind = "wake" /\ w.run = q /\ w.n = seq + 1 /\ w = WakeOf(w.run, w.n)
        /\ p.kind = "push" /\ p.run = q /\ p.n = seq + 2 /\ p = PushOf(p.run, p.n)
        /\ w.n < p.n
    BY <1>1 DEF WakeOf, PushOf
  <2>2. events' = events \cup {w, p}
    BY <1>21
  <2> HIDE DEF w, p
  <2>3. Genuine'
    BY <2>1, <2>2 DEF Alone, Genuine
  <2>4. Single'
    BY <1>5, <1>6, <1>21, <1>22, <2>1, <2>2 DEF Alone, Single
  <2>5. Paired'
    BY <2>1, <2>2 DEF Alone, Paired
  <2>6. OfEnabled'
    BY <1>4, <1>5, <1>13, <1>21, <1>22, <2>1, <2>2 DEF Alone, OfEnabled
  <2>7. Started'
    <3>1. starts[q] = 0 \/ q \in disturbed
      <4>1. ~ \E e \in events : e.kind = "push" /\ e.run = q
        BY <1>6, <1>21
      <4>2. starts[q] \in Nat
        BY DEF IInv, TypeOK
      <4> QED
        BY <1>21, <4>1, <4>2 DEF Alone, Started
    <3> QED
      BY <1>2, <1>15, <2>1, <2>2, <3>1 DEF Alone, Started
  <2>8. Announced'
    <3>1. q # r /\ notes'[q] = 0
      <4>1. q[2] \in Int
        BY TimeAssumption DEF Runs, Times
      <4>2. ~(q[2] <= now)
        BY <1>1, <1>21, <4>1
      <4> QED
        BY <1>3, <1>8, <1>17, <4>2
    <3> QED
      BY <1>2, <1>17, <1>18, <2>1, <2>2, <3>1 DEF Announced
  <2>9. Accounted'
    <3>1. \A t \in Schedule[j] : t > now => Ahead(j, t)'
      BY <1>21, <2>1, <2>2 DEF Upcoming, Ahead
    <3> QED
      BY <1>2, <1>19, <1>22, <2>2, <3>1 DEF Alone, Accounted
  <2> QED
    BY <1>14, <2>3, <2>4, <2>5, <2>6, <2>7, <2>8, <2>9 DEF Alone
<1> QED
  BY <1>11, <1>20, <1>21

\* A push that raises loses its occurrence and strands its job; a push_update
\* that raises changes nothing here.
LEMMA AlonePushRaises == ASSUME IInv, Alone, edits = 0, PushRaises PROVE Alone'
<1>0. PICK r \in Runs, j \in Jobs : r = ev.run /\ j = r[1]
  BY DEF PushRaises, IInv, Held, Event, Runs
<1>1. /\ pc = "pushing" /\ pc' = "error" /\ ~reloading'
      /\ UNCHANGED <<now, store, jobs, events, seq, disturbed, starts, notes, results, task>>
      /\ raised' = raised \cup {r}
      /\ stranded' = IF ev.kind = "push" THEN stranded \cup {r} ELSE stranded
  BY <1>0 DEF PushRaises, fileVars, planVars, runVars
<1>2. \A i : ~InHand(i)' /\ (Stranded(i)' <=> Stranded(i) \/ InHand(i)) /\ (InHand(i) => i = j)
  BY <1>0, <1>1 DEF InHand, Stranded
<1>3. (Genuine /\ Paired /\ Timely /\ Started /\ Announced /\ NotStarted)'
  BY <1>1 DEF Alone, Genuine, Paired, Timely, Started, Announced, NotStarted
<1>4. Single'
  BY <1>1, <1>2 DEF Alone, Single
<1>5. OfEnabled'
  BY <1>1, <1>2 DEF Alone, OfEnabled
<1>6. Accounted'
  <2>1. \A i, t : Ahead(i, t) => Ahead(i, t)' \/ Lost(i, t)'
    BY <1>0, <1>1, <1>2 DEF Ahead, InHand, Lost
  <2>2. \A i, t : Lost(i, t) => Lost(i, t)'
    BY <1>1 DEF Lost
  <2>3. \A q : Delivered(q)' <=> Delivered(q)
    BY <1>1 DEF Delivered
  <2> QED
    BY <1>1, <2>1, <2>2, <2>3 DEF Alone, Accounted
<1> QED
  BY <1>3, <1>4, <1>5, <1>6 DEF Alone

\* An agent that ends adds push_updates, which are due.
LEMMA AloneAgentEnds ==
    ASSUME IInv, QInv, Alone, edits = 0,
           NEW r \in Runs, NEW answered \in BOOLEAN, AgentEnds(r, answered)
    PROVE  Alone'
<1> DEFINE n == FinallyUpdates(r, answered \/ r \in text)
           U == {[at |-> now, n |-> i, kind |-> "push_update", run |-> r] : i \in seq + 1 .. seq + n}
<1>1. n \in Nat /\ seq \in Nat /\ now \in Int
  BY DEF FinallyUpdates, IInv, TypeOK
<1>2. /\ events' = events \cup U /\ ~reloading /\ task[r] = "active"
      /\ reloadEvent' = (reloadEvent \/ n > 0)
      /\ UNCHANGED <<now, store, jobs, pc, ev, sending, own, reloading, final, starts, notes, results,
                     disturbed, raised, stranded>>
  BY DEF AgentEnds, Yielded, fileVars, loopVars, mishapVars
<1>3. \A e \in U : ~Planning(e) /\ e.at = now /\ e.n \in Int /\ e.n > seq /\ n > 0
  BY <1>1 DEF Planning
<1>4. pc # "down"
  BY <1>2 DEF Alone, NotStarted
<1> HIDE DEF U, n
<1>5. \A e \in U : e.kind # "push" /\ e.kind # "wake"
  BY DEF U
<1>6. \A i : (InHand(i)' <=> InHand(i)) /\ (Stranded(i)' <=> Stranded(i))
  BY <1>2 DEF InHand, Stranded
<1>7. (Genuine /\ Paired /\ Started /\ Announced /\ NotStarted)'
  BY <1>2, <1>4, <1>5 DEF Alone, Genuine, Paired, Started, Announced, NotStarted
<1>8. (Single /\ OfEnabled)'
  BY <1>2, <1>5, <1>6 DEF Alone, Single, OfEnabled
<1>9. Timely'
  <2>1. pc = "sleeping" => reloadEvent' \/ \A e \in events' : Planning(e)
    BY <1>2, <1>3 DEF Alone, Timely
  <2>2. pc = "timedout" => \A e \in events' : ~Planning(e) => e.at = now /\ ev.n < e.n
    <3>1. pc = "timedout" => ev.n \in Int /\ ev.n <= seq
      BY <1>1 DEF Alone, Timely, QInv, Numbered
    <3>2. pc = "timedout" => \A e \in U : ev.n < e.n
      BY <1>1, <1>3, <3>1
    <3> QED
      BY <1>2, <1>3, <3>2 DEF Alone, Timely
  <2> QED
    BY <1>2, <1>3, <2>1, <2>2 DEF Alone, Timely, Planning, Before
<1>10. Accounted'
  <2>1. \A i, t : Ahead(i, t) => Ahead(i, t)'
    BY <1>2, <1>6 DEF Ahead
  <2>2. \A q : Delivered(q)' <=> Delivered(q)
    BY <1>2 DEF Delivered
  <2>3. \A i, t : Lost(i, t)' <=> Lost(i, t)
    BY <1>2 DEF Lost
  <2> QED
    BY <1>2, <2>1, <2>2, <2>3 DEF Alone, Accounted
<1> QED
  BY <1>7, <1>8, <1>9, <1>10 DEF Alone

LEMMA InitAlone == Init => AloneInv
<1> SUFFICES ASSUME Init PROVE Alone
  BY DEF AloneInv
<1>1. pc = "down" /\ events = {} /\ ~reloading /\ now = 0 /\ stranded = {}
      /\ \A r \in Runs : task[r] = "none" /\ starts[r] = 0 /\ notes[r] = 0
  BY DEF Init
<1>2. \A j \in Jobs : jobs[j] # "on"
  BY DEF Init
<1>3. Genuine /\ Single /\ Paired /\ Timely
  BY <1>1 DEF Genuine, Single, Paired, Timely, InHand, Stranded, Init
<1>4. OfEnabled
  BY <1>1, <1>2 DEF OfEnabled, InHand, Stranded
<1>5. Started /\ Announced
  BY <1>1 DEF Started, Announced
<1>6. NotStarted
  BY <1>1, JobsAssumption DEF NotStarted, Init
<1>7. Accounted
  BY <1>1 DEF Accounted
<1> QED
  BY <1>3, <1>4, <1>5, <1>6, <1>7 DEF Alone

LEMMA NextAlone == ASSUME IInv, QInv, AloneInv, [Next]_vars PROVE AloneInv'
<1> SUFFICES ASSUME edits' = 0 PROVE Alone'
  BY DEF AloneInv
<1>1. edits \in Nat /\ edits + 1 # 0
  BY AllowedAssumption DEF IInv, TypeOK
<1>2. CASE Restart \/ \E j \in Edited : Controller(j) \/ External(j) \/ RunNow(j)
  BY <1>1, <1>2 DEF Restart, Controller, External, RunNow
<1>3. CASE Wait \/ Woken \/ PollAgain \/ RecoverFromError \/ SyncStoreMtime \/ Tick
  <2>1. edits = 0
    BY <1>3 DEF Wait, Woken, PollAgain, RecoverFromError, SyncStoreMtime, Tick
  <2> QED
    BY <1>3, <2>1, AloneWait DEF AloneInv
<1>4. CASE Start \/ CheckStoreChanged
  <2>1. edits = 0
    BY <1>4 DEF Start, CheckStoreChanged
  <2> QED
    BY <1>4, <2>1, AloneReload DEF AloneInv
<1>5. CASE HandleDue
  <2>1. PICK e \in events : IsHead(e, events) /\ Due(e) /\ events' = events \ {e} /\ Handle(e)
    BY <1>5 DEF HandleDue
  <2>2. /\ pc = "top" /\ ~reloading /\ edits = 0
        /\ UNCHANGED <<now, fileVars, jobs, seq, reloading, disturbed, mishapVars>>
    BY <1>5 DEF HandleDue
  <2> QED
    BY <2>1, <2>2, AloneHandle DEF AloneInv
<1>6. CASE TimerDue
  BY <1>6, AloneTimerDue DEF AloneInv, TimerDue
<1>7. CASE PushDone \/ PushRaises
  BY <1>7, AlonePushDone, AloneUpdateDone, AlonePushRaises DEF AloneInv, PushDone, PushRaises
<1>8. ASSUME NEW r \in Runs, Answers(r) \/ Fails(r) PROVE Alone'
  <2>1. PICK answered \in BOOLEAN : AgentEnds(r, answered)
    BY <1>8 DEF Answers, Fails
  <2>2. edits = 0
    BY <2>1 DEF AgentEnds
  <2> QED
    BY <2>1, <2>2, AloneAgentEnds DEF AloneInv
<1>9. CASE UNCHANGED vars
  <2>1. \A j, t : (InHand(j)' <=> InHand(j)) /\ (Ahead(j, t)' <=> Ahead(j, t))
    BY <1>9 DEF vars, InHand, Ahead
  <2>2. \A j, t : (Stranded(j)' <=> Stranded(j)) /\ (Lost(j, t)' <=> Lost(j, t))
    BY <1>9 DEF vars, Stranded, Lost
  <2> QED
    BY <1>9, <2>1, <2>2 DEF vars, AloneInv, Alone, Genuine, Single, Paired, OfEnabled, Timely, Started,
       Announced, NotStarted, Accounted, Delivered, Before, Planning
<1> QED
  BY <1>2, <1>3, <1>4, <1>5, <1>6, <1>7, <1>8, <1>9 DEF Next, LoopStep

\* While nobody interferes, no agent is started twice for an occurrence and
\* no placeholder is sent twice, unless a reload came in between.
THEOREM StartedOnce == Spec => []UndisturbedOnce
<1>1. IInv /\ QInv /\ [Next]_vars => QInv'
  BY NextQ
<1>2. IInv /\ QInv /\ AloneInv /\ [Next]_vars => AloneInv'
  BY NextAlone
<1>3. AloneInv => UndisturbedOnce
  BY DEF AloneInv, Alone, Started, Announced, UndisturbedOnce
<1> QED
  BY <1>1, <1>2, <1>3, InitQ, InitAlone, Invariance, PTL DEF Spec

\* While nobody interferes, no occurrence of a recurring job is skipped but
\* by a reload that finds its push due, by a push that takes time, or by one
\* that raises, which loses its own and those until the next reload.
THEOREM DeliveredOnTime == Spec => []UndisturbedDelivered
<1>1. IInv /\ QInv /\ [Next]_vars => QInv'
  BY NextQ
<1>2. IInv /\ QInv /\ AloneInv /\ [Next]_vars => AloneInv'
  BY NextAlone
<1>3. IInv /\ QInv /\ AloneInv => UndisturbedDelivered
  <2> SUFFICES ASSUME IInv, Alone, pc \in {"idle", "sleeping"},
                      NEW j \in FirstJobs \ DeleteAfterRun, NEW p \in Schedule[j], 0 < p, p <= now
               PROVE  Delivered(<<j, p>>) \/ <<j, p>> \in disturbed \/ Lost(j, p)
    BY DEF AloneInv, UndisturbedDelivered, Delivered, Lost
  <2>1. p \in Int
    BY JobsAssumption, ScheduleAssumption, TimeAssumption DEF Times
  <2>2. ASSUME Ahead(j, p) PROVE FALSE
    <3>1. PICK e \in events : e.kind = "push" /\ e.run[2] <= p
      BY <2>2 DEF Ahead, InHand
    <3>2. e.at = e.run[2] /\ e.at > now /\ e.at \in Int /\ now \in Int
      BY <3>1, EventFacts DEF Alone, Timely, Planning
    <3> QED
      BY <2>1, <3>1, <3>2
  <2> QED
    BY <2>1, <2>2 DEF Alone, Accounted
<1> QED
  BY <1>1, <1>2, <1>3, InitQ, InitAlone, Invariance, PTL DEF Spec
=============================================================================
