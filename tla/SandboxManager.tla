--------------------------- MODULE SandboxManager ---------------------------
(***************************************************************************)
(* The sandboxes of jiuwenbox: SandboxManager                              *)
(* (server/sandbox_manager.py) with the ProcessRuntime it drives           *)
(* (server/runtime/process.py).                                            *)
(*                                                                         *)
(* The manager keeps one entry per sandbox under one lock.  start, stop    *)
(* and restart hold the lock while the runtime works; create and delete    *)
(* release it, so that sandboxes can be created and deleted side by side.  *)
(* The runtime has no lock: what it keeps under a sandbox id is read and   *)
(* written by whichever call resumes.  One action is what the event loop   *)
(* runs between two suspensions.                                           *)
(***************************************************************************)
EXTENDS Integers, FiniteSets

CONSTANTS
    Sandboxes,      \* sandbox ids; create_sandbox takes one never used before
    Ops,            \* concurrent calls of the manager's methods
    Procs,          \* the operating system processes that may be spawned
    Workload,       \* the kinds of calls that clients make for a sandbox
    Permits,        \* _exec_concurrency_limit: commands that may run at a time
    MaxRules,       \* bound: failed starts stop adding to the rule count here
    Nil             \* Python's None

Kinds == {"create", "start", "restart", "stop", "delete", "exec", "transfer", "background"}

ASSUME WorkloadAssumption == Workload \in [Sandboxes -> SUBSET Kinds]
ASSUME PermitsAssumption == Permits \in Nat \ {0}
ASSUME MaxRulesAssumption == MaxRules \in Nat
ASSUME NilAssumption == Nil \notin Sandboxes \cup Procs \cup Ops

VARIABLES
    lock,           \* the call that holds SandboxManager._lock across an await
    box,            \* what manager and runtime keep about a sandbox
    rules,          \* _host_firewall_refcounts of the port protected from sandboxes
    proc,           \* the processes and the sandbox each was spawned for
    op,             \* the calls in progress
    excuse          \* history: the races a sandbox has been through

vars == <<lock, box, rules, proc, op, excuse>>

Life == {"unborn", "PROVISIONING", "READY", "STOPPED", "ERROR", "DELETING", "gone"}

\* life: the phase of the entry in _sandboxes.  reg: _processes[id].  ready:
\* _daemon_socket_ready[id].  dirs: the namespace, policy and directories
\* cached for the id.  fw: _sandbox_host_firewall_rules[id] and the cgroup.
\* bg: _background_processes[id].
Box == [life : Life, reg : Procs \cup {Nil}, ready : BOOLEAN,
        dirs : BOOLEAN, fw : BOOLEAN, bg : SUBSET Procs]

Idle == [kind |-> "none", at |-> "idle", on |-> Nil, mine |-> Nil,
         victims |-> {}, todo |-> {}]
Call(k, s) == [Idle EXCEPT !.kind = k, !.on = s]

\* The calls that keep the lock to their end, and those that delete.
Holders == {"start", "restart", "stop"}
Deleters == {"delete", "shutdown"}
\* Where a call is suspended.  grace: in the sleep after the spawn; created,
\* failed, removing, next, retry: waiting for the lock; killing, waiting: in
\* runtime.stop, for background processes or the daemon to exit; gate: for
\* a permit to run a command, without the lock; call: for the daemon's answer;
\* bgrace: in the sleep of exec_background.
Points == {"idle", "grace", "created", "failed", "killing", "waiting", "removing",
           "next", "gate", "call", "retry", "bgrace"}
Op == [kind : Kinds \cup {"none", "shutdown"},
       at : Points, on : Sandboxes \cup {Nil}, mine : Procs \cup {Nil},
       victims : SUBSET Procs, todo : SUBSET Sandboxes]

\* mixed: a daemon was started while a creation or deletion was in progress.
\* late: a background command came up during or after the deletion.
\* stuck: a background process outlived its SIGKILL by five seconds.
Excuses == {"mixed", "late", "stuck"}

TypeOK ==
    /\ lock \in Ops \cup {Nil}
    /\ box \in [Sandboxes -> Box]
    /\ rules \in Nat
    /\ proc \in [Procs -> [st : {"unused", "daemon", "background", "dead"},
                           of : Sandboxes \cup {Nil}]]
    /\ op \in [Ops -> Op]
    /\ excuse \in [Sandboxes -> SUBSET Excuses]

Init ==
    /\ lock = Nil
    /\ box = [s \in Sandboxes |-> [life |-> "unborn", reg |-> Nil, ready |-> FALSE,
                                   dirs |-> FALSE, fw |-> FALSE, bg |-> {}]]
    /\ rules = 0
    /\ proc = [p \in Procs |-> [st |-> "unused", of |-> Nil]]
    /\ op = [o \in Ops |-> Idle]
    /\ excuse = [s \in Sandboxes |-> {}]

-----------------------------------------------------------------------------
(* Helpers.                                                                *)

Alive(p) == p # Nil /\ proc[p].st \in {"daemon", "background"}
Entered(s) == box[s].life \notin {"unborn", "gone"}
Doomed(s) == box[s].life \in {"DELETING", "gone"}
Free(o) == op[o].at = "idle" /\ lock = Nil

Set(s, b) == box' = [box EXCEPT ![s] = b]
Goto(o, r) == op' = [op EXCEPT ![o] = r]
Return(o) == Goto(o, Idle)
Excuse(s, e) == excuse' = [excuse EXCEPT ![s] = @ \cup {e}]

\* _remove_host_firewall_rule: the rule itself goes with the last user.
UnruleAll(b) == IF b.fw THEN 0 ELSE rules
Unrule(b) == IF ~b.fw THEN rules ELSE IF rules <= 1 THEN 0 ELSE rules - 1

\* Another call that works in the runtime of s without the lock.
Busy(s, o, kinds) ==
    \E x \in Ops \ {o} : op[x].on = s /\ op[x].kind \in kinds /\ op[x].at # "next"

-----------------------------------------------------------------------------
(* runtime.create: everything up to the sleep of _wait_daemon_ready.       *)

\* It may raise before the firewall rules are installed, after that, or where
\* it drops what it has prepared.  A process found dead is unregistered.
\* Installing replaces the list of rules the id already has.
LaunchFailures(b, n) ==
    {[box |-> [b EXCEPT !.reg = Nil, !.dirs = TRUE], rules |-> n],
     [box |-> [b EXCEPT !.reg = Nil, !.ready = FALSE, !.dirs = FALSE, !.fw = FALSE],
      rules |-> n]}
    \cup (IF n >= MaxRules THEN {} ELSE
      {[box |-> [b EXCEPT !.reg = Nil, !.dirs = TRUE, !.fw = TRUE], rules |-> n + 1]})

Launch(o, s, b, n, r) ==
    \E p \in Procs :
        /\ proc[p].st = "unused"
        /\ proc' = [proc EXCEPT ![p] = [st |-> "daemon", of |-> s]]
        /\ Set(s, [b EXCEPT !.reg = p, !.ready = FALSE, !.dirs = TRUE, !.fw = TRUE])
        /\ rules' = n + 1
        /\ Goto(o, [r EXCEPT !.at = "grace", !.mine = p, !.victims = {}])

\* _start_sandbox_unlocked.  A live process makes runtime.create raise before
\* it touches anything.
TryStartUnchecked(o, s, b, n, r) ==
    \/ /\ b.life = "READY" /\ Alive(b.reg)
       /\ Set(s, b) /\ rules' = n /\ Return(o) /\ lock' = Nil
       /\ UNCHANGED proc
    \/ /\ Launch(o, s, b, n, r)
       /\ lock' = o
TryStart(o, s, b, n, r) ==
    \/ /\ Alive(b.reg)
       /\ Set(s, [b EXCEPT !.life = IF @ = "READY" THEN @ ELSE "ERROR"])
       /\ rules' = n /\ Return(o) /\ lock' = Nil
       /\ UNCHANGED proc
    \/ /\ ~Alive(b.reg)
       /\ \E f \in LaunchFailures(b, n) :
             Set(s, [f.box EXCEPT !.life = "ERROR"]) /\ rules' = f.rules
       /\ Return(o) /\ lock' = Nil
       /\ UNCHANGED proc
    \/ /\ ~Alive(b.reg)
       /\ Launch(o, s, b, n, r)
       /\ lock' = o

-----------------------------------------------------------------------------
(* runtime.stop and runtime.cleanup.                                       *)

\* The part of cleanup after stop.
CleanKeepsNetwork(b) == [b EXCEPT !.reg = Nil, !.ready = FALSE]
Clean(b) == [b EXCEPT !.reg = Nil, !.ready = FALSE, !.dirs = FALSE]

\* What each caller of stop does when it returns.
AfterStop(o, s, b, n, r) ==
    \/ /\ r.kind = "stop"
       /\ Set(s, [b EXCEPT !.life = "STOPPED"]) /\ rules' = n /\ Return(o) /\ lock' = Nil
       /\ UNCHANGED proc
    \/ /\ r.kind = "restart"
       /\ TryStart(o, s, [b EXCEPT !.life = "STOPPED"], n, r)
    \/ /\ r.kind = "create"
       /\ Set(s, Clean(b)) /\ rules' = n /\ Return(o)
       /\ UNCHANGED <<lock, proc>>
    \/ /\ r.kind \in Deleters
       /\ Set(s, Clean(b)) /\ rules' = n
       /\ Goto(o, [r EXCEPT !.at = "removing", !.mine = Nil, !.victims = {}])
       /\ UNCHANGED <<lock, proc>>

Suspend(o, s, b, r) ==
    /\ Set(s, b) /\ Goto(o, r)
    /\ lock' = IF r.kind \in Holders THEN o ELSE lock
    /\ UNCHANGED <<rules, proc>>

\* The daemon: nothing to stop, or shutdown, SIGTERM, SIGKILL and a wait.
StopDaemon(o, s, b, r) ==
    \/ /\ Alive(b.reg)
       /\ Suspend(o, s, b, [r EXCEPT !.at = "waiting", !.mine = b.reg, !.victims = {}])
    \/ /\ ~Alive(b.reg)
       /\ AfterStop(o, s, [b EXCEPT !.reg = Nil, !.fw = FALSE], Unrule(b), r)

\* First the background processes: their list is taken, those alive are killed.
Stop(o, s, b, r) ==
    LET victims == {q \in b.bg : Alive(q)} IN
    \/ /\ victims # {}
       /\ Suspend(o, s, [b EXCEPT !.bg = {}], [r EXCEPT !.at = "killing", !.victims = victims])
    \/ /\ victims = {}
       /\ StopDaemon(o, s, [b EXCEPT !.bg = {}], r)

VictimsGone(o) ==
    /\ op[o].at = "killing"
    /\ \A q \in op[o].victims : ~Alive(q)
    /\ StopDaemon(o, op[o].on, box[op[o].on], op[o])
    /\ UNCHANGED excuse

\* The process stop waited for is gone; whatever is registered is dropped.
WaitEnds(o) ==
    LET s == op[o].on  b == box[s] IN
    /\ op[o].at = "waiting" /\ ~Alive(op[o].mine)
    /\ AfterStop(o, s, [b EXCEPT !.reg = Nil, !.ready = FALSE, !.fw = FALSE], Unrule(b), op[o])
    /\ UNCHANGED excuse

\* A process outlives SIGKILL by five seconds: TimeoutExpired leaves stop.
GivesUpLocked(o) ==
    /\ op[o].at = "waiting" /\ Alive(op[o].mine)
    /\ Return(o)
    /\ UNCHANGED <<lock, box, rules, proc, excuse>>
GivesUp(o) ==
    LET r == op[o] IN
    /\ \/ /\ r.at = "killing" /\ \E q \in r.victims : Alive(q)
          /\ Excuse(r.on, "stuck")
       \/ /\ r.at = "waiting" /\ Alive(r.mine)
          /\ UNCHANGED excuse
    /\ lock' = IF r.kind \in Holders THEN Nil ELSE lock
    /\ Goto(o, CASE r.kind = "create" -> [Call("create", r.on) EXCEPT !.at = "failed"]
                 [] r.kind = "shutdown" ->
                      [Idle EXCEPT !.kind = "shutdown", !.at = "next", !.todo = r.todo]
                 [] OTHER -> Idle)
    /\ UNCHANGED <<box, rules, proc>>

-----------------------------------------------------------------------------
(* The methods of SandboxManager.                                          *)

\* create_sandbox up to the first suspension.
Create(o, s) ==
    LET b == [box[s] EXCEPT !.life = "PROVISIONING"] IN
    /\ Free(o)
    /\ box[s].life = "unborn"
    /\ \/ Launch(o, s, b, rules, Call("create", s))
       \/ /\ \E f \in LaunchFailures(b, rules) : Set(s, f.box) /\ rules' = f.rules
          /\ Goto(o, [Call("create", s) EXCEPT !.at = "failed"])
          /\ UNCHANGED proc
    /\ UNCHANGED <<lock, excuse>>

\* _verify_daemon_alive, then what create_sandbox or _start_sandbox_unlocked
\* do with the outcome.  A dead daemon takes along what is kept under the id.
GraceEnds(o) ==
    LET r == op[o]  s == r.on  b == box[s]
        up == [b EXCEPT !.ready = TRUE]
        down == [b EXCEPT !.reg = Nil, !.ready = FALSE, !.dirs = FALSE, !.fw = FALSE] IN
    /\ r.at = "grace"
    /\ IF r.kind = "create"
       THEN /\ Set(s, IF Alive(r.mine) THEN up ELSE down)
            /\ Goto(o, [r EXCEPT !.at = IF Alive(r.mine) THEN "created" ELSE "failed", !.mine = Nil])
            /\ UNCHANGED lock
       ELSE /\ Set(s, IF Alive(r.mine) THEN [up EXCEPT !.life = "READY"]
                                       ELSE [down EXCEPT !.life = "ERROR"])
            /\ Return(o)
            /\ lock' = Nil
    /\ rules' = IF Alive(r.mine) THEN rules ELSE Unrule(b)
    /\ UNCHANGED <<proc, excuse>>

\* create_sandbox when the runtime is up: the entry may be gone or going.
CreateCommits(o) ==
    LET r == op[o]  s == r.on IN
    /\ r.at = "created" /\ lock = Nil
    /\ \/ /\ ~Doomed(s)
          /\ Set(s, [box[s] EXCEPT !.life = "READY"])
          /\ Return(o)
          /\ UNCHANGED <<lock, rules, proc>>
       \/ /\ Doomed(s)
          /\ Stop(o, s, box[s], r)
    /\ UNCHANGED excuse

CreateFails(o) ==
    LET s == op[o].on IN
    /\ op[o].at = "failed" /\ lock = Nil
    /\ Set(s, [box[s] EXCEPT !.life = IF Doomed(s) THEN @ ELSE "ERROR"])
    /\ Return(o)
    /\ UNCHANGED <<lock, rules, proc, excuse>>

\* What the history remembers of a start, stop or restart.
Remember(o, s, k) ==
    excuse' = [excuse EXCEPT ![s] = @ \cup
        IF k # "stop" /\ Busy(s, o, {"create"} \cup Deleters) THEN {"mixed"} ELSE {}]

\* start_sandbox, stop_sandbox and restart_sandbox look at no phase but READY.
StartSandbox(o, s) ==
    /\ Free(o) /\ Entered(s)
    /\ TryStart(o, s, box[s], rules, Call("start", s))
    /\ Remember(o, s, "start")

StopSandbox(o, s, k) ==
    /\ Free(o) /\ Entered(s)
    /\ Stop(o, s, box[s], Call(k, s))
    /\ Remember(o, s, k)

\* delete_sandbox up to its first suspension, and its end.
DeleteSandbox(o, s) ==
    /\ Free(o) /\ Entered(s)
    /\ Stop(o, s, [box[s] EXCEPT !.life = "DELETING"], Call("delete", s))
    /\ UNCHANGED excuse

Removed(o) ==
    LET r == op[o] IN
    /\ r.at = "removing" /\ lock = Nil
    /\ Set(r.on, [box[r.on] EXCEPT !.life = "gone"])
    /\ Goto(o, IF r.kind = "delete" THEN Idle
               ELSE [Idle EXCEPT !.kind = "shutdown", !.at = "next", !.todo = r.todo])
    /\ UNCHANGED <<lock, rules, proc, excuse>>

\* shutdown_all_sandboxes: one delete_sandbox after the other, for the ids it
\* has found; one that fails is logged.
Shutdown(o) ==
    LET found == {s \in Sandboxes : Entered(s)} IN
    /\ Free(o) /\ found # {}
    /\ Goto(o, [Idle EXCEPT !.kind = "shutdown", !.at = "next", !.todo = found])
    /\ UNCHANGED <<lock, box, rules, proc, excuse>>

ShutdownNext(o) ==
    LET r == op[o] IN
    /\ r.at = "next" /\ lock = Nil
    /\ \/ /\ \A s \in r.todo : ~Entered(s)
          /\ Return(o)
          /\ UNCHANGED <<lock, box, rules, proc>>
       \/ \E s \in r.todo :
             /\ Entered(s)
             /\ Stop(o, s, [box[s] EXCEPT !.life = "DELETING"],
                     [r EXCEPT !.on = s, !.todo = @ \ {s}])
    /\ UNCHANGED excuse

\* get_sandbox notices that the daemon of a READY sandbox has exited.
GetSandbox(s) ==
    /\ lock = Nil
    /\ box[s].life = "READY" /\ ~Alive(box[s].reg)
    /\ Set(s, [box[s] EXCEPT !.life = "STOPPED"])
    /\ UNCHANGED <<lock, rules, proc, op, excuse>>

-----------------------------------------------------------------------------
(* Work inside a sandbox.                                                  *)

\* _daemon_ipc_available.
Reachable(s) == box[s].ready /\ Alive(box[s].reg) /\ box[s].dirs

\* exec_in_sandbox, which needs a permit first, and the uploads, downloads and
\* listings, which try the daemon without one and the same exec after that.
UseSandbox(o, s, k) ==
    /\ Free(o) /\ box[s].life = "READY"
    /\ Goto(o, CASE k = "exec" -> [Call(k, s) EXCEPT !.at = "gate"]
                 [] k = "transfer" /\ Reachable(s) ->
                      [Call(k, s) EXCEPT !.at = "call", !.mine = box[s].reg]
                 [] OTHER -> [Call(k, s) EXCEPT !.at = "retry"])
    /\ UNCHANGED <<lock, box, rules, proc, excuse>>

\* _exec_semaphore, which all sandboxes share: a permit is held from here to
\* the end of the command.  Whether the daemon can be reached is asked only now.
\* (With a permit free exec does not suspend: that this is then a step of its
\* own adds interleavings, and hides none.)
Running == {o \in Ops : op[o].kind = "exec" /\ op[o].at = "call"}
Admit(o) ==
    LET r == op[o] IN
    /\ r.at = "gate" /\ Cardinality(Running) < Permits
    /\ Goto(o, IF Reachable(r.on) THEN [r EXCEPT !.at = "call", !.mine = box[r.on].reg]
                                  ELSE Idle)
    /\ UNCHANGED <<lock, box, rules, proc, excuse>>

CallAnswered(o) ==
    /\ op[o].at = "call" /\ Alive(op[o].mine)
    /\ Return(o)
    /\ UNCHANGED <<lock, box, rules, proc, excuse>>

\* A failure of the connection, or a timeout.  All but transient ones flag the
\* channel of the id, whichever daemon it now belongs to.
CallFails(o) ==
    LET r == op[o] IN
    /\ r.at = "call"
    /\ \E fatal \in BOOLEAN :
          Set(r.on, [box[r.on] EXCEPT !.ready = @ /\ ~fatal])
    /\ Goto(o, IF r.kind = "transfer" THEN [r EXCEPT !.at = "retry", !.mine = Nil] ELSE Idle)
    /\ UNCHANGED <<lock, rules, proc, excuse>>

\* The shell fallback of a transfer asks for READY again, then does an exec.
Fallback(o) ==
    LET s == op[o].on IN
    /\ op[o].at = "retry" /\ lock = Nil
    /\ Goto(o, IF box[s].life = "READY" THEN [Call("exec", s) EXCEPT !.at = "gate"] ELSE Idle)
    /\ UNCHANGED <<lock, box, rules, proc, excuse>>

\* exec_background: the process is known to the runtime only after a sleep.
RunBackground(o, s) ==
    /\ Free(o) /\ box[s].life = "READY" /\ box[s].dirs
    /\ \E p \in Procs :
          /\ proc[p].st = "unused"
          /\ proc' = [proc EXCEPT ![p] = [st |-> "background", of |-> s]]
          /\ Goto(o, [Call("background", s) EXCEPT !.at = "bgrace", !.mine = p])
    /\ Set(s, [box[s] EXCEPT !.bg = {q \in @ : Alive(q)}])
    /\ UNCHANGED <<lock, rules, excuse>>

BackgroundUp(o) ==
    LET r == op[o]  s == r.on IN
    /\ r.at = "bgrace"
    /\ Set(s, [box[s] EXCEPT !.bg = IF Alive(r.mine) THEN @ \cup {r.mine} ELSE @])
    /\ Return(o)
    /\ IF Alive(r.mine) /\ (box[s].life = "gone" \/ Busy(s, o, {"create"} \cup Deleters))
       THEN Excuse(s, "late")
       ELSE UNCHANGED excuse
    /\ UNCHANGED <<lock, rules, proc>>

\* A process exits, by itself or because it was told to.
Exits(p) ==
    /\ Alive(p)
    /\ proc' = [proc EXCEPT ![p] = [st |-> "dead", of |-> Nil]]
    /\ UNCHANGED <<lock, box, rules, op, excuse>>

-----------------------------------------------------------------------------

Next ==
    \/ \E o \in Ops :
          \/ GraceEnds(o) \/ CreateCommits(o) \/ CreateFails(o)
          \/ VictimsGone(o) \/ WaitEnds(o) \/ GivesUp(o)
          \/ Removed(o) \/ Shutdown(o) \/ ShutdownNext(o)
          \/ Admit(o) \/ CallAnswered(o) \/ CallFails(o) \/ Fallback(o) \/ BackgroundUp(o)
    \/ \E o \in Ops, s \in Sandboxes :
          \/ "create" \in Workload[s] /\ Create(o, s)
          \/ "start" \in Workload[s] /\ StartSandbox(o, s)
          \/ "delete" \in Workload[s] /\ DeleteSandbox(o, s)
          \/ "background" \in Workload[s] /\ RunBackground(o, s)
          \/ \E k \in {"stop", "restart"} \cap Workload[s] : StopSandbox(o, s, k)
          \/ \E k \in {"exec", "transfer"} \cap Workload[s] : UseSandbox(o, s, k)
    \/ \E s \in Sandboxes : GetSandbox(s)
    \/ \E p \in Procs : Exits(p)

Spec == Init /\ [][Next]_vars

\* A process that a call has told to exit, and waits for.
Killed(p) ==
    /\ \E o \in Ops : \/ op[o].at = "killing" /\ p \in op[o].victims
                      \/ op[o].at = "waiting" /\ p = op[o].mine
    /\ Exits(p)

\* The event loop resumes what is ready; asyncio.Lock serves its waiters in order
\* of arrival, and so does asyncio.Semaphore, which strong fairness stands for.
Resume(o) == GraceEnds(o) \/ VictimsGone(o) \/ WaitEnds(o) \/ BackgroundUp(o)
Acquire(o) == CreateCommits(o) \/ CreateFails(o) \/ Removed(o) \/ ShutdownNext(o) \/ Fallback(o)

Fairness ==
    /\ \A o \in Ops : WF_vars(Resume(o)) /\ SF_vars(Acquire(o)) /\ SF_vars(Admit(o))
    /\ \A p \in Procs : WF_vars(Killed(p))

FairSpec == Spec /\ Fairness

-----------------------------------------------------------------------------
(* Properties.                                                             *)

\* Unless a start or restart ran while the sandbox was being created or
\* deleted, every daemon that runs is the one registered for its sandbox, so
\* that stop, delete and shutdown find it.
NoOrphanDaemon ==
    \A s \in Sandboxes : "mixed" \notin excuse[s] =>
        \A p \in Procs : proc[p].st = "daemon" /\ proc[p].of = s => box[s].reg = p

InUse(s) == \E o \in Ops : op[o].on = s

\* A deleted sandbox leaves nothing behind, once the calls that overlapped its
\* deletion have returned: no process, no namespace or directory, no firewall
\* rule.  Excepted are those whose deletion overlapped a start or restart, or
\* during which a background command came up, or outlived its SIGKILL.
GoneIsClean ==
    \A s \in Sandboxes :
        /\ box[s].life = "gone" /\ ~InUse(s)
        /\ excuse[s] = {}
        => /\ box[s].reg = Nil /\ ~box[s].dirs /\ ~box[s].fw
           /\ \A p \in Procs : proc[p].of = s => ~Alive(p)

\* The rule that keeps sandboxes off the server's own port is shared, and there
\* whenever a sandbox that wants it has its daemon registered and running.
RuleWhileRunning ==
    \A s \in Sandboxes : Alive(box[s].reg) => box[s].fw /\ rules > 0

\* No call waits for ever for the lock or for a process, whatever other calls
\* and processes do.  A command in a sandbox may take as long as it likes: it
\* holds up neither these nor transfers through the daemon, only commands and
\* transfers of any sandbox that wait for its permit.
CallsReturn ==
    \A o \in Ops : op[o].at \notin {"idle", "gate", "call"} ~> op[o].at \in {"idle", "gate", "call"}

=============================================================================
