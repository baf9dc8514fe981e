------------------------------ MODULE Instance ------------------------------
(***************************************************************************)
(* Starting, stopping and restarting a named instance                      *)
(* (jiuwenswarm/start_services.py, instance_manager/lock.py and            *)
(* instance_manager/status.py, on Unix).                                   *)
(*                                                                         *)
(* Every command is a process of its own.  One that starts the instance    *)
(* becomes its supervisor: it takes a file lock, spawns the services,      *)
(* writes its process id into the PID file and stays until a service       *)
(* exits or it is interrupted.  A stop reads the PID file, interrupts the  *)
(* supervisor, kills it after two seconds and deletes the file; it takes   *)
(* no lock.  Processes are killed and interrupted at any time.             *)
(***************************************************************************)
EXTENDS Integers

CONSTANTS
    Starts,         \* invocations of --name
    Stops,          \* invocations of --stop
    Restarts,       \* invocations of --restart
    Crashing,       \* commands that something else may kill
    Nil

Commands == Starts \cup Stops \cup Restarts

ASSUME DistinctAssumption ==
    Starts \cap Stops = {} /\ Starts \cap Restarts = {} /\ Stops \cap Restarts = {}
ASSUME NilAssumption == Nil \notin Commands

VARIABLES
    pc,             \* where a command is
    target,         \* the process a stop has read from the PID file
    pidfile,        \* the process the PID file names
    lock,           \* the process that holds .instance.lock
    svc,            \* the services a supervisor has spawned
    forsaken,       \* history: supervisors that could not finish ending their services
    disturbed       \* history: supervisors that wrote the PID file while a stop of
                    \*   an earlier one was about to delete it

vars == <<pc, target, pidfile, lock, svc, forsaken, disturbed>>

Locked == {"spawning", "announcing", "unlinking", "renaming",
           "running", "ending", "awaiting", "releasing"}
Announced == {"running", "ending", "awaiting", "releasing"}
Deleting == {"signalling", "killing", "cleaning", "removing"}
Gone == {"done", "dead"}

TypeOK ==
    /\ pc \in [Commands -> Locked \cup Deleting \cup Gone \cup
                           {"new", "starting", "ports", "locking",
                            "waiting", "leaving", "stopping"}]
    /\ target \in [Commands -> Commands \cup {Nil}]
    /\ \A c \in Commands : pc[c] \in Deleting => target[c] # Nil
    /\ pidfile \in Commands \cup {Nil}
    /\ lock \in Commands \cup {Nil}
    /\ svc \in [Commands -> {"none", "starting", "up", "partial", "asked", "down"}]
    /\ forsaken \subseteq Commands
    /\ disturbed \subseteq Commands

Init ==
    /\ pc = [c \in Commands |-> "new"]
    /\ target = [c \in Commands |-> Nil]
    /\ pidfile = Nil
    /\ lock = Nil
    /\ svc = [c \in Commands |-> "none"]
    /\ forsaken = {}
    /\ disturbed = {}

\* is_process_alive
Alive(c) == c # Nil /\ pc[c] \notin Gone

\* Some service has not ended.  "partial": one of them has.
Up(c) == svc[c] \in {"starting", "up", "partial", "asked"}

Go(c, where) == pc' = [pc EXCEPT ![c] = where]

------------------------------------------------------------------------------
(* Starting.                                                                *)

\* A start refuses if the PID file names a live process.
LookStart(c) ==
    /\ pc[c] = "starting" \/ (pc[c] = "new" /\ c \in Starts)
    /\ Go(c, IF Alive(pidfile) THEN "done" ELSE "ports")
    /\ UNCHANGED <<target, pidfile, lock, svc, forsaken, disturbed>>

\* Or if somebody listens on one of its ports.  When a service has ended or was
\* asked to, the others may or may not listen.
PortsFree(c) ==
    /\ pc[c] = "ports"
    /\ \A d \in Commands : svc[d] # "up"
    /\ Go(c, "locking")
    /\ UNCHANGED <<target, pidfile, lock, svc, forsaken, disturbed>>

PortsTaken(c) ==
    /\ pc[c] = "ports"
    /\ \E d \in Commands : svc[d] \in {"up", "partial", "asked"}
    /\ Go(c, "done")
    /\ UNCHANGED <<target, pidfile, lock, svc, forsaken, disturbed>>

\* flock, tried every 0.1 s.
TryLock(c) ==
    /\ pc[c] \in {"locking", "waiting"}
    /\ lock = Nil
    /\ lock' = c
    /\ Go(c, "spawning")
    /\ UNCHANGED <<target, pidfile, svc, forsaken, disturbed>>

TryFails(c) ==
    /\ pc[c] = "locking"
    /\ lock # Nil
    /\ Go(c, "waiting")
    /\ UNCHANGED <<target, pidfile, lock, svc, forsaken, disturbed>>

\* Faulty: the start goes on without the lock.
GoOnWithout(c) ==
    /\ pc[c] = "waiting"
    /\ Go(c, "spawning")
    /\ UNCHANGED <<target, pidfile, lock, svc, forsaken, disturbed>>

\* After five seconds.
GiveUp(c) ==
    /\ pc[c] = "waiting"
    /\ Go(c, "done")
    /\ UNCHANGED <<target, pidfile, lock, svc, forsaken, disturbed>>

Spawn(c) ==
    /\ pc[c] = "spawning"
    /\ svc' = [svc EXCEPT ![c] = "starting"]
    /\ Go(c, "announcing")
    /\ UNCHANGED <<target, pidfile, lock, forsaken, disturbed>>

\* write_pid_file: an existing file is removed before the new one is renamed.
FindPidFile(c) ==
    /\ pc[c] = "announcing"
    /\ Go(c, IF pidfile = Nil THEN "renaming" ELSE "unlinking")
    /\ UNCHANGED <<target, pidfile, lock, svc, forsaken, disturbed>>

\* If a stop has removed it meanwhile, the start fails.
UnlinkOld(c) ==
    /\ pc[c] = "unlinking"
    /\ Go(c, IF pidfile = Nil THEN "ending" ELSE "renaming")
    /\ pidfile' = Nil
    /\ UNCHANGED <<target, lock, svc, forsaken, disturbed>>

\* A stop that is about to delete the file, whatever it names then.
Interferes(d, c) == pc[d] \in Deleting /\ target[d] # c

RenamePidFile(c) ==
    /\ pc[c] = "renaming"
    /\ pidfile' = c
    /\ Go(c, "running")
    /\ disturbed' = IF \E d \in Commands : Interferes(d, c)
                    THEN disturbed \cup {c} ELSE disturbed
    /\ UNCHANGED <<target, lock, svc, forsaken>>

------------------------------------------------------------------------------
(* The end of a supervisor.                                                 *)

\* A service has exited.
Exited(c) == svc[c] \in {"partial", "down"}

\* Faulty: the supervisor leaves with it.
NoticeAndLeave(c) ==
    /\ pc[c] = "running"
    /\ Exited(c)
    /\ Go(c, "releasing")
    /\ UNCHANGED <<target, pidfile, lock, svc, forsaken, disturbed>>

Notice(c) ==
    /\ pc[c] = "running"
    /\ Exited(c)
    /\ Go(c, "ending")
    /\ UNCHANGED <<target, pidfile, lock, svc, forsaken, disturbed>>

\* Faulty: the lock is released first.
TerminateReleased(c) ==
    /\ pc[c] = "ending"
    /\ svc' = [svc EXCEPT ![c] = IF Up(c) THEN "asked" ELSE svc[c]]
    /\ lock' = Nil
    /\ Go(c, "awaiting")
    /\ UNCHANGED <<target, pidfile, forsaken, disturbed>>

\* _terminate_processes: the services are asked to end.
Terminate(c) ==
    /\ pc[c] = "ending"
    /\ svc' = [svc EXCEPT ![c] = IF Up(c) THEN "asked" ELSE svc[c]]
    /\ Go(c, "awaiting")
    /\ UNCHANGED <<target, pidfile, lock, forsaken, disturbed>>

\* Faulty: they are not awaited; one that does not end is never killed.
EndAtOnce(c) ==
    /\ pc[c] = "awaiting"
    /\ Go(c, "releasing")
    /\ UNCHANGED <<target, pidfile, lock, svc, forsaken, disturbed>>

EndWhenDown(c) ==
    /\ pc[c] = "awaiting"
    /\ svc[c] = "down"
    /\ Go(c, "releasing")
    /\ UNCHANGED <<target, pidfile, lock, svc, forsaken, disturbed>>

\* They end, or are killed after eight seconds.
EndServices(c) ==
    /\ pc[c] = "awaiting"
    /\ svc' = [svc EXCEPT ![c] = IF Up(c) THEN "down" ELSE svc[c]]
    /\ Go(c, "releasing")
    /\ UNCHANGED <<target, pidfile, lock, forsaken, disturbed>>

Release(c) ==
    /\ pc[c] = "releasing"
    /\ lock' = Nil
    /\ Go(c, "leaving")
    /\ UNCHANGED <<target, pidfile, svc, forsaken, disturbed>>

Exit(c) ==
    /\ pc[c] = "leaving"
    /\ Go(c, "done")
    /\ UNCHANGED <<target, pidfile, lock, svc, forsaken, disturbed>>

\* KeyboardInterrupt in process d, by Ctrl-C or SIGTERM.  The finally blocks end the
\* services and release the lock, unless a second one interrupts those.
AfterInterrupt(d) ==
    CASE pc[d] \in {"announcing", "unlinking", "renaming", "running"} -> "ending"
      [] pc[d] \in {"spawning", "ending", "awaiting"} -> "releasing"
      [] OTHER -> "done"

Interrupt(d) ==
    /\ lock' = IF pc[d] = "releasing" THEN Nil ELSE lock
    /\ forsaken' = IF pc[d] \in {"ending", "awaiting"} THEN forsaken \cup {d} ELSE forsaken

UserInterrupts(c) ==
    /\ pc[c] \in Locked
    /\ Interrupt(c)
    /\ Go(c, AfterInterrupt(c))
    /\ UNCHANGED <<target, pidfile, svc, disturbed>>

\* A process that is killed leaves its services and the PID file behind.
Die(d) ==
    /\ lock' = IF lock = d THEN Nil ELSE lock
    /\ forsaken' = forsaken \cup {d}

Crash(c) ==
    /\ c \in Crashing
    /\ pc[c] \in Locked
    /\ Die(c)
    /\ Go(c, "dead")
    /\ UNCHANGED <<target, pidfile, svc, disturbed>>

------------------------------------------------------------------------------
(* Stopping.                                                                *)

AfterStop(c) == IF c \in Restarts THEN "starting" ELSE "done"

\* The command looks whether the instance runs.
LookStop(c) ==
    /\ pc[c] = "new"
    /\ c \in Stops \cup Restarts
    /\ Go(c, IF Alive(pidfile) THEN "stopping" ELSE AfterStop(c))
    /\ UNCHANGED <<target, pidfile, lock, svc, forsaken, disturbed>>

\* stop_instance_process reads the file again.
ReadPid(c) ==
    /\ pc[c] = "stopping"
    /\ target' = [target EXCEPT ![c] = pidfile]
    /\ Go(c, CASE pidfile = Nil -> AfterStop(c)
               [] Alive(pidfile) -> "signalling"
               [] OTHER -> "cleaning")
    /\ UNCHANGED <<pidfile, lock, svc, forsaken, disturbed>>

\* SIGTERM.  If the process has gone, nothing more is sent.
Signal(c) ==
    LET d == target[c] IN
    /\ pc[c] = "signalling"
    /\ IF Alive(d)
       THEN /\ Interrupt(d)
            /\ pc' = [pc EXCEPT ![d] = AfterInterrupt(d), ![c] = "killing"]
       ELSE Go(c, "cleaning") /\ UNCHANGED <<lock, forsaken>>
    /\ UNCHANGED <<target, pidfile, svc, disturbed>>

\* SIGKILL two seconds later, if the process is still there.
KillTarget(c) ==
    LET d == target[c] IN
    /\ pc[c] = "killing"
    /\ IF Alive(d)
       THEN /\ Die(d)
            /\ pc' = [pc EXCEPT ![d] = "dead", ![c] = "cleaning"]
       ELSE Go(c, "cleaning") /\ UNCHANGED <<lock, forsaken>>
    /\ UNCHANGED <<target, pidfile, svc, disturbed>>

\* delete_pid_file
FindOld(c) ==
    /\ pc[c] = "cleaning"
    /\ Go(c, IF pidfile = Nil THEN AfterStop(c) ELSE "removing")
    /\ UNCHANGED <<target, pidfile, lock, svc, forsaken, disturbed>>

\* If the file has gone meanwhile, the command fails.
DeleteOld(c) ==
    /\ pc[c] = "removing"
    /\ Go(c, IF pidfile = Nil THEN "done" ELSE AfterStop(c))
    /\ pidfile' = Nil
    /\ UNCHANGED <<target, lock, svc, forsaken, disturbed>>

------------------------------------------------------------------------------
(* Services.                                                                *)

ServiceListens(c) ==
    /\ svc[c] = "starting"
    /\ svc' = [svc EXCEPT ![c] = "up"]
    /\ UNCHANGED <<pc, target, pidfile, lock, forsaken, disturbed>>

\* By itself, for want of a port, or because it was asked.
ServiceEnds(c) ==
    /\ Up(c)
    /\ svc' = [svc EXCEPT ![c] = IF svc[c] \in {"starting", "up"} THEN "partial" ELSE "down"]
    /\ UNCHANGED <<pc, target, pidfile, lock, forsaken, disturbed>>

------------------------------------------------------------------------------

StartStep(c) ==
    \/ LookStart(c) \/ PortsFree(c) \/ PortsTaken(c) \/ TryLock(c) \/ TryFails(c) \/ GiveUp(c)
    \/ Spawn(c) \/ FindPidFile(c) \/ UnlinkOld(c) \/ RenamePidFile(c)

EndStep(c) == Notice(c) \/ Terminate(c) \/ EndServices(c) \/ Release(c) \/ Exit(c)

StopStep(c) ==
    LookStop(c) \/ ReadPid(c) \/ Signal(c) \/ KillTarget(c) \/ FindOld(c) \/ DeleteOld(c)

Step(c) == StartStep(c) \/ EndStep(c) \/ StopStep(c)

Next ==
    \E c \in Commands :
        Step(c) \/ UserInterrupts(c) \/ Crash(c) \/ ServiceListens(c) \/ ServiceEnds(c)

Spec == Init /\ [][Next]_vars

\* The system runs every process; each waits for a bounded time only.
Fairness == \A c \in Commands : WF_vars(Step(c))

FairSpec == Spec /\ Fairness

------------------------------------------------------------------------------
(* Properties.                                                              *)

\* The services of two supervisors never run at the same time, unless one of the
\* supervisors was killed or interrupted a second time while it ended its services.
ServicesExclusive ==
    \A c, d \in Commands \ forsaken : Up(c) /\ Up(d) => c = d

\* A stop signals and kills nobody but the supervisor that holds the lock, or has
\* released it and is about to exit.
StopsAimAtHolder ==
    \A c \in Commands :
        pc[c] \in {"signalling", "killing"} /\ Alive(target[c]) =>
            lock = target[c] \/ pc[target[c]] = "leaving"

\* A supervisor that runs is named by the PID file, so that --status and --stop find
\* it, unless a stop of an earlier one was about to delete the file.
RunningIsVisible ==
    \A c \in Commands \ disturbed : pc[c] = "running" => pidfile = c

\* When a command has ended, no services of its own run, unless it was killed or
\* interrupted a second time.
NoServicesLeft ==
    \A c \in Commands \ forsaken : pc[c] \in Gone => ~Up(c)

\* Every command ends or becomes the supervisor of the instance, whoever holds the
\* lock and whatever the services do.
CommandsSettle ==
    \A c \in Commands : pc[c] # "new" ~> pc[c] \in Gone \cup {"running"}

=============================================================================
