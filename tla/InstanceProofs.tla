--------------------------- MODULE InstanceProofs ---------------------------
(***************************************************************************)
(* Theorems about the commands of an instance, for any sets of commands:   *)
(* however starts, stops, restarts, interrupts and crashes interleave.     *)
(***************************************************************************)
EXTENDS Instance, TLAPS

------------------------------------------------------------------------------
(* Types.                                                                   *)

LEMMA TypeStep ==
    TypeOK /\ [Next]_vars => TypeOK'
<1> SUFFICES ASSUME TypeOK, [Next]_vars PROVE TypeOK'
  OBVIOUS
<1> USE DEF TypeOK, Go, Alive, Locked, Deleting, Gone, Commands
<1>1. ASSUME NEW c \in Commands, LookStart(c) PROVE TypeOK'
  BY <1>1 DEF LookStart
<1>2. ASSUME NEW c \in Commands, PortsFree(c) PROVE TypeOK'
  BY <1>2 DEF PortsFree
<1>3. ASSUME NEW c \in Commands, PortsTaken(c) PROVE TypeOK'
  BY <1>3 DEF PortsTaken
<1>4. ASSUME NEW c \in Commands, TryLock(c) PROVE TypeOK'
  BY <1>4 DEF TryLock
<1>5. ASSUME NEW c \in Commands, TryFails(c) PROVE TypeOK'
  BY <1>5 DEF TryFails
<1>6. ASSUME NEW c \in Commands, GiveUp(c) PROVE TypeOK'
  BY <1>6 DEF GiveUp
<1>7. ASSUME NEW c \in Commands, Spawn(c) PROVE TypeOK'
  BY <1>7 DEF Spawn
<1>8. ASSUME NEW c \in Commands, FindPidFile(c) PROVE TypeOK'
  BY <1>8 DEF FindPidFile
<1>9. ASSUME NEW c \in Commands, UnlinkOld(c) PROVE TypeOK'
  BY <1>9 DEF UnlinkOld
<1>10. ASSUME NEW c \in Commands, RenamePidFile(c) PROVE TypeOK'
  BY <1>10 DEF RenamePidFile, Interferes
<1>11. ASSUME NEW c \in Commands, Notice(c) PROVE TypeOK'
  BY <1>11 DEF Notice, Exited
<1>12. ASSUME NEW c \in Commands, Terminate(c) PROVE TypeOK'
  BY <1>12 DEF Terminate
<1>13. ASSUME NEW c \in Commands, EndServices(c) PROVE TypeOK'
  BY <1>13 DEF EndServices
<1>14. ASSUME NEW c \in Commands, Release(c) PROVE TypeOK'
  BY <1>14 DEF Release
<1>15. ASSUME NEW c \in Commands, Exit(c) PROVE TypeOK'
  BY <1>15 DEF Exit
<1>16. ASSUME NEW c \in Commands, UserInterrupts(c) PROVE TypeOK'
  BY <1>16 DEF UserInterrupts, Interrupt, AfterInterrupt
<1>17. ASSUME NEW c \in Commands, Crash(c) PROVE TypeOK'
  BY <1>17 DEF Crash, Die
<1>18. ASSUME NEW c \in Commands, LookStop(c) PROVE TypeOK'
  BY <1>18 DEF LookStop, AfterStop
<1>19. ASSUME NEW c \in Commands, ReadPid(c) PROVE TypeOK'
  BY <1>19 DEF ReadPid, AfterStop
<1>20. ASSUME NEW c \in Commands, Signal(c) PROVE TypeOK'
  BY <1>20 DEF Signal, Interrupt, AfterInterrupt
<1>21. ASSUME NEW c \in Commands, KillTarget(c) PROVE TypeOK'
  BY <1>21 DEF KillTarget, Die
<1>22. ASSUME NEW c \in Commands, FindOld(c) PROVE TypeOK'
  BY <1>22 DEF FindOld, AfterStop
<1>23. ASSUME NEW c \in Commands, DeleteOld(c) PROVE TypeOK'
  BY <1>23 DEF DeleteOld, AfterStop
<1>24. ASSUME NEW c \in Commands, ServiceListens(c) PROVE TypeOK'
  BY <1>24 DEF ServiceListens
<1>25. ASSUME NEW c \in Commands, ServiceEnds(c) PROVE TypeOK'
  BY <1>25 DEF ServiceEnds
<1>26. CASE UNCHANGED vars
  BY <1>26 DEF vars
<1> QED
  BY <1>1, <1>2, <1>3, <1>4, <1>5, <1>6, <1>7, <1>8, <1>9, <1>10, <1>11, <1>12, <1>13,
     <1>14, <1>15, <1>16, <1>17, <1>18, <1>19, <1>20, <1>21, <1>22, <1>23, <1>24, <1>25, <1>26
  DEF Next, Step, StartStep, EndStep, StopStep

LEMMA InitType == Init => TypeOK
BY DEF Init, TypeOK, Deleting

\* The variables keep their types, and a stop that deletes has read a process.
THEOREM TypeCorrect == Spec => []TypeOK
BY InitType, TypeStep, PTL DEF Spec

------------------------------------------------------------------------------
(* The PID file.                                                            *)

\* The PID file names a process that has started the instance, and so does what a
\* stop has read; before it deletes the file, that process is dead.
Aim ==
    /\ Alive(pidfile) => pc[pidfile] \in Announced \cup {"leaving"}
    /\ \A x \in Commands : pc[x] \in Deleting /\ Alive(target[x]) =>
           /\ pc[target[x]] \in Announced \cup {"leaving"}
           /\ pc[x] \notin {"cleaning", "removing"}

LEMMA AimStep ==
    TypeOK /\ Aim /\ [Next]_vars => Aim'
<1> SUFFICES ASSUME TypeOK, Aim, [Next]_vars PROVE Aim'
  OBVIOUS
<1> USE NilAssumption DEF TypeOK, Go, Alive, Locked, Deleting, Gone, Aim, Announced
<1>1. ASSUME NEW c \in Commands, LookStart(c) PROVE Aim'
  BY <1>1 DEF LookStart
<1>2. ASSUME NEW c \in Commands, PortsFree(c) PROVE Aim'
  BY <1>2 DEF PortsFree
<1>3. ASSUME NEW c \in Commands, PortsTaken(c) PROVE Aim'
  BY <1>3 DEF PortsTaken
<1>4. ASSUME NEW c \in Commands, TryLock(c) PROVE Aim'
  BY <1>4 DEF TryLock
<1>5. ASSUME NEW c \in Commands, TryFails(c) PROVE Aim'
  BY <1>5 DEF TryFails
<1>6. ASSUME NEW c \in Commands, GiveUp(c) PROVE Aim'
  BY <1>6 DEF GiveUp
<1>7. ASSUME NEW c \in Commands, Spawn(c) PROVE Aim'
  BY <1>7 DEF Spawn
<1>8. ASSUME NEW c \in Commands, FindPidFile(c) PROVE Aim'
  BY <1>8 DEF FindPidFile
<1>9. ASSUME NEW c \in Commands, UnlinkOld(c) PROVE Aim'
  BY <1>9 DEF UnlinkOld
<1>10. ASSUME NEW c \in Commands, RenamePidFile(c) PROVE Aim'
  BY <1>10 DEF RenamePidFile, Interferes
<1>11. ASSUME NEW c \in Commands, Notice(c) PROVE Aim'
  BY <1>11 DEF Notice, Exited
<1>12. ASSUME NEW c \in Commands, Terminate(c) PROVE Aim'
  BY <1>12 DEF Terminate
<1>13. ASSUME NEW c \in Commands, EndServices(c) PROVE Aim'
  BY <1>13 DEF EndServices
<1>14. ASSUME NEW c \in Commands, Release(c) PROVE Aim'
  BY <1>14 DEF Release
<1>15. ASSUME NEW c \in Commands, Exit(c) PROVE Aim'
  BY <1>15 DEF Exit
<1>16. ASSUME NEW c \in Commands, UserInterrupts(c) PROVE Aim'
  BY <1>16 DEF UserInterrupts, Interrupt, AfterInterrupt
<1>17. ASSUME NEW c \in Commands, Crash(c) PROVE Aim'
  BY <1>17 DEF Crash, Die
<1>18. ASSUME NEW c \in Commands, LookStop(c) PROVE Aim'
  BY <1>18 DEF LookStop, AfterStop
<1>19. ASSUME NEW c \in Commands, ReadPid(c) PROVE Aim'
  BY <1>19 DEF ReadPid, AfterStop
<1>20. ASSUME NEW c \in Commands, Signal(c) PROVE Aim'
  BY <1>20 DEF Signal, Interrupt, AfterInterrupt
<1>21. ASSUME NEW c \in Commands, KillTarget(c) PROVE Aim'
  BY <1>21 DEF KillTarget, Die
<1>22. ASSUME NEW c \in Commands, FindOld(c) PROVE Aim'
  BY <1>22 DEF FindOld, AfterStop
<1>23. ASSUME NEW c \in Commands, DeleteOld(c) PROVE Aim'
  BY <1>23 DEF DeleteOld, AfterStop
<1>24. ASSUME NEW c \in Commands, ServiceListens(c) PROVE Aim'
  BY <1>24 DEF ServiceListens
<1>25. ASSUME NEW c \in Commands, ServiceEnds(c) PROVE Aim'
  BY <1>25 DEF ServiceEnds
<1>26. CASE UNCHANGED vars
  BY <1>26 DEF vars
<1> QED
  BY <1>1, <1>2, <1>3, <1>4, <1>5, <1>6, <1>7, <1>8, <1>9, <1>10, <1>11, <1>12, <1>13,
     <1>14, <1>15, <1>16, <1>17, <1>18, <1>19, <1>20, <1>21, <1>22, <1>23, <1>24, <1>25, <1>26
  DEF Next, Step, StartStep, EndStep, StopStep

------------------------------------------------------------------------------
(* The lock.                                                                *)

\* The lock is held by the one command that starts, runs or ends services.
Owner == \A x \in Commands : pc[x] \in Locked <=> lock = x

LEMMA OwnerStep ==
    TypeOK /\ Aim /\ Owner /\ [Next]_vars => Owner'
<1> SUFFICES ASSUME TypeOK, Aim, Owner, [Next]_vars PROVE Owner'
  OBVIOUS
<1> USE NilAssumption DEF TypeOK, Go, Alive, Locked, Deleting, Gone, Owner, Aim, Announced
<1>1. ASSUME NEW c \in Commands, LookStart(c) PROVE Owner'
  BY <1>1 DEF LookStart
<1>2. ASSUME NEW c \in Commands, PortsFree(c) PROVE Owner'
  BY <1>2 DEF PortsFree
<1>3. ASSUME NEW c \in Commands, PortsTaken(c) PROVE Owner'
  BY <1>3 DEF PortsTaken
<1>4. ASSUME NEW c \in Commands, TryLock(c) PROVE Owner'
  BY <1>4 DEF TryLock
<1>5. ASSUME NEW c \in Commands, TryFails(c) PROVE Owner'
  BY <1>5 DEF TryFails
<1>6. ASSUME NEW c \in Commands, GiveUp(c) PROVE Owner'
  BY <1>6 DEF GiveUp
<1>7. ASSUME NEW c \in Commands, Spawn(c) PROVE Owner'
  BY <1>7 DEF Spawn
<1>8. ASSUME NEW c \in Commands, FindPidFile(c) PROVE Owner'
  BY <1>8 DEF FindPidFile
<1>9. ASSUME NEW c \in Commands, UnlinkOld(c) PROVE Owner'
  BY <1>9 DEF UnlinkOld
<1>10. ASSUME NEW c \in Commands, RenamePidFile(c) PROVE Owner'
  BY <1>10 DEF RenamePidFile, Interferes
<1>11. ASSUME NEW c \in Commands, Notice(c) PROVE Owner'
  BY <1>11 DEF Notice, Exited
<1>12. ASSUME NEW c \in Commands, Terminate(c) PROVE Owner'
  BY <1>12 DEF Terminate
<1>13. ASSUME NEW c \in Commands, EndServices(c) PROVE Owner'
  BY <1>13 DEF EndServices
<1>14. ASSUME NEW c \in Commands, Release(c) PROVE Owner'
  BY <1>14 DEF Release
<1>15. ASSUME NEW c \in Commands, Exit(c) PROVE Owner'
  BY <1>15 DEF Exit
<1>16. ASSUME NEW c \in Commands, UserInterrupts(c) PROVE Owner'
  BY <1>16 DEF UserInterrupts, Interrupt, AfterInterrupt
<1>17. ASSUME NEW c \in Commands, Crash(c) PROVE Owner'
  BY <1>17 DEF Crash, Die
<1>18. ASSUME NEW c \in Commands, LookStop(c) PROVE Owner'
  BY <1>18 DEF LookStop, AfterStop
<1>19. ASSUME NEW c \in Commands, ReadPid(c) PROVE Owner'
  BY <1>19 DEF ReadPid, AfterStop
<1>20. ASSUME NEW c \in Commands, Signal(c) PROVE Owner'
  BY <1>20 DEF Signal, Interrupt, AfterInterrupt
<1>21. ASSUME NEW c \in Commands, KillTarget(c) PROVE Owner'
  BY <1>21 DEF KillTarget, Die
<1>22. ASSUME NEW c \in Commands, FindOld(c) PROVE Owner'
  BY <1>22 DEF FindOld, AfterStop
<1>23. ASSUME NEW c \in Commands, DeleteOld(c) PROVE Owner'
  BY <1>23 DEF DeleteOld, AfterStop
<1>24. ASSUME NEW c \in Commands, ServiceListens(c) PROVE Owner'
  BY <1>24 DEF ServiceListens
<1>25. ASSUME NEW c \in Commands, ServiceEnds(c) PROVE Owner'
  BY <1>25 DEF ServiceEnds
<1>26. CASE UNCHANGED vars
  BY <1>26 DEF vars
<1> QED
  BY <1>1, <1>2, <1>3, <1>4, <1>5, <1>6, <1>7, <1>8, <1>9, <1>10, <1>11, <1>12, <1>13,
     <1>14, <1>15, <1>16, <1>17, <1>18, <1>19, <1>20, <1>21, <1>22, <1>23, <1>24, <1>25, <1>26
  DEF Next, Step, StartStep, EndStep, StopStep

\* Services that run belong to the command that holds the lock.
ServicesOwned ==
    \A x \in Commands \ forsaken : Up(x) =>
        pc[x] \in {"announcing", "unlinking", "renaming", "running", "ending", "awaiting"}

LEMMA ServicesOwnedStep ==
    TypeOK /\ Aim /\ Owner /\ ServicesOwned /\ [Next]_vars => ServicesOwned'
<1> SUFFICES ASSUME TypeOK, Aim, Owner, ServicesOwned, [Next]_vars PROVE ServicesOwned'
  OBVIOUS
<1> USE NilAssumption DEF TypeOK, Go, Alive, Locked, Deleting, Gone, Owner, ServicesOwned, Up, Aim, Announced
<1>1. ASSUME NEW c \in Commands, LookStart(c) PROVE ServicesOwned'
  BY <1>1 DEF LookStart
<1>2. ASSUME NEW c \in Commands, PortsFree(c) PROVE ServicesOwned'
  BY <1>2 DEF PortsFree
<1>3. ASSUME NEW c \in Commands, PortsTaken(c) PROVE ServicesOwned'
  BY <1>3 DEF PortsTaken
<1>4. ASSUME NEW c \in Commands, TryLock(c) PROVE ServicesOwned'
  BY <1>4 DEF TryLock
<1>5. ASSUME NEW c \in Commands, TryFails(c) PROVE ServicesOwned'
  BY <1>5 DEF TryFails
<1>6. ASSUME NEW c \in Commands, GiveUp(c) PROVE ServicesOwned'
  BY <1>6 DEF GiveUp
<1>7. ASSUME NEW c \in Commands, Spawn(c) PROVE ServicesOwned'
  BY <1>7 DEF Spawn
<1>8. ASSUME NEW c \in Commands, FindPidFile(c) PROVE ServicesOwned'
  BY <1>8 DEF FindPidFile
<1>9. ASSUME NEW c \in Commands, UnlinkOld(c) PROVE ServicesOwned'
  BY <1>9 DEF UnlinkOld
<1>10. ASSUME NEW c \in Commands, RenamePidFile(c) PROVE ServicesOwned'
  BY <1>10 DEF RenamePidFile, Interferes
<1>11. ASSUME NEW c \in Commands, Notice(c) PROVE ServicesOwned'
  BY <1>11 DEF Notice, Exited
<1>12. ASSUME NEW c \in Commands, Terminate(c) PROVE ServicesOwned'
  BY <1>12 DEF Terminate
<1>13. ASSUME NEW c \in Commands, EndServices(c) PROVE ServicesOwned'
  BY <1>13 DEF EndServices
<1>14. ASSUME NEW c \in Commands, Release(c) PROVE ServicesOwned'
  BY <1>14 DEF Release
<1>15. ASSUME NEW c \in Commands, Exit(c) PROVE ServicesOwned'
  BY <1>15 DEF Exit
<1>16. ASSUME NEW c \in Commands, UserInterrupts(c) PROVE ServicesOwned'
  BY <1>16 DEF UserInterrupts, Interrupt, AfterInterrupt
<1>17. ASSUME NEW c \in Commands, Crash(c) PROVE ServicesOwned'
  BY <1>17 DEF Crash, Die
<1>18. ASSUME NEW c \in Commands, LookStop(c) PROVE ServicesOwned'
  BY <1>18 DEF LookStop, AfterStop
<1>19. ASSUME NEW c \in Commands, ReadPid(c) PROVE ServicesOwned'
  BY <1>19 DEF ReadPid, AfterStop
<1>20. ASSUME NEW c \in Commands, Signal(c) PROVE ServicesOwned'
  BY <1>20 DEF Signal, Interrupt, AfterInterrupt
<1>21. ASSUME NEW c \in Commands, KillTarget(c) PROVE ServicesOwned'
  BY <1>21 DEF KillTarget, Die
<1>22. ASSUME NEW c \in Commands, FindOld(c) PROVE ServicesOwned'
  BY <1>22 DEF FindOld, AfterStop
<1>23. ASSUME NEW c \in Commands, DeleteOld(c) PROVE ServicesOwned'
  BY <1>23 DEF DeleteOld, AfterStop
<1>24. ASSUME NEW c \in Commands, ServiceListens(c) PROVE ServicesOwned'
  BY <1>24 DEF ServiceListens
<1>25. ASSUME NEW c \in Commands, ServiceEnds(c) PROVE ServicesOwned'
  BY <1>25 DEF ServiceEnds
<1>26. CASE UNCHANGED vars
  BY <1>26 DEF vars
<1> QED
  BY <1>1, <1>2, <1>3, <1>4, <1>5, <1>6, <1>7, <1>8, <1>9, <1>10, <1>11, <1>12, <1>13,
     <1>14, <1>15, <1>16, <1>17, <1>18, <1>19, <1>20, <1>21, <1>22, <1>23, <1>24, <1>25, <1>26
  DEF Next, Step, StartStep, EndStep, StopStep

\* A supervisor that runs undisturbed is named by the file, and no stop is about to
\* delete it.
Named ==
    \A x \in Commands \ disturbed : pc[x] = "running" =>
        pidfile = x /\ \A y \in Commands : ~Interferes(y, x)

LEMMA NamedStep ==
    TypeOK /\ Aim /\ Owner /\ Named /\ [Next]_vars => Named'
<1> SUFFICES ASSUME TypeOK, Aim, Owner, Named, [Next]_vars PROVE Named'
  OBVIOUS
<1> USE NilAssumption DEF TypeOK, Go, Alive, Locked, Deleting, Gone, Named, Owner, Aim, Announced, Interferes
<1>1. ASSUME NEW c \in Commands, LookStart(c) PROVE Named'
  BY <1>1 DEF LookStart
<1>2. ASSUME NEW c \in Commands, PortsFree(c) PROVE Named'
  BY <1>2 DEF PortsFree
<1>3. ASSUME NEW c \in Commands, PortsTaken(c) PROVE Named'
  BY <1>3 DEF PortsTaken
<1>4. ASSUME NEW c \in Commands, TryLock(c) PROVE Named'
  BY <1>4 DEF TryLock
<1>5. ASSUME NEW c \in Commands, TryFails(c) PROVE Named'
  BY <1>5 DEF TryFails
<1>6. ASSUME NEW c \in Commands, GiveUp(c) PROVE Named'
  BY <1>6 DEF GiveUp
<1>7. ASSUME NEW c \in Commands, Spawn(c) PROVE Named'
  BY <1>7 DEF Spawn
<1>8. ASSUME NEW c \in Commands, FindPidFile(c) PROVE Named'
  BY <1>8 DEF FindPidFile
<1>9. ASSUME NEW c \in Commands, UnlinkOld(c) PROVE Named'
  BY <1>9 DEF UnlinkOld
<1>10. ASSUME NEW c \in Commands, RenamePidFile(c) PROVE Named'
  BY <1>10 DEF RenamePidFile, Interferes
<1>11. ASSUME NEW c \in Commands, Notice(c) PROVE Named'
  BY <1>11 DEF Notice, Exited
<1>12. ASSUME NEW c \in Commands, Terminate(c) PROVE Named'
  BY <1>12 DEF Terminate
<1>13. ASSUME NEW c \in Commands, EndServices(c) PROVE Named'
  BY <1>13 DEF EndServices
<1>14. ASSUME NEW c \in Commands, Release(c) PROVE Named'
  BY <1>14 DEF Release
<1>15. ASSUME NEW c \in Commands, Exit(c) PROVE Named'
  BY <1>15 DEF Exit
<1>16. ASSUME NEW c \in Commands, UserInterrupts(c) PROVE Named'
  BY <1>16 DEF UserInterrupts, Interrupt, AfterInterrupt
<1>17. ASSUME NEW c \in Commands, Crash(c) PROVE Named'
  BY <1>17 DEF Crash, Die
<1>18. ASSUME NEW c \in Commands, LookStop(c) PROVE Named'
  BY <1>18 DEF LookStop, AfterStop
<1>19. ASSUME NEW c \in Commands, ReadPid(c) PROVE Named'
  BY <1>19 DEF ReadPid, AfterStop
<1>20. ASSUME NEW c \in Commands, Signal(c) PROVE Named'
  BY <1>20 DEF Signal, Interrupt, AfterInterrupt
<1>21. ASSUME NEW c \in Commands, KillTarget(c) PROVE Named'
  BY <1>21 DEF KillTarget, Die
<1>22. ASSUME NEW c \in Commands, FindOld(c) PROVE Named'
  BY <1>22 DEF FindOld, AfterStop
<1>23. ASSUME NEW c \in Commands, DeleteOld(c) PROVE Named'
  BY <1>23 DEF DeleteOld, AfterStop
<1>24. ASSUME NEW c \in Commands, ServiceListens(c) PROVE Named'
  BY <1>24 DEF ServiceListens
<1>25. ASSUME NEW c \in Commands, ServiceEnds(c) PROVE Named'
  BY <1>25 DEF ServiceEnds
<1>26. CASE UNCHANGED vars
  BY <1>26 DEF vars
<1> QED
  BY <1>1, <1>2, <1>3, <1>4, <1>5, <1>6, <1>7, <1>8, <1>9, <1>10, <1>11, <1>12, <1>13,
     <1>14, <1>15, <1>16, <1>17, <1>18, <1>19, <1>20, <1>21, <1>22, <1>23, <1>24, <1>25, <1>26
  DEF Next, Step, StartStep, EndStep, StopStep

------------------------------------------------------------------------------
(* The theorems.                                                            *)

IInv == TypeOK /\ Aim /\ Owner /\ ServicesOwned /\ Named

THEOREM Invariance == Spec => []IInv
<1>1. Init => IInv
  <2> SUFFICES ASSUME Init PROVE IInv
    OBVIOUS
  <2>1. Aim /\ Owner /\ ServicesOwned /\ Named
    BY NilAssumption
    DEF Init, Aim, Alive, Owner, ServicesOwned, Up, Named, Interferes, Locked, Deleting
  <2> QED
    BY <2>1, InitType DEF IInv
<1>2. IInv /\ [Next]_vars => IInv'
  BY TypeStep, AimStep, OwnerStep, ServicesOwnedStep, NamedStep DEF IInv
<1> QED
  BY <1>1, <1>2, PTL DEF Spec

\* The services of two supervisors never run at the same time, unless one of the
\* supervisors could not finish ending its services.
THEOREM OneInstance == Spec => []ServicesExclusive
<1>1. IInv => ServicesExclusive
  BY DEF IInv, Owner, ServicesOwned, ServicesExclusive, Locked
<1> QED
  BY <1>1, Invariance, PTL

\* A command that has ended leaves no services, unless it could not finish ending
\* them.
THEOREM NothingLeft == Spec => []NoServicesLeft
<1>1. IInv => NoServicesLeft
  BY DEF IInv, ServicesOwned, NoServicesLeft, Gone
<1> QED
  BY <1>1, Invariance, PTL

\* A stop signals and kills only the supervisor that holds the lock, or one that is
\* about to exit.
THEOREM StopsAim == Spec => []StopsAimAtHolder
<1>1. IInv => StopsAimAtHolder
  <2> SUFFICES ASSUME IInv, NEW c \in Commands, pc[c] \in {"signalling", "killing"},
                      Alive(target[c])
               PROVE  lock = target[c] \/ pc[target[c]] = "leaving"
    BY DEF StopsAimAtHolder
  <2>1. target[c] \in Commands /\ pc[target[c]] \in Announced \cup {"leaving"}
    BY DEF IInv, TypeOK, Aim, Alive, Deleting
  <2> QED
    BY <2>1 DEF IInv, Owner, Announced, Locked
<1> QED
  BY <1>1, Invariance, PTL

\* Unless a stop of an earlier supervisor was about to delete the PID file when it
\* was written, it names the supervisor that runs.
THEOREM Visible == Spec => []RunningIsVisible
<1>1. IInv => RunningIsVisible
  BY DEF IInv, Named, RunningIsVisible
<1> QED
  BY <1>1, Invariance, PTL

=============================================================================
