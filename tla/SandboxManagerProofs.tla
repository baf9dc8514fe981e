------------------------ MODULE SandboxManagerProofs ------------------------
(***************************************************************************)
(* Type correctness of SandboxManager; that no daemon is lost unless a     *)
(* start or restart overlapped a creation or deletion; and that the        *)
(* firewall rule is kept while a daemon needs it.                          *)
(***************************************************************************)
EXTENDS SandboxManager, FiniteSets, FiniteSetTheorems, TLAPS

Remote == {"create"} \cup Deleters

\* The lock is held, across suspensions, by starts, restarts and stops.
LockOwner == \A o \in Ops : op[o].kind \in Holders <=> lock = o

\* Where a call of each kind may be suspended, and what it then knows.
Shaped(r) ==
    /\ r.kind \in Holders => r.at \in {"grace", "killing", "waiting"}
    /\ r.kind = "start" => r.at = "grace"
    /\ r.at \in {"grace", "killing", "waiting"} => r.kind \in Holders \cup Remote
    /\ r.at \in {"grace", "killing", "waiting", "created", "failed", "removing", "bgrace",
                 "gate", "call", "retry"} => r.on \in Sandboxes
    /\ r.at = "grace" => r.kind \in {"create", "start", "restart"}
    /\ r.at \in {"created", "failed"} => r.kind = "create"
    /\ r.at = "removing" => r.kind \in Deleters
    /\ r.at \in {"grace", "waiting", "bgrace"} => r.mine \in Procs
    /\ r.at \in {"next", "idle"} => r.on = Nil
    /\ r.at = "idle" => r.kind = "none"
    /\ r.at = "next" => r.kind = "shutdown"
    /\ r.kind \in Remote => r.at \notin {"idle", "gate", "call", "retry", "bgrace"}
ShapedCalls == \A o \in Ops : Shaped(op[o])

\* Calls work on entries that were made; before that nothing is registered.
Born ==
    /\ \A o \in Ops : op[o].on # Nil => box[op[o].on].life # "unborn"
    /\ \A s \in Sandboxes : box[s].life = "unborn" => box[s].reg = Nil

\* A registered process is a daemon of its sandbox, or was.
Registered ==
    \A s \in Sandboxes : box[s].reg # Nil =>
        \/ proc[box[s].reg].st = "dead"
        \/ proc[box[s].reg] = [st |-> "daemon", of |-> s]

\* A call that waits for a daemon waits for the registered one, if that runs.
MineIsReg ==
    \A o \in Ops : \A s \in Sandboxes :
        /\ op[o].at \in {"grace", "waiting"} /\ op[o].on = s
        /\ "mixed" \notin excuse[s] /\ Alive(box[s].reg)
        => op[o].mine = box[s].reg

RestartAlone ==
    \A o \in Ops : \A s \in Sandboxes :
        op[o].kind = "restart" /\ op[o].on = s /\ "mixed" \notin excuse[s]
        => ~Busy(s, o, Remote)

Inv == LockOwner /\ ShapedCalls /\ Born /\ Registered /\ MineIsReg /\ RestartAlone
       /\ NoOrphanDaemon
IInv == TypeOK /\ Inv

\* A step in which call o, on sandbox s, leaves b and r behind.
Leaves(o, s, b, r) ==
    /\ box' = [box EXCEPT ![s] = b] /\ op' = [op EXCEPT ![o] = r]
    /\ b \in Box /\ r \in Op /\ rules' \in Nat /\ Shaped(r)
    /\ b.life # "unborn" /\ r.on \in {s, Nil}
    /\ excuse' \in [Sandboxes -> SUBSET Excuses]
    /\ \A x \in Sandboxes : excuse[x] \subseteq excuse'[x]
    /\ lock \in {Nil, o} \/ lock' = lock
    /\ lock' \in {Nil, o, lock}
    /\ r.kind \in Holders <=> lock' = o
    /\ r.kind = "restart" /\ r.on = s /\ "mixed" \notin excuse'[s] => ~Busy(s, o, Remote)
    /\ r.kind \in Remote /\ r.on = s /\ r.at # "next" =>
          \/ lock = Nil
          \/ op[o].kind \in Remote /\ op[o].on = s /\ op[o].at # "next"

\* At most it unregisters what does not run.
Quiet(o, s, b, r) ==
    /\ Leaves(o, s, b, r)
    /\ proc' = proc
    /\ \/ b.reg = box[s].reg
       \/ b.reg = Nil /\ (~Alive(box[s].reg) \/ "mixed" \in excuse'[s])
    /\ r.at \in {"grace", "waiting"} /\ r.on = s
       /\ "mixed" \notin excuse'[s] /\ Alive(b.reg) => r.mine = b.reg

LEMMA QuietStep ==
  ASSUME IInv, NEW o \in Ops, NEW s \in Sandboxes, NEW b, NEW r, Quiet(o, s, b, r)
  PROVE  IInv'
<1> USE DEF IInv, Inv, Quiet, Leaves
<1>1. TypeOK'
  BY DEF TypeOK
<1>2. LockOwner'
  BY NilAssumption DEF LockOwner, TypeOK
<1>3. ShapedCalls'
  BY DEF ShapedCalls, TypeOK
<1>4. Born'
  BY NilAssumption DEF Born, TypeOK
<1>5. Registered'
  BY DEF Registered, TypeOK
<1>6. MineIsReg'
  <2> SUFFICES ASSUME NEW x \in Ops, NEW z \in Sandboxes,
                      op'[x].at \in {"grace", "waiting"}, op'[x].on = z,
                      "mixed" \notin excuse'[z], Alive(box[z].reg)'
               PROVE  op'[x].mine = box'[z].reg
    BY DEF MineIsReg
  <2>1. Alive(box'[z].reg)
    BY DEF Alive, TypeOK
  <2>2. CASE x = o
    <3>1. z = s
      BY <2>2, NilAssumption DEF TypeOK
    <3> QED BY <3>1, <2>1, <2>2 DEF TypeOK
  <2>3. CASE x # o
    <3>1. op[x] = op'[x] /\ "mixed" \notin excuse[z]
      BY <2>3 DEF TypeOK
    <3>2. CASE z # s
      BY <3>1, <3>2, <2>1 DEF MineIsReg, TypeOK
    <3>3. CASE z = s
      <4>1. box'[z].reg = b.reg
        BY <3>3 DEF TypeOK
      <4>2. b.reg # Nil
        BY <4>1, <2>1 DEF Alive
      <4> QED BY <3>1, <3>3, <2>1, <4>1, <4>2 DEF MineIsReg, TypeOK
    <3> QED BY <3>2, <3>3
  <2> QED BY <2>2, <2>3
<1>7. RestartAlone'
  <2> SUFFICES ASSUME NEW x \in Ops, NEW z \in Sandboxes,
                      op'[x].kind = "restart", op'[x].on = z, "mixed" \notin excuse'[z],
                      NEW y \in Ops \ {x}, op'[y].on = z, op'[y].kind \in Remote, op'[y].at # "next"
               PROVE  FALSE
    BY DEF RestartAlone, Busy
  <2>1. CASE x = o
    <3>1. z = s /\ op'[x] = r /\ op'[y] = op[y]
      BY <2>1, NilAssumption DEF TypeOK
    <3> QED BY <3>1, <2>1 DEF Busy
  <2>2. CASE x # o
    <3>1. op'[x] = op[x] /\ op[x].kind = "restart" /\ op[x].on = z /\ "mixed" \notin excuse[z]
      BY <2>2 DEF TypeOK
    <3>2. ~Busy(z, x, Remote)
      BY <3>1 DEF RestartAlone
    <3>3. y = o
      BY <3>2, <3>1 DEF Busy, TypeOK
    <3>4. op'[y] = r /\ z = s
      BY <3>3, NilAssumption DEF TypeOK
    <3>5. lock = x
      BY <3>1 DEF LockOwner, Holders
    <3> QED BY <3>2, <3>3, <3>4, <3>5, NilAssumption DEF Busy
  <2> QED BY <2>1, <2>2
<1>8. NoOrphanDaemon'
  BY DEF NoOrphanDaemon, TypeOK, Alive
<1> QED BY <1>1, <1>2, <1>3, <1>4, <1>5, <1>6, <1>7, <1>8

\* It registers process p, which it spawned, in place of none that runs.
Spawns(o, s, b, r, p) ==
    /\ Leaves(o, s, b, r)
    /\ p \in Procs /\ proc[p].st = "unused"
    /\ proc' = [proc EXCEPT ![p] = [st |-> "daemon", of |-> s]]
    /\ ~Alive(box[s].reg) \/ "mixed" \in excuse'[s]
    /\ b.reg = p
    /\ r.at = "grace" /\ r.mine = p
    /\ "mixed" \notin excuse'[s] =>
          \A x \in Ops \ {o} : ~(op[x].on = s /\ op[x].at \in {"grace", "waiting"})

LEMMA SpawnStep ==
  ASSUME IInv, NEW o \in Ops, NEW s \in Sandboxes, NEW b, NEW r, NEW p, Spawns(o, s, b, r, p)
  PROVE  IInv'
<1> USE DEF IInv, Inv, Spawns, Leaves
<1>0. p # Nil
  BY NilAssumption
<1>1. TypeOK'
  BY DEF TypeOK
<1>2. LockOwner'
  BY NilAssumption DEF LockOwner, TypeOK
<1>3. ShapedCalls'
  BY DEF ShapedCalls, TypeOK
<1>4. Born'
  BY NilAssumption DEF Born, TypeOK
<1>5. Registered'
  BY DEF Registered, TypeOK
<1>6. MineIsReg'
  <2> SUFFICES ASSUME NEW x \in Ops, NEW z \in Sandboxes,
                      op'[x].at \in {"grace", "waiting"}, op'[x].on = z,
                      "mixed" \notin excuse'[z], Alive(box[z].reg)'
               PROVE  op'[x].mine = box'[z].reg
    BY DEF MineIsReg
  <2>2. CASE x = o
    <3>1. z = s
      BY <2>2, NilAssumption DEF TypeOK
    <3> QED BY <3>1, <2>2 DEF TypeOK
  <2>3. CASE x # o
    <3>1. op[x] = op'[x] /\ "mixed" \notin excuse[z]
      BY <2>3 DEF TypeOK
    <3>2. z # s
      BY <3>1, <2>3
    <3>3. box'[z] = box[z]
      BY <3>2 DEF TypeOK
    <3>4. box[z].reg # p
      <4> SUFFICES ASSUME box[z].reg = p PROVE FALSE
        OBVIOUS
      <4>1. proc[p].st = "dead" \/ proc[p] = [st |-> "daemon", of |-> z]
        BY <1>0 DEF Registered
      <4> QED BY <4>1
    <3>5. Alive(box[z].reg)
      BY <3>3, <3>4 DEF Alive, TypeOK
    <3> QED BY <3>1, <3>3, <3>5 DEF MineIsReg
  <2> QED BY <2>2, <2>3
<1>7. RestartAlone'
  <2> SUFFICES ASSUME NEW x \in Ops, NEW z \in Sandboxes,
                      op'[x].kind = "restart", op'[x].on = z, "mixed" \notin excuse'[z],
                      NEW y \in Ops \ {x}, op'[y].on = z, op'[y].kind \in Remote, op'[y].at # "next"
               PROVE  FALSE
    BY DEF RestartAlone, Busy
  <2>1. CASE x = o
    <3>1. z = s /\ op'[x] = r /\ op'[y] = op[y]
      BY <2>1, NilAssumption DEF TypeOK
    <3> QED BY <3>1, <2>1 DEF Busy
  <2>2. CASE x # o
    <3>1. op'[x] = op[x] /\ op[x].kind = "restart" /\ op[x].on = z /\ "mixed" \notin excuse[z]
      BY <2>2 DEF TypeOK
    <3>2. ~Busy(z, x, Remote)
      BY <3>1 DEF RestartAlone
    <3>3. y = o
      BY <3>2, <3>1 DEF Busy, TypeOK
    <3>4. op'[y] = r /\ z = s
      BY <3>3, NilAssumption DEF TypeOK
    <3>5. lock = x
      BY <3>1 DEF LockOwner, Holders
    <3> QED BY <3>2, <3>3, <3>4, <3>5, NilAssumption DEF Busy
  <2> QED BY <2>1, <2>2
<1>8. NoOrphanDaemon'
  <2> SUFFICES ASSUME NEW z \in Sandboxes, "mixed" \notin excuse'[z],
                      NEW q \in Procs, proc'[q].st = "daemon", proc'[q].of = z
               PROVE  box'[z].reg = q
    BY DEF NoOrphanDaemon
  <2>0. "mixed" \notin excuse[z]
    OBVIOUS
  <2>1. CASE q = p
    BY <2>1 DEF TypeOK
  <2>2. CASE q # p
    <3>1. box[z].reg = q
      BY <2>2, <2>0 DEF NoOrphanDaemon, TypeOK
    <3>2. q # Nil /\ Alive(q)
      BY <2>2, NilAssumption DEF TypeOK, Alive
    <3>3. z # s
      BY <3>1, <3>2
    <3> QED BY <3>1, <3>3 DEF TypeOK
  <2> QED BY <2>1, <2>2
<1> QED BY <1>1, <1>2, <1>3, <1>4, <1>5, <1>6, <1>7, <1>8

-----------------------------------------------------------------------------
(* The helpers of the calls.  A helper is given the record b of sandbox s as *)
(* changed so far, and the call r that o is making.                          *)

Prepared(o, s, b, n, r) ==
    /\ b \in Box /\ b.life # "unborn" /\ n \in Nat
    /\ r \in Op /\ r.on = s /\ r.kind \in Holders \cup Remote
    /\ \/ b.reg = box[s].reg
       \/ b.reg = Nil /\ (~Alive(box[s].reg) \/ "mixed" \in excuse'[s])
    /\ excuse' \in [Sandboxes -> SUBSET Excuses]
    /\ \A x \in Sandboxes : excuse[x] \subseteq excuse'[x]
    /\ r.kind \in Holders => lock \in {Nil, o}
    /\ r.kind \in Remote => /\ lock # o
                            /\ \/ lock = Nil
                               \/ op[o].kind \in Remote /\ op[o].on = s /\ op[o].at # "next"
    /\ r.kind \in {"start", "restart"} /\ "mixed" \notin excuse'[s] => ~Busy(s, o, Remote)

LEMMA IdleOK == Idle \in Op /\ Shaped(Idle) /\ Idle.on = Nil /\ Idle.at = "idle" /\ Idle.kind = "none"
  BY DEF Idle, Op, Shaped, Points, Holders, Remote, Deleters

LEMMA UnruleOK == ASSUME NEW b \in Box, rules \in Nat PROVE Unrule(b) \in Nat
  BY DEF Unrule, Box

LEMMA FailureOK ==
  ASSUME NEW b \in Box, NEW n \in Nat, NEW f \in LaunchFailures(b, n)
  PROVE  f.box \in Box /\ f.rules \in Nat /\ f.box.reg = Nil /\ f.box.life = b.life
<1>1. \/ f = [box |-> [b EXCEPT !.reg = Nil, !.dirs = TRUE], rules |-> n]
      \/ f = [box |-> [b EXCEPT !.reg = Nil, !.ready = FALSE, !.dirs = FALSE, !.fw = FALSE],
              rules |-> n]
      \/ f = [box |-> [b EXCEPT !.reg = Nil, !.dirs = TRUE, !.fw = TRUE], rules |-> n + 1]
  BY DEF LaunchFailures
<1>2. CASE f = [box |-> [b EXCEPT !.reg = Nil, !.dirs = TRUE], rules |-> n]
  BY <1>2 DEF Box
<1>3. CASE f = [box |-> [b EXCEPT !.reg = Nil, !.ready = FALSE, !.dirs = FALSE, !.fw = FALSE],
                rules |-> n]
  BY <1>3 DEF Box
<1>4. CASE f = [box |-> [b EXCEPT !.reg = Nil, !.dirs = TRUE, !.fw = TRUE], rules |-> n + 1]
  <2> DEFINE m == n + 1
  <2>1. m \in Nat
    OBVIOUS
  <2>2. f = [box |-> [b EXCEPT !.reg = Nil, !.dirs = TRUE, !.fw = TRUE], rules |-> m]
    BY <1>4
  <2> HIDE DEF m
  <2> QED BY <2>1, <2>2 DEF Box
<1> QED BY <1>1, <1>2, <1>3, <1>4

LEMMA TryStartStep ==
  ASSUME IInv, NEW o \in Ops, NEW s \in Sandboxes, NEW b, NEW n, NEW r,
         Prepared(o, s, b, n, r), r.kind \in {"start", "restart"}, TryStart(o, s, b, n, r)
  PROVE  IInv'
<1> USE IdleOK DEF Prepared
<1>0. lock \in {Nil, o} /\ TypeOK /\ Nil # o
  BY NilAssumption DEF Holders, IInv
<1>1. CASE Alive(b.reg) /\ lock' = Nil
  <2> DEFINE c == [b EXCEPT !.life = IF @ = "READY" THEN @ ELSE "ERROR"]
  <2>1. c \in Box /\ c.life # "unborn" /\ c.reg = b.reg
    BY DEF Box, Life
  <2>2. Set(s, c) /\ rules' = n /\ Return(o) /\ UNCHANGED proc
    BY <1>1, <1>0 DEF TryStart, Launch
  <2>3. Quiet(o, s, c, Idle)
    BY <1>0, <1>1, <2>1, <2>2 DEF Quiet, Leaves, Set, Return, Goto, Holders, Remote, Deleters
  <2> HIDE DEF c
  <2> QED BY <2>3, QuietStep
<1>2. CASE ~Alive(b.reg) /\ \E f \in LaunchFailures(b, n) :
              /\ Set(s, [f.box EXCEPT !.life = "ERROR"]) /\ rules' = f.rules
              /\ Return(o) /\ lock' = Nil /\ UNCHANGED proc
  <2>1. PICK f \in LaunchFailures(b, n) :
              /\ Set(s, [f.box EXCEPT !.life = "ERROR"]) /\ rules' = f.rules
              /\ Return(o) /\ lock' = Nil /\ UNCHANGED proc
    BY <1>2
  <2>2. f.box \in Box /\ f.rules \in Nat /\ f.box.reg = Nil
    BY FailureOK
  <2> DEFINE c == [f.box EXCEPT !.life = "ERROR"]
  <2>3. c \in Box /\ c.life = "ERROR" /\ c.reg = Nil
    BY <2>2 DEF Box, Life
  <2>4. ~Alive(box[s].reg) \/ "mixed" \in excuse'[s]
    BY <1>2
  <2>5. Quiet(o, s, c, Idle)
    BY <1>0, <1>2, <2>1, <2>2, <2>3, <2>4 DEF Quiet, Leaves, Set, Return, Goto, Holders, Remote, Deleters
  <2> HIDE DEF c
  <2> QED BY <2>5, QuietStep
<1>3. CASE ~Alive(b.reg) /\ Launch(o, s, b, n, r) /\ lock' = o
  <2>1. PICK p \in Procs :
          /\ proc[p].st = "unused"
          /\ proc' = [proc EXCEPT ![p] = [st |-> "daemon", of |-> s]]
          /\ Set(s, [b EXCEPT !.reg = p, !.ready = FALSE, !.dirs = TRUE, !.fw = TRUE])
          /\ rules' = n + 1
          /\ Goto(o, [r EXCEPT !.at = "grace", !.mine = p, !.victims = {}])
    BY <1>3 DEF Launch
  <2> DEFINE c == [b EXCEPT !.reg = p, !.ready = FALSE, !.dirs = TRUE, !.fw = TRUE]
             q == [r EXCEPT !.at = "grace", !.mine = p, !.victims = {}]
  <2>2. c \in Box /\ c.life # "unborn" /\ c.reg = p
    BY DEF Box, Life
  <2>3. /\ q \in Op /\ q.at = "grace" /\ q.mine = p /\ q.on = s /\ q.kind = r.kind
        /\ q.kind \in Holders /\ q.kind \notin Remote /\ Shaped(q)
    BY DEF Op, Points, Shaped, Holders, Remote, Deleters
  <2>4. ASSUME "mixed" \notin excuse'[s], NEW x \in Ops \ {o}, op[x].on = s,
               op[x].at \in {"grace", "waiting"}
        PROVE  FALSE
    <3>1. op[x].kind \in Holders \cup Remote
      BY <2>4 DEF IInv, Inv, ShapedCalls, Shaped
    <3>2. CASE op[x].kind \in Holders
      BY <3>2, <1>0, NilAssumption, <2>4 DEF IInv, Inv, LockOwner
    <3>3. CASE op[x].kind \in Remote
      BY <3>3, <2>4 DEF Busy
    <3> QED BY <3>1, <3>2, <3>3
  <2>5. Leaves(o, s, c, q)
    BY <1>0, <1>3, <2>1, <2>2, <2>3 DEF Leaves, Set, Goto
  <2>6. Spawns(o, s, c, q, p)
    BY <1>3, <2>1, <2>2, <2>3, <2>4, <2>5 DEF Spawns
  <2> HIDE DEF c, q
  <2> QED BY <2>6, SpawnStep
<1> QED BY <1>1, <1>2, <1>3 DEF TryStart

LEMMA AfterStopStep ==
  ASSUME IInv, NEW o \in Ops, NEW s \in Sandboxes, NEW b, NEW n, NEW r,
         Prepared(o, s, b, n, r), b.reg = Nil, AfterStop(o, s, b, n, r)
  PROVE  IInv'
<1> USE IdleOK DEF Prepared
<1>0. TypeOK /\ Nil # o /\ ~Alive(Nil)
  BY NilAssumption DEF IInv, Alive
<1>1. CASE r.kind = "stop"
  <2> DEFINE c == [b EXCEPT !.life = "STOPPED"]
  <2>1. c \in Box /\ c.life = "STOPPED" /\ c.reg = b.reg
    BY DEF Box, Life
  <2>2. Quiet(o, s, c, Idle)
    BY <1>0, <1>1, <2>1 DEF AfterStop, Quiet, Leaves, Set, Return, Goto, Holders, Remote, Deleters
  <2> HIDE DEF c
  <2> QED BY <2>2, QuietStep
<1>2. CASE r.kind = "restart"
  <2> DEFINE c == [b EXCEPT !.life = "STOPPED"]
  <2>1. c \in Box /\ c.life = "STOPPED" /\ c.reg = b.reg
    BY DEF Box, Life
  <2>2. Prepared(o, s, c, n, r)
    BY <2>1
  <2>3. TryStart(o, s, c, n, r)
    BY <1>2 DEF AfterStop, Deleters
  <2> HIDE DEF c, Prepared
  <2> QED BY <1>2, <2>2, <2>3, TryStartStep
<1>3. CASE r.kind = "create"
  <2>1. Clean(b) \in Box /\ Clean(b).life = b.life /\ Clean(b).reg = Nil
    BY DEF Box, Clean
  <2>2. Quiet(o, s, Clean(b), Idle)
    BY <1>0, <1>3, <2>1 DEF AfterStop, Quiet, Leaves, Set, Return, Goto, Holders, Remote, Deleters
  <2> QED BY <2>2, QuietStep
<1>4. CASE r.kind \in Deleters
  <2> DEFINE q == [r EXCEPT !.at = "removing", !.mine = Nil, !.victims = {}]
  <2>1. Clean(b) \in Box /\ Clean(b).life = b.life /\ Clean(b).reg = Nil
    BY DEF Box, Clean
  <2>2. q \in Op /\ q.at = "removing" /\ q.on = s /\ q.kind = r.kind /\ Shaped(q)
    BY <1>4 DEF Op, Points, Shaped, Holders, Remote, Deleters
  <2>3. Quiet(o, s, Clean(b), q)
    BY <1>0, <1>4, <2>1, <2>2 DEF AfterStop, Quiet, Leaves, Set, Goto, Holders, Remote, Deleters
  <2> HIDE DEF q
  <2> QED BY <2>3, QuietStep
<1> QED BY <1>1, <1>2, <1>3, <1>4 DEF AfterStop

LEMMA SuspendStep ==
  ASSUME IInv, NEW o \in Ops, NEW s \in Sandboxes, NEW b, NEW n, NEW r, NEW q,
         Prepared(o, s, b, n, r), b.reg = box[s].reg, r.kind # "start",
         q \in Op, q.kind = r.kind, q.on = s,
         q.at = "killing" \/ (q.at = "waiting" /\ q.mine = b.reg /\ b.reg # Nil),
         Suspend(o, s, b, q)
  PROVE  IInv'
<1>1. TypeOK /\ Nil # o
  BY NilAssumption DEF IInv
<1>2. Shaped(q)
  BY DEF Shaped, Prepared, Holders, Remote, Deleters, Box
<1>3. Quiet(o, s, b, q)
  BY <1>1, <1>2 DEF Suspend, Prepared, Quiet, Leaves, Set, Goto, Holders, Remote, Deleters, TypeOK
<1> QED BY <1>3, QuietStep

LEMMA StopDaemonStep ==
  ASSUME IInv, NEW o \in Ops, NEW s \in Sandboxes, NEW b, NEW r,
         Prepared(o, s, b, rules, r), b.reg = box[s].reg, r.kind # "start",
         StopDaemon(o, s, b, r)
  PROVE  IInv'
<1>1. CASE Alive(b.reg) /\ Suspend(o, s, b, [r EXCEPT !.at = "waiting", !.mine = b.reg, !.victims = {}])
  <2> DEFINE q == [r EXCEPT !.at = "waiting", !.mine = b.reg, !.victims = {}]
  <2>1. q \in Op /\ q.kind = r.kind /\ q.on = s /\ q.at = "waiting" /\ q.mine = b.reg /\ b.reg # Nil
    BY <1>1 DEF Op, Points, Prepared, Box, Alive
  <2>2. Suspend(o, s, b, q)
    BY <1>1
  <2> HIDE DEF q
  <2> QED BY <2>1, <2>2, SuspendStep
<1>2. CASE ~Alive(b.reg) /\ AfterStop(o, s, [b EXCEPT !.reg = Nil, !.fw = FALSE], Unrule(b), r)
  <2> DEFINE c == [b EXCEPT !.reg = Nil, !.fw = FALSE]
  <2>1. c \in Box /\ c.life = b.life /\ c.reg = Nil
    BY DEF Box, Prepared
  <2>2. Unrule(b) \in Nat
    BY UnruleOK DEF Prepared
  <2>3. Prepared(o, s, c, Unrule(b), r)
    BY <1>2, <2>1, <2>2 DEF Prepared
  <2>4. AfterStop(o, s, c, Unrule(b), r)
    BY <1>2
  <2> HIDE DEF c
  <2> QED BY <2>1, <2>3, <2>4, AfterStopStep
<1> QED BY <1>1, <1>2 DEF StopDaemon

LEMMA StopStep ==
  ASSUME IInv, NEW o \in Ops, NEW s \in Sandboxes, NEW b, NEW r,
         Prepared(o, s, b, rules, r), b.reg = box[s].reg, r.kind # "start", Stop(o, s, b, r)
  PROVE  IInv'
<1> DEFINE victims == {q \in b.bg : Alive(q)}
           c == [b EXCEPT !.bg = {}]
<1>1. c \in Box /\ c.life = b.life /\ c.reg = b.reg
  BY DEF Box, Prepared
<1>2. Prepared(o, s, c, rules, r)
  BY <1>1 DEF Prepared
<1>3. CASE Suspend(o, s, c, [r EXCEPT !.at = "killing", !.victims = victims])
  <2> DEFINE q == [r EXCEPT !.at = "killing", !.victims = victims]
  <2>1. q \in Op /\ q.kind = r.kind /\ q.on = s /\ q.at = "killing"
    BY DEF Op, Points, Prepared, Box
  <2>2. Suspend(o, s, c, q)
    BY <1>3
  <2> HIDE DEF c, q
  <2> QED BY <1>1, <1>2, <2>1, <2>2, SuspendStep
<1>4. CASE StopDaemon(o, s, c, r)
  <2> HIDE DEF c
  <2> QED BY <1>1, <1>2, <1>4, StopDaemonStep
<1> QED BY <1>3, <1>4 DEF Stop

-----------------------------------------------------------------------------
(* The actions.                                                            *)

\* A call that holds the lock, or works without it, may go on from where it is.
LEMMA Continues ==
  ASSUME IInv, NEW o \in Ops, op[o].at \in {"grace", "killing", "waiting", "created"},
         excuse' = excuse, NEW b \in Box, b.life # "unborn", NEW n \in Nat,
         \/ b.reg = box[op[o].on].reg
         \/ /\ b.reg = Nil
            /\ ~Alive(box[op[o].on].reg) \/ "mixed" \in excuse[op[o].on]
         , op[o].kind # "start"
  PROVE  op[o].on \in Sandboxes /\ Prepared(o, op[o].on, b, n, op[o])
<1>1. op[o] \in Op /\ op[o].on \in Sandboxes /\ op[o].kind \in Holders \cup Remote
  BY DEF IInv, Inv, TypeOK, ShapedCalls, Shaped, Remote
<1>2. op[o].kind \in Holders => lock = o
  BY DEF IInv, Inv, LockOwner
<1>3. op[o].kind \in Remote => lock # o
  BY DEF IInv, Inv, LockOwner, Holders, Remote, Deleters
<1>4. op[o].kind = "restart" /\ "mixed" \notin excuse[op[o].on] => ~Busy(op[o].on, o, Remote)
  BY <1>1 DEF IInv, Inv, RestartAlone
<1> QED BY <1>1, <1>2, <1>3, <1>4 DEF Prepared, IInv, TypeOK

\* What every suspended call knows of its sandbox.
LEMMA Suspended ==
  ASSUME IInv, NEW o \in Ops, op[o].at \notin {"idle", "next"}
  PROVE  LET s == op[o].on IN
         /\ TypeOK /\ Nil # o /\ s \in Sandboxes /\ s # Nil /\ op[o] \in Op
         /\ box[s] \in Box /\ box[s].life # "unborn" /\ rules \in Nat
         /\ op[o].at # "grace" => op[o].kind # "start"
         /\ op[o].kind \in Holders <=> lock = o
<1>1. TypeOK /\ Nil # o /\ op[o] \in Op /\ rules \in Nat /\ Shaped(op[o])
      /\ (op[o].kind \in Holders <=> lock = o)
  BY NilAssumption DEF IInv, Inv, TypeOK, ShapedCalls, LockOwner
<1>2. op[o].on \in Sandboxes
  BY <1>1 DEF Shaped, Op, Points
<1>3. op[o].on # Nil
  BY <1>2, NilAssumption
<1>4. box[op[o].on] \in Box /\ box[op[o].on].life # "unborn"
  BY <1>1, <1>2, <1>3 DEF IInv, Inv, TypeOK, Born
<1> QED BY <1>1, <1>2, <1>3, <1>4 DEF Shaped

LEMMA NothingRuns ==
  ASSUME IInv, NEW o \in Ops, op[o].at \in {"grace", "waiting"}, ~Alive(op[o].mine)
  PROVE  ~Alive(box[op[o].on].reg) \/ "mixed" \in excuse[op[o].on]
  BY DEF IInv, Inv, MineIsReg, ShapedCalls, Shaped

LEMMA GraceEndsStep == ASSUME IInv, NEW o \in Ops, GraceEnds(o) PROVE IInv'
<1> DEFINE r == op[o]
           s == r.on
           b == box[s]
           up == [b EXCEPT !.ready = TRUE]
           down == [b EXCEPT !.reg = Nil, !.ready = FALSE, !.dirs = FALSE, !.fw = FALSE]
<1>0. TypeOK /\ Nil # o /\ s \in Sandboxes /\ b \in Box /\ r \in Op /\ b.life # "unborn"
      /\ r.at = "grace" /\ r.kind \in {"create", "start", "restart"}
  BY NilAssumption DEF GraceEnds, IInv, Inv, TypeOK, ShapedCalls, Shaped, Born
<1>1. Unrule(b) \in Nat
  BY <1>0, UnruleOK DEF TypeOK
<1>2. ~Alive(r.mine) => ~Alive(b.reg) \/ "mixed" \in excuse[s]
  BY <1>0, NothingRuns
<1>3. up \in Box /\ up.reg = b.reg /\ up.life = b.life
  BY <1>0 DEF Box
<1>4. down \in Box /\ down.reg = Nil /\ down.life = b.life
  BY <1>0 DEF Box
<1>5. r.kind \in Holders <=> lock = o
  BY DEF IInv, Inv, LockOwner
<1>6. CASE r.kind = "create"
  <2> DEFINE c == IF Alive(r.mine) THEN up ELSE down
             q == [r EXCEPT !.at = IF Alive(r.mine) THEN "created" ELSE "failed", !.mine = Nil]
  <2>1. q \in Op /\ q.on = s /\ q.kind = "create" /\ Shaped(q) /\ q.at \in {"created", "failed"}
    BY <1>0, <1>6 DEF Op, Points, Shaped, Holders, Remote, Deleters
  <2>2. c \in Box /\ c.life # "unborn" /\ (c.reg = b.reg \/ (c.reg = Nil /\ ~Alive(r.mine)))
    BY <1>0, <1>3, <1>4
  <2>3. Set(s, c) /\ Goto(o, q) /\ UNCHANGED <<lock, proc, excuse>> /\ rules' \in Nat
    BY <1>1, <1>6, <1>0 DEF GraceEnds, TypeOK
  <2> HIDE DEF c, q, up, down
  <2>4. Quiet(o, s, c, q)
    BY <2>1, <2>2, <2>3, <1>0, <1>2, <1>5, <1>6
       DEF Quiet, Leaves, Set, Goto, Holders, Remote, Deleters, TypeOK
  <2> QED BY <2>4, <1>0, QuietStep
<1>7. CASE r.kind # "create"
  <2> DEFINE c == IF Alive(r.mine) THEN [up EXCEPT !.life = "READY"] ELSE [down EXCEPT !.life = "ERROR"]
  <2>1. c \in Box /\ c.life # "unborn" /\ (c.reg = b.reg \/ (c.reg = Nil /\ ~Alive(r.mine)))
    BY <1>3, <1>4 DEF Box, Life
  <2>2. Set(s, c) /\ Return(o) /\ lock' = Nil /\ UNCHANGED <<proc, excuse>> /\ rules' \in Nat
    BY <1>1, <1>7, <1>0 DEF GraceEnds, TypeOK
  <2>3. lock = o
    BY <1>5, <1>7, <1>0 DEF Holders
  <2> HIDE DEF c, up, down
  <2>4. Quiet(o, s, c, Idle)
    BY <2>1, <2>2, <2>3, <1>0, <1>2, IdleOK
       DEF Quiet, Leaves, Set, Return, Goto, Holders, Remote, Deleters, TypeOK
  <2> QED BY <2>4, <1>0, QuietStep
<1> QED BY <1>6, <1>7

LEMMA WaitEndsStep == ASSUME IInv, NEW o \in Ops, WaitEnds(o) PROVE IInv'
<1> DEFINE s == op[o].on
           c == [box[s] EXCEPT !.reg = Nil, !.ready = FALSE, !.fw = FALSE]
<1>a. op[o].at = "waiting" /\ ~Alive(op[o].mine) /\ excuse' = excuse
  BY DEF WaitEnds
<1>0. TypeOK /\ s \in Sandboxes /\ box[s] \in Box /\ box[s].life # "unborn" /\ rules \in Nat
      /\ op[o].kind # "start"
  BY <1>a, Suspended
<1>1. Unrule(box[s]) \in Nat
  BY <1>0, UnruleOK
<1>2. c \in Box /\ c.life # "unborn" /\ c.reg = Nil
  BY <1>0 DEF Box
<1>3. ~Alive(box[s].reg) \/ "mixed" \in excuse[s]
  BY <1>a, NothingRuns
<1>4. AfterStop(o, s, c, Unrule(box[s]), op[o])
  BY DEF WaitEnds
<1> HIDE DEF c
<1>5. Prepared(o, s, c, Unrule(box[s]), op[o])
  BY <1>a, <1>0, <1>1, <1>2, <1>3, Continues
<1> QED BY <1>0, <1>2, <1>4, <1>5, AfterStopStep

LEMMA VictimsGoneStep == ASSUME IInv, NEW o \in Ops, VictimsGone(o) PROVE IInv'
<1> DEFINE s == op[o].on
<1>a. op[o].at = "killing" /\ excuse' = excuse
  BY DEF VictimsGone
<1>0. s \in Sandboxes /\ box[s] \in Box /\ box[s].life # "unborn" /\ rules \in Nat
      /\ op[o].kind # "start"
  BY <1>a, Suspended
<1>1. Prepared(o, s, box[s], rules, op[o])
  BY <1>a, <1>0, Continues
<1> QED BY <1>0, <1>1, StopDaemonStep DEF VictimsGone

\* A call that returns, with the lock if it held it, and changes nothing else
\* of the runtime than c says.
LEMMA ReturnStep ==
  ASSUME IInv, NEW o \in Ops, op[o].at \notin {"idle", "next"},
         NEW c \in Box, c.life # "unborn", c.reg = box[op[o].on].reg,
         Set(op[o].on, c), Return(o), UNCHANGED <<rules, proc>>,
         lock' = IF lock = o THEN Nil ELSE lock,
         excuse' \in [Sandboxes -> SUBSET Excuses],
         \A x \in Sandboxes : excuse[x] \subseteq excuse'[x]
  PROVE  IInv'
<1> DEFINE s == op[o].on
<1>1. TypeOK /\ Nil # o /\ s \in Sandboxes /\ s # Nil /\ rules \in Nat
  BY Suspended
<1>2. Quiet(o, s, c, Idle)
  BY <1>1, IdleOK DEF Quiet, Leaves, Set, Return, Goto, Holders, Remote, Deleters
<1> QED BY <1>1, <1>2, QuietStep

LEMMA CreateCommitsStep == ASSUME IInv, NEW o \in Ops, CreateCommits(o) PROVE IInv'
<1> DEFINE s == op[o].on
           c == [box[s] EXCEPT !.life = "READY"]
<1>a. op[o].at = "created" /\ lock = Nil /\ excuse' = excuse
  BY DEF CreateCommits
<1>0. TypeOK /\ Nil # o /\ s \in Sandboxes /\ box[s] \in Box /\ box[s].life # "unborn"
      /\ rules \in Nat /\ op[o].kind # "start"
  BY <1>a, Suspended
<1>1. CASE Set(s, c) /\ Return(o) /\ UNCHANGED <<lock, rules, proc>>
  <2>1. c \in Box /\ c.life # "unborn" /\ c.reg = box[s].reg
    BY <1>0 DEF Box, Life
  <2>2. excuse' \in [Sandboxes -> SUBSET Excuses]
    BY <1>0, <1>a DEF TypeOK
  <2> HIDE DEF c
  <2> QED BY <1>0, <1>1, <1>a, <2>1, <2>2, ReturnStep
<1>2. CASE Stop(o, s, box[s], op[o])
  <2>1. Prepared(o, s, box[s], rules, op[o])
    BY <1>0, <1>a, Continues
  <2> QED BY <1>0, <1>2, <2>1, StopStep
<1> QED BY <1>1, <1>2 DEF CreateCommits

LEMMA CreateFailsStep == ASSUME IInv, NEW o \in Ops, CreateFails(o) PROVE IInv'
<1> DEFINE s == op[o].on
           c == [box[s] EXCEPT !.life = IF Doomed(s) THEN @ ELSE "ERROR"]
<1>a. op[o].at = "failed" /\ lock = Nil /\ UNCHANGED <<lock, rules, proc, excuse>>
  BY DEF CreateFails
<1>0. TypeOK /\ Nil # o /\ s \in Sandboxes /\ box[s] \in Box /\ box[s].life # "unborn"
  BY <1>a, Suspended
<1>1. c \in Box /\ c.life # "unborn" /\ c.reg = box[s].reg
  BY <1>0 DEF Box, Life
<1>2. excuse' \in [Sandboxes -> SUBSET Excuses]
  BY <1>0, <1>a DEF TypeOK
<1>3. Set(s, c) /\ Return(o)
  BY DEF CreateFails
<1> HIDE DEF c
<1> QED BY <1>0, <1>1, <1>2, <1>3, <1>a, ReturnStep

-----------------------------------------------------------------------------
(* Calls that begin.                                                       *)

\* A new call on an entered sandbox, by a caller that is free to make it.
LEMMA Begins ==
  ASSUME IInv, NEW o \in Ops, NEW s \in Sandboxes, Free(o), NEW k \in Kinds,
         k \in Holders \cup Remote, NEW b \in Box, b.life # "unborn", b.reg = box[s].reg,
         excuse' \in [Sandboxes -> SUBSET Excuses],
         \A x \in Sandboxes : excuse[x] \subseteq excuse'[x],
         k \in {"start", "restart"} /\ "mixed" \notin excuse'[s] => ~Busy(s, o, Remote)
  PROVE  Prepared(o, s, b, rules, Call(k, s))
<1>1. Call(k, s) \in Op /\ Call(k, s).on = s /\ Call(k, s).kind = k
  BY DEF Call, Idle, Op, Points
<1>2. lock = Nil /\ Nil # o /\ rules \in Nat
  BY NilAssumption DEF Free, IInv, TypeOK
<1> QED BY <1>1, <1>2 DEF Prepared

LEMMA Remembered ==
  ASSUME TypeOK, NEW o, NEW s \in Sandboxes, NEW k, Remember(o, s, k)
  PROVE  /\ excuse' \in [Sandboxes -> SUBSET Excuses]
         /\ \A x \in Sandboxes : excuse[x] \subseteq excuse'[x]
         /\ k # "stop" /\ "mixed" \notin excuse'[s] => ~Busy(s, o, Remote)
  BY DEF Remember, TypeOK, Excuses, Remote

LEMMA StartSandboxStep ==
  ASSUME IInv, NEW o \in Ops, NEW s \in Sandboxes, StartSandbox(o, s) PROVE IInv'
<1>1. box[s] \in Box /\ box[s].life # "unborn" /\ Free(o) /\ TypeOK
  BY DEF StartSandbox, IInv, TypeOK, Entered
<1>2. Remember(o, s, "start") /\ TryStart(o, s, box[s], rules, Call("start", s))
  BY DEF StartSandbox
<1>3. Prepared(o, s, box[s], rules, Call("start", s))
  BY <1>1, <1>2, Remembered, Begins DEF Kinds, Holders
<1>4. Call("start", s).kind = "start"
  BY DEF Call, Idle
<1> QED BY <1>2, <1>3, <1>4, TryStartStep

LEMMA StopSandboxStep ==
  ASSUME IInv, NEW o \in Ops, NEW s \in Sandboxes, NEW k \in {"stop", "restart"},
         StopSandbox(o, s, k)
  PROVE  IInv'
<1>1. box[s] \in Box /\ box[s].life # "unborn" /\ Free(o) /\ TypeOK
  BY DEF StopSandbox, IInv, TypeOK, Entered
<1>2. Remember(o, s, k) /\ Stop(o, s, box[s], Call(k, s))
  BY DEF StopSandbox
<1>3. Prepared(o, s, box[s], rules, Call(k, s))
  BY <1>1, <1>2, Remembered, Begins DEF Kinds, Holders
<1>4. Call(k, s).kind = k
  BY DEF Call, Idle
<1> QED BY <1>2, <1>3, <1>4, StopStep

LEMMA DeleteSandboxStep ==
  ASSUME IInv, NEW o \in Ops, NEW s \in Sandboxes, DeleteSandbox(o, s) PROVE IInv'
<1> DEFINE b == [box[s] EXCEPT !.life = "DELETING"]
<1>1. b \in Box /\ b.life # "unborn" /\ b.reg = box[s].reg /\ Free(o)
      /\ excuse' \in [Sandboxes -> SUBSET Excuses] /\ excuse' = excuse
  BY DEF DeleteSandbox, IInv, TypeOK, Box, Life
<1>2. Stop(o, s, b, Call("delete", s))
  BY DEF DeleteSandbox
<1> HIDE DEF b
<1>3. Prepared(o, s, b, rules, Call("delete", s))
  BY <1>1, Begins DEF Kinds, Remote, Deleters
<1>4. Call("delete", s).kind = "delete"
  BY DEF Call, Idle
<1> QED BY <1>1, <1>2, <1>3, <1>4, StopStep

LEMMA CreateStep ==
  ASSUME IInv, NEW o \in Ops, NEW s \in Sandboxes, Create(o, s) PROVE IInv'
<1> DEFINE b == [box[s] EXCEPT !.life = "PROVISIONING"]
<1>0. TypeOK /\ Nil # o /\ lock = Nil /\ rules \in Nat /\ Nil # s
      /\ UNCHANGED <<lock, excuse>>
  BY NilAssumption DEF Create, Free, IInv, TypeOK
<1>1. b \in Box /\ b.life = "PROVISIONING" /\ b.reg = Nil /\ ~Alive(Nil) /\ box[s].reg = Nil
  BY DEF Create, IInv, Inv, TypeOK, Born, Box, Life, Alive
<1>2. \A x \in Ops : op[x].on # s
  BY <1>0 DEF Create, IInv, Inv, Born
<1>3. CASE Launch(o, s, b, rules, Call("create", s))
  <2>1. PICK p \in Procs :
          /\ proc[p].st = "unused"
          /\ proc' = [proc EXCEPT ![p] = [st |-> "daemon", of |-> s]]
          /\ Set(s, [b EXCEPT !.reg = p, !.ready = FALSE, !.dirs = TRUE, !.fw = TRUE])
          /\ rules' = rules + 1
          /\ Goto(o, [Call("create", s) EXCEPT !.at = "grace", !.mine = p, !.victims = {}])
    BY <1>3 DEF Launch
  <2> DEFINE c == [b EXCEPT !.reg = p, !.ready = FALSE, !.dirs = TRUE, !.fw = TRUE]
             q == [Call("create", s) EXCEPT !.at = "grace", !.mine = p, !.victims = {}]
  <2>2. c \in Box /\ c.life # "unborn" /\ c.reg = p
    BY <1>1 DEF Box, Life
  <2>3. q \in Op /\ q.at = "grace" /\ q.mine = p /\ q.on = s /\ q.kind = "create" /\ Shaped(q)
    BY DEF Call, Idle, Op, Points, Kinds, Shaped, Holders, Remote, Deleters
  <2>4. Leaves(o, s, c, q)
    BY <1>0, <2>1, <2>2, <2>3 DEF Leaves, Set, Goto, Holders, Remote, TypeOK
  <2>5. Spawns(o, s, c, q, p)
    BY <1>1, <1>2, <2>1, <2>2, <2>3, <2>4 DEF Spawns
  <2> HIDE DEF c, q
  <2> QED BY <2>5, SpawnStep
<1>4. CASE /\ \E f \in LaunchFailures(b, rules) : Set(s, f.box) /\ rules' = f.rules
           /\ Goto(o, [Call("create", s) EXCEPT !.at = "failed"])
           /\ UNCHANGED proc
  <2>1. PICK f \in LaunchFailures(b, rules) : Set(s, f.box) /\ rules' = f.rules
    BY <1>4
  <2> DEFINE q == [Call("create", s) EXCEPT !.at = "failed"]
  <2>2. f.box \in Box /\ f.rules \in Nat /\ f.box.reg = Nil /\ f.box.life # "unborn"
    BY <1>0, <1>1, FailureOK
  <2>3. q \in Op /\ q.at = "failed" /\ q.on = s /\ q.kind = "create" /\ Shaped(q)
    BY DEF Call, Idle, Op, Points, Kinds, Shaped, Holders, Remote, Deleters
  <2>4. Goto(o, q)
    BY <1>4
  <2> HIDE DEF q, b
  <2>5. Quiet(o, s, f.box, q)
    BY <1>0, <1>1, <1>4, <2>1, <2>2, <2>3, <2>4
       DEF Quiet, Leaves, Set, Goto, Holders, Remote, TypeOK
  <2> QED BY <2>5, QuietStep
<1> QED BY <1>3, <1>4 DEF Create

\* Process p exits, or comes up as a background command.
Comes(p) ==
    \E v \in [st : {"unused", "daemon", "background", "dead"}, of : Sandboxes \cup {Nil}] :
        /\ proc' = [proc EXCEPT ![p] = v]
        /\ v.st = "dead" \/ (v.st = "background" /\ proc[p].st = "unused")

\* No daemon comes, and what is registered stays a daemon or a dead one.
LEMMA ProcessesOK ==
  ASSUME TypeOK, Registered, \A x \in Sandboxes : box'[x].reg = box[x].reg,
         proc' = proc \/ \E p \in Procs : Comes(p)
  PROVE  /\ proc' \in [Procs -> [st : {"unused", "daemon", "background", "dead"},
                                of : Sandboxes \cup {Nil}]]
         /\ Registered'
         /\ \A x \in Sandboxes : Alive(box[x].reg)' => Alive(box[x].reg)
         /\ \A q \in Procs : proc'[q].st = "daemon" => proc'[q] = proc[q]
<1>1. CASE proc' = proc
  BY <1>1 DEF TypeOK, Registered, Alive
<1>2. CASE \E p \in Procs : Comes(p)
  <2>1. PICK p \in Procs : Comes(p)
    BY <1>2
  <2>2. PICK v \in [st : {"unused", "daemon", "background", "dead"}, of : Sandboxes \cup {Nil}] :
          /\ proc' = [proc EXCEPT ![p] = v]
          /\ v.st = "dead" \/ (v.st = "background" /\ proc[p].st = "unused")
    BY <2>1 DEF Comes
  <2>3. proc' \in [Procs -> [st : {"unused", "daemon", "background", "dead"}, of : Sandboxes \cup {Nil}]]
        /\ \A q \in Procs : proc'[q].st = "daemon" => proc'[q] = proc[q]
    BY <2>2 DEF TypeOK
  <2>4. ASSUME NEW s \in Sandboxes, box[s].reg # Nil
        PROVE  /\ proc'[box[s].reg].st = "dead" \/ proc'[box[s].reg] = [st |-> "daemon", of |-> s]
               /\ Alive(box[s].reg)' => Alive(box[s].reg)
    <3>1. box[s].reg \in Procs
      BY <2>4 DEF TypeOK, Box
    <3>2. proc[box[s].reg].st = "dead" \/ proc[box[s].reg] = [st |-> "daemon", of |-> s]
      BY <2>4 DEF Registered
    <3>3. proc[box[s].reg].st # "unused"
      BY <3>2
    <3>4. proc'[box[s].reg] = proc[box[s].reg] \/ proc'[box[s].reg].st = "dead"
      BY <2>2, <3>1, <3>3 DEF TypeOK
    <3> QED BY <3>2, <3>4 DEF Alive
  <2>5. Registered'
    BY <2>4 DEF Registered
  <2>6. \A x \in Sandboxes : Alive(box[x].reg)' => Alive(box[x].reg)
    BY <2>4 DEF Alive
  <2> QED BY <2>3, <2>5, <2>6
<1> QED BY <1>1, <1>2

LEMMA ExitsStep == ASSUME IInv, NEW p \in Procs, Exits(p) PROVE IInv'
<1> USE DEF IInv, Inv
<1>0. UNCHANGED <<lock, box, rules, op, excuse>>
  BY DEF Exits
<1>1. Comes(p)
  <2> DEFINE v == [st |-> "dead", of |-> Nil]
  <2>1. v \in [st : {"unused", "daemon", "background", "dead"}, of : Sandboxes \cup {Nil}]
        /\ v.st = "dead"
    OBVIOUS
  <2> QED BY <2>1 DEF Exits, Comes
<1>2. /\ proc' \in [Procs -> [st : {"unused", "daemon", "background", "dead"},
                             of : Sandboxes \cup {Nil}]]
      /\ Registered'
      /\ \A x \in Sandboxes : Alive(box[x].reg)' => Alive(box[x].reg)
      /\ \A q \in Procs : proc'[q].st = "daemon" => proc'[q] = proc[q]
  BY <1>0, <1>1, ProcessesOK
<1>3. TypeOK'
  BY <1>0, <1>2 DEF TypeOK
<1>4. LockOwner' /\ ShapedCalls' /\ Born'
  BY <1>0 DEF LockOwner, ShapedCalls, Born
<1>5. MineIsReg'
  BY <1>0, <1>2 DEF MineIsReg
<1>6. RestartAlone'
  BY <1>0 DEF RestartAlone, Busy
<1>7. NoOrphanDaemon'
  BY <1>0, <1>2 DEF NoOrphanDaemon
<1> QED BY <1>2, <1>3, <1>4, <1>5, <1>6, <1>7

\* A step that changes one call only, which neither holds the lock nor works
\* in the runtime, and no more than readiness and the background list.
LEMMA ElsewhereStep ==
  ASSUME IInv, NEW o \in Ops, NEW q \in Op, Shaped(q), op' = [op EXCEPT ![o] = q],
         lock # o, q.kind \notin Holders, q.at \notin {"grace", "waiting"},
         q.on # Nil => box[q.on].life # "unborn",
         q.kind \in Remote => q.at = "next",
         box' = box \/ \E s \in Sandboxes : \E c \in Box :
            /\ box' = [box EXCEPT ![s] = c]
            /\ c.life = box[s].life /\ c.reg = box[s].reg,
         UNCHANGED <<lock, rules>>, proc' = proc \/ \E p \in Procs : Comes(p),
         excuse' \in [Sandboxes -> SUBSET Excuses],
         \A x \in Sandboxes : excuse[x] \subseteq excuse'[x]
  PROVE  IInv'
<1> USE DEF IInv, Inv
<1>0. \A x \in Sandboxes : box'[x].life = box[x].life /\ box'[x].reg = box[x].reg
  BY DEF TypeOK
<1>p. /\ proc' \in [Procs -> [st : {"unused", "daemon", "background", "dead"},
                             of : Sandboxes \cup {Nil}]]
      /\ Registered'
      /\ \A x \in Sandboxes : Alive(box[x].reg)' => Alive(box[x].reg)
      /\ \A x \in Procs : proc'[x].st = "daemon" => proc'[x] = proc[x]
  BY <1>0, ProcessesOK
<1>1. TypeOK'
  BY <1>p DEF TypeOK
<1>2. LockOwner'
  BY DEF LockOwner, TypeOK
<1>3. ShapedCalls'
  BY DEF ShapedCalls, TypeOK
<1>4. Born'
  <2>1. \A x \in Sandboxes : box'[x].life = "unborn" => box'[x].reg = Nil
    BY <1>0 DEF Born
  <2>2. ASSUME NEW x \in Ops, op'[x].on # Nil PROVE box'[op'[x].on].life # "unborn"
    <3>1. op'[x].on \in Sandboxes
      BY <1>1, <2>2 DEF TypeOK, Op
    <3>2. box[op'[x].on].life # "unborn"
      BY <2>2 DEF Born, TypeOK
    <3> QED BY <1>0, <3>1, <3>2
  <2> QED BY <2>1, <2>2 DEF Born
<1>6. MineIsReg'
  BY <1>0, <1>p DEF MineIsReg, TypeOK
<1>7. RestartAlone'
  <2> SUFFICES ASSUME NEW x \in Ops, NEW z \in Sandboxes,
                      op'[x].kind = "restart", op'[x].on = z, "mixed" \notin excuse'[z],
                      NEW y \in Ops \ {x}, op'[y].on = z, op'[y].kind \in Remote, op'[y].at # "next"
               PROVE  FALSE
    BY DEF RestartAlone, Busy
  <2>1. x # o /\ y # o
    BY DEF Holders, TypeOK
  <2> QED BY <2>1 DEF RestartAlone, Busy, TypeOK
<1>8. NoOrphanDaemon'
  BY <1>0, <1>p DEF NoOrphanDaemon
<1> QED BY <1>1, <1>2, <1>3, <1>4, <1>p, <1>6, <1>7, <1>8

LEMMA ShutdownStep == ASSUME IInv, NEW o \in Ops, Shutdown(o) PROVE IInv'
<1>1. PICK found \in SUBSET Sandboxes :
         op' = [op EXCEPT ![o] = [Idle EXCEPT !.kind = "shutdown", !.at = "next", !.todo = found]]
  BY DEF Shutdown, Goto
<1>2. lock = Nil /\ Nil # o /\ UNCHANGED <<lock, box, rules, proc, excuse>>
      /\ excuse \in [Sandboxes -> SUBSET Excuses]
  BY NilAssumption DEF Shutdown, Free, IInv, TypeOK
<1> DEFINE q == [Idle EXCEPT !.kind = "shutdown", !.at = "next", !.todo = found]
<1>3. q \in Op /\ q.at = "next" /\ q.on = Nil /\ q.kind = "shutdown" /\ Shaped(q)
  BY DEF Idle, Op, Points, Shaped, Holders, Remote, Deleters
<1>4. op' = [op EXCEPT ![o] = q]
  BY <1>1
<1>5. q.kind \notin Holders /\ q.kind \in Remote /\ q.at \notin {"grace", "waiting"}
  BY <1>3 DEF Holders, Remote, Deleters
<1> HIDE DEF q
<1> QED BY <1>2, <1>3, <1>4, <1>5, ElsewhereStep

LEMMA ShutdownNextStep == ASSUME IInv, NEW o \in Ops, ShutdownNext(o) PROVE IInv'
<1>0. op[o].at = "next" /\ lock = Nil /\ excuse' = excuse /\ TypeOK /\ Nil # o /\ op[o] \in Op
  BY NilAssumption DEF ShutdownNext, IInv, TypeOK
<1>1. CASE Return(o) /\ UNCHANGED <<lock, box, rules, proc>>
  BY <1>0, <1>1, IdleOK, ElsewhereStep DEF Return, Goto, Holders, Remote, Deleters, TypeOK
<1>2. ASSUME NEW s \in op[o].todo, Entered(s),
             Stop(o, s, [box[s] EXCEPT !.life = "DELETING"], [op[o] EXCEPT !.on = s, !.todo = @ \ {s}])
      PROVE  IInv'
  <2> DEFINE b == [box[s] EXCEPT !.life = "DELETING"]
             r == [op[o] EXCEPT !.on = s, !.todo = @ \ {s}]
  <2>0. s \in Sandboxes
    BY <1>0 DEF Op
  <2>1. b \in Box /\ b.life # "unborn" /\ b.reg = box[s].reg
    BY <1>0, <2>0 DEF TypeOK, Box, Life
  <2>2. op[o].kind = "shutdown"
    BY <1>0 DEF IInv, Inv, ShapedCalls, Shaped
  <2>3. r \in Op /\ r.on = s /\ r.kind = "shutdown"
    BY <1>0, <2>0, <2>2 DEF Op
  <2> HIDE DEF b, r
  <2>4. Prepared(o, s, b, rules, r)
    BY <1>0, <2>0, <2>1, <2>3 DEF Prepared, Holders, Remote, Deleters, TypeOK
  <2>5. Stop(o, s, b, r)
    BY <1>2 DEF b, r
  <2> QED BY <2>0, <2>1, <2>3, <2>4, <2>5, StopStep
<1> QED BY <1>1, <1>2 DEF ShutdownNext

LEMMA RemovedStep == ASSUME IInv, NEW o \in Ops, Removed(o) PROVE IInv'
<1> DEFINE s == op[o].on
           c == [box[s] EXCEPT !.life = "gone"]
           q == IF op[o].kind = "delete" THEN Idle
                ELSE [Idle EXCEPT !.kind = "shutdown", !.at = "next", !.todo = op[o].todo]
<1>0. op[o].at = "removing" /\ lock = Nil /\ UNCHANGED <<lock, rules, proc, excuse>>
  BY DEF Removed
<1>1. TypeOK /\ Nil # o /\ s \in Sandboxes /\ s # Nil /\ box[s] \in Box /\ rules \in Nat
      /\ op[o] \in Op
  BY <1>0, Suspended
<1>2. c \in Box /\ c.life # "unborn" /\ c.reg = box[s].reg
  BY <1>1 DEF Box, Life
<1>3. q \in Op /\ Shaped(q) /\ q.on = Nil /\ q.kind \notin Holders /\ q.at \in {"idle", "next"}
  BY <1>1, IdleOK DEF Idle, Op, Points, Shaped, Holders, Remote, Deleters
<1>4. Set(s, c) /\ Goto(o, q)
  BY DEF Removed
<1> HIDE DEF c, q
<1>5. Quiet(o, s, c, q)
  BY <1>0, <1>1, <1>2, <1>3, <1>4 DEF Quiet, Leaves, Set, Goto, Holders, TypeOK
<1> QED BY <1>1, <1>5, QuietStep

LEMMA GivesUpStep == ASSUME IInv, NEW o \in Ops, GivesUp(o) PROVE IInv'
<1> DEFINE r == op[o]
           s == r.on
           q == CASE r.kind = "create" -> [Call("create", r.on) EXCEPT !.at = "failed"]
                  [] r.kind = "shutdown" ->
                       [Idle EXCEPT !.kind = "shutdown", !.at = "next", !.todo = r.todo]
                  [] OTHER -> Idle
<1>0. r.at \in {"killing", "waiting"} /\ UNCHANGED <<box, rules, proc>> /\ Goto(o, q)
      /\ lock' = IF r.kind \in Holders THEN Nil ELSE lock
  BY DEF GivesUp
<1>1. TypeOK /\ Nil # o /\ s \in Sandboxes /\ s # Nil /\ box[s] \in Box /\ box[s].life # "unborn"
      /\ rules \in Nat /\ op[o] \in Op /\ (r.kind \in Holders <=> lock = o)
  BY <1>0, Suspended
<1>2. \/ excuse' = excuse
      \/ excuse' = [excuse EXCEPT ![s] = @ \cup {"stuck"}]
  BY DEF GivesUp, Excuse
<1>3. excuse' \in [Sandboxes -> SUBSET Excuses] /\ \A x \in Sandboxes : excuse[x] \subseteq excuse'[x]
  BY <1>1, <1>2 DEF TypeOK, Excuses
<1>4. /\ q \in Op /\ Shaped(q) /\ q.on \in {s, Nil} /\ q.kind \notin Holders
      /\ q.at \in {"failed", "next", "idle"}
      /\ q.at = "failed" => r.kind = "create"
      /\ q.at = "idle" => q.kind = "none"
      /\ q.on = s => q.at = "failed"
  <2>1. CASE r.kind = "create"
    <3>1. q = [Call("create", s) EXCEPT !.at = "failed"]
      BY <2>1
    <3> HIDE DEF q
    <3> QED BY <3>1, <2>1, <1>1 DEF Idle, Call, Op, Points, Kinds, Shaped, Holders, Remote, Deleters
  <2>2. CASE r.kind = "shutdown"
    <3>1. q = [Idle EXCEPT !.kind = "shutdown", !.at = "next", !.todo = r.todo]
      BY <2>2
    <3>2. r.todo \in SUBSET Sandboxes
      BY <1>1 DEF Op
    <3> HIDE DEF q
    <3> QED BY <3>1, <3>2, <1>1 DEF Idle, Op, Points, Shaped, Holders, Remote, Deleters
  <2>3. CASE r.kind \notin {"create", "shutdown"}
    <3>1. q = Idle
      BY <2>3
    <3> HIDE DEF q
    <3> QED BY <3>1, <1>1, IdleOK DEF Holders
  <2> QED BY <2>1, <2>2, <2>3
<1>5. box' = [box EXCEPT ![s] = box[s]]
  BY <1>0, <1>1 DEF TypeOK
<1> HIDE DEF q
<1>6. Quiet(o, s, box[s], q)
  BY <1>0, <1>1, <1>3, <1>4, <1>5 DEF Quiet, Leaves, Goto, Holders, Remote
<1> QED BY <1>1, <1>6, QuietStep

-----------------------------------------------------------------------------
(* Work inside a sandbox, and the operating system.                        *)

LEMMA GetSandboxStep == ASSUME IInv, NEW s \in Sandboxes, GetSandbox(s) PROVE IInv'
<1> DEFINE c == [box[s] EXCEPT !.life = "STOPPED"]
<1> USE DEF IInv, Inv
<1>0. box' = [box EXCEPT ![s] = c] /\ UNCHANGED <<lock, rules, proc, op, excuse>>
  BY DEF GetSandbox, Set
<1>1. c \in Box /\ c.life = "STOPPED" /\ c.reg = box[s].reg
  BY DEF TypeOK, Box, Life
<1> HIDE DEF c
<1>2. \A x \in Sandboxes : /\ box'[x].reg = box[x].reg
                           /\ box'[x].life = box[x].life \/ box'[x].life = "STOPPED"
  BY <1>0, <1>1 DEF TypeOK
<1>3. TypeOK'
  BY <1>0, <1>1 DEF TypeOK
<1>4. LockOwner' /\ ShapedCalls'
  BY <1>0 DEF LockOwner, ShapedCalls
<1>5. Born'
  <2>1. \A x \in Sandboxes : box'[x].life = "unborn" => box'[x].reg = Nil
    BY <1>2 DEF Born
  <2>2. ASSUME NEW x \in Ops, op'[x].on # Nil PROVE box'[op'[x].on].life # "unborn"
    <3>1. op[x].on \in Sandboxes /\ op'[x].on = op[x].on
      BY <1>0, <2>2 DEF TypeOK, Op
    <3> QED BY <1>2, <2>2, <3>1 DEF Born
  <2> QED BY <2>1, <2>2 DEF Born
<1>6. Registered'
  BY <1>0, <1>2 DEF Registered
<1>7. MineIsReg'
  BY <1>0, <1>2 DEF MineIsReg, Alive
<1>8. RestartAlone'
  BY <1>0 DEF RestartAlone, Busy
<1>9. NoOrphanDaemon'
  BY <1>0, <1>2 DEF NoOrphanDaemon
<1> QED BY <1>3, <1>4, <1>5, <1>6, <1>7, <1>8, <1>9

\* A step of a call that neither holds the lock nor works in the runtime, and
\* changes of a sandbox no more than readiness and the background list.
LEMMA WorkStep ==
  ASSUME IInv, NEW o \in Ops, NEW s \in Sandboxes, box[s].life # "unborn",
         op[o].kind \notin Holders,
         NEW q \in Op, q.kind \notin Holders \cup Remote, q.on \in {s, Nil},
         q.at \in {"idle", "gate", "call", "retry", "bgrace"}, Shaped(q), Goto(o, q),
         NEW c \in Box, c.life = box[s].life, c.reg = box[s].reg, Set(s, c),
         UNCHANGED <<lock, rules>>, proc' = proc \/ \E p \in Procs : Comes(p),
         excuse' \in [Sandboxes -> SUBSET Excuses],
         \A x \in Sandboxes : excuse[x] \subseteq excuse'[x]
  PROVE  IInv'
<1>1. lock # o
  BY DEF IInv, Inv, LockOwner
<1> QED BY <1>1, ElsewhereStep DEF Goto, Set

LEMMA UseSandboxStep ==
  ASSUME IInv, NEW o \in Ops, NEW s \in Sandboxes, NEW k \in {"exec", "transfer"},
         UseSandbox(o, s, k)
  PROVE  IInv'
<1>0. /\ TypeOK /\ box[s] \in Box /\ box[s].life = "READY" /\ op[o].kind = "none"
      /\ UNCHANGED <<lock, box, rules, proc, excuse>> /\ Set(s, box[s])
  BY DEF UseSandbox, Free, IInv, Inv, TypeOK, ShapedCalls, Shaped, Set
<1>1. PICK q \in {[Call(k, s) EXCEPT !.at = "gate"],
                  [Call(k, s) EXCEPT !.at = "call", !.mine = box[s].reg],
                  [Call(k, s) EXCEPT !.at = "retry"]} : Goto(o, q)
  BY DEF UseSandbox
<1>2. q \in Op /\ q.on = s /\ q.kind = k /\ q.at \in {"gate", "call", "retry"} /\ Shaped(q)
  BY <1>0, <1>1 DEF Call, Idle, Op, Points, Kinds, Box, Shaped, Holders, Remote, Deleters
<1>3. q.kind \notin Holders \cup Remote
  BY <1>2 DEF Holders, Remote, Deleters
<1>4. "none" \notin Holders /\ excuse' \in [Sandboxes -> SUBSET Excuses]
  BY <1>0 DEF Holders, TypeOK
<1> QED BY <1>0, <1>1, <1>2, <1>3, <1>4, WorkStep

\* A call at one of these points is of this kind, and its sandbox was made.
LEMMA Working ==
  ASSUME IInv, NEW o \in Ops, op[o].at \in {"gate", "call", "retry", "bgrace"}
  PROVE  /\ op[o].kind \notin Holders \cup Remote
         /\ op[o].on \in Sandboxes /\ box[op[o].on].life # "unborn" /\ box[op[o].on] \in Box
         /\ op[o] \in Op /\ TypeOK
         /\ op[o].at = "bgrace" => op[o].mine \in Procs
<1>1. op[o].on \in Sandboxes /\ box[op[o].on].life # "unborn" /\ box[op[o].on] \in Box
      /\ op[o] \in Op /\ TypeOK
  BY Suspended
<1>2. Shaped(op[o])
  BY DEF IInv, Inv, ShapedCalls
<1> QED BY <1>1, <1>2 DEF Shaped, Holders, Remote, Deleters

LEMMA AdmitStep == ASSUME IInv, NEW o \in Ops, Admit(o) PROVE IInv'
<1> DEFINE s == op[o].on
           q == IF Reachable(s) THEN [op[o] EXCEPT !.at = "call", !.mine = box[s].reg] ELSE Idle
<1>0. op[o].at = "gate" /\ Goto(o, q) /\ UNCHANGED <<lock, box, rules, proc, excuse>>
  BY DEF Admit
<1>1. op[o].kind \notin Holders \cup Remote /\ s \in Sandboxes /\ TypeOK
      /\ box[s].life # "unborn" /\ box[s] \in Box /\ op[o] \in Op
  BY <1>0, Working
<1>2. q \in Op /\ q.on \in {s, Nil} /\ q.at \in {"idle", "call"} /\ Shaped(q)
      /\ q.kind \notin Holders \cup Remote
  <2>1. CASE Reachable(s)
    <3>1. q = [op[o] EXCEPT !.at = "call", !.mine = box[s].reg]
      BY <2>1
    <3> HIDE DEF q
    <3> QED BY <3>1, <1>1 DEF Op, Points, Box, Shaped, Holders, Remote, Deleters
  <2>2. CASE ~Reachable(s)
    BY <2>2, IdleOK DEF Holders, Remote, Deleters
  <2> QED BY <2>1, <2>2
<1>3. Set(s, box[s]) /\ excuse' \in [Sandboxes -> SUBSET Excuses]
  BY <1>0, <1>1 DEF Set, TypeOK
<1> HIDE DEF q
<1> QED BY <1>0, <1>1, <1>2, <1>3, WorkStep

LEMMA CallAnsweredStep == ASSUME IInv, NEW o \in Ops, CallAnswered(o) PROVE IInv'
<1>0. op[o].at = "call" /\ Goto(o, Idle) /\ UNCHANGED <<lock, box, rules, proc, excuse>>
  BY DEF CallAnswered, Return
<1>1. op[o].kind \notin Holders \cup Remote /\ op[o].on \in Sandboxes /\ TypeOK
      /\ box[op[o].on].life # "unborn" /\ box[op[o].on] \in Box
  BY <1>0, Working
<1>2. Set(op[o].on, box[op[o].on]) /\ excuse' \in [Sandboxes -> SUBSET Excuses]
  BY <1>0, <1>1 DEF Set, TypeOK
<1>3. Idle.kind \notin Holders \cup Remote
  BY IdleOK DEF Holders, Remote, Deleters
<1> QED BY <1>0, <1>1, <1>2, <1>3, IdleOK, WorkStep

LEMMA CallFailsStep == ASSUME IInv, NEW o \in Ops, CallFails(o) PROVE IInv'
<1> DEFINE s == op[o].on
           q == IF op[o].kind = "transfer" THEN [op[o] EXCEPT !.at = "retry", !.mine = Nil] ELSE Idle
<1>0. op[o].at = "call" /\ Goto(o, q) /\ UNCHANGED <<lock, rules, proc, excuse>>
  BY DEF CallFails
<1>1. op[o].kind \notin Holders \cup Remote /\ s \in Sandboxes /\ TypeOK
      /\ box[s].life # "unborn" /\ box[s] \in Box /\ op[o] \in Op
  BY <1>0, Working
<1>2. PICK fatal \in BOOLEAN : Set(s, [box[s] EXCEPT !.ready = @ /\ ~fatal])
  BY DEF CallFails
<1> DEFINE c == [box[s] EXCEPT !.ready = @ /\ ~fatal]
<1>3. c \in Box /\ c.life = box[s].life /\ c.reg = box[s].reg
  <2>1. (box[s].ready /\ ~fatal) \in BOOLEAN
    OBVIOUS
  <2> QED BY <2>1, <1>1 DEF Box
<1>4. q \in Op /\ q.on \in {s, Nil} /\ q.at \in {"idle", "retry"} /\ Shaped(q)
      /\ q.kind \notin Holders \cup Remote
  <2>1. CASE op[o].kind = "transfer"
    <3>1. q = [op[o] EXCEPT !.at = "retry", !.mine = Nil]
      BY <2>1
    <3> HIDE DEF q
    <3> QED BY <2>1, <3>1, <1>1 DEF Op, Points, Shaped, Holders, Remote, Deleters
  <2>2. CASE op[o].kind # "transfer"
    BY <2>2, IdleOK DEF Holders, Remote, Deleters
  <2> QED BY <2>1, <2>2
<1>5. excuse' \in [Sandboxes -> SUBSET Excuses] /\ excuse' = excuse /\ Set(s, c)
  BY <1>0, <1>1, <1>2 DEF TypeOK
<1> HIDE DEF c, q
<1> QED BY <1>0, <1>1, <1>3, <1>4, <1>5, WorkStep

LEMMA FallbackStep == ASSUME IInv, NEW o \in Ops, Fallback(o) PROVE IInv'
<1> DEFINE s == op[o].on
           q == IF box[s].life = "READY" THEN [Call("exec", s) EXCEPT !.at = "gate"] ELSE Idle
<1>0. op[o].at = "retry" /\ Goto(o, q) /\ UNCHANGED <<lock, box, rules, proc, excuse>>
  BY DEF Fallback
<1>1. op[o].kind \notin Holders \cup Remote /\ s \in Sandboxes /\ TypeOK
      /\ box[s].life # "unborn" /\ box[s] \in Box
  BY <1>0, Working
<1>2. q \in Op /\ q.on \in {s, Nil} /\ q.at \in {"idle", "gate"} /\ Shaped(q)
      /\ q.kind \notin Holders \cup Remote
  BY <1>1, IdleOK DEF Call, Idle, Op, Points, Kinds, Box, Shaped, Holders, Remote, Deleters
<1>3. Set(s, box[s]) /\ excuse' \in [Sandboxes -> SUBSET Excuses]
  BY <1>0, <1>1 DEF Set, TypeOK
<1> HIDE DEF q
<1> QED BY <1>0, <1>1, <1>2, <1>3, WorkStep

LEMMA BackgroundUpStep == ASSUME IInv, NEW o \in Ops, BackgroundUp(o) PROVE IInv'
<1> DEFINE s == op[o].on
           c == [box[s] EXCEPT !.bg = IF Alive(op[o].mine) THEN @ \cup {op[o].mine} ELSE @]
<1>0. op[o].at = "bgrace" /\ Goto(o, Idle) /\ UNCHANGED <<lock, rules, proc>> /\ Set(s, c)
  BY DEF BackgroundUp, Return
<1>1. op[o].kind \notin Holders \cup Remote /\ s \in Sandboxes /\ TypeOK /\ op[o].mine \in Procs
      /\ box[s].life # "unborn" /\ box[s] \in Box
  BY <1>0, Working
<1>2. c \in Box /\ c.life = box[s].life /\ c.reg = box[s].reg
  BY <1>1 DEF Box
<1>3. excuse' = excuse \/ excuse' = [excuse EXCEPT ![s] = @ \cup {"late"}]
  BY DEF BackgroundUp, Excuse
<1>4. excuse' \in [Sandboxes -> SUBSET Excuses] /\ \A x \in Sandboxes : excuse[x] \subseteq excuse'[x]
  BY <1>1, <1>3 DEF TypeOK, Excuses
<1>5. Idle.kind \notin Holders \cup Remote
  BY IdleOK DEF Holders, Remote, Deleters
<1> HIDE DEF c
<1> QED BY <1>0, <1>1, <1>2, <1>4, <1>5, IdleOK, WorkStep

LEMMA RunBackgroundStep ==
  ASSUME IInv, NEW o \in Ops, NEW s \in Sandboxes, RunBackground(o, s)
  PROVE  IInv'
<1>0. /\ TypeOK /\ box[s] \in Box /\ box[s].life = "READY" /\ op[o].kind = "none"
      /\ UNCHANGED <<lock, rules, excuse>>
  BY DEF RunBackground, Free, IInv, Inv, TypeOK, ShapedCalls, Shaped
<1>1. PICK p \in Procs :
          /\ proc[p].st = "unused"
          /\ proc' = [proc EXCEPT ![p] = [st |-> "background", of |-> s]]
          /\ Goto(o, [Call("background", s) EXCEPT !.at = "bgrace", !.mine = p])
  BY DEF RunBackground
<1> DEFINE q == [Call("background", s) EXCEPT !.at = "bgrace", !.mine = p]
           c == [box[s] EXCEPT !.bg = {x \in @ : Alive(x)}]
           v == [st |-> "background", of |-> s]
<1>2. q \in Op /\ q.on = s /\ q.at = "bgrace" /\ Shaped(q) /\ q.kind \notin Holders \cup Remote
  BY DEF Call, Idle, Op, Points, Kinds, Shaped, Holders, Remote, Deleters
<1>3. c \in Box /\ c.life = box[s].life /\ c.reg = box[s].reg
  BY <1>0 DEF Box
<1>4. Comes(p)
  <2>1. v \in [st : {"unused", "daemon", "background", "dead"}, of : Sandboxes \cup {Nil}]
        /\ v.st = "background"
    OBVIOUS
  <2> QED BY <2>1, <1>1 DEF Comes
<1>5. Set(s, c) /\ Goto(o, q) /\ excuse' \in [Sandboxes -> SUBSET Excuses] /\ "none" \notin Holders
  BY <1>0, <1>1 DEF RunBackground, TypeOK, Holders
<1> HIDE DEF c, q
<1> QED BY <1>0, <1>2, <1>3, <1>4, <1>5, WorkStep

-----------------------------------------------------------------------------
(* The theorems.                                                           *)

LEMMA InitOK == ASSUME Init PROVE IInv
<1>1. TypeOK
  BY IdleOK DEF Init, TypeOK, Box, Life
<1>2. LockOwner
  BY IdleOK, NilAssumption DEF Init, LockOwner, Holders
<1>3. ShapedCalls /\ Born /\ Registered
  BY IdleOK DEF Init, ShapedCalls, Born, Registered
<1>4. MineIsReg /\ RestartAlone /\ NoOrphanDaemon
  BY IdleOK DEF Init, MineIsReg, RestartAlone, NoOrphanDaemon
<1> QED BY <1>1, <1>2, <1>3, <1>4 DEF IInv, Inv

LEMMA NextOK == ASSUME IInv, [Next]_vars PROVE IInv'
<1>1. CASE UNCHANGED vars
  BY <1>1 DEF vars, IInv, Inv, TypeOK, LockOwner, ShapedCalls, Born, Registered, MineIsReg,
              RestartAlone, NoOrphanDaemon, Alive, Busy
<1>2. ASSUME NEW o \in Ops,
             \/ GraceEnds(o) \/ CreateCommits(o) \/ CreateFails(o)
             \/ VictimsGone(o) \/ WaitEnds(o) \/ GivesUp(o)
             \/ Removed(o) \/ Shutdown(o) \/ ShutdownNext(o)
             \/ Admit(o) \/ CallAnswered(o) \/ CallFails(o) \/ Fallback(o) \/ BackgroundUp(o)
      PROVE  IInv'
  BY <1>2, GraceEndsStep, CreateCommitsStep, CreateFailsStep, VictimsGoneStep, WaitEndsStep,
     GivesUpStep, RemovedStep, ShutdownStep, ShutdownNextStep, CallAnsweredStep, CallFailsStep,
     FallbackStep, BackgroundUpStep, AdmitStep
<1>3. ASSUME NEW o \in Ops, NEW s \in Sandboxes,
             \/ Create(o, s) \/ StartSandbox(o, s) \/ DeleteSandbox(o, s) \/ RunBackground(o, s)
             \/ \E k \in {"stop", "restart"} : StopSandbox(o, s, k)
             \/ \E k \in {"exec", "transfer"} : UseSandbox(o, s, k)
      PROVE  IInv'
  BY <1>3, CreateStep, StartSandboxStep, DeleteSandboxStep, RunBackgroundStep, StopSandboxStep,
     UseSandboxStep
<1> QED BY <1>1, <1>2, <1>3, GetSandboxStep, ExitsStep DEF Next

LEMMA Invariance == Spec => []IInv
<1>1. Init => IInv
  BY InitOK
<1>2. IInv /\ [Next]_vars => IInv'
  BY NextOK
<1> QED BY <1>1, <1>2, PTL DEF Spec

\* What manager, runtime and calls keep always has its type.
THEOREM TypeCorrect == Spec => []TypeOK
<1>1. IInv => TypeOK
  BY DEF IInv
<1> QED BY <1>1, Invariance, PTL

\* Whatever calls overlap, and whatever crashes or outlives its SIGKILL: the
\* daemons that run are the registered ones, so that stop, delete and shutdown
\* find them, unless a start or restart of the sandbox was called while its
\* creation or deletion was in progress.
THEOREM NoDaemonLost == Spec => []NoOrphanDaemon
<1>1. IInv => NoOrphanDaemon
  BY DEF IInv, Inv
<1> QED BY <1>1, Invariance, PTL

-----------------------------------------------------------------------------
(* The firewall rule.  A sandbox with a daemon that is registered and runs   *)
(* has rules of its own (Walled), and the count is at least the number of    *)
(* sandboxes that have some (Enough): whatever takes one off the count takes *)
(* the rules off a sandbox.                                                  *)

Users == {s \in Sandboxes : box[s].fw}
Walled == \A s \in Sandboxes : Alive(box[s].reg) => box[s].fw
Enough == IsFiniteSet(Users) /\ rules >= Cardinality(Users)
Ruled == Walled /\ Enough

Weight(b) == IF b.fw THEN 1 ELSE 0

\* Record b and count n, which a call has made of those of s so far, are in
\* balance, and b has rules, no daemon, or what was there.
Balanced(s, b, n) ==
    /\ b \in Box /\ n \in Nat
    /\ n + Weight(box[s]) >= rules + Weight(b)
    /\ b.fw \/ b.reg = Nil \/ (b.reg = box[s].reg /\ ~box[s].fw)

\* Nothing comes back to life.
Onward == \A p \in Procs : proc'[p] # proc[p] => proc[p].st = "unused" \/ proc'[p].st = "dead"

LEMMA Shift ==
  ASSUME NEW m \in Nat, NEW n \in Nat, NEW v \in {0, 1}, NEW w \in {0, 1}, NEW k \in Nat,
         m + v >= n + w, n >= k
  PROVE  /\ v = w => m >= k
         /\ v = 0 /\ w = 1 => m >= k + 1
         /\ v = 1 /\ w = 0 => m >= k - 1
  OBVIOUS

LEMMA BalancedStep ==
  ASSUME IInv, Ruled, NEW s \in Sandboxes, NEW b, Balanced(s, b, rules'), Set(s, b), Onward
  PROVE  Ruled'
<1>0. TypeOK /\ Registered /\ box[s] \in Box /\ rules \in Nat
  BY DEF IInv, Inv, TypeOK
<1>1. \A x \in Sandboxes : box'[x] = IF x = s THEN b ELSE box[x]
  BY <1>0 DEF Set, TypeOK
<1>2. Walled'
  <2> SUFFICES ASSUME NEW x \in Sandboxes, Alive(box[x].reg)'
               PROVE  box'[x].fw
    BY DEF Walled
  <2>1. CASE box'[x].reg # box[x].reg
    BY <1>1, <2>1 DEF Balanced, Alive
  <2>2. CASE box'[x].reg = box[x].reg
    <3> DEFINE q == box[x].reg
    <3>1. q # Nil /\ q \in Procs /\ proc'[q].st \in {"daemon", "background"}
      BY <1>0, <2>2 DEF Alive, TypeOK, Box
    <3>a. proc[q].st = "dead" \/ proc[q] = [st |-> "daemon", of |-> x]
      BY <1>0, <3>1 DEF Registered
    <3>b. proc[q].st # "unused"
      BY <3>a
    <3>2. proc'[q] = proc[q]
      BY <3>1, <3>b DEF Onward
    <3>3. Alive(q)
      BY <3>1, <3>2 DEF Alive
    <3>4. box[x].fw
      BY <3>3 DEF Walled, Ruled
    <3> QED BY <1>1, <2>2, <3>1, <3>4 DEF Balanced
  <2> QED BY <2>1, <2>2
<1>3. Enough'
  <2>0. IsFiniteSet(Users) /\ Cardinality(Users) \in Nat /\ rules >= Cardinality(Users)
    BY FS_CardinalityType DEF Ruled, Enough
  <2>1. CASE b.fw /\ ~box[s].fw
    <3>1. Users' = Users \cup {s} /\ s \notin Users
      BY <1>1, <2>1 DEF Users
    <3>2. IsFiniteSet(Users') /\ Cardinality(Users') = Cardinality(Users) + 1
      BY <2>0, <3>1, FS_AddElement
    <3>3. Weight(b) = 1 /\ Weight(box[s]) = 0
      BY <2>1 DEF Weight
    <3>4. rules' >= Cardinality(Users')
      <4>1. /\ Weight(b) \in {0, 1} /\ Weight(box[s]) \in {0, 1} /\ rules' \in Nat
            /\ rules' + Weight(box[s]) >= rules + Weight(b)
        BY <3>3 DEF Balanced
      <4>2. rules' >= Cardinality(Users) + 1
        BY ONLY <1>0, <2>0, <3>3, <4>1, Shift, Zenon
      <4> QED BY <3>2, <4>2
    <3> QED BY <3>2, <3>4 DEF Enough
  <2>2. CASE ~b.fw /\ box[s].fw
    <3>1. Users' = Users \ {s} /\ s \in Users
      BY <1>1, <2>2 DEF Users
    <3>2. IsFiniteSet(Users') /\ Cardinality(Users') = Cardinality(Users) - 1
      BY <2>0, <3>1, FS_RemoveElement
    <3>3. Weight(b) = 0 /\ Weight(box[s]) = 1
      BY <2>2 DEF Weight
    <3>4. rules' >= Cardinality(Users')
      <4>1. /\ Weight(b) \in {0, 1} /\ Weight(box[s]) \in {0, 1} /\ rules' \in Nat
            /\ rules' + Weight(box[s]) >= rules + Weight(b)
        BY <3>3 DEF Balanced
      <4>2. rules' >= Cardinality(Users) - 1
        BY ONLY <1>0, <2>0, <3>3, <4>1, Shift, Zenon
      <4> QED BY <3>2, <4>2
    <3> QED BY <3>2, <3>4 DEF Enough
  <2>3. CASE b.fw <=> box[s].fw
    <3>1. Users' = Users
      BY <1>1, <2>3 DEF Users
    <3>2. rules' >= rules /\ rules' \in Nat
      <4>1. b.fw \in BOOLEAN /\ box[s].fw \in BOOLEAN
        BY <1>0 DEF Balanced, Box
      <4>2. Weight(b) = Weight(box[s]) /\ Weight(b) \in {0, 1}
        BY <2>3, <4>1 DEF Weight
      <4> QED BY <1>0, <4>2 DEF Balanced
    <3> QED BY <1>0, <2>0, <3>1, <3>2 DEF Enough
  <2> QED BY <2>1, <2>2, <2>3
<1> QED BY <1>2, <1>3 DEF Ruled

\* Other fields may change.
LEMMA Rebalanced ==
  ASSUME NEW s, NEW b, NEW n, NEW c, Balanced(s, b, n), c \in Box, c.fw = b.fw,
         c.reg \in {b.reg, Nil}
  PROVE  Balanced(s, c, n)
  BY DEF Balanced, Weight

LEMMA Unruled ==
  ASSUME TypeOK, NEW s \in Sandboxes, NEW b \in Box, b.fw = box[s].fw,
         NEW c \in Box, c.reg = Nil, ~c.fw
  PROVE  Balanced(s, c, Unrule(b))
<1>1. rules \in Nat
  BY DEF TypeOK
<1>2. Unrule(b) \in Nat /\ Unrule(b) + Weight(b) >= rules
  BY <1>1 DEF Unrule, Weight
<1>3. Weight(b) = Weight(box[s]) /\ Weight(c) = 0
  BY DEF Weight
<1> QED BY <1>1, <1>2, <1>3 DEF Balanced

LEMMA FailureBalanced ==
  ASSUME TypeOK, NEW s \in Sandboxes, NEW b \in Box, NEW n \in Nat, Balanced(s, b, n),
         NEW f \in LaunchFailures(b, n)
  PROVE  Balanced(s, f.box, f.rules)
<1>0. f.box \in Box /\ f.rules \in Nat /\ f.box.reg = Nil /\ rules \in Nat /\ Weight(box[s]) \in {0, 1}
  BY FailureOK DEF TypeOK, Weight
<1>1. \/ f.box.fw = b.fw /\ f.rules = n
      \/ ~f.box.fw /\ f.rules = n
      \/ f.box.fw /\ f.rules = n + 1
  <2>1. CASE f = [box |-> [b EXCEPT !.reg = Nil, !.dirs = TRUE], rules |-> n]
    BY <2>1 DEF Box
  <2>2. CASE f = [box |-> [b EXCEPT !.reg = Nil, !.ready = FALSE, !.dirs = FALSE, !.fw = FALSE],
                  rules |-> n]
    BY <2>2 DEF Box
  <2>3. ASSUME NEW m, m = n + 1,
               f = [box |-> [b EXCEPT !.reg = Nil, !.dirs = TRUE, !.fw = TRUE], rules |-> m]
        PROVE  f.box.fw /\ f.rules = m
    BY <2>3 DEF Box
  <2> QED BY <2>1, <2>2, <2>3 DEF LaunchFailures
<1>2. f.rules + Weight(b) >= n + Weight(f.box)
  BY <1>1 DEF Weight
<1>3. Weight(b) \in {0, 1} /\ Weight(f.box) \in {0, 1}
  BY DEF Weight
<1> QED BY <1>0, <1>2, <1>3 DEF Balanced

LEMMA LaunchRuled ==
  ASSUME IInv, Ruled, NEW o, NEW s \in Sandboxes, NEW b, NEW n, NEW r,
         Balanced(s, b, n), Launch(o, s, b, n, r)
  PROVE  Ruled'
<1>1. PICK p \in Procs :
         /\ proc[p].st = "unused"
         /\ proc' = [proc EXCEPT ![p] = [st |-> "daemon", of |-> s]]
         /\ Set(s, [b EXCEPT !.reg = p, !.ready = FALSE, !.dirs = TRUE, !.fw = TRUE])
         /\ rules' = n + 1
  BY Zenon DEF Launch
<1> DEFINE c == [b EXCEPT !.reg = p, !.ready = FALSE, !.dirs = TRUE, !.fw = TRUE]
<1>2. c \in Box /\ c.fw
  BY DEF Box, Balanced
<1>3. Weight(c) = 1 /\ Weight(b) \in {0, 1} /\ Weight(box[s]) \in {0, 1} /\ rules \in Nat /\ n \in Nat
  BY <1>2 DEF Weight, Balanced, IInv, TypeOK
<1> HIDE DEF c
<1>4. Balanced(s, c, rules')
  BY <1>1, <1>2, <1>3 DEF Balanced
<1>5. Onward
  BY <1>1 DEF Onward, IInv, TypeOK
<1>6. Set(s, c)
  BY <1>1 DEF c
<1> QED BY <1>4, <1>5, <1>6, BalancedStep

LEMMA TryStartRuled ==
  ASSUME IInv, Ruled, NEW o, NEW s \in Sandboxes, NEW b, NEW n, NEW r,
         Balanced(s, b, n), TryStart(o, s, b, n, r)
  PROVE  Ruled'
<1>1. CASE Set(s, [b EXCEPT !.life = IF @ = "READY" THEN @ ELSE "ERROR"]) /\ rules' = n
           /\ UNCHANGED proc
  <2> DEFINE c == [b EXCEPT !.life = IF @ = "READY" THEN @ ELSE "ERROR"]
  <2>1. c \in Box /\ c.fw = b.fw /\ c.reg = b.reg
    BY DEF Balanced, Box, Life
  <2>2. Set(s, c)
    BY <1>1
  <2> HIDE DEF c
  <2> QED BY <1>1, <2>1, <2>2, Rebalanced, BalancedStep DEF Onward
<1>2. CASE (\E f \in LaunchFailures(b, n) : Set(s, [f.box EXCEPT !.life = "ERROR"]) /\ rules' = f.rules)
           /\ UNCHANGED proc
  <2>1. PICK f \in LaunchFailures(b, n) : Set(s, [f.box EXCEPT !.life = "ERROR"]) /\ rules' = f.rules
    BY <1>2
  <2> DEFINE c == [f.box EXCEPT !.life = "ERROR"]
  <2>2. Balanced(s, f.box, f.rules)
    BY FailureBalanced DEF Balanced, IInv
  <2>3. c \in Box /\ c.fw = f.box.fw /\ c.reg = f.box.reg
    BY <2>2 DEF Balanced, Box, Life
  <2>4. Set(s, c)
    BY <2>1
  <2> HIDE DEF c
  <2> QED BY <1>2, <2>1, <2>2, <2>3, <2>4, Rebalanced, BalancedStep DEF Onward
<1> QED BY <1>1, <1>2, LaunchRuled DEF TryStart

LEMMA AfterStopRuled ==
  ASSUME IInv, Ruled, NEW o, NEW s \in Sandboxes, NEW b, NEW n, NEW r,
         Balanced(s, b, n), AfterStop(o, s, b, n, r)
  PROVE  Ruled'
<1> DEFINE c == [b EXCEPT !.life = "STOPPED"]
<1>1. c \in Box /\ c.fw = b.fw /\ c.reg = b.reg
  BY DEF Balanced, Box, Life
<1>2. Clean(b) \in Box /\ Clean(b).fw = b.fw /\ Clean(b).reg = Nil
  BY DEF Balanced, Box, Clean
<1>3. Balanced(s, c, n) /\ Balanced(s, Clean(b), n)
  BY <1>1, <1>2, Rebalanced
<1>4. \/ Set(s, c) /\ rules' = n /\ UNCHANGED proc
      \/ TryStart(o, s, c, n, r)
      \/ Set(s, Clean(b)) /\ rules' = n /\ UNCHANGED proc
  BY DEF AfterStop
<1> HIDE DEF c
<1> QED BY <1>3, <1>4, TryStartRuled, BalancedStep DEF Onward

LEMMA StopDaemonRuled ==
  ASSUME IInv, Ruled, NEW o, NEW s \in Sandboxes, NEW b \in Box, NEW r,
         b.fw = box[s].fw, b.reg = box[s].reg, StopDaemon(o, s, b, r)
  PROVE  Ruled'
<1>0. TypeOK /\ rules \in Nat /\ box[s] \in Box
  BY DEF IInv, TypeOK
<1>1. Balanced(s, b, rules)
  BY <1>0 DEF Balanced, Weight, Box
<1>2. CASE Set(s, b) /\ UNCHANGED <<rules, proc>>
  BY <1>1, <1>2, BalancedStep DEF Onward
<1>3. CASE AfterStop(o, s, [b EXCEPT !.reg = Nil, !.fw = FALSE], Unrule(b), r)
  <2> DEFINE c == [b EXCEPT !.reg = Nil, !.fw = FALSE]
  <2>1. c \in Box /\ c.reg = Nil /\ ~c.fw
    BY DEF Box
  <2>2. AfterStop(o, s, c, Unrule(b), r)
    BY <1>3
  <2> HIDE DEF c
  <2> QED BY <1>0, <2>1, <2>2, Unruled, AfterStopRuled
<1> QED BY <1>2, <1>3 DEF StopDaemon, Suspend

LEMMA StopRuled ==
  ASSUME IInv, Ruled, NEW o, NEW s \in Sandboxes, NEW b \in Box, NEW r,
         b.fw = box[s].fw, b.reg = box[s].reg, Stop(o, s, b, r)
  PROVE  Ruled'
<1> DEFINE c == [b EXCEPT !.bg = {}]
<1>0. rules \in Nat /\ box[s] \in Box
  BY DEF IInv, TypeOK
<1>1. c \in Box /\ c.fw = b.fw /\ c.reg = b.reg
  BY DEF Box
<1>2. (Set(s, c) /\ UNCHANGED <<rules, proc>>) \/ StopDaemon(o, s, c, r)
  BY DEF Stop, Suspend
<1> HIDE DEF c
<1>3. Balanced(s, c, rules)
  BY <1>0, <1>1 DEF Balanced, Weight, Box
<1> QED BY <1>1, <1>2, <1>3, StopDaemonRuled, BalancedStep DEF Onward

\* A step that leaves rules and registered daemons as they are.
LEMMA AsideRuled ==
  ASSUME IInv, Ruled, rules' = rules, Onward,
         \/ box' = box
         \/ \E s \in Sandboxes : \E c \in Box :
               Set(s, c) /\ c.fw = box[s].fw /\ c.reg = box[s].reg
  PROVE  Ruled'
<1>0. TypeOK /\ rules \in Nat
  BY DEF IInv, TypeOK
<1>1. ASSUME NEW s \in Sandboxes, NEW c \in Box, Set(s, c), c.fw = box[s].fw, c.reg = box[s].reg
      PROVE  Ruled'
  <2>1. box[s] \in Box
    BY <1>0 DEF TypeOK
  <2>2. Balanced(s, c, rules')
    BY <1>0, <1>1, <2>1 DEF Balanced, Weight, Box
  <2> QED BY <1>1, <2>2, BalancedStep
<1>2. CASE box' = box
  <2>1. CASE Sandboxes = {}
    <3>1. Users' = Users
      BY <2>1 DEF Users
    <3> QED BY <2>1, <3>1 DEF Ruled, Walled, Enough
  <2>2. ASSUME NEW s \in Sandboxes PROVE Ruled'
    <3>1. box[s] \in Box /\ Set(s, box[s])
      BY <1>0, <1>2 DEF TypeOK, Set
    <3> QED BY <1>1, <3>1
  <2> QED BY <2>1, <2>2
<1> QED BY <1>1, <1>2

LEMMA GraceEndsRuled == ASSUME IInv, Ruled, NEW o \in Ops, GraceEnds(o) PROVE Ruled'
<1> DEFINE s == op[o].on
           b == box[s]
           up == [b EXCEPT !.ready = TRUE]
           down == [b EXCEPT !.reg = Nil, !.ready = FALSE, !.dirs = FALSE, !.fw = FALSE]
<1>0. TypeOK /\ s \in Sandboxes /\ b \in Box /\ rules \in Nat
  BY Suspended DEF GraceEnds
<1>1. /\ up \in Box /\ up.fw = b.fw /\ up.reg = b.reg
      /\ [up EXCEPT !.life = "READY"] \in Box
      /\ [up EXCEPT !.life = "READY"].fw = b.fw /\ [up EXCEPT !.life = "READY"].reg = b.reg
  BY <1>0 DEF Box, Life
<1>2. /\ down \in Box /\ ~down.fw /\ down.reg = Nil
      /\ [down EXCEPT !.life = "ERROR"] \in Box
      /\ ~[down EXCEPT !.life = "ERROR"].fw /\ [down EXCEPT !.life = "ERROR"].reg = Nil
  BY <1>0 DEF Box, Life
<1>3. CASE Alive(op[o].mine)
  <2>1. Set(s, up) \/ Set(s, [up EXCEPT !.life = "READY"])
    BY <1>3 DEF GraceEnds
  <2>2. rules' = rules /\ Onward
    BY <1>3 DEF GraceEnds, Onward
  <2> HIDE DEF up
  <2> QED BY <1>0, <1>1, <2>1, <2>2, AsideRuled
<1>4. CASE ~Alive(op[o].mine)
  <2>1. Set(s, down) \/ Set(s, [down EXCEPT !.life = "ERROR"])
    BY <1>4 DEF GraceEnds
  <2>2. rules' = Unrule(b) /\ Onward
    BY <1>4 DEF GraceEnds, Onward
  <2> HIDE DEF down
  <2> QED BY <1>0, <1>2, <2>1, <2>2, Unruled, BalancedStep
<1> QED BY <1>3, <1>4

LEMMA WaitEndsRuled == ASSUME IInv, Ruled, NEW o \in Ops, WaitEnds(o) PROVE Ruled'
<1> DEFINE s == op[o].on
           c == [box[s] EXCEPT !.reg = Nil, !.ready = FALSE, !.fw = FALSE]
<1>0. TypeOK /\ s \in Sandboxes /\ box[s] \in Box
  BY Suspended DEF WaitEnds
<1>1. c \in Box /\ ~c.fw /\ c.reg = Nil
  BY <1>0 DEF Box
<1>2. AfterStop(o, s, c, Unrule(box[s]), op[o])
  BY DEF WaitEnds
<1> HIDE DEF c
<1> QED BY <1>0, <1>1, <1>2, Unruled, AfterStopRuled

LEMMA CreateRuled ==
  ASSUME IInv, Ruled, NEW o \in Ops, NEW s \in Sandboxes, Create(o, s) PROVE Ruled'
<1> DEFINE b == [box[s] EXCEPT !.life = "PROVISIONING"]
<1>0. TypeOK /\ box[s] \in Box /\ rules \in Nat
  BY DEF IInv, TypeOK
<1>1. b \in Box /\ b.fw = box[s].fw /\ b.reg = box[s].reg
  BY <1>0 DEF Box, Life
<1>2. \/ Launch(o, s, b, rules, Call("create", s))
      \/ (\E f \in LaunchFailures(b, rules) : Set(s, f.box) /\ rules' = f.rules) /\ UNCHANGED proc
  BY DEF Create
<1> HIDE DEF b
<1>3. Balanced(s, b, rules)
  BY <1>0, <1>1 DEF Balanced, Weight, Box
<1>4. CASE (\E f \in LaunchFailures(b, rules) : Set(s, f.box) /\ rules' = f.rules) /\ UNCHANGED proc
  <2>1. PICK f \in LaunchFailures(b, rules) : Set(s, f.box) /\ rules' = f.rules
    BY <1>4
  <2>2. Balanced(s, f.box, rules')
    BY <1>0, <1>1, <1>3, <2>1, FailureBalanced
  <2> QED BY <1>4, <2>1, <2>2, BalancedStep DEF Onward
<1> QED BY <1>2, <1>3, <1>4, LaunchRuled

\* Stops that begin with a change of the phase.
LEMMA DeletingOK ==
  ASSUME IInv, NEW s \in Sandboxes
  PROVE  /\ box[s] \in Box
         /\ [box[s] EXCEPT !.life = "DELETING"] \in Box
         /\ [box[s] EXCEPT !.life = "DELETING"].fw = box[s].fw
         /\ [box[s] EXCEPT !.life = "DELETING"].reg = box[s].reg
  BY DEF IInv, TypeOK, Box, Life

LEMMA StopsRuled ==
  ASSUME IInv, Ruled, NEW o \in Ops,
         \/ CreateCommits(o) \/ VictimsGone(o) \/ ShutdownNext(o)
         \/ \E s \in Sandboxes :
               \/ DeleteSandbox(o, s)
               \/ \E k \in {"stop", "restart"} : StopSandbox(o, s, k)
  PROVE  Ruled'
<1>1. CASE CreateCommits(o)
  <2> DEFINE s == op[o].on
             c == [box[s] EXCEPT !.life = "READY"]
  <2>0. s \in Sandboxes /\ box[s] \in Box
    BY <1>1, Suspended DEF CreateCommits
  <2>1. c \in Box /\ c.fw = box[s].fw /\ c.reg = box[s].reg
    BY <2>0 DEF Box, Life
  <2>2. (Set(s, c) /\ UNCHANGED <<rules, proc>>) \/ Stop(o, s, box[s], op[o])
    BY <1>1 DEF CreateCommits
  <2> HIDE DEF c
  <2> QED BY <2>0, <2>1, <2>2, AsideRuled, StopRuled DEF Onward
<1>2. CASE VictimsGone(o)
  <2>1. op[o].on \in Sandboxes /\ box[op[o].on] \in Box
    BY <1>2, Suspended DEF VictimsGone
  <2> QED BY <1>2, <2>1, StopDaemonRuled DEF VictimsGone
<1>3. CASE ShutdownNext(o)
  <2>1. op[o].todo \subseteq Sandboxes
    BY DEF IInv, TypeOK, Op
  <2>2. CASE UNCHANGED <<box, rules, proc>>
    BY <2>2, AsideRuled DEF Onward
  <2>3. ASSUME NEW s \in op[o].todo,
               Stop(o, s, [box[s] EXCEPT !.life = "DELETING"],
                    [op[o] EXCEPT !.on = s, !.todo = @ \ {s}])
        PROVE  Ruled'
    <3> DEFINE b == [box[s] EXCEPT !.life = "DELETING"]
               r == [op[o] EXCEPT !.on = s, !.todo = @ \ {s}]
    <3>1. s \in Sandboxes /\ b \in Box /\ b.fw = box[s].fw /\ b.reg = box[s].reg
      BY <2>1, DeletingOK
    <3>2. Stop(o, s, b, r)
      BY <2>3
    <3> HIDE DEF b, r
    <3> QED BY <3>1, <3>2, StopRuled
  <2> QED BY <1>3, <2>2, <2>3 DEF ShutdownNext
<1>4. ASSUME NEW s \in Sandboxes, DeleteSandbox(o, s) PROVE Ruled'
  BY <1>4, DeletingOK, StopRuled DEF DeleteSandbox
<1>5. ASSUME NEW s \in Sandboxes, NEW k \in {"stop", "restart"}, StopSandbox(o, s, k) PROVE Ruled'
  <2>1. Stop(o, s, box[s], Call(k, s)) /\ box[s] \in Box
    BY <1>5, DeletingOK DEF StopSandbox
  <2> QED BY <2>1, StopRuled
<1> QED BY <1>1, <1>2, <1>3, <1>4, <1>5

\* One call ends, or goes on, and leaves rules and daemons alone.
LEMMA WorkRuled ==
  ASSUME IInv, Ruled, NEW o \in Ops,
         CreateFails(o) \/ Removed(o) \/ CallFails(o) \/ BackgroundUp(o)
  PROVE  Ruled'
<1> DEFINE s == op[o].on
<1>0. s \in Sandboxes /\ box[s] \in Box
  <2>1. op[o].at \in {"failed", "removing", "call", "bgrace"}
    BY DEF CreateFails, Removed, CallFails, BackgroundUp
  <2> QED BY <2>1, Suspended
<1>1. rules' = rules /\ proc' = proc
  BY DEF CreateFails, Removed, CallFails, BackgroundUp
<1>2. ASSUME NEW c \in Box, Set(s, c), c.fw = box[s].fw, c.reg = box[s].reg
      PROVE  Ruled'
  BY <1>0, <1>1, <1>2, AsideRuled DEF Onward
<1>3. CASE CreateFails(o)
  <2> DEFINE c == [box[s] EXCEPT !.life = IF Doomed(s) THEN @ ELSE "ERROR"]
  <2>1. c \in Box /\ c.fw = box[s].fw /\ c.reg = box[s].reg
    BY <1>0 DEF Box, Life
  <2>2. Set(s, c)
    BY <1>3 DEF CreateFails
  <2> HIDE DEF c
  <2> QED BY <1>2, <2>1, <2>2
<1>4. CASE Removed(o)
  <2> DEFINE c == [box[s] EXCEPT !.life = "gone"]
  <2>1. c \in Box /\ c.fw = box[s].fw /\ c.reg = box[s].reg
    BY <1>0 DEF Box, Life
  <2>2. Set(s, c)
    BY <1>4 DEF Removed
  <2> HIDE DEF c
  <2> QED BY <1>2, <2>1, <2>2
<1>5. CASE CallFails(o)
  <2>1. PICK fatal \in BOOLEAN : Set(s, [box[s] EXCEPT !.ready = @ /\ ~fatal])
    BY <1>5, Zenon DEF CallFails
  <2> DEFINE c == [box[s] EXCEPT !.ready = @ /\ ~fatal]
  <2>2. (box[s].ready /\ ~fatal) \in BOOLEAN
    OBVIOUS
  <2>3. c \in Box /\ c.fw = box[s].fw /\ c.reg = box[s].reg
    BY <1>0, <2>2 DEF Box
  <2>4. Set(s, c)
    BY <2>1
  <2> HIDE DEF c
  <2> QED BY <1>2, <2>3, <2>4
<1>6. CASE BackgroundUp(o)
  <2> DEFINE c == [box[s] EXCEPT !.bg = IF Alive(op[o].mine) THEN @ \cup {op[o].mine} ELSE @]
  <2>1. op[o].mine \in Procs
    BY <1>6, Working DEF BackgroundUp
  <2>2. c \in Box /\ c.fw = box[s].fw /\ c.reg = box[s].reg
    BY <1>0, <2>1 DEF Box
  <2>3. Set(s, c)
    BY <1>6 DEF BackgroundUp
  <2> HIDE DEF c
  <2> QED BY <1>2, <2>2, <2>3
<1> QED BY <1>3, <1>4, <1>5, <1>6

LEMMA RunBackgroundRuled ==
  ASSUME IInv, Ruled, NEW o \in Ops, NEW s \in Sandboxes, RunBackground(o, s)
  PROVE  Ruled'
<1> DEFINE c == [box[s] EXCEPT !.bg = {q \in @ : Alive(q)}]
<1>1. c \in Box /\ c.fw = box[s].fw /\ c.reg = box[s].reg
  BY DEF IInv, TypeOK, Box
<1>2. Set(s, c) /\ rules' = rules
  BY Zenon DEF RunBackground
<1>3. Onward
  BY DEF RunBackground, Onward, IInv, TypeOK
<1> HIDE DEF c
<1> QED BY <1>1, <1>2, <1>3, AsideRuled

LEMMA GetSandboxRuled ==
  ASSUME IInv, Ruled, NEW s \in Sandboxes, GetSandbox(s) PROVE Ruled'
<1> DEFINE c == [box[s] EXCEPT !.life = "STOPPED"]
<1>1. c \in Box /\ c.fw = box[s].fw /\ c.reg = box[s].reg
  BY DEF IInv, TypeOK, Box, Life
<1>2. Set(s, c) /\ rules' = rules /\ proc' = proc
  BY DEF GetSandbox
<1> HIDE DEF c
<1> QED BY <1>1, <1>2, AsideRuled DEF Onward

LEMMA UnchangedRuled ==
  ASSUME IInv, Ruled, UNCHANGED <<box, rules>>, proc' = proc \/ \E p \in Procs : Exits(p)
  PROVE  Ruled'
<1>1. Onward
  BY DEF Exits, Onward, IInv, TypeOK
<1> QED BY <1>1, AsideRuled

LEMMA RuledStep == ASSUME IInv, Ruled, [Next]_vars PROVE Ruled'
<1>1. ASSUME NEW o \in Ops, NEW s \in Sandboxes, StartSandbox(o, s) PROVE Ruled'
  <2>1. Balanced(s, box[s], rules)
    BY DEF Balanced, Weight, IInv, TypeOK, Box
  <2> QED BY <1>1, <2>1, TryStartRuled DEF StartSandbox
<1>2. ASSUME NEW o \in Ops,
             \/ GivesUp(o) \/ Shutdown(o) \/ Admit(o) \/ CallAnswered(o) \/ Fallback(o)
             \/ \E s \in Sandboxes, k \in {"exec", "transfer"} : UseSandbox(o, s, k)
      PROVE  Ruled'
  <2>1. UNCHANGED <<box, rules, proc>>
    BY <1>2 DEF GivesUp, Shutdown, Admit, CallAnswered, Fallback, UseSandbox
  <2> QED BY <2>1, UnchangedRuled
<1>3. ASSUME NEW p \in Procs, Exits(p) PROVE Ruled'
  <2>1. UNCHANGED <<box, rules>>
    BY <1>3 DEF Exits
  <2> QED BY <1>3, <2>1, UnchangedRuled
<1>4. CASE UNCHANGED vars
  BY <1>4, UnchangedRuled DEF vars
<1> QED BY <1>1, <1>2, <1>3, <1>4, GraceEndsRuled, WaitEndsRuled, CreateRuled, StopsRuled,
     WorkRuled, RunBackgroundRuled, GetSandboxRuled DEF Next

\* The server's own port stays closed to sandboxes: whatever calls overlap and
\* fail half-way, and however often the rule is counted, it is not removed
\* while a registered daemon runs.
THEOREM RuleKept == Spec => []RuleWhileRunning
<1>1. Init => Ruled
  <2> SUFFICES ASSUME Init PROVE Ruled
    OBVIOUS
  <2>1. Users = {}
    BY DEF Init, Users
  <2> QED BY <2>1, FS_EmptySet DEF Init, Ruled, Walled, Enough, Alive
<1>2. IInv /\ Ruled => RuleWhileRunning
  <2> SUFFICES ASSUME IInv, Ruled, NEW s \in Sandboxes, Alive(box[s].reg)
               PROVE  box[s].fw /\ rules > 0
    BY DEF RuleWhileRunning
  <2>1. s \in Users
    BY DEF Ruled, Walled, Users
  <2>2. Cardinality(Users) \in Nat /\ Cardinality(Users) # 0
    BY <2>1, FS_CardinalityType, FS_EmptySet DEF Ruled, Enough
  <2> QED BY <2>1, <2>2 DEF Ruled, Enough, Users, IInv, TypeOK
<1> QED BY <1>1, <1>2, Invariance, RuledStep, PTL DEF Spec
=============================================================================
