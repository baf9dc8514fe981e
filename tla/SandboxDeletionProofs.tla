-------------------- MODULE SandboxDeletionProofs --------------------
(***************************************************************************)
(* What a deletion of a sandbox leaves: nothing, unless it was disturbed.  *)
(*                                                                         *)
(* A sandbox that is gone, or about to go, has neither daemon, directories *)
(* nor rules (Wiped), since the calls that would give it any exclude       *)
(* deletions or are excused, and nothing alive on its list of background   *)
(* processes (Emptied).  A background process that runs is on that list,   *)
(* or a call that has yet to return has it (Known).                        *)
(***************************************************************************)
EXTENDS SandboxManagerProofs

Runs(p, s) == proc[p] = [st |-> "background", of |-> s]
Bare(b) == b.reg = Nil /\ ~b.dirs /\ ~b.fw

Wiped ==
    \A s \in Sandboxes :
        /\ "mixed" \notin excuse[s]
        /\ box[s].life = "gone" \/ \E o \in Ops : op[o].on = s /\ op[o].at = "removing"
        => Bare(box[s])

HeldEntered == \A o \in Ops : op[o].kind \in Holders => box[op[o].on].life # "gone"

Listed ==
    /\ \A s \in Sandboxes : \A q \in box[s].bg : proc[q].st = "dead" \/ Runs(q, s)
    /\ \A o \in Ops : op[o].at = "bgrace" =>
          proc[op[o].mine].st = "dead" \/ Runs(op[o].mine, op[o].on)

Known ==
    \A s \in Sandboxes : \A p \in Procs : Runs(p, s) =>
        \/ p \in box[s].bg
        \/ \E o \in Ops : /\ op[o].on = s
                          /\ \/ op[o].at = "killing" /\ p \in op[o].victims
                             \/ op[o].at = "bgrace" /\ p = op[o].mine
        \/ "stuck" \in excuse[s]

Emptied ==
    \A s \in Sandboxes :
        /\ "late" \notin excuse[s]
        /\ box[s].life = "gone" \/ \E o \in Ops : op[o].on = s /\ op[o].kind \in Deleters
        => \A q \in box[s].bg : ~Alive(q)

Tidy == Wiped /\ HeldEntered /\ Listed /\ Known /\ Emptied

\* A step in which call o, on sandbox s, leaves b and r behind.
Tidies(o, s, b, r) ==
    /\ Set(s, b) /\ Goto(o, r) /\ b \in Box /\ r \in Op
    /\ op[o].on \in {s, Nil} /\ r.on \in {s, Nil} /\ Shaped(r)
    /\ \A x \in Sandboxes : excuse[x] \subseteq excuse'[x]
    /\ \A p \in Procs : \/ proc'[p] = proc[p] \/ proc'[p].st = "dead"
                        \/ proc[p].st = "unused" /\ proc'[p].st = "daemon"
                        \/ /\ proc[p].st = "unused" /\ proc'[p] = [st |-> "background", of |-> s]
                           /\ r.at = "bgrace" /\ r.on = s /\ r.mine = p

\* It makes the sandbox bare, or gives it nothing, or no deletion is under way.
TidiesBox(o, s, b, r) ==
    /\ \/ Bare(b) \/ "mixed" \in excuse'[s]
       \/ /\ b.reg \in {box[s].reg, Nil} /\ (b.dirs => box[s].dirs) /\ (b.fw => box[s].fw)
          /\ r.at = "removing" => op[o].at = "removing" /\ op[o].on = s
          /\ b.life = "gone" => box[s].life = "gone" \/ (op[o].at = "removing" /\ op[o].on = s)
       \/ b.life # "gone" /\ r.at # "removing" /\ ~Busy(s, o, Remote)
    /\ r.kind \in Holders => b.life # "gone" /\ r.on = s
    /\ b.life = "gone" => box[s].life = "gone" \/ lock = Nil

\* What runs stays on the list, is killed, or comes onto it.
TidiesList(o, s, b, r) ==
    /\ b.bg \subseteq box[s].bg \cup (IF op[o].at = "bgrace" THEN {op[o].mine} ELSE {})
    /\ \A q \in box[s].bg : Alive(q) =>
          q \in b.bg \/ (r.at = "killing" /\ r.on = s /\ q \in r.victims)
    /\ op[o].at = "killing" => "stuck" \in excuse'[s] \/ \A q \in op[o].victims : ~Alive(q)
    /\ op[o].at = "bgrace" => (Alive(op[o].mine) => op[o].mine \in b.bg)
    /\ r.at = "bgrace" => proc'[r.mine] = [st |-> "background", of |-> s]
    /\ \/ "late" \in excuse'[s] \/ \A q \in b.bg : ~Alive(q)
       \/ /\ b.bg \subseteq box[s].bg
          /\ (r.kind \in Deleters /\ r.on = s) \/ b.life = "gone" =>
                box[s].life = "gone" \/ (op[o].kind \in Deleters /\ op[o].on = s)
       \/ b.life # "gone" /\ r.on = Nil /\ ~Busy(s, o, Deleters)

LEMMA TidyStep ==
  ASSUME IInv, Tidy, NEW o \in Ops, NEW s \in Sandboxes, NEW b, NEW r,
         Tidies(o, s, b, r), TidiesBox(o, s, b, r), TidiesList(o, s, b, r)
  PROVE  Tidy'
<1>0. /\ TypeOK /\ LockOwner /\ ShapedCalls /\ box[s] \in Box /\ op[o] \in Op
      /\ \A x \in Ops : op[x].on = s => op[x].at # "next"
      /\ Nil \notin Sandboxes \cup Procs \cup Ops
  BY NilAssumption DEF IInv, Inv, TypeOK, ShapedCalls, Shaped
<1>b. \A z \in Sandboxes : box'[z] = IF z = s THEN b ELSE box[z]
  BY <1>0 DEF Tidies, Set, TypeOK
<1>o. \A x \in Ops : op'[x] = IF x = o THEN r ELSE op[x]
  BY <1>0 DEF Tidies, Goto, TypeOK
<1>p. \A p \in Procs : proc[p].st = "dead" => proc'[p].st = "dead"
  BY DEF Tidies
<1>q. ASSUME NEW p \in Procs, proc'[p].st = "background"
      PROVE  proc'[p] = proc[p] \/ (r.at = "bgrace" /\ r.on = s /\ r.mine = p /\ proc[p].st = "unused")
  BY <1>q DEF Tidies
<1>1. Wiped'
  <2> SUFFICES ASSUME NEW z \in Sandboxes, "mixed" \notin excuse'[z],
                      \/ box'[z].life = "gone"
                      \/ \E x \in Ops : op'[x].on = z /\ op'[x].at = "removing"
               PROVE  Bare(box'[z])
    BY DEF Wiped, Bare
  <2>0. "mixed" \notin excuse[z]
    BY DEF Tidies
  <2>1. CASE z # s
    <3>1. box[z].life = "gone" \/ \E x \in Ops : op[x].on = z /\ op[x].at = "removing"
      BY <2>1, <1>0, <1>b, <1>o DEF Tidies
    <3> QED BY <2>0, <2>1, <3>1, <1>b DEF Tidy, Wiped
  <2>2. CASE z = s
    <3>1. box'[z] = b
      BY <2>2, <1>b
    <3>2. CASE Bare(b)
      BY <3>1, <3>2
    <3>3. CASE /\ b.reg \in {box[s].reg, Nil} /\ (b.dirs => box[s].dirs) /\ (b.fw => box[s].fw)
               /\ r.at = "removing" => op[o].at = "removing" /\ op[o].on = s
               /\ b.life = "gone" => box[s].life = "gone" \/ (op[o].at = "removing" /\ op[o].on = s)
      <4>1. box[s].life = "gone" \/ \E x \in Ops : op[x].on = s /\ op[x].at = "removing"
        BY <2>2, <3>1, <3>3, <1>o
      <4>2. Bare(box[s])
        BY <2>0, <2>2, <4>1 DEF Tidy, Wiped
      <4> QED BY <3>1, <3>3, <4>2 DEF Bare
    <3>4. CASE b.life # "gone" /\ r.at # "removing" /\ ~Busy(s, o, Remote)
      <4>1. PICK x \in Ops : op'[x].on = s /\ op'[x].at = "removing"
        BY <2>2, <3>1, <3>4
      <4>2. x # o /\ op[x].on = s /\ op[x].at = "removing"
        BY <3>4, <4>1, <1>o
      <4>3. op[x].kind \in Remote
        BY <4>2, <1>0 DEF ShapedCalls, Shaped, Remote
      <4> QED BY <3>4, <4>2, <4>3 DEF Busy
    <3> QED BY <2>2, <3>2, <3>3, <3>4 DEF TidiesBox
  <2> QED BY <2>1, <2>2
<1>2. HeldEntered'
  <2> SUFFICES ASSUME NEW x \in Ops, op'[x].kind \in Holders
               PROVE  box'[op'[x].on].life # "gone"
    BY DEF HeldEntered
  <2>1. CASE x = o
    BY <2>1, <1>b, <1>o DEF TidiesBox
  <2>2. CASE x # o
    <3>1. op[x] = op'[x] /\ box[op[x].on].life # "gone" /\ lock = x
      BY <2>2, <1>o, <1>0 DEF Tidy, HeldEntered, LockOwner
    <3>2. op[x].on \in Sandboxes
      <4>1. Shaped(op[x]) /\ op[x].kind \in Holders
        BY <3>1, <1>0 DEF ShapedCalls
      <4> QED BY <4>1 DEF Shaped
    <3> QED BY <3>1, <3>2, <1>0, <1>b DEF TidiesBox
  <2> QED BY <2>1, <2>2
<1>3. Listed'
  <2>1. ASSUME NEW z \in Sandboxes, NEW q \in box'[z].bg
        PROVE  proc'[q].st = "dead" \/ proc'[q] = [st |-> "background", of |-> z]
    <3>1. \/ q \in box[z].bg
          \/ z = s /\ op[o].at = "bgrace" /\ q = op[o].mine
      BY <2>1, <1>b DEF TidiesList
    <3>2. proc[q].st = "dead" \/ Runs(q, z)
      <4>1. CASE q \in box[z].bg
        BY <4>1 DEF Tidy, Listed
      <4>2. CASE z = s /\ op[o].at = "bgrace" /\ q = op[o].mine
        <5>1. op[o].on \in Sandboxes
          BY <4>2, <1>0 DEF ShapedCalls, Shaped
        <5> QED BY <4>2, <5>1, <1>0 DEF Tidy, Listed, Tidies
      <4> QED BY <3>1, <4>1, <4>2
    <3>3. q \in Procs
      <4>1. box[z].bg \subseteq Procs /\ b.bg \subseteq Procs
        BY <1>0 DEF TypeOK, Box, Tidies
      <4> QED BY <2>1, <4>1, <1>b
    <3> QED BY <3>2, <3>3, <1>p DEF Runs, Tidies
  <2>2. ASSUME NEW x \in Ops, op'[x].at = "bgrace"
        PROVE  proc'[op'[x].mine].st = "dead" \/ proc'[op'[x].mine] = [st |-> "background", of |-> op'[x].on]
    <3>1. CASE x = o
      <4>1. r.at = "bgrace" /\ op'[x] = r
        BY <2>2, <3>1, <1>o
      <4>2. r.on = s
        BY <4>1, <1>0 DEF Tidies, Shaped
      <4> QED BY <4>1, <4>2 DEF TidiesList
    <3>2. CASE x # o
      <4>1. op'[x] = op[x] /\ op[x].mine \in Procs
        <5>1. op'[x] = op[x] /\ Shaped(op[x]) /\ op[x].at = "bgrace"
          BY <2>2, <3>2, <1>o, <1>0 DEF ShapedCalls
        <5> QED BY <5>1 DEF Shaped
      <4>2. proc[op[x].mine].st = "dead" \/ Runs(op[x].mine, op[x].on)
        BY <2>2, <4>1 DEF Tidy, Listed
      <4> QED BY <4>1, <4>2, <1>p DEF Runs, Tidies
    <3> QED BY <3>1, <3>2
  <2> QED BY <2>1, <2>2 DEF Listed, Runs
<1>4. Known'
  <2> SUFFICES ASSUME NEW z \in Sandboxes, NEW p \in Procs,
                      proc'[p] = [st |-> "background", of |-> z]
               PROVE  \/ p \in box'[z].bg
                      \/ \E x \in Ops : /\ op'[x].on = z
                                        /\ \/ op'[x].at = "killing" /\ p \in op'[x].victims
                                           \/ op'[x].at = "bgrace" /\ p = op'[x].mine
                      \/ "stuck" \in excuse'[z]
    BY DEF Known, Runs
  <2>0. excuse[z] \subseteq excuse'[z]
    BY DEF Tidies
  <2>1. CASE r.at = "bgrace" /\ r.on = s /\ r.mine = p /\ proc[p].st = "unused"
    <3>1. z = s
      BY <2>1 DEF Tidies
    <3> QED BY <2>1, <3>1, <1>o
  <2>2. CASE proc'[p] = proc[p]
    <3>0. Runs(p, z) /\ Alive(p)
      BY <2>2, <1>0 DEF Runs, Alive
    <3>1. CASE p \in box[z].bg
      BY <3>0, <3>1, <1>b, <1>o DEF TidiesList
    <3>2. CASE "stuck" \in excuse[z]
      BY <2>0, <3>2
    <3>3. ASSUME NEW x \in Ops, op[x].on = z,
                 \/ op[x].at = "killing" /\ p \in op[x].victims
                 \/ op[x].at = "bgrace" /\ p = op[x].mine
          PROVE  \/ p \in box'[z].bg
                 \/ \E y \in Ops : /\ op'[y].on = z
                                   /\ \/ op'[y].at = "killing" /\ p \in op'[y].victims
                                      \/ op'[y].at = "bgrace" /\ p = op'[y].mine
                 \/ "stuck" \in excuse'[z]
      <4>1. CASE x # o
        BY <3>3, <4>1, <1>o
      <4>2. CASE x = o
        <5>1. z = s
          BY <3>3, <4>2, <1>0 DEF Tidies
        <5> QED BY <3>0, <3>3, <4>2, <5>1, <1>b DEF TidiesList
      <4> QED BY <4>1, <4>2
    <3> QED BY <3>0, <3>1, <3>2, <3>3 DEF Tidy, Known
  <2>3. proc'[p].st = "background"
    OBVIOUS
  <2> QED BY <2>1, <2>2, <2>3, <1>q
<1>5. Emptied'
  <2> SUFFICES ASSUME NEW z \in Sandboxes, "late" \notin excuse'[z],
                      \/ box'[z].life = "gone"
                      \/ \E x \in Ops : op'[x].on = z /\ op'[x].kind \in Deleters,
                      NEW q \in box'[z].bg
               PROVE  proc'[q].st \notin {"daemon", "background"}
    BY DEF Emptied, Alive
  <2>0. "late" \notin excuse[z]
    BY DEF Tidies
  <2>1. q \in Procs /\ (Alive(q) <=> proc[q].st \in {"daemon", "background"})
    <3>1. box[z].bg \subseteq Procs /\ b.bg \subseteq Procs
      BY <1>0 DEF TypeOK, Box, Tidies
    <3> QED BY <3>1, <1>0, <1>b DEF Alive
  <2>2. proc'[q].st = "dead" \/ proc'[q] = [st |-> "background", of |-> z]
    BY <1>3 DEF Listed, Runs
  <2>3. ~Alive(q) => proc[q].st = "dead" \/ proc[q].st = "unused"
    BY <1>0, <2>1 DEF TypeOK
  <2>4. proc[q].st # "unused"
    <3>1. \/ q \in box[z].bg
          \/ z = s /\ op[o].at = "bgrace" /\ q = op[o].mine
      BY <1>b DEF TidiesList
    <3>2. proc[q].st = "dead" \/ Runs(q, z) \/ Runs(q, op[o].on)
      BY <3>1 DEF Tidy, Listed
    <3>3. \A x : Runs(q, x) => proc[q].st = "background"
      BY DEF Runs
    <3> QED BY <3>2, <3>3
  <2>5. SUFFICES ~Alive(q)
    BY <2>1, <2>3, <2>4, <1>p
  <2>6. CASE z # s
    <3>1. box[z].life = "gone" \/ \E x \in Ops : op[x].on = z /\ op[x].kind \in Deleters
      BY <2>6, <1>0, <1>b, <1>o DEF Tidies
    <3> QED BY <2>0, <2>6, <3>1, <1>b DEF Tidy, Emptied
  <2>7. CASE z = s
    <3>1. q \in b.bg
      BY <2>7, <1>b
    <3>2. CASE /\ b.bg \subseteq box[s].bg
               /\ (r.kind \in Deleters /\ r.on = s) \/ b.life = "gone" =>
                      box[s].life = "gone" \/ (op[o].kind \in Deleters /\ op[o].on = s)
      <4>1. box[s].life = "gone" \/ \E x \in Ops : op[x].on = s /\ op[x].kind \in Deleters
        BY <2>7, <3>2, <1>b, <1>o
      <4> QED BY <2>0, <2>7, <3>1, <3>2, <4>1 DEF Tidy, Emptied
    <3>3. CASE b.life # "gone" /\ r.on = Nil /\ ~Busy(s, o, Deleters)
      <4>1. PICK x \in Ops : op'[x].on = s /\ op'[x].kind \in Deleters
        BY <2>7, <3>3, <1>b
      <4>2. x # o /\ op[x].on = s /\ op[x].kind \in Deleters /\ op[x].at # "next"
        BY <3>3, <4>1, <1>o, <1>0
      <4> QED BY <3>3, <4>2 DEF Busy
    <3> QED BY <2>7, <3>1, <3>2, <3>3 DEF TidiesList
  <2> QED BY <2>6, <2>7
<1> QED BY <1>1, <1>2, <1>3, <1>4, <1>5 DEF Tidy

LEMMA FailureList ==
  ASSUME NEW b \in Box, NEW n \in Nat, NEW f \in LaunchFailures(b, n)
  PROVE  f.box.bg = b.bg
<1>1. CASE f = [box |-> [b EXCEPT !.reg = Nil, !.dirs = TRUE], rules |-> n]
  BY <1>1 DEF Box
<1>2. CASE f = [box |-> [b EXCEPT !.reg = Nil, !.ready = FALSE, !.dirs = FALSE, !.fw = FALSE],
                rules |-> n]
  BY <1>2 DEF Box
<1>3. ASSUME NEW m, m = n + 1,
             f = [box |-> [b EXCEPT !.reg = Nil, !.dirs = TRUE, !.fw = TRUE], rules |-> m]
      PROVE  f.box.bg = b.bg
  BY <1>3 DEF Box
<1> QED BY <1>1, <1>2, <1>3 DEF LaunchFailures

\* Record b of sandbox s, as call r of o has changed it so far, takes nothing
\* on, and o leaves no process behind that it was to kill.
Orderly(o, s, b, r) ==
    /\ b \in Box /\ op[o].on \in {s, Nil} /\ op[o].at # "bgrace"
    /\ \A x \in Sandboxes : excuse[x] \subseteq excuse'[x]
    /\ op[o].at = "killing" => "stuck" \in excuse'[s] \/ \A q \in op[o].victims : ~Alive(q)
    /\ b.reg \in {box[s].reg, Nil} /\ (b.dirs => box[s].dirs) /\ (b.fw => box[s].fw)
    /\ b.life = "gone" => box[s].life = "gone"
    /\ r.kind \in Holders => b.life # "gone"
    /\ b.bg \subseteq box[s].bg
    /\ \A q \in box[s].bg : Alive(q) => q \in b.bg

\* Once its list has been dealt with.
Settled(s, b, r) ==
    r.kind \in Deleters \/ b.life = "gone" => "late" \in excuse'[s] \/ \A q \in b.bg : ~Alive(q)

Spawned == \A p \in Procs : \/ proc'[p] = proc[p]
                            \/ proc[p].st = "unused" /\ proc'[p].st = "daemon"

LEMMA OrderlyStep ==
  ASSUME IInv, Tidy, NEW o \in Ops, NEW s \in Sandboxes, NEW b, NEW r, Orderly(o, s, b, r),
         NEW c \in Box, NEW q \in Op, Set(s, c), Goto(o, q), Shaped(q), q.on \in {s, Nil},
         q.at # "bgrace", q.kind \in {r.kind, "none"}, q.kind \in Holders => q.on = s,
         c.life = "gone" => b.life = "gone", Spawned,
         \/ Bare(c)
         \/ c.reg \in {b.reg, Nil} /\ (c.dirs => b.dirs) /\ (c.fw => b.fw) /\ q.at # "removing"
         \/ /\ c.life # "gone" /\ q.at # "removing"
            /\ "mixed" \in excuse'[s] \/ ~Busy(s, o, Remote),
         \/ c.bg = b.bg /\ Settled(s, b, r)
         \/ c.bg = {} /\ \A x \in b.bg : Alive(x) => q.at = "killing" /\ q.on = s /\ x \in q.victims
  PROVE  Tidy'
<1>1. "none" \notin Holders \cup Deleters
  BY DEF Holders, Deleters
<1>2. Tidies(o, s, c, q)
  BY DEF Tidies, Orderly, Spawned
<1>3. TidiesBox(o, s, c, q)
  <2>1. q.kind \in Holders => c.life # "gone" /\ q.on = s
    BY <1>1 DEF Orderly
  <2>2. c.life = "gone" => box[s].life = "gone"
    BY DEF Orderly
  <2> QED BY <2>1, <2>2 DEF TidiesBox, Orderly
<1>4. TidiesList(o, s, c, q)
  <2>1. CASE c.bg = {}
    BY <2>1 DEF TidiesList, Orderly
  <2>2. CASE c.bg = b.bg /\ Settled(s, b, q)
    BY <2>2 DEF TidiesList, Orderly, Settled
  <2>3. Settled(s, b, r) => Settled(s, b, q)
    BY <1>1 DEF Settled
  <2> QED BY <2>1, <2>2, <2>3
<1> QED BY <1>2, <1>3, <1>4, TidyStep

LEMMA LaunchTidy ==
  ASSUME IInv, Tidy, NEW o \in Ops, NEW s \in Sandboxes, NEW b, NEW n, NEW r,
         Orderly(o, s, b, r), Settled(s, b, r), b.life # "gone", r \in Op, r.on = s,
         r.kind \in {"create", "start", "restart"},
         "mixed" \in excuse'[s] \/ ~Busy(s, o, Remote), Launch(o, s, b, n, r)
  PROVE  Tidy'
<1>1. PICK p \in Procs :
         /\ proc[p].st = "unused"
         /\ proc' = [proc EXCEPT ![p] = [st |-> "daemon", of |-> s]]
         /\ Set(s, [b EXCEPT !.reg = p, !.ready = FALSE, !.dirs = TRUE, !.fw = TRUE])
         /\ Goto(o, [r EXCEPT !.at = "grace", !.mine = p, !.victims = {}])
  BY Zenon DEF Launch
<1> DEFINE c == [b EXCEPT !.reg = p, !.ready = FALSE, !.dirs = TRUE, !.fw = TRUE]
           q == [r EXCEPT !.at = "grace", !.mine = p, !.victims = {}]
<1>2. c \in Box /\ c.life = b.life /\ c.bg = b.bg
  BY DEF Orderly, Box
<1>3. q \in Op /\ q.at = "grace" /\ q.on = s /\ q.kind = r.kind /\ Shaped(q)
  BY DEF Op, Points, Shaped, Holders, Remote, Deleters
<1>4. Spawned
  BY <1>1 DEF Spawned, IInv, TypeOK
<1>5. Set(s, c) /\ Goto(o, q)
  BY <1>1
<1> HIDE DEF c, q
<1> QED BY <1>2, <1>3, <1>4, <1>5, OrderlyStep

LEMMA TryStartTidy ==
  ASSUME IInv, Tidy, NEW o \in Ops, NEW s \in Sandboxes, NEW b, NEW n, NEW r,
         Orderly(o, s, b, r), Settled(s, b, r), r \in Op, r.on = s, n \in Nat,
         r.kind \in {"start", "restart"},
         "mixed" \in excuse'[s] \/ ~Busy(s, o, Remote), TryStart(o, s, b, n, r)
  PROVE  Tidy'
<1> USE IdleOK
<1>0. b \in Box /\ b.life # "gone"
  BY DEF Orderly, Holders
<1>1. CASE Set(s, [b EXCEPT !.life = IF @ = "READY" THEN @ ELSE "ERROR"]) /\ Return(o)
           /\ UNCHANGED proc
  <2> DEFINE c == [b EXCEPT !.life = IF @ = "READY" THEN @ ELSE "ERROR"]
  <2>1. c \in Box /\ c.fw = b.fw /\ c.reg = b.reg /\ c.dirs = b.dirs /\ c.bg = b.bg /\ c.life # "gone"
    BY <1>0 DEF Box, Life
  <2>2. Set(s, c) /\ Goto(o, Idle) /\ Spawned /\ "none" \notin Holders
    BY <1>1 DEF Return, Spawned, Holders
  <2> HIDE DEF c
  <2> QED BY <2>1, <2>2, OrderlyStep
<1>2. CASE (\E f \in LaunchFailures(b, n) : Set(s, [f.box EXCEPT !.life = "ERROR"]))
           /\ Return(o) /\ UNCHANGED proc
  <2>1. PICK f \in LaunchFailures(b, n) : Set(s, [f.box EXCEPT !.life = "ERROR"])
    BY <1>2
  <2>2. f.box \in Box
    BY <1>0, FailureOK
  <2>3. f.box.bg = b.bg
    BY <1>0, FailureList
  <2> DEFINE c == [f.box EXCEPT !.life = "ERROR"]
  <2>4. c \in Box /\ c.bg = b.bg /\ c.life = "ERROR"
    BY <2>2, <2>3 DEF Box, Life
  <2>5. Set(s, c) /\ Goto(o, Idle) /\ Spawned /\ "none" \notin Holders
    BY <1>2, <2>1 DEF Return, Spawned, Holders
  <2> HIDE DEF c
  <2> QED BY <2>4, <2>5, OrderlyStep
<1> QED BY <1>0, <1>1, <1>2, LaunchTidy DEF TryStart

LEMMA AfterStopTidy ==
  ASSUME IInv, Tidy, NEW o \in Ops, NEW s \in Sandboxes, NEW b, NEW n \in Nat, NEW r,
         Orderly(o, s, b, r), Settled(s, b, r), b.reg = Nil, ~b.fw, r \in Op, r.on = s,
         r.kind \in Holders \cup Remote,
         r.kind = "restart" => "mixed" \in excuse'[s] \/ ~Busy(s, o, Remote),
         AfterStop(o, s, b, n, r)
  PROVE  Tidy'
<1> USE IdleOK
<1>0. b \in Box /\ "none" \notin Holders
  BY DEF Orderly, Holders
<1> DEFINE c == [b EXCEPT !.life = "STOPPED"]
<1>1. c \in Box /\ c.fw = b.fw /\ c.reg = b.reg /\ c.dirs = b.dirs /\ c.bg = b.bg /\ c.life = "STOPPED"
  BY <1>0 DEF Box, Life
<1>2. Clean(b) \in Box /\ Bare(Clean(b)) /\ Clean(b).life = b.life /\ Clean(b).bg = b.bg
  BY <1>0 DEF Box, Clean, Bare
<1>3. CASE r.kind = "stop"
  <2>1. Set(s, c) /\ Goto(o, Idle) /\ Spawned
    BY <1>3 DEF AfterStop, Return, Spawned, Deleters
  <2> HIDE DEF c
  <2> QED BY <1>0, <1>1, <2>1, OrderlyStep
<1>4. CASE r.kind = "restart"
  <2>1. TryStart(o, s, c, n, r)
    BY <1>4 DEF AfterStop, Deleters
  <2> HIDE DEF c
  <2>2. Orderly(o, s, c, r) /\ Settled(s, c, r)
    BY <1>1, <1>4 DEF Orderly, Settled, Deleters
  <2> QED BY <1>4, <2>1, <2>2, TryStartTidy
<1>5. CASE r.kind = "create"
  <2>1. Set(s, Clean(b)) /\ Goto(o, Idle) /\ Spawned
    BY <1>5 DEF AfterStop, Return, Spawned, Deleters
  <2> QED BY <1>0, <1>2, <2>1, OrderlyStep
<1>6. CASE r.kind \in Deleters
  <2> DEFINE q == [r EXCEPT !.at = "removing", !.mine = Nil, !.victims = {}]
  <2>1. q \in Op /\ q.at = "removing" /\ q.on = s /\ q.kind = r.kind /\ Shaped(q)
    BY <1>6 DEF Op, Points, Shaped, Holders, Remote, Deleters
  <2>2. Set(s, Clean(b)) /\ Goto(o, q) /\ Spawned
    BY <1>6 DEF AfterStop, Spawned, Deleters
  <2> HIDE DEF q
  <2> QED BY <1>2, <2>1, <2>2, OrderlyStep
<1> QED BY <1>3, <1>4, <1>5, <1>6 DEF AfterStop

LEMMA StopDaemonTidy ==
  ASSUME IInv, Tidy, NEW o \in Ops, NEW s \in Sandboxes, NEW b, NEW r,
         Orderly(o, s, b, r), Settled(s, b, r), r \in Op, r.on = s,
         r.kind \in {"stop", "restart"} \cup Remote,
         r.kind = "restart" => "mixed" \in excuse'[s] \/ ~Busy(s, o, Remote),
         StopDaemon(o, s, b, r)
  PROVE  Tidy'
<1>0. b \in Box /\ rules \in Nat
  BY DEF Orderly, IInv, TypeOK
<1>1. CASE Alive(b.reg) /\ Suspend(o, s, b, [r EXCEPT !.at = "waiting", !.mine = b.reg, !.victims = {}])
  <2> DEFINE q == [r EXCEPT !.at = "waiting", !.mine = b.reg, !.victims = {}]
  <2>1. b.reg \in Procs
    BY <1>0, <1>1 DEF Box, Alive
  <2>2. q \in Op /\ q.at = "waiting" /\ q.on = s /\ q.kind = r.kind /\ q.mine \in Procs
    BY <2>1 DEF Op, Points
  <2>3. Shaped(q)
    BY <2>2 DEF Shaped, Holders, Remote, Deleters
  <2>4. Set(s, b) /\ Goto(o, q) /\ Spawned
    BY <1>1 DEF Suspend, Spawned
  <2> HIDE DEF q
  <2> QED BY <1>0, <2>2, <2>3, <2>4, OrderlyStep
<1>2. CASE AfterStop(o, s, [b EXCEPT !.reg = Nil, !.fw = FALSE], Unrule(b), r)
  <2> DEFINE c == [b EXCEPT !.reg = Nil, !.fw = FALSE]
  <2>1. c \in Box /\ c.life = b.life /\ c.reg = Nil /\ ~c.fw /\ c.dirs = b.dirs /\ c.bg = b.bg
    BY <1>0 DEF Box
  <2>2. AfterStop(o, s, c, Unrule(b), r) /\ Unrule(b) \in Nat
    BY <1>0, <1>2, UnruleOK
  <2> HIDE DEF c
  <2>3. Orderly(o, s, c, r) /\ Settled(s, c, r)
    BY <2>1 DEF Orderly, Settled
  <2>4. r.kind \in Holders \cup Remote
    BY DEF Holders
  <2> QED BY <2>1, <2>2, <2>3, <2>4, AfterStopTidy
<1> QED BY <1>1, <1>2 DEF StopDaemon

LEMMA StopTidy ==
  ASSUME IInv, Tidy, NEW o \in Ops, NEW s \in Sandboxes, NEW b, NEW r,
         Orderly(o, s, b, r), r \in Op, r.on = s, r.kind \in {"stop", "restart"} \cup Remote,
         r.kind = "restart" => "mixed" \in excuse'[s] \/ ~Busy(s, o, Remote),
         Stop(o, s, b, r)
  PROVE  Tidy'
<1> DEFINE victims == {q \in b.bg : Alive(q)}
           c == [b EXCEPT !.bg = {}]
<1>0. b \in Box
  BY DEF Orderly
<1>1. /\ c \in Box /\ c.life = b.life /\ c.reg = b.reg /\ c.fw = b.fw /\ c.dirs = b.dirs /\ c.bg = {}
  BY <1>0 DEF Box
<1>2. CASE Suspend(o, s, c, [r EXCEPT !.at = "killing", !.victims = victims])
  <2> DEFINE q == [r EXCEPT !.at = "killing", !.victims = victims]
  <2>1. q \in Op /\ q.at = "killing" /\ q.on = s /\ q.kind = r.kind /\ q.victims = victims
    BY <1>0 DEF Op, Points, Box
  <2>2. Shaped(q)
    BY <2>1 DEF Shaped, Holders, Remote, Deleters
  <2>3. Set(s, c) /\ Goto(o, q) /\ Spawned
    BY <1>2 DEF Suspend, Spawned
  <2>4. \A x \in b.bg : Alive(x) => x \in q.victims
    BY <2>1
  <2> HIDE DEF c, q, victims
  <2> QED BY <1>1, <2>1, <2>2, <2>3, <2>4, OrderlyStep
<1>3. CASE victims = {} /\ StopDaemon(o, s, c, r)
  <2>1. \A x \in b.bg : ~Alive(x)
    BY <1>3
  <2>2. StopDaemon(o, s, c, r)
    BY <1>3
  <2> HIDE DEF c
  <2>3. Orderly(o, s, c, r) /\ Settled(s, c, r)
    BY <1>1, <2>1 DEF Orderly, Settled
  <2> QED BY <2>2, <2>3, StopDaemonTidy
<1> QED BY <1>2, <1>3 DEF Stop

\* A call that goes on finds its sandbox in order.
LEMMA InProgress ==
  ASSUME IInv, Tidy, NEW o \in Ops, op[o].at \notin {"idle", "next", "bgrace"},
         \A x \in Sandboxes : excuse[x] \subseteq excuse'[x],
         op[o].at = "killing" =>
            "stuck" \in excuse'[op[o].on] \/ \A q \in op[o].victims : ~Alive(q)
  PROVE  LET s == op[o].on IN
         /\ TypeOK /\ s \in Sandboxes /\ box[s] \in Box /\ op[o] \in Op /\ rules \in Nat
         /\ Orderly(o, s, box[s], op[o]) /\ Settled(s, box[s], op[o])
         /\ op[o].at # "grace" => op[o].kind # "start"
         /\ op[o].kind = "restart" => "mixed" \in excuse'[s] \/ ~Busy(s, o, Remote)
         /\ op[o].at \in {"killing", "waiting"} => op[o].kind \in {"stop", "restart"} \cup Remote
         /\ op[o].at = "created" => op[o].kind = "create"
<1> DEFINE s == op[o].on
<1>1. TypeOK /\ s \in Sandboxes /\ box[s] \in Box /\ op[o] \in Op /\ rules \in Nat
      /\ (op[o].at # "grace" => op[o].kind # "start")
  BY Suspended
<1>2. Orderly(o, s, box[s], op[o])
  BY <1>1 DEF Orderly, Tidy, HeldEntered
<1>3. Settled(s, box[s], op[o])
  BY <1>1 DEF Settled, Tidy, Emptied
<1>4. op[o].kind = "restart" => "mixed" \in excuse'[s] \/ ~Busy(s, o, Remote)
  BY <1>1 DEF IInv, Inv, RestartAlone
<1>5. Shaped(op[o])
  BY DEF IInv, Inv, ShapedCalls
<1> HIDE DEF s
<1>6. /\ op[o].at \in {"killing", "waiting"} => op[o].kind \in {"stop", "restart"} \cup Remote
      /\ op[o].at = "created" => op[o].kind = "create"
  BY <1>5 DEF Shaped, Holders
<1> USE DEF s
<1> QED BY <1>1, <1>2, <1>3, <1>4, <1>6

LEMMA GraceEndsTidy == ASSUME IInv, Tidy, NEW o \in Ops, GraceEnds(o) PROVE Tidy'
<1> DEFINE r == op[o]
           s == r.on
           b == box[s]
           up == [b EXCEPT !.ready = TRUE]
           down == [b EXCEPT !.reg = Nil, !.ready = FALSE, !.dirs = FALSE, !.fw = FALSE]
<1>a. r.at = "grace" /\ excuse' = excuse /\ Spawned
  BY DEF GraceEnds, Spawned
<1>0. /\ TypeOK /\ s \in Sandboxes /\ b \in Box /\ r \in Op /\ Orderly(o, s, b, r) /\ Settled(s, b, r)
  BY <1>a, InProgress
<1>1. up \in Box /\ up.reg = b.reg /\ up.dirs = b.dirs /\ up.fw = b.fw /\ up.life = b.life /\ up.bg = b.bg
  BY <1>0 DEF Box
<1>2. down \in Box /\ Bare(down) /\ down.life = b.life /\ down.bg = b.bg
  BY <1>0 DEF Box, Bare
<1>3. CASE r.kind = "create"
  <2> DEFINE c == IF Alive(r.mine) THEN up ELSE down
             q == [r EXCEPT !.at = IF Alive(r.mine) THEN "created" ELSE "failed", !.mine = Nil]
  <2>1. q \in Op /\ q.on = s /\ q.kind = r.kind /\ Shaped(q) /\ q.at \in {"created", "failed"}
    BY <1>0, <1>3 DEF Op, Points, Shaped, Holders, Remote, Deleters
  <2>2. c \in Box /\ c.life = b.life /\ c.bg = b.bg
        /\ (Bare(c) \/ (c.reg = b.reg /\ c.dirs = b.dirs /\ c.fw = b.fw))
    BY <1>1, <1>2
  <2>3. Set(s, c) /\ Goto(o, q)
    BY <1>3 DEF GraceEnds
  <2> HIDE DEF c, q
  <2> QED BY <1>a, <1>0, <2>1, <2>2, <2>3, OrderlyStep
<1>4. CASE r.kind # "create"
  <2> DEFINE c == IF Alive(r.mine) THEN [up EXCEPT !.life = "READY"] ELSE [down EXCEPT !.life = "ERROR"]
  <2>1. c \in Box /\ c.life # "gone" /\ c.bg = b.bg
        /\ (Bare(c) \/ (c.reg = b.reg /\ c.dirs = b.dirs /\ c.fw = b.fw))
    BY <1>1, <1>2 DEF Box, Life, Bare
  <2>2. Set(s, c) /\ Goto(o, Idle) /\ "none" \notin Holders
    BY <1>4 DEF GraceEnds, Return, Holders
  <2> HIDE DEF c
  <2> QED BY <1>a, <1>0, <2>1, <2>2, IdleOK, OrderlyStep
<1> QED BY <1>3, <1>4

LEMMA WaitEndsTidy == ASSUME IInv, Tidy, NEW o \in Ops, WaitEnds(o) PROVE Tidy'
<1> DEFINE s == op[o].on
           c == [box[s] EXCEPT !.reg = Nil, !.ready = FALSE, !.fw = FALSE]
<1>a. op[o].at = "waiting" /\ excuse' = excuse
  BY DEF WaitEnds
<1>0. /\ s \in Sandboxes /\ box[s] \in Box /\ op[o] \in Op /\ rules \in Nat
      /\ Orderly(o, s, box[s], op[o]) /\ Settled(s, box[s], op[o])
      /\ op[o].kind = "restart" => "mixed" \in excuse'[s] \/ ~Busy(s, o, Remote)
      /\ op[o].kind \in {"stop", "restart"} \cup Remote
  BY <1>a, InProgress
<1>1. c \in Box /\ c.life = box[s].life /\ c.reg = Nil /\ ~c.fw /\ c.dirs = box[s].dirs
      /\ c.bg = box[s].bg
  BY <1>0 DEF Box
<1>2. AfterStop(o, s, c, Unrule(box[s]), op[o]) /\ Unrule(box[s]) \in Nat
  BY <1>0, UnruleOK DEF WaitEnds
<1> HIDE DEF c
<1>3. Orderly(o, s, c, op[o]) /\ Settled(s, c, op[o])
  BY <1>0, <1>1 DEF Orderly, Settled
<1>4. op[o].kind \in Holders \cup Remote
  BY <1>0 DEF Holders
<1> QED BY <1>0, <1>1, <1>2, <1>3, <1>4, AfterStopTidy

LEMMA VictimsGoneTidy == ASSUME IInv, Tidy, NEW o \in Ops, VictimsGone(o) PROVE Tidy'
<1> DEFINE s == op[o].on
<1>a. op[o].at = "killing" /\ excuse' = excuse /\ \A q \in op[o].victims : ~Alive(q)
  BY DEF VictimsGone
<1>0. /\ s \in Sandboxes /\ op[o] \in Op
      /\ Orderly(o, s, box[s], op[o]) /\ Settled(s, box[s], op[o])
      /\ op[o].kind = "restart" => "mixed" \in excuse'[s] \/ ~Busy(s, o, Remote)
      /\ op[o].kind \in {"stop", "restart"} \cup Remote
  BY <1>a, InProgress
<1> QED BY <1>0, StopDaemonTidy DEF VictimsGone

LEMMA CreateCommitsTidy == ASSUME IInv, Tidy, NEW o \in Ops, CreateCommits(o) PROVE Tidy'
<1> DEFINE s == op[o].on
           c == [box[s] EXCEPT !.life = "READY"]
<1>a. op[o].at = "created" /\ excuse' = excuse
  BY DEF CreateCommits
<1>0. /\ s \in Sandboxes /\ op[o] \in Op /\ box[s] \in Box
      /\ Orderly(o, s, box[s], op[o]) /\ Settled(s, box[s], op[o]) /\ op[o].kind = "create"
  BY <1>a, InProgress
<1>1. CASE Set(s, c) /\ Return(o) /\ UNCHANGED proc
  <2>1. c \in Box /\ c.life = "READY" /\ c.reg = box[s].reg /\ c.fw = box[s].fw
        /\ c.dirs = box[s].dirs /\ c.bg = box[s].bg
    BY <1>0 DEF Box, Life
  <2>2. Set(s, c) /\ Goto(o, Idle) /\ Spawned /\ "none" \notin Holders
    BY <1>1 DEF Return, Spawned, Holders
  <2> HIDE DEF c
  <2> QED BY <1>0, <2>1, <2>2, IdleOK, OrderlyStep
<1>2. CASE Stop(o, s, box[s], op[o])
  BY <1>0, <1>2, StopTidy DEF Remote
<1> QED BY <1>1, <1>2 DEF CreateCommits

LEMMA CreateFailsTidy == ASSUME IInv, Tidy, NEW o \in Ops, CreateFails(o) PROVE Tidy'
<1> DEFINE s == op[o].on
           c == [box[s] EXCEPT !.life = IF Doomed(s) THEN @ ELSE "ERROR"]
<1>a. op[o].at = "failed" /\ excuse' = excuse /\ Spawned /\ Set(s, c) /\ Goto(o, Idle)
  BY DEF CreateFails, Return, Spawned
<1>0. /\ s \in Sandboxes /\ op[o] \in Op /\ box[s] \in Box
      /\ Orderly(o, s, box[s], op[o]) /\ Settled(s, box[s], op[o])
  BY <1>a, InProgress
<1>1. c \in Box /\ c.reg = box[s].reg /\ c.fw = box[s].fw /\ c.dirs = box[s].dirs
      /\ c.bg = box[s].bg /\ (c.life = "gone" => box[s].life = "gone")
  BY <1>0 DEF Box, Life
<1>2. "none" \notin Holders
  BY DEF Holders
<1> HIDE DEF c
<1> QED BY <1>a, <1>0, <1>1, <1>2, IdleOK, OrderlyStep

LEMMA GivesUpTidy == ASSUME IInv, Tidy, NEW o \in Ops, GivesUp(o) PROVE Tidy'
<1> DEFINE r == op[o]
           s == r.on
           q == CASE r.kind = "create" -> [Call("create", r.on) EXCEPT !.at = "failed"]
                  [] r.kind = "shutdown" ->
                       [Idle EXCEPT !.kind = "shutdown", !.at = "next", !.todo = r.todo]
                  [] OTHER -> Idle
<1>a. r.at \in {"killing", "waiting"} /\ UNCHANGED <<box, proc>> /\ Goto(o, q)
  BY DEF GivesUp
<1>b. TypeOK /\ s \in Sandboxes
  BY <1>a, Suspended
<1>c. /\ \A x \in Sandboxes : excuse[x] \subseteq excuse'[x]
      /\ r.at = "killing" => "stuck" \in excuse'[s]
  BY <1>b DEF GivesUp, Excuse, TypeOK
<1>0. box[s] \in Box /\ r \in Op /\ Orderly(o, s, box[s], r) /\ Settled(s, box[s], r)
  BY <1>a, <1>b, <1>c, InProgress
<1>1. /\ q \in Op /\ Shaped(q) /\ q.on \in {s, Nil} /\ q.kind \notin Holders
      /\ q.at \in {"failed", "next", "idle"} /\ q.kind \in {r.kind, "none"}
  <2>1. CASE r.kind = "create"
    <3>1. q = [Call("create", s) EXCEPT !.at = "failed"]
      BY <2>1
    <3> HIDE DEF q
    <3> QED BY <3>1, <2>1, <1>b DEF Idle, Call, Op, Points, Kinds, Shaped, Holders, Remote, Deleters
  <2>2. CASE r.kind = "shutdown"
    <3>1. q = [Idle EXCEPT !.kind = "shutdown", !.at = "next", !.todo = r.todo]
      BY <2>2
    <3>2. r.todo \in SUBSET Sandboxes
      BY <1>0 DEF Op
    <3> HIDE DEF q
    <3> QED BY <3>1, <3>2, <2>2 DEF Idle, Op, Points, Shaped, Holders, Remote, Deleters
  <2>3. CASE r.kind \notin {"create", "shutdown"}
    <3>1. q = Idle
      BY <2>3
    <3> HIDE DEF q
    <3> QED BY <3>1, IdleOK DEF Holders
  <2> QED BY <2>1, <2>2, <2>3
<1>2. Set(s, box[s]) /\ Spawned
  BY <1>a, <1>b DEF Set, Spawned, TypeOK
<1> HIDE DEF q
<1> QED BY <1>a, <1>b, <1>0, <1>1, <1>2, OrderlyStep

LEMMA RemovedTidy == ASSUME IInv, Tidy, NEW o \in Ops, Removed(o) PROVE Tidy'
<1> DEFINE s == op[o].on
           c == [box[s] EXCEPT !.life = "gone"]
           q == IF op[o].kind = "delete" THEN Idle
                ELSE [Idle EXCEPT !.kind = "shutdown", !.at = "next", !.todo = op[o].todo]
<1>a. op[o].at = "removing" /\ lock = Nil /\ UNCHANGED <<proc, excuse>> /\ Set(s, c) /\ Goto(o, q)
  BY DEF Removed
<1>0. TypeOK /\ s \in Sandboxes /\ box[s] \in Box /\ op[o] \in Op
  BY <1>a, Suspended
<1>1. c \in Box /\ c.life = "gone" /\ c.reg = box[s].reg /\ c.fw = box[s].fw /\ c.dirs = box[s].dirs
      /\ c.bg = box[s].bg
  BY <1>0 DEF Box, Life
<1>2. q \in Op /\ Shaped(q) /\ q.on = Nil /\ q.kind \notin Holders /\ q.at \in {"idle", "next"}
  BY <1>0, IdleOK DEF Idle, Op, Points, Shaped, Holders, Remote, Deleters
<1>3. op[o].kind \in Deleters
  BY <1>a DEF IInv, Inv, ShapedCalls, Shaped
<1>4. s # Nil
  BY <1>0, NilAssumption
<1> HIDE DEF c, q
<1>5. Tidies(o, s, c, q)
  BY <1>a, <1>1, <1>2 DEF Tidies
<1>6. TidiesBox(o, s, c, q)
  BY <1>a, <1>1, <1>2 DEF TidiesBox
<1>7. TidiesList(o, s, c, q)
  BY <1>a, <1>1, <1>2, <1>3, <1>4 DEF TidiesList
<1> QED BY <1>0, <1>5, <1>6, <1>7, TidyStep

\* A call that begins finds the sandbox in order too.
LEMMA Beginning ==
  ASSUME IInv, NEW o \in Ops, NEW s \in Sandboxes, Free(o),
         \A x \in Sandboxes : excuse[x] \subseteq excuse'[x],
         NEW b \in Box, b.reg = box[s].reg, b.dirs = box[s].dirs, b.fw = box[s].fw,
         b.bg = box[s].bg, b.life # "gone", NEW r
  PROVE  Orderly(o, s, b, r)
<1>1. op[o].at = "idle" /\ op[o].on = Nil
  BY DEF Free, IInv, Inv, ShapedCalls, Shaped
<1> QED BY <1>1 DEF Orderly

LEMMA CallOK ==
  ASSUME NEW k \in Kinds, NEW s \in Sandboxes
  PROVE  Call(k, s) \in Op /\ Call(k, s).on = s /\ Call(k, s).kind = k
  BY DEF Call, Idle, Op, Points

LEMMA StartSandboxTidy ==
  ASSUME IInv, Tidy, NEW o \in Ops, NEW s \in Sandboxes, StartSandbox(o, s) PROVE Tidy'
<1>1. box[s] \in Box /\ box[s].life # "gone" /\ Free(o) /\ TypeOK /\ rules \in Nat
  BY DEF StartSandbox, IInv, TypeOK, Entered
<1>2. Remember(o, s, "start") /\ TryStart(o, s, box[s], rules, Call("start", s))
  BY DEF StartSandbox
<1>3. /\ \A x \in Sandboxes : excuse[x] \subseteq excuse'[x]
      /\ "mixed" \in excuse'[s] \/ ~Busy(s, o, Remote)
  BY <1>1, <1>2, Remembered
<1>4. Orderly(o, s, box[s], Call("start", s))
  BY <1>1, <1>3, Beginning
<1>5. Call("start", s) \in Op /\ Call("start", s).on = s /\ Call("start", s).kind = "start"
  BY CallOK DEF Kinds
<1>6. Settled(s, box[s], Call("start", s))
  BY <1>1, <1>5 DEF Settled, Deleters
<1> QED BY <1>1, <1>2, <1>3, <1>4, <1>5, <1>6, TryStartTidy

LEMMA StopSandboxTidy ==
  ASSUME IInv, Tidy, NEW o \in Ops, NEW s \in Sandboxes, NEW k \in {"stop", "restart"},
         StopSandbox(o, s, k)
  PROVE  Tidy'
<1>1. box[s] \in Box /\ box[s].life # "gone" /\ Free(o) /\ TypeOK
  BY DEF StopSandbox, IInv, TypeOK, Entered
<1>2. Remember(o, s, k) /\ Stop(o, s, box[s], Call(k, s))
  BY DEF StopSandbox
<1>3. /\ \A x \in Sandboxes : excuse[x] \subseteq excuse'[x]
      /\ k = "restart" => "mixed" \in excuse'[s] \/ ~Busy(s, o, Remote)
  BY <1>1, <1>2, Remembered
<1>4. Orderly(o, s, box[s], Call(k, s))
  BY <1>1, <1>3, Beginning
<1>5. Call(k, s) \in Op /\ Call(k, s).on = s /\ Call(k, s).kind = k
  BY CallOK DEF Kinds
<1> QED BY <1>2, <1>3, <1>4, <1>5, StopTidy

LEMMA DeleteSandboxTidy ==
  ASSUME IInv, Tidy, NEW o \in Ops, NEW s \in Sandboxes, DeleteSandbox(o, s) PROVE Tidy'
<1> DEFINE b == [box[s] EXCEPT !.life = "DELETING"]
<1>1. b \in Box /\ b.life = "DELETING" /\ b.reg = box[s].reg /\ b.dirs = box[s].dirs
      /\ b.fw = box[s].fw /\ b.bg = box[s].bg
  BY DEF IInv, TypeOK, Box, Life
<1>2. Free(o) /\ excuse' = excuse /\ Stop(o, s, b, Call("delete", s))
  BY DEF DeleteSandbox
<1> HIDE DEF b
<1>3. Orderly(o, s, b, Call("delete", s))
  BY <1>1, <1>2, Beginning
<1>4. Call("delete", s) \in Op /\ Call("delete", s).on = s /\ Call("delete", s).kind = "delete"
  BY CallOK DEF Kinds
<1> QED BY <1>2, <1>3, <1>4, StopTidy DEF Remote, Deleters

LEMMA ShutdownNextTidy ==
  ASSUME IInv, Tidy, NEW o \in Ops, NEW s \in op[o].todo, op[o].at = "next", excuse' = excuse,
         Stop(o, s, [box[s] EXCEPT !.life = "DELETING"], [op[o] EXCEPT !.on = s, !.todo = @ \ {s}])
  PROVE  Tidy'
<1> DEFINE b == [box[s] EXCEPT !.life = "DELETING"]
           r == [op[o] EXCEPT !.on = s, !.todo = @ \ {s}]
<1>0. op[o] \in Op /\ op[o].kind = "shutdown" /\ op[o].on = Nil /\ s \in Sandboxes /\ TypeOK
  BY DEF IInv, Inv, TypeOK, ShapedCalls, Shaped, Op
<1>1. b \in Box /\ b.life = "DELETING" /\ b.reg = box[s].reg /\ b.dirs = box[s].dirs
      /\ b.fw = box[s].fw /\ b.bg = box[s].bg
  BY <1>0 DEF TypeOK, Box, Life
<1>2. r \in Op /\ r.on = s /\ r.kind = "shutdown"
  BY <1>0 DEF Op
<1>3. Stop(o, s, b, r)
  OBVIOUS
<1> HIDE DEF b, r
<1>4. Orderly(o, s, b, r)
  BY <1>0, <1>1 DEF Orderly
<1> QED BY <1>0, <1>2, <1>3, <1>4, StopTidy DEF Remote, Deleters

LEMMA CreateTidy ==
  ASSUME IInv, Tidy, NEW o \in Ops, NEW s \in Sandboxes, Create(o, s) PROVE Tidy'
<1> DEFINE b == [box[s] EXCEPT !.life = "PROVISIONING"]
           r == Call("create", s)
<1>0. TypeOK /\ Nil # s /\ Free(o) /\ excuse' = excuse /\ rules \in Nat
  BY NilAssumption DEF Create, IInv, TypeOK
<1>1. b \in Box /\ b.life = "PROVISIONING" /\ b.reg = box[s].reg /\ b.dirs = box[s].dirs
      /\ b.fw = box[s].fw /\ b.bg = box[s].bg
  BY <1>0 DEF TypeOK, Box, Life
<1>2. ~Busy(s, o, Remote)
  BY <1>0 DEF Create, IInv, Inv, Born, Busy
<1>3. r \in Op /\ r.on = s /\ r.kind = "create"
  BY CallOK DEF Kinds
<1>4. \/ Launch(o, s, b, rules, r)
      \/ /\ \E f \in LaunchFailures(b, rules) : Set(s, f.box)
         /\ Goto(o, [r EXCEPT !.at = "failed"]) /\ UNCHANGED proc
  BY DEF Create
<1> HIDE DEF b
<1>5. Orderly(o, s, b, r) /\ Settled(s, b, r)
  BY <1>0, <1>1, <1>3, Beginning DEF Settled, Deleters
<1>6. CASE /\ \E f \in LaunchFailures(b, rules) : Set(s, f.box)
           /\ Goto(o, [r EXCEPT !.at = "failed"]) /\ UNCHANGED proc
  <2> DEFINE q == [r EXCEPT !.at = "failed"]
  <2>1. PICK f \in LaunchFailures(b, rules) : Set(s, f.box)
    BY <1>6
  <2>2. f.box \in Box /\ f.box.life = b.life /\ f.box.bg = b.bg
    BY <1>0, <1>1, FailureOK, FailureList
  <2>3. q \in Op /\ q.at = "failed" /\ q.on = s /\ q.kind = "create"
    BY <1>3 DEF Op, Points
  <2>4. Shaped(q) /\ q.kind \notin Holders
    BY <2>3 DEF Shaped, Holders, Remote, Deleters
  <2>5. Goto(o, q) /\ Spawned
    BY <1>6 DEF Spawned
  <2> HIDE DEF q, r
  <2> QED BY <1>1, <1>2, <1>3, <1>5, <2>1, <2>2, <2>3, <2>4, <2>5, OrderlyStep
<1> HIDE DEF r
<1> QED BY <1>1, <1>2, <1>3, <1>4, <1>5, <1>6, LaunchTidy

-----------------------------------------------------------------------------

\* Work inside a sandbox.
LEMMA UseSandboxTidy ==
  ASSUME IInv, Tidy, NEW o \in Ops, NEW s \in Sandboxes, NEW k \in {"exec", "transfer"},
         UseSandbox(o, s, k)
  PROVE  Tidy'
<1>0. /\ TypeOK /\ box[s] \in Box /\ box[s].life = "READY" /\ Free(o) /\ excuse' = excuse
      /\ Set(s, box[s]) /\ Spawned
  BY DEF UseSandbox, IInv, TypeOK, Set, Spawned
<1>1. PICK q \in {[Call(k, s) EXCEPT !.at = "gate"],
                  [Call(k, s) EXCEPT !.at = "call", !.mine = box[s].reg],
                  [Call(k, s) EXCEPT !.at = "retry"]} : Goto(o, q)
  BY DEF UseSandbox
<1>2. q \in Op /\ q.on = s /\ q.kind = k /\ q.at \in {"gate", "call", "retry"} /\ Shaped(q)
  BY <1>0, <1>1 DEF Call, Idle, Op, Points, Kinds, Box, Shaped, Holders, Remote, Deleters
<1>3. Orderly(o, s, box[s], q)
  BY <1>0, Beginning
<1>4. Settled(s, box[s], q) /\ q.kind \notin Holders
  BY <1>0, <1>2 DEF Settled, Deleters, Holders
<1> QED BY <1>0, <1>1, <1>2, <1>3, <1>4, OrderlyStep

LEMMA CallTidy ==
  ASSUME IInv, Tidy, NEW o \in Ops,
         Admit(o) \/ CallAnswered(o) \/ CallFails(o) \/ Fallback(o)
  PROVE  Tidy'
<1> DEFINE s == op[o].on
<1>a. op[o].at \in {"gate", "call", "retry"} /\ excuse' = excuse /\ Spawned
  BY DEF Admit, CallAnswered, CallFails, Fallback, Spawned
<1>0. /\ TypeOK /\ s \in Sandboxes /\ box[s] \in Box /\ op[o] \in Op
      /\ Orderly(o, s, box[s], op[o]) /\ Settled(s, box[s], op[o])
  BY <1>a, InProgress
<1>1. op[o].kind \notin Holders \cup Remote
  BY <1>a, Working
<1>2. ASSUME NEW c \in Box, Set(s, c), c.life = box[s].life, c.reg = box[s].reg,
             c.dirs = box[s].dirs, c.fw = box[s].fw, c.bg = box[s].bg,
             NEW q \in Op, Goto(o, q), Shaped(q), q.on \in {s, Nil}, q.kind \in {op[o].kind, "none"},
             q.at \in {"idle", "retry", "call"}
      PROVE  Tidy'
  <2>1. q.kind \notin Holders
    BY <1>1, <1>2 DEF Holders
  <2> QED BY <1>a, <1>0, <1>2, <2>1, OrderlyStep
<1>3. CASE CallAnswered(o)
  <2>1. Set(s, box[s]) /\ Goto(o, Idle)
    BY <1>0, <1>3 DEF CallAnswered, Return, Set, TypeOK
  <2> QED BY <1>0, <1>2, <2>1, IdleOK
<1>4. CASE CallFails(o)
  <2> DEFINE q == IF op[o].kind = "transfer" THEN [op[o] EXCEPT !.at = "retry", !.mine = Nil] ELSE Idle
  <2>1. PICK fatal \in BOOLEAN : Set(s, [box[s] EXCEPT !.ready = @ /\ ~fatal])
    BY <1>4, Zenon DEF CallFails
  <2> DEFINE c == [box[s] EXCEPT !.ready = @ /\ ~fatal]
  <2>2. (box[s].ready /\ ~fatal) \in BOOLEAN
    OBVIOUS
  <2>3. /\ c \in Box /\ c.life = box[s].life /\ c.reg = box[s].reg
        /\ c.dirs = box[s].dirs /\ c.fw = box[s].fw /\ c.bg = box[s].bg
    BY <1>0, <2>2 DEF Box
  <2>4. q \in Op /\ q.on \in {s, Nil} /\ q.at \in {"idle", "retry"} /\ Shaped(q)
        /\ q.kind \in {op[o].kind, "none"}
    <3>1. CASE op[o].kind = "transfer"
      <4>1. q = [op[o] EXCEPT !.at = "retry", !.mine = Nil]
        BY <3>1
      <4> HIDE DEF q
      <4> QED BY <1>0, <3>1, <4>1 DEF Op, Points, Shaped, Holders, Remote, Deleters
    <3>2. CASE op[o].kind # "transfer"
      BY <3>2, IdleOK
    <3> QED BY <3>1, <3>2
  <2>5. Set(s, c) /\ Goto(o, q)
    BY <1>4, <2>1 DEF CallFails
  <2> HIDE DEF c, q
  <2> QED BY <1>2, <2>3, <2>4, <2>5
<1>5. CASE Fallback(o)
  <2> DEFINE q == IF box[s].life = "READY" THEN [Call("exec", s) EXCEPT !.at = "gate"] ELSE Idle
  <2>1. q \in Op /\ q.on \in {s, Nil} /\ q.at \in {"idle", "gate"} /\ Shaped(q)
        /\ q.kind \in {"exec", "none"}
    <3>1. CASE box[s].life = "READY"
      <4>1. q = [Call("exec", s) EXCEPT !.at = "gate"]
        BY <3>1
      <4> HIDE DEF q
      <4> QED BY <1>0, <4>1 DEF Call, Idle, Op, Points, Kinds, Box, Shaped, Holders, Remote, Deleters
    <3>2. CASE box[s].life # "READY"
      BY <3>2, IdleOK
    <3> QED BY <3>1, <3>2
  <2>2. Set(s, box[s]) /\ Goto(o, q)
    BY <1>0, <1>5 DEF Fallback, Set, TypeOK
  <2> HIDE DEF q
  <2>3. q.kind \notin Holders \cup Deleters
    BY <2>1 DEF Holders, Deleters
  <2>4. Orderly(o, s, box[s], q)
    BY <1>0, <2>3 DEF Orderly
  <2>5. Settled(s, box[s], q)
    BY <1>0, <2>3 DEF Settled
  <2> QED BY <1>a, <1>0, <2>1, <2>2, <2>3, <2>4, <2>5, OrderlyStep
<1>6. CASE Admit(o)
  <2> DEFINE q == IF Reachable(s) THEN [op[o] EXCEPT !.at = "call", !.mine = box[s].reg] ELSE Idle
  <2>1. q \in Op /\ q.on \in {s, Nil} /\ q.at \in {"idle", "call"} /\ Shaped(q)
        /\ q.kind \in {op[o].kind, "none"}
    <3>1. CASE Reachable(s)
      <4>1. q = [op[o] EXCEPT !.at = "call", !.mine = box[s].reg]
        BY <3>1
      <4> HIDE DEF q
      <4> QED BY <1>0, <1>1, <4>1 DEF Op, Points, Box, Shaped, Holders, Remote, Deleters
    <3>2. CASE ~Reachable(s)
      BY <3>2, IdleOK
    <3> QED BY <3>1, <3>2
  <2>2. Set(s, box[s]) /\ Goto(o, q)
    BY <1>0, <1>6 DEF Admit, Set, TypeOK
  <2> HIDE DEF q
  <2> QED BY <1>0, <1>2, <2>1, <2>2
<1> QED BY <1>3, <1>4, <1>5, <1>6

LEMMA RunBackgroundTidy ==
  ASSUME IInv, Tidy, NEW o \in Ops, NEW s \in Sandboxes, RunBackground(o, s) PROVE Tidy'
<1>0. /\ TypeOK /\ box[s] \in Box /\ box[s].life = "READY" /\ op[o].at = "idle" /\ op[o].on = Nil
      /\ excuse' = excuse
  BY DEF RunBackground, Free, IInv, Inv, TypeOK, ShapedCalls, Shaped
<1>1. PICK p \in Procs :
          /\ proc[p].st = "unused"
          /\ proc' = [proc EXCEPT ![p] = [st |-> "background", of |-> s]]
          /\ Goto(o, [Call("background", s) EXCEPT !.at = "bgrace", !.mine = p])
  BY Zenon DEF RunBackground
<1> DEFINE q == [Call("background", s) EXCEPT !.at = "bgrace", !.mine = p]
           c == [box[s] EXCEPT !.bg = {x \in @ : Alive(x)}]
<1>2. q \in Op /\ q.on = s /\ q.at = "bgrace" /\ q.mine = p /\ Shaped(q)
      /\ q.kind \notin Holders \cup Remote
  BY DEF Call, Idle, Op, Points, Kinds, Shaped, Holders, Remote, Deleters
<1>3. c \in Box /\ c.life = box[s].life /\ c.reg = box[s].reg /\ c.dirs = box[s].dirs
      /\ c.fw = box[s].fw /\ c.bg = {x \in box[s].bg : Alive(x)}
  BY <1>0 DEF Box
<1>4. Set(s, c) /\ Goto(o, q) /\ proc'[p] = [st |-> "background", of |-> s]
      /\ \A x \in Procs : x # p => proc'[x] = proc[x]
  BY <1>0, <1>1 DEF RunBackground, TypeOK
<1> HIDE DEF c, q
<1>5. Tidies(o, s, c, q)
  BY <1>0, <1>1, <1>2, <1>3, <1>4 DEF Tidies
<1>6. TidiesBox(o, s, c, q)
  BY <1>0, <1>2, <1>3 DEF TidiesBox
<1>7. TidiesList(o, s, c, q)
  BY <1>0, <1>1, <1>2, <1>3, <1>4 DEF TidiesList, Remote
<1> QED BY <1>5, <1>6, <1>7, TidyStep

LEMMA BackgroundUpTidy == ASSUME IInv, Tidy, NEW o \in Ops, BackgroundUp(o) PROVE Tidy'
<1> DEFINE s == op[o].on
           m == op[o].mine
           c == [box[s] EXCEPT !.bg = IF Alive(m) THEN @ \cup {m} ELSE @]
<1>0. op[o].at = "bgrace" /\ Goto(o, Idle) /\ UNCHANGED proc /\ Set(s, c)
  BY DEF BackgroundUp, Return
<1>1. op[o].kind \notin Holders \cup Remote /\ s \in Sandboxes /\ TypeOK /\ m \in Procs
      /\ box[s] \in Box
  BY <1>0, Working
<1>2. c \in Box /\ c.life = box[s].life /\ c.reg = box[s].reg /\ c.dirs = box[s].dirs
      /\ c.fw = box[s].fw /\ c.bg = IF Alive(m) THEN box[s].bg \cup {m} ELSE box[s].bg
  BY <1>1 DEF Box
<1>3. /\ \A x \in Sandboxes : excuse[x] \subseteq excuse'[x]
      /\ Alive(m) /\ (box[s].life = "gone" \/ Busy(s, o, {"create"} \cup Deleters))
            => "late" \in excuse'[s]
  BY <1>1 DEF BackgroundUp, Excuse, TypeOK
<1>4. Alive(m) /\ "late" \notin excuse'[s] => box[s].life # "gone" /\ ~Busy(s, o, Deleters)
  BY <1>3 DEF Busy
<1>5. "none" \notin Holders \cup Deleters
  BY DEF Holders, Deleters
<1> HIDE DEF c
<1>6. Tidies(o, s, c, Idle)
  BY <1>0, <1>2, <1>3, IdleOK DEF Tidies
<1>7. TidiesBox(o, s, c, Idle)
  BY <1>2, <1>5, IdleOK DEF TidiesBox
<1>8. TidiesList(o, s, c, Idle)
  BY <1>0, <1>2, <1>4, <1>5, IdleOK DEF TidiesList
<1> QED BY <1>1, <1>6, <1>7, <1>8, TidyStep

\* Steps that no call on a sandbox takes.
LEMMA ElsewhereTidy ==
  ASSUME IInv, Tidy, UNCHANGED <<box, excuse>>,
         \/ /\ UNCHANGED proc
            /\ op' = op \/ \E o \in Ops : \E q \in Op :
                 /\ op' = [op EXCEPT ![o] = q] /\ op[o].at \in {"idle", "next"}
                 /\ q.on = Nil /\ q.at \in {"idle", "next"} /\ q.kind \notin Holders
         \/ op' = op /\ \E p \in Procs : Exits(p)
  PROVE  Tidy'
<1>0. TypeOK /\ Nil \notin Sandboxes \cup Procs
  BY NilAssumption DEF IInv
<1>1. /\ \A o \in Ops : op'[o] = op[o] \/ (op'[o].on = Nil /\ op'[o].at \in {"idle", "next"}
                                           /\ op'[o].kind \notin Holders /\ op[o].at \in {"idle", "next"})
  BY <1>0 DEF TypeOK
<1>2. \A p \in Procs : proc'[p] = proc[p] \/ proc'[p].st = "dead"
  BY <1>0 DEF Exits, TypeOK
<1>3. \A p \in Procs \cup {Nil} : Alive(p)' => Alive(p)
  BY <1>0, <1>2 DEF Alive
<1>4. Wiped' /\ HeldEntered'
  BY <1>0, <1>1 DEF Tidy, Wiped, HeldEntered, Bare
<1>5. Listed'
  <2>1. ASSUME NEW s \in Sandboxes, NEW q \in box[s].bg PROVE proc'[q].st = "dead" \/ Runs(q, s)'
    <3>1. q \in Procs /\ (proc[q].st = "dead" \/ Runs(q, s))
      BY <1>0 DEF Tidy, Listed, TypeOK, Box
    <3> QED BY <1>2, <3>1 DEF Runs
  <2>2. ASSUME NEW o \in Ops, op'[o].at = "bgrace"
        PROVE  proc'[op[o].mine].st = "dead" \/ Runs(op[o].mine, op[o].on)'
    <3>1. op'[o] = op[o] /\ op[o].at = "bgrace"
      BY <1>1, <2>2
    <3>2. op[o].mine \in Procs
      BY <3>1, Working
    <3>3. proc[op[o].mine].st = "dead" \/ Runs(op[o].mine, op[o].on)
      BY <3>1 DEF Tidy, Listed
    <3> QED BY <1>2, <3>1, <3>2, <3>3 DEF Runs
  <2>3. \A o \in Ops : op'[o].at = "bgrace" => op'[o] = op[o]
    BY <1>1
  <2> QED BY <2>1, <2>2, <2>3 DEF Listed
<1>6. Known'
  <2> SUFFICES ASSUME NEW s \in Sandboxes, NEW p \in Procs, Runs(p, s)'
               PROVE  \/ p \in box'[s].bg
                      \/ \E o \in Ops : /\ op'[o].on = s
                                        /\ \/ op'[o].at = "killing" /\ p \in op'[o].victims
                                           \/ op'[o].at = "bgrace" /\ p = op'[o].mine
                      \/ "stuck" \in excuse'[s]
    BY DEF Known
  <2>1. Runs(p, s)
    BY <1>2 DEF Runs
  <2> QED BY <1>1, <2>1 DEF Tidy, Known
<1>7. Emptied'
  <2> SUFFICES ASSUME NEW s \in Sandboxes, "late" \notin excuse[s],
                      box[s].life = "gone" \/ \E o \in Ops : op'[o].on = s /\ op'[o].kind \in Deleters,
                      NEW q \in box[s].bg
               PROVE  ~Alive(q)'
    BY DEF Emptied
  <2>1. box[s].life = "gone" \/ \E o \in Ops : op[o].on = s /\ op[o].kind \in Deleters
    BY <1>0, <1>1
  <2>2. ~Alive(q) /\ q \in Procs
    BY <1>0, <2>1 DEF Tidy, Emptied, TypeOK, Box
  <2> QED BY <1>3, <2>2
<1> QED BY <1>4, <1>5, <1>6, <1>7 DEF Tidy

LEMMA GetSandboxTidy ==
  ASSUME IInv, Tidy, NEW s \in Sandboxes, GetSandbox(s) PROVE Tidy'
<1> DEFINE c == [box[s] EXCEPT !.life = "STOPPED"]
<1>0. TypeOK /\ box[s] \in Box /\ UNCHANGED <<proc, op, excuse>> /\ Set(s, c)
  BY DEF GetSandbox, IInv, TypeOK
<1>1. c.life = "STOPPED" /\ c.reg = box[s].reg /\ c.dirs = box[s].dirs
      /\ c.fw = box[s].fw /\ c.bg = box[s].bg
  BY <1>0 DEF Box
<1> HIDE DEF c
<1>2. \A x \in Sandboxes :
        /\ box'[x].life = "gone" => box[x].life = "gone"
        /\ box'[x].reg = box[x].reg /\ box'[x].dirs = box[x].dirs /\ box'[x].fw = box[x].fw
        /\ box'[x].bg = box[x].bg
  BY <1>0, <1>1 DEF Set, TypeOK
<1>3. Wiped'
  BY <1>0, <1>2 DEF Tidy, Wiped, Bare
<1>4. HeldEntered'
  <2> SUFFICES ASSUME NEW o \in Ops, op[o].kind \in Holders PROVE box'[op[o].on].life # "gone"
    BY <1>0 DEF HeldEntered
  <2>1. op[o].on \in Sandboxes
    BY DEF IInv, Inv, ShapedCalls, Shaped
  <2> QED BY <1>2, <2>1 DEF Tidy, HeldEntered
<1>5. Listed' /\ Known' /\ Emptied'
  BY <1>0, <1>2 DEF Tidy, Listed, Known, Emptied, Runs, Alive
<1> QED BY <1>3, <1>4, <1>5 DEF Tidy

LEMMA TidyNext == ASSUME IInv, Tidy, [Next]_vars PROVE Tidy'
<1>1. ASSUME NEW o \in Ops, ShutdownNext(o) PROVE Tidy'
  <2>1. CASE Return(o) /\ UNCHANGED <<box, proc>>
    BY <1>1, <2>1, IdleOK, ElsewhereTidy DEF ShutdownNext, Return, Goto, Holders
  <2> QED BY <1>1, <2>1, ShutdownNextTidy DEF ShutdownNext
<1>2. ASSUME NEW o \in Ops, Shutdown(o) PROVE Tidy'
  <2>1. PICK found \in SUBSET Sandboxes :
           Goto(o, [Idle EXCEPT !.kind = "shutdown", !.at = "next", !.todo = found])
    BY <1>2 DEF Shutdown
  <2> DEFINE q == [Idle EXCEPT !.kind = "shutdown", !.at = "next", !.todo = found]
  <2>2. q \in Op /\ q.on = Nil /\ q.at = "next" /\ q.kind \notin Holders
    BY DEF Idle, Op, Points, Holders
  <2>3. op' = [op EXCEPT ![o] = q] /\ UNCHANGED <<box, proc, excuse>> /\ op[o].at = "idle"
    BY <1>2, <2>1 DEF Shutdown, Goto, Free
  <2> HIDE DEF q
  <2> QED BY <2>2, <2>3, ElsewhereTidy
<1>3. ASSUME NEW p \in Procs, Exits(p) PROVE Tidy'
  <2>1. UNCHANGED <<box, op, excuse>>
    BY <1>3 DEF Exits
  <2> QED BY <1>3, <2>1, ElsewhereTidy
<1>4. CASE UNCHANGED vars
  BY <1>4, ElsewhereTidy DEF vars
<1> QED BY <1>1, <1>2, <1>3, <1>4, GraceEndsTidy, CreateCommitsTidy, CreateFailsTidy,
     VictimsGoneTidy, WaitEndsTidy, GivesUpTidy, RemovedTidy, CallTidy, BackgroundUpTidy,
     CreateTidy, StartSandboxTidy, DeleteSandboxTidy, RunBackgroundTidy, StopSandboxTidy,
     UseSandboxTidy, GetSandboxTidy DEF Next

\* Unless a start or restart overlapped the creation or deletion, a background
\* command came up during it, or a process outlived its SIGKILL, a deleted
\* sandbox leaves neither process nor namespace, directory or firewall rule.
THEOREM DeletionThorough == Spec => []GoneIsClean
<1>1. Init => Tidy
  BY IdleOK DEF Init, Tidy, Wiped, HeldEntered, Listed, Known, Emptied, Runs, Holders, Deleters
<1>2. IInv /\ Tidy => GoneIsClean
  <2> SUFFICES ASSUME IInv, Tidy, NEW s \in Sandboxes, box[s].life = "gone", ~InUse(s),
                      excuse[s] = {}
               PROVE  Bare(box[s]) /\ \A p \in Procs : proc[p].of = s => ~Alive(p)
    BY DEF GoneIsClean, Bare
  <2>1. Bare(box[s])
    BY DEF Tidy, Wiped
  <2>2. ASSUME NEW p \in Procs, proc[p].of = s, Alive(p) PROVE FALSE
    <3>1. TypeOK /\ proc[p] \in [st : {"unused", "daemon", "background", "dead"},
                                 of : Sandboxes \cup {Nil}] /\ p # Nil
      BY NilAssumption DEF IInv, TypeOK
    <3>2. CASE proc[p].st = "daemon"
      BY <2>1, <2>2, <3>1, <3>2 DEF IInv, Inv, NoOrphanDaemon, Bare
    <3>3. CASE proc[p].st = "background"
      <4>1. Runs(p, s)
        BY <2>2, <3>1, <3>3 DEF Runs
      <4>2. p \notin box[s].bg
        BY <2>2 DEF Tidy, Emptied
      <4> QED BY <4>1, <4>2 DEF Tidy, Known, InUse
    <3> QED BY <2>2, <3>2, <3>3 DEF Alive
  <2> QED BY <2>1, <2>2
<1> QED BY <1>1, <1>2, Invariance, TidyNext, PTL DEF Spec
=============================================================================
