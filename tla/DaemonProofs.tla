----------------------------- MODULE DaemonProofs -----------------------------
(***************************************************************************)
(* Theorems about Daemon, for every set of pids and any number of commands *)
(* and faults: whom a stop hits, how many workers serve, and when a        *)
(* restart finds the lock free.                                            *)
(***************************************************************************)
EXTENDS Daemon, FiniteSetTheorems, TLAPS

-------------------------------------------------------------------------------
(* Processes. *)

Pcs == {"none", "stop", "kill", "pause", "lock", "trunc", "write", "mask", "fork", "nap", "wait",
        "spin", "rise", "work"}

\* The processes that Process makes.
LEMMA ProcessForm ==
  ASSUME NEW k \in {"free", "command", "watcher", "worker", "zombie", "stranger"},
         NEW v \in Pcs
  PROVE  /\ Process(k, v) \in Processes
         /\ Process(k, v).is = k /\ Process(k, v).pc = v /\ Process(k, v).cmd = "none"
         /\ Process(k, v).t = 0 /\ Process(k, v).child = Nobody
         /\ Process(k, v).parent = Nobody /\ Process(k, v).sig = {}
         /\ Process(k, v).sure = FALSE /\ Process(k, v).aim = Nobody
<1>1. 0 \in 0 .. 3 /\ 0 \in {0, 1, 9, 15}
  OBVIOUS
<1>2. /\ {} \in SUBSET {"TERM", "CHLD"} /\ "none" \in Commands \cup {"none"}
      /\ Nobody \in Pids \cup {Nobody, Failed} /\ Nobody \in Pids \cup {Nobody}
  OBVIOUS
<1>3. FALSE \in BOOLEAN
  OBVIOUS
<1>4. Process(k, v) \in Processes
  BY <1>1, <1>2, <1>3 DEF Process, Processes, Pcs
<1> QED
  BY <1>4 DEF Process

\* A pid nobody has.
LEMMA FreeForm ==
  /\ Free \in Processes /\ Free.is = "free" /\ Free.pc = "none" /\ Free.cmd = "none" /\ Free.t = 0
  /\ Free.child = Nobody /\ Free.parent = Nobody /\ Free.sig = {} /\ Free.sure = FALSE
  /\ Free.aim = Nobody
<1>1. /\ "free" \in {"free", "command", "watcher", "worker", "zombie", "stranger"}
      /\ "none" \in Pcs
  BY DEF Pcs
<1>2. Free \in Processes
  BY <1>1, ProcessForm DEF Free
<1> QED
  BY <1>2 DEF Free, Process

\* A process with one field changed is a process.
LEMMA FieldForm ==
  ASSUME NEW x \in Processes
  PROVE  /\ \A v \in Pcs : [x EXCEPT !.pc = v] \in Processes
         /\ \A v \in Commands \cup {"none"} : [x EXCEPT !.cmd = v] \in Processes
         /\ \A v \in 0 .. 3 : [x EXCEPT !.t = v] \in Processes
         /\ \A v \in Pids \cup {Nobody, Failed} : [x EXCEPT !.child = v] \in Processes
         /\ \A v \in Pids \cup {Nobody} : [x EXCEPT !.parent = v] \in Processes
         /\ \A v \in SUBSET {"TERM", "CHLD"} : [x EXCEPT !.sig = v] \in Processes
         /\ \A v \in {0, 1, 9, 15} : [x EXCEPT !.status = v] \in Processes
         /\ \A v \in Pids \cup {Nobody} : [x EXCEPT !.aim = v] \in Processes
         /\ \A v \in BOOLEAN : [x EXCEPT !.sure = v] \in Processes
BY ZenonT(60) DEF Processes, Pcs

\* What the end of a process leaves of it and of the others.
LEMMA GoneForm ==
  ASSUME NEW ps \in [Pids -> Processes], NEW p \in Pids, NEW st \in {0, 1, 9, 15}
  PROVE  LET g == Gone(ps, p, st) IN
         /\ g \in [Pids -> Processes]
         /\ ps[p].parent = Nobody => g[p] = Free
         /\ ps[p].parent # Nobody => /\ g[p].is = "zombie" /\ g[p].parent = ps[p].parent
                                     /\ g[p].cmd = "none" /\ g[p].sig = {} /\ g[p].pc = "none"
         /\ \A q \in Pids \ {p} :
              /\ ps[q].parent = p /\ ps[q].is = "zombie" => g[q] = Free
              /\ ~(ps[q].parent = p /\ ps[q].is = "zombie") =>
                   /\ g[q].is = ps[q].is /\ g[q].pc = ps[q].pc /\ g[q].cmd = ps[q].cmd
                   /\ g[q].t = ps[q].t /\ g[q].child = ps[q].child /\ g[q].sure = ps[q].sure
                   /\ g[q].aim = ps[q].aim
                   /\ g[q].parent = IF ps[q].parent = p THEN Nobody ELSE ps[q].parent
                   /\ ps[q].sig \subseteq g[q].sig /\ g[q].sig \subseteq ps[q].sig \cup {"CHLD"}
                   /\ q # ps[p].parent => g[q].sig = ps[q].sig
              /\ ps[q].parent # p /\ q # ps[p].parent => g[q] = ps[q]
<1> DEFINE g == Gone(ps, p, st)
           z == [Process("zombie", "none") EXCEPT !.parent = ps[p].parent, !.status = st]
<1>1. z \in Processes /\ z.is = "zombie" /\ z.parent = ps[p].parent /\ z.cmd = "none" /\ z.sig = {}
      /\ z.pc = "none"
  <2> DEFINE x == Process("zombie", "none")
             y == [x EXCEPT !.parent = ps[p].parent]
  <2>1. x \in Processes /\ x.is = "zombie" /\ x.cmd = "none" /\ x.sig = {} /\ x.pc = "none"
    BY ProcessForm DEF Pcs
  <2>2. ps[p].parent \in Pids \cup {Nobody}
    BY DEF Processes
  <2> HIDE DEF x
  <2>3. y \in Processes /\ y.is = "zombie" /\ y.cmd = "none" /\ y.sig = {} /\ y.parent = ps[p].parent
        /\ y.pc = "none"
    BY <2>1, <2>2 DEF Processes
  <2>4. z = [y EXCEPT !.status = st]
    BY DEF x
  <2> HIDE DEF y, z
  <2> QED
    BY <2>3, <2>4 DEF Processes
<1> HIDE DEF z
<1>2. /\ g[p] = IF ps[p].parent = Nobody THEN Free ELSE z
      /\ DOMAIN g = Pids
  BY DEF Gone, z
<1>3. ASSUME NEW q \in Pids \ {p}
      PROVE  g[q] = IF ps[q].parent = p
                    THEN IF ps[q].is = "zombie" THEN Free ELSE [ps[q] EXCEPT !.parent = Nobody]
                    ELSE IF q = ps[p].parent THEN [ps[q] EXCEPT !.sig = ps[q].sig \cup {"CHLD"}]
                    ELSE ps[q]
  BY DEF Gone
<1> HIDE DEF g
<1>4. ASSUME NEW q \in Pids \ {p}
      PROVE  /\ g[q] \in Processes
             /\ ps[q].parent = p /\ ps[q].is = "zombie" => g[q] = Free
             /\ ~(ps[q].parent = p /\ ps[q].is = "zombie") =>
                  /\ g[q].is = ps[q].is /\ g[q].pc = ps[q].pc /\ g[q].cmd = ps[q].cmd
                  /\ g[q].t = ps[q].t /\ g[q].child = ps[q].child /\ g[q].sure = ps[q].sure
                   /\ g[q].aim = ps[q].aim
                  /\ g[q].parent = IF ps[q].parent = p THEN Nobody ELSE ps[q].parent
                  /\ ps[q].sig \subseteq g[q].sig /\ g[q].sig \subseteq ps[q].sig \cup {"CHLD"}
                  /\ q # ps[p].parent => g[q].sig = ps[q].sig
             /\ ps[q].parent # p /\ q # ps[p].parent => g[q] = ps[q]
  <2> ps[q] \in Processes
    OBVIOUS
  <2>1. CASE ps[q].parent = p /\ ps[q].is = "zombie"
    BY <1>3, <2>1, FreeForm
  <2>2. CASE ps[q].parent = p /\ ps[q].is # "zombie"
    <3>1. g[q] = [ps[q] EXCEPT !.parent = Nobody]
      BY <1>3, <2>2
    <3> QED
      BY <2>2, <3>1 DEF Processes
  <2>3. CASE ps[q].parent # p /\ q = ps[p].parent
    <3>1. g[q] = [ps[q] EXCEPT !.sig = ps[q].sig \cup {"CHLD"}]
      BY <1>3, <2>3
    <3>2. ps[q].sig \cup {"CHLD"} \in SUBSET {"TERM", "CHLD"}
      BY DEF Processes
    <3>3. g[q] \in Processes
      BY <3>1, <3>2, FieldForm, ZenonT(60)
    <3> QED
      BY <2>3, <3>1, <3>3 DEF Processes
  <2>4. CASE ps[q].parent # p /\ q # ps[p].parent
    BY <1>3, <2>4
  <2> QED
    BY <2>1, <2>2, <2>3, <2>4
<1>5. g \in [Pids -> Processes]
  <2>1. g[p] \in Processes
    BY <1>1, <1>2, FreeForm
  <2>3. \A q \in Pids : g[q] \in Processes
    BY <1>4, <2>1
  <2>2. g = [q \in Pids |-> g[q]]
    BY DEF g, Gone
  <2> QED
    BY <2>2, <2>3
<1> QED
  BY <1>1, <1>2, <1>4, <1>5 DEF g

-------------------------------------------------------------------------------
(* How a step may change processes without disturbing families. *)

\* A fault is counted.
LEMMA FaultForm ==
  ASSUME TypeOK, NEW k \in FaultKinds, Fault(k)
  PROVE  /\ faults' \in [FaultKinds -> Nat] /\ faults'[k] > 0 /\ faults' # faults
         /\ \A j \in FaultKinds : faults'[j] >= faults[j]
<1>1. faults' = [faults EXCEPT ![k] = faults[k] + 1] /\ faults \in [FaultKinds -> Nat]
  BY DEF Fault, TypeOK
<1>2. \A n \in Nat : n + 1 \in Nat /\ n + 1 > 0 /\ n + 1 >= n /\ n + 1 # n /\ n >= n
  OBVIOUS
<1>3. faults'[k] = faults[k] + 1 /\ \A j \in FaultKinds : j # k => faults'[j] = faults[j]
  BY <1>1
<1>4. faults' \in [FaultKinds -> Nat]
  BY <1>1, <1>2
<1>5. faults'[k] > 0 /\ faults' # faults
  BY <1>1, <1>2, <1>3
<1>6. \A j \in FaultKinds : faults'[j] >= faults[j]
  BY <1>1, <1>2, <1>3
<1> QED
  BY <1>4, <1>5, <1>6

\* Fewer faults before than after.
LEMMA UnmeddledBefore ==
  ASSUME TypeOK, faults' \in [FaultKinds -> Nat],
         \A k \in FaultKinds : faults'[k] >= faults[k],
         Count("kill")' + Count("sigstop")' = 0
  PROVE  /\ Count("kill") + Count("sigstop") = 0
         /\ ~(faults'["kill"] > 0) /\ ~(faults'["sigstop"] > 0)
<1>1. /\ faults["kill"] \in Nat /\ faults["sigstop"] \in Nat
      /\ faults'["kill"] \in Nat /\ faults'["sigstop"] \in Nat
      /\ faults'["kill"] >= faults["kill"] /\ faults'["sigstop"] >= faults["sigstop"]
  BY DEF TypeOK, FaultKinds
<1>2. \A a, b, c, d \in Nat :
        c + d = 0 /\ c >= a /\ d >= b => a + b = 0 /\ ~(c > 0) /\ ~(d > 0)
  OBVIOUS
<1> QED
  BY <1>1, <1>2 DEF Count

\* A process that goes on as it is: a watcher with a child stays in the loop, and
\* is told of its child only when somebody stops that.
GoesOnAs(q) ==
  /\ proc'[q].is = proc[q].is /\ proc'[q].cmd = proc[q].cmd
  /\ proc'[q].parent = proc[q].parent
  /\ proc[q].pc \in {"nap", "wait"} =>
       /\ proc'[q].child = proc[q].child
       /\ proc'[q].pc \in {"nap", "wait"} \/ proc[q].child \notin Pids
  /\ "CHLD" \in proc'[q].sig => "CHLD" \in proc[q].sig \/ faults'["sigstop"] > 0

\* A process that is nobody's child and no watcher ends.
EndsAlone(q) == proc'[q] = Free /\ proc[q].parent = Nobody /\ proc[q].is # "watcher"

\* A process of no watcher's comes.
ComesAlone(q) ==
  /\ proc[q].is = "free" /\ proc'[q].is \in {"command", "stranger", "worker"}
  /\ proc'[q].is = "worker" => proc'[q].cmd # "none"
  /\ proc'[q].parent = Nobody

\* Steps of these three kinds keep the invariants about families.
LEMMA KinStays ==
  ASSUME IndInv, faults' \in [FaultKinds -> Nat],
         \A k \in FaultKinds : faults'[k] >= faults[k],
         \A q \in Pids : GoesOnAs(q) \/ EndsAlone(q) \/ ComesAlone(q)
  PROVE  ChildInv' /\ OrphanInv'
<1> USE DEF All, GoesOnAs, EndsAlone, ComesAlone
<1>2. ChildInv'
  <2> SUFFICES ASSUME NEW p \in Pids
               PROVE  /\ proc'[p].is = "zombie" => proc'[p].parent # Nobody
                      /\ proc'[p].parent # Nobody =>
                           /\ \/ proc'[p].is = "zombie"
                              \/ proc'[p].is = "worker" /\ proc'[p].cmd = "none"
                           /\ proc'[p].parent \in Pids
                           /\ proc'[proc'[p].parent].is = "watcher"
                           /\ proc'[proc'[p].parent].child = p
                           /\ proc'[proc'[p].parent].pc \in {"nap", "wait"}
    BY DEF ChildInv
  <2>1. CASE EndsAlone(p) \/ ComesAlone(p)
    BY <2>1, FreeForm
  <2>2. CASE GoesOnAs(p)
    <3>1. proc'[p].is = "zombie" => proc'[p].parent # Nobody
      <4>1. proc[p].is = "zombie" => proc[p].parent # Nobody
        BY DEF IndInv, ChildInv
      <4> QED
        BY <2>2, <4>1
    <3>2. ASSUME proc'[p].parent # Nobody
          PROVE  /\ \/ proc'[p].is = "zombie"
                    \/ proc'[p].is = "worker" /\ proc'[p].cmd = "none"
                 /\ proc'[p].parent \in Pids
                 /\ proc'[proc'[p].parent].is = "watcher"
                 /\ proc'[proc'[p].parent].child = p
                 /\ proc'[proc'[p].parent].pc \in {"nap", "wait"}
      <4>1. PICK w \in Pids : w = proc[p].parent /\ w = proc'[p].parent
        BY <2>2, <3>2 DEF IndInv, ChildInv
      <4>2. /\ proc[p].is = "zombie" \/ (proc[p].is = "worker" /\ proc[p].cmd = "none")
            /\ proc[w].is = "watcher" /\ proc[w].child = p /\ proc[w].pc \in {"nap", "wait"}
        BY <2>2, <3>2, <4>1 DEF IndInv, ChildInv
      <4>3. GoesOnAs(w)
        BY <4>2
      <4> QED
        BY <2>2, <4>1, <4>2, <4>3
    <3> QED
      BY <3>1, <3>2
  <2> QED
    BY <2>1, <2>2
<1>3. OrphanInv'
  <2> SUFFICES ASSUME Count("kill")' + Count("sigstop")' = 0
               PROVE  /\ \A p \in All("worker")' : proc'[p].cmd = "none" => proc'[p].parent # Nobody
                      /\ \A w \in All("watcher")' : "CHLD" \in proc'[w].sig =>
                           proc'[w].child \in All("zombie")' /\ proc'[proc'[w].child].parent = w
    BY DEF OrphanInv
  <2>3. Count("kill") + Count("sigstop") = 0 /\ ~(faults'["sigstop"] > 0)
    BY UnmeddledBefore DEF IndInv
  <2>4. \A p \in Pids : proc[p].is = "worker" /\ proc[p].cmd = "none" => proc[p].parent # Nobody
    BY <2>3 DEF IndInv, OrphanInv
  <2>5. \A w \in Pids : proc[w].is = "watcher" /\ "CHLD" \in proc[w].sig =>
          /\ proc[w].child \in Pids /\ proc[proc[w].child].is = "zombie"
          /\ proc[proc[w].child].parent = w /\ proc[w].pc \in {"nap", "wait"} /\ w # Nobody
    BY <2>3, DaemonAssumption, ZenonT(60) DEF IndInv, OrphanInv, ChildInv, LockInv
  <2>6. \A p \in Pids : proc'[p].is = "worker" /\ proc'[p].cmd = "none" => proc'[p].parent # Nobody
    BY <2>4, FreeForm
  <2>7. ASSUME NEW w \in Pids, proc'[w].is = "watcher", "CHLD" \in proc'[w].sig
        PROVE  /\ proc'[w].child \in Pids /\ proc'[proc'[w].child].is = "zombie"
               /\ proc'[proc'[w].child].parent = w
    <3>1. GoesOnAs(w)
      BY <2>7, FreeForm
    <3>2. PICK z \in Pids : /\ z = proc[w].child /\ proc[z].is = "zombie" /\ proc[z].parent = w
                            /\ proc[w].pc \in {"nap", "wait"} /\ w # Nobody
      BY <2>3, <2>5, <2>7, <3>1
    <3>3. GoesOnAs(z)
      BY <3>2
    <3> QED
      BY <3>1, <3>2, <3>3
  <2> QED
    BY <2>6, <2>7
<1> QED
  BY <1>2, <1>3

\* They keep the invariant about the lock too, when its holder does not end and
\* no process comes to the lines that need it or leaves them.
LEMMA LockStays ==
  ASSUME IndInv, UNCHANGED <<lock, pidfile>>,
         \A q \in Pids : GoesOnAs(q) \/ (EndsAlone(q) /\ q # lock) \/ ComesAlone(q),
         \A q \in Pids : proc[q].pc \in Locking \/ proc'[q].pc \in Locking =>
           proc'[q].pc = proc[q].pc /\ proc'[q].is = proc[q].is
  PROVE  LockInv'
<1> USE DEF All, GoesOnAs, EndsAlone, ComesAlone
<1>1. ASSUME lock # Nobody
      PROVE  /\ lock \in Pids /\ proc'[lock].is = proc[lock].is
             /\ Up' => Up
             /\ proc[lock].is = "watcher" \/ (proc[lock].is = "command" /\ proc'[lock].pc \in Locking)
  <2>1. /\ lock \in Pids
        /\ proc[lock].is = "watcher" \/ (proc[lock].is = "command" /\ proc[lock].pc \in Locking)
    BY <1>1 DEF IndInv, LockInv
  <2>2. GoesOnAs(lock)
    BY <2>1
  <2> QED
    BY <1>1, <2>1, <2>2 DEF Up, Locking
<1>2. ASSUME NEW w \in Pids, proc'[w].is = "watcher"
      PROVE  (proc'[w].cmd # "restart_i" => lock = w) /\ proc'[w].parent = Nobody
  <2>1. GoesOnAs(w) /\ proc[w].is = "watcher"
    BY <1>2, FreeForm
  <2> QED
    BY <2>1 DEF IndInv, LockInv
<1>3. ASSUME NEW q \in Pids, proc'[q].pc \in Locking
      PROVE  proc'[q].is = "command" /\ lock = q /\ proc'[q].cmd # "restart_i"
  <2>1. proc[q].pc \in Locking /\ proc'[q].is = proc[q].is
    BY <1>3
  <2>2. proc[q].is = "command" /\ lock = q /\ proc[q].cmd # "restart_i"
    BY <2>1 DEF IndInv, LockInv
  <2>3. GoesOnAs(q)
    BY <2>2
  <2> QED
    BY <2>1, <2>2, <2>3
<1>4. Up' => pidfile' = lock'
  <2>1. Up' => lock # Nobody
    BY DEF Up
  <2> QED
    BY <1>1, <2>1 DEF IndInv, LockInv
<1> QED
  BY <1>1, <1>2, <1>3, <1>4 DEF LockInv

\* What a stop has sighted goes on to be true.
LEMMA SightStays ==
  ASSUME IndInv, sighted' \subseteq sighted, sighted' # {} => lock' = lock,
         \A q \in sighted' : /\ proc'[q].is = proc[q].is /\ proc'[q].pc = proc[q].pc
                             /\ proc'[q].aim = proc[q].aim,
         lock # Nobody /\ proc[lock].pc \notin {"trunc", "write"} =>
           lock' = Nobody \/ proc'[lock].pc \notin {"trunc", "write"}
  PROVE  AimInv'
<1> SUFFICES ASSUME NEW k \in sighted'
             PROVE  proc'[k].is = "command" /\ proc'[k].pc = "kill" /\ Up' /\ proc'[k].aim = lock'
  BY DEF AimInv
<1>1. k \in sighted /\ lock' = lock
  OBVIOUS
<1>2. proc[k].is = "command" /\ proc[k].pc = "kill" /\ Up /\ proc[k].aim = lock
  BY <1>1 DEF IndInv, AimInv
<1> QED
  BY <1>1, <1>2 DEF Up

\* A step that no sure restart takes part in, and that takes the lock from its
\* watcher or leaves that to its signal, keeps the restart sure.
LEMMA SureStays ==
  ASSUME IndInv,
         \A q \in Pids : proc'[q].is = "command" =>
           /\ proc[q].is = "command"
           /\ proc'[q].pc = "pause" /\ proc'[q].sure =>
                proc[q].pc = "pause" /\ proc[q].sure /\ proc'[q].t = proc[q].t,
         lock' \in {lock, Nobody},
         lock' # Nobody /\ proc[lock].pc = "wait" /\ "TERM" \in proc[lock].sig =>
           proc'[lock].pc = "wait" /\ "TERM" \in proc'[lock].sig
  PROVE  SureInv'
BY DEF IndInv, SureInv, All

-------------------------------------------------------------------------------
(* Steps in which processes go on as they are, end alone or come alone. *)

\* A second passes.
LEMMA TickStep == IndInv /\ Tick => IndInv'
<1> SUFFICES ASSUME IndInv, Tick PROVE IndInv'
  OBVIOUS
<1>0. TypeOK
  BY DEF IndInv
<1>1. UNCHANGED <<lock, pidfile, commands, faults, sighted>>
  BY DEF Tick
<1>2. ASSUME NEW q \in Pids
      PROVE  /\ proc'[q] \in Processes /\ proc'[q].is = proc[q].is /\ proc'[q].cmd = proc[q].cmd
             /\ proc'[q].parent = proc[q].parent /\ proc'[q].child = proc[q].child
             /\ proc'[q].pc = proc[q].pc /\ proc'[q].sig = proc[q].sig
             /\ proc'[q].sure = proc[q].sure /\ proc'[q].aim = proc[q].aim
  <2>1. \A n \in 0 .. 3 : (IF n > 0 THEN n - 1 ELSE 0) \in 0 .. 3
    OBVIOUS
  <2>2. proc[q] \in Processes /\ proc[q].t \in 0 .. 3
    BY <1>0 DEF TypeOK, Processes
  <2>3. PICK n \in 0 .. 3 : proc'[q] = [proc[q] EXCEPT !.t = n]
    BY <2>1, <2>2 DEF Tick
  <2> QED
    BY <2>2, <2>3 DEF Processes
<1>3. proc' \in [Pids -> Processes]
  <2>1. proc' = [q \in Pids |-> proc'[q]]
    BY DEF Tick
  <2> QED
    BY <1>2, <2>1
<1>4. TypeOK'
  BY <1>0, <1>1, <1>3 DEF TypeOK
<1>5. \A k \in FaultKinds : faults'[k] >= faults[k]
  BY <1>0, <1>1 DEF TypeOK
<1>6. LockInv' /\ ChildInv' /\ OrphanInv'
  <2>1. \A q \in Pids : GoesOnAs(q)
    BY <1>2 DEF GoesOnAs
  <2> QED
    BY <1>1, <1>2, <1>4, <1>5, <2>1, KinStays, LockStays DEF TypeOK
<1>8. AimInv'
  <2>1. lock # Nobody => lock \in Pids
    BY DEF IndInv, LockInv, All
  <2> QED
    BY <1>0, <1>1, <1>2, <2>1, SightStays DEF TypeOK
<1>7. SureInv'
  <2> SUFFICES ASSUME NEW p \in Pids, proc'[p].is = "command", proc'[p].pc = "pause",
                      proc'[p].sure
               PROVE  All("command")' = {p} /\ lock = Nobody
    BY <1>1 DEF SureInv, All
  <2>1. All("command") = {p}
        /\ (lock # Nobody => proc[lock].pc = "wait" /\ "TERM" \in proc[lock].sig)
    BY <1>2 DEF IndInv, SureInv, All
  <2>2. All("command")' = {p}
    BY <1>2, <2>1 DEF All
  <2>3. lock # Nobody => Busy(lock) /\ lock \in Pids
    BY <2>1 DEF Busy, IndInv, LockInv, All
  <2> QED
    BY <2>2, <2>3 DEF Tick
<1> QED
  BY <1>4, <1>6, <1>7, <1>8 DEF IndInv

\* One process, no command, changes a field that is nobody else's business.
LEMMA FieldStep ==
  ASSUME IndInv, NEW w \in Pids, proc' \in [Pids -> Processes],
         \A q \in Pids \ {w} : proc'[q] = proc[q], GoesOnAs(w),
         UNCHANGED <<lock, pidfile, sighted>>, commands' \in Nat,
         faults' \in [FaultKinds -> Nat], \A k \in FaultKinds : faults'[k] >= faults[k],
         proc[w].is # "command", proc'[w].pc \notin Locking,
         proc[w].pc = "wait" /\ "TERM" \in proc[w].sig =>
           proc'[w].pc = "wait" /\ "TERM" \in proc'[w].sig
  PROVE  IndInv'
<1>1. TypeOK'
  BY DEF IndInv, TypeOK
<1>2. \A q \in Pids : GoesOnAs(q)
  BY DEF GoesOnAs
<1>3. ChildInv' /\ OrphanInv'
  BY <1>2, KinStays
<1>4. lock # Nobody => lock \in Pids
  BY DEF IndInv, LockInv, All
<1>5. proc[w].pc \notin Locking
  BY DEF IndInv, LockInv
<1>6. LockInv'
  BY <1>2, <1>5, LockStays
<1>7. AimInv'
  <2>1. w \notin sighted
    BY DEF IndInv, AimInv
  <2>2. \A q \in sighted : proc'[q] = proc[q]
    BY <2>1 DEF IndInv, TypeOK
  <2> QED
    BY <1>4, <2>2, SightStays DEF Locking
<1>8. SureInv'
  BY <1>4, SureStays DEF GoesOnAs
<1> QED
  BY <1>1, <1>3, <1>6, <1>7, <1>8 DEF IndInv

\* The watcher wakes after its fork.
LEMMA WakeStep == ASSUME IndInv, NEW w \in Pids, Wake(w) PROVE IndInv'
<1>0. TypeOK /\ proc[w] \in Processes
  BY DEF IndInv, TypeOK
<1>1. /\ proc[w].is = "watcher" /\ proc[w].pc = "nap"
      /\ UNCHANGED <<lock, pidfile, commands, faults, sighted>>
  BY DEF Wake
<1>2. PICK v \in {"spin", "wait"} :
        /\ proc' = [proc EXCEPT ![w] = [proc[w] EXCEPT !.pc = v]]
        /\ v = "spin" => proc[w].child = Failed
  BY DEF Wake
<1>3. [proc[w] EXCEPT !.pc = v] \in Processes
  BY <1>0, <1>2, FieldForm DEF Pcs
<1>4. /\ proc' \in [Pids -> Processes] /\ proc'[w] = [proc[w] EXCEPT !.pc = v]
      /\ \A q \in Pids \ {w} : proc'[q] = proc[q]
  BY <1>0, <1>2, <1>3 DEF TypeOK
<1>5. /\ proc'[w].is = proc[w].is /\ proc'[w].cmd = proc[w].cmd /\ proc'[w].pc = v
      /\ proc'[w].parent = proc[w].parent /\ proc'[w].child = proc[w].child
      /\ proc'[w].sig = proc[w].sig
  BY <1>0, <1>4 DEF Processes
<1>6. Failed \notin Pids
  BY DaemonAssumption DEF Failed
<1>7. GoesOnAs(w)
  BY <1>2, <1>5, <1>6 DEF GoesOnAs
<1>8. faults' \in [FaultKinds -> Nat] /\ commands' \in Nat
      /\ \A k \in FaultKinds : faults'[k] >= faults[k]
  BY <1>0, <1>1 DEF TypeOK
<1> QED
  BY <1>1, <1>2, <1>4, <1>5, <1>7, <1>8, FieldStep DEF Locking

\* The worker begins to serve.
LEMMA StartWorkerStep == ASSUME IndInv, NEW c \in Pids, StartWorker(c) PROVE IndInv'
<1>0. TypeOK /\ proc[c] \in Processes
  BY DEF IndInv, TypeOK
<1>1. /\ proc[c].is = "worker" /\ proc[c].pc = "rise"
      /\ UNCHANGED <<lock, pidfile, commands, faults, sighted>>
      /\ proc' = [proc EXCEPT ![c] = [proc[c] EXCEPT !.pc = "work"]]
  BY DEF StartWorker
<1>2. [proc[c] EXCEPT !.pc = "work"] \in Processes
  BY <1>0, FieldForm DEF Pcs
<1>3. /\ proc' \in [Pids -> Processes] /\ proc'[c] = [proc[c] EXCEPT !.pc = "work"]
      /\ \A q \in Pids \ {c} : proc'[q] = proc[q]
  BY <1>0, <1>1, <1>2 DEF TypeOK
<1>4. /\ proc'[c].is = proc[c].is /\ proc'[c].cmd = proc[c].cmd
      /\ proc'[c].parent = proc[c].parent /\ proc'[c].sig = proc[c].sig /\ proc'[c].pc = "work"
  BY <1>0, <1>3 DEF Processes
<1>5. GoesOnAs(c)
  BY <1>1, <1>4 DEF GoesOnAs
<1>6. faults' \in [FaultKinds -> Nat] /\ commands' \in Nat
      /\ \A k \in FaultKinds : faults'[k] >= faults[k]
  BY <1>0, <1>1 DEF TypeOK
<1> QED
  BY <1>1, <1>3, <1>4, <1>5, <1>6, FieldStep DEF Locking

\* The watcher's fork fails.
LEMMA ForkFailsStep == ASSUME IndInv, NEW w \in Pids, ForkFails(w) PROVE IndInv'
<1> DEFINE x == [proc[w] EXCEPT !.pc = "nap", !.t = 3, !.child = Failed]
<1>0. TypeOK /\ proc[w] \in Processes
  BY DEF IndInv, TypeOK
<1>1. /\ proc[w].is = "watcher" /\ proc[w].pc = "fork" /\ Fault("system")
      /\ UNCHANGED <<lock, pidfile, commands, sighted>>
      /\ proc' = [proc EXCEPT ![w] = x]
  BY <1>0 DEF ForkFails, TypeOK
<1>2. x \in Processes /\ x.is = proc[w].is /\ x.cmd = proc[w].cmd /\ x.sig = proc[w].sig
      /\ x.parent = proc[w].parent /\ x.pc = "nap"
  <2>1. 3 \in 0 .. 3
    OBVIOUS
  <2>2. [proc[w] EXCEPT !.pc = "nap"] \in Processes
    BY <1>0, FieldForm DEF Pcs
  <2>3. [[proc[w] EXCEPT !.pc = "nap"] EXCEPT !.t = 3] \in Processes
    BY <2>1, <2>2, FieldForm
  <2>4. x \in Processes
    BY <2>3, FieldForm
  <2> QED
    BY <1>0, <2>4 DEF Processes
<1> HIDE DEF x
<1>3. /\ proc' \in [Pids -> Processes] /\ proc'[w] = x
      /\ \A q \in Pids \ {w} : proc'[q] = proc[q]
  BY <1>0, <1>1, <1>2 DEF TypeOK
<1>4. GoesOnAs(w)
  BY <1>1, <1>2, <1>3 DEF GoesOnAs
<1>5. faults' \in [FaultKinds -> Nat] /\ commands' \in Nat
      /\ \A k \in FaultKinds : faults'[k] >= faults[k]
  <2>1. "system" \in FaultKinds
    BY DEF FaultKinds
  <2> QED
    BY <1>0, <1>1, <2>1, FaultForm DEF TypeOK
<1> QED
  BY <1>1, <1>2, <1>3, <1>4, <1>5, FieldStep DEF Locking

\* A worker is stopped for a while, and its watcher is told.
LEMMA StopWorkerStep == ASSUME IndInv, NEW c \in Pids, StopWorker(c) PROVE IndInv'
<1> DEFINE w == proc[c].parent
           x == [proc[w] EXCEPT !.sig = proc[w].sig \cup {"CHLD"}]
<1>0. TypeOK /\ w \in Pids /\ proc[w] \in Processes /\ proc[w].is = "watcher"
  BY DEF IndInv, TypeOK, StopWorker, ChildInv, All
<1>1. /\ Fault("sigstop") /\ UNCHANGED <<lock, pidfile, commands, sighted>>
      /\ proc' = [proc EXCEPT ![w] = x]
  BY <1>0 DEF StopWorker, TypeOK
<1>2. proc[w].sig \cup {"CHLD"} \in SUBSET {"TERM", "CHLD"}
  BY <1>0 DEF Processes
<1> HIDE DEF w
<1>3. x \in Processes /\ x.is = proc[w].is /\ x.cmd = proc[w].cmd /\ x.child = proc[w].child
      /\ x.parent = proc[w].parent /\ x.pc = proc[w].pc
      /\ x.sig = proc[w].sig \cup {"CHLD"}
  <2>1. x \in Processes
    BY <1>0, <1>2, FieldForm
  <2> QED
    BY <1>0, <2>1 DEF Processes
<1> HIDE DEF x
<1>4. /\ proc' \in [Pids -> Processes] /\ proc'[w] = x
      /\ \A q \in Pids \ {w} : proc'[q] = proc[q]
  BY <1>0, <1>1, <1>3 DEF TypeOK
<1>5. faults' \in [FaultKinds -> Nat] /\ commands' \in Nat /\ faults'["sigstop"] > 0
      /\ \A k \in FaultKinds : faults'[k] >= faults[k]
  <2>1. "sigstop" \in FaultKinds
    BY DEF FaultKinds
  <2> QED
    BY <1>0, <1>1, <2>1, FaultForm DEF TypeOK
<1>6. GoesOnAs(w)
  BY <1>3, <1>4, <1>5 DEF GoesOnAs
<1>7. proc[w].pc \notin Locking
  BY <1>0 DEF IndInv, LockInv
<1> QED
  BY <1>0, <1>1, <1>3, <1>4, <1>5, <1>6, <1>7, FieldStep

\* A command is given.
LEMMA LaunchStep ==
  ASSUME IndInv, NEW p \in Pids, NEW cmd \in Commands, Launch(p, cmd) PROVE IndInv'
<1>0. TypeOK
  BY DEF IndInv
<1>1. /\ proc[p].is = "free" /\ UNCHANGED <<lock, pidfile, faults, sighted>>
      /\ commands' = commands + 1
      /\ proc' = [q \in Pids |->
           IF q = p
           THEN CASE cmd = "start"   -> [Process("command", "lock") EXCEPT !.cmd = cmd]
                  [] cmd = "start_i" -> [Process("worker", "work") EXCEPT !.cmd = cmd]
                  [] OTHER           -> [Process("command", "stop") EXCEPT !.cmd = cmd]
           ELSE [proc[q] EXCEPT !.sure = FALSE]]
  BY DEF Launch, NewPid
<1>2. PICK k \in {"command", "worker"}, v \in {"lock", "work", "stop"} :
        proc'[p] = [Process(k, v) EXCEPT !.cmd = cmd]
  <2>1. CASE cmd = "start"
    BY <1>1, <2>1
  <2>2. CASE cmd = "start_i"
    BY <1>1, <2>2
  <2>3. CASE cmd # "start" /\ cmd # "start_i"
    BY <1>1, <2>3
  <2> QED
    BY <2>1, <2>2, <2>3
<1>3. /\ proc'[p] \in Processes /\ proc'[p].is \in {"command", "worker"} /\ proc'[p].cmd = cmd
      /\ proc'[p].pc # "pause" /\ proc'[p].pc \notin Locking /\ proc'[p].parent = Nobody
  <2> DEFINE x == Process(k, v)
  <2>1. x \in Processes /\ x.is = k /\ x.pc = v /\ x.parent = Nobody
    BY ProcessForm DEF Pcs
  <2>2. proc'[p] = [x EXCEPT !.cmd = cmd] /\ cmd \in Commands \cup {"none"}
    BY <1>2
  <2> HIDE DEF x
  <2>3. proc'[p] \in Processes
    BY <2>1, <2>2, FieldForm, ZenonT(60)
  <2> QED
    BY <2>1, <2>2, <2>3 DEF Processes, Locking
<1>4. ASSUME NEW q \in Pids \ {p}
      PROVE  /\ proc'[q] \in Processes /\ proc'[q].is = proc[q].is /\ proc'[q].cmd = proc[q].cmd
             /\ proc'[q].parent = proc[q].parent /\ proc'[q].child = proc[q].child
             /\ proc'[q].pc = proc[q].pc /\ proc'[q].sig = proc[q].sig
             /\ proc'[q].aim = proc[q].aim /\ proc'[q].sure = FALSE
  <2>1. proc[q] \in Processes /\ proc'[q] = [proc[q] EXCEPT !.sure = FALSE]
    BY <1>0, <1>1 DEF TypeOK
  <2> QED
    BY <2>1 DEF Processes
<1>5. proc' \in [Pids -> Processes]
  <2>1. proc' = [q \in Pids |-> proc'[q]]
    BY <1>1
  <2> QED
    BY <1>3, <1>4, <2>1
<1>6. TypeOK' /\ \A j \in FaultKinds : faults'[j] >= faults[j]
  BY <1>0, <1>1, <1>5 DEF TypeOK
<1>7. cmd # "none"
  BY DEF Commands
<1>8. LockInv' /\ ChildInv' /\ OrphanInv'
  <2>1. ComesAlone(p)
    BY <1>1, <1>3, <1>7 DEF ComesAlone
  <2>2. \A q \in Pids \ {p} : GoesOnAs(q)
    BY <1>4 DEF GoesOnAs
  <2>3. proc[p].pc \notin Locking
    BY <1>1 DEF IndInv, LockInv
  <2> QED
    BY <1>1, <1>3, <1>4, <1>6, <2>1, <2>2, <2>3, KinStays, LockStays DEF TypeOK
<1>9. SureInv'
  BY <1>3, <1>4 DEF SureInv, All
<1>10. AimInv'
  <2>1. lock # Nobody => lock \in Pids /\ lock # p
    BY <1>1 DEF IndInv, LockInv, All
  <2>2. p \notin sighted /\ sighted \subseteq Pids
    BY <1>1 DEF IndInv, AimInv, TypeOK
  <2> QED
    BY <1>1, <1>4, <2>1, <2>2, SightStays
<1> QED
  BY <1>6, <1>8, <1>9, <1>10 DEF IndInv

\* Another program comes.
LEMMA StrangerStep == ASSUME IndInv, NEW p \in Pids, Stranger(p) PROVE IndInv'
<1> DEFINE x == Process("stranger", "none")
<1>0. TypeOK
  BY DEF IndInv
<1>1. /\ proc[p].is = "free" /\ UNCHANGED <<lock, pidfile, commands, sighted>> /\ Fault("stranger")
      /\ proc' = [proc EXCEPT ![p] = x]
  BY DEF Stranger, NewPid
<1>2. x \in Processes /\ x.is = "stranger" /\ x.parent = Nobody /\ x.pc \notin Locking
  BY ProcessForm DEF Pcs, Locking
<1> HIDE DEF x
<1>3. /\ proc' \in [Pids -> Processes] /\ proc'[p] = x
      /\ \A q \in Pids \ {p} : proc'[q] = proc[q]
  BY <1>0, <1>1, <1>2 DEF TypeOK
<1>4. faults' \in [FaultKinds -> Nat] /\ \A k \in FaultKinds : faults'[k] >= faults[k]
  <2>1. "stranger" \in FaultKinds
    BY DEF FaultKinds
  <2> QED
    BY <1>0, <1>1, <2>1, FaultForm
<1>5. TypeOK'
  BY <1>0, <1>1, <1>3, <1>4 DEF TypeOK
<1>6. LockInv' /\ ChildInv' /\ OrphanInv'
  <2>1. ComesAlone(p) /\ \A q \in Pids \ {p} : GoesOnAs(q)
    BY <1>1, <1>2, <1>3 DEF ComesAlone, GoesOnAs
  <2>2. proc[p].pc \notin Locking
    BY <1>1 DEF IndInv, LockInv
  <2> QED
    BY <1>1, <1>2, <1>3, <1>4, <2>1, <2>2, KinStays, LockStays
<1>7. lock # Nobody => lock \in Pids /\ lock # p
  BY <1>1 DEF IndInv, LockInv, All
<1>8. SureInv'
  BY <1>1, <1>2, <1>3, <1>7, SureStays
<1>9. AimInv'
  <2>1. p \notin sighted /\ sighted \subseteq Pids
    BY <1>1 DEF IndInv, AimInv, TypeOK
  <2> QED
    BY <1>1, <1>3, <1>7, <2>1, SightStays
<1> QED
  BY <1>5, <1>6, <1>8, <1>9 DEF IndInv

\* A process that is nobody's child, is no watcher and has not the lock ends.
LEMMA EndsAloneStep ==
  ASSUME IndInv, NEW p \in Pids, NEW st \in {0, 1, 9, 15}, Ends(p, st),
         proc[p].parent = Nobody, proc[p].is # "watcher", proc[p].pc \notin Locking,
         p \notin sighted,
         UNCHANGED <<pidfile, commands>>, faults' \in [FaultKinds -> Nat],
         \A k \in FaultKinds : faults'[k] >= faults[k]
  PROVE  IndInv'
<1>0. TypeOK
  BY DEF IndInv
<1>n. Nobody \notin Pids
  BY DaemonAssumption
<1>7. lock # p /\ (lock # Nobody => lock \in Pids)
  BY <1>n DEF IndInv, LockInv, All
<1>1. proc' = Gone(proc, p, st) /\ lock' = lock /\ sighted' = sighted
  BY <1>7 DEF Ends, Unlocks
<1>2. \A q \in Pids : proc[q].parent # p
  BY <1>n DEF IndInv, ChildInv, All
<1>3. /\ proc' \in [Pids -> Processes] /\ proc'[p] = Free
      /\ \A q \in Pids \ {p} : proc'[q] = proc[q]
  <2>1. proc \in [Pids -> Processes]
    BY <1>0 DEF TypeOK
  <2>2. proc' \in [Pids -> Processes] /\ proc'[p] = Free
    BY <1>1, <2>1, GoneForm
  <2>3. \A q \in Pids \ {p} : proc[q].parent # p /\ q # proc[p].parent => proc'[q] = proc[q]
    BY <1>1, <2>1, GoneForm
  <2> QED
    BY <1>n, <1>2, <2>2, <2>3
<1>4. TypeOK'
  BY <1>0, <1>1, <1>3 DEF TypeOK
<1>5. LockInv' /\ ChildInv' /\ OrphanInv'
  <2>1. EndsAlone(p) /\ \A q \in Pids \ {p} : GoesOnAs(q)
    BY <1>3 DEF EndsAlone, GoesOnAs
  <2>2. proc'[p].pc \notin Locking
    BY <1>3, FreeForm DEF Locking
  <2> QED
    BY <1>1, <1>3, <1>7, <2>1, <2>2, KinStays, LockStays
<1>6. SureInv'
  BY <1>1, <1>3, <1>7, SureStays, FreeForm
<1>8. AimInv'
  BY <1>0, <1>1, <1>3, <1>7, SightStays DEF TypeOK
<1> QED
  BY <1>4, <1>5, <1>6, <1>8 DEF IndInv

\* A command on its way to the lock has not got it, and has given up no stop.
LEMMA AtLockForm ==
  ASSUME IndInv, NEW p \in Pids, AtLock(p)
  PROVE  /\ proc[p].is = "command" /\ proc[p].parent = Nobody
         /\ proc[p].pc \in {"lock", "pause"} /\ proc[p].pc \notin Locking
         /\ p \notin sighted /\ lock # p
<1>1. proc[p].is = "command" /\ proc[p].pc \in {"lock", "pause"} /\ p # Nobody
  BY DaemonAssumption DEF AtLock
<1>2. proc[p].parent = Nobody
  BY <1>1 DEF IndInv, ChildInv
<1>3. proc[p].pc \notin Locking
  BY <1>1 DEF Locking
<1>4. p \notin sighted
  BY <1>1 DEF IndInv, AimInv
<1>5. lock # p
  BY <1>1, <1>3 DEF IndInv, LockInv, All
<1> QED
  BY <1>1, <1>2, <1>3, <1>4, <1>5

\* daemonize fails.
LEMMA DaemonizeFailsStep == ASSUME IndInv, NEW p \in Pids, DaemonizeFails(p) PROVE IndInv'
<1>1. AtLock(p) /\ Fault("system") /\ Ends(p, 1) /\ UNCHANGED <<pidfile, commands>>
  BY DEF DaemonizeFails
<1>2. "system" \in FaultKinds /\ TypeOK
  BY DEF FaultKinds, IndInv
<1>3. faults' \in [FaultKinds -> Nat] /\ \A k \in FaultKinds : faults'[k] >= faults[k]
  BY <1>1, <1>2, FaultForm
<1> QED
  BY <1>1, <1>3, AtLockForm, EndsAloneStep

\* lockf
LEMMA CheckLockFileStep == ASSUME IndInv, NEW p \in Pids, CheckLockFile(p) PROVE IndInv'
<1>0. TypeOK /\ proc \in [Pids -> Processes] /\ faults \in [FaultKinds -> Nat]
      /\ \A k \in FaultKinds : faults[k] >= faults[k]
  BY DEF IndInv, TypeOK
<1>1. UNCHANGED <<pidfile, commands, faults>> /\ AtLock(p) /\ proc[p].cmd # "restart_i"
  BY DEF CheckLockFile
<1>2. CASE Ends(p, 1)
  BY <1>0, <1>1, <1>2, AtLockForm, EndsAloneStep
<1> DEFINE x == [proc[p] EXCEPT !.pc = "trunc", !.sure = FALSE]
<1>3. CASE lock = Nobody /\ lock' = p /\ proc' = [proc EXCEPT ![p] = x] /\ UNCHANGED sighted
  <2>1. /\ x \in Processes /\ x.is = proc[p].is /\ x.cmd = proc[p].cmd /\ x.pc = "trunc"
        /\ x.parent = proc[p].parent /\ x.sig = proc[p].sig
    <3>1. proc[p] \in Processes
      BY <1>0
    <3>2. [proc[p] EXCEPT !.pc = "trunc"] \in Processes
      BY <3>1, FieldForm DEF Pcs
    <3>3. x \in Processes
      BY <3>2, FieldForm
    <3> QED
      BY <3>1, <3>3 DEF Processes
  <2> HIDE DEF x
  <2>2. /\ proc' \in [Pids -> Processes] /\ proc'[p] = x
        /\ \A q \in Pids \ {p} : proc'[q] = proc[q]
    BY <1>0, <1>3, <2>1
  <2>3. TypeOK'
    BY <1>0, <1>1, <1>3, <2>2 DEF TypeOK
  <2>4. Nobody \notin Pids
    BY DaemonAssumption
  <2>5. LockInv'
    <3>1. /\ \A q \in Pids : proc[q].pc \notin Locking
          /\ \A w \in Pids : proc[w].is = "watcher" =>
               proc[w].cmd = "restart_i" /\ proc[w].parent = Nobody
      BY <1>3, <2>4 DEF IndInv, LockInv, All
    <3>2. ~Up'
      BY <1>3, <2>1, <2>2 DEF Up
    <3>3. proc[p].is = "command" /\ "trunc" \in Locking
      BY <1>1, AtLockForm DEF Locking
    <3> QED
      BY <1>1, <1>3, <2>1, <2>2, <3>1, <3>2, <3>3 DEF LockInv, All
  <2>6. AimInv'
    BY <1>3 DEF IndInv, AimInv, Up
  <2>7. ChildInv' /\ OrphanInv'
    <3>1. \A q \in Pids : GoesOnAs(q)
      BY <1>1, <2>1, <2>2, AtLockForm DEF GoesOnAs
    <3> QED
      BY <1>0, <1>1, <3>1, KinStays
  <2>8. SureInv'
    <3>1. \A q \in Pids : proc[q].is = "command" /\ proc[q].pc = "pause" /\ proc[q].sure => q = p
      BY <1>1, AtLockForm DEF IndInv, SureInv, All
    <3> QED
      BY <2>1, <2>2, <3>1 DEF SureInv, All
  <2> QED
    BY <2>3, <2>5, <2>6, <2>7, <2>8 DEF IndInv
<1> QED
  BY <1>0, <1>2, <1>3 DEF CheckLockFile, LockRefused

\* A command that has the lock writes the pid file: nobody has sighted it yet.
LEMMA LockingStep ==
  ASSUME IndInv, NEW p \in Pids, proc[p].pc \in {"trunc", "write"}, NEW v \in {"write", "mask"},
         proc' = [proc EXCEPT ![p].pc = v], pidfile' \in Pids \cup {Nobody},
         v = "mask" => pidfile' = p,
         UNCHANGED <<lock, commands, faults, sighted>>
  PROVE  IndInv'
<1> DEFINE x == [proc[p] EXCEPT !.pc = v]
<1>0. TypeOK /\ proc \in [Pids -> Processes] /\ faults' \in [FaultKinds -> Nat]
      /\ \A k \in FaultKinds : faults'[k] >= faults[k]
  BY DEF IndInv, TypeOK
<1>1. proc[p].is = "command" /\ lock = p /\ proc[p].cmd # "restart_i" /\ p # Nobody
  BY DaemonAssumption DEF IndInv, LockInv, Locking
<1>2. /\ x \in Processes /\ x.is = proc[p].is /\ x.cmd = proc[p].cmd /\ x.pc = v
      /\ x.parent = proc[p].parent /\ x.sig = proc[p].sig
  <2>1. proc[p] \in Processes
    BY <1>0
  <2>2. x \in Processes
    BY <2>1, FieldForm DEF Pcs
  <2> QED
    BY <2>1, <2>2 DEF Processes
<1> HIDE DEF x
<1>3. /\ proc' \in [Pids -> Processes] /\ proc'[p] = x
      /\ \A q \in Pids \ {p} : proc'[q] = proc[q]
  <2>1. proc' = [proc EXCEPT ![p] = x]
    BY DEF x
  <2> QED
    BY <1>0, <1>2, <2>1
<1>4. TypeOK'
  BY <1>0, <1>3 DEF TypeOK
<1>5. LockInv'
  <2>1. /\ \A q \in Pids : proc[q].pc \in Locking => q = p
        /\ \A w \in Pids : proc[w].is = "watcher" =>
             (proc[w].cmd # "restart_i" => lock = w) /\ proc[w].parent = Nobody
    BY <1>1 DEF IndInv, LockInv, All
  <2>2. Up' => pidfile' = p
    BY <1>1, <1>2, <1>3 DEF Up
  <2>3. v \in Locking
    BY DEF Locking
  <2> QED
    BY <1>1, <1>2, <1>3, <2>1, <2>2, <2>3 DEF LockInv, All
<1>6. AimInv'
  BY <1>1 DEF IndInv, AimInv, Up
<1>7. ChildInv' /\ OrphanInv'
  <2>1. \A q \in Pids : GoesOnAs(q)
    BY <1>2, <1>3 DEF GoesOnAs
  <2> QED
    BY <1>0, <2>1, KinStays
<1>8. SureInv'
  BY <1>1, <1>2, <1>3, SureStays
<1> QED
  BY <1>4, <1>5, <1>6, <1>7, <1>8 DEF IndInv

\* The pid file is emptied, and the pid written.
LEMMA WriteStep == ASSUME IndInv, NEW p \in Pids, Truncate(p) \/ WritePid(p) PROVE IndInv'
BY LockingStep DEF Truncate, WritePid, Written

\* A command becomes a watcher, with the lock or, interactive, without.
LEMMA BlockSignalsStep == ASSUME IndInv, NEW p \in Pids, BlockSignals(p) PROVE IndInv'
<1> DEFINE y == Process("watcher", "fork")
           c == IF proc[p].cmd = "restart_i" THEN "restart_i" ELSE "none"
           x == [y EXCEPT !.cmd = c]
<1>0. TypeOK /\ proc \in [Pids -> Processes]
  BY DEF IndInv, TypeOK
<1>1. /\ proc' = [proc EXCEPT ![p] = x]
      /\ UNCHANGED <<lock, pidfile, commands, faults, sighted>>
      /\ \/ proc[p].pc = "mask" \/ (AtLock(p) /\ proc[p].cmd = "restart_i")
  BY DEF BlockSignals
<1>2. y \in Processes /\ y.is = "watcher" /\ y.pc = "fork" /\ y.parent = Nobody /\ y.sig = {}
  BY ProcessForm DEF Pcs
<1> HIDE DEF y
<1>3. /\ x \in Processes /\ x.is = "watcher" /\ x.pc = "fork" /\ x.parent = Nobody /\ x.sig = {}
      /\ x.cmd = c
  <2>1. c \in Commands \cup {"none"}
    BY DEF Commands
  <2> HIDE DEF c
  <2>2. x \in Processes
    BY <1>2, <2>1, FieldForm
  <2> QED
    BY <1>2, <2>2 DEF Processes
<1> HIDE DEF x
<1>4. /\ proc' \in [Pids -> Processes] /\ proc'[p] = x
      /\ \A q \in Pids \ {p} : proc'[q] = proc[q]
  BY <1>0, <1>1, <1>3
<1>5. /\ proc[p].is = "command" /\ proc[p].parent = Nobody /\ proc[p].pc # "kill" /\ p # Nobody
      /\ lock = p \/ x.cmd = "restart_i"
      /\ lock = p => proc[p].pc = "mask"
  <2>1. CASE proc[p].pc = "mask"
    BY <1>3, <2>1, DaemonAssumption DEF IndInv, LockInv, ChildInv, Locking
  <2>2. CASE AtLock(p) /\ proc[p].cmd = "restart_i"
    BY <1>3, <2>2, AtLockForm, DaemonAssumption
  <2> QED
    BY <1>1, <2>1, <2>2
<1>6. TypeOK'
  BY <1>0, <1>1, <1>4 DEF TypeOK
<1>7. LockInv'
  <2>1. /\ lock # Nobody =>
             /\ lock \in Pids
             /\ proc[lock].is = "watcher" \/ (proc[lock].is = "command" /\ proc[lock].pc \in Locking)
        /\ \A q \in Pids : proc[q].pc \in Locking =>
             proc[q].is = "command" /\ lock = q /\ proc[q].cmd # "restart_i"
        /\ \A w \in Pids : proc[w].is = "watcher" =>
             (proc[w].cmd # "restart_i" => lock = w) /\ proc[w].parent = Nobody
    BY DEF IndInv, LockInv, All
  <2>2. Up' => Up
    BY <1>1, <1>4, <1>5, <2>1 DEF Up
  <2>3. Up' => pidfile' = lock'
    BY <1>1, <2>2 DEF IndInv, LockInv
  <2>4. "fork" \notin Locking
    BY DEF Locking
  <2> QED
    BY <1>1, <1>3, <1>4, <1>5, <2>1, <2>3, <2>4 DEF LockInv, All
<1>8. AimInv'
  <2>1. p \notin sighted
    BY <1>5 DEF IndInv, AimInv
  <2>2. lock # Nobody => lock \in Pids
    BY DEF IndInv, LockInv, All
  <2> QED
    BY <1>0, <1>1, <1>3, <1>4, <2>1, <2>2, SightStays DEF TypeOK
<1>9. ChildInv'
  BY <1>3, <1>4, <1>5 DEF IndInv, ChildInv, All
<1>10. OrphanInv'
  <2>1. UNCHANGED <<Count("kill"), Count("sigstop")>>
    BY <1>1 DEF Count
  <2> QED
    BY <1>3, <1>4, <1>5, <2>1 DEF IndInv, OrphanInv, ChildInv, All
<1>11. SureInv'
  <2>1. lock # Nobody => lock \in Pids
    BY DEF IndInv, LockInv, All
  <2> QED
    BY <1>1, <1>3, <1>4, <1>5, <2>1, SureStays
<1> QED
  BY <1>6, <1>7, <1>8, <1>9, <1>10, <1>11 DEF IndInv

-------------------------------------------------------------------------------
(* Steps that change families. *)

\* Families, as the invariant describes them.
LEMMA Families ==
  ASSUME IndInv
  PROVE  /\ Nobody \notin Pids /\ Failed \notin Pids
         /\ \A w \in Pids : proc[w].is = "watcher" => proc[w].parent = Nobody
         /\ \A q \in Pids : proc[q].parent # Nobody =>
              /\ proc[q].is = "zombie" \/ (proc[q].is = "worker" /\ proc[q].cmd = "none")
              /\ proc[q].parent \in Pids /\ proc[proc[q].parent].is = "watcher"
              /\ proc[proc[q].parent].child = q
              /\ proc[proc[q].parent].pc \in {"nap", "wait"}
         /\ \A q \in Pids : proc[q].is = "zombie" => proc[q].parent # Nobody
<1>1. Nobody \notin Pids
  BY DaemonAssumption
<1>2. Failed \notin Pids
  <2>1. \A n \in Nat : n # -1
    OBVIOUS
  <2> QED
    BY <2>1, DaemonAssumption DEF Failed
<1>3. \A w \in Pids : proc[w].is = "watcher" => proc[w].parent = Nobody
  BY DEF IndInv, LockInv, All
<1>4. ASSUME NEW q \in Pids, proc[q].parent # Nobody
      PROVE  /\ proc[q].is = "zombie" \/ (proc[q].is = "worker" /\ proc[q].cmd = "none")
             /\ proc[q].parent \in Pids /\ proc[proc[q].parent].is = "watcher"
             /\ proc[proc[q].parent].child = q
             /\ proc[proc[q].parent].pc \in {"nap", "wait"}
  BY <1>4 DEF IndInv, ChildInv, All
<1>5. \A q \in Pids : proc[q].is = "zombie" => proc[q].parent # Nobody
  BY DEF IndInv, ChildInv
<1> QED
  BY <1>1, <1>2, <1>3, <1>4, <1>5

\* Unmeddled, the invariant says more.
LEMMA Unmeddled ==
  ASSUME IndInv, Count("kill") + Count("sigstop") = 0
  PROVE  /\ \A q \in Pids :
              proc[q].is = "worker" /\ proc[q].cmd = "none" => proc[q].parent # Nobody
         /\ \A w \in Pids : proc[w].is = "watcher" /\ "CHLD" \in proc[w].sig =>
              /\ proc[w].child \in Pids /\ proc[proc[w].child].is = "zombie"
              /\ proc[proc[w].child].parent = w
BY DEF IndInv, OrphanInv, All

\* The watcher forks.
LEMMA ForkStep == ASSUME IndInv, NEW w \in Pids, NEW c \in Pids, Fork(w, c) PROVE IndInv'
<1> DEFINE x == [proc[w] EXCEPT !.pc = "nap", !.t = 3, !.child = c]
           y == [Process("worker", "rise") EXCEPT !.t = 3, !.parent = w]
<1>0. TypeOK /\ proc[w] \in Processes
  BY DEF IndInv, TypeOK
<1>1. /\ proc[w].is = "watcher" /\ proc[w].pc = "fork" /\ proc[c].is = "free" /\ w # c
      /\ UNCHANGED <<lock, pidfile, commands, faults, sighted>>
  BY DEF Fork, NewPid
<1>2. /\ proc'[w] = x /\ proc'[c] = y /\ DOMAIN proc' = Pids
      /\ \A q \in Pids \ {w, c} : proc'[q] = proc[q]
      /\ proc' = [q \in Pids |-> proc'[q]]
  BY <1>0, <1>1 DEF Fork, TypeOK
<1>3. 3 \in 0 .. 3
  OBVIOUS
<1>4. /\ x \in Processes /\ x.is = "watcher" /\ x.cmd = proc[w].cmd /\ x.sig = proc[w].sig
      /\ x.parent = proc[w].parent /\ x.pc = "nap" /\ x.child = c
  <2>1. [proc[w] EXCEPT !.pc = "nap"] \in Processes
    BY <1>0, FieldForm DEF Pcs
  <2>2. [[proc[w] EXCEPT !.pc = "nap"] EXCEPT !.t = 3] \in Processes
    BY <1>3, <2>1, FieldForm
  <2>3. x \in Processes
    BY <2>2, FieldForm
  <2> QED
    BY <1>0, <1>1, <2>3 DEF Processes
<1>5. y \in Processes /\ y.is = "worker" /\ y.cmd = "none" /\ y.parent = w /\ y.sig = {}
      /\ y.pc = "rise"
  <2> DEFINE z == Process("worker", "rise")
  <2>1. z \in Processes /\ z.is = "worker" /\ z.cmd = "none" /\ z.sig = {} /\ z.pc = "rise"
    BY ProcessForm DEF Pcs
  <2> HIDE DEF z
  <2>2. [z EXCEPT !.t = 3] \in Processes
    BY <1>3, <2>1, FieldForm
  <2>3. [[z EXCEPT !.t = 3] EXCEPT !.parent = w] \in Processes
    BY <2>2, FieldForm
  <2>4. [[z EXCEPT !.t = 3] EXCEPT !.parent = w].is = "worker"
        /\ [[z EXCEPT !.t = 3] EXCEPT !.parent = w].cmd = "none"
        /\ [[z EXCEPT !.t = 3] EXCEPT !.parent = w].parent = w
        /\ [[z EXCEPT !.t = 3] EXCEPT !.parent = w].sig = {}
        /\ [[z EXCEPT !.t = 3] EXCEPT !.parent = w].pc = "rise"
    BY <2>1 DEF Processes
  <2> QED
    BY <2>3, <2>4 DEF z
<1> HIDE DEF x, y
<1>6. proc' \in [Pids -> Processes]
  <2>1. \A q \in Pids : proc'[q] \in Processes
    BY <1>0, <1>2, <1>4, <1>5 DEF TypeOK
  <2> QED
    BY <1>2, <2>1
<1>7. TypeOK'
  BY <1>0, <1>1, <1>6 DEF TypeOK
<1>8. LockInv'
  BY <1>1, <1>2, <1>4, <1>5 DEF IndInv, LockInv, Locking, Up, All
<1>13. AimInv'
  <2>1. lock # Nobody => lock \in Pids
    BY DEF IndInv, LockInv, All
  <2>2. w \notin sighted /\ c \notin sighted /\ sighted \subseteq Pids
    BY <1>1 DEF IndInv, AimInv, TypeOK
  <2> QED
    BY <1>1, <1>2, <1>4, <1>5, <2>1, <2>2, SightStays
<1>9. \A q \in Pids : proc[q].parent # w /\ proc[q].parent # c
  BY <1>1, Families
<1>10. ChildInv'
  BY <1>1, <1>2, <1>4, <1>5, <1>9, Families DEF ChildInv, All
<1>11. OrphanInv'
  <2> SUFFICES ASSUME Count("kill") + Count("sigstop") = 0
               PROVE  /\ \A p \in All("worker")' :
                           proc'[p].cmd = "none" => proc'[p].parent # Nobody
                      /\ \A v \in All("watcher")' : "CHLD" \in proc'[v].sig =>
                           proc'[v].child \in All("zombie")' /\ proc'[proc'[v].child].parent = v
    BY <1>1 DEF OrphanInv, Count
  <2>1. "CHLD" \notin proc[w].sig
    BY <1>1, <1>9, Unmeddled
  <2>2. \A p \in Pids : proc'[p].is = "worker" /\ proc'[p].cmd = "none" => proc'[p].parent # Nobody
    BY <1>2, <1>4, <1>5, Unmeddled, Families
  <2>3. ASSUME NEW v \in Pids, proc'[v].is = "watcher", "CHLD" \in proc'[v].sig
        PROVE  /\ proc'[v].child \in Pids /\ proc'[proc'[v].child].is = "zombie"
               /\ proc'[proc'[v].child].parent = v
    <3>1. v # w /\ v # c /\ proc'[v] = proc[v]
      BY <1>2, <1>4, <1>5, <2>1, <2>3
    <3>2. /\ proc[v].child \in Pids /\ proc[proc[v].child].is = "zombie"
          /\ proc[proc[v].child].parent = v
      BY <2>3, <3>1, Unmeddled
    <3>3. proc[v].child # w /\ proc[v].child # c
      BY <1>1, <3>2
    <3> QED
      BY <1>2, <3>1, <3>2, <3>3
  <2> QED
    BY <2>2, <2>3 DEF All
<1>12. SureInv'
  <2>1. lock # Nobody => lock \in Pids /\ lock # c
    BY <1>1 DEF IndInv, LockInv, All
  <2> QED
    BY <1>1, <1>2, <1>4, <1>5, <2>1, SureStays
<1> QED
  BY <1>7, <1>8, <1>10, <1>11, <1>12, <1>13 DEF IndInv

\* A worker that has a watcher ends, and its watcher is told.
LEMMA ChildEndsStep ==
  ASSUME IndInv, NEW c \in Pids, NEW st \in {0, 1, 9, 15}, Ends(c, st),
         proc[c].is = "worker", proc[c].parent # Nobody,
         UNCHANGED <<pidfile, commands>>, faults' \in [FaultKinds -> Nat],
         \A k \in FaultKinds : faults'[k] >= faults[k]
  PROVE  IndInv'
<1> DEFINE w == proc[c].parent
<1>0. TypeOK /\ proc \in [Pids -> Processes]
  BY DEF IndInv, TypeOK
<1>1. proc' = Gone(proc, c, st) /\ lock' = lock /\ sighted' = sighted
  <2>1. c # Nobody
    BY DaemonAssumption
  <2>2. lock # c
    BY <2>1 DEF IndInv, LockInv, All
  <2> QED
    BY <2>2 DEF Ends, Unlocks
<1>2. /\ w \in Pids /\ proc[w].is = "watcher" /\ proc[w].child = c /\ w # c
      /\ proc[w].pc \in {"nap", "wait"} /\ proc[w].parent = Nobody
      /\ \A q \in Pids : proc[q].parent # c /\ (proc[q].parent = w => q = c)
  BY Families
<1>3. /\ proc' \in [Pids -> Processes] /\ proc'[c].is = "zombie" /\ proc'[c].parent = w
      /\ proc'[c].sig = {} /\ proc'[c].pc = "none"
  BY <1>0, <1>1, GoneForm
<1>4. \A q \in Pids \ {c} : q # w => proc'[q] = proc[q]
  BY <1>0, <1>1, <1>2, GoneForm
<1>5. /\ proc'[w].is = "watcher" /\ proc'[w].pc = proc[w].pc /\ proc'[w].cmd = proc[w].cmd
      /\ proc'[w].child = c /\ proc'[w].parent = Nobody /\ proc[w].sig \subseteq proc'[w].sig
  BY <1>0, <1>1, <1>2, GoneForm
<1> HIDE DEF w
<1>6. TypeOK'
  BY <1>0, <1>1, <1>3 DEF TypeOK
<1>7. LockInv'
  BY <1>1, <1>2, <1>3, <1>4, <1>5 DEF IndInv, LockInv, Locking, Up, All
<1>11. AimInv'
  <2>1. lock # Nobody => lock \in Pids
    BY DEF IndInv, LockInv, All
  <2>2. w \notin sighted /\ c \notin sighted /\ sighted \subseteq Pids
    BY <1>2 DEF IndInv, AimInv, TypeOK
  <2> QED
    BY <1>1, <1>2, <1>3, <1>4, <1>5, <2>1, <2>2, SightStays
<1>8. ChildInv'
  BY <1>2, <1>3, <1>4, <1>5, Families DEF ChildInv, All
<1>9. OrphanInv'
  <2> SUFFICES ASSUME Count("kill")' + Count("sigstop")' = 0
               PROVE  /\ \A p \in All("worker")' :
                           proc'[p].cmd = "none" => proc'[p].parent # Nobody
                      /\ \A v \in All("watcher")' : "CHLD" \in proc'[v].sig =>
                           proc'[v].child \in All("zombie")' /\ proc'[proc'[v].child].parent = v
    BY DEF OrphanInv
  <2>1. Count("kill") + Count("sigstop") = 0
    BY <1>0, UnmeddledBefore
  <2>2. \A p \in Pids : proc'[p].is = "worker" /\ proc'[p].cmd = "none" => proc'[p].parent # Nobody
    BY <1>2, <1>3, <1>4, <1>5, <2>1, Unmeddled
  <2>3. ASSUME NEW v \in Pids, proc'[v].is = "watcher", "CHLD" \in proc'[v].sig
        PROVE  /\ proc'[v].child \in Pids /\ proc'[proc'[v].child].is = "zombie"
               /\ proc'[proc'[v].child].parent = v
    <3>1. CASE v = w
      BY <1>2, <1>3, <1>5, <3>1
    <3>2. CASE v # w
      <4>1. v # c /\ proc'[v] = proc[v]
        BY <1>3, <1>4, <2>3, <3>2
      <4>2. /\ proc[v].child \in Pids /\ proc[proc[v].child].is = "zombie"
            /\ proc[proc[v].child].parent = v
        BY <2>1, <2>3, <4>1, Unmeddled
      <4>3. proc[v].child # w /\ proc[v].child # c
        BY <1>2, <4>2
      <4> QED
        BY <1>4, <4>1, <4>2, <4>3
    <3> QED
      BY <3>1, <3>2
  <2> QED
    BY <2>2, <2>3 DEF All
<1>10. SureInv'
  <2>1. lock # Nobody => lock \in Pids /\ lock # c
    BY DEF IndInv, LockInv, All
  <2> QED
    BY <1>1, <1>3, <1>4, <1>5, <2>1, SureStays
<1> QED
  BY <1>6, <1>7, <1>8, <1>9, <1>10, <1>11 DEF IndInv

\* A worker ends.
LEMMA EndWorkerStep ==
  ASSUME IndInv, NEW c \in Pids, NEW st \in {0, 1}, EndWorker(c, st) PROVE IndInv'
<1>1. /\ proc[c].is = "worker" /\ Fault("crash") /\ Ends(c, st)
      /\ UNCHANGED <<pidfile, commands>> /\ st \in {0, 1, 9, 15}
  BY DEF EndWorker
<1>2. "crash" \in FaultKinds /\ TypeOK
  BY DEF FaultKinds, IndInv
<1>3. faults' \in [FaultKinds -> Nat] /\ \A k \in FaultKinds : faults'[k] >= faults[k]
  BY <1>1, <1>2, FaultForm
<1>4. proc[c].pc \notin Locking /\ c \notin sighted
  BY <1>1 DEF IndInv, LockInv, AimInv
<1> QED
  BY <1>1, <1>3, <1>4, EndsAloneStep, ChildEndsStep

\* A watcher ends.  Its child ends with it or is left without a watcher, which
\* takes somebody who killed the one or stopped the other.
LEMMA WatcherLeaves ==
  ASSUME IndInv, NEW w \in Pids, proc[w].is = "watcher",
         proc' \in [Pids -> Processes], proc'[w] = Free,
         \A q \in Pids \ {w} : proc[q].parent # w => proc'[q] = proc[q],
         \A q \in Pids \ {w} : proc[q].parent = w =>
           \/ proc'[q] = Free
           \/ /\ proc'[q].is = "worker" /\ proc'[q].cmd = "none" /\ proc'[q].parent = Nobody
              /\ proc'[q].pc = proc[q].pc /\ Count("kill")' + Count("sigstop")' # 0,
         Unlocks(w),
         UNCHANGED <<pidfile, commands>>, faults' \in [FaultKinds -> Nat],
         \A k \in FaultKinds : faults'[k] >= faults[k]
  PROVE  IndInv'
<1>0. TypeOK
  BY DEF IndInv
<1>1. TypeOK'
  BY <1>0 DEF TypeOK, Unlocks
<1>2. ASSUME NEW v \in Pids, v # w, proc[v].is = "watcher"
      PROVE  proc'[v] = proc[v]
  BY <1>2, Families
<1>3. ASSUME NEW q \in Pids, proc'[q].is # "free", proc'[q] # proc[q]
      PROVE  /\ q # w /\ proc'[q].is = "worker" /\ proc'[q].parent = Nobody
             /\ Count("kill")' + Count("sigstop")' # 0
  BY <1>3, FreeForm
<1>l. lock' = (IF lock = w THEN Nobody ELSE lock) /\ sighted' = IF lock = w THEN {} ELSE sighted
  BY DEF Unlocks
<1>n. Nobody \notin Pids
  BY DaemonAssumption
<1>c. ASSUME NEW q \in Pids, proc[q].is = "command"
      PROVE  proc'[q] = proc[q]
  BY <1>c, <1>n, Families
<1>4. LockInv'
  <2>1. /\ lock # Nobody =>
             /\ lock \in Pids
             /\ proc[lock].is = "watcher" \/ (proc[lock].is = "command" /\ proc[lock].pc \in Locking)
        /\ \A q \in Pids : proc[q].pc \in Locking =>
             proc[q].is = "command" /\ lock = q /\ proc[q].cmd # "restart_i"
        /\ \A v \in Pids : proc[v].is = "watcher" =>
             (proc[v].cmd # "restart_i" => lock = v) /\ proc[v].parent = Nobody
    BY DEF IndInv, LockInv, All
  <2>2. lock' # Nobody => lock' = lock /\ lock # w /\ lock \in Pids /\ proc'[lock] = proc[lock]
    BY <1>2, <1>c, <1>l, <2>1
  <2>3. ASSUME NEW v \in Pids, proc'[v].is = "watcher"
        PROVE  (proc'[v].cmd # "restart_i" => lock' = v) /\ proc'[v].parent = Nobody
    <3>1. v # w /\ proc'[v] = proc[v]
      BY <1>3, <2>3, FreeForm
    <3> QED
      BY <1>l, <2>1, <2>3, <3>1
  <2>4. ASSUME NEW q \in Pids, proc'[q].pc \in Locking
        PROVE  proc'[q].is = "command" /\ lock' = q /\ proc'[q].cmd # "restart_i"
    <3>1. proc'[q] # Free
      BY <2>4, FreeForm DEF Locking
    <3>2. q # w /\ proc[q].pc \in Locking
      BY <2>4, <3>1
    <3> QED
      BY <1>c, <1>l, <2>1, <3>2
  <2>5. Up' => pidfile' = lock'
    <3>1. Up' => Up /\ lock' = lock
      BY <2>2 DEF Up
    <3> QED
      BY <3>1 DEF IndInv, LockInv
  <2>6. lock' # Nobody =>
          lock' \in All("watcher")' \/ (lock' \in All("command")' /\ proc'[lock'].pc \in Locking)
    <3> SUFFICES ASSUME lock' # Nobody
                 PROVE  /\ lock' \in Pids
                        /\ \/ proc'[lock'].is = "watcher"
                           \/ proc'[lock'].is = "command" /\ proc'[lock'].pc \in Locking
      BY DEF All
    <3>1. lock' = lock /\ lock \in Pids /\ proc'[lock'] = proc[lock] /\ lock # Nobody
      BY <2>2
    <3> QED
      BY <2>1, <3>1
  <2> QED
    BY <2>3, <2>4, <2>5, <2>6 DEF LockInv, All
<1>8. AimInv'
  <2>1. \A q \in sighted : proc'[q] = proc[q]
    BY <1>0, <1>c DEF IndInv, AimInv, TypeOK
  <2>2. lock' # Nobody => proc'[lock] = proc[lock]
    BY <1>2, <1>c, <1>l DEF IndInv, LockInv, All
  <2> QED
    BY <1>l, <2>1, <2>2, SightStays
<1>5. ChildInv'
  <2> SUFFICES ASSUME NEW p \in Pids
               PROVE  /\ proc'[p].is = "zombie" => proc'[p].parent # Nobody
                      /\ proc'[p].parent # Nobody =>
                           /\ \/ proc'[p].is = "zombie"
                              \/ proc'[p].is = "worker" /\ proc'[p].cmd = "none"
                           /\ proc'[p].parent \in Pids
                           /\ proc'[proc'[p].parent].is = "watcher"
                           /\ proc'[proc'[p].parent].child = p
                           /\ proc'[proc'[p].parent].pc \in {"nap", "wait"}
    BY DEF ChildInv, All
  <2>1. CASE proc'[p] = proc[p] /\ p # w
    <3>1. proc'[p].is = "zombie" => proc'[p].parent # Nobody
      BY <2>1, Families
    <3>2. ASSUME proc'[p].parent # Nobody
          PROVE  /\ proc[p].parent # w /\ proc[p].parent \in Pids
                 /\ proc'[proc[p].parent] = proc[proc[p].parent]
      <4>1. proc[p].parent \in Pids /\ proc[proc[p].parent].is = "watcher"
        BY <2>1, <3>2, Families
      <4>2. proc[p].parent # w
        BY <2>1, <3>2, <4>1, FreeForm
      <4> QED
        BY <1>2, <4>1, <4>2
    <3> QED
      BY <2>1, <3>1, <3>2, Families
  <2>2. CASE proc'[p] # proc[p] \/ p = w
    BY <2>2, FreeForm
  <2> QED
    BY <2>1, <2>2
<1>6. OrphanInv'
  <2> SUFFICES ASSUME Count("kill")' + Count("sigstop")' = 0
               PROVE  /\ \A p \in All("worker")' :
                           proc'[p].cmd = "none" => proc'[p].parent # Nobody
                      /\ \A v \in All("watcher")' : "CHLD" \in proc'[v].sig =>
                           proc'[v].child \in All("zombie")' /\ proc'[proc'[v].child].parent = v
    BY DEF OrphanInv
  <2>1. Count("kill") + Count("sigstop") = 0
    BY <1>0, UnmeddledBefore
  <2>2. \A p \in Pids : proc'[p].is = "worker" /\ proc'[p].cmd = "none" => proc'[p].parent # Nobody
    BY <1>3, <2>1, Unmeddled
  <2>3. ASSUME NEW v \in Pids, proc'[v].is = "watcher", "CHLD" \in proc'[v].sig
        PROVE  /\ proc'[v].child \in Pids /\ proc'[proc'[v].child].is = "zombie"
               /\ proc'[proc'[v].child].parent = v
    <3>1. v # w /\ proc'[v] = proc[v]
      BY <1>3, <2>3, FreeForm
    <3>2. /\ proc[v].child \in Pids /\ proc[proc[v].child].is = "zombie"
          /\ proc[proc[v].child].parent = v
      BY <2>1, <2>3, <3>1, Unmeddled
    <3>3. proc'[proc[v].child] = proc[proc[v].child]
      BY <3>1, <3>2
    <3> QED
      BY <3>1, <3>2, <3>3
  <2> QED
    BY <2>2, <2>3 DEF All
<1>7. SureInv'
  <2>1. \A q \in Pids : proc'[q].is = "command" => proc'[q] = proc[q]
    BY <1>3
  <2>2. lock' # Nobody => lock' = lock /\ lock \in Pids /\ proc'[lock] = proc[lock]
    BY <1>2, <1>c, <1>l DEF IndInv, LockInv, All
  <2> QED
    BY <1>l, <2>1, <2>2, SureStays
<1> QED
  BY <1>1, <1>4, <1>5, <1>6, <1>7, <1>8 DEF IndInv

\* A watcher is killed.
LEMMA KillWatcherStep == ASSUME IndInv, NEW w \in Pids, KillWatcher(w) PROVE IndInv'
<1>0. TypeOK /\ proc \in [Pids -> Processes]
  BY DEF IndInv, TypeOK
<1>1. /\ proc[w].is = "watcher" /\ Fault("kill") /\ proc' = Gone(proc, w, 9)
      /\ Unlocks(w) /\ UNCHANGED <<pidfile, commands>>
  BY DEF KillWatcher, Ends
<1>2. /\ faults' \in [FaultKinds -> Nat] /\ faults'["kill"] > 0
      /\ \A k \in FaultKinds : faults'[k] >= faults[k]
  <2>1. "kill" \in FaultKinds
    BY DEF FaultKinds
  <2> QED
    BY <1>0, <1>1, <2>1, FaultForm
<1>3. Count("kill")' + Count("sigstop")' # 0
  BY <1>0, <1>2, UnmeddledBefore
<1>4. proc[w].parent = Nobody /\ Nobody \notin Pids
  BY <1>1, Families
<1>5. proc' \in [Pids -> Processes] /\ proc'[w] = Free
  BY <1>0, <1>1, <1>4, GoneForm
<1>6. \A q \in Pids \ {w} : proc[q].parent # w => proc'[q] = proc[q]
  <2>1. \A q \in Pids \ {w} : proc[q].parent # w /\ q # proc[w].parent => proc'[q] = proc[q]
    BY <1>0, <1>1, GoneForm
  <2> QED
    BY <1>4, <2>1
<1>7. ASSUME NEW q \in Pids \ {w}, proc[q].parent = w
      PROVE  \/ proc'[q] = Free
             \/ /\ proc'[q].is = "worker" /\ proc'[q].cmd = "none" /\ proc'[q].parent = Nobody
                /\ proc'[q].pc = proc[q].pc
  <2>1. proc[q].is = "zombie" \/ (proc[q].is = "worker" /\ proc[q].cmd = "none")
    BY <1>4, <1>7, Families
  <2> QED
    BY <1>0, <1>1, <1>7, <2>1, GoneForm
<1> QED
  BY <1>1, <1>2, <1>3, <1>5, <1>6, <1>7, WatcherLeaves

\* A watcher is told to stop.
LEMMA OnTermStep == ASSUME IndInv, NEW w \in Pids, OnTerm(w) PROVE IndInv'
<1> DEFINE c == proc[w].child
           kill == IF proc[c].parent = w THEN Gone(proc, c, 9) ELSE proc
<1>0. TypeOK /\ proc \in [Pids -> Processes]
  BY DEF IndInv, TypeOK
<1>1. /\ proc[w].is = "watcher" /\ proc' = Gone(kill, w, 0)
      /\ Unlocks(w) /\ UNCHANGED <<pidfile, commands, faults>>
  BY DEF OnTerm
<1>2. faults' \in [FaultKinds -> Nat] /\ \A k \in FaultKinds : faults'[k] >= faults[k]
  BY <1>0, <1>1 DEF TypeOK
<1>3. /\ proc[w].parent = Nobody /\ Nobody \notin Pids
      /\ \A q \in Pids : proc[q].parent = w => q = c /\ q # w
      /\ \A q \in Pids : proc[q].is = "zombie" => proc[q].parent # Nobody
  BY <1>1, Families
<1>4. /\ kill \in [Pids -> Processes] /\ kill[w].parent = Nobody
      /\ \A q \in Pids \ {w} :
           /\ proc[q].parent # w => kill[q] = proc[q]
           /\ proc[q].parent = w => kill[q].is = "zombie" /\ kill[q].parent = w
  <2>1. CASE proc[c].parent # w
    BY <1>0, <1>3, <2>1
  <2>2. CASE proc[c].parent = w /\ c \in Pids
    <3>1. kill = Gone(proc, c, 9)
      BY <2>2
    <3>2. \A q \in Pids : proc[q].parent # c
      <4>1. proc[c].is # "watcher"
        BY <1>1, <1>3, <2>2, Families
      <4> QED
        BY <2>2, <4>1, <1>3, Families
    <3> HIDE DEF kill
    <3>3. kill \in [Pids -> Processes] /\ kill[c].is = "zombie" /\ kill[c].parent = w
      BY <1>0, <1>3, <2>2, <3>1, GoneForm
    <3>4. \A q \in Pids \ {c} : q # w => kill[q] = proc[q]
      BY <1>0, <2>2, <3>1, <3>2, GoneForm
    <3>5. kill[w].parent = Nobody
      BY <1>0, <1>3, <2>2, <3>1, <3>2, GoneForm
    <3> HIDE DEF c
    <3> QED
      BY <1>3, <2>2, <3>3, <3>4, <3>5
  <2>3. CASE proc[c].parent = w /\ c \notin Pids
    <3>1. /\ DOMAIN kill = Pids
          /\ kill = [q \in Pids |-> kill[q]]
          /\ \A q \in Pids :
               kill[q] = IF proc[q].parent = c
                         THEN IF proc[q].is = "zombie" THEN Free
                              ELSE [proc[q] EXCEPT !.parent = Nobody]
                         ELSE IF q = w THEN [proc[q] EXCEPT !.sig = @ \cup {"CHLD"}]
                         ELSE proc[q]
      BY <2>3 DEF Gone
    <3> HIDE DEF kill
    <3>2. ASSUME NEW q \in Pids, proc[q].parent = c
          PROVE  kill[q] = proc[q]
      <4>1. proc[q] \in Processes /\ c = Nobody /\ proc[q].is # "zombie"
        BY <1>0, <1>3, <2>3, <3>2 DEF Processes
      <4>2. [proc[q] EXCEPT !.parent = Nobody] = proc[q]
        BY <3>2, <4>1 DEF Processes
      <4> QED
        BY <3>1, <3>2, <4>1, <4>2
    <3>3. ASSUME proc[w].parent # c
          PROVE  kill[w] \in Processes /\ kill[w].parent = Nobody
      <4>1. proc[w] \in Processes /\ proc[w].sig \cup {"CHLD"} \in SUBSET {"TERM", "CHLD"}
        BY <1>0 DEF Processes
      <4>2. kill[w] = [proc[w] EXCEPT !.sig = proc[w].sig \cup {"CHLD"}]
        BY <3>1, <3>3
      <4>3. kill[w] \in Processes
        BY <4>1, <4>2, FieldForm, ZenonT(60)
      <4> QED
        BY <1>3, <4>1, <4>2, <4>3 DEF Processes
    <3>4. \A q \in Pids \ {w} : kill[q] = proc[q] /\ proc[q].parent # w
      BY <1>3, <2>3, <3>1, <3>2
    <3>5. kill[w] \in Processes /\ kill[w].parent = Nobody
      BY <1>0, <1>3, <3>2, <3>3
    <3> HIDE DEF c
    <3>6. \A q \in Pids : kill[q] \in Processes
      BY <1>0, <3>4, <3>5
    <3>7. kill \in [Pids -> Processes]
      BY <3>1, <3>6
    <3> QED
      BY <3>4, <3>5, <3>7
  <2> QED
    BY <2>1, <2>2, <2>3
<1> HIDE DEF kill
<1>5. proc' \in [Pids -> Processes] /\ proc'[w] = Free
  BY <1>1, <1>4, GoneForm
<1>6. \A q \in Pids \ {w} : proc[q].parent # w => proc'[q] = proc[q]
  <2>1. \A q \in Pids \ {w} : kill[q].parent # w /\ q # kill[w].parent => proc'[q] = kill[q]
    BY <1>1, <1>4, GoneForm
  <2> QED
    BY <1>3, <1>4, <2>1
<1>7. \A q \in Pids \ {w} : proc[q].parent = w => proc'[q] = Free
  BY <1>1, <1>3, <1>4, GoneForm
<1> QED
  BY <1>1, <1>2, <1>5, <1>6, <1>7, WatcherLeaves

\* A watcher is told that a child has ended, or was stopped.
LEMMA OnChildStep == ASSUME IndInv, NEW w \in Pids, OnChild(w) PROVE IndInv'
<1> DEFINE zs == {z \in Pids : proc[z].is = "zombie" /\ proc[z].parent = w}
           x == [proc[w] EXCEPT !.sig = {}, !.pc = "fork"]
           r == Reaped(w, zs)
<1>0. TypeOK /\ proc \in [Pids -> Processes]
  BY DEF IndInv, TypeOK
<1>1. /\ proc[w].is = "watcher" /\ "CHLD" \in proc[w].sig /\ "TERM" \notin proc[w].sig
      /\ UNCHANGED <<pidfile, commands, faults>>
      /\ \/ (\E z \in Pids : z \in zs) /\ proc' = r /\ UNCHANGED <<lock, sighted>>
         \/ proc' = Gone(r, w, 0) /\ Unlocks(w)
  BY DEF OnChild, All, NeedStart
<1>2. faults' \in [FaultKinds -> Nat] /\ \A k \in FaultKinds : faults'[k] >= faults[k]
  BY <1>0, <1>1 DEF TypeOK
<1>3. /\ proc[w].parent = Nobody /\ Nobody \notin Pids
      /\ \A q \in Pids : proc[q].parent = w => q = proc[w].child /\ q # w
      /\ \A q \in Pids : q \in zs => proc[q].parent = w /\ proc[q].is = "zombie"
  BY <1>1, Families
<1>4. /\ x \in Processes /\ x.is = "watcher" /\ x.cmd = proc[w].cmd /\ x.sig = {}
      /\ x.parent = Nobody /\ x.pc = "fork"
  <2>1. proc[w] \in Processes
    BY <1>0
  <2>2. {} \in SUBSET {"TERM", "CHLD"}
    OBVIOUS
  <2>3. [proc[w] EXCEPT !.sig = {}] \in Processes
    BY <2>1, <2>2, FieldForm
  <2>4. x \in Processes
    BY <2>3, FieldForm DEF Pcs
  <2> QED
    BY <1>1, <1>3, <2>1, <2>4 DEF Processes
<1>5. /\ r = [q \in Pids |-> r[q]] /\ r[w] = x
      /\ \A q \in Pids : q \in zs => r[q] = Free
      /\ \A q \in Pids \ {w} : q \notin zs => r[q] = proc[q]
  BY <1>3 DEF Reaped
<1>6. \A q \in Pids \ {w} :
        \/ r[q] = proc[q] /\ (proc[q].parent = w => proc[q].is # "zombie")
        \/ r[q] = Free /\ proc[q].parent = w /\ proc[q].is = "zombie"
  BY <1>5
<1> HIDE DEF x, r
<1>7. r \in [Pids -> Processes]
  <2>1. \A q \in Pids : r[q] \in Processes
    BY <1>0, <1>4, <1>5, <1>6, FreeForm
  <2> QED
    BY <1>5, <2>1
<1>8. CASE proc' = Gone(r, w, 0) /\ Unlocks(w)
  <2>1. proc' \in [Pids -> Processes] /\ proc'[w] = Free
    BY <1>4, <1>5, <1>7, <1>8, GoneForm
  <2>2. \A q \in Pids \ {w} : proc[q].parent # w => proc'[q] = proc[q]
    <3>1. r[w].parent = Nobody
      BY <1>4, <1>5
    <3>2. \A q \in Pids \ {w} : proc[q].parent # w => r[q] = proc[q]
      BY <1>6
    <3>3. \A q \in Pids \ {w} : r[q].parent # w /\ q # r[w].parent => proc'[q] = r[q]
      BY <1>7, <1>8, GoneForm
    <3> QED
      BY <1>3, <3>1, <3>2, <3>3
  <2>3. ASSUME NEW q \in Pids \ {w}, proc[q].parent = w
        PROVE  \/ proc'[q] = Free
               \/ /\ proc'[q].is = "worker" /\ proc'[q].cmd = "none" /\ proc'[q].parent = Nobody
                  /\ proc'[q].pc = proc[q].pc /\ Count("kill")' + Count("sigstop")' # 0
    <3>1. CASE proc[q].is = "zombie"
      <4>1. r[q] = Free /\ r[q].parent # w /\ q # r[w].parent
        <5>1. r[w].parent = Nobody /\ w # Nobody /\ q # Nobody
          BY <1>3, <1>4, <1>5
        <5>2. r[q] = Free
          BY <1>6, <2>3, <3>1
        <5> QED
          BY <5>1, <5>2, FreeForm
      <4> QED
        BY <1>7, <1>8, <4>1, GoneForm
    <3>2. CASE proc[q].is # "zombie"
      <4>1. proc[q].is = "worker" /\ proc[q].cmd = "none" /\ r[q] = proc[q]
        BY <1>3, <1>6, <2>3, <3>2, Families
      <4>2. /\ proc'[q].is = "worker" /\ proc'[q].cmd = "none" /\ proc'[q].parent = Nobody
            /\ proc'[q].pc = proc[q].pc
        BY <1>7, <1>8, <2>3, <4>1, GoneForm
      <4>3. Count("kill") + Count("sigstop") # 0
        <5>1. q = proc[w].child
          BY <1>3, <2>3
        <5> QED
          BY <1>1, <3>2, <5>1, Unmeddled
      <4> QED
        BY <1>1, <4>2, <4>3 DEF Count
    <3> QED
      BY <3>1, <3>2
  <2> QED
    BY <1>1, <1>2, <1>8, <2>1, <2>2, <2>3, WatcherLeaves
<1>9. ASSUME NEW z \in Pids, z \in zs, proc' = r, UNCHANGED <<lock, sighted>>
      PROVE  IndInv'
  <2>1. /\ z # w /\ proc[z].is = "zombie" /\ proc'[z] = Free /\ proc'[w] = x
        /\ \A q \in Pids \ {w, z} : proc'[q] = proc[q] /\ proc[q].parent # w
        /\ proc[z].parent = w
    BY <1>3, <1>5, <1>6, <1>9
  <2>2. TypeOK'
    BY <1>0, <1>1, <1>7, <1>9 DEF TypeOK
  <2>3. LockInv'
    BY <1>1, <1>4, <1>9, <2>1, FreeForm DEF IndInv, LockInv, Locking, Up, All
  <2>7. AimInv'
    <3>1. lock # Nobody => lock \in Pids
      BY DEF IndInv, LockInv, All
    <3>2. w \notin sighted /\ z \notin sighted /\ sighted \subseteq Pids
      BY <1>1, <2>1 DEF IndInv, AimInv, TypeOK
    <3> QED
      BY <1>1, <1>4, <1>9, <2>1, <3>1, <3>2, FreeForm, SightStays
  <2>4. ChildInv'
    <3> SUFFICES ASSUME NEW p \in Pids
                 PROVE  /\ proc'[p].is = "zombie" => proc'[p].parent # Nobody
                        /\ proc'[p].parent # Nobody =>
                             /\ \/ proc'[p].is = "zombie"
                                \/ proc'[p].is = "worker" /\ proc'[p].cmd = "none"
                             /\ proc'[p].parent \in Pids
                             /\ proc'[proc'[p].parent].is = "watcher"
                             /\ proc'[proc'[p].parent].child = p
                             /\ proc'[proc'[p].parent].pc \in {"nap", "wait"}
      BY DEF ChildInv, All
    <3>1. CASE p = w \/ p = z
      BY <1>4, <2>1, <3>1, FreeForm
    <3>2. CASE p # w /\ p # z
      <4>1. proc'[p] = proc[p] /\ proc[p].parent # w
        BY <2>1, <3>2
      <4>2. proc[p].parent # Nobody =>
              /\ proc[p].parent \in Pids
              /\ proc'[proc[p].parent] = proc[proc[p].parent]
        BY <2>1, <4>1, Families
      <4> QED
        BY <4>1, <4>2, Families
    <3> QED
      BY <3>1, <3>2
  <2>5. OrphanInv'
    <3> SUFFICES ASSUME Count("kill") + Count("sigstop") = 0
                 PROVE  /\ \A p \in All("worker")' :
                             proc'[p].cmd = "none" => proc'[p].parent # Nobody
                        /\ \A v \in All("watcher")' : "CHLD" \in proc'[v].sig =>
                             proc'[v].child \in All("zombie")' /\ proc'[proc'[v].child].parent = v
      BY <1>1 DEF OrphanInv, Count
    <3>1. \A p \in Pids : proc'[p].is = "worker" /\ proc'[p].cmd = "none" => proc'[p].parent # Nobody
      BY <1>4, <2>1, Unmeddled, FreeForm
    <3>2. ASSUME NEW v \in Pids, proc'[v].is = "watcher", "CHLD" \in proc'[v].sig
          PROVE  /\ proc'[v].child \in Pids /\ proc'[proc'[v].child].is = "zombie"
                 /\ proc'[proc'[v].child].parent = v
      <4>1. v # w /\ v # z /\ proc'[v] = proc[v]
        BY <1>4, <2>1, <3>2, FreeForm
      <4>2. /\ proc[v].child \in Pids /\ proc[proc[v].child].is = "zombie"
            /\ proc[proc[v].child].parent = v
        BY <3>2, <4>1, Unmeddled
      <4>3. proc[v].child # w /\ proc[v].child # z
        BY <1>1, <2>1, <4>1, <4>2
      <4> QED
        BY <2>1, <4>1, <4>2, <4>3
    <3> QED
      BY <3>1, <3>2 DEF All
  <2>6. SureInv'
    <3>1. lock # Nobody => lock \in Pids /\ lock # z
      BY <2>1 DEF IndInv, LockInv, All
    <3> QED
      BY <1>1, <1>4, <1>9, <2>1, <3>1, SureStays, FreeForm
  <2> QED
    BY <2>2, <2>3, <2>4, <2>5, <2>6, <2>7 DEF IndInv
<1> QED
  BY <1>1, <1>8, <1>9

\* What doStop's kill does to the process p that gives it, to its victim and to
\* the others.
Told(p, b, a, told) ==
  /\ told \in [Pids -> Processes]
  /\ \/ told[p] = [proc[p] EXCEPT !.sure = b] /\ a # p
     \/ told[p] = Free /\ a = p
  /\ \A q \in Pids \ {p} :
       \/ told[q] = proc[q] /\ (q = a => proc[q].is \in {"free", "zombie", "worker"})
       \/ /\ told[q] = Free /\ q = a
          /\ proc[q].parent = Nobody /\ proc[q].is \notin {"watcher", "free"}
       \/ /\ told[q] = [proc[q] EXCEPT !.sig = @ \cup {"TERM"}]
          /\ q = a /\ proc[q].is = "watcher"

LEMMA TermForm ==
  ASSUME IndInv, NEW p \in Pids, proc[p].is = "command", NEW b \in BOOLEAN, NEW a \in Pids \cup {Nobody}
  PROVE  Told(p, b, a, Term([proc EXCEPT ![p].sure = b], a))
<1> DEFINE x == [proc[p] EXCEPT !.sure = b]
           ps == [proc EXCEPT ![p] = x]
           told == Term(ps, a)
<1>0. TypeOK /\ proc \in [Pids -> Processes] /\ Nobody \notin Pids
  BY DaemonAssumption DEF IndInv, TypeOK
<1>1. [proc EXCEPT ![p].sure = b] = ps
  OBVIOUS
<1>2. x \in Processes /\ x.is = "command" /\ x.parent = proc[p].parent
  <2>1. proc[p] \in Processes
    BY <1>0
  <2>2. x \in Processes
    BY <2>1, FieldForm
  <2> QED
    BY <2>1, <2>2 DEF Processes
<1>3. proc[p].parent = Nobody /\ \A q \in Pids : proc[q].parent # p
  BY Families
<1> HIDE DEF x
<1>4. /\ ps \in [Pids -> Processes] /\ ps[p] = x
      /\ \A q \in Pids \ {p} : ps[q] = proc[q]
  BY <1>0, <1>2
<1> HIDE DEF ps
<1>5. Told(p, b, a, told)
  <2>1. CASE a \notin Pids \/ ps[a].is \in {"free", "zombie"}
             \/ (ps[a].is = "worker" /\ ps[a].cmd = "none")
    <3>1. told = ps
      BY <2>1 DEF Term
    <3>2. a # p
      BY <1>2, <1>4, <2>1
    <3>3. \A q \in Pids \ {p} : q = a => proc[q].is \in {"free", "zombie", "worker"}
      BY <1>4, <2>1
    <3> QED
      BY <1>4, <3>1, <3>2, <3>3 DEF Told, x
  <2>2. CASE a \in Pids /\ ps[a].is = "watcher"
    <3> DEFINE y == [proc[a] EXCEPT !.sig = @ \cup {"TERM"}]
    <3>1. a # p /\ proc[a].is = "watcher" /\ ps[a] = proc[a]
      BY <1>2, <1>4, <2>2
    <3>2. told = [ps EXCEPT ![a] = y]
      BY <2>2, <3>1 DEF Term
    <3>3. y \in Processes
      <4>1. proc[a] \in Processes
        BY <1>0, <2>2
      <4>2. proc[a].sig \cup {"TERM"} \in SUBSET {"TERM", "CHLD"}
        BY <4>1 DEF Processes
      <4> QED
        BY <4>1, <4>2, FieldForm
    <3>4. /\ told \in [Pids -> Processes] /\ told[a] = y /\ told[p] = x
          /\ \A q \in Pids \ {p, a} : told[q] = proc[q]
      <4> HIDE DEF y
      <4> QED
        BY <1>4, <2>2, <3>1, <3>2, <3>3
    <3> HIDE DEF told
    <3> QED
      BY <3>1, <3>4 DEF Told, x
  <2>3. CASE /\ a \in Pids /\ ps[a].is \notin {"free", "zombie", "watcher"}
             /\ ~(ps[a].is = "worker" /\ ps[a].cmd = "none")
    <3>1. told = Gone(ps, a, 15)
      BY <2>3 DEF Term
    <3>2. /\ ps[a].parent = Nobody
          /\ proc[a].parent = Nobody /\ proc[a].is \notin {"watcher", "free"}
      <4>1. CASE a = p
        BY <1>2, <1>3, <1>4, <4>1
      <4>2. CASE a # p
        <5>1. ps[a] = proc[a]
          BY <1>4, <2>3, <4>2
        <5> QED
          BY <2>3, <5>1, Families
      <4> QED
        BY <4>1, <4>2
    <3>3. \A q \in Pids : ps[q].parent # a
      <4>1. \A q \in Pids : proc[q].parent # a
        BY <1>0, <2>3, <3>2, Families
      <4> QED
        BY <1>2, <1>4, <4>1
    <3>4. told \in [Pids -> Processes] /\ told[a] = Free
      BY <1>4, <2>3, <3>1, <3>2, GoneForm
    <3>5. \A q \in Pids \ {a} : told[q] = ps[q]
      <4>1. \A q \in Pids : q # ps[a].parent
        BY <1>0, <3>2
      <4>2. \A q \in Pids \ {a} : ps[q].parent # a /\ q # ps[a].parent => told[q] = ps[q]
        BY <1>4, <2>3, <3>1, GoneForm
      <4> QED
        BY <3>3, <4>1, <4>2
    <3> HIDE DEF told
    <3> QED
      BY <1>4, <3>2, <3>4, <3>5 DEF Told, x
  <2> QED
    BY <2>1, <2>2, <2>3
<1> QED
  BY <1>1, <1>5

\* doStop reads the pid file.
LEMMA ReadPidStep == ASSUME IndInv, NEW p \in Pids, ReadPid(p) PROVE IndInv'
<1> DEFINE x == [proc[p] EXCEPT !.pc = "kill", !.aim = pidfile]
<1>0. /\ TypeOK /\ proc \in [Pids -> Processes] /\ pidfile \in Pids \cup {Nobody}
      /\ faults \in [FaultKinds -> Nat] /\ \A k \in FaultKinds : faults[k] >= faults[k]
  BY DEF IndInv, TypeOK
<1>1. /\ proc[p].is = "command" /\ proc[p].pc = "stop" /\ proc' = [proc EXCEPT ![p] = x]
      /\ sighted' = IF Up THEN sighted \cup {p} ELSE sighted
      /\ UNCHANGED <<lock, pidfile, commands, faults>>
  BY <1>0 DEF ReadPid
<1>2. /\ x \in Processes /\ x.is = "command" /\ x.pc = "kill" /\ x.aim = pidfile
      /\ x.cmd = proc[p].cmd /\ x.parent = proc[p].parent /\ x.sig = proc[p].sig
  <2>1. proc[p] \in Processes
    BY <1>0
  <2>2. [proc[p] EXCEPT !.pc = "kill"] \in Processes
    BY <2>1, FieldForm DEF Pcs
  <2>3. x \in Processes
    BY <1>0, <2>2, FieldForm
  <2> QED
    BY <1>1, <2>1, <2>3 DEF Processes
<1> HIDE DEF x
<1>3. /\ proc' \in [Pids -> Processes] /\ proc'[p] = x
      /\ \A q \in Pids \ {p} : proc'[q] = proc[q]
  BY <1>0, <1>1, <1>2
<1>4. TypeOK'
  BY <1>0, <1>1, <1>3 DEF TypeOK
<1>5. \A q \in Pids : GoesOnAs(q)
  BY <1>1, <1>2, <1>3 DEF GoesOnAs
<1>6. LockInv' /\ ChildInv' /\ OrphanInv'
  <2>1. "kill" \notin Locking /\ "stop" \notin Locking
    BY DEF Locking
  <2> QED
    BY <1>0, <1>1, <1>2, <1>3, <1>5, <2>1, KinStays, LockStays
<1>7. lock # Nobody => lock \in Pids /\ lock # p
  BY <1>1 DEF IndInv, LockInv, Locking, All
<1>8. SureInv'
  BY <1>1, <1>2, <1>3, <1>7, SureStays
<1>9. AimInv'
  <2>1. Up => Up'
    BY <1>1, <1>3, <1>7 DEF Up
  <2>2. p \notin sighted /\ sighted \subseteq Pids
    BY <1>0, <1>1 DEF IndInv, AimInv, TypeOK
  <2>3. \A k \in sighted : /\ proc'[k].is = "command" /\ proc'[k].pc = "kill"
                            /\ Up' /\ proc'[k].aim = lock
    BY <1>3, <2>1, <2>2 DEF IndInv, AimInv
  <2>4. Up => /\ proc'[p].is = "command" /\ proc'[p].pc = "kill"
              /\ Up' /\ proc'[p].aim = lock
    BY <1>2, <1>3, <2>1 DEF IndInv, LockInv
  <2> QED
    BY <1>1, <2>3, <2>4 DEF AimInv
<1> QED
  BY <1>4, <1>6, <1>8, <1>9 DEF IndInv

\* The kill hits the command p itself, or p goes on or ends; its victim ends,
\* alone, or is a watcher and is told; the others are as they were.
LEMMA KillForm ==
  ASSUME IndInv, NEW p \in Pids, Kill(p)
  PROVE  LET a == proc[p].aim
             b == a # Nobody /\ a = lock /\ proc[a].pc = "wait" /\ All("command") = {p}
         IN  /\ proc[p].is = "command" /\ proc[p].pc = "kill" /\ proc[p].parent = Nobody
             /\ proc' \in [Pids -> Processes]
             /\ \/ proc'[p] = Free
                \/ /\ proc'[p].is = "command" /\ proc'[p].pc = "pause" /\ proc'[p].t = 2
                   /\ proc'[p].cmd = proc[p].cmd /\ proc'[p].parent = Nobody
                   /\ proc'[p].sig = {} /\ proc'[p].sure = b
             /\ \A q \in Pids \ {p} :
                  \/ /\ proc'[q] = Free /\ q = a
                     /\ proc[q].parent = Nobody /\ proc[q].is \notin {"watcher", "free"}
                  \/ /\ proc'[q].is = proc[q].is /\ proc'[q].cmd = proc[q].cmd
                     /\ proc'[q].parent = proc[q].parent /\ proc'[q].child = proc[q].child
                     /\ proc'[q].pc = proc[q].pc /\ proc'[q].t = proc[q].t
                     /\ proc'[q].sure = proc[q].sure /\ proc'[q].aim = proc[q].aim
                     /\ proc[q].sig \subseteq proc'[q].sig
                     /\ "CHLD" \in proc'[q].sig => "CHLD" \in proc[q].sig
                     /\ q = a => proc[q].is # "command"
                     /\ q = a /\ proc[q].is = "watcher" => "TERM" \in proc'[q].sig
<1> DEFINE a == proc[p].aim
           b == a # Nobody /\ a = lock /\ proc[a].pc = "wait" /\ All("command") = {p}
           told == Term([proc EXCEPT ![p].sure = b], a)
<1>0. /\ proc \in [Pids -> Processes] /\ Nobody \notin Pids /\ a \in Pids \cup {Nobody}
  BY DaemonAssumption DEF IndInv, TypeOK, Processes
<1>1. /\ proc[p].is = "command" /\ proc[p].pc = "kill"
      /\ \/ proc' = Gone(told, p, 0)
         \/ a # p /\ proc' = Paused(told, p)
  BY DEF Kill
<1>b. b \in BOOLEAN
  OBVIOUS
<1> HIDE DEF a, b
<1>2. Told(p, b, a, told)
  BY <1>0, <1>1, <1>b, TermForm
<1>3. proc[p].parent = Nobody /\ \A q \in Pids : proc[q].parent # p
  BY <1>1, Families
<1> HIDE DEF told
<1> DEFINE v == [proc[p] EXCEPT !.sure = b]
<1>4. v.parent = Nobody /\ v.cmd = proc[p].cmd /\ v.sure = b
  <2>1. proc[p] \in Processes
    BY <1>0
  <2> QED
    BY <1>3, <2>1 DEF Processes
<1> HIDE DEF v
<1>5. /\ told \in [Pids -> Processes]
      /\ \/ told[p] = v /\ a # p
         \/ told[p] = Free /\ a = p
  BY <1>2 DEF Told, v
<1>6. ASSUME NEW q \in Pids \ {p}
      PROVE  \/ /\ told[q] = Free /\ q = a
                /\ proc[q].parent = Nobody /\ proc[q].is \notin {"watcher", "free"}
             \/ /\ told[q].is = proc[q].is /\ told[q].cmd = proc[q].cmd
                /\ told[q].parent = proc[q].parent /\ told[q].child = proc[q].child
                /\ told[q].pc = proc[q].pc /\ told[q].t = proc[q].t
                /\ told[q].sure = proc[q].sure /\ told[q].aim = proc[q].aim
                /\ proc[q].sig \subseteq told[q].sig
                /\ "CHLD" \in told[q].sig => "CHLD" \in proc[q].sig
                /\ q = a => proc[q].is # "command"
                /\ q = a /\ proc[q].is = "watcher" => "TERM" \in told[q].sig
  <2>1. proc[q] \in Processes
    BY <1>0
  <2>2. CASE told[q] = proc[q] /\ (q = a => proc[q].is \in {"free", "zombie", "worker"})
    BY <2>2
  <2>3. CASE told[q] = Free /\ q = a /\ proc[q].parent = Nobody /\ proc[q].is \notin {"watcher", "free"}
    BY <2>3
  <2>4. CASE told[q] = [proc[q] EXCEPT !.sig = @ \cup {"TERM"}] /\ proc[q].is = "watcher"
    BY <2>1, <2>4 DEF Processes
  <2> QED
    BY <1>2, <2>2, <2>3, <2>4 DEF Told
<1>7. /\ proc' \in [Pids -> Processes] /\ \A q \in Pids \ {p} : proc'[q] = told[q]
      /\ \/ proc'[p] = Free
         \/ /\ proc'[p].is = "command" /\ proc'[p].pc = "pause" /\ proc'[p].t = 2
            /\ proc'[p].cmd = proc[p].cmd /\ proc'[p].parent = Nobody
            /\ proc'[p].sig = {} /\ proc'[p].sure = b
  <2>1. CASE proc' = Gone(told, p, 0)
    <3>1. told[p].parent = Nobody /\ \A q \in Pids : told[q].parent # p
      BY <1>0, <1>3, <1>4, <1>5, <1>6, FreeForm
    <3>2. proc' \in [Pids -> Processes] /\ proc'[p] = Free
      BY <1>5, <2>1, <3>1, GoneForm
    <3>3. \A q \in Pids \ {p} : told[q].parent # p /\ q # told[p].parent => proc'[q] = told[q]
      BY <1>5, <2>1, GoneForm
    <3> QED
      BY <1>0, <3>1, <3>2, <3>3
  <2>2. CASE a # p /\ proc' = Paused(told, p)
    <3> DEFINE z == Process("command", "pause")
               y == [z EXCEPT !.cmd = proc[p].cmd]
               w == [y EXCEPT !.sure = b]
               u == [w EXCEPT !.t = 2]
    <3>1. z \in Processes /\ z.is = "command" /\ z.pc = "pause" /\ z.parent = Nobody /\ z.sig = {}
      BY ProcessForm DEF Pcs
    <3>2. told[p] = v
      BY <1>5, <2>2
    <3>3. proc' = [told EXCEPT ![p] = u]
      BY <1>4, <2>2, <3>2 DEF Paused
    <3> HIDE DEF z
    <3>4. proc[p].cmd \in Commands \cup {"none"} /\ 2 \in 0 .. 3
      BY <1>0 DEF Processes
    <3>5. y \in Processes /\ y.is = "command" /\ y.pc = "pause" /\ y.parent = Nobody /\ y.sig = {}
          /\ y.cmd = proc[p].cmd
      <4>1. y \in Processes
        BY <3>1, <3>4, FieldForm
      <4> QED
        BY <3>1, <4>1 DEF Processes
    <3> HIDE DEF y
    <3>6. w \in Processes /\ w.is = "command" /\ w.pc = "pause" /\ w.parent = Nobody /\ w.sig = {}
          /\ w.cmd = proc[p].cmd /\ w.sure = b
      <4>1. w \in Processes
        BY <1>b, <3>5, FieldForm
      <4> QED
        BY <3>5, <4>1 DEF Processes
    <3> HIDE DEF w
    <3>7. u \in Processes /\ u.is = "command" /\ u.pc = "pause" /\ u.parent = Nobody /\ u.sig = {}
          /\ u.cmd = proc[p].cmd /\ u.sure = b /\ u.t = 2
      <4>1. u \in Processes
        BY <3>4, <3>6, FieldForm
      <4> QED
        BY <3>6, <4>1 DEF Processes
    <3> HIDE DEF u
    <3> QED
      BY <1>5, <3>3, <3>7
  <2> QED
    BY <1>1, <2>1, <2>2
<1> QED
  BY <1>1, <1>3, <1>6, <1>7 DEF a, b

\* doStop kills.
LEMMA KillStep == ASSUME IndInv, NEW p \in Pids, Kill(p) PROVE IndInv'
<1> DEFINE a == proc[p].aim
           b == a # Nobody /\ a = lock /\ proc[a].pc = "wait" /\ All("command") = {p}
           fatal == a # Nobody /\ a = lock /\ proc[a].is # "watcher"
<1>0. /\ TypeOK /\ proc \in [Pids -> Processes] /\ Nobody \notin Pids
      /\ faults \in [FaultKinds -> Nat] /\ \A k \in FaultKinds : faults[k] >= faults[k]
  <2>1. TypeOK /\ Nobody \notin Pids
    BY DaemonAssumption DEF IndInv
  <2>2. \A n \in Nat : n >= n
    OBVIOUS
  <2> QED
    BY <2>1, <2>2 DEF TypeOK
<1>1. /\ UNCHANGED <<pidfile, commands, faults>>
      /\ lock' = IF fatal THEN Nobody ELSE lock
      /\ sighted' = IF fatal THEN {} ELSE sighted \ {p, a}
  BY DEF Kill
<1>2. /\ proc[p].is = "command" /\ proc[p].pc = "kill" /\ proc[p].parent = Nobody
      /\ proc' \in [Pids -> Processes]
      /\ \/ proc'[p] = Free
         \/ /\ proc'[p].is = "command" /\ proc'[p].pc = "pause" /\ proc'[p].t = 2
            /\ proc'[p].cmd = proc[p].cmd /\ proc'[p].parent = Nobody
            /\ proc'[p].sig = {} /\ proc'[p].sure = b
  BY KillForm
<1>3. \A q \in Pids \ {p} :
        \/ /\ proc'[q] = Free /\ q = a
           /\ proc[q].parent = Nobody /\ proc[q].is \notin {"watcher", "free"}
        \/ /\ proc'[q].is = proc[q].is /\ proc'[q].cmd = proc[q].cmd
           /\ proc'[q].parent = proc[q].parent /\ proc'[q].child = proc[q].child
           /\ proc'[q].pc = proc[q].pc /\ proc'[q].t = proc[q].t
           /\ proc'[q].sure = proc[q].sure /\ proc'[q].aim = proc[q].aim
           /\ proc[q].sig \subseteq proc'[q].sig
           /\ "CHLD" \in proc'[q].sig => "CHLD" \in proc[q].sig
           /\ q = a => proc[q].is # "command"
           /\ q = a /\ proc[q].is = "watcher" => "TERM" \in proc'[q].sig
  BY KillForm
<1>4. /\ lock # Nobody =>
           /\ lock \in Pids /\ lock # p
           /\ proc[lock].is = "watcher" \/ (proc[lock].is = "command" /\ proc[lock].pc \in Locking)
      /\ \A q \in Pids : proc[q].pc \in Locking => proc[q].is = "command" /\ lock = q
      /\ \A w \in Pids : proc[w].is = "watcher" =>
           (proc[w].cmd # "restart_i" => lock = w) /\ proc[w].parent = Nobody
      /\ "kill" \notin Locking /\ "pause" \notin Locking /\ "none" \notin Locking
  BY <1>2 DEF IndInv, LockInv, Locking, All
<1> HIDE DEF a, b
<1>5. TypeOK'
  BY <1>0, <1>1, <1>2 DEF TypeOK
<1>6. \A q \in Pids : GoesOnAs(q) \/ EndsAlone(q)
  BY <1>2, <1>3 DEF GoesOnAs, EndsAlone
<1>7. ChildInv' /\ OrphanInv'
  BY <1>0, <1>1, <1>6, KinStays
<1>8. LockInv'
  <2>1. CASE fatal
    <3>1. lock' = Nobody /\ lock = a /\ proc[a].is # "watcher" /\ a \in Pids
      BY <1>1, <1>4, <2>1
    <3>2. \A q \in Pids : proc'[q].pc \notin Locking
      BY <1>2, <1>3, <1>4, <3>1, FreeForm
    <3>3. \A w \in Pids : proc'[w].is = "watcher" =>
            proc'[w].cmd = "restart_i" /\ proc'[w].parent = Nobody
      BY <1>2, <1>3, <1>4, <3>1, FreeForm
    <3> QED
      BY <3>1, <3>2, <3>3 DEF LockInv, Up, All
  <2>2. CASE ~fatal
    <3>1. UNCHANGED <<lock, pidfile>>
      BY <1>1, <2>2
    <3>2. \A q \in Pids : EndsAlone(q) => q # lock
      BY <1>0, <1>2, <1>3, <1>4, <2>2, FreeForm DEF EndsAlone
    <3>3. \A q \in Pids : proc[q].pc \in Locking \/ proc'[q].pc \in Locking =>
            proc'[q].pc = proc[q].pc /\ proc'[q].is = proc[q].is
      BY <1>0, <1>2, <1>3, <1>4, <2>2, FreeForm
    <3> QED
      BY <1>6, <3>1, <3>2, <3>3, LockStays
  <2> QED
    BY <2>1, <2>2
<1>9. AimInv'
  <2>1. \A q \in sighted' : /\ q \in sighted /\ q # p /\ q # a /\ q \in Pids
    BY <1>0, <1>1 DEF TypeOK
  <2>2. lock' # Nobody => lock' = lock /\ proc'[lock].pc = proc[lock].pc
    BY <1>1, <1>3, <1>4
  <2>3. sighted' # {} => lock' = lock
    BY <1>1
  <2>4. \A q \in sighted' : /\ proc'[q].is = proc[q].is /\ proc'[q].pc = proc[q].pc
                             /\ proc'[q].aim = proc[q].aim
    BY <1>3, <2>1
  <2> QED
    BY <2>1, <2>2, <2>3, <2>4, SightStays
<1>10. SureInv'
  <2> SUFFICES ASSUME NEW q \in Pids, proc'[q].is = "command", proc'[q].pc = "pause", proc'[q].sure
               PROVE  /\ All("command")' = {q}
                      /\ lock' # Nobody => /\ proc'[lock'].pc = "wait" /\ "TERM" \in proc'[lock'].sig
                                           /\ proc'[q].t = 2
    BY DEF SureInv, All
  <2>1. q = p
    <3> SUFFICES ASSUME q # p PROVE FALSE
      OBVIOUS
    <3>1. proc[q].is = "command" /\ proc[q].pc = "pause" /\ proc[q].sure
      BY <1>3, FreeForm
    <3>2. All("command") = {q} /\ p \in All("command")
      BY <1>2, <3>1 DEF IndInv, SureInv, All
    <3> QED
      BY <3>2
  <2>2. b /\ proc'[p].t = 2
    BY <1>2, <2>1, FreeForm
  <2>3. All("command")' = {p}
    <3>1. \A c \in Pids : proc[c].is = "command" => c = p
      BY <2>2 DEF b, All
    <3>2. \A c \in Pids : proc'[c].is = "command" <=> c = p
      BY <1>3, <2>1, <3>1, FreeForm
    <3> QED
      BY <3>2 DEF All
  <2>4. ASSUME lock' # Nobody
        PROVE  proc'[lock'].pc = "wait" /\ "TERM" \in proc'[lock'].sig
    <3>1. lock' = lock /\ lock = a /\ proc[a].pc = "wait" /\ a \in Pids /\ a # p
      <4>1. a # Nobody /\ a = lock /\ proc[a].pc = "wait"
        BY <2>2 DEF b
      <4>2. lock' = lock
        BY <1>1, <2>4
      <4> QED
        BY <1>4, <4>1, <4>2
    <3>2. proc[a].is = "watcher"
      BY <1>4, <2>4, <3>1 DEF Locking
    <3> QED
      BY <1>3, <3>1, <3>2
  <2> QED
    BY <2>1, <2>2, <2>3, <2>4
<1> QED
  BY <1>5, <1>7, <1>8, <1>9, <1>10 DEF IndInv

-------------------------------------------------------------------------------
(* The invariant. *)

LEMMA InitInd == Init => IndInv
<1> SUFFICES ASSUME Init PROVE IndInv
  OBVIOUS
<1>1. \A p \in Pids : proc[p] = Free
  BY DEF Init
<1>2. /\ proc \in [Pids -> Processes] /\ lock = Nobody /\ pidfile = Nobody /\ sighted = {}
  BY FreeForm DEF Init
<1>3. commands \in Nat /\ faults \in [FaultKinds -> Nat]
  BY DEF Init
<1>4. TypeOK
  BY <1>2, <1>3 DEF TypeOK
<1>5. LockInv /\ AimInv /\ ChildInv /\ OrphanInv /\ SureInv
  BY <1>1, <1>2, FreeForm DEF LockInv, Up, Locking, AimInv, ChildInv, OrphanInv, SureInv, All
<1> QED
  BY <1>4, <1>5 DEF IndInv

LEMMA StepInd == IndInv /\ [Next]_vars => IndInv'
<1> SUFFICES ASSUME IndInv, [Next]_vars PROVE IndInv'
  OBVIOUS
<1>1. CASE UNCHANGED vars
  BY <1>1 DEF vars, IndInv, TypeOK, LockInv, AimInv, ChildInv, OrphanInv, SureInv, Up, All, Count
<1>2. CASE Program
  BY <1>2, TickStep, ReadPidStep, KillStep, CheckLockFileStep, WriteStep, BlockSignalsStep, WakeStep, OnTermStep, OnChildStep,
     StartWorkerStep, ForkStep DEF Program
<1>3. CASE World
  BY <1>3, LaunchStep, EndWorkerStep, DaemonizeFailsStep, ForkFailsStep, StopWorkerStep,
     KillWatcherStep, StrangerStep DEF World
<1> QED
  BY <1>1, <1>2, <1>3 DEF Next

\* The daemon's locks and families are as the invariant says in every state.
THEOREM IndInvariant == Spec => []IndInv
BY InitInd, StepInd, PTL DEF Spec

\* The processes, the lock, the pid file and the counts have their types.
THEOREM TypeCorrect == Spec => []TypeOK
<1>1. IndInv => TypeOK
  BY DEF IndInv
<1> QED
  BY IndInvariant, <1>1, PTL

-------------------------------------------------------------------------------
(* How many workers serve. *)

\* At most one worker serves (OneWorker): a worker that came with no command has
\* a watcher, the only one there is holds the lock and has one child.
THEOREM OneWorkerServes == Spec => []OneWorker
<1>1. ASSUME IndInv PROVE OneWorker
  <2> DEFINE S == {p \in All("worker") : proc[p].cmd = "none"}
  <2> SUFFICES ASSUME ~(Count("kill") + Count("sigstop") > 0),
                      \A p \in All("watcher") : proc[p].cmd # "restart_i"
               PROVE  Cardinality(S) <= 1
    BY DEF OneWorker
  <2>1. Count("kill") + Count("sigstop") = 0
    <3>1. faults["kill"] \in Nat /\ faults["sigstop"] \in Nat
      BY <1>1 DEF IndInv, TypeOK, FaultKinds
    <3>2. \A a, b \in Nat : ~(a + b > 0) => a + b = 0
      OBVIOUS
    <3> QED
      BY <3>1, <3>2 DEF Count
  <2>2. ASSUME NEW a \in S, NEW b \in S PROVE a = b
    <3>1. \A c \in S : /\ c \in Pids /\ proc[c].parent \in Pids
                       /\ proc[proc[c].parent].is = "watcher" /\ proc[proc[c].parent].child = c
      BY <1>1, <2>1, Unmeddled, Families DEF All
    <3>2. \A w \in Pids : proc[w].is = "watcher" => lock = w
      BY <1>1 DEF IndInv, LockInv, All
    <3>3. proc[a].parent = lock /\ proc[b].parent = lock
      BY <3>1, <3>2
    <3> QED
      BY <3>1, <3>3
  <2>3. CASE S = {}
    BY <2>3, FS_EmptySet
  <2>4. CASE S # {}
    <3>1. PICK a : a \in S
      BY <2>4
    <3>2. S = {a}
      BY <2>2, <3>1
    <3>3. Cardinality(S) = 1
      BY <3>2, FS_Singleton
    <3> QED
      BY <3>3
  <2> QED
    BY <2>3, <2>4
<1> QED
  BY IndInvariant, <1>1, PTL

-------------------------------------------------------------------------------
(* Whom a stop hits, and what a restart finds. *)

\* The end of a process leaves another what it is.
LEMMA GoneKeeps ==
  ASSUME NEW ps, NEW x, NEW st, NEW p \in Pids,
         ps[p] \in Processes, p # x, ps[p].is # "zombie"
  PROVE  Gone(ps, x, st)[p] \in Processes /\ Gone(ps, x, st)[p].is = ps[p].is
<1> DEFINE g == Gone(ps, x, st)
<1>1. \/ g[p] = [ps[p] EXCEPT !.parent = Nobody]
      \/ g[p] = [ps[p] EXCEPT !.sig = ps[p].sig \cup {"CHLD"}]
      \/ g[p] = ps[p]
  BY DEF Gone
<1>2. ps[p].sig \cup {"CHLD"} \in SUBSET {"TERM", "CHLD"} /\ Nobody \in Pids \cup {Nobody}
  BY DEF Processes
<1> HIDE DEF g
<1>3. g[p] \in Processes
  BY <1>1, <1>2, FieldForm, ZenonT(60)
<1>4. g[p].is = ps[p].is
  BY <1>1, <1>3 DEF Processes
<1> QED
  BY <1>3, <1>4 DEF g

\* A command or a stranger ends, or becomes something else, only at its own
\* hands or by a stop.
LEMMA WhoEnds ==
  ASSUME IndInv, Next, NEW p \in Pids, proc[p].is \in {"command", "stranger"},
         proc'[p].is # proc[p].is
  PROVE  \/ \E q \in Pids : Kill(q) /\ (q = p \/ proc[q].aim = p)
         \/ CheckLockFile(p) \/ DaemonizeFails(p) \/ BlockSignals(p)
<1>0. proc \in [Pids -> Processes] /\ proc[p] \in Processes
  BY DEF IndInv, TypeOK
<1>1. ~Tick
  BY <1>0 DEF Tick, Processes
<1>2. ASSUME NEW q \in Pids, Kill(q) PROVE q = p \/ proc[q].aim = p
  BY <1>2, KillForm
<1>16. ASSUME NEW q \in Pids, ReadPid(q) \/ Truncate(q) \/ WritePid(q) PROVE FALSE
  <2>1. CASE q # p
    BY <1>0, <1>16, <2>1 DEF ReadPid, Truncate, WritePid
  <2>2. CASE q = p /\ ReadPid(p)
    <3>1. proc'[p] = [proc[p] EXCEPT !.pc = "kill", !.aim = pidfile]
      BY <1>0, <2>2 DEF ReadPid
    <3> QED
      BY <1>0, <3>1 DEF Processes
  <2>3. CASE q = p /\ (Truncate(p) \/ WritePid(p))
    <3>1. PICK v \in {"write", "mask"} : proc'[p] = [proc[p] EXCEPT !.pc = v]
      BY <1>0, <2>3 DEF Truncate, WritePid
    <3> QED
      BY <1>0, <3>1 DEF Processes
  <2> QED
    BY <1>16, <2>1, <2>2, <2>3
<1>3. ASSUME NEW q \in Pids, q # p, NEW st, Ends(q, st) PROVE FALSE
  BY <1>0, <1>3, GoneKeeps DEF Ends
<1>4. ASSUME NEW q \in Pids, CheckLockFile(q) \/ DaemonizeFails(q) \/ BlockSignals(q) PROVE q = p
  <2>1. ASSUME q # p PROVE FALSE
    <3>1. Ends(q, 1) \/ proc'[p] = proc[p]
      BY <1>0, <1>4, <2>1 DEF CheckLockFile, DaemonizeFails, BlockSignals
    <3> QED
      BY <1>3, <2>1, <3>1
  <2> QED
    BY <2>1
<1>5. ASSUME NEW q \in Pids, Wake(q) \/ StartWorker(q) \/ ForkFails(q) PROVE FALSE
  <2>1. q # p
    BY <1>5 DEF Wake, StartWorker, ForkFails
  <2> QED
    BY <1>0, <1>5, <2>1 DEF Wake, StartWorker, ForkFails
<1>6. ASSUME NEW w \in Pids, NEW c \in Pids, Fork(w, c) PROVE FALSE
  <2>1. w # p /\ c # p
    BY <1>6 DEF Fork, NewPid
  <2> QED
    BY <1>0, <1>6, <2>1 DEF Fork
<1>7. ASSUME NEW w \in Pids, OnTerm(w) PROVE FALSE
  <2> DEFINE c == proc[w].child
             kill == IF proc[c].parent = w THEN Gone(proc, c, 9) ELSE proc
  <2>1. proc[w].is = "watcher" /\ w # p /\ w # Nobody /\ proc' = Gone(kill, w, 0)
    BY <1>7, Families DEF OnTerm
  <2>2. proc[c].parent = w => c # p
    BY <2>1, Families
  <2>3. kill[p] \in Processes /\ kill[p].is = proc[p].is
    BY <1>0, <2>2, GoneKeeps
  <2> HIDE DEF kill
  <2> QED
    BY <2>1, <2>3, GoneKeeps
<1>8. ASSUME NEW w \in Pids, OnChild(w) PROVE FALSE
  <2> DEFINE zs == {z \in All("zombie") : proc[z].parent = w}
             r == Reaped(w, zs)
  <2>1. w # p /\ (proc' = r \/ proc' = Gone(r, w, 0)) /\ p \notin zs
    BY <1>8 DEF OnChild, All
  <2>2. r[p] = proc[p]
    BY <2>1 DEF Reaped
  <2> HIDE DEF r
  <2> QED
    BY <1>0, <2>1, <2>2, GoneKeeps
<1>9. ASSUME NEW q \in Pids, NEW cmd \in Commands, Launch(q, cmd) PROVE FALSE
  <2>1. q # p
    BY <1>9 DEF Launch, NewPid
  <2>2. proc'[p] = [proc[p] EXCEPT !.sure = FALSE]
    BY <1>9, <2>1 DEF Launch
  <2> QED
    BY <1>0, <2>2 DEF Processes
<1>10. ASSUME NEW q \in Pids, NEW st \in {0, 1}, EndWorker(q, st) PROVE FALSE
  <2>1. q # p /\ Ends(q, st)
    BY <1>10 DEF EndWorker
  <2> QED
    BY <1>3, <2>1
<1>11. ASSUME NEW q \in Pids, StopWorker(q) PROVE FALSE
  <2>1. proc[q].parent # p
    BY <1>11, Families DEF StopWorker
  <2> QED
    BY <1>0, <1>11, <2>1 DEF StopWorker
<1>12. ASSUME NEW w \in Pids, KillWatcher(w) PROVE FALSE
  <2>1. w # p /\ Ends(w, 9)
    BY <1>12 DEF KillWatcher
  <2> QED
    BY <1>3, <2>1
<1>13. ASSUME NEW q \in Pids, Stranger(q) PROVE FALSE
  <2>1. q # p
    BY <1>13 DEF Stranger, NewPid
  <2> QED
    BY <1>0, <1>13, <2>1 DEF Stranger
<1>14. CASE Program
  BY <1>1, <1>2, <1>4, <1>5, <1>6, <1>7, <1>8, <1>14, <1>16 DEF Program
<1>15. CASE World
  BY <1>4, <1>5, <1>9, <1>10, <1>11, <1>12, <1>13, <1>15 DEF World
<1> QED
  BY <1>14, <1>15 DEF Next

\* A stop that kills a program that is not the daemon had not read the pid of a
\* daemon that was up and still is (StopFindsItsDaemon): the pid in the file of a
\* daemon that is up is its own, and it is not given away while the daemon lives.
THEOREM StopHitsTheDaemon == Spec => StopFindsItsDaemon
<1>1. ASSUME IndInv, [Next]_vars
      PROVE  [\A p \in Pids : proc[p].is = "stranger" /\ proc'[p].is # "stranger" =>
                \E k \in Pids : /\ proc[k].pc = "kill" /\ proc'[k].pc # "kill"
                                 /\ proc[k].aim = p /\ k \notin sighted]_vars
  <2> SUFFICES ASSUME Next, NEW p \in Pids, proc[p].is = "stranger", proc'[p].is # "stranger"
               PROVE  \E k \in Pids : /\ proc[k].pc = "kill" /\ proc'[k].pc # "kill"
                                       /\ proc[k].aim = p /\ k \notin sighted
    BY <1>1
  <2>1. ~CheckLockFile(p) /\ ~DaemonizeFails(p)
    BY DEF CheckLockFile, DaemonizeFails, AtLock
  <2>2. ~BlockSignals(p)
    BY <1>1 DEF BlockSignals, AtLock, IndInv, LockInv, Locking
  <2>3. PICK k \in Pids : Kill(k) /\ (k = p \/ proc[k].aim = p)
    BY <1>1, <2>1, <2>2, WhoEnds
  <2>4. /\ proc[k].is = "command" /\ proc[k].pc = "kill"
        /\ proc'[k] = Free \/ proc'[k].pc = "pause"
    BY <1>1, <2>3, KillForm
  <2>5. proc[k].aim = p /\ proc'[k].pc # "kill"
    BY <2>3, <2>4, FreeForm
  <2>6. k \notin sighted
    <3> SUFFICES ASSUME k \in sighted PROVE FALSE
      OBVIOUS
    <3>1. Up /\ lock = p
      BY <1>1, <2>5 DEF IndInv, AimInv
    <3> QED
      BY <1>1, <3>1 DEF Up, IndInv, LockInv, All
  <2> QED
    BY <2>4, <2>5, <2>6
<1> QED
  BY IndInvariant, <1>1, PTL DEF Spec, StopFindsItsDaemon

\* A restart that told a waiting watcher to stop, with no other command under
\* way, is not refused the lock (RestartFindsTheLockFree).
THEOREM RestartGetsTheLock == Spec => RestartFindsTheLockFree
<1>1. ASSUME IndInv, [Next]_vars
      PROVE  [\A p \in Pids : proc[p].is = "command" /\ proc[p].pc = "pause" /\ proc[p].sure
                               /\ proc'[p].is = "free" => faults' # faults]_vars
  <2> SUFFICES ASSUME Next, NEW p \in Pids, proc[p].is = "command", proc[p].pc = "pause",
                      proc[p].sure, proc'[p].is = "free"
               PROVE  faults' # faults
    BY <1>1
  <2>1. /\ \A q \in Pids : proc[q].is = "command" => q = p
        /\ lock # Nobody => proc[p].t = 2
    <3>1. All("command") = {p} /\ (lock # Nobody => proc[p].t = 2)
      BY <1>1 DEF IndInv, SureInv, All
    <3> QED
      BY <3>1 DEF All
  <2>2. CASE DaemonizeFails(p)
    <3>1. TypeOK /\ "system" \in FaultKinds /\ Fault("system")
      BY <1>1, <2>2 DEF IndInv, FaultKinds, DaemonizeFails
    <3> QED
      BY <3>1, FaultForm
  <2>5. proc \in [Pids -> Processes] /\ proc[p] \in Processes
    BY <1>1 DEF IndInv, TypeOK
  <2>3. ~CheckLockFile(p)
    <3> SUFFICES ASSUME CheckLockFile(p) PROVE FALSE
      OBVIOUS
    <3>1. proc[p].t = 0
      BY DEF CheckLockFile, AtLock
    <3>2. ~LockRefused(p)
      BY <2>1, <3>1 DEF LockRefused
    <3>3. proc'[p] = [proc[p] EXCEPT !.pc = "trunc", !.sure = FALSE]
      BY <2>5, <3>2 DEF CheckLockFile
    <3> QED
      BY <2>5, <3>3 DEF Processes
  <2>6. ~BlockSignals(p)
    <3> SUFFICES ASSUME BlockSignals(p) PROVE FALSE
      OBVIOUS
    <3> DEFINE y == Process("watcher", "fork")
    <3>1. PICK c : proc'[p] = [y EXCEPT !.cmd = c]
      BY <2>5 DEF BlockSignals
    <3>2. y \in Processes /\ y.is = "watcher"
      BY ProcessForm DEF Pcs
    <3> HIDE DEF y
    <3> QED
      BY <3>1, <3>2 DEF Processes
  <2>4. ASSUME NEW q \in Pids, Kill(q) PROVE FALSE
    BY <2>1, <2>4 DEF Kill
  <2> QED
    BY <1>1, <2>2, <2>3, <2>4, <2>6, WhoEnds
<1> QED
  BY IndInvariant, <1>1, PTL DEF Spec, RestartFindsTheLockFree

===============================================================================
