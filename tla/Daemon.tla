------------------------------- MODULE Daemon -------------------------------
(***************************************************************************)
(* tools/Daemon.cpp: a service of a watcher and its worker, and the        *)
(* commands that start, stop and restart it.  The watcher holds the lock   *)
(* on the pid file, forks the worker, forks it again when it dies of an    *)
(* error, and kills it when it is told to stop.                            *)
(*                                                                         *)
(* A process is an entry of proc, by its pid, which is used again once the *)
(* process is gone.  A daemonized process keeps its pid here: daemonize    *)
(* forks twice and only the last child goes on.  A command that has the    *)
(* lock is a command until it blocks the signals and is the watcher.  Time *)
(* passes in seconds, and only when no process can run at once.            *)
(***************************************************************************)
EXTENDS Integers, FiniteSets, FiniteSetsExt

CONSTANTS Pids,         \* pids a process may get
          MaxCommands,  \* commands given
          MaxFaults     \* failed calls, crashes, kills, stopped processes, strangers

Nobody == 0
Failed == -1            \* what a fork that failed returns

\* A pid is positive.
ASSUME DaemonAssumption ==
  Pids \subseteq Nat \ {Nobody} /\ MaxCommands \in Nat /\ MaxFaults \in Nat

Commands == {"start", "start_i", "stop", "restart", "restart_i"}

VARIABLES proc,      \* the processes
          lock,      \* the pid whose lockf holds the pid file
          pidfile,   \* the pid written in it
          commands,  \* commands given so far
          faults,    \* faults so far, by kind
          sighted    \* history: the stops that have read the pid of the daemon
                     \* that is up

vars == <<proc, lock, pidfile, commands, faults, sighted>>

\* Every process has every field; pc says what it is doing:
\*   a command  "stop" and "kill" in doStop, "pause" while it sleeps after it,
\*              "lock", "trunc" and "write" in checkLockFile, "mask" after it
\*   a watcher  "fork", "nap", "wait", or "spin" after a failed fork
\*   a worker   "rise" while it sleeps after the fork, "work"
\* aim is the pid a doStop has read.  sure is history, of a restart that told a
\* waiting watcher to stop: no other command was under way then and none has been
\* given since.
Process(is, pc) ==
  [is |-> is, pc |-> pc, cmd |-> "none", t |-> 0, child |-> Nobody, parent |-> Nobody,
   sig |-> {}, status |-> 0, aim |-> Nobody, sure |-> FALSE]

Free == Process("free", "none")

All(is) == {p \in Pids : proc[p].is = is}

Count(kind) == faults[kind]

\* The pids that are written down somewhere.
Named == {pidfile} \cup {proc[q].aim : q \in Pids}

\* A pid for a new process: one of those, if it is free, or any other, which
\* are all alike.
NewPid(p) == /\ proc[p].is = "free"
             /\ p \in Named \/ \A q \in All("free") \ Named : p <= q

\* The machine has pids left for the forks under way.
Room == LET forking == {w \in All("watcher") : proc[w].pc = "fork"}
        IN  Cardinality(All("free")) > Cardinality(All("command") \cup forking) + 1

Fault(kind) == /\ FoldSet(LAMBDA k, n : n + faults[k], 0, DOMAIN faults) < MaxFaults
               /\ faults' = [faults EXCEPT ![kind] = @ + 1]

FaultKinds == {"system", "crash", "kill", "sigstop", "stranger"}

Init == /\ proc = [p \in Pids |-> Free]
        /\ lock = Nobody /\ pidfile = Nobody
        /\ commands = 0
        /\ faults = [k \in FaultKinds |-> 0]
        /\ sighted = {}

-----------------------------------------------------------------------------
(* The end of a process *)

\* A parent that waits is told by SIGCHLD and has a zombie until it asks; the
\* orphans, and the zombies of a process that ends, are init's.
Gone(ps, p, status) ==
  LET parent == ps[p].parent
      zombie == [Process("zombie", "none") EXCEPT !.parent = parent, !.status = status]
  IN  [q \in Pids |->
         IF q = p THEN IF parent = Nobody THEN Free ELSE zombie
         ELSE IF ps[q].parent = p
              THEN IF ps[q].is = "zombie" THEN Free ELSE [ps[q] EXCEPT !.parent = Nobody]
         ELSE IF q = parent THEN [ps[q] EXCEPT !.sig = @ \cup {"CHLD"}]
         ELSE ps[q]]

\* The kernel drops the lock with the process that holds it.
Unlocks(p) == /\ lock' = IF lock = p THEN Nobody ELSE lock
              /\ sighted' = IF lock = p THEN {} ELSE sighted

Ends(p, status) == proc' = Gone(proc, p, status) /\ Unlocks(p)

\* kill(1): SIGTERM is blocked in a watcher and in the worker that inherits
\* its mask; any other process dies of it.
Term(ps, p) ==
  IF p \notin Pids \/ ps[p].is \in {"free", "zombie"} \/ (ps[p].is = "worker" /\ ps[p].cmd = "none")
  THEN ps
  ELSE IF ps[p].is = "watcher" THEN [ps EXCEPT ![p].sig = @ \cup {"TERM"}]
  ELSE Gone(ps, p, 15)

-----------------------------------------------------------------------------
(* Commands *)

\* Daemon::start as far as the choice of what to do.
Launch(p, cmd) ==
  /\ commands < MaxCommands /\ Room /\ NewPid(p)
  /\ commands' = commands + 1
  /\ proc' = [q \in Pids |->
       IF q = p
       THEN CASE cmd = "start"   -> [Process("command", "lock") EXCEPT !.cmd = cmd]
              [] cmd = "start_i" -> [Process("worker", "work") EXCEPT !.cmd = cmd]
              [] OTHER           -> [Process("command", "stop") EXCEPT !.cmd = cmd]
       ELSE [proc[q] EXCEPT !.sure = FALSE]]
  /\ UNCHANGED <<lock, pidfile, faults, sighted>>

\* The process that has the lock has written its pid.
Up == lock # Nobody /\ proc[lock].pc \notin {"trunc", "write"}

\* doStop reads the pid file ...
ReadPid(p) ==
  /\ proc[p].is = "command" /\ proc[p].pc = "stop"
  /\ proc' = [proc EXCEPT ![p].pc = "kill", ![p].aim = pidfile]
  /\ sighted' = IF Up THEN sighted \cup {p} ELSE sighted
  /\ UNCHANGED <<lock, pidfile, commands, faults>>

\* RESTART sleeps two seconds after doStop.
Paused_Not(ps, p)  == [ps EXCEPT ![p] = [Process("command", "pause") EXCEPT !.cmd = ps[p].cmd, !.sure = ps[p].sure]]
Paused(ps, p)      == [ps EXCEPT ![p] = [Process("command", "pause") EXCEPT !.cmd = ps[p].cmd, !.sure = ps[p].sure,
                                                                            !.t = 2]]

\* ... and then has the shell kill what it has read, whoever has that pid now;
\* an empty file names nobody.
Kill(p) ==
  /\ proc[p].is = "command" /\ proc[p].pc = "kill"
  /\ LET aim   == proc[p].aim
         owner == aim # Nobody /\ aim = lock
         awake == owner /\ proc[aim].pc = "wait"
         alone == All("command") = {p}
         fatal == owner /\ proc[aim].is # "watcher"
         told  == Term([proc EXCEPT ![p].sure = awake /\ alone], aim)
     IN  /\ proc' = IF proc[p].cmd = "stop" \/ aim = p THEN Gone(told, p, 0) ELSE Paused(told, p)
         /\ lock' = IF fatal THEN Nobody ELSE lock
         /\ sighted' = IF fatal THEN {} ELSE sighted \ {p, aim}
  /\ UNCHANGED <<pidfile, commands, faults>>

LockRefused_Never(p) == FALSE
LockRefused(p)       == lock # Nobody

AtLock(p) == /\ proc[p].is = "command"
             /\ proc[p].pc = "lock" \/ (proc[p].pc = "pause" /\ proc[p].t = 0)

\* daemonize as far as lockf in checkLockFile.
CheckLockFile(p) ==
  /\ AtLock(p) /\ proc[p].cmd # "restart_i"
  /\ \/ LockRefused(p) /\ Ends(p, 1)
     \/ /\ ~LockRefused(p)
        /\ lock' = p
        /\ proc' = [proc EXCEPT ![p].pc = "trunc", ![p].sure = FALSE]
        /\ UNCHANGED sighted
  /\ UNCHANGED <<pidfile, commands, faults>>

\* One of daemonize's forks, open() or lockf fails: exit(1).
DaemonizeFails(p) ==
  /\ AtLock(p) /\ proc[p].cmd # "restart_i"
  /\ Fault("system")
  /\ Ends(p, 1)
  /\ UNCHANGED <<pidfile, commands>>

\* ftruncate: the file is empty for a while.
Truncate(p) ==
  /\ proc[p].pc = "trunc"
  /\ pidfile' = Nobody
  /\ proc' = [proc EXCEPT ![p].pc = "write"]
  /\ UNCHANGED <<lock, commands, faults, sighted>>

\* The pid was asked for before daemonize forked.
Written_Early(p) == pidfile' \in Pids \ {p}
Written(p)       == pidfile' = p

WritePid(p) ==
  /\ proc[p].pc = "write"
  /\ Written(p)
  /\ proc' = [proc EXCEPT ![p].pc = "mask"]
  /\ UNCHANGED <<lock, commands, faults, sighted>>

\* startWatcher blocks the signals.  An interactive restart comes here without
\* the lock.
BlockSignals(p) ==
  /\ proc[p].pc = "mask" \/ (AtLock(p) /\ proc[p].cmd = "restart_i")
  /\ proc' = [proc EXCEPT ![p] = [Process("watcher", "fork") EXCEPT
                !.cmd = IF proc[p].cmd = "restart_i" THEN "restart_i" ELSE "none"]]
  /\ UNCHANGED <<lock, pidfile, commands, faults, sighted>>

-----------------------------------------------------------------------------
(* The watcher *)

\* fork, and sleep(3) in both processes.
Fork(w, c) ==
  /\ proc[w].is = "watcher" /\ proc[w].pc = "fork"
  /\ NewPid(c)
  /\ proc' = [proc EXCEPT ![w].pc = "nap", ![w].t = 3, ![w].child = c,
                          ![c] = [Process("worker", "rise") EXCEPT !.t = 3, !.parent = w]]
  /\ UNCHANGED <<lock, pidfile, commands, faults, sighted>>

ForkFails(w) ==
  /\ proc[w].is = "watcher" /\ proc[w].pc = "fork"
  /\ Fault("system")
  /\ proc' = [proc EXCEPT ![w].pc = "nap", ![w].t = 3, ![w].child = Failed]
  /\ UNCHANGED <<lock, pidfile, commands, sighted>>

\* need_start is false now: after a failed fork the loop never leaves the
\* branch that prints, and never looks at a signal.
Wake(w) ==
  /\ proc[w].is = "watcher" /\ proc[w].pc = "nap" /\ proc[w].t = 0
  /\ proc' = [proc EXCEPT ![w].pc = IF proc[w].child = Failed THEN "spin" ELSE "wait"]
  /\ UNCHANGED <<lock, pidfile, commands, faults, sighted>>

\* SIGINT, SIGQUIT and SIGTERM come before SIGCHLD when both are pending.
OnTerm(w) ==
  /\ proc[w].is = "watcher" /\ proc[w].pc = "wait" /\ "TERM" \in proc[w].sig
  /\ LET c    == proc[w].child
         kill == IF proc[c].parent = w THEN Gone(proc, c, 9) ELSE proc
     IN  proc' = Gone(kill, w, 0)
  /\ Unlocks(w)
  /\ UNCHANGED <<pidfile, commands, faults>>

\* Which of the reaped children ask for another.
NeedStart(zs) == \E z \in zs : proc[z].status # 0

\* need_start set, the loop comes to the fork again.
Reaped_NoStart(w, zs) ==
  [q \in Pids |-> IF q \in zs THEN Free
                  ELSE IF q = w THEN [proc[w] EXCEPT !.sig = {}]
                  ELSE proc[q]]
Reaped(w, zs) ==
  [q \in Pids |-> IF q \in zs THEN Free
                  ELSE IF q = w THEN [proc[w] EXCEPT !.sig = {}, !.pc = "fork"]
                  ELSE proc[q]]

\* SIGCHLD: waitpid for all that have ended.  If none ended with an error the
\* watcher exits, also when the signal was for a child that was only stopped.
OnChild(w) ==
  /\ proc[w].is = "watcher" /\ proc[w].pc = "wait"
  /\ "CHLD" \in proc[w].sig /\ "TERM" \notin proc[w].sig
  /\ LET zs == {z \in All("zombie") : proc[z].parent = w}
     IN  IF NeedStart(zs) THEN proc' = Reaped(w, zs) /\ UNCHANGED <<lock, sighted>>
         ELSE proc' = Gone(Reaped(w, zs), w, 0) /\ Unlocks(w)
  /\ UNCHANGED <<pidfile, commands, faults>>

-----------------------------------------------------------------------------
(* The worker, the rest of the machine, the clock *)

StartWorker(c) ==
  /\ proc[c].is = "worker" /\ proc[c].pc = "rise" /\ proc[c].t = 0
  /\ proc' = [proc EXCEPT ![c].pc = "work"]
  /\ UNCHANGED <<lock, pidfile, commands, faults, sighted>>

\* doStart returns, throws (fallDown) or the worker is killed.
EndWorker(c, status) ==
  /\ proc[c].is = "worker" /\ proc[c].pc = "work"
  /\ Fault("crash")
  /\ Ends(c, status)
  /\ UNCHANGED <<pidfile, commands>>

\* Somebody stops a worker for a while: its parent gets a SIGCHLD too.
StopWorker(c) ==
  /\ proc[c].is = "worker" /\ proc[c].parent # Nobody
  /\ Fault("sigstop")
  /\ proc' = [proc EXCEPT ![proc[c].parent].sig = @ \cup {"CHLD"}]
  /\ UNCHANGED <<lock, pidfile, commands, sighted>>

KillWatcher(w) ==
  /\ proc[w].is = "watcher"
  /\ Fault("kill")
  /\ Ends(w, 9)
  /\ UNCHANGED <<pidfile, commands>>

\* Another program gets a pid.
Stranger(p) ==
  /\ Room /\ NewPid(p)
  /\ Fault("stranger")
  /\ proc' = [proc EXCEPT ![p] = Process("stranger", "none")]
  /\ UNCHANGED <<lock, pidfile, commands, sighted>>

\* A process that has something to do before a second is over.
Busy(p) ==
  \/ proc[p].is = "command" /\ proc[p].t = 0
  \/ proc[p].is = "watcher" /\ proc[p].pc = "fork"
  \/ proc[p].pc \in {"nap", "rise"} /\ proc[p].t = 0
  \/ proc[p].pc = "wait" /\ proc[p].sig # {}

Tick ==
  /\ \A p \in Pids : ~Busy(p)
  /\ \E p \in Pids : proc[p].t > 0
  /\ proc' = [p \in Pids |-> [proc[p] EXCEPT !.t = IF @ > 0 THEN @ - 1 ELSE 0]]
  /\ UNCHANGED <<lock, pidfile, commands, faults, sighted>>

Program ==
  \/ Tick
  \/ \E p \in Pids : \/ ReadPid(p) \/ Kill(p)
                  \/ CheckLockFile(p) \/ Truncate(p) \/ WritePid(p) \/ BlockSignals(p)
                  \/ Wake(p) \/ OnTerm(p) \/ OnChild(p) \/ StartWorker(p)
  \/ \E w, c \in Pids : Fork(w, c)

World ==
  \E p \in Pids : \/ \E cmd \in Commands : Launch(p, cmd)
                  \/ \E status \in {0, 1} : EndWorker(p, status)
                  \/ DaemonizeFails(p) \/ ForkFails(p) \/ StopWorker(p) \/ KillWatcher(p) \/ Stranger(p)

Next == Program \/ World

Spec == Init /\ [][Next]_vars

\* The kernel runs every process that can run, and time passes.
FairSpec == Spec /\ WF_vars(Program)

-----------------------------------------------------------------------------
(* Properties *)

Processes ==
  [is : {"free", "command", "watcher", "worker", "zombie", "stranger"},
   pc : {"none", "stop", "kill", "pause", "lock", "trunc", "write", "mask", "fork", "nap", "wait", "spin", "rise", "work"},
   cmd : Commands \cup {"none"}, t : 0 .. 3, child : Pids \cup {Nobody, Failed},
   parent : Pids \cup {Nobody}, sig : SUBSET {"TERM", "CHLD"}, status : {0, 1, 9, 15},
   aim : Pids \cup {Nobody}, sure : BOOLEAN]

TypeOK ==
  /\ proc \in [Pids -> Processes]
  /\ lock \in Pids \cup {Nobody}
  /\ pidfile \in Pids \cup {Nobody}
  /\ commands \in Nat
  /\ faults \in [FaultKinds -> Nat]
  /\ sighted \subseteq Pids

\* At most one worker serves, unless an interactive command ran one without
\* the lock, or a watcher was killed or took the stop of its worker for its
\* end: the lock is the watcher's alone and its worker goes on without it.
OneWorker ==
  \/ Cardinality({p \in All("worker") : proc[p].cmd = "none"}) <= 1
  \/ Count("kill") + Count("sigstop") > 0
  \/ \E p \in All("watcher") : proc[p].cmd = "restart_i"

\* A stop kills a program that is not the daemon only if no daemon had the lock
\* and its pid in the file when the stop read the file, or if that daemon has
\* ended since: the pid file of a running one is its own (checkLockFile), but
\* doStop may signal (Daemon.cpp:273) long after it has read (268).
StopFindsItsDaemon ==
  [][\A p \in Pids : proc[p].is = "stranger" /\ proc'[p].is # "stranger" =>
       \E k \in Pids : /\ proc[k].pc = "kill" /\ proc'[k].pc # "kill"
                        /\ proc[k].aim = p /\ k \notin sighted]_vars

\* A restart, with no other command under way, is refused the lock only if
\* the watcher was asleep, or looping, when it was told to stop.
RestartFindsTheLockFree ==
  [][\A p \in Pids : proc[p].is = "command" /\ proc[p].pc = "pause" /\ proc[p].sure /\ proc'[p].is = "free"
                       => faults' # faults]_vars

\* The watcher that holds the lock has its worker serving again, or is gone,
\* or is caught in the loop after a failed fork.
Watching == lock \in All("watcher") /\ proc[lock].pc # "spin"

ServiceComesBack ==
  Watching ~> \/ ~Watching
              \/ proc[lock].child \in All("worker") /\ proc[proc[lock].child].pc = "work"

-----------------------------------------------------------------------------
(* The inductive invariant that DaemonProofs shows to hold. *)

\* Where a command is that has the lock.
Locking == {"trunc", "write", "mask"}

\* The lock is a watcher's or that of a command on its way to be one, and once
\* written the pid in the file is its own; every watcher holds it but those of an
\* interactive restart.
LockInv ==
  /\ lock # Nobody => \/ lock \in All("watcher")
                      \/ lock \in All("command") /\ proc[lock].pc \in Locking
  /\ Up => pidfile = lock
  /\ \A p \in Pids : proc[p].pc \in Locking =>
                       proc[p].is = "command" /\ lock = p /\ proc[p].cmd # "restart_i"
  /\ \A w \in All("watcher") : /\ proc[w].cmd # "restart_i" => lock = w
                               /\ proc[w].parent = Nobody

\* The daemon that was up when a stop read the pid file, and still is, is the
\* one it is going to kill.
AimInv ==
  \A k \in sighted : /\ proc[k].is = "command" /\ proc[k].pc = "kill"
                      /\ Up /\ proc[k].aim = lock

\* A watcher has one child, which serves or has ended, from its fork until it
\* comes to the next.
ChildInv ==
  \A p \in Pids :
    /\ proc[p].is = "zombie" => proc[p].parent # Nobody
    /\ proc[p].parent # Nobody =>
         LET w == proc[p].parent
         IN  /\ proc[p].is = "zombie" \/ (proc[p].is = "worker" /\ proc[p].cmd = "none")
             /\ w \in All("watcher") /\ proc[w].child = p /\ proc[w].pc \in {"nap", "wait"}

\* Unless somebody meddled, a worker has its watcher, and a watcher is told of
\* its child only when that has ended.
OrphanInv ==
  Count("kill") + Count("sigstop") = 0 =>
    /\ \A p \in All("worker") : proc[p].cmd = "none" => proc[p].parent # Nobody
    /\ \A w \in All("watcher") : "CHLD" \in proc[w].sig =>
         proc[w].child \in All("zombie") /\ proc[proc[w].child].parent = w

\* While a restart is sure, no other command is there to take the lock, and
\* the watcher that holds it stops before a second is over.
SureInv ==
  \A p \in All("command") : proc[p].pc = "pause" /\ proc[p].sure =>
    /\ All("command") = {p}
    /\ lock # Nobody => /\ proc[lock].pc = "wait" /\ "TERM" \in proc[lock].sig
                        /\ proc[p].t = 2

IndInv == TypeOK /\ LockInv /\ AimInv /\ ChildInv /\ OrphanInv /\ SureInv
=============================================================================
