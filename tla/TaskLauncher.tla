----------------------------- MODULE TaskLauncher -----------------------------
(***************************************************************************)
(* TaskLauncher (threads/tasklauncher.cpp): it keeps a queue of tasks and  *)
(* hands at most about m_max_parallel of them at a time to a thread pool;  *)
(* a task may ask to be run again; when no task is left and no more will   *)
(* come it calls onFinished.                                               *)
(*                                                                         *)
(* The pool is what TaskPool promises: a task handed over is pending until *)
(* some free thread starts it.  Every read and write of an atomic counter  *)
(* is a step of its own.  In "tasks_launched.load() - tasks_finished       *)
(* .load()" the language leaves the order of the two loads open, and so    *)
(* does the model.                                                         *)
(***************************************************************************)
EXTENDS Integers, Sequences, SequencesExt, FiniteSets, FiniteSetsExt

CONSTANTS Tasks,
          Threads,       \* threads of the pool
          Clients,       \* application threads that call the launcher
          Parallels,     \* the values max_parallel is given
          MaxRelaunch,   \* bound: how often each task returns RELAUNCH
          SizeModulus,   \* size_t arithmetic is modulo this
          None

Actors == Threads \cup Clients

ASSUME TaskLauncherAssumption ==
  /\ Threads \cap Clients = {}
  /\ None \notin Tasks
  /\ IsFiniteSet(Actors)
  /\ Parallels \subseteq Nat \ {0}
  /\ MaxRelaunch \in [Tasks -> Nat]
  /\ SizeModulus \in Nat
  /\ \A n \in Parallels : n < SizeModulus

VARIABLES
  task_q, tasks_launched, tasks_finished, m_max_parallel,
  no_more_tasks, all_tasks_finished,
  finish_lock,       \* finish_lock is held
  pc, held, reg,     \* per actor: place, task in hand, counter loaded first
  return,            \* per actor: where checkLaunch returns to
  pending,           \* handed to the pool and not started
  relaunched,        \* how often each task has returned RELAUNCH
  added, done,       \* tasks addTask was called with; tasks that are over
  fired,             \* calls of m_onFinished
  largest            \* the largest max_parallel so far

counters == <<tasks_launched, tasks_finished>>
flags    == <<m_max_parallel, largest, no_more_tasks, all_tasks_finished,
              finish_lock>>
history  == <<relaunched, added, done, fired>>
vars == <<task_q, counters, flags, pc, held, reg, return, pending, history>>

Places ==
  {"idle", "body", "push", "load", "loadFinished", "loadLaunched", "pop", "inc",
   "hand", "finish", "fin", "finLoadFinished", "finLoadLaunched", "finMore",
   "finEmpty", "finLock", "finTest", "onFinished"}

TypeOK ==
  /\ task_q \in Seq(Tasks)
  /\ tasks_launched \in Nat /\ tasks_finished \in Nat
  /\ m_max_parallel \in Parallels /\ largest \in Parallels
  /\ no_more_tasks \in BOOLEAN /\ all_tasks_finished \in BOOLEAN
  /\ finish_lock \in BOOLEAN
  /\ pc \in [Actors -> Places]
  /\ held \in [Actors -> Tasks \cup {None}]
  /\ reg \in [Actors -> Nat]
  /\ return \in [Actors -> {"idle", "finish", "fin"}]
  /\ pending \subseteq Tasks
  /\ relaunched \in [Tasks -> Nat]
  /\ \A f \in Tasks : relaunched[f] <= MaxRelaunch[f]
  /\ added \subseteq Tasks /\ done \subseteq Tasks
  /\ fired \in Nat

\* TaskLauncher::TaskLauncher
Init ==
  /\ task_q = <<>>
  /\ tasks_launched = 0 /\ tasks_finished = 0
  /\ m_max_parallel \in Parallels /\ largest = m_max_parallel
  /\ no_more_tasks = FALSE /\ all_tasks_finished = FALSE /\ finish_lock = FALSE
  /\ pc = [a \in Actors |-> "idle"]
  /\ held = [a \in Actors |-> None]
  /\ reg = [a \in Actors |-> 0]
  /\ return = [a \in Actors |-> "idle"]
  /\ pending = {}
  /\ relaunched = [f \in Tasks |-> 0]
  /\ added = {} /\ done = {} /\ fired = 0

Go(a, from, to) == pc[a] = from /\ pc' = [pc EXCEPT ![a] = to]

-------------------------------------------------------------------------------
(* The pool. *)

\* A free thread of the pool starts TaskLauncher::Task on a pending task.
Start(t, f) ==
  /\ f \in pending
  /\ Go(t, "idle", "body")
  /\ pending' = pending \ {f}
  /\ held' = [held EXCEPT ![t] = f]
  /\ UNCHANGED <<task_q, counters, flags, reg, return, history>>

-------------------------------------------------------------------------------
(* TaskLauncher::Task *)

\* (*task)() returns RELAUNCH, and Task calls addTask(task).
ReturnsRelaunch(t) ==
  /\ Go(t, "body", "push")
  /\ relaunched[held[t]] < MaxRelaunch[held[t]]
  /\ relaunched' = [relaunched EXCEPT ![held[t]] = @ + 1]
  /\ return' = [return EXCEPT ![t] = "finish"]
  /\ UNCHANGED <<task_q, counters, flags, held, reg, pending, added, done, fired>>

\* It returns NO_RELAUNCH: the task is deleted.
ReturnsDone(t) ==
  /\ Go(t, "body", "finish")
  /\ done' = done \cup {held[t]}
  /\ held' = [held EXCEPT ![t] = None]
  /\ UNCHANGED <<task_q, counters, flags, reg, return, pending, relaunched,
                 added, fired>>

\* tasks_finished++ is forgotten.
IncFinished_Missing(t) ==
  /\ Go(t, "finish", "load")
  /\ return' = [return EXCEPT ![t] = "fin"]
  /\ UNCHANGED <<task_q, counters, flags, held, reg, pending, history>>

\* tasks_finished++, and then checkLaunch() and checkFinished().
IncFinished(t) ==
  /\ Go(t, "finish", "load")
  /\ tasks_finished' = tasks_finished + 1
  /\ return' = [return EXCEPT ![t] = "fin"]
  /\ UNCHANGED <<task_q, tasks_launched, flags, held, reg, pending, history>>

-------------------------------------------------------------------------------
(* TaskLauncher::addTask and checkLaunch *)

\* An application thread calls addTask; not once it has said setNoMoreTasks.
CallAddTask(c, f) ==
  /\ ~no_more_tasks
  /\ f \notin added
  /\ Go(c, "idle", "push")
  /\ held' = [held EXCEPT ![c] = f]
  /\ return' = [return EXCEPT ![c] = "idle"]
  /\ added' = added \cup {f}
  /\ UNCHANGED <<task_q, counters, flags, reg, pending, relaunched, done, fired>>

\* task_q.push under its lock, and then checkLaunch().
Push(a) ==
  /\ Go(a, "push", "load")
  /\ task_q' = Append(task_q, held[a])
  /\ held' = [held EXCEPT ![a] = None]
  /\ UNCHANGED <<counters, flags, reg, return, pending, history>>

\* The first of the two loads of countRunning() or of checkFinished().
LoadFirst(a, from, toFinished, toLaunched) ==
  /\ \/ /\ Go(a, from, toFinished)
        /\ reg' = [reg EXCEPT ![a] = tasks_launched]
     \/ /\ Go(a, from, toLaunched)
        /\ reg' = [reg EXCEPT ![a] = tasks_finished]
  /\ UNCHANGED <<task_q, counters, flags, held, return, pending, history>>

\* The loop's condition is the queue alone.
Decide_Unbounded(a, from, launched, finished) ==
  /\ Go(a, from, IF task_q # <<>> THEN "pop" ELSE return[a])
  /\ reg' = [reg EXCEPT ![a] = 0]
  /\ UNCHANGED <<task_q, counters, flags, held, return, pending, history>>

\* countRunning() < m_max_parallel, with the launched and finished it has read.
Decide(a, from, launched, finished) ==
  /\ Go(a, from, IF (launched - finished) % SizeModulus < m_max_parallel
                 THEN "pop" ELSE return[a])
  /\ reg' = [reg EXCEPT ![a] = 0]
  /\ UNCHANGED <<task_q, counters, flags, held, return, pending, history>>

\* front() is not followed by pop().
Pop_Keeps(a) ==
  /\ \/ /\ task_q # <<>>
        /\ Go(a, "pop", "inc")
        /\ held' = [held EXCEPT ![a] = Head(task_q)]
     \/ /\ task_q = <<>>
        /\ Go(a, "pop", return[a])
        /\ UNCHANGED held
  /\ UNCHANGED <<task_q, counters, flags, reg, return, pending, history>>

\* Under the lock of the queue: take a task or leave checkLaunch.
Pop(a) ==
  /\ \/ /\ task_q # <<>>
        /\ Go(a, "pop", "inc")
        /\ held' = [held EXCEPT ![a] = Head(task_q)]
        /\ task_q' = Tail(task_q)
     \/ /\ task_q = <<>>
        /\ Go(a, "pop", return[a])
        /\ UNCHANGED <<held, task_q>>
  /\ UNCHANGED <<counters, flags, reg, return, pending, history>>

\* launch: tasks_launched++ ...
IncLaunched(a) ==
  /\ Go(a, "inc", "hand")
  /\ tasks_launched' = tasks_launched + 1
  /\ UNCHANGED <<task_q, tasks_finished, flags, held, reg, return, pending,
                 history>>

\* ... m_pool->addTask, and back to checkLaunch's condition.
HandOver(a) ==
  /\ Go(a, "hand", "load")
  /\ pending' = pending \cup {held[a]}
  /\ held' = [held EXCEPT ![a] = None]
  /\ UNCHANGED <<task_q, counters, flags, reg, return, history>>

-------------------------------------------------------------------------------
(* TaskLauncher::checkFinished *)

\* tasks_launched.load() == tasks_finished.load()
CompareCounts(a, from, other) ==
  /\ Go(a, from, IF reg[a] = other THEN "finMore" ELSE "idle")
  /\ reg' = [reg EXCEPT ![a] = 0]
  /\ UNCHANGED <<task_q, counters, flags, held, return, pending, history>>

\* no_more_tasks.load(), then task_q.empty(), read without the queue's lock.
CheckNoMore(a) ==
  /\ Go(a, "finMore", IF no_more_tasks THEN "finEmpty" ELSE "idle")
  /\ UNCHANGED <<task_q, counters, flags, held, reg, return, pending, history>>

CheckEmpty(a) ==
  /\ Go(a, "finEmpty", IF task_q = <<>> THEN "finLock" ELSE "idle")
  /\ UNCHANGED <<task_q, counters, flags, held, reg, return, pending, history>>

TryLock(a) ==
  /\ Go(a, "finLock", IF finish_lock THEN "idle" ELSE "finTest")
  /\ finish_lock' = TRUE
  /\ UNCHANGED <<task_q, counters, m_max_parallel, largest, no_more_tasks,
                 all_tasks_finished, held, reg, return, pending, history>>

\* The test of all_tasks_finished is dropped.
TestAndSet_NoTest(a) ==
  /\ Go(a, "finTest", "onFinished")
  /\ all_tasks_finished' = TRUE
  /\ UNCHANGED <<task_q, counters, m_max_parallel, largest, no_more_tasks,
                 finish_lock, held, reg, return, pending, history>>

\* The early return when onFinished was already called keeps finish_lock.
TestAndSet(a) ==
  /\ Go(a, "finTest", IF all_tasks_finished THEN "idle" ELSE "onFinished")
  /\ all_tasks_finished' = TRUE
  /\ UNCHANGED <<task_q, counters, m_max_parallel, largest, no_more_tasks,
                 finish_lock, held, reg, return, pending, history>>

\* m_onFinished(); finish_lock.unlock()
CallOnFinished(a) ==
  /\ Go(a, "onFinished", "idle")
  /\ fired' = fired + 1
  /\ finish_lock' = FALSE
  /\ UNCHANGED <<task_q, counters, m_max_parallel, largest, no_more_tasks,
                 all_tasks_finished, held, reg, return, pending, relaunched,
                 added, done>>

-------------------------------------------------------------------------------
(* The setters, called by application threads. *)

SetNoMoreTasks(c) ==
  /\ pc[c] = "idle"
  /\ no_more_tasks' = TRUE
  /\ UNCHANGED <<task_q, counters, m_max_parallel, largest, all_tasks_finished,
                 finish_lock, pc, held, reg, return, pending, history>>

SetMaxParallel(c, n) ==
  /\ pc[c] = "idle"
  /\ m_max_parallel' = n
  /\ largest' = Max({largest, n})
  /\ UNCHANGED <<task_q, counters, no_more_tasks, all_tasks_finished,
                 finish_lock, pc, held, reg, return, pending, history>>

-------------------------------------------------------------------------------

CheckLaunch(a) ==
  \/ LoadFirst(a, "load", "loadFinished", "loadLaunched")
  \/ Decide(a, "loadFinished", reg[a], tasks_finished)
  \/ Decide(a, "loadLaunched", tasks_launched, reg[a])
  \/ Pop(a)
  \/ IncLaunched(a)
  \/ HandOver(a)

CheckFinished(t) ==
  \/ LoadFirst(t, "fin", "finLoadFinished", "finLoadLaunched")
  \/ CompareCounts(t, "finLoadFinished", tasks_finished)
  \/ CompareCounts(t, "finLoadLaunched", tasks_launched)
  \/ CheckNoMore(t)
  \/ CheckEmpty(t)
  \/ TryLock(t)
  \/ TestAndSet(t)
  \/ CallOnFinished(t)

Thread(t) ==
  \/ \E f \in Tasks : Start(t, f)
  \/ ReturnsDone(t)
  \/ ReturnsRelaunch(t)
  \/ Push(t)
  \/ CheckLaunch(t)
  \/ IncFinished(t)
  \/ CheckFinished(t)

Client(c) == Push(c) \/ CheckLaunch(c)

Application(c) ==
  \/ \E f \in Tasks : CallAddTask(c, f)
  \/ SetNoMoreTasks(c)
  \/ \E n \in Parallels : SetMaxParallel(c, n)

Next ==
  \/ \E t \in Threads : Thread(t)
  \/ \E c \in Clients : Client(c) \/ Application(c)

Spec == Init /\ [][Next]_vars

\* Threads are scheduled, tasks return, and the pool starts what it was handed.
Fairness ==
  /\ \A t \in Threads : WF_vars(Thread(t))
  /\ \A c \in Clients : WF_vars(Client(c))

FairSpec == Spec /\ Fairness

-------------------------------------------------------------------------------
(* Properties. *)

\* A task is in the queue, in one actor's hand, with the pool or over: a race
\* between two checkLaunch, or a relaunch that races the count of the run just
\* ended, never doubles or drops it.
TaskInOnePlace ==
  \A f \in Tasks :
    Cardinality({i \in DOMAIN task_q : task_q[i] = f})
      + Cardinality({a \in Actors : held[a] = f})
      + (IF f \in pending THEN 1 ELSE 0)
      + (IF f \in done THEN 1 ELSE 0)
      = IF f \in added THEN 1 ELSE 0

\* Tasks that have been counted as launched and not yet as finished.
InFlight == tasks_launched - tasks_finished

\* checkLaunch tests the count and launches in separate steps, so max_parallel
\* may be exceeded; by at most one task per other actor in checkLaunch, whatever
\* stale counts they have read, and the difference of the counts that
\* countRunning takes never goes below zero for good.
BoundedOvershoot ==
  0 <= InFlight /\ InFlight <= largest + Cardinality(Actors) - 1

\* onFinished is called at most once, however many threads find the launcher
\* finished at the same time.
OnFinishedOnce == fired <= 1

\* If setNoMoreTasks comes while some task is still to be run, onFinished is called
\* and every task is over.  Not in this order: checkFinished can find equal counts
\* and an empty queue while a task is popped and not yet counted, and onFinished
\* then comes before that task is run; but it is run.
OnFinishedFires == (no_more_tasks /\ added # done) ~> (fired > 0 /\ added = done)

-------------------------------------------------------------------------------
(* The inductive invariants behind them. *)

\* Where an actor has a task in hand.
Holding == {"body", "push", "inc", "hand"}

InQueue(q, f) == \E i \in DOMAIN q : q[i] = f

HoldInv == \A a \in Actors : held[a] # None <=> pc[a] \in Holding

\* TaskInOnePlace without counting: no two places share a task.
PlaceInv ==
  /\ \A a, b \in Actors : held[a] # None /\ held[a] = held[b] => a = b
  /\ \A i, j \in DOMAIN task_q : task_q[i] = task_q[j] => i = j
  /\ \A a \in Actors : held[a] # None =>
       held[a] \in added \ (pending \cup done) /\ ~InQueue(task_q, held[a])
  /\ \A i \in DOMAIN task_q : task_q[i] \in added \ (pending \cup done)
  /\ pending \subseteq added \ done /\ done \subseteq added
  /\ \A f \in added \ (pending \cup done) :
       InQueue(task_q, f) \/ \E a \in Actors : held[a] = f

\* finish_lock protects the test, the flag and the call of onFinished.
FinishInv ==
  /\ \A a \in Actors : pc[a] \in {"finTest", "onFinished"} => finish_lock
  /\ \A a, b \in Actors :
       /\ pc[a] \in {"finTest", "onFinished"}
       /\ pc[b] \in {"finTest", "onFinished"}
       => a = b
  /\ ~all_tasks_finished => fired = 0
  /\ \A a \in Actors : pc[a] = "onFinished" => all_tasks_finished /\ fired = 0
  /\ fired <= 1

\* A counter read before is not ahead of the counter.
RegInv ==
  /\ \A a \in Actors : pc[a] = "loadFinished" => reg[a] <= tasks_launched
  /\ \A a \in Actors : pc[a] = "loadLaunched" => reg[a] <= tasks_finished
  /\ m_max_parallel <= largest

\* Actors between tasks_launched++ and m_pool->addTask.
Handing == {a \in Actors : pc[a] = "hand"}

\* Actors inside TaskLauncher::Task that have not done tasks_finished++ for it,
\* the addTask of a relaunch included.
Running ==
  {a \in Actors :
     \/ pc[a] \in {"body", "finish"}
     \/ /\ pc[a] \in {"push", "load", "loadFinished", "loadLaunched", "pop",
                      "inc", "hand"}
        /\ return[a] = "finish"}

\* What the difference of the two counters counts.
CountInv ==
  /\ IsFiniteSet(pending)
  /\ InFlight = Cardinality(pending) + Cardinality(Handing) + Cardinality(Running)

\* Actors that may still launch although k tasks were launched since they looked,
\* or that have decided to launch already.
Committed(k) ==
  {a \in Actors :
     \/ pc[a] \in {"pop", "inc"}
     \/ pc[a] = "loadFinished" /\ tasks_launched - reg[a] >= k}

\* Every task beyond the limit was launched by an actor that is no longer among
\* those who may do it again.
OvershootInv ==
  \A k \in Nat \ {0} :
    k <= InFlight - largest + 1 => Cardinality(Committed(k)) + k <= Cardinality(Actors)
===============================================================================
