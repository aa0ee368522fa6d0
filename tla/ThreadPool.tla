------------------------------ MODULE ThreadPool ------------------------------
(***************************************************************************)
(* hThreadPool and hThread (threads/threadpool.cpp) with the condition     *)
(* waiter they sleep on (hCondWaiter, threads/locks.cpp).                  *)
(*                                                                         *)
(* Every thread has a queue of its own and there is one global queue.  A   *)
(* thread that finds both empty puts itself in waiting_threads and sleeps  *)
(* until its own queue is not empty; addTask hands a task to a waiting     *)
(* thread if there is one and to the global queue if not.                  *)
(*                                                                         *)
(* Each critical section of a queue (lock, one operation, unlock) is one   *)
(* step: the queue's mutex is never held across anything else.  The mutex  *)
(* of a condition waiter is held across several steps and is explicit.     *)
(* m_running is a plain bool written by kill() without a lock; between two *)
(* reads of it a thread always calls into pthreads, so a build re-reads it *)
(* and the race is the interleaving of the read and the write.             *)
(***************************************************************************)
EXTENDS Naturals, Sequences, SequencesExt, FiniteSets

CONSTANTS Threads,            \* the hThread objects of the pool
          Tasks,              \* what applications hand to addTask
          Callers,            \* concurrent executions of hThreadPool::addTask
          KillTask,           \* the task kill() makes: bind(&hThread::kill, thread)
          None,               \* nobody, nothing
          OwnerCalls,         \* what the pool's owner does once it has run()
          MaxSpurious         \* bound on spurious wakeups of pthread_cond_wait

ASSUME ThreadPoolAssumption ==
  /\ IsFiniteSet(Threads)
  /\ Threads \cap Callers = {}
  /\ None \notin Threads \cup Callers \cup Tasks
  /\ KillTask \notin Tasks \cup {None}
  /\ OwnerCalls \subseteq {"kill", "join", "destroy"}
  /\ MaxSpurious \in Nat

VARIABLES
  \* hThread
  pc,                \* where hThread::run is
  task,              \* the callback it is running (f), None between two
  m_running,
  local_task_queue,
  condOwner,         \* who holds local_queue_notempty.m_lock
  \* hThreadPool
  task_queue,        \* the global queue
  waiting_threads,
  m_nrunning_threads,
  \* the executions of addTask
  cpc, ctask, ctarget,
  \* the owner: run(), kill(), join(), ~hThreadPool
  opc, otarget, toFlag, inDtor,
  \* history
  submitted,         \* tasks some addTask has been called with
  finished,          \* tasks that have been run
  spurious           \* spurious wakeups so far

threadVars == <<pc, task, m_running, local_task_queue, condOwner>>
poolVars   == <<task_queue, waiting_threads, m_nrunning_threads>>
callerVars == <<cpc, ctask, ctarget>>
ownerVars  == <<opc, otarget, toFlag, inDtor>>
history    == <<submitted, finished, spurious>>
vars == <<threadVars, poolVars, callerVars, ownerVars, history>>

-------------------------------------------------------------------------------
(* The places of the threads' programs. *)

\* hThread::run has passed fetch_add and not yet fetch_sub.
Counted ==
  {"loop", "local", "runLocal", "check1", "global", "runGlobal", "check2",
   "enqueue", "waitLock", "waitCheck", "sleep", "asleep", "relock", "reinit",
   "exit"}

WorkerPlaces == {"unborn", "init", "done"} \cup Counted

\* The thread has put itself in waiting_threads and is still in wait().
InWait == {"waitLock", "waitCheck", "sleep", "asleep", "relock", "reinit"}

\* The thread holds the mutex of its condition waiter.
HoldsCond == {"waitCheck", "sleep", "reinit"}

CallerPlaces == {"idle", "pick", "lockCond", "push", "kick", "unlock", "pushGlobal"}

\* The caller holds the mutex of its target's condition waiter.
CallerHolds == {"push", "kick", "unlock"}

OwnerPlaces ==
  {"create", "up", "flag", "drain", "killPush", "killKick", "joining",
   "joined", "dtorCheck", "deleted"}

TypeOK ==
  /\ pc \in [Threads -> WorkerPlaces]
  /\ task \in [Threads -> Tasks \cup {KillTask, None}]
  /\ m_running \in [Threads -> BOOLEAN]
  /\ local_task_queue \in [Threads -> Seq(Tasks \cup {KillTask})]
  /\ condOwner \in [Threads -> Threads \cup Callers \cup {None}]
  /\ task_queue \in Seq(Tasks)
  /\ waiting_threads \in Seq(Threads)
  /\ m_nrunning_threads \in Nat
  /\ cpc \in [Callers -> CallerPlaces]
  /\ ctask \in [Callers -> Tasks \cup {None}]
  /\ ctarget \in [Callers -> Threads \cup {None}]
  /\ opc \in OwnerPlaces
  /\ otarget \in Threads \cup {None}
  /\ toFlag \in SUBSET Threads
  /\ inDtor \in BOOLEAN
  /\ submitted \in SUBSET Tasks
  /\ finished \in SUBSET Tasks
  /\ spurious \in 0..MaxSpurious

\* hThreadPool::hThreadPool; no thread exists before run().
Init ==
  /\ pc = [t \in Threads |-> "unborn"]
  /\ task = [t \in Threads |-> None]
  /\ m_running = [t \in Threads |-> TRUE]
  /\ local_task_queue = [t \in Threads |-> <<>>]
  /\ condOwner = [t \in Threads |-> None]
  /\ task_queue = <<>>
  /\ waiting_threads = <<>>
  /\ m_nrunning_threads = 0
  /\ cpc = [c \in Callers |-> "idle"]
  /\ ctask = [c \in Callers |-> None]
  /\ ctarget = [c \in Callers |-> None]
  /\ opc = "create"
  /\ otarget = None
  /\ toFlag = {}
  /\ inDtor = FALSE
  /\ submitted = {}
  /\ finished = {}
  /\ spurious = 0

-------------------------------------------------------------------------------
(* hThread::run *)

Move(t, from, to) == pc[t] = from /\ pc' = [pc EXCEPT ![t] = to]

\* fetch_add is forgotten.
Started_NotCounted(t) ==
  /\ Move(t, "init", "loop")
  /\ UNCHANGED <<task, m_running, local_task_queue, condOwner, poolVars,
                 callerVars, ownerVars, history>>

Started(t) ==
  /\ Move(t, "init", "loop")
  /\ m_nrunning_threads' = m_nrunning_threads + 1
  /\ UNCHANGED <<task, m_running, local_task_queue, condOwner, task_queue,
                 waiting_threads, callerVars, ownerVars, history>>

\* The three reads of m_running: the loop's condition and the two breaks.
CheckRunning(t, from, to) ==
  /\ Move(t, from, IF m_running[t] THEN to ELSE "exit")
  /\ UNCHANGED <<task, m_running, local_task_queue, condOwner, poolVars,
                 callerVars, ownerVars, history>>

\* One turn of the loop over the thread's own queue: take a task or leave.
TakeLocal(t) ==
  /\ \/ /\ local_task_queue[t] # <<>>
        /\ Move(t, "local", "runLocal")
        /\ task' = [task EXCEPT ![t] = Head(local_task_queue[t])]
        /\ local_task_queue' = [local_task_queue EXCEPT ![t] = Tail(@)]
     \/ /\ local_task_queue[t] = <<>>
        /\ Move(t, "local", "check1")
        /\ UNCHANGED <<task, local_task_queue>>
  /\ UNCHANGED <<m_running, condOwner, poolVars, callerVars, ownerVars, history>>

\* front() and no pop() on the global queue.
TakeGlobal_NoPop(t) ==
  /\ \/ /\ task_queue # <<>>
        /\ Move(t, "global", "runGlobal")
        /\ task' = [task EXCEPT ![t] = Head(task_queue)]
     \/ /\ task_queue = <<>>
        /\ Move(t, "global", "check2")
        /\ UNCHANGED task
  /\ UNCHANGED <<m_running, local_task_queue, condOwner, poolVars, callerVars,
                 ownerVars, history>>

\* The same loop over the global queue.
TakeGlobal(t) ==
  /\ \/ /\ task_queue # <<>>
        /\ Move(t, "global", "runGlobal")
        /\ task' = [task EXCEPT ![t] = Head(task_queue)]
        /\ task_queue' = Tail(task_queue)
     \/ /\ task_queue = <<>>
        /\ Move(t, "global", "check2")
        /\ UNCHANGED <<task, task_queue>>
  /\ UNCHANGED <<m_running, local_task_queue, condOwner, waiting_threads,
                 m_nrunning_threads, callerVars, ownerVars, history>>

\* One task of the global queue instead of all of them: if for while.
RunTask_Once(t, from, to) ==
  /\ Move(t, from, IF from = "runGlobal" THEN "check2" ELSE to)
  /\ task' = [task EXCEPT ![t] = None]
  /\ finished' = finished \cup ({task[t]} \ {KillTask})
  /\ UNCHANGED <<m_running, local_task_queue, condOwner, poolVars, callerVars,
                 ownerVars, submitted, spurious>>

\* (*f)() returns and f is deleted; a kill task has cleared m_running.
RunTask(t, from, to) ==
  /\ Move(t, from, to)
  /\ task' = [task EXCEPT ![t] = None]
  /\ \/ /\ task[t] = KillTask
        /\ m_running' = [m_running EXCEPT ![t] = FALSE]
        /\ UNCHANGED finished
     \/ /\ task[t] # KillTask
        /\ finished' = finished \cup {task[t]}
        /\ UNCHANGED m_running
  /\ UNCHANGED <<local_task_queue, condOwner, poolVars, callerVars, ownerVars,
                 submitted, spurious>>

Enqueue(t) ==
  /\ Move(t, "enqueue", "waitLock")
  /\ waiting_threads' = Append(waiting_threads, t)
  /\ UNCHANGED <<task, m_running, local_task_queue, condOwner, task_queue,
                 m_nrunning_threads, callerVars, ownerVars, history>>

-------------------------------------------------------------------------------
(* hCondWaiter::wait, called by hThread::run on its own waiter. *)

\* pthread_mutex_lock, on entry or inside pthread_cond_wait once woken.
LockCond(t, from) ==
  /\ Move(t, from, "waitCheck")
  /\ condOwner[t] = None
  /\ condOwner' = [condOwner EXCEPT ![t] = t]
  /\ UNCHANGED <<task, m_running, local_task_queue, poolVars, callerVars,
                 ownerVars, history>>

\* while (!m_state_ok()): queueNotEmpty.  The way out destroys the condition.
CheckState(t) ==
  /\ Move(t, "waitCheck",
          IF local_task_queue[t] # <<>> THEN "reinit" ELSE "sleep")
  /\ UNCHANGED <<task, m_running, local_task_queue, condOwner, poolVars,
                 callerVars, ownerVars, history>>

\* pthread_cond_wait releases the mutex and blocks in one step.
Sleep(t) ==
  /\ Move(t, "sleep", "asleep")
  /\ condOwner' = [condOwner EXCEPT ![t] = None]
  /\ UNCHANGED <<task, m_running, local_task_queue, poolVars, callerVars,
                 ownerVars, history>>

\* The condition is initialised again and the mutex released.
LeaveWait(t) ==
  /\ Move(t, "reinit", "loop")
  /\ condOwner' = [condOwner EXCEPT ![t] = None]
  /\ UNCHANGED <<task, m_running, local_task_queue, poolVars, callerVars,
                 ownerVars, history>>

\* pthread_cond_wait may return without a signal.
SpuriousWakeup(t) ==
  /\ spurious < MaxSpurious
  /\ Move(t, "asleep", "relock")
  /\ spurious' = spurious + 1
  /\ UNCHANGED <<task, m_running, local_task_queue, condOwner, poolVars,
                 callerVars, ownerVars, submitted, finished>>

\* pthread_cond_signal on t's condition: it wakes t if t is blocked on it, and
\* is lost otherwise.
Signal(t) == pc' = [pc EXCEPT ![t] = IF @ = "asleep" THEN "relock" ELSE @]

\* Leaving the loop: fetch_sub is run()'s last use of the pool.
Stop(t) ==
  /\ Move(t, "exit", "done")
  /\ m_nrunning_threads' = m_nrunning_threads - 1
  /\ UNCHANGED <<task, m_running, local_task_queue, condOwner, task_queue,
                 waiting_threads, callerVars, ownerVars, history>>

-------------------------------------------------------------------------------
(* hThreadPool::addTask.  A caller may be any thread of the application, a  *)
(* pool thread running a task included.                                     *)

CMove(c, from, to) == cpc[c] = from /\ cpc' = [cpc EXCEPT ![c] = to]

\* The pool's lifetime: nobody calls a method of a pool being destroyed.
Call(c, f) ==
  /\ ~inDtor
  /\ f \notin submitted
  /\ CMove(c, "idle", "pick")
  /\ ctask' = [ctask EXCEPT ![c] = f]
  /\ submitted' = submitted \cup {f}
  /\ UNCHANGED <<threadVars, poolVars, ctarget, ownerVars, finished, spurious>>

\* Choosing the thread without removing it: front() and no pop().
Pick_NoPop(c) ==
  /\ \/ /\ waiting_threads # <<>>
        /\ CMove(c, "pick", "lockCond")
        /\ ctarget' = [ctarget EXCEPT ![c] = Head(waiting_threads)]
     \/ /\ waiting_threads = <<>>
        /\ CMove(c, "pick", "pushGlobal")
        /\ UNCHANGED ctarget
  /\ UNCHANGED <<threadVars, poolVars, ctask, ownerVars, history>>

\* The critical section of waiting_threads: pop a thread if there is one.
Pick(c) ==
  /\ \/ /\ waiting_threads # <<>>
        /\ CMove(c, "pick", "lockCond")
        /\ ctarget' = [ctarget EXCEPT ![c] = Head(waiting_threads)]
        /\ waiting_threads' = Tail(waiting_threads)
     \/ /\ waiting_threads = <<>>
        /\ CMove(c, "pick", "pushGlobal")
        /\ UNCHANGED <<ctarget, waiting_threads>>
  /\ UNCHANGED <<threadVars, task_queue, m_nrunning_threads, ctask, ownerVars,
                 history>>

\* Going on without the condition's mutex, as kill() does.
CallerLock_Free(c) ==
  /\ CMove(c, "lockCond", "push")
  /\ UNCHANGED <<threadVars, poolVars, ctask, ctarget, ownerVars, history>>

\* thread->local_queue_notempty.lock()
CallerLock(c) ==
  /\ CMove(c, "lockCond", "push")
  /\ condOwner[ctarget[c]] = None
  /\ condOwner' = [condOwner EXCEPT ![ctarget[c]] = c]
  /\ UNCHANGED <<pc, task, m_running, local_task_queue, poolVars, ctask,
                 ctarget, ownerVars, history>>

\* thread->addTask(f)
PushLocal(c) ==
  /\ CMove(c, "push", "kick")
  /\ local_task_queue' =
       [local_task_queue EXCEPT ![ctarget[c]] = Append(@, ctask[c])]
  /\ ctask' = [ctask EXCEPT ![c] = None]
  /\ UNCHANGED <<pc, task, m_running, condOwner, poolVars, ctarget, ownerVars,
                 history>>

\* No kick after the push.
Kick_Missing(c) ==
  /\ CMove(c, "kick", "unlock")
  /\ UNCHANGED <<threadVars, poolVars, ctask, ctarget, ownerVars, history>>

\* thread->kick()
Kick(c) ==
  /\ CMove(c, "kick", "unlock")
  /\ Signal(ctarget[c])
  /\ UNCHANGED <<task, m_running, local_task_queue, condOwner, poolVars, ctask,
                 ctarget, ownerVars, history>>

\* thread->local_queue_notempty.unlock(), and addTask returns.
CallerUnlock(c) ==
  /\ CMove(c, "unlock", "idle")
  /\ condOwner' = [condOwner EXCEPT ![ctarget[c]] = None]
  /\ ctarget' = [ctarget EXCEPT ![c] = None]
  /\ UNCHANGED <<pc, task, m_running, local_task_queue, poolVars, ctask,
                 ownerVars, history>>

\* No thread was waiting: the global queue, and addTask returns.
PushGlobal(c) ==
  /\ CMove(c, "pushGlobal", "idle")
  /\ task_queue' = Append(task_queue, ctask[c])
  /\ ctask' = [ctask EXCEPT ![c] = None]
  /\ UNCHANGED <<threadVars, waiting_threads, m_nrunning_threads, ctarget,
                 ownerVars, history>>

-------------------------------------------------------------------------------
(* The owner of the pool: hThreadPool::run, kill, join and ~hThreadPool. *)

OMove(from, to) == opc = from /\ opc' = to

\* One turn of run()'s loop: new hThread and pthread_create.
Create(t) ==
  /\ Move(t, "unborn", "init")
  /\ opc = "create"
  /\ UNCHANGED <<task, m_running, local_task_queue, condOwner, poolVars,
                 callerVars, ownerVars, history>>

RunReturns ==
  /\ \A t \in Threads : pc[t] # "unborn"
  /\ OMove("create", "up")
  /\ UNCHANGED <<threadVars, poolVars, callerVars, otarget, toFlag, inDtor,
                 history>>

CallKill ==
  /\ "kill" \in OwnerCalls
  /\ OMove("up", "flag")
  /\ toFlag' = Threads
  /\ UNCHANGED <<threadVars, poolVars, callerVars, otarget, inDtor, history>>

\* threads[i]->kill()
Flag(t) ==
  /\ opc = "flag"
  /\ t \in toFlag
  /\ m_running' = [m_running EXCEPT ![t] = FALSE]
  /\ toFlag' = toFlag \ {t}
  /\ UNCHANGED <<pc, task, local_task_queue, condOwner, poolVars, callerVars,
                 opc, otarget, inDtor, history>>

AllFlagged ==
  /\ toFlag = {}
  /\ OMove("flag", "drain")
  /\ UNCHANGED <<threadVars, poolVars, callerVars, otarget, toFlag, inDtor,
                 history>>

\* One turn of kill()'s loop over waiting_threads, or kill() returns.
Drain ==
  /\ \/ /\ waiting_threads # <<>>
        /\ OMove("drain", "killPush")
        /\ otarget' = Head(waiting_threads)
        /\ waiting_threads' = Tail(waiting_threads)
     \/ /\ waiting_threads = <<>>
        /\ OMove("drain", IF inDtor THEN "dtorCheck" ELSE "up")
        /\ UNCHANGED <<otarget, waiting_threads>>
  /\ UNCHANGED <<threadVars, task_queue, m_nrunning_threads, callerVars,
                 toFlag, inDtor, history>>

\* The kick without the task that would keep it from being taken as spurious.
KillPush_Missing ==
  /\ OMove("killPush", "killKick")
  /\ UNCHANGED <<threadVars, poolVars, callerVars, otarget, toFlag, inDtor, history>>

\* thread->addTask(NEWTASK2(&hThread::kill, thread)), without the condition's mutex.
KillPush ==
  /\ OMove("killPush", "killKick")
  /\ local_task_queue' =
       [local_task_queue EXCEPT ![otarget] = Append(@, KillTask)]
  /\ UNCHANGED <<pc, task, m_running, condOwner, poolVars, callerVars, otarget,
                 toFlag, inDtor, history>>

\* thread->kick(), also without the mutex.
KillKick ==
  /\ OMove("killKick", "drain")
  /\ Signal(otarget)
  /\ otarget' = None
  /\ UNCHANGED <<task, m_running, local_task_queue, condOwner, poolVars,
                 callerVars, toFlag, inDtor, history>>

CallJoin ==
  /\ "join" \in OwnerCalls
  /\ OMove("up", "joining")
  /\ UNCHANGED <<threadVars, poolVars, callerVars, otarget, toFlag, inDtor,
                 history>>

\* Every pthread_join has returned.
JoinReturns ==
  /\ \A t \in Threads : pc[t] = "done"
  /\ OMove("joining", "joined")
  /\ UNCHANGED <<threadVars, poolVars, callerVars, otarget, toFlag, inDtor,
                 history>>

\* ~hThreadPool is entered when no call of addTask is under way.
CallDtor ==
  /\ "destroy" \in OwnerCalls
  /\ \A c \in Callers : cpc[c] = "idle"
  /\ opc \in {"up", "joined"}
  /\ opc' = "dtorCheck"
  /\ inDtor' = TRUE
  /\ UNCHANGED <<threadVars, poolVars, callerVars, otarget, toFlag, history>>

\* An off-by-one in the destructor's loop.
DtorCheck_OffByOne ==
  /\ \/ /\ m_nrunning_threads > 1
        /\ OMove("dtorCheck", "flag")
        /\ toFlag' = Threads
     \/ /\ m_nrunning_threads <= 1
        /\ OMove("dtorCheck", "deleted")
        /\ UNCHANGED toFlag
  /\ UNCHANGED <<threadVars, poolVars, callerVars, otarget, inDtor, history>>

\* while (m_nrunning_threads.load() > 0) kill(); then the threads are deleted.
DtorCheck ==
  /\ \/ /\ m_nrunning_threads > 0
        /\ OMove("dtorCheck", "flag")
        /\ toFlag' = Threads
     \/ /\ m_nrunning_threads = 0
        /\ OMove("dtorCheck", "deleted")
        /\ UNCHANGED toFlag
  /\ UNCHANGED <<threadVars, poolVars, callerVars, otarget, inDtor, history>>

-------------------------------------------------------------------------------

\* hThread::run.  Once its hThread is deleted a thread has no defined behaviour.
Worker(t) ==
  /\ opc # "deleted"
  /\ \/ Started(t)
     \/ CheckRunning(t, "loop", "local")
     \/ TakeLocal(t)
     \/ RunTask(t, "runLocal", "local")
     \/ CheckRunning(t, "check1", "global")
     \/ TakeGlobal(t)
     \/ RunTask(t, "runGlobal", "global")
     \/ CheckRunning(t, "check2", "enqueue")
     \/ Enqueue(t)
     \/ LockCond(t, "waitLock")
     \/ CheckState(t)
     \/ Sleep(t)
     \/ LockCond(t, "relock")
     \/ LeaveWait(t)
     \/ Stop(t)

Caller(c) ==
  \/ Pick(c)
  \/ CallerLock(c)
  \/ PushLocal(c)
  \/ Kick(c)
  \/ CallerUnlock(c)
  \/ PushGlobal(c)

\* What the owner does of itself once it has called a method.
Owner ==
  \/ \E t \in Threads : Create(t) \/ Flag(t)
  \/ RunReturns
  \/ AllFlagged
  \/ Drain
  \/ KillPush
  \/ KillKick
  \/ JoinReturns
  \/ DtorCheck

\* What the application may or may not do.
Application ==
  \/ \E c \in Callers, f \in Tasks : Call(c, f)
  \/ CallKill
  \/ CallJoin
  \/ CallDtor

Next ==
  \/ \E t \in Threads : Worker(t) \/ SpuriousWakeup(t)
  \/ \E c \in Callers : Caller(c)
  \/ Owner
  \/ Application

Spec == Init /\ [][Next]_vars

\* The operating system schedules every thread that can run, and every task
\* returns.  Applications need not call anything.
Fairness ==
  /\ \A t \in Threads : WF_vars(Worker(t))
  /\ \A c \in Callers : WF_vars(Caller(c))
  /\ WF_vars(Owner)

FairSpec == Spec /\ Fairness

-------------------------------------------------------------------------------
(* Properties. *)

\* There is a task of an application in t's own queue.
HasTask(t) ==
  \E i \in DOMAIN local_task_queue[t] : local_task_queue[t][i] \in Tasks

\* A thread asleep in pthread_cond_wait with a task in its queue is about to be
\* kicked by the addTask that put it there: addTask pushes and kicks under the
\* condition's mutex, so the thread cannot miss the kick.
NoLostWakeup ==
  \A t \in Threads :
    pc[t] = "asleep" /\ HasTask(t)
      => \E c \in Callers : cpc[c] = "kick" /\ ctarget[c] = t

\* Some addTask or kill() has taken t out of waiting_threads to give it a task.
Claimed(t) ==
  \/ \E c \in Callers : cpc[c] \in {"lockCond", "push"} /\ ctarget[c] = t
  \/ opc = "killPush" /\ otarget = t

\* t is inside wait() with an empty queue and nobody is about to change that.
Idle(t) == pc[t] \in InWait /\ local_task_queue[t] = <<>> /\ ~Claimed(t)

\* The parts of ExclusiveHandOff.
WaitingOnce ==
  \A i, j \in DOMAIN waiting_threads :
    waiting_threads[i] = waiting_threads[j] => i = j

WaitingIdle == \A i \in DOMAIN waiting_threads : Idle(waiting_threads[i])

ClaimedOnce ==
  /\ \A c, d \in Callers :
       /\ cpc[c] \in {"lockCond", "push"} /\ cpc[d] \in {"lockCond", "push"}
       /\ ctarget[c] = ctarget[d]
       => c = d
  /\ \A c \in Callers :
       cpc[c] \in {"lockCond", "push"} /\ opc = "killPush" => ctarget[c] # otarget

\* A thread in waiting_threads is there once, is inside wait() with an empty
\* queue, and no addTask or kill() that took it out earlier is still handing it
\* a task; no two of those that took a thread out hold the same one; and so a
\* thread is given one task at a time.
ExclusiveHandOff ==
  /\ WaitingOnce
  /\ WaitingIdle
  /\ ClaimedOnce
  /\ \A t \in Threads : Len(local_task_queue[t]) <= 1

\* addTask never signals a condition that wait() has destroyed and not yet
\* initialised again (hCondWaiter::wait destroys it on its way out).
KickFindsCondition ==
  \A c \in Callers : cpc[c] = "kick" => pc[ctarget[c]] # "reinit"

\* ~hThreadPool deletes the hThread objects when m_nrunning_threads is zero.  No
\* thread is then anywhere in run() between the increment and the decrement,
\* whatever kills, kicks and waits came before; one that pthread_create has made
\* and that has not yet come to the increment may still be there.
DeletedOutsideRun ==
  opc = "deleted" => \A t \in Threads : pc[t] \in {"init", "done"}

\* The tasks that wait: with an addTask, in the global queue, in a thread's own.
Pending ==
  {f \in Tasks :
     \/ \E c \in Callers : ctask[c] = f
     \/ f \in ToSet(task_queue)
     \/ \E t \in Threads : f \in ToSet(local_task_queue[t])}

\* The task each thread is running, if it is an application's.
Runner == [t \in Threads |-> IF task[t] \in Tasks THEN task[t] ELSE None]

\* The pool behaves as TaskPool says: tasks wait, run on one thread each, end.
Abstract == INSTANCE TaskPool WITH pending <- Pending, runner <- Runner

ImplementsTaskPool == Abstract!Spec

\* Until the pool is destroyed a task put in a thread's own queue is run.
LocalTaskRuns ==
  \A f \in Tasks, t \in Threads :
    f \in ToSet(local_task_queue[t]) ~> (f \in finished \/ inDtor)

\* Until the pool is destroyed a task put in the global queue is run if some
\* thread has yet to look at that queue: the tasks added before run() are.
GlobalTaskRuns ==
  \A f \in Tasks :
    (/\ f \in ToSet(task_queue)
     /\ \E t \in Threads : pc[t] \in {"unborn", "init", "loop", "local",
                                      "runLocal", "check1", "global"})
      ~> (f \in finished \/ inDtor)

\* Every task handed to a pool that is not being killed is run.
EveryTaskRuns == \A f \in Tasks : f \in submitted ~> f \in finished

\* The kick of a kill task came too early: t sleeps on a queue that holds it.
KillLost(t) ==
  /\ pc[t] = "asleep"
  /\ local_task_queue[t] # <<>>
  /\ otarget # t

\* ~hThreadPool returns, unless a kill task's kick was lost: nothing else keeps a
\* thread from seeing m_running and leaving.
DtorEndsUnlessKillLost ==
  inDtor ~> (opc = "deleted" \/ \E t \in Threads : KillLost(t))

-------------------------------------------------------------------------------
(* The inductive invariant behind the safety properties. *)

\* What each place of a program says of that program's variables.
LocalInv ==
  /\ \A t \in Threads : pc[t] \in {"runLocal", "runGlobal"} <=> task[t] # None
  /\ \A c \in Callers :
       cpc[c] \in {"pick", "lockCond", "push", "pushGlobal"} <=> ctask[c] # None
  /\ \A c \in Callers :
       cpc[c] \in {"lockCond", "push", "kick", "unlock"} <=> ctarget[c] # None
  /\ opc \in {"killPush", "killKick"} <=> otarget # None

\* Who owns the mutex of a condition waiter.
MutexInv ==
  /\ \A t \in Threads : pc[t] \in HoldsCond <=> condOwner[t] = t
  /\ \A c \in Callers : cpc[c] \in CallerHolds => condOwner[ctarget[c]] = c

\* m_nrunning_threads counts the threads inside run()'s loop.
CountInv == m_nrunning_threads = Cardinality({t \in Threads : pc[t] \in Counted})

\* NoLostWakeup, from the moment the thread has found its queue empty.
WakeInv ==
  \A t \in Threads :
    pc[t] \in {"sleep", "asleep"} /\ HasTask(t)
      => \E c \in Callers : cpc[c] = "kick" /\ ctarget[c] = t

\* ExclusiveHandOff, and where a thread is while it is claimed or has work.
HandOffInv ==
  /\ ExclusiveHandOff
  /\ \A t \in Threads :
       Claimed(t) => pc[t] \in InWait /\ local_task_queue[t] = <<>>
  /\ \A t \in Threads :
       /\ pc[t] = "reinit" => local_task_queue[t] # <<>>
       /\ local_task_queue[t] # <<>> =>
            pc[t] \in InWait \cup {"loop", "local", "exit", "done"}

\* Threads exist and have started as far as the owner's place says.
OwnerInv ==
  /\ IF opc = "create" THEN ~inDtor ELSE \A t \in Threads : pc[t] # "unborn"
  /\ opc \in {"dtorCheck", "deleted"} => inDtor
  /\ DeletedOutsideRun

IndInv ==
  /\ TypeOK
  /\ LocalInv
  /\ MutexInv
  /\ CountInv
  /\ WakeInv
  /\ HandOffInv
  /\ OwnerInv

\* A task that was submitted waits in one place at most: what the refinement of
\* TaskPool needs besides.
UniqueInv ==
  /\ finished \subseteq submitted
  /\ \A t \in Threads : task[t] \in Tasks => task[t] \in submitted
  /\ Pending \subseteq submitted
  /\ \A i, j \in DOMAIN task_queue : task_queue[i] = task_queue[j] => i = j
  /\ \A c, d \in Callers : ctask[c] # None /\ ctask[c] = ctask[d] => c = d
  /\ \A c \in Callers : ctask[c] \notin ToSet(task_queue)
  /\ \A c \in Callers, t \in Threads :
       ctask[c] # None => ctask[c] \notin ToSet(local_task_queue[t])
  /\ \A t \in Threads : ToSet(task_queue) \cap ToSet(local_task_queue[t]) = {}
  /\ \A t, u \in Threads, f \in Tasks :
       f \in ToSet(local_task_queue[t]) /\ f \in ToSet(local_task_queue[u]) => t = u
===============================================================================
