--------------------------- MODULE ThreadPoolProofs ---------------------------
(***************************************************************************)
(* Theorems about ThreadPool, for every finite set of threads and every    *)
(* set of tasks and callers: its type invariant, its safety invariants,    *)
(* and that it implements TaskPool: what the queues and threads do to a    *)
(* task is a step of TaskPool or none.                                     *)
(***************************************************************************)
EXTENDS ThreadPool, QueueLemmas, FiniteSetTheorems, TLAPS

-------------------------------------------------------------------------------
(* What the steps that pop a queue do, said without Head and Tail. *)

\* waiting_threads has lost its first element, h.
WaitingPop(h) ==
  /\ Len(waiting_threads) \in Nat \ {0}
  /\ h = waiting_threads[1]
  /\ waiting_threads' \in Seq(Threads)
  /\ Len(waiting_threads') = Len(waiting_threads) - 1
  /\ \A i \in 1 .. Len(waiting_threads') :
       waiting_threads'[i] = waiting_threads[i + 1]

\* addTask takes the first waiting thread.
LEMMA PickPops ==
  ASSUME TypeOK, NEW c \in Callers, Pick(c), waiting_threads # <<>>
  PROVE  \E h \in Threads :
           /\ cpc[c] = "pick" /\ cpc' = [cpc EXCEPT ![c] = "lockCond"]
           /\ ctarget' = [ctarget EXCEPT ![c] = h]
           /\ WaitingPop(h)
           /\ UNCHANGED <<threadVars, task_queue, m_nrunning_threads, ctask,
                          ownerVars, history>>
<1>1. waiting_threads \in Seq(Threads)
  BY DEF TypeOK
<1>2. waiting_threads' = Tail(waiting_threads)
  BY DEF Pick
<1>3. WaitingPop(Head(waiting_threads)) /\ Head(waiting_threads) \in Threads
  BY <1>1, <1>2, QueuePop DEF WaitingPop
<1> QED
  BY <1>3 DEF Pick, CMove

\* kill() takes the first waiting thread.
LEMMA DrainPops ==
  ASSUME TypeOK, Drain, waiting_threads # <<>>
  PROVE  \E h \in Threads :
           /\ opc = "drain" /\ opc' = "killPush"
           /\ otarget' = h
           /\ WaitingPop(h)
           /\ UNCHANGED <<threadVars, task_queue, m_nrunning_threads,
                          callerVars, toFlag, inDtor, history>>
<1>1. waiting_threads \in Seq(Threads)
  BY DEF TypeOK
<1>2. waiting_threads' = Tail(waiting_threads)
  BY DEF Drain
<1>3. WaitingPop(Head(waiting_threads)) /\ Head(waiting_threads) \in Threads
  BY <1>1, <1>2, QueuePop DEF WaitingPop
<1> QED
  BY <1>3 DEF Drain, OMove

\* A thread takes the first task of its own queue.
LEMMA TakeLocalPops ==
  ASSUME TypeOK, NEW t \in Threads, TakeLocal(t), local_task_queue[t] # <<>>
  PROVE  \E f \in Tasks \cup {KillTask}, q \in Seq(Tasks \cup {KillTask}) :
           /\ pc[t] = "local" /\ pc' = [pc EXCEPT ![t] = "runLocal"]
           /\ task' = [task EXCEPT ![t] = f]
           /\ local_task_queue' = [local_task_queue EXCEPT ![t] = q]
           /\ Len(q) = Len(local_task_queue[t]) - 1
           /\ UNCHANGED <<m_running, condOwner, poolVars, callerVars, ownerVars,
                          history>>
<1> DEFINE S == Tasks \cup {KillTask}
<1>1. local_task_queue[t] \in Seq(S)
  BY DEF TypeOK
<1> HIDE DEF S
<1>2. /\ Head(local_task_queue[t]) \in S
      /\ Tail(local_task_queue[t]) \in Seq(S)
      /\ Len(Tail(local_task_queue[t])) = Len(local_task_queue[t]) - 1
  BY <1>1, QueuePop
<1> QED
  BY <1>2 DEF TakeLocal, Move, S

\* A thread takes the first task of the global queue.
LEMMA TakeGlobalPops ==
  ASSUME TypeOK, NEW t \in Threads, TakeGlobal(t), task_queue # <<>>
  PROVE  \E f \in Tasks :
           /\ pc[t] = "global" /\ pc' = [pc EXCEPT ![t] = "runGlobal"]
           /\ task' = [task EXCEPT ![t] = f]
           /\ task_queue' \in Seq(Tasks)
           /\ UNCHANGED <<m_running, local_task_queue, condOwner,
                          waiting_threads, m_nrunning_threads, callerVars,
                          ownerVars, history>>
<1>1. Head(task_queue) \in Tasks /\ Tail(task_queue) \in Seq(Tasks)
  BY QueuePop DEF TypeOK
<1> QED
  BY <1>1 DEF TakeGlobal, Move

-------------------------------------------------------------------------------
(* The parts of the inductive invariant, one step per action. *)

\* Every step keeps LocalInv.
LEMMA LocalStep ==
  ASSUME TypeOK, LocalInv, [Next]_vars
  PROVE  LocalInv'
<1> USE ThreadPoolAssumption
<1> USE DEF TypeOK, LocalInv, vars, threadVars, poolVars, callerVars, ownerVars, history
<1>1. ASSUME NEW t \in Threads, Started(t) PROVE LocalInv'
  BY <1>1 DEF Started, Move
<1>2. ASSUME NEW t \in Threads, CheckRunning(t, "loop", "local") PROVE LocalInv'
  BY <1>2 DEF CheckRunning, Move
<1>3. ASSUME NEW t \in Threads, TakeLocal(t) PROVE LocalInv'
  BY <1>3 DEF TakeLocal, Move
<1>4. ASSUME NEW t \in Threads, RunTask(t, "runLocal", "local") PROVE LocalInv'
  BY <1>4 DEF RunTask, Move
<1>5. ASSUME NEW t \in Threads, CheckRunning(t, "check1", "global") PROVE LocalInv'
  BY <1>5 DEF CheckRunning, Move
<1>6. ASSUME NEW t \in Threads, TakeGlobal(t) PROVE LocalInv'
  BY <1>6 DEF TakeGlobal, Move
<1>7. ASSUME NEW t \in Threads, RunTask(t, "runGlobal", "global") PROVE LocalInv'
  BY <1>7 DEF RunTask, Move
<1>8. ASSUME NEW t \in Threads, CheckRunning(t, "check2", "enqueue") PROVE LocalInv'
  BY <1>8 DEF CheckRunning, Move
<1>9. ASSUME NEW t \in Threads, Enqueue(t) PROVE LocalInv'
  BY <1>9 DEF Enqueue, Move
<1>10. ASSUME NEW t \in Threads, LockCond(t, "waitLock") PROVE LocalInv'
  BY <1>10 DEF LockCond, Move
<1>11. ASSUME NEW t \in Threads, CheckState(t) PROVE LocalInv'
  BY <1>11 DEF CheckState, Move
<1>12. ASSUME NEW t \in Threads, Sleep(t) PROVE LocalInv'
  BY <1>12 DEF Sleep, Move
<1>13. ASSUME NEW t \in Threads, LockCond(t, "relock") PROVE LocalInv'
  BY <1>13 DEF LockCond, Move
<1>14. ASSUME NEW t \in Threads, LeaveWait(t) PROVE LocalInv'
  BY <1>14 DEF LeaveWait, Move
<1>15. ASSUME NEW t \in Threads, Stop(t) PROVE LocalInv'
  BY <1>15 DEF Stop, Move
<1>16. ASSUME NEW t \in Threads, SpuriousWakeup(t) PROVE LocalInv'
  BY <1>16 DEF SpuriousWakeup, Move
<1>17. ASSUME NEW c \in Callers, Pick(c) PROVE LocalInv'
  <2>1. CASE waiting_threads # <<>>
    <3>1. PICK h \in Threads :
            /\ cpc[c] = "pick" /\ cpc' = [cpc EXCEPT ![c] = "lockCond"]
            /\ ctarget' = [ctarget EXCEPT ![c] = h]
            /\ WaitingPop(h)
            /\ UNCHANGED <<threadVars, task_queue, m_nrunning_threads, ctask,
                           ownerVars, history>>
      BY <1>17, <2>1, PickPops
    <3> QED
      BY <3>1
  <2>2. CASE waiting_threads = <<>>
    BY <1>17, <2>2, ZenonT(60) DEF Pick, CMove
  <2> QED
    BY <2>1, <2>2
<1>18. ASSUME NEW c \in Callers, CallerLock(c) PROVE LocalInv'
  BY <1>18 DEF CallerLock, CMove
<1>19. ASSUME NEW c \in Callers, PushLocal(c) PROVE LocalInv'
  BY <1>19 DEF PushLocal, CMove
<1>20. ASSUME NEW c \in Callers, Kick(c) PROVE LocalInv'
  BY <1>20 DEF Kick, Signal, CMove
<1>21. ASSUME NEW c \in Callers, CallerUnlock(c) PROVE LocalInv'
  BY <1>21 DEF CallerUnlock, CMove
<1>22. ASSUME NEW c \in Callers, PushGlobal(c) PROVE LocalInv'
  BY <1>22 DEF PushGlobal, CMove
<1>23. ASSUME NEW c \in Callers, NEW f \in Tasks, Call(c, f) PROVE LocalInv'
  BY <1>23 DEF Call, CMove
<1>24. ASSUME NEW t \in Threads, Create(t) PROVE LocalInv'
  BY <1>24 DEF Create, Move
<1>25. ASSUME NEW t \in Threads, Flag(t) PROVE LocalInv'
  BY <1>25 DEF Flag
<1>26. CASE RunReturns
  BY <1>26 DEF RunReturns, OMove
<1>27. CASE AllFlagged
  BY <1>27 DEF AllFlagged, OMove
<1>28. CASE Drain
  <2>1. CASE waiting_threads # <<>>
    <3>1. PICK h \in Threads :
            /\ opc = "drain" /\ opc' = "killPush"
            /\ otarget' = h
            /\ WaitingPop(h)
            /\ UNCHANGED <<threadVars, task_queue, m_nrunning_threads,
                           callerVars, toFlag, inDtor, history>>
      BY <1>28, <2>1, DrainPops
    <3> QED
      BY <3>1
  <2>2. CASE waiting_threads = <<>>
    BY <1>28, <2>2 DEF Drain, OMove
  <2> QED
    BY <2>1, <2>2
<1>29. CASE KillPush
  BY <1>29 DEF KillPush, OMove
<1>30. CASE KillKick
  BY <1>30 DEF KillKick, Signal, OMove
<1>31. CASE JoinReturns
  BY <1>31 DEF JoinReturns, OMove
<1>32. CASE DtorCheck
  BY <1>32 DEF DtorCheck, OMove
<1>33. CASE CallKill
  BY <1>33 DEF CallKill, OMove
<1>34. CASE CallJoin
  BY <1>34 DEF CallJoin, OMove
<1>35. CASE CallDtor
  BY <1>35 DEF CallDtor
<1>36. CASE UNCHANGED vars
  BY <1>36 DEF vars
<1> QED
  BY <1>1, <1>2, <1>3, <1>4, <1>5, <1>6, <1>7, <1>8, <1>9, <1>10, <1>11, <1>12, <1>13, <1>14,
     <1>15, <1>16, <1>17, <1>18, <1>19, <1>20, <1>21, <1>22, <1>23, <1>24, <1>25, <1>26, <1>27, <1>28,
     <1>29, <1>30, <1>31, <1>32, <1>33, <1>34, <1>35, <1>36
     DEF Next, Worker, Caller, Owner, Application

\* Every step keeps the types, given that the count of threads is right.
LEMMA TypeStep ==
  ASSUME TypeOK, LocalInv, CountInv, [Next]_vars
  PROVE  TypeOK'
<1> USE ThreadPoolAssumption
<1> USE DEF TypeOK, LocalInv, vars, threadVars, poolVars, callerVars, ownerVars, history, WorkerPlaces, Counted, CallerPlaces, OwnerPlaces
<1>1. ASSUME NEW t \in Threads, Started(t) PROVE TypeOK'
  BY <1>1 DEF Started, Move
<1>2. ASSUME NEW t \in Threads, CheckRunning(t, "loop", "local") PROVE TypeOK'
  BY <1>2 DEF CheckRunning, Move
<1>3. ASSUME NEW t \in Threads, TakeLocal(t) PROVE TypeOK'
  <2>1. CASE local_task_queue[t] # <<>>
    <3>1. PICK f \in Tasks \cup {KillTask}, q \in Seq(Tasks \cup {KillTask}) :
            /\ pc[t] = "local" /\ pc' = [pc EXCEPT ![t] = "runLocal"]
            /\ task' = [task EXCEPT ![t] = f]
            /\ local_task_queue' = [local_task_queue EXCEPT ![t] = q]
            /\ Len(q) = Len(local_task_queue[t]) - 1
            /\ UNCHANGED <<m_running, condOwner, poolVars, callerVars, ownerVars,
                           history>>
      BY <1>3, <2>1, TakeLocalPops
    <3> QED
      BY <3>1
  <2>2. CASE local_task_queue[t] = <<>>
    BY <1>3, <2>2 DEF TakeLocal, Move
  <2> QED
    BY <2>1, <2>2
<1>4. ASSUME NEW t \in Threads, RunTask(t, "runLocal", "local") PROVE TypeOK'
  <2>1. task[t] # KillTask => task[t] \in Tasks
    BY <1>4 DEF RunTask, Move
  <2>2. finished' \in SUBSET Tasks /\ m_running' \in [Threads -> BOOLEAN]
    BY <1>4, <2>1 DEF RunTask
  <2> QED
    BY <1>4, <2>2 DEF RunTask, Move
<1>5. ASSUME NEW t \in Threads, CheckRunning(t, "check1", "global") PROVE TypeOK'
  BY <1>5 DEF CheckRunning, Move
<1>6. ASSUME NEW t \in Threads, TakeGlobal(t) PROVE TypeOK'
  <2>1. CASE task_queue # <<>>
    <3>1. PICK f \in Tasks :
            /\ pc[t] = "global" /\ pc' = [pc EXCEPT ![t] = "runGlobal"]
            /\ task' = [task EXCEPT ![t] = f]
            /\ task_queue' \in Seq(Tasks)
            /\ UNCHANGED <<m_running, local_task_queue, condOwner,
                           waiting_threads, m_nrunning_threads, callerVars,
                           ownerVars, history>>
      BY <1>6, <2>1, TakeGlobalPops
    <3> QED
      BY <3>1
  <2>2. CASE task_queue = <<>>
    BY <1>6, <2>2 DEF TakeGlobal, Move
  <2> QED
    BY <2>1, <2>2
<1>7. ASSUME NEW t \in Threads, RunTask(t, "runGlobal", "global") PROVE TypeOK'
  <2>1. task[t] # KillTask => task[t] \in Tasks
    BY <1>7 DEF RunTask, Move
  <2>2. finished' \in SUBSET Tasks /\ m_running' \in [Threads -> BOOLEAN]
    BY <1>7, <2>1 DEF RunTask
  <2> QED
    BY <1>7, <2>2 DEF RunTask, Move
<1>8. ASSUME NEW t \in Threads, CheckRunning(t, "check2", "enqueue") PROVE TypeOK'
  BY <1>8 DEF CheckRunning, Move
<1>9. ASSUME NEW t \in Threads, Enqueue(t) PROVE TypeOK'
  BY <1>9 DEF Enqueue, Move
<1>10. ASSUME NEW t \in Threads, LockCond(t, "waitLock") PROVE TypeOK'
  BY <1>10 DEF LockCond, Move
<1>11. ASSUME NEW t \in Threads, CheckState(t) PROVE TypeOK'
  BY <1>11 DEF CheckState, Move
<1>12. ASSUME NEW t \in Threads, Sleep(t) PROVE TypeOK'
  BY <1>12 DEF Sleep, Move
<1>13. ASSUME NEW t \in Threads, LockCond(t, "relock") PROVE TypeOK'
  BY <1>13 DEF LockCond, Move
<1>14. ASSUME NEW t \in Threads, LeaveWait(t) PROVE TypeOK'
  BY <1>14 DEF LeaveWait, Move
<1>15. ASSUME NEW t \in Threads, Stop(t) PROVE TypeOK'
  <2>1. m_nrunning_threads - 1 \in Nat
    <3> DEFINE N == {u \in Threads : pc[u] \in Counted}
    <3>1. IsFiniteSet(N) /\ t \in N
      BY <1>15, FS_Subset DEF Stop, Move
    <3>2. Cardinality(N) \in Nat /\ Cardinality(N) # 0
      BY <3>1, FS_CardinalityType, FS_EmptySet
    <3> QED
      BY <3>2 DEF CountInv
  <2> QED
    BY <1>15, <2>1 DEF Stop, Move
<1>16. ASSUME NEW t \in Threads, SpuriousWakeup(t) PROVE TypeOK'
  BY <1>16 DEF SpuriousWakeup, Move
<1>17. ASSUME NEW c \in Callers, Pick(c) PROVE TypeOK'
  <2>1. CASE waiting_threads # <<>>
    <3>1. PICK h \in Threads :
            /\ cpc[c] = "pick" /\ cpc' = [cpc EXCEPT ![c] = "lockCond"]
            /\ ctarget' = [ctarget EXCEPT ![c] = h]
            /\ WaitingPop(h)
            /\ UNCHANGED <<threadVars, task_queue, m_nrunning_threads, ctask,
                           ownerVars, history>>
      BY <1>17, <2>1, PickPops
    <3> QED
      BY <3>1 DEF WaitingPop
  <2>2. CASE waiting_threads = <<>>
    BY <1>17, <2>2 DEF Pick, CMove
  <2> QED
    BY <2>1, <2>2
<1>18. ASSUME NEW c \in Callers, CallerLock(c) PROVE TypeOK'
  BY <1>18 DEF CallerLock, CMove
<1>19. ASSUME NEW c \in Callers, PushLocal(c) PROVE TypeOK'
  BY <1>19 DEF PushLocal, CMove
<1>20. ASSUME NEW c \in Callers, Kick(c) PROVE TypeOK'
  BY <1>20 DEF Kick, Signal, CMove
<1>21. ASSUME NEW c \in Callers, CallerUnlock(c) PROVE TypeOK'
  BY <1>21 DEF CallerUnlock, CMove
<1>22. ASSUME NEW c \in Callers, PushGlobal(c) PROVE TypeOK'
  BY <1>22 DEF PushGlobal, CMove
<1>23. ASSUME NEW c \in Callers, NEW f \in Tasks, Call(c, f) PROVE TypeOK'
  BY <1>23 DEF Call, CMove
<1>24. ASSUME NEW t \in Threads, Create(t) PROVE TypeOK'
  BY <1>24 DEF Create, Move
<1>25. ASSUME NEW t \in Threads, Flag(t) PROVE TypeOK'
  BY <1>25 DEF Flag
<1>26. CASE RunReturns
  BY <1>26 DEF RunReturns, OMove
<1>27. CASE AllFlagged
  BY <1>27 DEF AllFlagged, OMove
<1>28. CASE Drain
  <2>1. CASE waiting_threads # <<>>
    <3>1. PICK h \in Threads :
            /\ opc = "drain" /\ opc' = "killPush"
            /\ otarget' = h
            /\ WaitingPop(h)
            /\ UNCHANGED <<threadVars, task_queue, m_nrunning_threads,
                           callerVars, toFlag, inDtor, history>>
      BY <1>28, <2>1, DrainPops
    <3> QED
      BY <3>1 DEF WaitingPop
  <2>2. CASE waiting_threads = <<>>
    BY <1>28, <2>2 DEF Drain, OMove
  <2> QED
    BY <2>1, <2>2
<1>29. CASE KillPush
  BY <1>29 DEF KillPush, OMove
<1>30. CASE KillKick
  BY <1>30 DEF KillKick, Signal, OMove
<1>31. CASE JoinReturns
  BY <1>31 DEF JoinReturns, OMove
<1>32. CASE DtorCheck
  BY <1>32 DEF DtorCheck, OMove
<1>33. CASE CallKill
  BY <1>33 DEF CallKill, OMove
<1>34. CASE CallJoin
  BY <1>34 DEF CallJoin, OMove
<1>35. CASE CallDtor
  BY <1>35 DEF CallDtor
<1>36. CASE UNCHANGED vars
  BY <1>36 DEF vars
<1> QED
  BY <1>1, <1>2, <1>3, <1>4, <1>5, <1>6, <1>7, <1>8, <1>9, <1>10, <1>11, <1>12, <1>13, <1>14,
     <1>15, <1>16, <1>17, <1>18, <1>19, <1>20, <1>21, <1>22, <1>23, <1>24, <1>25, <1>26, <1>27, <1>28,
     <1>29, <1>30, <1>31, <1>32, <1>33, <1>34, <1>35, <1>36
     DEF Next, Worker, Caller, Owner, Application

\* Every step keeps MutexInv.
LEMMA MutexStep ==
  ASSUME TypeOK, LocalInv, MutexInv, [Next]_vars
  PROVE  MutexInv'
<1> USE ThreadPoolAssumption
<1> USE DEF TypeOK, LocalInv, MutexInv, HoldsCond, CallerHolds, vars, threadVars, poolVars, callerVars, ownerVars, history
<1>1. ASSUME NEW t \in Threads, Started(t) PROVE MutexInv'
  BY <1>1 DEF Started, Move
<1>2. ASSUME NEW t \in Threads, CheckRunning(t, "loop", "local") PROVE MutexInv'
  BY <1>2 DEF CheckRunning, Move
<1>3. ASSUME NEW t \in Threads, TakeLocal(t) PROVE MutexInv'
  <2>1. CASE local_task_queue[t] # <<>>
    <3>1. PICK f \in Tasks \cup {KillTask}, q \in Seq(Tasks \cup {KillTask}) :
            /\ pc[t] = "local" /\ pc' = [pc EXCEPT ![t] = "runLocal"]
            /\ task' = [task EXCEPT ![t] = f]
            /\ local_task_queue' = [local_task_queue EXCEPT ![t] = q]
            /\ Len(q) = Len(local_task_queue[t]) - 1
            /\ UNCHANGED <<m_running, condOwner, poolVars, callerVars, ownerVars,
                           history>>
      BY <1>3, <2>1, TakeLocalPops
    <3> QED
      BY <3>1
  <2>2. CASE local_task_queue[t] = <<>>
    BY <1>3, <2>2 DEF TakeLocal, Move
  <2> QED
    BY <2>1, <2>2
<1>4. ASSUME NEW t \in Threads, RunTask(t, "runLocal", "local") PROVE MutexInv'
  BY <1>4 DEF RunTask, Move
<1>5. ASSUME NEW t \in Threads, CheckRunning(t, "check1", "global") PROVE MutexInv'
  BY <1>5 DEF CheckRunning, Move
<1>6. ASSUME NEW t \in Threads, TakeGlobal(t) PROVE MutexInv'
  <2>1. CASE task_queue # <<>>
    <3>1. PICK f \in Tasks :
            /\ pc[t] = "global" /\ pc' = [pc EXCEPT ![t] = "runGlobal"]
            /\ task' = [task EXCEPT ![t] = f]
            /\ task_queue' \in Seq(Tasks)
            /\ UNCHANGED <<m_running, local_task_queue, condOwner,
                           waiting_threads, m_nrunning_threads, callerVars,
                           ownerVars, history>>
      BY <1>6, <2>1, TakeGlobalPops
    <3> QED
      BY <3>1
  <2>2. CASE task_queue = <<>>
    BY <1>6, <2>2 DEF TakeGlobal, Move
  <2> QED
    BY <2>1, <2>2
<1>7. ASSUME NEW t \in Threads, RunTask(t, "runGlobal", "global") PROVE MutexInv'
  BY <1>7 DEF RunTask, Move
<1>8. ASSUME NEW t \in Threads, CheckRunning(t, "check2", "enqueue") PROVE MutexInv'
  BY <1>8 DEF CheckRunning, Move
<1>9. ASSUME NEW t \in Threads, Enqueue(t) PROVE MutexInv'
  BY <1>9 DEF Enqueue, Move
<1>10. ASSUME NEW t \in Threads, LockCond(t, "waitLock") PROVE MutexInv'
  BY <1>10 DEF LockCond, Move
<1>11. ASSUME NEW t \in Threads, CheckState(t) PROVE MutexInv'
  BY <1>11 DEF CheckState, Move
<1>12. ASSUME NEW t \in Threads, Sleep(t) PROVE MutexInv'
  BY <1>12 DEF Sleep, Move
<1>13. ASSUME NEW t \in Threads, LockCond(t, "relock") PROVE MutexInv'
  BY <1>13 DEF LockCond, Move
<1>14. ASSUME NEW t \in Threads, LeaveWait(t) PROVE MutexInv'
  BY <1>14 DEF LeaveWait, Move
<1>15. ASSUME NEW t \in Threads, Stop(t) PROVE MutexInv'
  BY <1>15 DEF Stop, Move
<1>16. ASSUME NEW t \in Threads, SpuriousWakeup(t) PROVE MutexInv'
  BY <1>16 DEF SpuriousWakeup, Move
<1>17. ASSUME NEW c \in Callers, Pick(c) PROVE MutexInv'
  <2>1. CASE waiting_threads # <<>>
    <3>1. PICK h \in Threads :
            /\ cpc[c] = "pick" /\ cpc' = [cpc EXCEPT ![c] = "lockCond"]
            /\ ctarget' = [ctarget EXCEPT ![c] = h]
            /\ WaitingPop(h)
            /\ UNCHANGED <<threadVars, task_queue, m_nrunning_threads, ctask,
                           ownerVars, history>>
      BY <1>17, <2>1, PickPops
    <3> QED
      BY <3>1
  <2>2. CASE waiting_threads = <<>>
    BY <1>17, <2>2 DEF Pick, CMove
  <2> QED
    BY <2>1, <2>2
<1>18. ASSUME NEW c \in Callers, CallerLock(c) PROVE MutexInv'
  BY <1>18 DEF CallerLock, CMove
<1>19. ASSUME NEW c \in Callers, PushLocal(c) PROVE MutexInv'
  BY <1>19 DEF PushLocal, CMove
<1>20. ASSUME NEW c \in Callers, Kick(c) PROVE MutexInv'
  BY <1>20 DEF Kick, Signal, CMove
<1>21. ASSUME NEW c \in Callers, CallerUnlock(c) PROVE MutexInv'
  BY <1>21 DEF CallerUnlock, CMove
<1>22. ASSUME NEW c \in Callers, PushGlobal(c) PROVE MutexInv'
  BY <1>22 DEF PushGlobal, CMove
<1>23. ASSUME NEW c \in Callers, NEW f \in Tasks, Call(c, f) PROVE MutexInv'
  BY <1>23 DEF Call, CMove
<1>24. ASSUME NEW t \in Threads, Create(t) PROVE MutexInv'
  BY <1>24 DEF Create, Move
<1>25. ASSUME NEW t \in Threads, Flag(t) PROVE MutexInv'
  BY <1>25 DEF Flag
<1>26. CASE RunReturns
  BY <1>26 DEF RunReturns, OMove
<1>27. CASE AllFlagged
  BY <1>27 DEF AllFlagged, OMove
<1>28. CASE Drain
  <2>1. CASE waiting_threads # <<>>
    <3>1. PICK h \in Threads :
            /\ opc = "drain" /\ opc' = "killPush"
            /\ otarget' = h
            /\ WaitingPop(h)
            /\ UNCHANGED <<threadVars, task_queue, m_nrunning_threads,
                           callerVars, toFlag, inDtor, history>>
      BY <1>28, <2>1, DrainPops
    <3> QED
      BY <3>1
  <2>2. CASE waiting_threads = <<>>
    BY <1>28, <2>2 DEF Drain, OMove
  <2> QED
    BY <2>1, <2>2
<1>29. CASE KillPush
  BY <1>29 DEF KillPush, OMove
<1>30. CASE KillKick
  BY <1>30 DEF KillKick, Signal, OMove
<1>31. CASE JoinReturns
  BY <1>31 DEF JoinReturns, OMove
<1>32. CASE DtorCheck
  BY <1>32 DEF DtorCheck, OMove
<1>33. CASE CallKill
  BY <1>33 DEF CallKill, OMove
<1>34. CASE CallJoin
  BY <1>34 DEF CallJoin, OMove
<1>35. CASE CallDtor
  BY <1>35 DEF CallDtor
<1>36. CASE UNCHANGED vars
  BY <1>36 DEF vars
<1> QED
  BY <1>1, <1>2, <1>3, <1>4, <1>5, <1>6, <1>7, <1>8, <1>9, <1>10, <1>11, <1>12, <1>13, <1>14,
     <1>15, <1>16, <1>17, <1>18, <1>19, <1>20, <1>21, <1>22, <1>23, <1>24, <1>25, <1>26, <1>27, <1>28,
     <1>29, <1>30, <1>31, <1>32, <1>33, <1>34, <1>35, <1>36
     DEF Next, Worker, Caller, Owner, Application

\* Every step keeps WakeInv.
LEMMA WakeStep ==
  ASSUME TypeOK, LocalInv, MutexInv, WakeInv, [Next]_vars
  PROVE  WakeInv'
<1> USE ThreadPoolAssumption
<1> USE DEF WakeInv, vars, threadVars, poolVars, callerVars, ownerVars, history
<1>type. /\ pc \in [Threads -> WorkerPlaces]
         /\ cpc \in [Callers -> CallerPlaces]
         /\ ctarget \in [Callers -> Threads \cup {None}]
         /\ local_task_queue \in [Threads -> Seq(Tasks \cup {KillTask})]
  BY DEF TypeOK
<1>same. UNCHANGED local_task_queue => \A u \in Threads : HasTask(u)' <=> HasTask(u)
  BY DEF HasTask
<1>1. ASSUME NEW t \in Threads, Started(t) PROVE WakeInv'
  BY <1>1, <1>type, <1>same DEF Started, Move
<1>2. ASSUME NEW t \in Threads, CheckRunning(t, "loop", "local") PROVE WakeInv'
  BY <1>2, <1>type, <1>same DEF CheckRunning, Move
<1>3. ASSUME NEW t \in Threads, TakeLocal(t) PROVE WakeInv'
  <2>1. \A u \in Threads \ {t} : HasTask(u)' <=> HasTask(u)
    BY <1>3, <1>type DEF TakeLocal, HasTask
  <2>2. pc'[t] \notin {"sleep", "asleep"} /\ \A u \in Threads \ {t} : pc'[u] = pc[u]
    BY <1>3, <1>type DEF TakeLocal, Move
  <2> QED
    BY <1>3, <2>1, <2>2, <1>type DEF TakeLocal
<1>4. ASSUME NEW t \in Threads, RunTask(t, "runLocal", "local") PROVE WakeInv'
  BY <1>4, <1>type, <1>same DEF RunTask, Move
<1>5. ASSUME NEW t \in Threads, CheckRunning(t, "check1", "global") PROVE WakeInv'
  BY <1>5, <1>type, <1>same DEF CheckRunning, Move
<1>6. ASSUME NEW t \in Threads, TakeGlobal(t) PROVE WakeInv'
  <2>1. /\ pc'[t] \notin {"sleep", "asleep"} /\ \A u \in Threads \ {t} : pc'[u] = pc[u]
        /\ UNCHANGED local_task_queue
    BY <1>6, <1>type DEF TakeGlobal, Move
  <2> QED
    BY <1>6, <2>1, <1>type, <1>same DEF TakeGlobal
<1>7. ASSUME NEW t \in Threads, RunTask(t, "runGlobal", "global") PROVE WakeInv'
  BY <1>7, <1>type, <1>same DEF RunTask, Move
<1>8. ASSUME NEW t \in Threads, CheckRunning(t, "check2", "enqueue") PROVE WakeInv'
  BY <1>8, <1>type, <1>same DEF CheckRunning, Move
<1>9. ASSUME NEW t \in Threads, Enqueue(t) PROVE WakeInv'
  BY <1>9, <1>type, <1>same DEF Enqueue, Move
<1>10. ASSUME NEW t \in Threads, LockCond(t, "waitLock") PROVE WakeInv'
  BY <1>10, <1>type, <1>same DEF LockCond, Move
<1>11. ASSUME NEW t \in Threads, CheckState(t) PROVE WakeInv'
  <2>1. local_task_queue[t] = <<>> => ~HasTask(t)
    BY DEF HasTask
  <2> QED
    BY <1>11, <2>1, <1>type, <1>same DEF CheckState, Move
<1>12. ASSUME NEW t \in Threads, Sleep(t) PROVE WakeInv'
  BY <1>12, <1>type, <1>same DEF Sleep, Move
<1>13. ASSUME NEW t \in Threads, LockCond(t, "relock") PROVE WakeInv'
  BY <1>13, <1>type, <1>same DEF LockCond, Move
<1>14. ASSUME NEW t \in Threads, LeaveWait(t) PROVE WakeInv'
  BY <1>14, <1>type, <1>same DEF LeaveWait, Move
<1>15. ASSUME NEW t \in Threads, Stop(t) PROVE WakeInv'
  BY <1>15, <1>type, <1>same DEF Stop, Move
<1>16. ASSUME NEW t \in Threads, SpuriousWakeup(t) PROVE WakeInv'
  BY <1>16, <1>type, <1>same DEF SpuriousWakeup, Move
<1>17. ASSUME NEW c \in Callers, Pick(c) PROVE WakeInv'
  BY <1>17, <1>type, <1>same DEF Pick, CMove
<1>18. ASSUME NEW c \in Callers, CallerLock(c) PROVE WakeInv'
  BY <1>18, <1>type, <1>same DEF CallerLock, CMove
<1>19. ASSUME NEW c \in Callers, PushLocal(c) PROVE WakeInv'
  <2>1. ctarget[c] \in Threads /\ cpc'[c] = "kick" /\ ctarget'[c] = ctarget[c]
    BY <1>19, <1>type DEF PushLocal, CMove, LocalInv
  <2>2. \A u \in Threads \ {ctarget[c]} : HasTask(u)' <=> HasTask(u)
    BY <1>19, <1>type DEF PushLocal, HasTask
  <2> QED
    BY <1>19, <2>1, <2>2, <1>type DEF PushLocal, CMove
<1>20. ASSUME NEW c \in Callers, Kick(c) PROVE WakeInv'
  <2>1. ctarget[c] \in Threads /\ pc[ctarget[c]] # "sleep"
    BY <1>20, <1>type DEF Kick, CMove, LocalInv, MutexInv, HoldsCond, CallerHolds
  <2> QED
    BY <1>20, <2>1, <1>type, <1>same DEF Kick, Signal, CMove
<1>21. ASSUME NEW c \in Callers, CallerUnlock(c) PROVE WakeInv'
  BY <1>21, <1>type, <1>same DEF CallerUnlock, CMove
<1>22. ASSUME NEW c \in Callers, PushGlobal(c) PROVE WakeInv'
  BY <1>22, <1>type, <1>same DEF PushGlobal, CMove
<1>23. ASSUME NEW c \in Callers, NEW f \in Tasks, Call(c, f) PROVE WakeInv'
  BY <1>23, <1>type, <1>same DEF Call, CMove
<1>24. ASSUME NEW t \in Threads, Create(t) PROVE WakeInv'
  BY <1>24, <1>type, <1>same DEF Create, Move
<1>25. ASSUME NEW t \in Threads, Flag(t) PROVE WakeInv'
  BY <1>25, <1>type, <1>same DEF Flag
<1>26. CASE RunReturns
  BY <1>26, <1>type, <1>same DEF RunReturns, OMove
<1>27. CASE AllFlagged
  BY <1>27, <1>type, <1>same DEF AllFlagged, OMove
<1>28. CASE Drain
  BY <1>28, <1>type, <1>same DEF Drain, OMove
<1>29. CASE KillPush
  <2>1. otarget \in Threads
    BY <1>29 DEF KillPush, OMove, LocalInv, TypeOK
  <2>2. local_task_queue[otarget] \in Seq(Tasks \cup {KillTask})
    BY <2>1, <1>type
  <2>3. \A u \in Threads : HasTask(u)' => HasTask(u)
    BY <1>29, <2>1, <2>2, <1>type DEF KillPush, HasTask
  <2> QED
    BY <1>29, <2>3, <1>type DEF KillPush, OMove
<1>30. CASE KillKick
  <2>1. otarget \in Threads
    BY <1>30 DEF KillKick, OMove, LocalInv, TypeOK
  <2> QED
    BY <1>30, <2>1, <1>type, <1>same DEF KillKick, Signal, OMove
<1>31. CASE JoinReturns
  BY <1>31, <1>type, <1>same DEF JoinReturns, OMove
<1>32. CASE DtorCheck
  BY <1>32, <1>type, <1>same DEF DtorCheck, OMove
<1>33. CASE CallKill
  BY <1>33, <1>type, <1>same DEF CallKill, OMove
<1>34. CASE CallJoin
  BY <1>34, <1>type, <1>same DEF CallJoin, OMove
<1>35. CASE CallDtor
  BY <1>35, <1>type, <1>same DEF CallDtor
<1>36. CASE UNCHANGED vars
  BY <1>36 DEF vars, HasTask
<1> QED
  BY <1>1, <1>2, <1>3, <1>4, <1>5, <1>6, <1>7, <1>8, <1>9, <1>10, <1>11, <1>12, <1>13, <1>14,
     <1>15, <1>16, <1>17, <1>18, <1>19, <1>20, <1>21, <1>22, <1>23, <1>24, <1>25, <1>26, <1>27, <1>28,
     <1>29, <1>30, <1>31, <1>32, <1>33, <1>34, <1>35, <1>36
     DEF Next, Worker, Caller, Owner, Application

\* Every step keeps CountInv.
LEMMA CountStep ==
  ASSUME TypeOK, CountInv, [Next]_vars
  PROVE  CountInv'
<1> USE ThreadPoolAssumption
<1> USE DEF CountInv, Counted, vars, threadVars, poolVars, callerVars, ownerVars, history
<1>type. pc \in [Threads -> WorkerPlaces] /\ otarget \in Threads \cup {None}
  BY DEF TypeOK
<1> DEFINE N == {u \in Threads : pc[u] \in Counted}
<1>fin. IsFiniteSet(N) /\ Cardinality(N) \in Nat
  BY FS_Subset, FS_CardinalityType
<1>same. ASSUME \A u \in Threads : pc'[u] \in Counted <=> pc[u] \in Counted,
                UNCHANGED m_nrunning_threads
         PROVE  CountInv'
  <2>1. N' = N
    BY <1>same
  <2> QED
    BY <1>same, <2>1
<1>1. ASSUME NEW t \in Threads, Started(t) PROVE CountInv'
  <2>1. t \notin N /\ N' = N \cup {t}
    BY <1>1, <1>type DEF Started, Move
  <2>2. Cardinality(N \cup {t}) = Cardinality(N) + 1
    BY <2>1, <1>fin, FS_AddElement
  <2> QED
    BY <1>1, <2>1, <2>2 DEF Started
<1>2. ASSUME NEW t \in Threads, CheckRunning(t, "loop", "local") PROVE CountInv'
  BY <1>2, <1>type, <1>same DEF CheckRunning, Move
<1>3. ASSUME NEW t \in Threads, TakeLocal(t) PROVE CountInv'
  BY <1>3, <1>type, <1>same DEF TakeLocal, Move
<1>4. ASSUME NEW t \in Threads, RunTask(t, "runLocal", "local") PROVE CountInv'
  BY <1>4, <1>type, <1>same DEF RunTask, Move
<1>5. ASSUME NEW t \in Threads, CheckRunning(t, "check1", "global") PROVE CountInv'
  BY <1>5, <1>type, <1>same DEF CheckRunning, Move
<1>6. ASSUME NEW t \in Threads, TakeGlobal(t) PROVE CountInv'
  BY <1>6, <1>type, <1>same DEF TakeGlobal, Move
<1>7. ASSUME NEW t \in Threads, RunTask(t, "runGlobal", "global") PROVE CountInv'
  BY <1>7, <1>type, <1>same DEF RunTask, Move
<1>8. ASSUME NEW t \in Threads, CheckRunning(t, "check2", "enqueue") PROVE CountInv'
  BY <1>8, <1>type, <1>same DEF CheckRunning, Move
<1>9. ASSUME NEW t \in Threads, Enqueue(t) PROVE CountInv'
  BY <1>9, <1>type, <1>same DEF Enqueue, Move
<1>10. ASSUME NEW t \in Threads, LockCond(t, "waitLock") PROVE CountInv'
  BY <1>10, <1>type, <1>same DEF LockCond, Move
<1>11. ASSUME NEW t \in Threads, CheckState(t) PROVE CountInv'
  BY <1>11, <1>type, <1>same DEF CheckState, Move
<1>12. ASSUME NEW t \in Threads, Sleep(t) PROVE CountInv'
  BY <1>12, <1>type, <1>same DEF Sleep, Move
<1>13. ASSUME NEW t \in Threads, LockCond(t, "relock") PROVE CountInv'
  BY <1>13, <1>type, <1>same DEF LockCond, Move
<1>14. ASSUME NEW t \in Threads, LeaveWait(t) PROVE CountInv'
  BY <1>14, <1>type, <1>same DEF LeaveWait, Move
<1>15. ASSUME NEW t \in Threads, Stop(t) PROVE CountInv'
  <2>1. t \in N /\ N' = N \ {t}
    BY <1>15, <1>type DEF Stop, Move
  <2>2. Cardinality(N \ {t}) = Cardinality(N) - 1
    BY <2>1, <1>fin, FS_RemoveElement
  <2> QED
    BY <1>15, <2>1, <2>2 DEF Stop
<1>16. ASSUME NEW t \in Threads, SpuriousWakeup(t) PROVE CountInv'
  BY <1>16, <1>type, <1>same DEF SpuriousWakeup, Move
<1>17. ASSUME NEW c \in Callers, Pick(c) PROVE CountInv'
  BY <1>17, <1>type, <1>same DEF Pick, CMove
<1>18. ASSUME NEW c \in Callers, CallerLock(c) PROVE CountInv'
  BY <1>18, <1>type, <1>same DEF CallerLock, CMove
<1>19. ASSUME NEW c \in Callers, PushLocal(c) PROVE CountInv'
  BY <1>19, <1>type, <1>same DEF PushLocal, CMove
<1>20. ASSUME NEW c \in Callers, Kick(c) PROVE CountInv'
  BY <1>20, <1>type, <1>same DEF Kick, Signal, CMove
<1>21. ASSUME NEW c \in Callers, CallerUnlock(c) PROVE CountInv'
  BY <1>21, <1>type, <1>same DEF CallerUnlock, CMove
<1>22. ASSUME NEW c \in Callers, PushGlobal(c) PROVE CountInv'
  BY <1>22, <1>type, <1>same DEF PushGlobal, CMove
<1>23. ASSUME NEW c \in Callers, NEW f \in Tasks, Call(c, f) PROVE CountInv'
  BY <1>23, <1>type, <1>same DEF Call, CMove
<1>24. ASSUME NEW t \in Threads, Create(t) PROVE CountInv'
  BY <1>24, <1>type, <1>same DEF Create, Move
<1>25. ASSUME NEW t \in Threads, Flag(t) PROVE CountInv'
  BY <1>25, <1>type, <1>same DEF Flag
<1>26. CASE RunReturns
  BY <1>26, <1>type, <1>same DEF RunReturns, OMove
<1>27. CASE AllFlagged
  BY <1>27, <1>type, <1>same DEF AllFlagged, OMove
<1>28. CASE Drain
  BY <1>28, <1>type, <1>same DEF Drain, OMove
<1>29. CASE KillPush
  BY <1>29, <1>type, <1>same DEF KillPush, OMove
<1>30. CASE KillKick
  BY <1>30, <1>type, <1>same DEF KillKick, Signal, OMove
<1>31. CASE JoinReturns
  BY <1>31, <1>type, <1>same DEF JoinReturns, OMove
<1>32. CASE DtorCheck
  BY <1>32, <1>type, <1>same DEF DtorCheck, OMove
<1>33. CASE CallKill
  BY <1>33, <1>type, <1>same DEF CallKill, OMove
<1>34. CASE CallJoin
  BY <1>34, <1>type, <1>same DEF CallJoin, OMove
<1>35. CASE CallDtor
  BY <1>35, <1>type, <1>same DEF CallDtor
<1>36. CASE UNCHANGED vars
  BY <1>36 DEF vars
<1> QED
  BY <1>1, <1>2, <1>3, <1>4, <1>5, <1>6, <1>7, <1>8, <1>9, <1>10, <1>11, <1>12, <1>13, <1>14,
     <1>15, <1>16, <1>17, <1>18, <1>19, <1>20, <1>21, <1>22, <1>23, <1>24, <1>25, <1>26, <1>27, <1>28,
     <1>29, <1>30, <1>31, <1>32, <1>33, <1>34, <1>35, <1>36
     DEF Next, Worker, Caller, Owner, Application

\* Every step keeps OwnerInv.
LEMMA OwnerStep ==
  ASSUME TypeOK, CountInv, OwnerInv, [Next]_vars
  PROVE  OwnerInv'
<1> USE ThreadPoolAssumption
<1> USE DEF OwnerInv, DeletedOutsideRun, vars, threadVars, poolVars, callerVars, ownerVars, history
<1>type. pc \in [Threads -> WorkerPlaces] /\ otarget \in Threads \cup {None}
  BY DEF TypeOK
<1>1. ASSUME NEW t \in Threads, opc # "deleted", Started(t) PROVE OwnerInv'
  BY <1>1, <1>type DEF Started, Move
<1>2. ASSUME NEW t \in Threads, CheckRunning(t, "loop", "local") PROVE OwnerInv'
  BY <1>2, <1>type DEF CheckRunning, Move
<1>3. ASSUME NEW t \in Threads, TakeLocal(t) PROVE OwnerInv'
  BY <1>3, <1>type DEF TakeLocal, Move
<1>4. ASSUME NEW t \in Threads, RunTask(t, "runLocal", "local") PROVE OwnerInv'
  BY <1>4, <1>type DEF RunTask, Move
<1>5. ASSUME NEW t \in Threads, CheckRunning(t, "check1", "global") PROVE OwnerInv'
  BY <1>5, <1>type DEF CheckRunning, Move
<1>6. ASSUME NEW t \in Threads, TakeGlobal(t) PROVE OwnerInv'
  BY <1>6, <1>type DEF TakeGlobal, Move
<1>7. ASSUME NEW t \in Threads, RunTask(t, "runGlobal", "global") PROVE OwnerInv'
  BY <1>7, <1>type DEF RunTask, Move
<1>8. ASSUME NEW t \in Threads, CheckRunning(t, "check2", "enqueue") PROVE OwnerInv'
  BY <1>8, <1>type DEF CheckRunning, Move
<1>9. ASSUME NEW t \in Threads, Enqueue(t) PROVE OwnerInv'
  BY <1>9, <1>type DEF Enqueue, Move
<1>10. ASSUME NEW t \in Threads, LockCond(t, "waitLock") PROVE OwnerInv'
  BY <1>10, <1>type DEF LockCond, Move
<1>11. ASSUME NEW t \in Threads, CheckState(t) PROVE OwnerInv'
  BY <1>11, <1>type DEF CheckState, Move
<1>12. ASSUME NEW t \in Threads, Sleep(t) PROVE OwnerInv'
  BY <1>12, <1>type DEF Sleep, Move
<1>13. ASSUME NEW t \in Threads, LockCond(t, "relock") PROVE OwnerInv'
  BY <1>13, <1>type DEF LockCond, Move
<1>14. ASSUME NEW t \in Threads, LeaveWait(t) PROVE OwnerInv'
  BY <1>14, <1>type DEF LeaveWait, Move
<1>15. ASSUME NEW t \in Threads, Stop(t) PROVE OwnerInv'
  BY <1>15, <1>type DEF Stop, Move
<1>16. ASSUME NEW t \in Threads, SpuriousWakeup(t) PROVE OwnerInv'
  BY <1>16, <1>type DEF SpuriousWakeup, Move
<1>17. ASSUME NEW c \in Callers, Pick(c) PROVE OwnerInv'
  BY <1>17, <1>type DEF Pick, CMove
<1>18. ASSUME NEW c \in Callers, CallerLock(c) PROVE OwnerInv'
  BY <1>18, <1>type DEF CallerLock, CMove
<1>19. ASSUME NEW c \in Callers, PushLocal(c) PROVE OwnerInv'
  BY <1>19, <1>type DEF PushLocal, CMove
<1>20. ASSUME NEW c \in Callers, Kick(c) PROVE OwnerInv'
  BY <1>20, <1>type DEF Kick, Signal, CMove
<1>21. ASSUME NEW c \in Callers, CallerUnlock(c) PROVE OwnerInv'
  BY <1>21, <1>type DEF CallerUnlock, CMove
<1>22. ASSUME NEW c \in Callers, PushGlobal(c) PROVE OwnerInv'
  BY <1>22, <1>type DEF PushGlobal, CMove
<1>23. ASSUME NEW c \in Callers, NEW f \in Tasks, Call(c, f) PROVE OwnerInv'
  BY <1>23, <1>type DEF Call, CMove
<1>24. ASSUME NEW t \in Threads, Create(t) PROVE OwnerInv'
  BY <1>24, <1>type DEF Create, Move
<1>25. ASSUME NEW t \in Threads, Flag(t) PROVE OwnerInv'
  BY <1>25, <1>type DEF Flag
<1>26. CASE RunReturns
  BY <1>26, <1>type DEF RunReturns, OMove
<1>27. CASE AllFlagged
  BY <1>27, <1>type DEF AllFlagged, OMove
<1>28. CASE Drain
  BY <1>28, <1>type DEF Drain, OMove
<1>29. CASE KillPush
  BY <1>29, <1>type DEF KillPush, OMove
<1>30. CASE KillKick
  BY <1>30, <1>type DEF KillKick, Signal, OMove
<1>31. CASE JoinReturns
  BY <1>31, <1>type DEF JoinReturns, OMove
<1>32. CASE DtorCheck
  <2>1. CASE m_nrunning_threads > 0
    BY <1>32, <2>1, <1>type DEF DtorCheck, OMove
  <2>2. CASE m_nrunning_threads = 0
    <3> DEFINE N == {u \in Threads : pc[u] \in Counted}
    <3>1. IsFiniteSet(N)
      BY FS_Subset
    <3>2. N = {}
      BY <2>2, <3>1, FS_EmptySet DEF CountInv
    <3>3. inDtor /\ UNCHANGED pc
      BY <1>32 DEF DtorCheck, OMove
    <3>4. \A u \in Threads : pc[u] \in {"init", "done"}
      BY <3>2, <3>3, <1>32, <1>type DEF DtorCheck, OMove, WorkerPlaces, Counted
    <3> QED
      BY <1>32, <3>3, <3>4 DEF DtorCheck, OMove
  <2> QED
    BY <1>32, <2>1, <2>2 DEF DtorCheck
<1>33. CASE CallKill
  BY <1>33, <1>type DEF CallKill, OMove
<1>34. CASE CallJoin
  BY <1>34, <1>type DEF CallJoin, OMove
<1>35. CASE CallDtor
  BY <1>35, <1>type DEF CallDtor
<1>36. CASE UNCHANGED vars
  BY <1>36 DEF vars
<1> QED
  BY <1>1, <1>2, <1>3, <1>4, <1>5, <1>6, <1>7, <1>8, <1>9, <1>10, <1>11, <1>12, <1>13, <1>14,
     <1>15, <1>16, <1>17, <1>18, <1>19, <1>20, <1>21, <1>22, <1>23, <1>24, <1>25, <1>26, <1>27, <1>28,
     <1>29, <1>30, <1>31, <1>32, <1>33, <1>34, <1>35, <1>36
     DEF Next, Worker, Caller, Owner, Application

\* waiting_threads loses its head: the others are as idle as they were.
LEMMA WaitingAfterPop ==
  ASSUME TypeOK, WaitingOnce, WaitingIdle, NEW h \in Threads, WaitingPop(h),
         \A u \in Threads \ {h} : Idle(u) => Idle(u)'
  PROVE  WaitingOnce' /\ WaitingIdle' /\ Idle(h)
<1>1. /\ DOMAIN waiting_threads = 1 .. Len(waiting_threads)
      /\ \A i \in 1 .. Len(waiting_threads) : waiting_threads[i] \in Threads
  BY DEF TypeOK
<1>2. DOMAIN waiting_threads' = 1 .. Len(waiting_threads') /\ Len(waiting_threads') \in Nat
  BY DEF WaitingPop
<1>3. \A i \in DOMAIN waiting_threads' :
        /\ i \in Nat
        /\ i + 1 \in DOMAIN waiting_threads
        /\ i + 1 # 1
        /\ waiting_threads'[i] = waiting_threads[i + 1]
  BY <1>1, <1>2 DEF WaitingPop
<1>4. 1 \in DOMAIN waiting_threads /\ waiting_threads[1] = h
  BY <1>1 DEF WaitingPop
<1>5. \A i \in DOMAIN waiting_threads' :
        /\ Idle(waiting_threads'[i])
        /\ waiting_threads'[i] \in Threads \ {h}
  BY <1>1, <1>3, <1>4 DEF WaitingOnce, WaitingIdle
<1>6. WaitingIdle'
  BY <1>5 DEF WaitingIdle
<1>7. ASSUME NEW i \in DOMAIN waiting_threads', NEW j \in DOMAIN waiting_threads',
             waiting_threads'[i] = waiting_threads'[j]
      PROVE  i = j
  <2>1. i + 1 = j + 1
    BY <1>3, <1>7 DEF WaitingOnce
  <2> QED
    BY <2>1, <1>3
<1> QED
  BY <1>4, <1>6, <1>7 DEF WaitingOnce, WaitingIdle

\* addTask claims the thread it takes out of waiting_threads.
LEMMA HandOffPick ==
  ASSUME TypeOK, HandOffInv, NEW c \in Callers, Pick(c), waiting_threads # <<>>
  PROVE  HandOffInv'
<1>1. PICK h \in Threads :
        /\ cpc[c] = "pick" /\ cpc' = [cpc EXCEPT ![c] = "lockCond"]
        /\ ctarget' = [ctarget EXCEPT ![c] = h]
        /\ WaitingPop(h)
        /\ UNCHANGED <<threadVars, task_queue, m_nrunning_threads, ctask,
                       ownerVars, history>>
  BY PickPops
<1>2. UNCHANGED <<pc, local_task_queue, opc, otarget>>
  BY <1>1 DEF threadVars, ownerVars
<1>3. /\ cpc \in [Callers -> CallerPlaces]
      /\ ctarget \in [Callers -> Threads \cup {None}]
  BY DEF TypeOK
<1>4. \A u \in Threads \ {h} : Claimed(u)' <=> Claimed(u)
  BY <1>1, <1>2, <1>3 DEF Claimed
<1>5. WaitingOnce' /\ WaitingIdle' /\ Idle(h)
  BY <1>1, <1>2, <1>4, WaitingAfterPop DEF Idle, HandOffInv, ExclusiveHandOff
<1>6. ClaimedOnce'
  BY <1>1, <1>2, <1>3, <1>5 DEF ClaimedOnce, HandOffInv, ExclusiveHandOff, Idle, Claimed
<1> QED
  BY <1>2, <1>4, <1>5, <1>6 DEF HandOffInv, ExclusiveHandOff, Idle

\* kill() claims the thread it takes out of waiting_threads.
LEMMA HandOffDrain ==
  ASSUME TypeOK, HandOffInv, Drain, waiting_threads # <<>>
  PROVE  HandOffInv'
<1>1. PICK h \in Threads :
        /\ opc = "drain" /\ opc' = "killPush"
        /\ otarget' = h
        /\ WaitingPop(h)
        /\ UNCHANGED <<threadVars, task_queue, m_nrunning_threads, callerVars,
                       toFlag, inDtor, history>>
  BY DrainPops
<1>2. UNCHANGED <<pc, local_task_queue, cpc, ctarget>>
  BY <1>1 DEF threadVars, callerVars
<1>4. \A u \in Threads \ {h} : Claimed(u)' <=> Claimed(u)
  BY <1>1, <1>2 DEF Claimed
<1>5. WaitingOnce' /\ WaitingIdle' /\ Idle(h)
  BY <1>1, <1>2, <1>4, WaitingAfterPop DEF Idle, HandOffInv, ExclusiveHandOff
<1>6. ClaimedOnce'
  BY <1>1, <1>2, <1>5 DEF ClaimedOnce, HandOffInv, ExclusiveHandOff, Idle, Claimed
<1> QED
  BY <1>2, <1>4, <1>5, <1>6 DEF HandOffInv, ExclusiveHandOff, Idle

\* A thread that enqueues itself was not in waiting_threads and is idle.
LEMMA HandOffEnqueue ==
  ASSUME TypeOK, HandOffInv, NEW t \in Threads, Enqueue(t)
  PROVE  HandOffInv'
<1>1. /\ pc[t] = "enqueue" /\ pc' = [pc EXCEPT ![t] = "waitLock"]
      /\ waiting_threads' = Append(waiting_threads, t)
      /\ UNCHANGED <<local_task_queue, cpc, ctarget, opc, otarget>>
  BY DEF Enqueue, Move, callerVars, ownerVars
<1>2. pc \in [Threads -> WorkerPlaces]
  BY DEF TypeOK
<1>3. /\ DOMAIN waiting_threads = 1 .. Len(waiting_threads)
      /\ Len(waiting_threads) \in Nat
      /\ DOMAIN waiting_threads' = 1 .. (Len(waiting_threads) + 1)
      /\ waiting_threads'[Len(waiting_threads) + 1] = t
      /\ \A i \in 1 .. Len(waiting_threads) :
           /\ waiting_threads'[i] = waiting_threads[i]
           /\ waiting_threads[i] \in Threads
  BY <1>1 DEF TypeOK
<1>4. \A u \in Threads : Claimed(u)' <=> Claimed(u)
  BY <1>1 DEF Claimed
<1>5. pc[t] \notin InWait \cup {"loop", "local", "exit", "done"}
  BY <1>1 DEF InWait
<1>6. local_task_queue[t] = <<>> /\ ~Claimed(t) /\ ~Idle(t)
  BY <1>5 DEF HandOffInv, Idle
<1>7. Idle(t)'
  BY <1>1, <1>2, <1>4, <1>6 DEF Idle, InWait
<1>8. \A i \in 1 .. Len(waiting_threads) : waiting_threads[i] # t
  BY <1>3, <1>6 DEF HandOffInv, ExclusiveHandOff, WaitingIdle
<1>9. WaitingOnce'
  BY <1>3, <1>8 DEF HandOffInv, ExclusiveHandOff, WaitingOnce
<1>10. \A u \in Threads \ {t} : Idle(u) => Idle(u)'
  BY <1>1, <1>2, <1>4 DEF Idle
<1>11. \A i \in DOMAIN waiting_threads' :
         \/ waiting_threads'[i] = t
         \/ i \in DOMAIN waiting_threads /\ waiting_threads'[i] = waiting_threads[i]
  BY <1>3
<1>12. WaitingIdle'
  BY <1>3, <1>7, <1>8, <1>10, <1>11 DEF HandOffInv, ExclusiveHandOff, WaitingIdle
<1>13. ClaimedOnce'
  BY <1>1, SMTT(30) DEF HandOffInv, ExclusiveHandOff, ClaimedOnce
<1> QED
  BY <1>1, <1>2, <1>4, <1>6, <1>9, <1>12, <1>13
     DEF HandOffInv, ExclusiveHandOff, InWait

\* Every step keeps HandOffInv.
LEMMA HandOffStep ==
  ASSUME TypeOK, LocalInv, HandOffInv, [Next]_vars
  PROVE  HandOffInv'
<1> USE ThreadPoolAssumption
<1> USE DEF HandOffInv, ExclusiveHandOff, WaitingOnce, WaitingIdle, ClaimedOnce, Idle,
            Claimed, InWait, vars, threadVars, poolVars, callerVars, ownerVars, history
<1>type. /\ pc \in [Threads -> WorkerPlaces]
         /\ cpc \in [Callers -> CallerPlaces]
         /\ ctarget \in [Callers -> Threads \cup {None}]
         /\ otarget \in Threads \cup {None}
         /\ waiting_threads \in Seq(Threads)
         /\ local_task_queue \in [Threads -> Seq(Tasks \cup {KillTask})]
         /\ DOMAIN waiting_threads = 1 .. Len(waiting_threads)
         /\ Len(waiting_threads) \in Nat
  BY DEF TypeOK
<1>1. ASSUME NEW t \in Threads, Started(t) PROVE HandOffInv'
  BY <1>1, <1>type DEF Started, Move
<1>2. ASSUME NEW t \in Threads, CheckRunning(t, "loop", "local") PROVE HandOffInv'
  BY <1>2, <1>type DEF CheckRunning, Move
<1>3. ASSUME NEW t \in Threads, TakeLocal(t) PROVE HandOffInv'
  <2>1. CASE local_task_queue[t] # <<>>
    <3>1. PICK f \in Tasks \cup {KillTask}, q \in Seq(Tasks \cup {KillTask}) :
            /\ pc[t] = "local" /\ pc' = [pc EXCEPT ![t] = "runLocal"]
            /\ task' = [task EXCEPT ![t] = f]
            /\ local_task_queue' = [local_task_queue EXCEPT ![t] = q]
            /\ Len(q) = Len(local_task_queue[t]) - 1
            /\ UNCHANGED <<m_running, condOwner, poolVars, callerVars, ownerVars,
                           history>>
      BY <1>3, <2>1, TakeLocalPops
    <3> QED
      BY <3>1, <1>type
  <2>2. CASE local_task_queue[t] = <<>>
    <3>1. /\ pc[t] = "local" /\ pc' = [pc EXCEPT ![t] = "check1"]
          /\ UNCHANGED <<local_task_queue, waiting_threads, callerVars, ownerVars>>
      BY <1>3, <2>2 DEF TakeLocal, Move
    <3> QED
      BY <2>2, <3>1, <1>type
  <2> QED
    BY <2>1, <2>2
<1>4. ASSUME NEW t \in Threads, RunTask(t, "runLocal", "local") PROVE HandOffInv'
  BY <1>4, <1>type DEF RunTask, Move
<1>5. ASSUME NEW t \in Threads, CheckRunning(t, "check1", "global") PROVE HandOffInv'
  BY <1>5, <1>type DEF CheckRunning, Move
<1>6. ASSUME NEW t \in Threads, TakeGlobal(t) PROVE HandOffInv'
  <2>1. CASE task_queue # <<>>
    <3>1. PICK f \in Tasks :
            /\ pc[t] = "global" /\ pc' = [pc EXCEPT ![t] = "runGlobal"]
            /\ task' = [task EXCEPT ![t] = f]
            /\ task_queue' \in Seq(Tasks)
            /\ UNCHANGED <<m_running, local_task_queue, condOwner,
                           waiting_threads, m_nrunning_threads, callerVars,
                           ownerVars, history>>
      BY <1>6, <2>1, TakeGlobalPops
    <3> QED
      BY <3>1, <1>type
  <2>2. CASE task_queue = <<>>
    <3>1. /\ pc[t] = "global" /\ pc' = [pc EXCEPT ![t] = "check2"]
          /\ UNCHANGED <<local_task_queue, waiting_threads, callerVars, ownerVars>>
      BY <1>6, <2>2 DEF TakeGlobal, Move
    <3> QED
      BY <2>2, <3>1, <1>type
  <2> QED
    BY <2>1, <2>2
<1>7. ASSUME NEW t \in Threads, RunTask(t, "runGlobal", "global") PROVE HandOffInv'
  BY <1>7, <1>type DEF RunTask, Move
<1>8. ASSUME NEW t \in Threads, CheckRunning(t, "check2", "enqueue") PROVE HandOffInv'
  BY <1>8, <1>type DEF CheckRunning, Move
<1>9. ASSUME NEW t \in Threads, Enqueue(t) PROVE HandOffInv'
  BY <1>9, HandOffEnqueue
<1>10. ASSUME NEW t \in Threads, LockCond(t, "waitLock") PROVE HandOffInv'
  BY <1>10, <1>type DEF LockCond, Move
<1>11. ASSUME NEW t \in Threads, CheckState(t) PROVE HandOffInv'
  BY <1>11, <1>type DEF CheckState, Move
<1>12. ASSUME NEW t \in Threads, Sleep(t) PROVE HandOffInv'
  BY <1>12, <1>type DEF Sleep, Move
<1>13. ASSUME NEW t \in Threads, LockCond(t, "relock") PROVE HandOffInv'
  BY <1>13, <1>type DEF LockCond, Move
<1>14. ASSUME NEW t \in Threads, LeaveWait(t) PROVE HandOffInv'
  BY <1>14, <1>type DEF LeaveWait, Move
<1>15. ASSUME NEW t \in Threads, Stop(t) PROVE HandOffInv'
  BY <1>15, <1>type DEF Stop, Move
<1>16. ASSUME NEW t \in Threads, SpuriousWakeup(t) PROVE HandOffInv'
  BY <1>16, <1>type DEF SpuriousWakeup, Move
<1>17. ASSUME NEW c \in Callers, Pick(c) PROVE HandOffInv'
  <2>1. CASE waiting_threads # <<>>
    BY <1>17, <2>1, HandOffPick
  <2>2. CASE waiting_threads = <<>>
    BY <1>17, <2>2, <1>type DEF Pick, CMove
  <2> QED
    BY <2>1, <2>2
<1>18. ASSUME NEW c \in Callers, CallerLock(c) PROVE HandOffInv'
  BY <1>18, <1>type DEF CallerLock, CMove
<1>19. ASSUME NEW c \in Callers, PushLocal(c) PROVE HandOffInv'
  BY <1>19, <1>type DEF PushLocal, CMove
<1>20. ASSUME NEW c \in Callers, Kick(c) PROVE HandOffInv'
  BY <1>20, <1>type DEF Kick, Signal, CMove
<1>21. ASSUME NEW c \in Callers, CallerUnlock(c) PROVE HandOffInv'
  BY <1>21, <1>type DEF CallerUnlock, CMove
<1>22. ASSUME NEW c \in Callers, PushGlobal(c) PROVE HandOffInv'
  BY <1>22, <1>type DEF PushGlobal, CMove
<1>23. ASSUME NEW c \in Callers, NEW f \in Tasks, Call(c, f) PROVE HandOffInv'
  BY <1>23, <1>type DEF Call, CMove
<1>24. ASSUME NEW t \in Threads, Create(t) PROVE HandOffInv'
  BY <1>24, <1>type DEF Create, Move
<1>25. ASSUME NEW t \in Threads, Flag(t) PROVE HandOffInv'
  BY <1>25, <1>type DEF Flag
<1>26. CASE RunReturns
  BY <1>26, <1>type DEF RunReturns, OMove
<1>27. CASE AllFlagged
  BY <1>27, <1>type DEF AllFlagged, OMove
<1>28. CASE Drain
  <2>1. CASE waiting_threads # <<>>
    BY <1>28, <2>1, HandOffDrain
  <2>2. CASE waiting_threads = <<>>
    BY <1>28, <2>2, <1>type DEF Drain, OMove
  <2> QED
    BY <2>1, <2>2
<1>29. CASE KillPush
  BY <1>29, <1>type DEF KillPush, OMove
<1>30. CASE KillKick
  BY <1>30, <1>type DEF KillKick, Signal, OMove
<1>31. CASE JoinReturns
  BY <1>31, <1>type DEF JoinReturns, OMove
<1>32. CASE DtorCheck
  BY <1>32, <1>type DEF DtorCheck, OMove
<1>33. CASE CallKill
  BY <1>33, <1>type DEF CallKill, OMove
<1>34. CASE CallJoin
  BY <1>34, <1>type DEF CallJoin, OMove
<1>35. CASE CallDtor
  BY <1>35, <1>type DEF CallDtor
<1>36. CASE UNCHANGED vars
  BY <1>36 DEF vars
<1> QED
  BY <1>1, <1>2, <1>3, <1>4, <1>5, <1>6, <1>7, <1>8, <1>9, <1>10, <1>11, <1>12, <1>13, <1>14,
     <1>15, <1>16, <1>17, <1>18, <1>19, <1>20, <1>21, <1>22, <1>23, <1>24, <1>25, <1>26, <1>27, <1>28,
     <1>29, <1>30, <1>31, <1>32, <1>33, <1>34, <1>35, <1>36
     DEF Next, Worker, Caller, Owner, Application

-------------------------------------------------------------------------------
(* The theorems. *)

\* The inductive invariant holds when the pool has been constructed.
LEMMA InitInd == Init => IndInv
<1> SUFFICES ASSUME Init PROVE IndInv
  OBVIOUS
<1> USE ThreadPoolAssumption DEF Init
<1>1. TypeOK
  <2>1. <<>> \in Seq(Tasks \cup {KillTask}) /\ <<>> \in Seq(Tasks) /\ <<>> \in Seq(Threads)
    OBVIOUS
  <2>2. local_task_queue \in [Threads -> Seq(Tasks \cup {KillTask})]
    BY <2>1
  <2>3. spurious \in 0 .. MaxSpurious
    OBVIOUS
  <2> QED
    BY <2>1, <2>2, <2>3 DEF TypeOK, WorkerPlaces, CallerPlaces, OwnerPlaces
<1>2. LocalInv /\ MutexInv
  BY DEF LocalInv, MutexInv, HoldsCond, CallerHolds
<1>3. CountInv
  <2>1. {t \in Threads : pc[t] \in Counted} = {}
    BY DEF Counted
  <2> QED
    BY <2>1, FS_EmptySet DEF CountInv
<1>4. WakeInv
  BY DEF WakeInv
<1>5. HandOffInv
  BY DEF HandOffInv, ExclusiveHandOff, WaitingOnce, WaitingIdle, ClaimedOnce,
         Claimed
<1>6. OwnerInv
  BY DEF OwnerInv, DeletedOutsideRun
<1> QED
  BY <1>1, <1>2, <1>3, <1>4, <1>5, <1>6 DEF IndInv

\* Every step of the pool, its callers and its owner keeps the inductive invariant.
LEMMA IndStep == IndInv /\ [Next]_vars => IndInv'
  BY TypeStep, LocalStep, MutexStep, CountStep, WakeStep, HandOffStep, OwnerStep
     DEF IndInv

\* The inductive invariant holds in every reachable state.
THEOREM IndInvariant == Spec => []IndInv
  BY InitInd, IndStep, PTL DEF Spec

\* The variables keep their types; in particular m_nrunning_threads, a size_t,
\* is never decremented below zero and no queue ever holds a null task.
THEOREM TypeCorrect == Spec => []TypeOK
<1>1. IndInv => TypeOK
  BY DEF IndInv
<1> QED
  BY <1>1, IndInvariant, PTL

\* A thread never sleeps on a task addTask gave it without a kick to come.
THEOREM WakeupsArrive == Spec => []NoLostWakeup
<1>1. IndInv => NoLostWakeup
  BY DEF IndInv, WakeInv, NoLostWakeup
<1> QED
  BY <1>1, IndInvariant, PTL

\* addTask and kill() never hand two tasks to one waiting thread, whatever
\* number of them run at once.
THEOREM HandOffIsExclusive == Spec => []ExclusiveHandOff
<1>1. IndInv => ExclusiveHandOff
  BY DEF IndInv, HandOffInv
<1> QED
  BY <1>1, IndInvariant, PTL

\* addTask never signals a destroyed condition.
THEOREM KickIsDefined == Spec => []KickFindsCondition
<1>1. IndInv => KickFindsCondition
  <2> SUFFICES ASSUME IndInv, NEW c \in Callers, cpc[c] = "kick"
               PROVE  pc[ctarget[c]] # "reinit"
    BY DEF KickFindsCondition
  <2>1. ctarget[c] \in Threads
    BY DEF IndInv, LocalInv, TypeOK
  <2>2. condOwner[ctarget[c]] = c
    BY DEF IndInv, MutexInv, CallerHolds
  <2>3. c # ctarget[c]
    BY <2>1, ThreadPoolAssumption
  <2> QED
    BY <2>1, <2>2, <2>3 DEF IndInv, MutexInv, HoldsCond
<1> QED
  BY <1>1, IndInvariant, PTL

\* Whatever the number of threads and whoever called kill() before, no hThread is
\* deleted under a thread that has counted itself and not yet left run().
THEOREM ShutDownIsSafe == Spec => []DeletedOutsideRun
<1>1. IndInv => DeletedOutsideRun
  BY DEF IndInv, OwnerInv
<1> QED
  BY <1>1, IndInvariant, PTL

-------------------------------------------------------------------------------
(* One lemma per step that moves a task: it keeps UniqueInv and is a step of *)
(* TaskPool.                                                                 *)

\* A step of TaskPool, or one it does not see.
AbstractStep == [Abstract!Next]_(Abstract!vars)

\* A thread takes the one task of its own queue.
LEMMA TakeLocalRefines ==
  ASSUME IndInv, UniqueInv, NEW t \in Threads, TakeLocal(t), local_task_queue[t] # <<>>
  PROVE  UniqueInv' /\ AbstractStep
<1> DEFINE S == Tasks \cup {KillTask}
           f == Head(local_task_queue[t])
<1>1. local_task_queue \in [Threads -> Seq(S)] /\ Len(local_task_queue[t]) <= 1
  BY DEF IndInv, TypeOK, HandOffInv, ExclusiveHandOff
<1> HIDE DEF S
<1>2. /\ f \in S
      /\ ToSet(local_task_queue[t]) = {f}
      /\ ToSet(Tail(local_task_queue[t])) = {}
  <2>1. local_task_queue[t] \in Seq(S)
    BY <1>1
  <2> QED
    BY <1>1, <2>1, PopSet, QueuePop
<1>3. /\ task[t] = None /\ task' = [task EXCEPT ![t] = f]
      /\ task \in [Threads -> Tasks \cup {KillTask, None}]
      /\ UNCHANGED <<ctask, task_queue, submitted, finished>>
  BY DEF TakeLocal, Move, IndInv, TypeOK, LocalInv, poolVars, callerVars, history
<1>4. \A u \in Threads :
        ToSet(local_task_queue'[u]) = IF u = t THEN {} ELSE ToSet(local_task_queue[u])
  BY <1>1, <1>2 DEF TakeLocal
<1> HIDE DEF f
<1>5. f \in Tasks => f \in submitted
  BY <1>2 DEF UniqueInv, Pending
<1>6. Pending' = Pending \ {f}
  <2>1. f \in Tasks => /\ \A c \in Callers : ctask[c] # f
                       /\ f \notin ToSet(task_queue)
                       /\ \A u \in Threads \ {t} : f \notin ToSet(local_task_queue[u])
    BY <1>2, ThreadPoolAssumption DEF UniqueInv
  <2>2. ASSUME NEW g \in Tasks PROVE g \in Pending' <=> g \in Pending /\ g # f
    BY <1>2, <1>3, <1>4, <2>1 DEF Pending
  <2>3. Pending' \subseteq Tasks /\ Pending \subseteq Tasks
    BY DEF Pending
  <2> QED
    BY <2>2, <2>3
<1>7. UniqueInv'
  <2>1. Pending' \subseteq submitted'
    BY <1>3, <1>6 DEF UniqueInv
  <2>2. \A u \in Threads : task'[u] \in Tasks => task'[u] \in submitted'
    BY <1>3, <1>5 DEF UniqueInv
  <2> QED
    BY <1>3, <1>4, <2>1, <2>2 DEF UniqueInv
<1>8. CASE f \in Tasks
  <2>1. Runner[t] = None /\ Runner' = [Runner EXCEPT ![t] = f]
    BY <1>3, <1>8, ThreadPoolAssumption DEF Runner
  <2>2. f \in Pending
    BY <1>2, <1>8 DEF Pending
  <2>3. Abstract!Start(t, f)
    BY <1>3, <1>6, <2>1, <2>2 DEF Abstract!Start
  <2> QED
    BY <1>7, <1>8, <2>3 DEF AbstractStep, Abstract!Next
<1>9. CASE f \notin Tasks
  <2>1. Runner' = Runner
    BY <1>3, <1>9, ThreadPoolAssumption DEF Runner
  <2>2. Pending' = Pending
    BY <1>6, <1>9 DEF Pending
  <2> QED
    BY <1>3, <1>7, <2>1, <2>2 DEF AbstractStep, Abstract!vars
<1> QED
  BY <1>8, <1>9

\* A thread takes the first task of the global queue.
LEMMA TakeGlobalRefines ==
  ASSUME IndInv, UniqueInv, NEW t \in Threads, TakeGlobal(t), task_queue # <<>>
  PROVE  UniqueInv' /\ AbstractStep
<1> DEFINE f == Head(task_queue)
<1>1. task_queue \in Seq(Tasks) /\ task_queue' = Tail(task_queue)
  BY DEF IndInv, TypeOK, TakeGlobal
<1>2. /\ f \in Tasks
      /\ ToSet(task_queue) = ToSet(task_queue') \cup {f}
      /\ f \notin ToSet(task_queue')
      /\ \A i, j \in DOMAIN task_queue' : task_queue'[i] = task_queue'[j] => i = j
  <2>1. NoRepeat(task_queue, Tasks)
    BY DEF NoRepeat, UniqueInv
  <2>2. /\ f \in Tasks /\ ToSet(task_queue) = ToSet(task_queue') \cup {f}
        /\ task_queue' \in Seq(Tasks) /\ NoRepeat(task_queue', Tasks)
        /\ f \notin ToSet(task_queue')
    BY <1>1, <2>1, PopSet, PopOnce, QueuePop
  <2> QED
    BY <2>2 DEF NoRepeat
<1>3. /\ task[t] = None /\ task' = [task EXCEPT ![t] = f]
      /\ task \in [Threads -> Tasks \cup {KillTask, None}]
      /\ UNCHANGED <<ctask, local_task_queue, submitted, finished>>
  BY DEF TakeGlobal, Move, IndInv, TypeOK, LocalInv, callerVars, history
<1> HIDE DEF f
<1>5. f \in submitted /\ f \in Pending
  BY <1>2 DEF UniqueInv, Pending
<1>6. Pending' = Pending \ {f}
  <2>1. /\ \A c \in Callers : ctask[c] # f
        /\ \A u \in Threads : f \notin ToSet(local_task_queue[u])
    BY <1>2 DEF UniqueInv
  <2>2. ASSUME NEW g \in Tasks PROVE g \in Pending' <=> g \in Pending /\ g # f
    BY <1>2, <1>3, <2>1 DEF Pending
  <2>3. Pending' \subseteq Tasks /\ Pending \subseteq Tasks
    BY DEF Pending
  <2> QED
    BY <2>2, <2>3
<1>7. UniqueInv'
  <2>1. Pending' \subseteq submitted'
    BY <1>3, <1>6 DEF UniqueInv
  <2>2. \A u \in Threads : task'[u] \in Tasks => task'[u] \in submitted'
    BY <1>3, <1>5 DEF UniqueInv
  <2> QED
    BY <1>2, <1>3, <2>1, <2>2 DEF UniqueInv
<1>8. Runner[t] = None /\ Runner' = [Runner EXCEPT ![t] = f]
  BY <1>2, <1>3, ThreadPoolAssumption DEF Runner
<1>9. Abstract!Start(t, f)
  BY <1>3, <1>5, <1>6, <1>8 DEF Abstract!Start
<1> QED
  BY <1>2, <1>7, <1>9 DEF AbstractStep, Abstract!Next

\* A task returns, an application's or kill()'s.
LEMMA RunTaskRefines ==
  ASSUME IndInv, UniqueInv, NEW t \in Threads, NEW from \in {"runLocal", "runGlobal"},
         NEW to, RunTask(t, from, to)
  PROVE  UniqueInv' /\ AbstractStep
<1>1. /\ task[t] \in Tasks \cup {KillTask} /\ task' = [task EXCEPT ![t] = None]
      /\ task \in [Threads -> Tasks \cup {KillTask, None}]
      /\ UNCHANGED <<ctask, task_queue, local_task_queue, submitted>>
  BY DEF RunTask, Move, IndInv, TypeOK, LocalInv, poolVars, callerVars, history
<1>2. /\ task[t] = KillTask => finished' = finished
      /\ task[t] # KillTask => finished' = finished \cup {task[t]}
  BY DEF RunTask
<1>3. Pending' = Pending
  BY <1>1 DEF Pending
<1>4. UniqueInv'
  <2>1. finished' \subseteq submitted'
    BY <1>1, <1>2 DEF UniqueInv
  <2>2. \A u \in Threads : task'[u] \in Tasks => task'[u] \in submitted'
    BY <1>1, ThreadPoolAssumption DEF UniqueInv
  <2> QED
    BY <1>1, <1>3, <2>1, <2>2 DEF UniqueInv
<1>5. CASE task[t] \in Tasks
  <2>1. Runner[t] = task[t] /\ Runner[t] # None /\ Runner' = [Runner EXCEPT ![t] = None]
    BY <1>1, <1>5, ThreadPoolAssumption DEF Runner
  <2>2. finished' = finished \cup {Runner[t]}
    BY <1>2, <1>5, <2>1, ThreadPoolAssumption
  <2>3. Abstract!Finish(t)
    BY <1>3, <2>1, <2>2 DEF Abstract!Finish
  <2> QED
    BY <1>4, <2>3 DEF AbstractStep, Abstract!Next
<1>6. CASE task[t] = KillTask
  <2>1. Runner' = Runner
    BY <1>1, <1>6, ThreadPoolAssumption DEF Runner
  <2> QED
    BY <1>2, <1>3, <1>4, <1>6, <2>1 DEF AbstractStep, Abstract!vars
<1> QED
  BY <1>1, <1>5, <1>6

\* addTask puts its task in the queue of the thread it has chosen.
LEMMA PushLocalRefines ==
  ASSUME IndInv, UniqueInv, NEW c \in Callers, PushLocal(c)
  PROVE  UniqueInv' /\ AbstractStep
<1> DEFINE S == Tasks \cup {KillTask}
           u == ctarget[c]
           f == ctask[c]
<1>1. /\ f \in Tasks /\ f # None /\ u \in Threads
      /\ ctask' = [ctask EXCEPT ![c] = None]
      /\ ctask \in [Callers -> Tasks \cup {None}]
      /\ UNCHANGED <<task, task_queue, submitted, finished>>
  BY DEF PushLocal, CMove, IndInv, TypeOK, LocalInv, poolVars, history
<1>2. local_task_queue \in [Threads -> Seq(S)] /\ f \in S
  BY <1>1 DEF IndInv, TypeOK
<1> HIDE DEF S
<1>3. ToSet(Append(local_task_queue[u], f)) = ToSet(local_task_queue[u]) \cup {f}
  <2>1. local_task_queue[u] \in Seq(S)
    BY <1>1, <1>2
  <2> QED
    BY <1>2, <2>1, PushSet
<1>4. \A t \in Threads :
        ToSet(local_task_queue'[t]) =
          IF t = u THEN ToSet(local_task_queue[t]) \cup {f} ELSE ToSet(local_task_queue[t])
  BY <1>1, <1>2, <1>3 DEF PushLocal
<1>5. /\ \A d \in Callers : ctask'[d] = IF d = c THEN None ELSE ctask[d]
      /\ \A d \in Callers \ {c} : ctask[d] # f
      /\ f \notin ToSet(task_queue)
      /\ \A t \in Threads : f \notin ToSet(local_task_queue[t])
      /\ None \notin ToSet(task_queue)
  <2>1. None \notin ToSet(task_queue)
    BY ThreadPoolAssumption DEF ToSet, IndInv, TypeOK
  <2> QED
    BY <1>1, <2>1 DEF UniqueInv
<1> HIDE DEF f, u
<1>6. Pending' = Pending
  <2>1. ASSUME NEW g \in Tasks PROVE g \in Pending' <=> g \in Pending
    <3>1. CASE g = f
      BY <1>1, <1>4, <3>1 DEF Pending, f
    <3>2. CASE g # f
      <4>1. g # None
        BY ThreadPoolAssumption
      <4>2. (\E d \in Callers : ctask'[d] = g) <=> (\E d \in Callers : ctask[d] = g)
        BY <1>5, <3>2, <4>1 DEF f
      <4>3. \A t \in Threads :
              g \in ToSet(local_task_queue'[t]) <=> g \in ToSet(local_task_queue[t])
        BY <1>4, <3>2
      <4> QED
        BY <1>1, <4>2, <4>3 DEF Pending
    <3> QED
      BY <3>1, <3>2
  <2>2. Pending' \subseteq Tasks /\ Pending \subseteq Tasks
    BY DEF Pending
  <2> QED
    BY <2>1, <2>2
<1>7. UniqueInv'
  <2>1. \A d, e \in Callers : ctask'[d] # None /\ ctask'[d] = ctask'[e] => d = e
    BY <1>5 DEF UniqueInv
  <2>2. \A d \in Callers : ctask'[d] \notin ToSet(task_queue')
    BY <1>1, <1>5 DEF UniqueInv
  <2>3. \A d \in Callers, t \in Threads :
          ctask'[d] # None => ctask'[d] \notin ToSet(local_task_queue'[t])
    <3>1. SUFFICES ASSUME NEW d \in Callers, NEW t \in Threads, ctask'[d] # None
                   PROVE  ctask'[d] \notin ToSet(local_task_queue'[t])
      OBVIOUS
    <3>2. d # c /\ ctask'[d] = ctask[d] /\ ctask[d] # f
      BY <1>5, <3>1
    <3>3. ctask[d] \notin ToSet(local_task_queue[t])
      BY <3>1, <3>2 DEF UniqueInv
    <3> QED
      BY <1>4, <3>2, <3>3
  <2>4. \A t \in Threads : ToSet(task_queue') \cap ToSet(local_task_queue'[t]) = {}
    BY <1>1, <1>4, <1>5 DEF UniqueInv
  <2>5. \A t, v \in Threads, g \in Tasks :
          g \in ToSet(local_task_queue'[t]) /\ g \in ToSet(local_task_queue'[v]) => t = v
    <3>1. TAKE t, v \in Threads, g \in Tasks
    <3>2. CASE g = f
      BY <1>4, <1>5, <3>2
    <3>3. CASE g # f
      <4>1. \A w \in Threads :
              g \in ToSet(local_task_queue'[w]) <=> g \in ToSet(local_task_queue[w])
        BY <1>4, <3>3
      <4> QED
        BY <4>1 DEF UniqueInv
    <3> QED
      BY <3>2, <3>3
  <2> QED
    BY <1>1, <1>6, <2>1, <2>2, <2>3, <2>4, <2>5 DEF UniqueInv
<1>8. Runner' = Runner
  BY <1>1 DEF Runner
<1> QED
  BY <1>1, <1>6, <1>7, <1>8 DEF AbstractStep, Abstract!vars

\* addTask puts its task in the global queue.
LEMMA PushGlobalRefines ==
  ASSUME IndInv, UniqueInv, NEW c \in Callers, PushGlobal(c)
  PROVE  UniqueInv' /\ AbstractStep
<1> DEFINE f == ctask[c]
<1>1. /\ f \in Tasks /\ f # None
      /\ ctask' = [ctask EXCEPT ![c] = None]
      /\ ctask \in [Callers -> Tasks \cup {None}]
      /\ UNCHANGED <<task, local_task_queue, submitted, finished>>
  BY DEF PushGlobal, CMove, IndInv, TypeOK, LocalInv, threadVars, history
<1>2. /\ task_queue \in Seq(Tasks) /\ task_queue' = Append(task_queue, f)
      /\ f \notin ToSet(task_queue)
  BY DEF IndInv, TypeOK, PushGlobal, UniqueInv
<1>3. /\ ToSet(task_queue') = ToSet(task_queue) \cup {f}
      /\ \A i, j \in DOMAIN task_queue' : task_queue'[i] = task_queue'[j] => i = j
  <2>1. NoRepeat(task_queue, Tasks)
    BY DEF NoRepeat, UniqueInv
  <2>2. /\ ToSet(task_queue') = ToSet(task_queue) \cup {f}
        /\ task_queue' \in Seq(Tasks) /\ NoRepeat(task_queue', Tasks)
    BY <1>1, <1>2, <2>1, PushSet, PushOnce, QueuePush
  <2> QED
    BY <2>2 DEF NoRepeat
<1>5. /\ \A d \in Callers : ctask'[d] = IF d = c THEN None ELSE ctask[d]
      /\ \A d \in Callers \ {c} : ctask[d] # f
      /\ \A t \in Threads : f \notin ToSet(local_task_queue[t])
      /\ None \notin ToSet(task_queue)
  <2>1. None \notin ToSet(task_queue)
    BY ThreadPoolAssumption DEF ToSet, IndInv, TypeOK
  <2> QED
    BY <1>1, <2>1 DEF UniqueInv
<1> HIDE DEF f
<1>6. Pending' = Pending
  <2>1. ASSUME NEW g \in Tasks PROVE g \in Pending' <=> g \in Pending
    <3>1. CASE g = f
      BY <1>1, <1>3, <3>1 DEF Pending, f
    <3>2. CASE g # f
      <4>1. g # None
        BY ThreadPoolAssumption
      <4>2. (\E d \in Callers : ctask'[d] = g) <=> (\E d \in Callers : ctask[d] = g)
        BY <1>5, <3>2, <4>1 DEF f
      <4> QED
        BY <1>1, <1>3, <3>2, <4>2 DEF Pending
    <3> QED
      BY <3>1, <3>2
  <2>2. Pending' \subseteq Tasks /\ Pending \subseteq Tasks
    BY DEF Pending
  <2> QED
    BY <2>1, <2>2
<1>7. UniqueInv'
  <2>1. \A d, e \in Callers : ctask'[d] # None /\ ctask'[d] = ctask'[e] => d = e
    BY <1>5 DEF UniqueInv
  <2>2. \A d \in Callers : ctask'[d] \notin ToSet(task_queue')
    BY <1>1, <1>3, <1>5 DEF UniqueInv
  <2>3. \A d \in Callers, t \in Threads :
          ctask'[d] # None => ctask'[d] \notin ToSet(local_task_queue'[t])
    BY <1>1, <1>5 DEF UniqueInv
  <2>4. \A t \in Threads : ToSet(task_queue') \cap ToSet(local_task_queue'[t]) = {}
    BY <1>1, <1>3, <1>5 DEF UniqueInv
  <2> QED
    BY <1>1, <1>3, <1>6, <2>1, <2>2, <2>3, <2>4 DEF UniqueInv
<1>8. Runner' = Runner
  BY <1>1 DEF Runner
<1> QED
  BY <1>1, <1>6, <1>7, <1>8 DEF AbstractStep, Abstract!vars

\* An application calls addTask with a task it has not submitted before.
LEMMA CallRefines ==
  ASSUME IndInv, UniqueInv, NEW c \in Callers, NEW f \in Tasks, Call(c, f)
  PROVE  UniqueInv' /\ AbstractStep
<1>1. /\ f \notin submitted /\ submitted' = submitted \cup {f}
      /\ ctask' = [ctask EXCEPT ![c] = f] /\ ctask[c] = None
      /\ ctask \in [Callers -> Tasks \cup {None}]
      /\ UNCHANGED <<task, task_queue, local_task_queue, finished>>
  BY DEF Call, CMove, IndInv, TypeOK, LocalInv, threadVars, poolVars
<1>2. \A d \in Callers : ctask'[d] = IF d = c THEN f ELSE ctask[d]
  BY <1>1
<1>3. /\ f # None /\ f \notin Pending /\ f \notin finished
      /\ \A t \in Threads : task[t] # f
      /\ \A d \in Callers : ctask[d] # f
      /\ f \notin ToSet(task_queue)
      /\ \A t \in Threads : f \notin ToSet(local_task_queue[t])
  BY <1>1, ThreadPoolAssumption DEF UniqueInv, Pending
<1>4. Pending' = Pending \cup {f}
  <2>1. ASSUME NEW g \in Tasks PROVE g \in Pending' <=> g \in Pending \/ g = f
    <3>1. g # None
      BY ThreadPoolAssumption
    <3>2. (\E d \in Callers : ctask'[d] = g) <=> (\E d \in Callers : ctask[d] = g) \/ g = f
      BY <1>1, <1>2, <3>1
    <3> QED
      BY <1>1, <3>2 DEF Pending
  <2>2. Pending' \subseteq Tasks /\ Pending \subseteq Tasks
    BY DEF Pending
  <2> QED
    BY <2>1, <2>2
<1>5. UniqueInv'
  <2>1. /\ finished' \subseteq submitted' /\ Pending' \subseteq submitted'
        /\ \A t \in Threads : task'[t] \in Tasks => task'[t] \in submitted'
    BY <1>1, <1>4 DEF UniqueInv
  <2>2. \A d, e \in Callers : ctask'[d] # None /\ ctask'[d] = ctask'[e] => d = e
    BY <1>2, <1>3 DEF UniqueInv
  <2>3. \A d \in Callers : ctask'[d] \notin ToSet(task_queue')
    BY <1>1, <1>2, <1>3 DEF UniqueInv
  <2>4. \A d \in Callers, t \in Threads :
          ctask'[d] # None => ctask'[d] \notin ToSet(local_task_queue'[t])
    BY <1>1, <1>2, <1>3 DEF UniqueInv
  <2> QED
    BY <1>1, <2>1, <2>2, <2>3, <2>4 DEF UniqueInv
<1>6. Runner' = Runner /\ f \notin Abstract!Running
  BY <1>1, <1>3, ThreadPoolAssumption DEF Runner, Abstract!Running
<1>7. Abstract!Submit(f)
  BY <1>1, <1>3, <1>4, <1>6 DEF Abstract!Submit
<1> QED
  BY <1>5, <1>7 DEF AbstractStep, Abstract!Next

\* kill() puts its own task in a thread's queue.
LEMMA KillPushRefines ==
  ASSUME IndInv, UniqueInv, KillPush
  PROVE  UniqueInv' /\ AbstractStep
<1> DEFINE S == Tasks \cup {KillTask}
<1>1. /\ otarget \in Threads
      /\ UNCHANGED <<ctask, task, task_queue, submitted, finished>>
  BY DEF KillPush, OMove, IndInv, TypeOK, LocalInv, poolVars, callerVars, history
<1>2. local_task_queue \in [Threads -> Seq(S)] /\ KillTask \in S
  BY DEF IndInv, TypeOK
<1>3. \A c \in Callers : ctask[c] # KillTask
  BY ThreadPoolAssumption DEF IndInv, TypeOK
<1>4. KillTask \notin ToSet(task_queue)
  BY ThreadPoolAssumption DEF ToSet, IndInv, TypeOK
<1> HIDE DEF S
<1>5. ToSet(Append(local_task_queue[otarget], KillTask))
        = ToSet(local_task_queue[otarget]) \cup {KillTask}
  <2>1. local_task_queue[otarget] \in Seq(S)
    BY <1>1, <1>2
  <2> QED
    BY <1>2, <2>1, PushSet
<1>6. \A t \in Threads :
        ToSet(local_task_queue'[t]) =
          IF t = otarget THEN ToSet(local_task_queue[t]) \cup {KillTask}
          ELSE ToSet(local_task_queue[t])
  BY <1>1, <1>2, <1>5 DEF KillPush
<1>7. \A t \in Threads, g \in Tasks :
        g \in ToSet(local_task_queue'[t]) <=> g \in ToSet(local_task_queue[t])
  BY <1>6, ThreadPoolAssumption
<1>8. Pending' = Pending /\ Runner' = Runner
  BY <1>1, <1>7 DEF Pending, Runner
<1>9. UniqueInv'
  <2>1. \A c \in Callers, t \in Threads :
          ctask'[c] # None => ctask'[c] \notin ToSet(local_task_queue'[t])
    <3>1. TAKE c \in Callers, t \in Threads
    <3>2. ctask'[c] = ctask[c] /\ ctask[c] # KillTask
      BY <1>1, <1>3
    <3>3. ctask[c] # None => ctask[c] \notin ToSet(local_task_queue[t])
      BY DEF UniqueInv
    <3> QED
      BY <1>6, <3>2, <3>3
  <2>2. \A t \in Threads : ToSet(task_queue') \cap ToSet(local_task_queue'[t]) = {}
    BY <1>1, <1>4, <1>6 DEF UniqueInv
  <2>3. \A t, u \in Threads, f \in Tasks :
          f \in ToSet(local_task_queue'[t]) /\ f \in ToSet(local_task_queue'[u]) => t = u
    BY <1>7 DEF UniqueInv
  <2> QED
    BY <1>1, <1>8, <2>1, <2>2, <2>3 DEF UniqueInv
<1> QED
  BY <1>1, <1>8, <1>9 DEF AbstractStep, Abstract!vars

-------------------------------------------------------------------------------
(* The theorem. *)

\* What UniqueInv and the refinement look at.
placeVars == <<ctask, task_queue, local_task_queue, task, submitted, finished>>

\* The steps that move a task; every other step is none of TaskPool's.
LEMMA StepsThatMove ==
  ASSUME [Next]_vars
  PROVE  \/ UNCHANGED placeVars
         \/ \E t \in Threads : TakeLocal(t) /\ local_task_queue[t] # <<>>
         \/ \E t \in Threads : TakeGlobal(t) /\ task_queue # <<>>
         \/ \E t \in Threads :
              RunTask(t, "runLocal", "local") \/ RunTask(t, "runGlobal", "global")
         \/ \E c \in Callers : PushLocal(c) \/ PushGlobal(c)
         \/ \E c \in Callers, f \in Tasks : Call(c, f)
         \/ KillPush
<1> USE DEF placeVars, threadVars, poolVars, callerVars, ownerVars, history
<1>1. ASSUME NEW t \in Threads,
             \/ Started(t) \/ Enqueue(t) \/ CheckState(t) \/ Sleep(t) \/ LeaveWait(t)
             \/ Stop(t) \/ SpuriousWakeup(t) \/ Create(t) \/ Flag(t)
      PROVE  UNCHANGED placeVars
  BY <1>1 DEF Started, Enqueue, CheckState, Sleep, LeaveWait, Stop, SpuriousWakeup,
              Create, Flag
<1>2. ASSUME NEW t \in Threads, NEW from, NEW to,
             CheckRunning(t, from, to) \/ LockCond(t, from)
      PROVE  UNCHANGED placeVars
  BY <1>2 DEF CheckRunning, LockCond
<1>3. ASSUME NEW t \in Threads, TakeLocal(t), local_task_queue[t] = <<>>
      PROVE  UNCHANGED placeVars
  BY <1>3 DEF TakeLocal
<1>4. ASSUME NEW t \in Threads, TakeGlobal(t), task_queue = <<>>
      PROVE  UNCHANGED placeVars
  BY <1>4 DEF TakeGlobal
<1>5. ASSUME NEW c \in Callers, Pick(c) \/ CallerLock(c) \/ Kick(c) \/ CallerUnlock(c)
      PROVE  UNCHANGED placeVars
  BY <1>5 DEF Pick, CallerLock, Kick, CallerUnlock
<1>6. ASSUME \/ RunReturns \/ AllFlagged \/ Drain \/ KillKick \/ JoinReturns
             \/ DtorCheck \/ CallKill \/ CallJoin \/ CallDtor \/ UNCHANGED vars
      PROVE  UNCHANGED placeVars
  BY <1>6 DEF RunReturns, AllFlagged, Drain, KillKick, JoinReturns, DtorCheck,
              CallKill, CallJoin, CallDtor, vars
<1> QED
  BY <1>1, <1>2, <1>3, <1>4, <1>5, <1>6 DEF Next, Worker, Caller, Owner, Application

\* Every step keeps UniqueInv and is a step of TaskPool or none.
LEMMA StepRefines ==
  ASSUME IndInv, UniqueInv, [Next]_vars
  PROVE  UniqueInv' /\ AbstractStep
<1>1. CASE UNCHANGED placeVars
  <2>1. Pending' = Pending /\ Runner' = Runner
    BY <1>1 DEF placeVars, Pending, Runner
  <2>2. UniqueInv'
    BY <1>1, <2>1 DEF placeVars, UniqueInv
  <2> QED
    BY <1>1, <2>1, <2>2 DEF placeVars, AbstractStep, Abstract!vars
<1> QED
  BY <1>1, StepsThatMove, TakeLocalRefines, TakeGlobalRefines, RunTaskRefines,
     PushLocalRefines, PushGlobalRefines, CallRefines, KillPushRefines

\* A new pool has no task anywhere.
LEMMA InitRefines == Init => UniqueInv /\ Abstract!Init
<1> SUFFICES ASSUME Init PROVE UniqueInv /\ Abstract!Init
  OBVIOUS
<1>1. /\ \A c \in Callers : ctask[c] = None
      /\ ToSet(task_queue) = {} /\ \A t \in Threads : ToSet(local_task_queue[t]) = {}
      /\ \A t \in Threads : task[t] = None
      /\ task_queue = <<>> /\ finished = {}
  BY DEF Init, ToSet
<1>2. Pending = {} /\ Runner = [t \in Threads |-> None]
  BY <1>1, ThreadPoolAssumption DEF Pending, Runner
<1>3. UniqueInv
  BY <1>1, <1>2, ThreadPoolAssumption DEF UniqueInv
<1> QED
  BY <1>1, <1>2, <1>3 DEF Abstract!Init

\* The pool implements TaskPool: whatever kill(), addTask and the threads do at the
\* same time, a task is started at most once, from those that wait, by a thread that
\* runs no other, and ends there.
THEOREM PoolRefines == Spec => ImplementsTaskPool
<1>1. Init => UniqueInv /\ Abstract!Init
  BY InitRefines
<1>2. IndInv /\ UniqueInv /\ [Next]_vars => UniqueInv' /\ [Abstract!Next]_(Abstract!vars)
  BY StepRefines DEF AbstractStep
<1> QED
  BY <1>1, <1>2, IndInvariant, PTL DEF Spec, ImplementsTaskPool, Abstract!Spec
===============================================================================
