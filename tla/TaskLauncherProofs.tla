--------------------------- MODULE TaskLauncherProofs ---------------------------
(***************************************************************************)
(* Theorems about TaskLauncher, for every set of tasks, every finite set   *)
(* of threads and clients and every bound: where a task can be, how often  *)
(* onFinished is called and how far the limit can be exceeded.             *)
(***************************************************************************)
EXTENDS TaskLauncher, QueueLemmas, FiniteSetTheorems, TLAPS

-------------------------------------------------------------------------------
(* Facts about the operators. *)

\* The larger of two limits.
LEMMA MaxOfTwo ==
  ASSUME NEW m \in Nat, NEW n \in Nat
  PROVE  /\ Max({m, n}) \in {m, n}
         /\ Max({m, n}) >= m /\ Max({m, n}) >= n
<1>1. \E x \in {m, n} : \A y \in {m, n} : x >= y
  OBVIOUS
<1> QED
  BY <1>1 DEF Max

-------------------------------------------------------------------------------
(* Types, finish_lock and the counters that have been read. *)

\* Every step keeps the types.
LEMMA TypeStep ==
  ASSUME TypeOK, HoldInv, [Next]_vars
  PROVE  TypeOK'
<1> USE TaskLauncherAssumption
<1> USE DEF TypeOK, HoldInv, Holding, vars, counters, flags, history, Places
<1>1. ASSUME NEW a \in Actors, NEW f \in Tasks, Start(a, f) PROVE TypeOK'
  BY <1>1 DEF Start, Go
<1>2. ASSUME NEW a \in Actors, ReturnsRelaunch(a) PROVE TypeOK'
  BY <1>2, SMTT(30) DEF ReturnsRelaunch, Go
<1>3. ASSUME NEW a \in Actors, ReturnsDone(a) PROVE TypeOK'
  BY <1>3 DEF ReturnsDone, Go
<1>4. ASSUME NEW a \in Actors, IncFinished(a) PROVE TypeOK'
  BY <1>4 DEF IncFinished, Go
<1>5. ASSUME NEW a \in Actors, NEW f \in Tasks, CallAddTask(a, f) PROVE TypeOK'
  BY <1>5 DEF CallAddTask, Go
<1>6. ASSUME NEW a \in Actors, Push(a) PROVE TypeOK'
  BY <1>6 DEF Push, Go
<1>7. ASSUME NEW a \in Actors,
            LoadFirst(a, "load", "loadFinished", "loadLaunched")
      PROVE  TypeOK'
  BY <1>7, ZenonT(60) DEF LoadFirst, Go
<1>8. ASSUME NEW a \in Actors,
            Decide(a, "loadFinished", reg[a], tasks_finished)
      PROVE  TypeOK'
  BY <1>8 DEF Decide, Go
<1>9. ASSUME NEW a \in Actors,
            Decide(a, "loadLaunched", tasks_launched, reg[a])
      PROVE  TypeOK'
  BY <1>9 DEF Decide, Go
<1>10. ASSUME NEW a \in Actors, Pop(a) PROVE TypeOK'
  <2>1. CASE task_q # <<>>
    <3>1. Head(task_q) \in Tasks /\ Tail(task_q) \in Seq(Tasks)
      BY <2>1, QueuePop
    <3> QED
      BY <1>10, <2>1, <3>1, ZenonT(60) DEF Pop, Go
  <2>2. CASE task_q = <<>>
    BY <1>10, <2>2 DEF Pop, Go
  <2> QED
    BY <2>1, <2>2
<1>11. ASSUME NEW a \in Actors, IncLaunched(a) PROVE TypeOK'
  BY <1>11 DEF IncLaunched, Go
<1>12. ASSUME NEW a \in Actors, HandOver(a) PROVE TypeOK'
  BY <1>12 DEF HandOver, Go
<1>13. ASSUME NEW a \in Actors,
            LoadFirst(a, "fin", "finLoadFinished", "finLoadLaunched")
      PROVE  TypeOK'
  BY <1>13, ZenonT(60) DEF LoadFirst, Go
<1>14. ASSUME NEW a \in Actors,
            CompareCounts(a, "finLoadFinished", tasks_finished)
      PROVE  TypeOK'
  BY <1>14 DEF CompareCounts, Go
<1>15. ASSUME NEW a \in Actors,
            CompareCounts(a, "finLoadLaunched", tasks_launched)
      PROVE  TypeOK'
  BY <1>15 DEF CompareCounts, Go
<1>16. ASSUME NEW a \in Actors, CheckNoMore(a) PROVE TypeOK'
  BY <1>16 DEF CheckNoMore, Go
<1>17. ASSUME NEW a \in Actors, CheckEmpty(a) PROVE TypeOK'
  BY <1>17 DEF CheckEmpty, Go
<1>18. ASSUME NEW a \in Actors, TryLock(a) PROVE TypeOK'
  BY <1>18 DEF TryLock, Go
<1>19. ASSUME NEW a \in Actors, TestAndSet(a) PROVE TypeOK'
  BY <1>19 DEF TestAndSet, Go
<1>20. ASSUME NEW a \in Actors, CallOnFinished(a) PROVE TypeOK'
  <2>1. fired' \in Nat
    BY <1>20 DEF CallOnFinished
  <2>2. finish_lock' \in BOOLEAN
    BY <1>20 DEF CallOnFinished
  <2>3. pc' \in [Actors -> Places]
    BY <1>20 DEF CallOnFinished, Go
  <2> QED
    BY <1>20, <2>1, <2>2, <2>3 DEF CallOnFinished
<1>21. ASSUME NEW a \in Actors, SetNoMoreTasks(a) PROVE TypeOK'
  BY <1>21 DEF SetNoMoreTasks
<1>22. ASSUME NEW a \in Actors, NEW n \in Parallels,
            SetMaxParallel(a, n)
      PROVE  TypeOK'
  <2>1. largest \in Nat /\ n \in Nat
    OBVIOUS
  <2>2. Max({largest, n}) \in {largest, n}
    BY <2>1, MaxOfTwo
  <2> QED
    BY <1>22, <2>2 DEF SetMaxParallel
<1>23. CASE UNCHANGED vars
  BY <1>23
<1> QED
  BY <1>1, <1>2, <1>3, <1>4, <1>5, <1>6, <1>7, <1>8, <1>9, <1>10, <1>11,
     <1>12, <1>13, <1>14, <1>15, <1>16, <1>17, <1>18, <1>19, <1>20,
     <1>21, <1>22, <1>23
     DEF Next, Thread, Client, Application, CheckLaunch, CheckFinished, Actors

\* Every step keeps HoldInv.
LEMMA HoldStep ==
  ASSUME TypeOK, HoldInv, [Next]_vars
  PROVE  HoldInv'
<1> USE TaskLauncherAssumption
<1> USE DEF TypeOK, HoldInv, Holding, vars, counters, flags, history
<1>1. ASSUME NEW a \in Actors, NEW f \in Tasks, Start(a, f) PROVE HoldInv'
  BY <1>1 DEF Start, Go
<1>2. ASSUME NEW a \in Actors, ReturnsRelaunch(a) PROVE HoldInv'
  BY <1>2 DEF ReturnsRelaunch, Go
<1>3. ASSUME NEW a \in Actors, ReturnsDone(a) PROVE HoldInv'
  BY <1>3 DEF ReturnsDone, Go
<1>4. ASSUME NEW a \in Actors, IncFinished(a) PROVE HoldInv'
  BY <1>4 DEF IncFinished, Go
<1>5. ASSUME NEW a \in Actors, NEW f \in Tasks, CallAddTask(a, f) PROVE HoldInv'
  BY <1>5 DEF CallAddTask, Go
<1>6. ASSUME NEW a \in Actors, Push(a) PROVE HoldInv'
  BY <1>6 DEF Push, Go
<1>7. ASSUME NEW a \in Actors,
            LoadFirst(a, "load", "loadFinished", "loadLaunched")
      PROVE  HoldInv'
  BY <1>7 DEF LoadFirst, Go
<1>8. ASSUME NEW a \in Actors,
            Decide(a, "loadFinished", reg[a], tasks_finished)
      PROVE  HoldInv'
  BY <1>8 DEF Decide, Go
<1>9. ASSUME NEW a \in Actors,
            Decide(a, "loadLaunched", tasks_launched, reg[a])
      PROVE  HoldInv'
  BY <1>9 DEF Decide, Go
<1>10. ASSUME NEW a \in Actors, Pop(a) PROVE HoldInv'
  <2>1. CASE task_q # <<>>
    <3>1. Head(task_q) \in Tasks /\ Tail(task_q) \in Seq(Tasks)
      BY <2>1, QueuePop
    <3> QED
      BY <1>10, <2>1, <3>1 DEF Pop, Go
  <2>2. CASE task_q = <<>>
    BY <1>10, <2>2 DEF Pop, Go
  <2> QED
    BY <2>1, <2>2
<1>11. ASSUME NEW a \in Actors, IncLaunched(a) PROVE HoldInv'
  BY <1>11 DEF IncLaunched, Go
<1>12. ASSUME NEW a \in Actors, HandOver(a) PROVE HoldInv'
  BY <1>12 DEF HandOver, Go
<1>13. ASSUME NEW a \in Actors,
            LoadFirst(a, "fin", "finLoadFinished", "finLoadLaunched")
      PROVE  HoldInv'
  BY <1>13 DEF LoadFirst, Go
<1>14. ASSUME NEW a \in Actors,
            CompareCounts(a, "finLoadFinished", tasks_finished)
      PROVE  HoldInv'
  BY <1>14 DEF CompareCounts, Go
<1>15. ASSUME NEW a \in Actors,
            CompareCounts(a, "finLoadLaunched", tasks_launched)
      PROVE  HoldInv'
  BY <1>15 DEF CompareCounts, Go
<1>16. ASSUME NEW a \in Actors, CheckNoMore(a) PROVE HoldInv'
  BY <1>16 DEF CheckNoMore, Go
<1>17. ASSUME NEW a \in Actors, CheckEmpty(a) PROVE HoldInv'
  BY <1>17 DEF CheckEmpty, Go
<1>18. ASSUME NEW a \in Actors, TryLock(a) PROVE HoldInv'
  BY <1>18 DEF TryLock, Go
<1>19. ASSUME NEW a \in Actors, TestAndSet(a) PROVE HoldInv'
  BY <1>19 DEF TestAndSet, Go
<1>20. ASSUME NEW a \in Actors, CallOnFinished(a) PROVE HoldInv'
  BY <1>20 DEF CallOnFinished, Go
<1>21. ASSUME NEW a \in Actors, SetNoMoreTasks(a) PROVE HoldInv'
  BY <1>21 DEF SetNoMoreTasks
<1>22. ASSUME NEW a \in Actors, NEW n \in Parallels,
            SetMaxParallel(a, n)
      PROVE  HoldInv'
  BY <1>22 DEF SetMaxParallel
<1>23. CASE UNCHANGED vars
  BY <1>23
<1> QED
  BY <1>1, <1>2, <1>3, <1>4, <1>5, <1>6, <1>7, <1>8, <1>9, <1>10, <1>11,
     <1>12, <1>13, <1>14, <1>15, <1>16, <1>17, <1>18, <1>19, <1>20,
     <1>21, <1>22, <1>23
     DEF Next, Thread, Client, Application, CheckLaunch, CheckFinished, Actors

\* Every step keeps FinishInv.
LEMMA FinishStep ==
  ASSUME TypeOK, FinishInv, [Next]_vars
  PROVE  FinishInv'
<1> USE DEF TypeOK, FinishInv, vars, counters, flags, history
<1>1. ASSUME NEW a \in Actors, NEW f \in Tasks, Start(a, f) PROVE FinishInv'
  BY <1>1 DEF Start, Go
<1>2. ASSUME NEW a \in Actors, ReturnsRelaunch(a) PROVE FinishInv'
  BY <1>2 DEF ReturnsRelaunch, Go
<1>3. ASSUME NEW a \in Actors, ReturnsDone(a) PROVE FinishInv'
  BY <1>3 DEF ReturnsDone, Go
<1>4. ASSUME NEW a \in Actors, IncFinished(a) PROVE FinishInv'
  BY <1>4 DEF IncFinished, Go
<1>5. ASSUME NEW a \in Actors, NEW f \in Tasks,
            CallAddTask(a, f)
      PROVE  FinishInv'
  BY <1>5 DEF CallAddTask, Go
<1>6. ASSUME NEW a \in Actors, Push(a) PROVE FinishInv'
  BY <1>6 DEF Push, Go
<1>7. ASSUME NEW a \in Actors,
            LoadFirst(a, "load", "loadFinished", "loadLaunched")
      PROVE  FinishInv'
  BY <1>7 DEF LoadFirst, Go
<1>8. ASSUME NEW a \in Actors,
            Decide(a, "loadFinished", reg[a], tasks_finished)
      PROVE  FinishInv'
  BY <1>8 DEF Decide, Go
<1>9. ASSUME NEW a \in Actors,
            Decide(a, "loadLaunched", tasks_launched, reg[a])
      PROVE  FinishInv'
  BY <1>9 DEF Decide, Go
<1>10. ASSUME NEW a \in Actors, Pop(a) PROVE FinishInv'
  BY <1>10 DEF Pop, Go
<1>11. ASSUME NEW a \in Actors, IncLaunched(a) PROVE FinishInv'
  BY <1>11 DEF IncLaunched, Go
<1>12. ASSUME NEW a \in Actors, HandOver(a) PROVE FinishInv'
  BY <1>12 DEF HandOver, Go
<1>13. ASSUME NEW a \in Actors,
            LoadFirst(a, "fin", "finLoadFinished", "finLoadLaunched")
      PROVE  FinishInv'
  BY <1>13 DEF LoadFirst, Go
<1>14. ASSUME NEW a \in Actors,
            CompareCounts(a, "finLoadFinished", tasks_finished)
      PROVE  FinishInv'
  BY <1>14 DEF CompareCounts, Go
<1>15. ASSUME NEW a \in Actors,
            CompareCounts(a, "finLoadLaunched", tasks_launched)
      PROVE  FinishInv'
  BY <1>15 DEF CompareCounts, Go
<1>16. ASSUME NEW a \in Actors, CheckNoMore(a) PROVE FinishInv'
  BY <1>16 DEF CheckNoMore, Go
<1>17. ASSUME NEW a \in Actors, CheckEmpty(a) PROVE FinishInv'
  BY <1>17 DEF CheckEmpty, Go
<1>18. ASSUME NEW a \in Actors, TryLock(a) PROVE FinishInv'
  BY <1>18 DEF TryLock, Go
<1>19. ASSUME NEW a \in Actors, TestAndSet(a) PROVE FinishInv'
  BY <1>19 DEF TestAndSet, Go
<1>20. ASSUME NEW a \in Actors, CallOnFinished(a) PROVE FinishInv'
  BY <1>20 DEF CallOnFinished, Go
<1>21. ASSUME NEW a \in Actors, SetNoMoreTasks(a) PROVE FinishInv'
  BY <1>21 DEF SetNoMoreTasks
<1>22. ASSUME NEW a \in Actors, NEW n \in Parallels,
            SetMaxParallel(a, n)
      PROVE  FinishInv'
  BY <1>22 DEF SetMaxParallel
<1>23. CASE UNCHANGED vars
  BY <1>23
<1> QED
  BY <1>1, <1>2, <1>3, <1>4, <1>5, <1>6, <1>7, <1>8, <1>9, <1>10, <1>11,
     <1>12, <1>13, <1>14, <1>15, <1>16, <1>17, <1>18, <1>19, <1>20,
     <1>21, <1>22, <1>23
     DEF Next, Thread, Client, Application, CheckLaunch, CheckFinished, Actors

\* Every step keeps RegInv.
LEMMA RegStep ==
  ASSUME TypeOK, RegInv, [Next]_vars
  PROVE  RegInv'
<1> USE DEF TypeOK, RegInv, vars, counters, flags, history
<1>1. ASSUME NEW a \in Actors, NEW f \in Tasks, Start(a, f) PROVE RegInv'
  BY <1>1 DEF Start, Go
<1>2. ASSUME NEW a \in Actors, ReturnsRelaunch(a) PROVE RegInv'
  BY <1>2 DEF ReturnsRelaunch, Go
<1>3. ASSUME NEW a \in Actors, ReturnsDone(a) PROVE RegInv'
  BY <1>3 DEF ReturnsDone, Go
<1>4. ASSUME NEW a \in Actors, IncFinished(a) PROVE RegInv'
  BY <1>4 DEF IncFinished, Go
<1>5. ASSUME NEW a \in Actors, NEW f \in Tasks, CallAddTask(a, f) PROVE RegInv'
  BY <1>5 DEF CallAddTask, Go
<1>6. ASSUME NEW a \in Actors, Push(a) PROVE RegInv'
  BY <1>6 DEF Push, Go
<1>7. ASSUME NEW a \in Actors,
            LoadFirst(a, "load", "loadFinished", "loadLaunched")
      PROVE  RegInv'
  <2>1. CASE pc' = [pc EXCEPT ![a] = "loadFinished"]
    BY <1>7, <2>1 DEF LoadFirst, Go
  <2>2. CASE pc' = [pc EXCEPT ![a] = "loadLaunched"]
    BY <1>7, <2>2 DEF LoadFirst, Go
  <2> QED
    BY <1>7, <2>1, <2>2 DEF LoadFirst, Go
<1>8. ASSUME NEW a \in Actors,
            Decide(a, "loadFinished", reg[a], tasks_finished)
      PROVE  RegInv'
  BY <1>8 DEF Decide, Go
<1>9. ASSUME NEW a \in Actors,
            Decide(a, "loadLaunched", tasks_launched, reg[a])
      PROVE  RegInv'
  BY <1>9 DEF Decide, Go
<1>10. ASSUME NEW a \in Actors, Pop(a) PROVE RegInv'
  BY <1>10 DEF Pop, Go
<1>11. ASSUME NEW a \in Actors, IncLaunched(a) PROVE RegInv'
  BY <1>11 DEF IncLaunched, Go
<1>12. ASSUME NEW a \in Actors, HandOver(a) PROVE RegInv'
  BY <1>12 DEF HandOver, Go
<1>13. ASSUME NEW a \in Actors,
            LoadFirst(a, "fin", "finLoadFinished", "finLoadLaunched")
      PROVE  RegInv'
  BY <1>13 DEF LoadFirst, Go
<1>14. ASSUME NEW a \in Actors,
            CompareCounts(a, "finLoadFinished", tasks_finished)
      PROVE  RegInv'
  BY <1>14 DEF CompareCounts, Go
<1>15. ASSUME NEW a \in Actors,
            CompareCounts(a, "finLoadLaunched", tasks_launched)
      PROVE  RegInv'
  BY <1>15 DEF CompareCounts, Go
<1>16. ASSUME NEW a \in Actors, CheckNoMore(a) PROVE RegInv'
  BY <1>16 DEF CheckNoMore, Go
<1>17. ASSUME NEW a \in Actors, CheckEmpty(a) PROVE RegInv'
  BY <1>17 DEF CheckEmpty, Go
<1>18. ASSUME NEW a \in Actors, TryLock(a) PROVE RegInv'
  BY <1>18 DEF TryLock, Go
<1>19. ASSUME NEW a \in Actors, TestAndSet(a) PROVE RegInv'
  BY <1>19 DEF TestAndSet, Go
<1>20. ASSUME NEW a \in Actors, CallOnFinished(a) PROVE RegInv'
  BY <1>20 DEF CallOnFinished, Go
<1>21. ASSUME NEW a \in Actors, SetNoMoreTasks(a) PROVE RegInv'
  BY <1>21 DEF SetNoMoreTasks
<1>22. ASSUME NEW a \in Actors, NEW n \in Parallels,
            SetMaxParallel(a, n)
      PROVE  RegInv'
  <2>1. largest \in Nat /\ n \in Nat /\ m_max_parallel \in Nat
    BY TaskLauncherAssumption
  <2>2. Max({largest, n}) >= n
    BY <2>1, MaxOfTwo
  <2> QED
    BY <1>22, <2>2 DEF SetMaxParallel
<1>23. CASE UNCHANGED vars
  BY <1>23
<1> QED
  BY <1>1, <1>2, <1>3, <1>4, <1>5, <1>6, <1>7, <1>8, <1>9, <1>10, <1>11,
     <1>12, <1>13, <1>14, <1>15, <1>16, <1>17, <1>18, <1>19, <1>20,
     <1>21, <1>22, <1>23
     DEF Next, Thread, Client, Application, CheckLaunch, CheckFinished, Actors

-------------------------------------------------------------------------------
(* Where a task is. *)

\* A queue of tasks is indexed from 1 to its length.
LEMMA QueueDomain ==
  ASSUME NEW q \in Seq(Tasks)
  PROVE  DOMAIN q = 1 .. Len(q) /\ Len(q) \in Nat
OBVIOUS

\* The task in the actor's hand goes to the end of the queue.
LEMMA PushPlaces ==
  ASSUME TypeOK, HoldInv, PlaceInv, NEW a \in Actors, Push(a)
  PROVE  PlaceInv'
<1> DEFINE n == Len(task_q)
<1>1. /\ held[a] \in Tasks /\ held[a] # None
      /\ held' = [held EXCEPT ![a] = None]
      /\ UNCHANGED <<pending, done, added>>
  BY DEF TypeOK, HoldInv, Holding, Push, Go, history
<1>2. /\ n \in Nat /\ task_q' \in Seq(Tasks)
      /\ DOMAIN task_q = 1 .. n /\ DOMAIN task_q' = 1 .. n + 1
      /\ task_q'[n + 1] = held[a]
      /\ \A i \in 1 .. n : task_q'[i] = task_q[i]
  BY <1>1, QueuePush, QueueDomain DEF TypeOK, Push
<1> HIDE DEF n
<1>3. \A i \in DOMAIN task_q : task_q[i] # held[a]
  BY <1>1 DEF PlaceInv, InQueue
<1>4. \A i \in DOMAIN task_q' : task_q'[i] = held[a] \/ InQueue(task_q, task_q'[i])
  BY <1>2 DEF InQueue
<1>5. \A f : InQueue(task_q', f) <=> InQueue(task_q, f) \/ f = held[a]
  <2>1. \A f : InQueue(task_q, f) => \E i \in DOMAIN task_q' : task_q'[i] = f
    BY <1>2 DEF InQueue
  <2>2. \E i \in DOMAIN task_q' : task_q'[i] = held[a]
    BY <1>2
  <2>3. \A f : (\E i \in DOMAIN task_q' : task_q'[i] = f) => InQueue(task_q, f) \/ f = held[a]
    BY <1>4
  <2> QED
    BY <2>1, <2>2, <2>3 DEF InQueue
<1>6. \A b \in Actors : held'[b] = IF b = a THEN None ELSE held[b]
  BY <1>1 DEF TypeOK
<1>7. \A i, j \in DOMAIN task_q' : task_q'[i] = task_q'[j] => i = j
  BY <1>2, <1>3 DEF PlaceInv
<1>8. \A b \in Actors : held'[b] # None =>
        held'[b] \in added' \ (pending' \cup done') /\ ~InQueue(task_q', held'[b])
  BY <1>1, <1>5, <1>6 DEF PlaceInv
<1>9. \A i \in DOMAIN task_q' : task_q'[i] \in added' \ (pending' \cup done')
  BY <1>1, <1>4 DEF PlaceInv, InQueue
<1>10. \A f \in added' \ (pending' \cup done') :
         InQueue(task_q', f) \/ \E b \in Actors : held'[b] = f
  BY <1>1, <1>5, <1>6 DEF PlaceInv
<1>11. \A b, c \in Actors : held'[b] # None /\ held'[b] = held'[c] => b = c
  BY <1>6 DEF PlaceInv
<1> QED
  BY <1>1, <1>7, <1>8, <1>9, <1>10, <1>11 DEF PlaceInv

\* The first task of the queue comes into the actor's hand.
LEMMA PopPlaces ==
  ASSUME TypeOK, HoldInv, PlaceInv, NEW a \in Actors, Pop(a), task_q # <<>>
  PROVE  PlaceInv'
<1> DEFINE n == Len(task_q)
           h == Head(task_q)
<1>1. /\ held[a] = None
      /\ held' = [held EXCEPT ![a] = h]
      /\ UNCHANGED <<pending, done, added>>
  BY DEF TypeOK, HoldInv, Holding, Pop, Go, history
<1>2. /\ n \in Nat \ {0} /\ h \in Tasks /\ h = task_q[1]
      /\ DOMAIN task_q = 1 .. n /\ DOMAIN task_q' = 1 .. n - 1
      /\ \A i \in 1 .. n - 1 : task_q'[i] = task_q[i + 1]
  <2>1. task_q' = Tail(task_q) /\ task_q \in Seq(Tasks)
    BY DEF TypeOK, Pop
  <2>2. /\ h \in Tasks /\ h = task_q[1] /\ n \in Nat \ {0}
        /\ Tail(task_q) \in Seq(Tasks) /\ Len(Tail(task_q)) = n - 1
        /\ \A i \in 1 .. Len(Tail(task_q)) : Tail(task_q)[i] = task_q[i + 1]
    BY <2>1, QueuePop
  <2> QED
    BY <2>1, <2>2, QueueDomain
<1> HIDE DEF n, h
<1>3. h # None /\ InQueue(task_q, h)
  BY <1>2, TaskLauncherAssumption DEF InQueue
<1>4. \A i \in DOMAIN task_q' : task_q'[i] # h
  BY <1>2 DEF PlaceInv
<1>5. \A f : InQueue(task_q, f) <=> InQueue(task_q', f) \/ f = h
  <2>1. \A i \in DOMAIN task_q : task_q[i] = h \/ \E j \in DOMAIN task_q' : task_q'[j] = task_q[i]
    <3>1. TAKE i \in DOMAIN task_q
    <3>2. CASE i = 1
      BY <1>2, <3>2
    <3>3. CASE i # 1
      <4>1. i - 1 \in 1 .. n - 1 /\ (i - 1) + 1 = i
        BY <1>2, <3>3
      <4> QED
        BY <1>2, <4>1
    <3> QED
      BY <3>2, <3>3
  <2>2. \A j \in DOMAIN task_q' : \E i \in DOMAIN task_q : task_q[i] = task_q'[j]
    BY <1>2
  <2> QED
    BY <2>1, <2>2, <1>3 DEF InQueue
<1>6. \A b \in Actors : held'[b] = IF b = a THEN h ELSE held[b]
  BY <1>1 DEF TypeOK
<1>7. \A i, j \in DOMAIN task_q' : task_q'[i] = task_q'[j] => i = j
  BY <1>2 DEF PlaceInv
<1>8. ~InQueue(task_q', h)
  BY <1>4 DEF InQueue
<1>9. h \in added \ (pending \cup done)
  BY <1>3 DEF PlaceInv, InQueue
<1>10. \A b \in Actors : held[b] # h
  BY <1>3 DEF PlaceInv
<1>11. \A b \in Actors : held'[b] # None =>
        held'[b] \in added' \ (pending' \cup done') /\ ~InQueue(task_q', held'[b])
  BY <1>1, <1>5, <1>6, <1>8, <1>9 DEF PlaceInv
<1>12. \A i \in DOMAIN task_q' : task_q'[i] \in added' \ (pending' \cup done')
  BY <1>1, <1>2 DEF PlaceInv
<1>13. \A f \in added' \ (pending' \cup done') :
         InQueue(task_q', f) \/ \E b \in Actors : held'[b] = f
  <2>1. TAKE f \in added' \ (pending' \cup done')
  <2>2. f # None /\ f \in added \ (pending \cup done)
    BY <1>1, TaskLauncherAssumption DEF TypeOK
  <2> QED
    BY <1>1, <1>5, <1>6, <2>2 DEF PlaceInv
<1>14. \A b, c \in Actors : held'[b] # None /\ held'[b] = held'[c] => b = c
  BY <1>6, <1>10 DEF PlaceInv
<1> QED
  BY <1>1, <1>7, <1>11, <1>12, <1>13, <1>14 DEF PlaceInv

\* A pool thread takes a task that was pending.
LEMMA StartPlaces ==
  ASSUME TypeOK, HoldInv, PlaceInv, NEW a \in Actors, NEW f \in Tasks, Start(a, f)
  PROVE  PlaceInv'
<1>1. /\ \A b \in Actors : held'[b] = IF b = a THEN f ELSE held[b]
      /\ held[a] = None
  BY DEF TypeOK, HoldInv, Holding, Start, Go
<1>2. /\ f \in added \ done /\ ~InQueue(task_q, f)
      /\ \A b \in Actors : held[b] # f
      /\ UNCHANGED task_q
  BY TaskLauncherAssumption DEF Start, PlaceInv, InQueue
<1>3. /\ f # None /\ f \in pending /\ pending' = pending \ {f}
      /\ UNCHANGED <<added, done>>
  BY TaskLauncherAssumption DEF Start, history
<1>10. \A b, c \in Actors : held'[b] # None /\ held'[b] = held'[c] => b = c
  BY <1>1, <1>2, <1>3 DEF PlaceInv
<1>11. \A b \in Actors : held'[b] # None =>
        held'[b] \in added' \ (pending' \cup done') /\ ~InQueue(task_q', held'[b])
  BY <1>1, <1>2, <1>3 DEF PlaceInv
<1>12. \A i \in DOMAIN task_q' : task_q'[i] \in added' \ (pending' \cup done')
  BY <1>1, <1>2, <1>3 DEF PlaceInv, InQueue
<1>13. pending' \subseteq added' \ done' /\ done' \subseteq added'
  BY <1>1, <1>2, <1>3 DEF PlaceInv
<1>14. \A g \in added' \ (pending' \cup done') :
         InQueue(task_q', g) \/ \E b \in Actors : held'[b] = g
  <2>1. TAKE g \in added' \ (pending' \cup done')
  <2>2. g # None
    BY <1>3, TaskLauncherAssumption DEF TypeOK
  <2> QED
    BY <1>1, <1>2, <1>3, <2>2 DEF PlaceInv
<1> QED
  BY <1>2, <1>10, <1>11, <1>12, <1>13, <1>14 DEF PlaceInv

\* A task that returned NO_RELAUNCH is over.
LEMMA ReturnsDonePlaces ==
  ASSUME TypeOK, HoldInv, PlaceInv, NEW a \in Actors, ReturnsDone(a)
  PROVE  PlaceInv'
<1>1. \A b \in Actors : held'[b] = IF b = a THEN None ELSE held[b]
  BY DEF TypeOK, ReturnsDone
<1>2. held[a] # None /\ UNCHANGED task_q
  BY DEF HoldInv, Holding, ReturnsDone, Go
<1>3. done' = done \cup {held[a]} /\ UNCHANGED <<pending, added>>
  BY DEF ReturnsDone
<1>10. \A b, c \in Actors : held'[b] # None /\ held'[b] = held'[c] => b = c
  BY <1>1, <1>2, <1>3 DEF PlaceInv
<1>11. \A b \in Actors : held'[b] # None =>
        held'[b] \in added' \ (pending' \cup done') /\ ~InQueue(task_q', held'[b])
  BY <1>1, <1>2, <1>3 DEF PlaceInv
<1>12. \A i \in DOMAIN task_q' : task_q'[i] \in added' \ (pending' \cup done')
  BY <1>1, <1>2, <1>3 DEF PlaceInv, InQueue
<1>13. pending' \subseteq added' \ done' /\ done' \subseteq added'
  BY <1>1, <1>2, <1>3 DEF PlaceInv
<1>14. \A g \in added' \ (pending' \cup done') :
         InQueue(task_q', g) \/ \E b \in Actors : held'[b] = g
  <2>1. TAKE g \in added' \ (pending' \cup done')
  <2>2. g # None
    BY <1>3, TaskLauncherAssumption DEF TypeOK
  <2> QED
    BY <1>1, <1>2, <1>3, <2>2 DEF PlaceInv
<1> QED
  BY <1>2, <1>10, <1>11, <1>12, <1>13, <1>14 DEF PlaceInv

\* A task nobody had added is in the hand of the caller.
LEMMA CallAddTaskPlaces ==
  ASSUME TypeOK, HoldInv, PlaceInv, NEW a \in Actors, NEW f \in Tasks, CallAddTask(a, f)
  PROVE  PlaceInv'
<1>1. /\ \A b \in Actors : held'[b] = IF b = a THEN f ELSE held[b]
      /\ held[a] = None
  BY DEF TypeOK, HoldInv, Holding, CallAddTask, Go
<1>2. /\ f \notin added /\ ~InQueue(task_q, f)
      /\ \A b \in Actors : held[b] # f
      /\ UNCHANGED task_q
  BY TaskLauncherAssumption DEF CallAddTask, PlaceInv, InQueue
<1>3. f # None /\ added' = added \cup {f} /\ UNCHANGED <<pending, done>>
  BY TaskLauncherAssumption DEF CallAddTask
<1>10. \A b, c \in Actors : held'[b] # None /\ held'[b] = held'[c] => b = c
  BY <1>1, <1>2, <1>3 DEF PlaceInv
<1>11. \A b \in Actors : held'[b] # None =>
        held'[b] \in added' \ (pending' \cup done') /\ ~InQueue(task_q', held'[b])
  BY <1>1, <1>2, <1>3 DEF PlaceInv
<1>12. \A i \in DOMAIN task_q' : task_q'[i] \in added' \ (pending' \cup done')
  BY <1>1, <1>2, <1>3 DEF PlaceInv, InQueue
<1>13. pending' \subseteq added' \ done' /\ done' \subseteq added'
  BY <1>1, <1>2, <1>3 DEF PlaceInv
<1>14. \A g \in added' \ (pending' \cup done') :
         InQueue(task_q', g) \/ \E b \in Actors : held'[b] = g
  <2>1. TAKE g \in added' \ (pending' \cup done')
  <2>2. g # None
    BY <1>3, TaskLauncherAssumption DEF TypeOK
  <2> QED
    BY <1>1, <1>2, <1>3, <2>2 DEF PlaceInv
<1> QED
  BY <1>2, <1>10, <1>11, <1>12, <1>13, <1>14 DEF PlaceInv

\* The task in the actor's hand goes to the pool.
LEMMA HandOverPlaces ==
  ASSUME TypeOK, HoldInv, PlaceInv, NEW a \in Actors, HandOver(a)
  PROVE  PlaceInv'
<1>1. \A b \in Actors : held'[b] = IF b = a THEN None ELSE held[b]
  BY DEF TypeOK, HandOver
<1>2. held[a] # None /\ UNCHANGED task_q
  BY DEF HoldInv, Holding, HandOver, Go
<1>3. pending' = pending \cup {held[a]} /\ UNCHANGED <<done, added>>
  BY DEF HandOver, history
<1>10. \A b, c \in Actors : held'[b] # None /\ held'[b] = held'[c] => b = c
  BY <1>1, <1>2, <1>3 DEF PlaceInv
<1>11. \A b \in Actors : held'[b] # None =>
        held'[b] \in added' \ (pending' \cup done') /\ ~InQueue(task_q', held'[b])
  BY <1>1, <1>2, <1>3 DEF PlaceInv
<1>12. \A i \in DOMAIN task_q' : task_q'[i] \in added' \ (pending' \cup done')
  BY <1>1, <1>2, <1>3 DEF PlaceInv, InQueue
<1>13. pending' \subseteq added' \ done' /\ done' \subseteq added'
  BY <1>1, <1>2, <1>3 DEF PlaceInv
<1>14. \A g \in added' \ (pending' \cup done') :
         InQueue(task_q', g) \/ \E b \in Actors : held'[b] = g
  <2>1. TAKE g \in added' \ (pending' \cup done')
  <2>2. g # None
    BY <1>3, TaskLauncherAssumption DEF TypeOK
  <2> QED
    BY <1>1, <1>2, <1>3, <2>2 DEF PlaceInv
<1> QED
  BY <1>2, <1>10, <1>11, <1>12, <1>13, <1>14 DEF PlaceInv

\* Every step keeps PlaceInv.
LEMMA PlaceStep ==
  ASSUME TypeOK, HoldInv, PlaceInv, [Next]_vars
  PROVE  PlaceInv'
<1> USE TaskLauncherAssumption
<1> USE DEF TypeOK, HoldInv, Holding, PlaceInv, vars, counters, flags, history
<1>1. ASSUME NEW a \in Actors, NEW f \in Tasks, Start(a, f) PROVE PlaceInv'
  BY <1>1, StartPlaces
<1>2. ASSUME NEW a \in Actors, ReturnsRelaunch(a) PROVE PlaceInv'
  BY <1>2 DEF ReturnsRelaunch, Go
<1>3. ASSUME NEW a \in Actors, ReturnsDone(a) PROVE PlaceInv'
  BY <1>3, ReturnsDonePlaces
<1>4. ASSUME NEW a \in Actors, IncFinished(a) PROVE PlaceInv'
  BY <1>4 DEF IncFinished, Go
<1>5. ASSUME NEW a \in Actors, NEW f \in Tasks,
            CallAddTask(a, f)
      PROVE  PlaceInv'
  BY <1>5, CallAddTaskPlaces
<1>6. ASSUME NEW a \in Actors, Push(a) PROVE PlaceInv'
  BY <1>6, PushPlaces
<1>7. ASSUME NEW a \in Actors,
            LoadFirst(a, "load", "loadFinished", "loadLaunched")
      PROVE  PlaceInv'
  BY <1>7 DEF LoadFirst, Go
<1>8. ASSUME NEW a \in Actors,
            Decide(a, "loadFinished", reg[a], tasks_finished)
      PROVE  PlaceInv'
  BY <1>8 DEF Decide, Go
<1>9. ASSUME NEW a \in Actors,
            Decide(a, "loadLaunched", tasks_launched, reg[a])
      PROVE  PlaceInv'
  BY <1>9 DEF Decide, Go
<1>10. ASSUME NEW a \in Actors, Pop(a) PROVE PlaceInv'
  <2>1. CASE task_q # <<>>
    BY <1>10, <2>1, PopPlaces
  <2>2. CASE task_q = <<>>
    BY <1>10, <2>2 DEF Pop
  <2> QED
    BY <2>1, <2>2
<1>11. ASSUME NEW a \in Actors, IncLaunched(a) PROVE PlaceInv'
  BY <1>11 DEF IncLaunched, Go
<1>12. ASSUME NEW a \in Actors, HandOver(a) PROVE PlaceInv'
  BY <1>12, HandOverPlaces
<1>13. ASSUME NEW a \in Actors,
            LoadFirst(a, "fin", "finLoadFinished", "finLoadLaunched")
      PROVE  PlaceInv'
  BY <1>13 DEF LoadFirst, Go
<1>14. ASSUME NEW a \in Actors,
            CompareCounts(a, "finLoadFinished", tasks_finished)
      PROVE  PlaceInv'
  BY <1>14 DEF CompareCounts, Go
<1>15. ASSUME NEW a \in Actors,
            CompareCounts(a, "finLoadLaunched", tasks_launched)
      PROVE  PlaceInv'
  BY <1>15 DEF CompareCounts, Go
<1>16. ASSUME NEW a \in Actors, CheckNoMore(a) PROVE PlaceInv'
  BY <1>16 DEF CheckNoMore, Go
<1>17. ASSUME NEW a \in Actors, CheckEmpty(a) PROVE PlaceInv'
  BY <1>17 DEF CheckEmpty, Go
<1>18. ASSUME NEW a \in Actors, TryLock(a) PROVE PlaceInv'
  BY <1>18 DEF TryLock, Go
<1>19. ASSUME NEW a \in Actors, TestAndSet(a) PROVE PlaceInv'
  BY <1>19 DEF TestAndSet, Go
<1>20. ASSUME NEW a \in Actors, CallOnFinished(a) PROVE PlaceInv'
  BY <1>20 DEF CallOnFinished, Go
<1>21. ASSUME NEW a \in Actors, SetNoMoreTasks(a) PROVE PlaceInv'
  BY <1>21 DEF SetNoMoreTasks
<1>22. ASSUME NEW a \in Actors, NEW n \in Parallels,
            SetMaxParallel(a, n)
      PROVE  PlaceInv'
  BY <1>22 DEF SetMaxParallel
<1>23. CASE UNCHANGED vars
  BY <1>23
<1> QED
  BY <1>1, <1>2, <1>3, <1>4, <1>5, <1>6, <1>7, <1>8, <1>9, <1>10, <1>11,
     <1>12, <1>13, <1>14, <1>15, <1>16, <1>17, <1>18, <1>19, <1>20,
     <1>21, <1>22, <1>23
     DEF Next, Thread, Client, Application, CheckLaunch, CheckFinished, Actors

-------------------------------------------------------------------------------
(* What the counters count. *)

\* The sets of actors that the invariants count are finite.
LEMMA FiniteActors ==
  ASSUME NEW S, S \subseteq Actors
  PROVE  IsFiniteSet(S) /\ Cardinality(S) \in Nat
BY FS_Subset, FS_CardinalityType, TaskLauncherAssumption

\* Every step keeps CountInv.
LEMMA CountStep ==
  ASSUME TypeOK, HoldInv, PlaceInv, CountInv, [Next]_vars
  PROVE  CountInv'
<1> USE DEF TypeOK, vars, counters, flags, history
<1>f. /\ IsFiniteSet(Handing) /\ Cardinality(Handing) \in Nat
      /\ IsFiniteSet(Running) /\ Cardinality(Running) \in Nat
  BY FiniteActors DEF Handing, Running
<1>c. Cardinality(pending) \in Nat
  BY FS_CardinalityType DEF CountInv
<1>1. ASSUME NEW a \in Actors, NEW f \in Tasks, Start(a, f) PROVE CountInv'
  <2>1. Handing' = Handing /\ Running' = Running \cup {a} /\ a \notin Running
    BY <1>1 DEF Handing, Running, Start, Go
  <2>2. f \in pending /\ pending' = pending \ {f}
    BY <1>1 DEF Start
  <2>3. UNCHANGED <<tasks_launched, tasks_finished>>
    BY <1>1 DEF Start
  <2>4. Cardinality(Running') = Cardinality(Running) + 1
    BY <1>f, <2>1, FS_AddElement
  <2>5. IsFiniteSet(pending') /\ Cardinality(pending') = Cardinality(pending) - 1
    BY <2>2, FS_RemoveElement DEF CountInv
  <2> QED
    BY <1>f, <1>c, <2>1, <2>3, <2>4, <2>5 DEF CountInv, InFlight
<1>2. ASSUME NEW a \in Actors, ReturnsRelaunch(a) PROVE CountInv'
  <2>1. Handing' = Handing /\ Running' = Running
    BY <1>2 DEF Handing, Running, ReturnsRelaunch, Go
  <2>2. UNCHANGED <<pending, tasks_launched, tasks_finished>>
    BY <1>2 DEF ReturnsRelaunch, Go
  <2> QED
    BY <2>1, <2>2 DEF CountInv, InFlight
<1>3. ASSUME NEW a \in Actors, ReturnsDone(a) PROVE CountInv'
  <2>1. Handing' = Handing /\ Running' = Running
    BY <1>3 DEF Handing, Running, ReturnsDone, Go
  <2>2. UNCHANGED <<pending, tasks_launched, tasks_finished>>
    BY <1>3 DEF ReturnsDone, Go
  <2> QED
    BY <2>1, <2>2 DEF CountInv, InFlight
<1>4. ASSUME NEW a \in Actors, IncFinished(a) PROVE CountInv'
  <2>1. Handing' = Handing /\ Running' = Running \ {a} /\ a \in Running
    BY <1>4 DEF Handing, Running, IncFinished, Go
  <2>2. Cardinality(Running') = Cardinality(Running) - 1
    BY <1>f, <2>1, FS_RemoveElement
  <2>3. /\ tasks_finished' = tasks_finished + 1
        /\ UNCHANGED <<pending, tasks_launched>>
    BY <1>4 DEF IncFinished
  <2>4. /\ IsFiniteSet(pending') /\ Cardinality(pending') = Cardinality(pending)
        /\ Cardinality(Handing') = Cardinality(Handing)
    BY <2>1, <2>3 DEF CountInv
  <2>5. InFlight \in Int /\ InFlight' = InFlight - 1
    BY <2>3 DEF InFlight
  <2> QED
    BY <1>f, <1>c, <2>2, <2>4, <2>5 DEF CountInv
<1>5. ASSUME NEW a \in Actors, NEW f \in Tasks,
            CallAddTask(a, f)
      PROVE  CountInv'
  <2>1. Handing' = Handing /\ Running' = Running
    BY <1>5 DEF Handing, Running, CallAddTask, Go
  <2>2. UNCHANGED <<pending, tasks_launched, tasks_finished>>
    BY <1>5 DEF CallAddTask, Go
  <2> QED
    BY <2>1, <2>2 DEF CountInv, InFlight
<1>6. ASSUME NEW a \in Actors, Push(a) PROVE CountInv'
  <2>1. Handing' = Handing /\ Running' = Running
    BY <1>6 DEF Handing, Running, Push, Go
  <2>2. UNCHANGED <<pending, tasks_launched, tasks_finished>>
    BY <1>6 DEF Push, Go
  <2> QED
    BY <2>1, <2>2 DEF CountInv, InFlight
<1>7. ASSUME NEW a \in Actors,
            LoadFirst(a, "load", "loadFinished", "loadLaunched")
      PROVE  CountInv'
  <2>1. Handing' = Handing /\ Running' = Running
    BY <1>7 DEF Handing, Running, LoadFirst, Go
  <2>2. UNCHANGED <<pending, tasks_launched, tasks_finished>>
    BY <1>7 DEF LoadFirst, Go
  <2> QED
    BY <2>1, <2>2 DEF CountInv, InFlight
<1>8. ASSUME NEW a \in Actors,
            Decide(a, "loadFinished", reg[a], tasks_finished)
      PROVE  CountInv'
  <2>1. Handing' = Handing /\ Running' = Running
    BY <1>8 DEF Handing, Running, Decide, Go
  <2>2. UNCHANGED <<pending, tasks_launched, tasks_finished>>
    BY <1>8 DEF Decide, Go
  <2> QED
    BY <2>1, <2>2 DEF CountInv, InFlight
<1>9. ASSUME NEW a \in Actors,
            Decide(a, "loadLaunched", tasks_launched, reg[a])
      PROVE  CountInv'
  <2>1. Handing' = Handing /\ Running' = Running
    BY <1>9 DEF Handing, Running, Decide, Go
  <2>2. UNCHANGED <<pending, tasks_launched, tasks_finished>>
    BY <1>9 DEF Decide, Go
  <2> QED
    BY <2>1, <2>2 DEF CountInv, InFlight
<1>10. ASSUME NEW a \in Actors, Pop(a) PROVE CountInv'
  <2>1. Handing' = Handing /\ Running' = Running
    BY <1>10 DEF Handing, Running, Pop, Go
  <2>2. UNCHANGED <<pending, tasks_launched, tasks_finished>>
    BY <1>10 DEF Pop, Go
  <2> QED
    BY <2>1, <2>2 DEF CountInv, InFlight
<1>11. ASSUME NEW a \in Actors, IncLaunched(a) PROVE CountInv'
  <2>1. Handing' = Handing \cup {a} /\ a \notin Handing /\ Running' = Running
    BY <1>11 DEF Handing, Running, IncLaunched, Go
  <2>2. Cardinality(Handing') = Cardinality(Handing) + 1
    BY <1>f, <2>1, FS_AddElement
  <2>3. /\ tasks_launched' = tasks_launched + 1
        /\ UNCHANGED <<pending, tasks_finished>>
    BY <1>11 DEF IncLaunched
  <2>4. /\ IsFiniteSet(pending') /\ Cardinality(pending') = Cardinality(pending)
        /\ Cardinality(Running') = Cardinality(Running)
    BY <2>1, <2>3 DEF CountInv
  <2>5. InFlight \in Int /\ InFlight' = InFlight + 1
    BY <2>3 DEF InFlight
  <2> QED
    BY <1>f, <1>c, <2>2, <2>4, <2>5 DEF CountInv
<1>12. ASSUME NEW a \in Actors, HandOver(a) PROVE CountInv'
  <2>1. Handing' = Handing \ {a} /\ a \in Handing /\ Running' = Running
    BY <1>12 DEF Handing, Running, HandOver, Go
  <2>2. Cardinality(Handing') = Cardinality(Handing) - 1
    BY <1>f, <2>1, FS_RemoveElement
  <2>3. held[a] \notin pending /\ pending' = pending \cup {held[a]}
    BY <1>12 DEF HandOver, Go, HoldInv, Holding, PlaceInv
  <2>4. IsFiniteSet(pending') /\ Cardinality(pending') = Cardinality(pending) + 1
    BY <2>3, FS_AddElement DEF CountInv
  <2>5. UNCHANGED <<tasks_launched, tasks_finished>>
    BY <1>12 DEF HandOver
  <2> QED
    BY <1>f, <1>c, <2>1, <2>2, <2>4, <2>5 DEF CountInv, InFlight
<1>13. ASSUME NEW a \in Actors,
            LoadFirst(a, "fin", "finLoadFinished", "finLoadLaunched")
      PROVE  CountInv'
  <2>1. Handing' = Handing /\ Running' = Running
    BY <1>13 DEF Handing, Running, LoadFirst, Go
  <2>2. UNCHANGED <<pending, tasks_launched, tasks_finished>>
    BY <1>13 DEF LoadFirst, Go
  <2> QED
    BY <2>1, <2>2 DEF CountInv, InFlight
<1>14. ASSUME NEW a \in Actors,
            CompareCounts(a, "finLoadFinished", tasks_finished)
      PROVE  CountInv'
  <2>1. Handing' = Handing /\ Running' = Running
    BY <1>14 DEF Handing, Running, CompareCounts, Go
  <2>2. UNCHANGED <<pending, tasks_launched, tasks_finished>>
    BY <1>14 DEF CompareCounts, Go
  <2> QED
    BY <2>1, <2>2 DEF CountInv, InFlight
<1>15. ASSUME NEW a \in Actors,
            CompareCounts(a, "finLoadLaunched", tasks_launched)
      PROVE  CountInv'
  <2>1. Handing' = Handing /\ Running' = Running
    BY <1>15 DEF Handing, Running, CompareCounts, Go
  <2>2. UNCHANGED <<pending, tasks_launched, tasks_finished>>
    BY <1>15 DEF CompareCounts, Go
  <2> QED
    BY <2>1, <2>2 DEF CountInv, InFlight
<1>16. ASSUME NEW a \in Actors, CheckNoMore(a) PROVE CountInv'
  <2>1. Handing' = Handing /\ Running' = Running
    BY <1>16 DEF Handing, Running, CheckNoMore, Go
  <2>2. UNCHANGED <<pending, tasks_launched, tasks_finished>>
    BY <1>16 DEF CheckNoMore, Go
  <2> QED
    BY <2>1, <2>2 DEF CountInv, InFlight
<1>17. ASSUME NEW a \in Actors, CheckEmpty(a) PROVE CountInv'
  <2>1. Handing' = Handing /\ Running' = Running
    BY <1>17 DEF Handing, Running, CheckEmpty, Go
  <2>2. UNCHANGED <<pending, tasks_launched, tasks_finished>>
    BY <1>17 DEF CheckEmpty, Go
  <2> QED
    BY <2>1, <2>2 DEF CountInv, InFlight
<1>18. ASSUME NEW a \in Actors, TryLock(a) PROVE CountInv'
  <2>1. Handing' = Handing /\ Running' = Running
    BY <1>18 DEF Handing, Running, TryLock, Go
  <2>2. UNCHANGED <<pending, tasks_launched, tasks_finished>>
    BY <1>18 DEF TryLock, Go
  <2> QED
    BY <2>1, <2>2 DEF CountInv, InFlight
<1>19. ASSUME NEW a \in Actors, TestAndSet(a) PROVE CountInv'
  <2>1. Handing' = Handing /\ Running' = Running
    BY <1>19 DEF Handing, Running, TestAndSet, Go
  <2>2. UNCHANGED <<pending, tasks_launched, tasks_finished>>
    BY <1>19 DEF TestAndSet, Go
  <2> QED
    BY <2>1, <2>2 DEF CountInv, InFlight
<1>20. ASSUME NEW a \in Actors, CallOnFinished(a) PROVE CountInv'
  <2>1. Handing' = Handing /\ Running' = Running
    BY <1>20 DEF Handing, Running, CallOnFinished, Go
  <2>2. UNCHANGED <<pending, tasks_launched, tasks_finished>>
    BY <1>20 DEF CallOnFinished, Go
  <2> QED
    BY <2>1, <2>2 DEF CountInv, InFlight
<1>21. ASSUME NEW a \in Actors, SetNoMoreTasks(a) PROVE CountInv'
  <2>1. Handing' = Handing /\ Running' = Running
    BY <1>21 DEF Handing, Running, SetNoMoreTasks
  <2>2. UNCHANGED <<pending, tasks_launched, tasks_finished>>
    BY <1>21 DEF SetNoMoreTasks
  <2> QED
    BY <2>1, <2>2 DEF CountInv, InFlight
<1>22. ASSUME NEW a \in Actors, NEW n \in Parallels,
            SetMaxParallel(a, n)
      PROVE  CountInv'
  <2>1. Handing' = Handing /\ Running' = Running
    BY <1>22 DEF Handing, Running, SetMaxParallel
  <2>2. UNCHANGED <<pending, tasks_launched, tasks_finished>>
    BY <1>22 DEF SetMaxParallel
  <2> QED
    BY <2>1, <2>2 DEF CountInv, InFlight
<1>23. CASE UNCHANGED vars
  BY <1>23 DEF CountInv, InFlight, Handing, Running
<1> QED
  BY <1>1, <1>2, <1>3, <1>4, <1>5, <1>6, <1>7, <1>8, <1>9, <1>10, <1>11,
     <1>12, <1>13, <1>14, <1>15, <1>16, <1>17, <1>18, <1>19, <1>20,
     <1>21, <1>22, <1>23
     DEF Next, Thread, Client, Application, CheckLaunch, CheckFinished, Actors

-------------------------------------------------------------------------------
(* How far the limit can be exceeded. *)

\* size_t arithmetic is exact below the modulus.
LEMMA SmallModulo ==
  ASSUME NEW x \in Nat, NEW m \in Nat, x < m
  PROVE  x % m = x
OBVIOUS

\* The difference of the counters is a number of tasks.
LEMMA InFlightNonNegative ==
  ASSUME CountInv
  PROVE  0 <= InFlight
<1>1. /\ Cardinality(pending) \in Nat /\ Cardinality(Handing) \in Nat
      /\ Cardinality(Running) \in Nat
  BY FS_CardinalityType, FiniteActors DEF CountInv, Handing, Running
<1> QED
  BY <1>1 DEF CountInv

\* A step commits no actor that matters for OvershootInv.
NobodyCommits ==
  \A k \in Nat \ {0} : k <= InFlight' - largest' + 1 =>
                         Committed(k)' \subseteq Committed(k)

\* A step that commits no actor and launches nothing keeps OvershootInv.
LEMMA FewerCommitted ==
  ASSUME TypeOK, OvershootInv,
         tasks_launched' = tasks_launched,
         tasks_finished' \in Nat, tasks_finished' >= tasks_finished,
         largest' \in Nat, largest' >= largest, NobodyCommits
  PROVE  OvershootInv'
<1>1. SUFFICES ASSUME NEW k \in Nat \ {0}, k <= InFlight' - largest' + 1
               PROVE  Cardinality(Committed(k)') + k <= Cardinality(Actors)
  BY DEF OvershootInv
<1>2. Cardinality(Committed(k)) + k <= Cardinality(Actors)
  <2>1. k <= tasks_launched - tasks_finished' - largest' + 1
    BY <1>1 DEF InFlight
  <2>2. largest \in Nat /\ tasks_launched \in Nat /\ tasks_finished \in Nat
    BY TaskLauncherAssumption DEF TypeOK
  <2>3. \A g, m \in Nat :
          g >= tasks_finished /\ m >= largest /\ k <= tasks_launched - g - m + 1
          => k <= tasks_launched - tasks_finished - largest + 1
    BY <2>2
  <2>4. k <= InFlight - largest + 1
    BY <2>1, <2>3 DEF InFlight
  <2> QED
    BY <2>4 DEF OvershootInv
<1>3. /\ IsFiniteSet(Committed(k)) /\ Cardinality(Committed(k)) \in Nat
      /\ Cardinality(Committed(k)') \in Nat
  BY FiniteActors DEF Committed
<1>4. Cardinality(Committed(k)') <= Cardinality(Committed(k))
  BY <1>1, <1>3, FS_Subset DEF NobodyCommits
<1>5. Cardinality(Actors) \in Nat
  BY FiniteActors
<1> QED
  BY <1>2, <1>3, <1>4, <1>5

\* countRunning() with an old tasks_launched: an actor that goes on to launch was
\* committed before.
LEMMA DecideOnOldLaunched ==
  ASSUME TypeOK, RegInv, CountInv, OvershootInv, tasks_launched < SizeModulus,
         NEW a \in Actors, Decide(a, "loadFinished", reg[a], tasks_finished)
  PROVE  OvershootInv'
<1>1. /\ largest \in Nat \ {0} /\ m_max_parallel \in Nat /\ m_max_parallel <= largest
      /\ SizeModulus \in Nat \ {0}
  BY TaskLauncherAssumption DEF TypeOK, RegInv
<1>2. /\ pc[a] = "loadFinished" /\ reg[a] \in Nat /\ reg[a] <= tasks_launched
      /\ UNCHANGED <<tasks_launched, tasks_finished, largest>>
  BY DEF Decide, Go, RegInv, TypeOK, counters, flags
<1>3. InFlight \in Int /\ InFlight' = InFlight
  BY <1>2 DEF InFlight, TypeOK
<1>4. CASE (reg[a] - tasks_finished) % SizeModulus < m_max_parallel
  <2>1. tasks_launched - reg[a] >= InFlight - largest + 1
    <3>1. CASE reg[a] < tasks_finished
      BY <1>1, <1>2, <3>1 DEF InFlight, TypeOK
    <3>2. CASE reg[a] >= tasks_finished
      <4>1. /\ reg[a] - tasks_finished \in Nat
            /\ reg[a] - tasks_finished < SizeModulus
        BY <1>1, <1>2, <3>2 DEF TypeOK
      <4>2. (reg[a] - tasks_finished) % SizeModulus = reg[a] - tasks_finished
        BY <1>1, <4>1, SmallModulo
      <4> QED
        BY <1>1, <1>2, <1>4, <4>1, <4>2 DEF InFlight, TypeOK
    <3> QED
      BY <1>2, <3>1, <3>2 DEF TypeOK
  <2>2. pc' = [pc EXCEPT ![a] = "pop"] /\ reg' = [reg EXCEPT ![a] = 0]
    BY <1>4 DEF Decide, Go
  <2>3. ASSUME NEW k \in Nat \ {0}, k <= InFlight - largest + 1
        PROVE  Committed(k)' \subseteq Committed(k)
    <3>1. tasks_launched - reg[a] >= k
      BY <1>1, <1>2, <1>3, <2>1, <2>3 DEF TypeOK
    <3>2. a \in Committed(k)
      BY <1>2, <3>1 DEF Committed
    <3>3. \A b \in Actors \ {a} : b \in Committed(k)' => b \in Committed(k)
      BY <1>2, <2>2 DEF Committed, TypeOK
    <3>4. Committed(k)' \subseteq Actors
      BY DEF Committed
    <3> QED
      BY <3>2, <3>3, <3>4
  <2> QED
    BY <1>1, <1>2, <1>3, <2>3, FewerCommitted DEF TypeOK, NobodyCommits
<1>5. CASE ~((reg[a] - tasks_finished) % SizeModulus < m_max_parallel)
  <2>1. pc' = [pc EXCEPT ![a] = return[a]] /\ reg' = [reg EXCEPT ![a] = 0]
    BY <1>5 DEF Decide, Go
  <2>2. \A k \in Nat \ {0} : Committed(k)' \subseteq Committed(k)
    BY <1>2, <2>1 DEF Committed, TypeOK
  <2> QED
    BY <1>1, <1>2, <1>3, <2>2, FewerCommitted DEF TypeOK, NobodyCommits
<1> QED
  BY <1>4, <1>5

\* countRunning() with an old tasks_finished: it only finds too many running, so
\* that an actor goes on to launch only below the limit.
LEMMA DecideOnOldFinished ==
  ASSUME TypeOK, RegInv, CountInv, OvershootInv, tasks_launched < SizeModulus,
         NEW a \in Actors, Decide(a, "loadLaunched", tasks_launched, reg[a])
  PROVE  OvershootInv'
<1>1. /\ largest \in Nat \ {0} /\ m_max_parallel \in Nat /\ m_max_parallel <= largest
      /\ SizeModulus \in Nat \ {0}
  BY TaskLauncherAssumption DEF TypeOK, RegInv
<1>2. /\ pc[a] = "loadLaunched" /\ reg[a] \in Nat /\ reg[a] <= tasks_finished
      /\ UNCHANGED <<tasks_launched, tasks_finished, largest>>
  BY DEF Decide, Go, RegInv, TypeOK, counters, flags
<1>3. InFlight \in Int /\ InFlight' = InFlight
  BY <1>2 DEF InFlight, TypeOK
<1>4. CASE (tasks_launched - reg[a]) % SizeModulus < m_max_parallel
  <2>1. 0 <= InFlight
    BY InFlightNonNegative
  <2>2. /\ tasks_launched - reg[a] \in Nat /\ tasks_launched - reg[a] < SizeModulus
        /\ InFlight <= tasks_launched - reg[a]
    BY <1>1, <1>2, <2>1 DEF InFlight, TypeOK
  <2>3. (tasks_launched - reg[a]) % SizeModulus = tasks_launched - reg[a]
    BY <1>1, <2>2, SmallModulo
  <2>4. InFlight - largest + 1 <= 0
    BY <1>1, <1>3, <1>4, <2>2, <2>3
  <2> QED
    BY <1>1, <1>2, <1>3, <2>4 DEF OvershootInv
<1>5. CASE ~((tasks_launched - reg[a]) % SizeModulus < m_max_parallel)
  <2>1. pc' = [pc EXCEPT ![a] = return[a]] /\ reg' = [reg EXCEPT ![a] = 0]
    BY <1>5 DEF Decide, Go
  <2>2. \A k \in Nat \ {0} : Committed(k)' \subseteq Committed(k)
    BY <1>2, <2>1 DEF Committed, TypeOK
  <2> QED
    BY <1>1, <1>2, <1>3, <2>2, FewerCommitted DEF TypeOK, NobodyCommits
<1> QED
  BY <1>4, <1>5

\* tasks_launched++: the actor that launches beyond the limit leaves the committed
\* ones, and every other is one launch further from what it has read.
LEMMA LaunchCounted ==
  ASSUME TypeOK, RegInv, OvershootInv, NEW a \in Actors, IncLaunched(a)
  PROVE  OvershootInv'
<1>1. /\ pc[a] = "inc" /\ pc' = [pc EXCEPT ![a] = "hand"]
      /\ tasks_launched' = tasks_launched + 1
      /\ UNCHANGED <<tasks_finished, largest, reg>>
      /\ largest \in Nat /\ InFlight \in Int /\ InFlight' = InFlight + 1
  BY TaskLauncherAssumption DEF IncLaunched, Go, TypeOK, flags, InFlight
<1>2. SUFFICES ASSUME NEW k \in Nat \ {0}, k <= InFlight' - largest' + 1
               PROVE  Cardinality(Committed(k)') + k <= Cardinality(Actors)
  BY DEF OvershootInv
<1>3. IsFiniteSet(Actors) /\ Cardinality(Actors) \in Nat
  BY FiniteActors
<1>4. Cardinality(Committed(k)') \in Nat
  BY FiniteActors DEF Committed
<1>5. CASE k = 1
  <2>1. Committed(k)' \subseteq Actors \ {a}
    BY <1>1 DEF Committed, TypeOK
  <2>2. IsFiniteSet(Actors \ {a}) /\ Cardinality(Actors \ {a}) = Cardinality(Actors) - 1
    BY <1>3, FS_RemoveElement
  <2>3. Cardinality(Committed(k)') <= Cardinality(Actors) - 1
    BY <2>1, <2>2, FS_Subset
  <2> QED
    BY <1>3, <1>4, <1>5, <2>3
<1>6. CASE k # 1
  <2>1. k - 1 \in Nat \ {0} /\ k - 1 <= InFlight - largest + 1
    BY <1>1, <1>2, <1>6
  <2>2. Cardinality(Committed(k - 1)) + (k - 1) <= Cardinality(Actors)
    BY <2>1 DEF OvershootInv
  <2>3. Committed(k)' = Committed(k - 1) \ {a} /\ a \in Committed(k - 1)
    BY <1>1, <2>1 DEF Committed, TypeOK
  <2>4. IsFiniteSet(Committed(k - 1)) /\ Cardinality(Committed(k - 1)) \in Nat
    BY FiniteActors DEF Committed
  <2>5. Cardinality(Committed(k)') = Cardinality(Committed(k - 1)) - 1
    BY <2>3, <2>4, FS_RemoveElement
  <2> QED
    BY <1>3, <1>4, <2>2, <2>4, <2>5
<1> QED
  BY <1>5, <1>6

\* Every step keeps OvershootInv, as long as tasks_launched has not gone round.
LEMMA OvershootStep ==
  ASSUME TypeOK, RegInv, CountInv, OvershootInv, tasks_launched < SizeModulus,
         [Next]_vars
  PROVE  OvershootInv'
<1> USE TaskLauncherAssumption
<1> USE DEF TypeOK, vars, counters, flags, history
<1>1. ASSUME NEW a \in Actors, NEW f \in Tasks, Start(a, f) PROVE OvershootInv'
  <2>1. \A k \in Nat : Committed(k)' \subseteq Committed(k)
    BY <1>1 DEF Committed, Start, Go
  <2>2. UNCHANGED <<tasks_launched, tasks_finished, largest>>
    BY <1>1 DEF Start, Go
  <2> QED
    BY <2>1, <2>2, FewerCommitted DEF NobodyCommits
<1>2. ASSUME NEW a \in Actors, ReturnsRelaunch(a) PROVE OvershootInv'
  <2>1. \A k \in Nat : Committed(k)' \subseteq Committed(k)
    BY <1>2 DEF Committed, ReturnsRelaunch, Go
  <2>2. UNCHANGED <<tasks_launched, tasks_finished, largest>>
    BY <1>2 DEF ReturnsRelaunch, Go
  <2> QED
    BY <2>1, <2>2, FewerCommitted DEF NobodyCommits
<1>3. ASSUME NEW a \in Actors, ReturnsDone(a) PROVE OvershootInv'
  <2>1. \A k \in Nat : Committed(k)' \subseteq Committed(k)
    BY <1>3 DEF Committed, ReturnsDone, Go
  <2>2. UNCHANGED <<tasks_launched, tasks_finished, largest>>
    BY <1>3 DEF ReturnsDone, Go
  <2> QED
    BY <2>1, <2>2, FewerCommitted DEF NobodyCommits
<1>4. ASSUME NEW a \in Actors, IncFinished(a) PROVE OvershootInv'
  <2>1. \A k \in Nat : Committed(k)' \subseteq Committed(k)
    BY <1>4 DEF Committed, IncFinished, Go
  <2>2. /\ tasks_finished' = tasks_finished + 1
        /\ UNCHANGED <<tasks_launched, largest>>
    BY <1>4 DEF IncFinished, Go
  <2> QED
    BY <2>1, <2>2, FewerCommitted DEF NobodyCommits
<1>5. ASSUME NEW a \in Actors, NEW f \in Tasks,
            CallAddTask(a, f)
      PROVE  OvershootInv'
  <2>1. \A k \in Nat : Committed(k)' \subseteq Committed(k)
    BY <1>5 DEF Committed, CallAddTask, Go
  <2>2. UNCHANGED <<tasks_launched, tasks_finished, largest>>
    BY <1>5 DEF CallAddTask, Go
  <2> QED
    BY <2>1, <2>2, FewerCommitted DEF NobodyCommits
<1>6. ASSUME NEW a \in Actors, Push(a) PROVE OvershootInv'
  <2>1. \A k \in Nat : Committed(k)' \subseteq Committed(k)
    BY <1>6 DEF Committed, Push, Go
  <2>2. UNCHANGED <<tasks_launched, tasks_finished, largest>>
    BY <1>6 DEF Push, Go
  <2> QED
    BY <2>1, <2>2, FewerCommitted DEF NobodyCommits
<1>7. ASSUME NEW a \in Actors,
            LoadFirst(a, "load", "loadFinished", "loadLaunched")
      PROVE  OvershootInv'
  <2>1. \A k \in Nat \ {0} : Committed(k)' \subseteq Committed(k)
    <3>1. CASE pc' = [pc EXCEPT ![a] = "loadFinished"]
      BY <1>7, <3>1, SMTT(30) DEF Committed, LoadFirst, Go
    <3>2. CASE pc' = [pc EXCEPT ![a] = "loadLaunched"]
      BY <1>7, <3>2 DEF Committed, LoadFirst, Go
    <3> QED
      BY <1>7, <3>1, <3>2 DEF LoadFirst, Go
  <2>2. UNCHANGED <<tasks_launched, tasks_finished, largest>>
    BY <1>7 DEF LoadFirst
  <2> QED
    BY <2>1, <2>2, FewerCommitted DEF NobodyCommits
<1>8. ASSUME NEW a \in Actors,
            Decide(a, "loadFinished", reg[a], tasks_finished)
      PROVE  OvershootInv'
  BY <1>8, DecideOnOldLaunched
<1>9. ASSUME NEW a \in Actors,
            Decide(a, "loadLaunched", tasks_launched, reg[a])
      PROVE  OvershootInv'
  BY <1>9, DecideOnOldFinished
<1>10. ASSUME NEW a \in Actors, Pop(a) PROVE OvershootInv'
  <2>1. \A k \in Nat : Committed(k)' \subseteq Committed(k)
    BY <1>10 DEF Committed, Pop, Go
  <2>2. UNCHANGED <<tasks_launched, tasks_finished, largest>>
    BY <1>10 DEF Pop, Go
  <2> QED
    BY <2>1, <2>2, FewerCommitted DEF NobodyCommits
<1>11. ASSUME NEW a \in Actors, IncLaunched(a) PROVE OvershootInv'
  BY <1>11, LaunchCounted
<1>12. ASSUME NEW a \in Actors, HandOver(a) PROVE OvershootInv'
  <2>1. \A k \in Nat : Committed(k)' \subseteq Committed(k)
    BY <1>12 DEF Committed, HandOver, Go
  <2>2. UNCHANGED <<tasks_launched, tasks_finished, largest>>
    BY <1>12 DEF HandOver, Go
  <2> QED
    BY <2>1, <2>2, FewerCommitted DEF NobodyCommits
<1>13. ASSUME NEW a \in Actors,
            LoadFirst(a, "fin", "finLoadFinished", "finLoadLaunched")
      PROVE  OvershootInv'
  <2>1. \A k \in Nat : Committed(k)' \subseteq Committed(k)
    BY <1>13 DEF Committed, LoadFirst, Go
  <2>2. UNCHANGED <<tasks_launched, tasks_finished, largest>>
    BY <1>13 DEF LoadFirst, Go
  <2> QED
    BY <2>1, <2>2, FewerCommitted DEF NobodyCommits
<1>14. ASSUME NEW a \in Actors,
            CompareCounts(a, "finLoadFinished", tasks_finished)
      PROVE  OvershootInv'
  <2>1. \A k \in Nat : Committed(k)' \subseteq Committed(k)
    BY <1>14 DEF Committed, CompareCounts, Go
  <2>2. UNCHANGED <<tasks_launched, tasks_finished, largest>>
    BY <1>14 DEF CompareCounts, Go
  <2> QED
    BY <2>1, <2>2, FewerCommitted DEF NobodyCommits
<1>15. ASSUME NEW a \in Actors,
            CompareCounts(a, "finLoadLaunched", tasks_launched)
      PROVE  OvershootInv'
  <2>1. \A k \in Nat : Committed(k)' \subseteq Committed(k)
    BY <1>15 DEF Committed, CompareCounts, Go
  <2>2. UNCHANGED <<tasks_launched, tasks_finished, largest>>
    BY <1>15 DEF CompareCounts, Go
  <2> QED
    BY <2>1, <2>2, FewerCommitted DEF NobodyCommits
<1>16. ASSUME NEW a \in Actors, CheckNoMore(a) PROVE OvershootInv'
  <2>1. \A k \in Nat : Committed(k)' \subseteq Committed(k)
    BY <1>16 DEF Committed, CheckNoMore, Go
  <2>2. UNCHANGED <<tasks_launched, tasks_finished, largest>>
    BY <1>16 DEF CheckNoMore, Go
  <2> QED
    BY <2>1, <2>2, FewerCommitted DEF NobodyCommits
<1>17. ASSUME NEW a \in Actors, CheckEmpty(a) PROVE OvershootInv'
  <2>1. \A k \in Nat : Committed(k)' \subseteq Committed(k)
    BY <1>17 DEF Committed, CheckEmpty, Go
  <2>2. UNCHANGED <<tasks_launched, tasks_finished, largest>>
    BY <1>17 DEF CheckEmpty, Go
  <2> QED
    BY <2>1, <2>2, FewerCommitted DEF NobodyCommits
<1>18. ASSUME NEW a \in Actors, TryLock(a) PROVE OvershootInv'
  <2>1. \A k \in Nat : Committed(k)' \subseteq Committed(k)
    BY <1>18 DEF Committed, TryLock, Go
  <2>2. UNCHANGED <<tasks_launched, tasks_finished, largest>>
    BY <1>18 DEF TryLock, Go
  <2> QED
    BY <2>1, <2>2, FewerCommitted DEF NobodyCommits
<1>19. ASSUME NEW a \in Actors, TestAndSet(a) PROVE OvershootInv'
  <2>1. \A k \in Nat : Committed(k)' \subseteq Committed(k)
    BY <1>19 DEF Committed, TestAndSet, Go
  <2>2. UNCHANGED <<tasks_launched, tasks_finished, largest>>
    BY <1>19 DEF TestAndSet, Go
  <2> QED
    BY <2>1, <2>2, FewerCommitted DEF NobodyCommits
<1>20. ASSUME NEW a \in Actors, CallOnFinished(a) PROVE OvershootInv'
  <2>1. \A k \in Nat : Committed(k)' \subseteq Committed(k)
    BY <1>20 DEF Committed, CallOnFinished, Go
  <2>2. UNCHANGED <<tasks_launched, tasks_finished, largest>>
    BY <1>20 DEF CallOnFinished, Go
  <2> QED
    BY <2>1, <2>2, FewerCommitted DEF NobodyCommits
<1>21. ASSUME NEW a \in Actors, SetNoMoreTasks(a) PROVE OvershootInv'
  <2>1. \A k \in Nat : Committed(k)' \subseteq Committed(k)
    BY <1>21 DEF Committed, SetNoMoreTasks
  <2>2. UNCHANGED <<tasks_launched, tasks_finished, largest>>
    BY <1>21 DEF SetNoMoreTasks
  <2> QED
    BY <2>1, <2>2, FewerCommitted DEF NobodyCommits
<1>22. ASSUME NEW a \in Actors, NEW n \in Parallels,
            SetMaxParallel(a, n)
      PROVE  OvershootInv'
  <2>1. \A k \in Nat : Committed(k)' = Committed(k)
    BY <1>22 DEF Committed, SetMaxParallel
  <2>2. largest \in Nat /\ n \in Nat
    BY TaskLauncherAssumption
  <2>3. UNCHANGED <<tasks_launched, tasks_finished>> /\ largest' >= largest
    BY <1>22, <2>2, MaxOfTwo DEF SetMaxParallel
  <2>4. largest' \in Nat
    BY <1>22, <2>2, MaxOfTwo DEF SetMaxParallel
  <2> QED
    BY <2>1, <2>2, <2>3, <2>4, FewerCommitted DEF NobodyCommits
<1>23. CASE UNCHANGED vars
  BY <1>23 DEF OvershootInv, InFlight, Committed
<1> QED
  BY <1>1, <1>2, <1>3, <1>4, <1>5, <1>6, <1>7, <1>8, <1>9, <1>10, <1>11,
     <1>12, <1>13, <1>14, <1>15, <1>16, <1>17, <1>18, <1>19, <1>20,
     <1>21, <1>22, <1>23
     DEF Next, Thread, Client, Application, CheckLaunch, CheckFinished, Actors

-------------------------------------------------------------------------------
(* The theorems. *)

\* What holds in every state of the launcher.
IndInv ==
  /\ TypeOK /\ HoldInv /\ PlaceInv /\ FinishInv /\ RegInv /\ CountInv
  /\ tasks_launched < SizeModulus => OvershootInv

\* The launcher as it is constructed.
LEMMA InitInd == Init => IndInv
<1> SUFFICES ASSUME Init PROVE IndInv
  OBVIOUS
<1> USE TaskLauncherAssumption
<1>1. TypeOK
  <2>1. /\ task_q \in Seq(Tasks) /\ largest \in Parallels
        /\ relaunched \in [Tasks -> Nat]
        /\ \A f \in Tasks : relaunched[f] <= MaxRelaunch[f]
    BY DEF Init
  <2>2. /\ pc \in [Actors -> Places] /\ reg \in [Actors -> Nat]
        /\ held \in [Actors -> Tasks \cup {None}]
        /\ return \in [Actors -> {"idle", "finish", "fin"}]
    BY DEF Init, Places
  <2> QED
    BY <2>1, <2>2 DEF Init, TypeOK
<1>2. HoldInv /\ FinishInv /\ RegInv
  BY <1>1 DEF Init, TypeOK, HoldInv, Holding, FinishInv, RegInv
<1>3. PlaceInv
  BY DEF Init, PlaceInv, InQueue
<1>4. Handing = {} /\ Running = {} /\ pending = {} /\ InFlight = 0
  BY DEF Init, Handing, Running, InFlight
<1>5. CountInv
  BY <1>4, FS_EmptySet DEF CountInv
<1>6. OvershootInv
  <2>1. largest \in Nat \ {0}
    BY <1>1 DEF TypeOK
  <2> QED
    BY <1>4, <2>1 DEF OvershootInv
<1> QED
  BY <1>1, <1>2, <1>3, <1>5, <1>6 DEF IndInv

\* tasks_launched is never reset.
LEMMA LaunchedGrows ==
  ASSUME TypeOK, [Next]_vars
  PROVE  tasks_launched' >= tasks_launched
<1> USE DEF TypeOK, vars, counters, flags, history
<1>1. ASSUME NEW a \in Actors, NEW f \in Tasks,
            Start(a, f)
      PROVE  tasks_launched' >= tasks_launched
  BY <1>1 DEF Start, Go
<1>2. ASSUME NEW a \in Actors,
            ReturnsRelaunch(a)
      PROVE  tasks_launched' >= tasks_launched
  BY <1>2 DEF ReturnsRelaunch, Go
<1>3. ASSUME NEW a \in Actors,
            ReturnsDone(a)
      PROVE  tasks_launched' >= tasks_launched
  BY <1>3 DEF ReturnsDone, Go
<1>4. ASSUME NEW a \in Actors,
            IncFinished(a)
      PROVE  tasks_launched' >= tasks_launched
  BY <1>4 DEF IncFinished, Go
<1>5. ASSUME NEW a \in Actors, NEW f \in Tasks,
            CallAddTask(a, f)
      PROVE  tasks_launched' >= tasks_launched
  BY <1>5 DEF CallAddTask, Go
<1>6. ASSUME NEW a \in Actors, Push(a) PROVE tasks_launched' >= tasks_launched
  BY <1>6 DEF Push, Go
<1>7. ASSUME NEW a \in Actors,
            LoadFirst(a, "load", "loadFinished", "loadLaunched")
      PROVE  tasks_launched' >= tasks_launched
  BY <1>7 DEF LoadFirst, Go
<1>8. ASSUME NEW a \in Actors,
            Decide(a, "loadFinished", reg[a], tasks_finished)
      PROVE  tasks_launched' >= tasks_launched
  BY <1>8 DEF Decide, Go
<1>9. ASSUME NEW a \in Actors,
            Decide(a, "loadLaunched", tasks_launched, reg[a])
      PROVE  tasks_launched' >= tasks_launched
  BY <1>9 DEF Decide, Go
<1>10. ASSUME NEW a \in Actors, Pop(a) PROVE tasks_launched' >= tasks_launched
  BY <1>10 DEF Pop, Go
<1>11. ASSUME NEW a \in Actors,
            IncLaunched(a)
      PROVE  tasks_launched' >= tasks_launched
  BY <1>11 DEF IncLaunched, Go
<1>12. ASSUME NEW a \in Actors,
            HandOver(a)
      PROVE  tasks_launched' >= tasks_launched
  BY <1>12 DEF HandOver, Go
<1>13. ASSUME NEW a \in Actors,
            LoadFirst(a, "fin", "finLoadFinished", "finLoadLaunched")
      PROVE  tasks_launched' >= tasks_launched
  BY <1>13 DEF LoadFirst, Go
<1>14. ASSUME NEW a \in Actors,
            CompareCounts(a, "finLoadFinished", tasks_finished)
      PROVE  tasks_launched' >= tasks_launched
  BY <1>14 DEF CompareCounts, Go
<1>15. ASSUME NEW a \in Actors,
            CompareCounts(a, "finLoadLaunched", tasks_launched)
      PROVE  tasks_launched' >= tasks_launched
  BY <1>15 DEF CompareCounts, Go
<1>16. ASSUME NEW a \in Actors,
            CheckNoMore(a)
      PROVE  tasks_launched' >= tasks_launched
  BY <1>16 DEF CheckNoMore, Go
<1>17. ASSUME NEW a \in Actors,
            CheckEmpty(a)
      PROVE  tasks_launched' >= tasks_launched
  BY <1>17 DEF CheckEmpty, Go
<1>18. ASSUME NEW a \in Actors,
            TryLock(a)
      PROVE  tasks_launched' >= tasks_launched
  BY <1>18 DEF TryLock, Go
<1>19. ASSUME NEW a \in Actors,
            TestAndSet(a)
      PROVE  tasks_launched' >= tasks_launched
  BY <1>19 DEF TestAndSet, Go
<1>20. ASSUME NEW a \in Actors,
            CallOnFinished(a)
      PROVE  tasks_launched' >= tasks_launched
  BY <1>20 DEF CallOnFinished, Go
<1>21. ASSUME NEW a \in Actors,
            SetNoMoreTasks(a)
      PROVE  tasks_launched' >= tasks_launched
  BY <1>21 DEF SetNoMoreTasks
<1>22. ASSUME NEW a \in Actors, NEW n \in Parallels,
            SetMaxParallel(a, n)
      PROVE  tasks_launched' >= tasks_launched
  BY <1>22 DEF SetMaxParallel
<1>23. CASE UNCHANGED vars
  BY <1>23
<1> QED
  BY <1>1, <1>2, <1>3, <1>4, <1>5, <1>6, <1>7, <1>8, <1>9, <1>10, <1>11,
     <1>12, <1>13, <1>14, <1>15, <1>16, <1>17, <1>18, <1>19, <1>20,
     <1>21, <1>22, <1>23
     DEF Next, Thread, Client, Application, CheckLaunch, CheckFinished, Actors

\* Every step keeps the invariant.
LEMMA IndStep == IndInv /\ [Next]_vars => IndInv'
<1> SUFFICES ASSUME IndInv, [Next]_vars PROVE IndInv'
  OBVIOUS
<1> USE DEF IndInv
<1>1. TypeOK' /\ HoldInv' /\ PlaceInv' /\ FinishInv' /\ RegInv' /\ CountInv'
  BY TypeStep, HoldStep, PlaceStep, FinishStep, RegStep, CountStep
<1>2. ASSUME tasks_launched' < SizeModulus PROVE OvershootInv'
  <2>1. tasks_launched < SizeModulus
    BY <1>1, <1>2, LaunchedGrows, TaskLauncherAssumption DEF TypeOK
  <2> QED
    BY <2>1, OvershootStep
<1> QED
  BY <1>1, <1>2

\* Every state the launcher reaches satisfies the inductive invariant.
THEOREM IndInvariant == Spec => []IndInv
BY InitInd, IndStep, PTL DEF Spec

\* Type correctness of the launcher's state, for every behaviour of its callers.
THEOREM TypeCorrect == Spec => []TypeOK
<1>1. IndInv => TypeOK
  BY DEF IndInv
<1> QED
  BY <1>1, IndInvariant, PTL

\* A set with no two elements has as many as its emptiness says.
LEMMA AtMostOne ==
  ASSUME NEW S, \A x, y \in S : x = y
  PROVE  Cardinality(S) = IF S = {} THEN 0 ELSE 1
<1>1. CASE S = {}
  BY <1>1, FS_EmptySet
<1>2. CASE S # {}
  <2>1. PICK x : x \in S
    BY <1>2
  <2>2. S = {x}
    BY <2>1
  <2> QED
    BY <1>2, <2>2, FS_Singleton
<1> QED
  BY <1>1, <1>2

\* However checkLaunch calls and relaunches interleave, a task that was added is in
\* exactly one place: the queue, an actor's hand, the pool, or it is over.
THEOREM NoTaskDoubledOrDropped == Spec => []TaskInOnePlace
<1>1. ASSUME IndInv PROVE TaskInOnePlace
  <2>1. SUFFICES ASSUME NEW f \in Tasks
                 PROVE  Cardinality({i \in DOMAIN task_q : task_q[i] = f})
                          + Cardinality({a \in Actors : held[a] = f})
                          + (IF f \in pending THEN 1 ELSE 0)
                          + (IF f \in done THEN 1 ELSE 0)
                          = IF f \in added THEN 1 ELSE 0
    BY DEF TaskInOnePlace
  <2> DEFINE Q == {i \in DOMAIN task_q : task_q[i] = f}
             H == {a \in Actors : held[a] = f}
  <2>2. f # None /\ PlaceInv
    BY <1>1, TaskLauncherAssumption DEF IndInv
  <2>3. Cardinality(Q) = IF Q = {} THEN 0 ELSE 1
    <3>1. \A x, y \in Q : x = y
      BY <2>2 DEF PlaceInv
    <3> QED
      BY <3>1, AtMostOne
  <2>4. Cardinality(H) = IF H = {} THEN 0 ELSE 1
    <3>1. \A x, y \in H : x = y
      BY <2>2 DEF PlaceInv
    <3> QED
      BY <3>1, AtMostOne
  <2>5. /\ Q # {} <=> InQueue(task_q, f)
        /\ H # {} <=> \E a \in Actors : held[a] = f
    BY DEF InQueue
  <2>6. /\ Q # {} => H = {} /\ f \in added \ (pending \cup done)
        /\ H # {} => Q = {} /\ f \in added \ (pending \cup done)
        /\ f \in added \ (pending \cup done) => Q # {} \/ H # {}
        /\ pending \subseteq added \ done /\ done \subseteq added
    BY <2>2, <2>5 DEF PlaceInv, InQueue
  <2> HIDE DEF Q, H
  <2>7. Cardinality(Q) + Cardinality(H) + (IF f \in pending THEN 1 ELSE 0)
          + (IF f \in done THEN 1 ELSE 0) = IF f \in added THEN 1 ELSE 0
    BY <2>3, <2>4, <2>6
  <2> QED
    BY <2>7 DEF Q, H
<1> QED
  BY <1>1, IndInvariant, PTL

\* m_onFinished is called at most once: finish_lock covers the test, the setting of
\* all_tasks_finished and the call.
THEOREM OnFinishedAtMostOnce == Spec => []OnFinishedOnce
<1>1. IndInv => OnFinishedOnce
  BY DEF IndInv, FinishInv, OnFinishedOnce
<1> QED
  BY <1>1, IndInvariant, PTL

\* countRunning and the launch are not atomic, yet at most one task per actor beyond
\* the first exceeds the largest limit ever set, and the finished tasks never
\* outnumber the launched ones; until tasks_launched, a size_t, has gone round once.
THEOREM LimitHoldsUpToTheActors ==
  Spec => [](tasks_launched < SizeModulus => BoundedOvershoot)
<1>1. ASSUME IndInv, tasks_launched < SizeModulus PROVE BoundedOvershoot
  <2>1. 0 <= InFlight
    BY <1>1, InFlightNonNegative DEF IndInv
  <2>2. InFlight \in Int /\ largest \in Nat \ {0}
    BY <1>1, TaskLauncherAssumption DEF IndInv, TypeOK, InFlight
  <2>3. Cardinality(Actors) \in Nat
    BY FiniteActors
  <2>4. CASE InFlight >= largest
    <3>1. InFlight - largest + 1 \in Nat \ {0}
      BY <2>2, <2>4
    <3>2. Cardinality(Committed(InFlight - largest + 1)) \in Nat
      BY FiniteActors DEF Committed
    <3>3. Cardinality(Committed(InFlight - largest + 1)) + (InFlight - largest + 1)
            <= Cardinality(Actors)
      BY <1>1, <3>1 DEF IndInv, OvershootInv
    <3> QED
      BY <2>1, <2>2, <2>3, <3>2, <3>3 DEF BoundedOvershoot
  <2>5. CASE InFlight < largest
    BY <2>1, <2>2, <2>3, <2>5 DEF BoundedOvershoot
  <2> QED
    BY <2>2, <2>4, <2>5
<1>2. IndInv => (tasks_launched < SizeModulus => BoundedOvershoot)
  BY <1>1
<1> QED
  BY <1>2, IndInvariant, PTL
===============================================================================
