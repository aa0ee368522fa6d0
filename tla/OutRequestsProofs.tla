--------------------------- MODULE OutRequestsProofs ---------------------------
(***************************************************************************)
(* Theorems about OutRequests, for every set of requesters, any number of  *)
(* calls and any max_parallel: every call is in one place and is answered  *)
(* at most once, to the requester that made it, and the destructor         *)
(* outlives the loop.                                                      *)
(***************************************************************************)
EXTENDS OutRequests, QueueLemmas, FiniteSetTheorems, TLAPS

-------------------------------------------------------------------------------
(* Tasks. *)

\* The parts of a task of each kind.
LEMMA TaskForms ==
  ASSUME NEW t \in Tasks
  PROVE  /\ t.kind \in {"call", "done", "finished", "answer", "check", "add", "kick"}
         /\ t.kind \in {"call", "done", "finished", "answer", "check"} => t.c \in Calls
         /\ t.kind = "call" => t = Task("call", t.c)
         /\ t.kind = "done" => t = Task("done", t.c)
         /\ t.kind = "finished" => t = Task("finished", t.c)
         /\ t.kind \in {"answer", "check", "add"} => t.requester \in Requesters
         /\ t.kind = "answer" /\ t.requester = t.c.by => t = Answering(t.c)
         /\ t.kind = "add" => t = AddTask(t.requester)
<1>1. CASE t \in [kind : {"call", "done", "finished"}, c : Calls, requester : {None}]
  BY <1>1 DEF Task
<1>2. CASE t \in [kind : {"answer", "check"}, c : Calls, requester : Requesters]
  BY <1>2 DEF Answering
<1>3. CASE t \in [kind : {"add"}, c : {None}, requester : Requesters]
  BY <1>3 DEF AddTask
<1>4. CASE t = KickTask
  BY <1>4 DEF KickTask, Task
<1> QED
  BY <1>1, <1>2, <1>3, <1>4 DEF Tasks

\* The parts of a call.
LEMMA CallForms ==
  /\ \A c \in Calls : c.by \in Requesters /\ c.id \in Nat /\ c.call \in Nat
                      /\ c = Call(c.by, c.id, c.call)
  /\ \A r \in Requesters, id \in Nat, n \in Nat :
       /\ Call(r, id, n) \in Calls /\ Call(r, id, n).by = r
       /\ Call(r, id, n).id = id /\ Call(r, id, n).call = n
BY DEF Calls, Call

\* The tasks the program makes.
LEMMA TasksMade ==
  /\ \A c \in Calls : /\ Task("call", c) \in Tasks /\ Task("done", c) \in Tasks
                      /\ Task("finished", c) \in Tasks /\ Answering(c) \in Tasks
  /\ \A r \in Requesters : AddTask(r) \in Tasks
  /\ KickTask \in Tasks
BY CallForms DEF Task, AddTask, Answering, Tasks, KickTask

\* The ones that are there once.
LEMMA Carriers ==
  /\ \A c \in Calls : /\ Task("call", c) \in Carrying /\ Task("done", c) \in Carrying
                      /\ Answering(c) \in Carrying
  /\ \A r \in Requesters : AddTask(r) \in Carrying
  /\ \A t \in Carrying : t \in Tasks /\ t.kind \in {"add", "call", "done", "answer"}
BY TasksMade DEF Carrying, Task, AddTask, Answering

\* Two tasks are the same when they are of the same kind and carry the same.
LEMMA Different ==
  /\ \A c : Task("call", c).kind = "call" /\ Task("done", c).kind = "done"
            /\ Task("finished", c).kind = "finished" /\ Answering(c).kind = "answer"
  /\ \A r : AddTask(r).kind = "add" /\ AddTask(r).requester = r
  /\ \A c : Task("call", c).c = c /\ Task("done", c).c = c /\ Task("finished", c).c = c
            /\ Answering(c).c = c /\ Answering(c).requester = c.by
BY DEF Task, AddTask, Answering

-------------------------------------------------------------------------------
(* Types. *)

\* The calls of start() are tasks.
LEMMA StartTasks ==
  ASSUME NEW r \in Requesters, NEW id \in Nat, NEW n \in Nat
  PROVE  /\ StartCalls(r, id, n) \in Seq(Tasks)
         /\ ToSet(StartCalls(r, id, n)) = {Task("call", Call(r, id, i)) : i \in 1 .. n}
         /\ NoRepeat(StartCalls(r, id, n), Carrying)
<1> DEFINE e == StartCalls(r, id, n)
<1>1. \A i \in 1 .. n : Task("call", Call(r, id, i)) \in Tasks
  <2>1. \A i \in 1 .. n : Call(r, id, i) \in Calls
    BY CallForms
  <2> QED
    BY <2>1, TasksMade
<1>2. e \in Seq(Tasks)
  BY <1>1 DEF StartCalls
<1>3. DOMAIN e = 1 .. n /\ \A i \in 1 .. n : e[i] = Task("call", Call(r, id, i))
  BY DEF StartCalls
<1>4. ToSet(e) = {Task("call", Call(r, id, i)) : i \in 1 .. n}
  BY <1>3 DEF ToSet
<1>5. NoRepeat(e, Carrying)
  <2> SUFFICES ASSUME NEW i \in 1 .. n, NEW j \in 1 .. n, e[i] = e[j] PROVE i = j
    BY <1>3 DEF NoRepeat
  <2>1. Task("call", Call(r, id, i)).c.call = Task("call", Call(r, id, j)).c.call
    BY <1>3
  <2> QED
    BY <2>1, CallForms, Different, SMTT(30)
<1> QED
  BY <1>2, <1>4, <1>5

\* Short queues.
LEMMA ShortQueues ==
  ASSUME NEW S, NEW q \in Seq(S)
  PROVE  /\ q \o <<>> = q /\ <<>> \in Seq(S) /\ ToSet(<<>>) = {}
         /\ \A x \in S : /\ Append(q, x) = q \o <<x>> /\ <<x>> \in Seq(S)
                         /\ ToSet(<<x>>) = {x}
         /\ \A K : NoRepeat(<<>>, K) /\ \A x : NoRepeat(<<x>>, K)
<1>1. q \o <<>> = q /\ <<>> \in Seq(S)
  OBVIOUS
<1>2. ToSet(<<>>) = {}
  BY DEF ToSet
<1>3. \A x \in S : Append(q, x) = q \o <<x>> /\ <<x>> \in Seq(S)
  OBVIOUS
<1>4. \A x : ToSet(<<x>>) = {x}
  BY DEF ToSet
<1>5. \A K : NoRepeat(<<>>, K) /\ \A x : NoRepeat(<<x>>, K)
  BY DEF NoRepeat
<1> QED
  BY <1>1, <1>2, <1>3, <1>4, <1>5

\* Each action keeps the types.
LEMMA TypeStep == TypeOK /\ [Next]_vars => TypeOK'
<1> SUFFICES ASSUME TypeOK, [Next]_vars PROVE TypeOK'
  OBVIOUS
<1>m. max_parallel \in Nat /\ MaxCalls \in [Requesters -> Nat \ {0}]
  BY OutRequestsAssumption DEF TypeOK
<1>r. ASSUME NEW t \in running
      PROVE  /\ t \in Tasks /\ running \ {t} \subseteq Tasks
             /\ \A u \in Tasks : (running \ {t}) \cup {u} \subseteq Tasks
  BY DEF TypeOK
<1>q. /\ task_q \o <<>> \in Seq(Tasks)
      /\ \A u \in Tasks : Append(task_q, u) \in Seq(Tasks) /\ task_q \o <<u>> \in Seq(Tasks)
      /\ \A e \in Seq(Tasks) : task_q \o e \in Seq(Tasks)
  BY DEF TypeOK
<1>1. CASE Launch
  <2>1. Head(task_q) \in Tasks /\ Tail(task_q) \in Seq(Tasks)
    BY <1>1, QueuePop DEF Launch, TypeOK
  <2>2. running \cup {Head(task_q)} \subseteq Tasks
    BY <2>1 DEF TypeOK
  <2> QED
    BY <1>1, <2>1, <2>2
    DEF TypeOK, Launch, dispatcher, requesters, client, kicking, stop, history
<1>2. ASSUME NEW t \in running, NEW n \in 1 .. MaxCalls[t.requester], t.kind = "add",
             AddRequesterTask(t, n)
      PROVE  TypeOK'
  <2>1. t.requester \in Requesters
    BY <1>2, <1>r, TaskForms
  <2>2. n \in Nat /\ m_req_id + 1 \in Nat /\ n <= MaxCalls[t.requester]
    BY <1>m, <2>1 DEF TypeOK
  <2>3. StartCalls(t.requester, m_req_id + 1, n) \in Seq(Tasks)
    BY <2>1, <2>2, StartTasks
  <2>4. task_q' \in Seq(Tasks) /\ running' = running \ {t}
    BY <1>2, <1>q, <2>3 DEF AddRequesterTask, Runs
  <2>5. m_req_id' = m_req_id + 1
        /\ m_id' = [m_id EXCEPT ![t.requester] = m_req_id + 1]
        /\ m_requesters' = Insert(m_requesters, m_req_id + 1, t.requester)
        /\ made' = [made EXCEPT ![t.requester] = n]
    BY <1>2 DEF AddRequesterTask
  <2>6. m_id' \in [Requesters -> 0 .. m_req_id']
    <3>1. \A m \in Nat : 0 .. m \subseteq 0 .. m + 1 /\ m + 1 \in 0 .. m + 1
      OBVIOUS
    <3> QED
      BY <2>1, <2>5, <3>1 DEF TypeOK
  <2>7. DOMAIN m_requesters' \subseteq 1 .. m_req_id'
        /\ m_requesters' \in [DOMAIN m_requesters' -> Requesters]
    <3>1. \A m \in Nat : 1 .. m \subseteq 1 .. m + 1 /\ m + 1 \in 1 .. m + 1
      OBVIOUS
    <3> QED
      BY <2>1, <2>5, <3>1 DEF TypeOK, Insert
  <2>8. made' \in [Requesters -> Nat] /\ \A r \in Requesters : made'[r] <= MaxCalls[r]
    BY <2>1, <2>2, <2>5 DEF TypeOK
  <2> QED
    BY <1>2, <1>r, <2>2, <2>4, <2>5, <2>6, <2>7, <2>8, SMTT(30)
    DEF TypeOK, AddRequesterTask, client, kicking, stop, history
<1>3. ASSUME NEW t \in running, OnCallTask(t) PROVE TypeOK'
  <2>1. t.c \in Calls
    BY <1>3, <1>r, TaskForms DEF OnCallTask, Runs
  <2> QED
    BY <1>3, <1>r, <1>q, <2>1
    DEF TypeOK, OnCallTask, Runs, ClientCall, dispatcher, requesters, kicking, stop, history
<1>4. ASSUME NEW t \in running, OnCallDoneTask(t) PROVE TypeOK'
  <2>1. t.c \in Calls /\ t.c.id \in DOMAIN m_requesters /\ t \in Tasks /\ t.kind = "done"
    BY <1>4, <1>r, TaskForms DEF OnCallDoneTask
  <2>2. m_requesters[t.c.id] \in Requesters
    BY <2>1 DEF TypeOK
  <2>3. [kind |-> "answer", c |-> t.c, requester |-> m_requesters[t.c.id]] \in Tasks
    BY <2>1, <2>2 DEF Tasks
  <2> QED
    BY <1>4, <1>r, <2>3
    DEF TypeOK, OnCallDoneTask, GoesOn, dispatcher, requesters, client, kicking, stop, history
<1>5. ASSUME NEW t \in running, RequesterDoesNotExist(t) PROVE TypeOK'
  <2>1. t.c \in Calls
    BY <1>5, <1>r, TaskForms DEF RequesterDoesNotExist
  <2> QED
    BY <1>5, <1>r, <1>q, <2>1
    DEF TypeOK, RequesterDoesNotExist, Runs, dispatcher, requesters, client, kicking, stop
<1>6. ASSUME NEW t \in running, NEW more \in BOOLEAN, NEW finishes \in BOOLEAN,
             OnCallDone(t, more, finishes)
      PROVE  TypeOK'
  <2> DEFINE r == t.requester
  <2>1. t.c \in Calls /\ r \in Requesters /\ t \in Tasks /\ t.kind = "answer"
    BY <1>6, <1>r, TaskForms DEF OnCallDone, GoesOn
  <2>2. [kind |-> "check", c |-> t.c, requester |-> r] \in Tasks
    BY <2>1 DEF Tasks
  <2>3. running' = (running \ {t}) \cup {[kind |-> "check", c |-> t.c, requester |-> r]}
    BY <1>6 DEF OnCallDone, GoesOn
  <2>4. made' \in [Requesters -> Nat] /\ \A s \in Requesters : made'[s] <= MaxCalls[s]
    <3>1. made[r] \in Nat /\ MaxCalls[r] \in Nat /\ made[r] <= MaxCalls[r]
      BY <1>m, <2>1 DEF TypeOK
    <3>2. PICK k \in Nat : made' = [made EXCEPT ![r] = k] /\ k <= MaxCalls[r]
      <4>1. CASE more = TRUE
        <5>1. made[r] < MaxCalls[r] /\ made' = [made EXCEPT ![r] = made[r] + 1]
          BY <1>6, <4>1 DEF OnCallDone
        <5>2. \A m, n \in Nat : m < n => m + 1 \in Nat /\ m + 1 <= n
          OBVIOUS
        <5>3. made[r] + 1 \in Nat /\ made[r] + 1 <= MaxCalls[r]
          BY <3>1, <5>1, <5>2
        <5> QED
          BY <5>1, <5>3
      <4>2. CASE more = FALSE
        <5>1. made' = [made EXCEPT ![r] = made[r]]
          BY <1>6, <4>2 DEF OnCallDone
        <5> QED
          BY <3>1, <5>1
      <4> QED
        BY <4>1, <4>2
    <3> QED
      BY <2>1, <3>2 DEF TypeOK
  <2>5. task_q' \in Seq(Tasks)
    <3>1. m_id[r] \in Nat /\ made[r] + 1 \in Nat
      BY <2>1 DEF TypeOK
    <3>2. Task("call", Call(r, m_id[r], made[r] + 1)) \in Tasks
      BY <2>1, <3>1, CallForms, TasksMade
    <3> QED
      BY <1>6, <1>q, <3>2 DEF OnCallDone, TypeOK
  <2>6. m_isfinished' \in [Requesters -> BOOLEAN]
    BY <1>6, <2>1 DEF OnCallDone, TypeOK
  <2>7. <<r, t.c>> \in Requesters \X Calls
    BY <2>1
  <2>8. answers' \subseteq Requesters \X Calls /\ repeated' \subseteq answers'
    BY <1>6, <2>7 DEF OnCallDone, TypeOK
  <2> QED
    BY <1>6, <1>r, <2>2, <2>3, <2>4, <2>5, <2>6, <2>8
    DEF TypeOK, OnCallDone, dispatcher, client, kicking, stop
<1>7. ASSUME NEW t \in running, CheckFinished(t) PROVE TypeOK'
  <2>1. t.c \in Calls /\ t.requester \in Requesters
    BY <1>7, <1>r, TaskForms DEF CheckFinished, Runs
  <2>2. [t.c EXCEPT !.id = m_id[t.requester]] \in Calls
    <3>1. m_id[t.requester] \in Nat
      BY <2>1 DEF TypeOK
    <3> QED
      BY <2>1, <3>1 DEF Calls
  <2>3. Task("finished", [t.c EXCEPT !.id = m_id[t.requester]]) \in Tasks
    BY <2>2, TasksMade
  <2>4. task_q' \in Seq(Tasks) /\ running' = running \ {t}
    BY <1>7, <1>q, <2>3 DEF CheckFinished, Runs
  <2> QED
    BY <1>7, <1>r, <2>4
    DEF TypeOK, CheckFinished, dispatcher, requesters, client, kicking, stop, history
<1>8. ASSUME NEW t \in running, OnRequesterFinishedTask(t) PROVE TypeOK'
  <2>1. /\ running' = running \ {t} /\ task_q' \in Seq(Tasks) /\ m_req_id' = m_req_id
        /\ m_requesters' = [id \in DOMAIN m_requesters \ {t.c.id} |-> m_requesters[id]]
    BY <1>8, <1>q DEF OnRequesterFinishedTask, Runs
  <2>2. /\ DOMAIN m_requesters' \subseteq 1 .. m_req_id'
        /\ m_requesters' \in [DOMAIN m_requesters' -> Requesters]
    BY <2>1 DEF TypeOK
  <2> QED
    BY <1>8, <1>r, <2>1, <2>2
    DEF TypeOK, OnRequesterFinishedTask, requesters, client, kicking, stop, history
<1>9. ASSUME NEW r \in Requesters, AddRequester(r) PROVE TypeOK'
  BY <1>9, <1>q, TasksMade
  DEF TypeOK, AddRequester, dispatcher, requesters, client, kicking, stop
<1>10. ASSUME NEW c \in m_e_curls, TransferEnds(c) PROVE TypeOK'
  BY <1>10
  DEF TypeOK, TransferEnds, launcher, dispatcher, requesters, kicking, stop, history
<1>11. ASSUME NEW c \in handlers, CallHandler(c) PROVE TypeOK'
  <2>1. Append(task_q, Task("done", c)) \in Seq(Tasks)
    BY <1>q, TasksMade DEF TypeOK
  <2> QED
    BY <1>11, <2>1 DEF TypeOK, CallHandler, dispatcher, requesters, kicking, stop, history
<1>12. CASE Kicker
  <2> USE DEF TypeOK, KickGo, launcher, dispatcher, requesters, client, stop, history, kicking
  <2>1. CASE KickStarts
    BY <2>1 DEF KickStarts, TestKickRunning
  <2>2. CASE Select
    BY <2>2 DEF Select
  <2>3. CASE Perform
    BY <2>3 DEF Perform
  <2>4. CASE SelectFails
    BY <2>4 DEF SelectFails
  <2>5. CASE KickReturns
    BY <2>5 DEF KickReturns, TestKickRunning
  <2>6. CASE KickStops
    BY <2>6 DEF KickStops
  <2>7. CASE KickSignals
    BY <2>7 DEF KickSignals
  <2>8. ASSUME NEW c \in msgs, PerformTransfers(c) PROVE TypeOK'
    BY <2>8 DEF PerformTransfers
  <2> QED
    BY <1>12, <2>1, <2>2, <2>3, <2>4, <2>5, <2>6, <2>7, <2>8 DEF Kicker
<1>13. CASE CallDtor
  BY <1>13
  DEF TypeOK, CallDtor, launcher, dispatcher, requesters, client, kicking, history
<1>14. CASE Destructor
  BY <1>14
  DEF TypeOK, Destructor, DtorTest, DtorSleeps, launcher, dispatcher, requesters, client,
      kicking, history
<1>15. CASE ForeignCall \/ ForeignEnds
  BY <1>15
  DEF TypeOK, ForeignCall, ForeignEnds, launcher, dispatcher, requesters, kicking, stop, history
<1>16. CASE UNCHANGED vars
  BY <1>16
  DEF TypeOK, vars, launcher, dispatcher, requesters, client, kicking, stop, history
<1> QED
  BY <1>1, <1>2, <1>3, <1>4, <1>5, <1>6, <1>7, <1>8, <1>9, <1>10, <1>11, <1>12, <1>13,
     <1>14, <1>15, <1>16
  DEF Next, Runner

-------------------------------------------------------------------------------
(* How a step changes the launcher's tasks and the places of calls. *)

\* A task ends and adds others.
LEMMA TaskAdds ==
  ASSUME TypeOK, TasksOnce, NEW t \in running, NEW e \in Seq(Tasks),
         running' = running \ {t}, task_q' = task_q \o e,
         NoRepeat(e, Carrying), ToSet(e) \cap Carrying \cap Waiting = {}
  PROVE  /\ TasksOnce'
         /\ Waiting' \subseteq Waiting \cup ToSet(e)
         /\ \A x \in Carrying :
              x \in Waiting' <=> x \in ToSet(e) \/ (x \in Waiting /\ x # t)
<1>1. NoRepeat(task_q, Carrying) /\ running \cap ToSet(task_q) \cap Carrying = {}
  BY DEF TasksOnce, NoRepeat
<1>2. /\ ToSet(task_q \o e) = ToSet(task_q) \cup ToSet(e)
      /\ ToSet(task_q) \cap ToSet(e) \cap Carrying = {} => NoRepeat(task_q \o e, Carrying)
  BY <1>1, ConcatQueue DEF TypeOK
<1>3. ToSet(task_q)' = ToSet(task_q) \cup ToSet(e)
  BY <1>2
<1>4. NoRepeat(task_q', Carrying)
  BY <1>2 DEF Waiting
<1>5. running' \cap ToSet(task_q)' \cap Carrying = {}
  BY <1>1, <1>3 DEF Waiting
<1>6. TasksOnce'
  BY <1>4, <1>5 DEF TasksOnce, NoRepeat
<1>7. Waiting' = (running \ {t}) \cup ToSet(task_q) \cup ToSet(e)
  BY <1>3 DEF Waiting
<1> QED
  BY <1>1, <1>6, <1>7 DEF Waiting

\* A task ends.
LEMMA TaskEnds ==
  ASSUME TypeOK, TasksOnce, NEW t \in running,
         running' = running \ {t}, task_q' = task_q \o <<>>
  PROVE  /\ TasksOnce' /\ Waiting' \subseteq Waiting
         /\ \A x \in Carrying : x \in Waiting' <=> x \in Waiting /\ x # t
<1>1. task_q' = task_q
  BY ShortQueues DEF TypeOK
<1>2. TasksOnce'
  BY <1>1 DEF TasksOnce
<1> QED
  BY <1>1, <1>2 DEF Waiting, TasksOnce

\* A task goes on as another.
LEMMA TaskGoesOn ==
  ASSUME TasksOnce, NEW t \in running, NEW u,
         running' = (running \ {t}) \cup {u}, task_q' = task_q,
         u \in Carrying => u \notin Waiting
  PROVE  /\ TasksOnce' /\ Waiting' \subseteq Waiting \cup {u}
         /\ \A x \in Carrying : x \in Waiting' <=> x = u \/ (x \in Waiting /\ x # t)
<1>1. TasksOnce'
  BY DEF TasksOnce, Waiting
<1> QED
  BY <1>1 DEF Waiting, TasksOnce

\* A task goes on as another and adds a third.
LEMMA TaskGoesOnAndAdds ==
  ASSUME TypeOK, TasksOnce, NEW t \in running, NEW u, NEW v \in Tasks,
         running' = (running \ {t}) \cup {u}, task_q' = Append(task_q, v),
         u \notin Carrying, v \notin Waiting
  PROVE  /\ TasksOnce' /\ Waiting' \subseteq Waiting \cup {u, v}
         /\ \A x \in Carrying : x \in Waiting' <=> x = v \/ (x \in Waiting /\ x # t)
<1>1. NoRepeat(task_q, Carrying) /\ running \cap ToSet(task_q) \cap Carrying = {}
  BY DEF TasksOnce, NoRepeat
<1>2. ToSet(Append(task_q, v)) = ToSet(task_q) \cup {v}
  BY PushSet DEF TypeOK
<1>3. NoRepeat(Append(task_q, v), Carrying)
  BY <1>1, PushOnce DEF TypeOK, Waiting
<1>4. TasksOnce'
  BY <1>1, <1>2, <1>3 DEF TasksOnce, NoRepeat, Waiting
<1> QED
  BY <1>1, <1>2, <1>4 DEF Waiting

\* A task is queued.
LEMMA TaskQueued ==
  ASSUME TypeOK, TasksOnce, NEW u \in Tasks,
         running' = running, task_q' = Append(task_q, u),
         u \in Carrying => u \notin Waiting
  PROVE  /\ TasksOnce' /\ Waiting' = Waiting \cup {u}
<1>1. NoRepeat(task_q, Carrying) /\ running \cap ToSet(task_q) \cap Carrying = {}
  BY DEF TasksOnce, NoRepeat
<1>2. ToSet(Append(task_q, u)) = ToSet(task_q) \cup {u}
  BY PushSet DEF TypeOK
<1>3. NoRepeat(Append(task_q, u), Carrying)
  BY <1>1, PushOnce DEF TypeOK, Waiting
<1>4. TasksOnce'
  BY <1>1, <1>2, <1>3 DEF TasksOnce, NoRepeat, Waiting
<1> QED
  BY <1>2, <1>4 DEF Waiting

\* The launcher hands a task to a thread: it is still one of its tasks.
LEMMA LaunchTasks ==
  ASSUME TypeOK, TasksOnce, Launch
  PROVE  TasksOnce' /\ Waiting' = Waiting
<1> DEFINE h == Head(task_q)
           p == Tail(task_q)
<1>1. task_q \in Seq(Tasks) /\ task_q # <<>> /\ NoRepeat(task_q, Carrying)
      /\ running \cap ToSet(task_q) \cap Carrying = {}
      /\ running' = running \cup {h} /\ task_q' = p
  BY DEF TypeOK, TasksOnce, NoRepeat, Launch
<1>2. NoRepeat(p, Carrying) /\ (h \in Carrying => h \notin ToSet(p))
  BY <1>1, PopOnce
<1>3. ToSet(task_q) = ToSet(p) \cup {h}
  BY <1>1, PopSet
<1> HIDE DEF h, p
<1>4. TasksOnce'
  BY <1>1, <1>2, <1>3 DEF TasksOnce, NoRepeat
<1> QED
  BY <1>1, <1>3, <1>4 DEF Waiting

\* Calls are made.
LEMMA CallsEnter ==
  ASSUME StageInv, NEW N,
         \A c \in N : c \in Calls /\ ~Made(c),
         \A c \in Calls : Made(c)' <=> Made(c) \/ c \in N,
         \A c \in Calls : \A s \in Stages :
           At(c, s)' <=> At(c, s) \/ (c \in N /\ s = "call")
  PROVE  StageInv'
<1> SUFFICES ASSUME NEW c \in Calls
             PROVE  /\ Made(c)' <=> \E s \in Stages : At(c, s)'
                    /\ \A s1, s2 \in Stages : At(c, s1)' /\ At(c, s2)' => s1 = s2
  BY DEF StageInv
<1>1. /\ Made(c) <=> \E s \in Stages : At(c, s)
      /\ \A s1, s2 \in Stages : At(c, s1) /\ At(c, s2) => s1 = s2
  BY DEF StageInv
<1>2. "call" \in Stages
  BY DEF Stages
<1>3. CASE c \in N
  BY <1>1, <1>2, <1>3
<1>4. CASE c \notin N
  BY <1>1, <1>4
<1> QED
  BY <1>3, <1>4

\* One call moves.
LEMMA OneCallMoves ==
  ASSUME StageInv, NEW c \in Calls, NEW a \in Stages, NEW b \in Stages, At(c, a),
         \A d \in Calls : Made(d)' <=> Made(d),
         \A d \in Calls : \A s \in Stages :
           At(d, s)' <=> (At(d, s) /\ ~(d = c /\ s = a)) \/ (d = c /\ s = b)
  PROVE  StageInv'
<1> SUFFICES ASSUME NEW d \in Calls
             PROVE  /\ Made(d)' <=> \E s \in Stages : At(d, s)'
                    /\ \A s1, s2 \in Stages : At(d, s1)' /\ At(d, s2)' => s1 = s2
  BY DEF StageInv
<1>1. /\ Made(d) <=> \E s \in Stages : At(d, s)
      /\ \A s1, s2 \in Stages : At(d, s1) /\ At(d, s2) => s1 = s2
  BY DEF StageInv
<1>2. CASE d = c
  BY <1>1, <1>2
<1>3. CASE d # c
  BY <1>1, <1>3
<1> QED
  BY <1>2, <1>3

\* One call moves, and others are made.
LEMMA OneMovesOthersEnter ==
  ASSUME StageInv, NEW c \in Calls, NEW a \in Stages, NEW b \in Stages, At(c, a),
         NEW N, \A d \in N : d \in Calls /\ ~Made(d),
         \A d \in Calls : Made(d)' <=> Made(d) \/ d \in N,
         \A d \in Calls : \A s \in Stages :
           At(d, s)' <=> \/ At(d, s) /\ ~(d = c /\ s = a)
                         \/ d = c /\ s = b
                         \/ d \in N /\ s = "call"
  PROVE  StageInv'
<1> SUFFICES ASSUME NEW d \in Calls
             PROVE  /\ Made(d)' <=> \E s \in Stages : At(d, s)'
                    /\ \A s1, s2 \in Stages : At(d, s1)' /\ At(d, s2)' => s1 = s2
  BY DEF StageInv
<1>1. /\ Made(d) <=> \E s \in Stages : At(d, s)
      /\ \A s1, s2 \in Stages : At(d, s1) /\ At(d, s2) => s1 = s2
  BY DEF StageInv
<1>2. "call" \in Stages
  BY DEF Stages
<1>3. CASE d \in N
  BY <1>1, <1>2, <1>3
<1>4. CASE d = c /\ d \notin N
  BY <1>1, <1>4
<1>5. CASE d # c /\ d \notin N
  BY <1>1, <1>5
<1> QED
  BY <1>3, <1>4, <1>5

\* Nothing about calls changes.
LEMMA CallsStay ==
  ASSUME CallInv, TasksOnce', Waiting' = Waiting,
         UNCHANGED <<m_requesters, requesters, m_e_curls, handlers, history>>
  PROVE  CallInv'
<1>1. StageInv'
  BY DEF CallInv, StageInv, Made, At, requesters, history
<1>2. TableInv' /\ AddInv' /\ HeldInv' /\ DroppedInv' /\ OwnAnswerOnce'
  BY DEF CallInv, TableInv, AddInv, HeldInv, DroppedInv, OwnAnswerOnce, requesters, history
<1> QED
  BY <1>1, <1>2 DEF CallInv

\* The same, for a step that leaves the launcher alone.
LEMMA CallsRest ==
  ASSUME CallInv,
         UNCHANGED <<launcher, m_requesters, requesters, m_e_curls, handlers, history>>
  PROVE  CallInv'
<1>1. TasksOnce' /\ Waiting' = Waiting
  BY DEF CallInv, TasksOnce, Waiting, launcher
<1> QED
  BY <1>1, CallsStay

-------------------------------------------------------------------------------
(* The actions that move calls. *)

\* onCallTask: from the launcher to the multi handle.
LEMMA OnCallTaskStep ==
  ASSUME TypeOK, CallInv, NEW t \in running, OnCallTask(t)
  PROVE  CallInv'
<1> DEFINE c == t.c
<1>1. c \in Calls /\ t = Task("call", c)
  BY TaskForms DEF OnCallTask, Runs, TypeOK
<1> HIDE DEF c
<1>2. /\ running' = running \ {t} /\ task_q' = task_q \o <<>>
      /\ m_e_curls' = m_e_curls \cup {c}
      /\ UNCHANGED <<m_requesters, requesters, handlers, history>>
  BY DEF OnCallTask, Runs, ClientCall, dispatcher, c
<1>3. TasksOnce' /\ Waiting' \subseteq Waiting
      /\ \A x \in Carrying : x \in Waiting' <=> x \in Waiting /\ x # t
  BY <1>2, TaskEnds DEF CallInv
<1>4. StageInv'
  <2>1. At(c, "call")
    BY <1>1 DEF At, Waiting
  <2>2. \A d \in Calls : Made(d)' <=> Made(d)
    BY <1>2 DEF Made, requesters
  <2>3. ASSUME NEW d \in Calls, NEW s \in Stages
        PROVE  At(d, s)' <=> (At(d, s) /\ ~(d = c /\ s = "call")) \/ (d = c /\ s = "transfer")
    <3>1. /\ Task("call", d) \in Waiting' <=> Task("call", d) \in Waiting /\ d # c
          /\ Task("done", d) \in Waiting' <=> Task("done", d) \in Waiting
          /\ Answering(d) \in Waiting' <=> Answering(d) \in Waiting
      BY <1>1, <1>3, Carriers, Different
    <3> QED
      BY <1>2, <3>1 DEF At, history, Stages
  <2> QED
    BY <1>1, <2>1, <2>2, <2>3, OneCallMoves DEF CallInv, Stages
<1>5. TableInv' /\ DroppedInv' /\ OwnAnswerOnce'
  BY <1>2 DEF CallInv, TableInv, DroppedInv, OwnAnswerOnce, requesters, history
<1>6. AddInv' /\ HeldInv'
  BY <1>2, <1>3 DEF CallInv, AddInv, HeldInv, requesters, history
<1> QED
  BY <1>3, <1>4, <1>5, <1>6 DEF CallInv

\* A call that is anywhere was made by a requester that has an id.
LEMMA CallerHasId ==
  ASSUME TypeOK, CallInv, NEW c \in Calls, NEW s \in Stages, At(c, s)
  PROVE  Made(c) /\ c.id = m_id[c.by] /\ m_id[c.by] \in Nat \ {0}
<1>1. Made(c) /\ c.by \in Requesters
  BY CallForms DEF CallInv, StageInv
<1>2. made[c.by] \in Nat /\ made[c.by] # 0
  BY <1>1 DEF Made, TypeOK
<1>3. m_id[c.by] \in Nat /\ m_id[c.by] # 0
  BY <1>1, <1>2 DEF CallInv, TableInv, TypeOK
<1> QED
  BY <1>1, <1>3 DEF Made

\* The requester found under the id is the one that made the call.
LEMMA FoundIsCaller ==
  ASSUME TypeOK, CallInv, NEW c \in Calls, NEW s \in Stages, At(c, s),
         c.id \in DOMAIN m_requesters
  PROVE  m_requesters[c.id] = c.by
<1>1. c.id = m_id[c.by] /\ m_id[c.by] # 0 /\ c.by \in Requesters
  BY CallerHasId, CallForms
<1>2. m_requesters[c.id] \in Requesters /\ m_id[m_requesters[c.id]] = c.id
  BY DEF TypeOK, CallInv, TableInv
<1> QED
  BY <1>1, <1>2 DEF CallInv, TableInv

\* onCallDoneTask, the requester found.
LEMMA OnCallDoneTaskStep ==
  ASSUME TypeOK, CallInv, NEW t \in running, OnCallDoneTask(t)
  PROVE  CallInv'
<1> DEFINE c == t.c
           u == [kind |-> "answer", c |-> c, requester |-> m_requesters[c.id]]
<1>1. c \in Calls /\ t = Task("done", c) /\ c.id \in DOMAIN m_requesters
  BY TaskForms DEF OnCallDoneTask, TypeOK
<1>2. At(c, "done") /\ "done" \in Stages
  BY <1>1 DEF At, Waiting, Stages
<1>3. u = Answering(c)
  <2>1. m_requesters[c.id] = c.by
    BY <1>1, <1>2, FoundIsCaller
  <2> QED
    BY <2>1 DEF Answering
<1>4. /\ running' = (running \ {t}) \cup {u} /\ task_q' = task_q
      /\ UNCHANGED <<m_requesters, requesters, m_e_curls, handlers, history>>
  BY DEF OnCallDoneTask, GoesOn, dispatcher, client
<1> HIDE DEF c, u
<1>5. u \notin Waiting
  BY <1>1, <1>2, <1>3 DEF CallInv, StageInv, At, Stages
<1>6. TasksOnce' /\ Waiting' \subseteq Waiting \cup {u}
      /\ \A x \in Carrying : x \in Waiting' <=> x = u \/ (x \in Waiting /\ x # t)
  BY <1>4, <1>5, TaskGoesOn DEF CallInv
<1>7. StageInv'
  <2>1. \A d \in Calls : Made(d)' <=> Made(d)
    BY <1>4 DEF Made, requesters
  <2>2. ASSUME NEW d \in Calls, NEW s \in Stages
        PROVE  At(d, s)' <=> (At(d, s) /\ ~(d = c /\ s = "done")) \/ (d = c /\ s = "answer")
    <3>1. /\ Task("call", d) \in Waiting' <=> Task("call", d) \in Waiting
          /\ Task("done", d) \in Waiting' <=> Task("done", d) \in Waiting /\ d # c
          /\ Answering(d) \in Waiting' <=> Answering(d) \in Waiting \/ d = c
      BY <1>1, <1>3, <1>6, Carriers, Different
    <3> QED
      BY <1>4, <3>1 DEF At, history, Stages
  <2> QED
    BY <1>1, <1>2, <2>1, <2>2, OneCallMoves DEF CallInv, Stages
<1>8. TableInv' /\ DroppedInv' /\ OwnAnswerOnce'
  BY <1>4 DEF CallInv, TableInv, DroppedInv, OwnAnswerOnce, requesters, history
<1>9. AddInv'
  BY <1>3, <1>4, <1>6, Different DEF CallInv, AddInv, requesters, history
<1>10. HeldInv'
  <2>1. u.kind = "answer" /\ u.requester = u.c.by /\ m_id[u.c.by] # 0
    BY <1>1, <1>2, <1>3, CallerHasId, Different
  <2> QED
    BY <1>4, <1>6, <2>1 DEF CallInv, HeldInv, requesters
<1> QED
  BY <1>6, <1>7, <1>8, <1>9, <1>10 DEF CallInv

\* onCallDoneTask, no requester found: it has finished.
LEMMA RequesterDoesNotExistStep ==
  ASSUME TypeOK, CallInv, NEW t \in running, RequesterDoesNotExist(t)
  PROVE  CallInv'
<1> DEFINE c == t.c
<1>1. c \in Calls /\ t = Task("done", c) /\ c.id \notin DOMAIN m_requesters
  BY TaskForms DEF RequesterDoesNotExist, TypeOK
<1>2. At(c, "done") /\ "done" \in Stages
  BY <1>1 DEF At, Waiting, Stages
<1>3. m_isfinished[c.by]
  <2>1. c.id = m_id[c.by] /\ m_id[c.by] # 0 /\ c.by \in Requesters
    BY <1>1, <1>2, CallerHasId, CallForms
  <2> QED
    BY <1>1, <2>1 DEF CallInv, TableInv
<1>4. /\ running' = running \ {t} /\ task_q' = task_q \o <<>>
      /\ dropped' = dropped \cup {c}
      /\ UNCHANGED <<m_requesters, requesters, m_e_curls, handlers, added, answers, repeated>>
  BY DEF RequesterDoesNotExist, Runs, dispatcher, client
<1> HIDE DEF c
<1>5. TasksOnce' /\ Waiting' \subseteq Waiting
      /\ \A x \in Carrying : x \in Waiting' <=> x \in Waiting /\ x # t
  BY <1>4, TaskEnds DEF CallInv
<1>6. StageInv'
  <2>1. \A d \in Calls : Made(d)' <=> Made(d)
    BY <1>4 DEF Made, requesters
  <2>2. ASSUME NEW d \in Calls, NEW s \in Stages
        PROVE  At(d, s)' <=> (At(d, s) /\ ~(d = c /\ s = "done")) \/ (d = c /\ s = "dropped")
    <3>1. /\ Task("call", d) \in Waiting' <=> Task("call", d) \in Waiting
          /\ Task("done", d) \in Waiting' <=> Task("done", d) \in Waiting /\ d # c
          /\ Answering(d) \in Waiting' <=> Answering(d) \in Waiting
      BY <1>1, <1>5, Carriers, Different
    <3> QED
      BY <1>4, <3>1 DEF At, Stages
  <2> QED
    BY <1>1, <1>2, <2>1, <2>2, OneCallMoves DEF CallInv, Stages
<1>7. TableInv' /\ OwnAnswerOnce'
  BY <1>4 DEF CallInv, TableInv, OwnAnswerOnce, requesters
<1>8. DroppedInv'
  BY <1>3, <1>4 DEF CallInv, DroppedInv, requesters
<1>9. AddInv' /\ HeldInv'
  BY <1>4, <1>5 DEF CallInv, AddInv, HeldInv, requesters
<1> QED
  BY <1>5, <1>6, <1>7, <1>8, <1>9 DEF CallInv

\* performTransfers: from the multi handle to a handler.
LEMMA PerformTransfersStep ==
  ASSUME TypeOK, CallInv, NEW c \in msgs, PerformTransfers(c)
  PROVE  CallInv'
<1>1. c \in Calls /\ c \in m_e_curls
  BY DEF TypeOK
<1>2. /\ m_e_curls' = m_e_curls \ {c} /\ handlers' = handlers \cup {c}
      /\ UNCHANGED <<running, task_q, m_requesters, requesters, history>>
  BY DEF PerformTransfers, launcher, dispatcher
<1>3. TasksOnce' /\ Waiting' = Waiting
  BY <1>2 DEF CallInv, TasksOnce, Waiting
<1>4. StageInv'
  <2>1. At(c, "transfer") /\ "transfer" \in Stages /\ "handler" \in Stages
    BY <1>1 DEF At, Stages
  <2>2. \A d \in Calls : Made(d)' <=> Made(d)
    BY <1>2 DEF Made, requesters
  <2>3. ASSUME NEW d \in Calls, NEW s \in Stages
        PROVE  At(d, s)' <=> (At(d, s) /\ ~(d = c /\ s = "transfer"))
                             \/ (d = c /\ s = "handler")
    BY <1>2, <1>3 DEF At, history, Stages
  <2> QED
    BY <1>1, <2>1, <2>2, <2>3, OneCallMoves DEF CallInv
<1>5. TableInv' /\ DroppedInv' /\ OwnAnswerOnce' /\ AddInv' /\ HeldInv'
  BY <1>2, <1>3
  DEF CallInv, TableInv, DroppedInv, OwnAnswerOnce, AddInv, HeldInv, requesters, history
<1> QED
  BY <1>3, <1>4, <1>5 DEF CallInv

\* callHandler: from a handler back to the launcher.
LEMMA CallHandlerStep ==
  ASSUME TypeOK, CallInv, NEW c \in handlers, CallHandler(c)
  PROVE  CallInv'
<1> DEFINE u == Task("done", c)
<1>1. c \in Calls /\ At(c, "handler") /\ "handler" \in Stages /\ "done" \in Stages
  BY DEF TypeOK, At, Stages
<1>2. u \in Tasks /\ u \notin Waiting
  BY <1>1, TasksMade DEF CallInv, StageInv, At
<1>3. /\ running' = running /\ task_q' = Append(task_q, u)
      /\ handlers' = handlers \ {c}
      /\ UNCHANGED <<m_e_curls, m_requesters, requesters, history>>
  BY DEF CallHandler, dispatcher
<1> HIDE DEF u
<1>5. TasksOnce' /\ Waiting' \subseteq Waiting \cup {u}
      /\ \A x \in Carrying : x \in Waiting' <=> x \in Waiting \/ x = u
  BY <1>2, <1>3, TaskQueued DEF CallInv
<1>6. StageInv'
  <2>1. \A d \in Calls : Made(d)' <=> Made(d)
    BY <1>3 DEF Made, requesters
  <2>2. ASSUME NEW d \in Calls, NEW s \in Stages
        PROVE  At(d, s)' <=> (At(d, s) /\ ~(d = c /\ s = "handler")) \/ (d = c /\ s = "done")
    <3>1. /\ Task("call", d) \in Waiting' <=> Task("call", d) \in Waiting
          /\ Task("done", d) \in Waiting' <=> Task("done", d) \in Waiting \/ d = c
          /\ Answering(d) \in Waiting' <=> Answering(d) \in Waiting
      BY <1>1, <1>5, Carriers, Different DEF u
    <3> QED
      BY <1>3, <3>1 DEF At, history, Stages
  <2> QED
    BY <1>1, <2>1, <2>2, OneCallMoves DEF CallInv
<1>7. TableInv' /\ DroppedInv' /\ OwnAnswerOnce'
  BY <1>3 DEF CallInv, TableInv, DroppedInv, OwnAnswerOnce, requesters, history
<1>8. AddInv' /\ HeldInv'
  <2>1. u.kind = "done" /\ \A r : u # AddTask(r)
    BY Different DEF u
  <2> QED
    BY <1>3, <1>5, <2>1 DEF CallInv, AddInv, HeldInv, requesters, history
<1> QED
  BY <1>5, <1>6, <1>7, <1>8 DEF CallInv

\* addRequesterTask: a new id, and the calls of start().
LEMMA AddRequesterTaskStep ==
  ASSUME TypeOK, CallInv, NEW t \in running, t.kind = "add",
         NEW n \in 1 .. MaxCalls[t.requester], AddRequesterTask(t, n)
  PROVE  CallInv'
<1> DEFINE r  == t.requester
           id == m_req_id + 1
           e  == StartCalls(r, id, n)
           N  == {Call(r, id, i) : i \in 1 .. n}
<1>1. r \in Requesters /\ t = AddTask(r) /\ t \in Tasks
  BY TaskForms DEF TypeOK
<1>2. id \in Nat \ {0} /\ n \in Nat \ {0}
  BY <1>1, OutRequestsAssumption DEF TypeOK
<1>3. m_id[r] = 0 /\ made[r] = 0 /\ r \in added
  BY <1>1 DEF CallInv, AddInv, TableInv, Waiting
<1>4. /\ running' = running \ {t} /\ task_q' = task_q \o e
      /\ m_id' = [m_id EXCEPT ![r] = id] /\ made' = [made EXCEPT ![r] = n]
      /\ m_requesters' = Insert(m_requesters, id, r)
      /\ UNCHANGED <<m_isfinished, m_e_curls, handlers, history>>
  BY DEF AddRequesterTask, Runs, client
<1>5. e \in Seq(Tasks) /\ NoRepeat(e, Carrying)
      /\ ToSet(e) = {Task("call", Call(r, id, i)) : i \in 1 .. n}
  BY <1>1, <1>2, StartTasks
<1>6. /\ \A d \in N : d \in Calls /\ d.by = r /\ d.id = id /\ d.call \in 1 .. n
      /\ \A d \in Calls : d.by = r /\ d.id = id /\ d.call \in 1 .. n => d \in N
  <2>1. \A i \in 1 .. n : i \in Nat
    BY <1>2
  <2>2. \A d \in N : d \in Calls /\ d.by = r /\ d.id = id /\ d.call \in 1 .. n
    BY <1>1, <1>2, <2>1, CallForms
  <2>3. \A d \in Calls : d.by = r /\ d.id = id /\ d.call \in 1 .. n => d \in N
    BY <1>1, <1>2, <2>1, CallForms
  <2> QED
    BY <2>2, <2>3
<1>7. \A x : x \in ToSet(e) <=> \E d \in N : x = Task("call", d)
  BY <1>5
<1>8. m_id[r] # id /\ \A q \in Requesters : m_id[q] \in 0 .. m_req_id /\ m_id[q] # id
  BY <1>1, <1>3 DEF TypeOK
<1> HIDE DEF r, id, e, N
<1>9. \A d \in N : ~Made(d)
  BY <1>2, <1>3, <1>6 DEF Made
<1>10. ToSet(e) \cap Waiting = {}
  <2> SUFFICES ASSUME NEW d \in N, Task("call", d) \in Waiting PROVE FALSE
    BY <1>7
  <2>1. At(d, "call") /\ "call" \in Stages /\ d \in Calls
    BY <1>6 DEF At, Stages
  <2> QED
    BY <1>9, <2>1 DEF CallInv, StageInv
<1>11. /\ TasksOnce' /\ Waiting' \subseteq Waiting \cup ToSet(e)
       /\ \A x \in Carrying : x \in Waiting' <=> x \in ToSet(e) \/ (x \in Waiting /\ x # t)
  BY <1>4, <1>5, <1>10, TaskAdds DEF CallInv
<1>12. StageInv'
  <2>1. \A d \in Calls : Made(d)' <=> Made(d) \/ d \in N
    <3> SUFFICES ASSUME NEW d \in Calls PROVE Made(d)' <=> Made(d) \/ d \in N
      OBVIOUS
    <3>1. d.by \in Requesters
      BY CallForms
    <3>2. CASE d.by = r
      <4>1. m_id'[d.by] = id /\ made'[d.by] = n
        BY <1>1, <1>4, <3>2 DEF TypeOK
      <4>2. ~Made(d)
        BY <1>3, <3>2 DEF Made
      <4> QED
        BY <1>6, <3>2, <4>1, <4>2 DEF Made
    <3>3. CASE d.by # r
      <4>1. m_id'[d.by] = m_id[d.by] /\ made'[d.by] = made[d.by]
        BY <1>4, <3>1, <3>3 DEF TypeOK
      <4> QED
        BY <1>6, <3>3, <4>1 DEF Made
    <3> QED
      BY <3>2, <3>3
  <2>2. ASSUME NEW d \in Calls, NEW s \in Stages
        PROVE  At(d, s)' <=> At(d, s) \/ (d \in N /\ s = "call")
    <3>1. /\ Task("call", d) \in Waiting' <=> Task("call", d) \in Waiting \/ d \in N
          /\ Task("done", d) \in Waiting' <=> Task("done", d) \in Waiting
          /\ Answering(d) \in Waiting' <=> Answering(d) \in Waiting
      BY <1>1, <1>7, <1>11, Carriers, Different
    <3> QED
      BY <1>4, <3>1 DEF At, history, Stages
  <2> QED
    BY <1>6, <1>9, <2>1, <2>2, CallsEnter DEF CallInv
<1>13. TableInv'
  <2>1. \A q \in Requesters : m_id'[q] = IF q = r THEN id ELSE m_id[q]
    BY <1>4 DEF TypeOK
  <2>2. \A q \in Requesters : made'[q] = IF q = r THEN n ELSE made[q]
    BY <1>4 DEF TypeOK
  <2>3. id \notin DOMAIN m_requesters
    BY DEF TypeOK, id
  <2>4. DOMAIN m_requesters' = DOMAIN m_requesters \cup {id}
        /\ m_requesters'[id] = r
        /\ \A i \in DOMAIN m_requesters : m_requesters'[i] = m_requesters[i]
    BY <1>4, <2>3 DEF Insert
  <2>5. \A q, s \in Requesters : m_id'[q] = m_id'[s] /\ m_id'[q] # 0 => q = s
    BY <1>8, <2>1 DEF CallInv, TableInv
  <2>6. ASSUME NEW i \in DOMAIN m_requesters' PROVE m_id'[m_requesters'[i]] = i
    <3>1. CASE i = id
      BY <1>1, <2>1, <2>4, <3>1
    <3>2. CASE i \in DOMAIN m_requesters
      <4>1. m_requesters[i] \in Requesters /\ m_id[m_requesters[i]] = i /\ i # 0
        BY <3>2 DEF CallInv, TableInv, TypeOK
      <4>2. m_requesters[i] # r
        BY <1>3, <4>1
      <4> QED
        BY <2>1, <2>4, <3>2, <4>1, <4>2
    <3> QED
      BY <2>4, <3>1, <3>2
  <2>7. ASSUME NEW q \in Requesters
        PROVE  /\ m_id'[q] # 0 => m_id'[q] \in DOMAIN m_requesters' \/ m_isfinished'[q]
               /\ m_id'[q] = 0 => made'[q] = 0
    <3>1. CASE q = r
      BY <1>2, <2>1, <2>4, <3>1
    <3>2. CASE q # r
      BY <1>4, <2>1, <2>2, <2>4, <3>2 DEF CallInv, TableInv
    <3> QED
      BY <3>1, <3>2
  <2> QED
    BY <2>5, <2>6, <2>7 DEF TableInv
<1>14. AddInv'
  <2> SUFFICES ASSUME NEW q \in Requesters
               PROVE  /\ AddTask(q) \in Waiting' => q \in added' /\ m_id'[q] = 0
                      /\ m_id'[q] # 0 => q \in added'
    BY DEF AddInv
  <2>1. AddTask(q) \in Waiting' => AddTask(q) \in Waiting /\ q # r
    BY <1>1, <1>7, <1>11, Carriers, Different
  <2>2. m_id'[q] = IF q = r THEN id ELSE m_id[q]
    BY <1>4 DEF TypeOK
  <2> QED
    BY <1>3, <1>4, <2>1, <2>2 DEF CallInv, AddInv, history
<1>15. HeldInv'
  <2>1. \A x \in ToSet(e) : x.kind = "call"
    BY <1>7, Different
  <2>2. ASSUME NEW x \in Waiting, x.kind \in {"answer", "check", "finished"}
        PROVE  x.c.by \in Requesters
    BY <2>2, TaskForms, CallForms DEF Waiting, TypeOK, ToSet
  <2>3. \A q \in Requesters : m_id[q] # 0 => m_id'[q] = m_id[q]
    BY <1>3, <1>4 DEF TypeOK
  <2> QED
    BY <1>4, <1>11, <2>1, <2>2, <2>3 DEF CallInv, HeldInv
<1>16. DroppedInv' /\ OwnAnswerOnce'
  BY <1>4 DEF CallInv, DroppedInv, OwnAnswerOnce, history
<1> QED
  BY <1>11, <1>12, <1>13, <1>14, <1>15, <1>16 DEF CallInv

\* onCallDone: the call is answered, and another may be made.
LEMMA OnCallDoneStep ==
  ASSUME TypeOK, CallInv, NEW t \in running, NEW more \in BOOLEAN,
         NEW finishes \in BOOLEAN, OnCallDone(t, more, finishes)
  PROVE  CallInv'
<1> DEFINE c == t.c
           r == t.requester
           u == [kind |-> "check", c |-> c, requester |-> r]
           k == Call(r, m_id[r], made[r] + 1)
<1>1. /\ c \in Calls /\ r \in Requesters /\ t.kind = "answer" /\ r = c.by
      /\ t = Answering(c) /\ m_id[r] # 0
  <2>1. t.kind = "answer" /\ t \in Tasks /\ t \in Waiting
    BY DEF OnCallDone, GoesOn, TypeOK, Waiting
  <2>2. t.requester = t.c.by /\ m_id[t.c.by] # 0
    BY <2>1 DEF CallInv, HeldInv
  <2> QED
    BY <2>1, <2>2, TaskForms
<1>2. At(c, "answer") /\ "answer" \in Stages /\ "answered" \in Stages
  BY <1>1 DEF At, Waiting, Stages
<1>3. m_id[r] \in Nat /\ made[r] \in Nat /\ made[r] + 1 \in Nat
  BY <1>1 DEF TypeOK
<1>4. /\ running' = (running \ {t}) \cup {u}
      /\ answers' = answers \cup {<<r, c>>}
      /\ repeated' = repeated \cup (answers \cap {<<r, c>>})
      /\ UNCHANGED <<m_id, m_requesters, m_e_curls, handlers, added, dropped>>
  BY DEF OnCallDone, GoesOn, dispatcher, client
<1>5. \A q \in Requesters : m_isfinished[q] => m_isfinished'[q]
  <2>1. m_isfinished' = [m_isfinished EXCEPT ![r] = m_isfinished[r] \/ finishes]
    BY DEF OnCallDone
  <2> HIDE DEF r
  <2> SUFFICES ASSUME NEW q \in Requesters, m_isfinished[q] PROVE m_isfinished'[q]
    OBVIOUS
  <2>2. CASE q = r
    <3>1. m_isfinished'[r] = (m_isfinished[r] \/ finishes)
      BY <1>1, <2>1, Zenon DEF TypeOK
    <3> QED
      BY <2>2, <3>1
  <2>3. CASE q # r
    <3>1. m_isfinished'[q] = m_isfinished[q]
      BY <2>1, <2>3 DEF TypeOK
    <3> QED
      BY <3>1
  <2> QED
    BY <2>2, <2>3
<1>6. k \in Calls /\ k.by = r /\ k.id = m_id[r] /\ k.call = made[r] + 1
  BY <1>1, <1>3, CallForms
<1>7. u.kind = "check" /\ u.c = c /\ u.requester = r /\ u \notin Carrying
  BY Carriers
<1>8. ~Made(k)
  BY <1>3, <1>6 DEF Made
<1>9. Task("call", k) \in Tasks /\ Task("call", k) \notin Waiting
  <2>1. Task("call", k) \in Waiting => At(k, "call") /\ "call" \in Stages
    BY DEF At, Stages
  <2> QED
    BY <1>6, <1>8, <2>1, TasksMade DEF CallInv, StageInv
<1>10. PICK N \in SUBSET {k} :
         /\ TasksOnce'
         /\ \A x \in Waiting' : x \in Waiting \/ x = u \/ \E d \in N : x = Task("call", d)
         /\ \A x \in Carrying : x \in Waiting' <=> \/ \E d \in N : x = Task("call", d)
                                                   \/ x \in Waiting /\ x # t
         /\ \A d \in Calls : Made(d)' <=> Made(d) \/ d \in N
         /\ \A q \in Requesters : made'[q] = IF q = r /\ N # {} THEN made[q] + 1 ELSE made[q]
  <2>1. CASE more = TRUE
    <3>1. /\ task_q' = Append(task_q, Task("call", k))
          /\ made' = [made EXCEPT ![r] = made[r] + 1]
      BY <2>1 DEF OnCallDone
    <3> HIDE DEF c, r, u, k
    <3>2. /\ TasksOnce'
          /\ Waiting' \subseteq Waiting \cup {u, Task("call", k)}
          /\ \A x \in Carrying :
               x \in Waiting' <=> x = Task("call", k) \/ (x \in Waiting /\ x # t)
      BY <1>4, <1>7, <1>9, <3>1, TaskGoesOnAndAdds DEF CallInv
    <3>3. \A q \in Requesters : made'[q] = IF q = r THEN made[q] + 1 ELSE made[q]
      BY <3>1 DEF TypeOK
    <3>4. ASSUME NEW d \in Calls PROVE Made(d)' <=> Made(d) \/ d = k
      <4>1. d.by \in Requesters /\ d.call \in Nat /\ d = Call(d.by, d.id, d.call)
            /\ m_id' = m_id
        BY <1>4, CallForms
      <4>2. CASE d.by = r
        <5>1. made'[d.by] = made[r] + 1
          BY <1>1, <3>3, <4>2
        <5>2. \A i, j \in Nat : i \in 1 .. j + 1 <=> i \in 1 .. j \/ i = j + 1
          OBVIOUS
        <5>3. d.call \in 1 .. made'[d.by] <=> d.call \in 1 .. made[r] \/ d.call = made[r] + 1
          BY <1>3, <4>1, <5>1, <5>2
        <5>4. d = k <=> d.id = m_id[r] /\ d.call = made[r] + 1
          BY <1>6, <4>1, <4>2 DEF k
        <5> QED
          BY <4>1, <4>2, <5>3, <5>4 DEF Made
      <4>3. CASE d.by # r
        BY <1>6, <3>3, <4>1, <4>3 DEF Made
      <4> QED
        BY <4>2, <4>3
    <3> WITNESS {k} \in SUBSET {k}
    <3> QED
      BY <3>2, <3>3, <3>4
  <2>2. CASE more = FALSE
    <3>1. task_q' = task_q /\ made' = [made EXCEPT ![r] = made[r]]
      BY <2>2 DEF OnCallDone
    <3> HIDE DEF c, r, u, k
    <3>2. /\ TasksOnce'
          /\ Waiting' \subseteq Waiting \cup {u}
          /\ \A x \in Carrying : x \in Waiting' <=> x = u \/ (x \in Waiting /\ x # t)
      BY <1>4, <1>7, <3>1, TaskGoesOn DEF CallInv
    <3>3. made' = made
      BY <3>1 DEF TypeOK
    <3>4. \A d \in Calls : Made(d)' <=> Made(d)
      BY <1>4, <3>3 DEF Made
    <3> WITNESS {} \in SUBSET {k}
    <3> QED
      BY <1>7, <3>2, <3>3, <3>4
  <2> QED
    BY <2>1, <2>2
<1> HIDE DEF c, r, u, k
<1>11. StageInv'
  <2>1. ASSUME NEW d \in Calls, NEW s \in Stages
        PROVE  At(d, s)' <=> \/ At(d, s) /\ ~(d = c /\ s = "answer")
                             \/ d = c /\ s = "answered"
                             \/ d \in N /\ s = "call"
    <3>1. /\ Task("call", d) \in Waiting' <=> Task("call", d) \in Waiting \/ d \in N
          /\ Task("done", d) \in Waiting' <=> Task("done", d) \in Waiting
          /\ Answering(d) \in Waiting' <=> Answering(d) \in Waiting /\ d # c
      BY <1>1, <1>10, Carriers, Different
    <3>2. <<d.by, d>> \in answers' <=> <<d.by, d>> \in answers \/ d = c
      BY <1>1, <1>4
    <3> QED
      BY <1>4, <3>1, <3>2 DEF At, Stages
  <2>2. \A d \in N : d \in Calls /\ ~Made(d)
    BY <1>6, <1>8, <1>10
  <2> QED
    BY <1>1, <1>2, <1>10, <2>1, <2>2, OneMovesOthersEnter DEF CallInv
<1>12. OwnAnswerOnce'
  <2>1. <<r, c>> \notin answers
    <3>1. ~At(c, "answered")
      BY <1>1, <1>2 DEF CallInv, StageInv
    <3> QED
      BY <1>1, <3>1 DEF At
  <2> QED
    BY <1>1, <1>4, <2>1 DEF CallInv, OwnAnswerOnce
<1>13. TableInv'
  BY <1>1, <1>4, <1>5, <1>10 DEF CallInv, TableInv
<1>14. AddInv'
  <2>1. \A q \in Requesters : AddTask(q) \in Waiting' => AddTask(q) \in Waiting
    BY <1>10, Carriers, Different
  <2> QED
    BY <1>4, <2>1 DEF CallInv, AddInv
<1>15. HeldInv'
  <2> SUFFICES ASSUME NEW x \in Waiting'
               PROVE  /\ x.kind \in {"answer", "check"}
                           => x.requester = x.c.by /\ m_id[x.c.by] # 0
                      /\ x.kind = "finished" =>
                           x.c.id = m_id[x.c.by] /\ m_id[x.c.by] # 0 /\ m_isfinished'[x.c.by]
    BY <1>4 DEF HeldInv
  <2>1. CASE x \in Waiting
    <3>1. x \in Tasks
      BY <2>1 DEF Waiting, TypeOK, ToSet
    <3>2. x.kind = "finished" => x.c.by \in Requesters
      BY <3>1, TaskForms, CallForms
    <3> QED
      BY <1>5, <2>1, <3>2 DEF CallInv, HeldInv
  <2>2. CASE x = u
    BY <1>1, <1>7, <2>2
  <2>3. CASE \E d \in N : x = Task("call", d)
    BY <2>3, Different
  <2> QED
    BY <1>10, <2>1, <2>2, <2>3
<1>16. DroppedInv'
  <2>1. \A d \in dropped : d.by \in Requesters
    BY CallForms DEF TypeOK
  <2> QED
    BY <1>4, <1>5, <2>1 DEF CallInv, DroppedInv
<1> QED
  BY <1>10, <1>11, <1>12, <1>13, <1>14, <1>15, <1>16 DEF CallInv

-------------------------------------------------------------------------------
(* The actions that leave calls where they are. *)

\* Tasks that carry no call come and go.
LEMMA PlacesStay ==
  ASSUME StageInv, UNCHANGED <<m_id, made, m_e_curls, handlers, answers, dropped>>,
         \A c \in Calls : /\ Task("call", c) \in Waiting' <=> Task("call", c) \in Waiting
                          /\ Task("done", c) \in Waiting' <=> Task("done", c) \in Waiting
                          /\ Answering(c) \in Waiting' <=> Answering(c) \in Waiting
  PROVE  StageInv'
<1>1. \A c \in Calls : Made(c)' <=> Made(c)
  BY DEF Made
<1>2. \A c \in Calls : \A s \in Stages : At(c, s)' <=> At(c, s)
  BY DEF At, Stages
<1> QED
  BY <1>1, <1>2 DEF StageInv

\* addRequester
LEMMA AddRequesterStep ==
  ASSUME TypeOK, CallInv, NEW r \in Requesters, AddRequester(r)
  PROVE  CallInv'
<1>1. /\ running' = running /\ task_q' = Append(task_q, AddTask(r)) /\ r \notin added
      /\ added' = added \cup {r}
      /\ UNCHANGED <<m_requesters, requesters, m_e_curls, handlers, answers, repeated, dropped>>
  BY DEF AddRequester, dispatcher, client
<1>2. AddTask(r) \in Tasks /\ AddTask(r) \notin Waiting /\ m_id[r] = 0
  BY <1>1, TasksMade DEF CallInv, AddInv
<1>3. TasksOnce' /\ Waiting' = Waiting \cup {AddTask(r)}
  BY <1>1, <1>2, TaskQueued DEF CallInv
<1>4. StageInv'
  BY <1>1, <1>3, PlacesStay, Different DEF CallInv, requesters
<1>5. TableInv' /\ DroppedInv' /\ OwnAnswerOnce'
  BY <1>1 DEF CallInv, TableInv, DroppedInv, OwnAnswerOnce, requesters
<1>6. AddInv'
  <2>1. \A q : AddTask(q) = AddTask(r) => q = r
    BY Different
  <2> QED
    BY <1>1, <1>2, <1>3, <2>1 DEF CallInv, AddInv, requesters
<1>7. HeldInv'
  BY <1>1, <1>3, Different DEF CallInv, HeldInv, requesters
<1> QED
  BY <1>3, <1>4, <1>5, <1>6, <1>7 DEF CallInv

\* A task that carries no call ends, and leaves at most a task to take its
\* requester out of the table.
LEMMA OtherTaskEnds ==
  ASSUME TypeOK, CallInv, NEW t \in running, t \notin Carrying, NEW e \in Seq(Tasks),
         running' = running \ {t}, task_q' = task_q \o e, NoRepeat(e, Carrying),
         UNCHANGED <<requesters, m_e_curls, handlers, history>>,
         \A x \in ToSet(e) : /\ x.kind = "finished" /\ x.c.id = m_id[x.c.by]
                             /\ m_id[x.c.by] # 0 /\ m_isfinished[x.c.by]
  PROVE  TasksOnce' /\ StageInv' /\ AddInv' /\ HeldInv' /\ DroppedInv' /\ OwnAnswerOnce'
<1>1. ToSet(e) \cap Carrying = {}
  BY Carriers
<1>2. /\ TasksOnce' /\ Waiting' \subseteq Waiting \cup ToSet(e)
      /\ \A x \in Carrying : x \in Waiting' <=> x \in Waiting
  BY <1>1, TaskAdds DEF CallInv
<1>3. StageInv'
  BY <1>2, PlacesStay, Carriers DEF CallInv, requesters, history
<1>4. AddInv'
  BY <1>2, Carriers DEF CallInv, AddInv, requesters, history
<1>5. HeldInv'
  BY <1>2 DEF CallInv, HeldInv, requesters
<1>6. DroppedInv' /\ OwnAnswerOnce'
  BY DEF CallInv, DroppedInv, OwnAnswerOnce, requesters, history
<1> QED
  BY <1>2, <1>3, <1>4, <1>5, <1>6

\* finished()
LEMMA CheckFinishedStep ==
  ASSUME TypeOK, CallInv, NEW t \in running, CheckFinished(t)
  PROVE  CallInv'
<1> DEFINE r == t.requester
           k == [t.c EXCEPT !.id = m_id[r]]
           e == IF m_isfinished[r] THEN <<Task("finished", k)>> ELSE <<>>
<1>1. t.kind = "check" /\ t \in Tasks /\ t.c \in Calls /\ r \in Requesters
      /\ r = t.c.by /\ m_id[r] # 0 /\ t \notin Carrying
  <2>1. t.kind = "check" /\ t \in Tasks /\ t \in Waiting
    BY DEF CheckFinished, Runs, TypeOK, Waiting
  <2>2. r = t.c.by /\ m_id[t.c.by] # 0
    BY <2>1 DEF CallInv, HeldInv
  <2> QED
    BY <2>1, <2>2, TaskForms, Carriers
<1>2. k \in Calls /\ k.id = m_id[r] /\ k.by = r
  <2>1. m_id[r] \in Nat
    BY <1>1 DEF TypeOK
  <2> QED
    BY <1>1, <2>1 DEF Calls
<1>3. Task("finished", k) \in Tasks /\ Task("finished", k).kind = "finished"
      /\ Task("finished", k).c = k
  BY <1>2, TasksMade, Different
<1>4. /\ running' = running \ {t} /\ task_q' = task_q \o e
      /\ UNCHANGED <<m_requesters, requesters, m_e_curls, handlers, history>>
  BY DEF CheckFinished, Runs, dispatcher, client
<1> HIDE DEF r, k
<1>5. e \in Seq(Tasks) /\ NoRepeat(e, Carrying)
      /\ \A x \in ToSet(e) : m_isfinished[r] /\ x = Task("finished", k)
  <2>1. CASE m_isfinished[r]
    <3>1. e = <<Task("finished", k)>>
      BY <2>1
    <3> QED
      BY <1>3, <2>1, <3>1, ShortQueues, ZenonT(60) DEF TypeOK
  <2>2. CASE ~m_isfinished[r]
    <3>1. e = <<>>
      BY <2>2
    <3> QED
      BY <3>1, ShortQueues DEF TypeOK
  <2> QED
    BY <2>1, <2>2
<1> HIDE DEF e
<1>6. \A x \in ToSet(e) : /\ x.kind = "finished" /\ x.c.id = m_id[x.c.by]
                          /\ m_id[x.c.by] # 0 /\ m_isfinished[x.c.by]
  BY <1>1, <1>2, <1>3, <1>5
<1>7. TasksOnce' /\ StageInv' /\ AddInv' /\ HeldInv' /\ DroppedInv' /\ OwnAnswerOnce'
  BY <1>1, <1>4, <1>5, <1>6, OtherTaskEnds
<1>8. TableInv'
  BY <1>4 DEF CallInv, TableInv, requesters
<1> QED
  BY <1>7, <1>8 DEF CallInv

\* onRequesterFinishedTask takes the requester that has finished out of the
\* table, and no other.
LEMMA OnRequesterFinishedTaskStep ==
  ASSUME TypeOK, CallInv, NEW t \in running, OnRequesterFinishedTask(t)
  PROVE  CallInv'
<1> DEFINE id == t.c.id
           r  == t.c.by
<1>1. t.kind = "finished" /\ t \in Tasks /\ r \in Requesters /\ t \notin Carrying
      /\ id = m_id[r] /\ m_id[r] # 0 /\ m_isfinished[r]
  BY TaskForms, CallForms, Carriers
  DEF OnRequesterFinishedTask, Runs, TypeOK, CallInv, HeldInv, Waiting
<1>2. /\ running' = running \ {t} /\ task_q' = task_q \o <<>>
      /\ m_requesters' = [i \in DOMAIN m_requesters \ {id} |-> m_requesters[i]]
      /\ UNCHANGED <<requesters, m_e_curls, handlers, history>>
  BY DEF OnRequesterFinishedTask, Runs, client
<1>3. <<>> \in Seq(Tasks) /\ ToSet(<<>>) = {} /\ NoRepeat(<<>>, Carrying)
  BY ShortQueues DEF TypeOK
<1> HIDE DEF id, r
<1>4. TasksOnce' /\ StageInv' /\ AddInv' /\ HeldInv' /\ DroppedInv' /\ OwnAnswerOnce'
  BY <1>1, <1>2, <1>3, OtherTaskEnds
<1>5. TableInv'
  BY <1>1, <1>2 DEF CallInv, TableInv, requesters
<1> QED
  BY <1>4, <1>5 DEF CallInv

\* kickTask ends.
LEMMA KickSignalsStep ==
  ASSUME TypeOK, CallInv, KickSignals
  PROVE  CallInv'
<1>1. /\ running' = running \ {KickTask} /\ task_q' = task_q
      /\ UNCHANGED <<m_requesters, requesters, m_e_curls, handlers, history>>
  BY DEF KickSignals, dispatcher, client
<1>2. KickTask \notin Carrying
  BY DEF KickTask, Task, Carrying
<1>3. /\ TasksOnce' /\ Waiting' \subseteq Waiting
      /\ \A x \in Carrying : x \in Waiting' <=> x \in Waiting
  BY <1>1, <1>2 DEF CallInv, TasksOnce, Waiting
<1>4. StageInv'
  BY <1>1, <1>3, PlacesStay, Carriers DEF CallInv, requesters, history
<1>5. TableInv' /\ AddInv' /\ HeldInv' /\ DroppedInv' /\ OwnAnswerOnce'
  BY <1>1, <1>3
  DEF CallInv, TableInv, AddInv, HeldInv, DroppedInv, OwnAnswerOnce, requesters, history
<1> QED
  BY <1>3, <1>4, <1>5 DEF CallInv

-------------------------------------------------------------------------------
(* The invariant and what follows from it. *)

\* Each action keeps calls in their places.
LEMMA CallStep == TypeOK /\ CallInv /\ [Next]_vars => CallInv'
<1> SUFFICES ASSUME TypeOK, CallInv, [Next]_vars PROVE CallInv'
  OBVIOUS
<1>1. CASE Launch
  <2>1. TasksOnce' /\ Waiting' = Waiting
    BY <1>1, LaunchTasks DEF CallInv
  <2> QED
    BY <1>1, <2>1, CallsStay DEF Launch, dispatcher, client
<1>2. ASSUME NEW t \in running, Runner(t) PROVE CallInv'
  BY <1>2, AddRequesterTaskStep, OnCallTaskStep, OnCallDoneTaskStep,
     RequesterDoesNotExistStep, OnCallDoneStep, CheckFinishedStep,
     OnRequesterFinishedTaskStep
  DEF Runner
<1>3. ASSUME NEW r \in Requesters, AddRequester(r) PROVE CallInv'
  BY <1>3, AddRequesterStep
<1>4. ASSUME NEW c \in m_e_curls, TransferEnds(c) PROVE CallInv'
  BY <1>4, CallsRest DEF TransferEnds, dispatcher
<1>5. ASSUME NEW c \in handlers, CallHandler(c) PROVE CallInv'
  BY <1>5, CallHandlerStep
<1>6. CASE Kicker
  <2>1. CASE KickStarts \/ Select \/ Perform \/ SelectFails \/ KickReturns \/ KickStops
    BY <2>1, CallsRest
    DEF KickStarts, TestKickRunning, Select, Perform, SelectFails, KickReturns, KickStops,
        dispatcher, client
  <2> QED
    BY <1>6, <2>1, KickSignalsStep, PerformTransfersStep DEF Kicker
<1>7. CASE CallDtor \/ Destructor
  BY <1>7, CallsRest DEF CallDtor, Destructor, DtorTest, DtorSleeps, dispatcher, client
<1>8. CASE ForeignCall \/ ForeignEnds
  BY <1>8, CallsRest DEF ForeignCall, ForeignEnds, dispatcher
<1>9. CASE UNCHANGED vars
  BY <1>9, CallsRest DEF vars, dispatcher, client
<1> QED
  BY <1>1, <1>2, <1>3, <1>4, <1>5, <1>6, <1>7, <1>8, <1>9 DEF Next

\* kick_stopped is set by the loop that has ended, and nothing takes it back.
LEMMA KickStep == TypeOK /\ KickInv /\ [Next]_vars => KickInv'
<1> SUFFICES ASSUME TypeOK, KickInv, [Next]_vars PROVE KickInv'
  OBVIOUS
<1> USE DEF KickInv, kicking, stop
<1>1. CASE Launch
  BY <1>1 DEF Launch
<1>2. ASSUME NEW t \in running, Runner(t) PROVE KickInv'
  BY <1>2
  DEF Runner, AddRequesterTask, OnCallTask, OnCallDoneTask, RequesterDoesNotExist, OnCallDone,
      CheckFinished, OnRequesterFinishedTask
<1>3. ASSUME NEW r \in Requesters, AddRequester(r) PROVE KickInv'
  BY <1>3 DEF AddRequester
<1>4. ASSUME NEW c \in m_e_curls, TransferEnds(c) PROVE KickInv'
  BY <1>4 DEF TransferEnds
<1>5. ASSUME NEW c \in handlers, CallHandler(c) PROVE KickInv'
  BY <1>5 DEF CallHandler
<1>6. CASE Kicker
  BY <1>6
  DEF Kicker, KickStarts, TestKickRunning, Select, Perform, SelectFails, KickReturns, KickStops,
      KickSignals, PerformTransfers, KickGo
<1>7. CASE CallDtor \/ Destructor
  BY <1>7 DEF CallDtor, Destructor, DtorTest, DtorSleeps
<1>8. CASE ForeignCall \/ ForeignEnds
  BY <1>8 DEF ForeignCall, ForeignEnds
<1>9. CASE UNCHANGED vars
  BY <1>9 DEF vars
<1> QED
  BY <1>1, <1>2, <1>3, <1>4, <1>5, <1>6, <1>7, <1>8, <1>9 DEF Next

\* The dispatcher starts with its kickTask and nothing else.
LEMMA InitInd == Init => IndInv
<1> SUFFICES ASSUME Init PROVE IndInv
  OBVIOUS
<1>1. max_parallel \in Nat
  BY OutRequestsAssumption DEF Init
<1>2. TypeOK
  <2>1. KickTask \in Tasks /\ <<KickTask>> \in Seq(Tasks)
    BY TasksMade
  <2>3. DOMAIN m_requesters = {} /\ m_requesters \in [{} -> Requesters]
    BY DEF Init
  <2>4. made \in [Requesters -> Nat] /\ \A r \in Requesters : made[r] <= MaxCalls[r]
    BY OutRequestsAssumption DEF Init
  <2>5. m_id \in [Requesters -> 0 .. m_req_id]
    BY DEF Init
  <2>6. task_q \in Seq(Tasks) /\ running \subseteq Tasks
    BY <2>1 DEF Init
  <2>7. /\ DOMAIN m_requesters \subseteq 1 .. m_req_id
        /\ m_requesters \in [DOMAIN m_requesters -> Requesters]
    BY <2>3
  <2>8. m_isfinished \in [Requesters -> BOOLEAN] /\ m_req_id \in Nat
    BY DEF Init
  <2> QED
    BY <2>4, <2>5, <2>6, <2>7, <2>8 DEF Init, TypeOK
<1>3. Waiting = {KickTask}
  <2>1. ToSet(<<KickTask>>) = {KickTask}
    BY DEF ToSet
  <2> QED
    BY <2>1 DEF Init, Waiting
<1>4. KickTask.kind = "kick"
  BY DEF KickTask, Task
<1>5. TasksOnce
  BY DEF Init, TasksOnce
<1>6. StageInv
  <2> SUFFICES ASSUME NEW c \in Calls PROVE ~Made(c) /\ \A s \in Stages : ~At(c, s)
    BY DEF StageInv
  <2>1. ~Made(c)
    BY CallForms DEF Init, Made
  <2>2. \A s \in Stages : ~At(c, s)
    BY <1>3, <1>4, Different DEF Init, At
  <2> QED
    BY <2>1, <2>2
<1>7. TableInv
  BY DEF Init, TableInv
<1>8. AddInv /\ HeldInv
  BY <1>3, <1>4, Different DEF Init, AddInv, HeldInv
<1>9. DroppedInv /\ OwnAnswerOnce /\ KickInv
  BY DEF Init, DroppedInv, OwnAnswerOnce, KickInv
<1> QED
  BY <1>2, <1>5, <1>6, <1>7, <1>8, <1>9 DEF IndInv, CallInv

\* The inductive invariant holds in every reachable state.
THEOREM IndInvariant == Spec => []IndInv
<1>1. IndInv /\ [Next]_vars => IndInv'
  BY TypeStep, CallStep, KickStep DEF IndInv
<1> QED
  BY <1>1, InitInd, PTL DEF Spec

\* The state of the dispatcher, its client and the launcher has its types; only
\* transfers of the multi handle end, and only those that ended are reported.
THEOREM TypeCorrect == Spec => []TypeOK
BY IndInvariant, PTL DEF IndInv

\* However the three queues and their threads interleave, every call is answered
\* at most once, and to the requester that made it.
THEOREM AnswersComeHome == Spec => []OwnAnswerOnce
<1>1. IndInv => OwnAnswerOnce
  BY DEF IndInv, CallInv
<1> QED
  BY <1>1, IndInvariant, PTL

\* The destructor returns only when kickTask no longer uses the client.
THEOREM DtorIsLast == Spec => []DtorOutlivesKicking
<1>1. IndInv => DtorOutlivesKicking
  BY DEF IndInv, KickInv, DtorOutlivesKicking, Alive
<1> QED
  BY <1>1, IndInvariant, PTL

\* What the invariant's stages are in terms of the launcher's tasks.
LEMMA StagesAreTasks ==
  ASSUME TypeOK, HeldInv, NEW c \in Calls
  PROVE  /\ InTask(c, {"call"}) <=> At(c, "call")
         /\ InTask(c, {"done", "answer"}) <=> At(c, "done") \/ At(c, "answer")
<1>1. \A K : InTask(c, K) <=> \E t \in Waiting : t.kind \in K /\ t.c = c
  BY DEF InTask, Waiting, ToSet
<1>2. \A t \in Waiting : t \in Tasks
  BY DEF Waiting, ToSet, TypeOK
<1>3. InTask(c, {"call"}) <=> Task("call", c) \in Waiting
  BY <1>1, <1>2, TaskForms, Different
<1>4. \A t \in Waiting : t.kind = "answer" => t = Answering(t.c)
  BY <1>2, TaskForms DEF HeldInv
<1>5. InTask(c, {"done", "answer"}) <=> Task("done", c) \in Waiting \/ Answering(c) \in Waiting
  BY <1>1, <1>2, <1>4, TaskForms, Different
<1> QED
  BY <1>3, <1>5 DEF At

\* No call is lost or doubled: every call that was made is in exactly one place on
\* its way through the launcher, the multi handle and the handlers, answered, or
\* dropped after its requester had finished.
THEOREM NoCallLostOrDoubled == Spec => []CallInOnePlace
<1>1. IndInv => CallInOnePlace
  <2> SUFFICES ASSUME IndInv, NEW r \in Requesters, NEW n \in 1 .. made[r]
               PROVE  Cardinality(Places(Call(r, m_id[r], n))) = 1
    BY DEF CallInOnePlace
  <2> DEFINE c == Call(r, m_id[r], n)
  <2>1. c \in Calls /\ Made(c)
    <3>1. m_id[r] \in Nat /\ n \in Nat
      BY DEF IndInv, TypeOK
    <3> QED
      BY <3>1, CallForms DEF Made
  <2> HIDE DEF c
  <2>2. PICK s \in Stages : At(c, s) /\ \A s2 \in Stages : s2 # s => ~At(c, s2)
    BY <2>1 DEF IndInv, CallInv, StageInv
  <2>3. /\ InTask(c, {"call"}) <=> At(c, "call")
        /\ InTask(c, {"done", "answer"}) <=> At(c, "done") \/ At(c, "answer")
    BY <2>1, StagesAreTasks DEF IndInv, CallInv
  <2>4. /\ c \in m_e_curls <=> At(c, "transfer")
        /\ c \in handlers <=> At(c, "handler")
        /\ <<c.by, c>> \in answers <=> At(c, "answered")
        /\ (c \in dropped /\ m_isfinished[c.by]) <=> At(c, "dropped")
    BY DEF At, IndInv, CallInv, DroppedInv
  <2>5. PICK p : Places(c) = {p}
    <3>1. CASE s = "call"
      BY <2>2, <2>3, <2>4, <3>1 DEF Stages, Places
    <3>2. CASE s = "transfer"
      BY <2>2, <2>3, <2>4, <3>2 DEF Stages, Places
    <3>3. CASE s = "handler"
      BY <2>2, <2>3, <2>4, <3>3 DEF Stages, Places
    <3>4. CASE s \in {"done", "answer"}
      BY <2>2, <2>3, <2>4, <3>4 DEF Stages, Places
    <3>5. CASE s = "answered"
      BY <2>2, <2>3, <2>4, <3>5 DEF Stages, Places
    <3>6. CASE s = "dropped"
      BY <2>2, <2>3, <2>4, <3>6 DEF Stages, Places
    <3> QED
      BY <3>1, <3>2, <3>3, <3>4, <3>5, <3>6 DEF Stages
  <2> QED
    BY <2>5, FS_Singleton DEF c
<1> QED
  BY <1>1, IndInvariant, PTL
===============================================================================
