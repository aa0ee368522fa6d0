------------------------------ MODULE OutRequests ------------------------------
(***************************************************************************)
(* Outgoing HTTP requests: HttpOutRequestDisp (network/HttpOutReqDisp.cpp) *)
(* over HttpClientAsync (network/HttpClientAsync.cpp) over libcurl's multi *)
(* interface.                                                              *)
(*                                                                         *)
(* Everything the dispatcher does is a task of one TaskLauncher, of which  *)
(* this module keeps what the dispatcher sees: a queue whose tasks are     *)
(* taken in order and then run in any order, about max_parallel at once.   *)
(* One of them, kickTask, runs as long as the dispatcher lives and drives  *)
(* libcurl; finished transfers go through the client's own launcher back   *)
(* to the dispatcher's.  A section under the dispatcher's lock is one      *)
(* step.  call() and performTransfers use m_e_curls and the multi handle   *)
(* from two threads without a common lock; the model takes each of their   *)
(* accesses as atomic.                                                     *)
(*                                                                         *)
(* The calls of Requesters are followed one by one.  Those of any number   *)
(* of other requesters, who may go on for ever, are seen only as transfers *)
(* that keep the multi handle busy.                                        *)
(***************************************************************************)
EXTENDS Integers, Sequences, SequencesExt, FiniteSets, FiniteSetsExt

CONSTANTS Requesters,   \* objects of classes derived from Requester
          MaxCalls,     \* bound: calls each requester makes
          Parallels,    \* values of the launcher's max_parallel
          Others,       \* threads that may be in checkLaunch besides one
          None

ASSUME OutRequestsAssumption ==
  /\ None \notin Requesters
  /\ MaxCalls \in [Requesters -> Nat \ {0}]
  /\ Parallels \subseteq Nat \ {0}
  /\ Others \in Nat

VARIABLES
  max_parallel, task_q, running,   \* the launcher
  m_req_id, m_requesters,          \* the dispatcher: ids given, id -> requester
  m_id, m_isfinished, made,        \* the requesters; made: their calls so far
  m_e_curls,       \* calls that are transfers of the multi handle
  ended,           \* those of them the peer or the timeout has ended
  msgs,            \* those curl_multi_perform has reported ended
  handlers,        \* callHandler tasks of the client's launcher
  foreign,         \* some transfer of other requesters is running
  kick, still_running,             \* kickTask and kick(): place, local variable
  kick_running, kick_stopped,
  dtor,            \* where the destructor is
  added,           \* requesters addRequester was called with
  answers,         \* calls of onCallDone: pairs <<requester, call>>
  repeated,        \* those of them made more than once
  dropped          \* calls whose requester was gone when they were done

launcher   == <<task_q, running>>
dispatcher == <<m_req_id, m_requesters>>
requesters == <<m_id, m_isfinished, made>>
client     == <<m_e_curls, ended, msgs, handlers, foreign>>
kicking    == <<kick, still_running>>
stop       == <<kick_running, kick_stopped, dtor>>
history    == <<added, answers, repeated, dropped>>
vars == <<max_parallel, launcher, dispatcher, requesters, client, kicking, stop,
          history>>

\* A call: who made it, under which id, and the requester's number for it
\* (OutRequestInfo has the last two).
Call(r, id, n) == [by |-> r, id |-> id, call |-> n]
Calls == [by : Requesters, id : Nat, call : Nat]

\* Tasks of the dispatcher's launcher; "answer" and "check" are the later
\* stages of onCallDoneTask, which holds the requester it has found.
Task(kind, c) == [kind |-> kind, c |-> c, requester |-> None]
AddTask(r)    == [kind |-> "add", c |-> None, requester |-> r]
KickTask      == Task("kick", None)

Tasks ==
  [kind : {"call", "done", "finished"}, c : Calls, requester : {None}]
    \cup [kind : {"answer", "check"}, c : Calls, requester : Requesters]
    \cup [kind : {"add"}, c : {None}, requester : Requesters] \cup {KickTask}

TypeOK ==
  /\ max_parallel \in Parallels
  /\ task_q \in Seq(Tasks) /\ running \subseteq Tasks
  /\ m_req_id \in Nat
  /\ DOMAIN m_requesters \subseteq 1 .. m_req_id
  /\ m_requesters \in [DOMAIN m_requesters -> Requesters]
  /\ m_id \in [Requesters -> 0 .. m_req_id]
  /\ m_isfinished \in [Requesters -> BOOLEAN]
  /\ made \in [Requesters -> Nat] /\ \A r \in Requesters : made[r] <= MaxCalls[r]
  /\ m_e_curls \subseteq Calls /\ ended \subseteq m_e_curls /\ msgs \subseteq ended
  /\ handlers \subseteq Calls /\ foreign \in BOOLEAN
  /\ kick \in {"queued", "select", "perform", "transfers", "stop", "signal", "over"}
  /\ still_running \in BOOLEAN \cup {None}
  /\ kick_running \in BOOLEAN /\ kick_stopped \in BOOLEAN
  /\ dtor \in {"no", "wait", "tested", "asleep", "gone"}
  /\ added \subseteq Requesters
  /\ answers \subseteq Requesters \X Calls /\ repeated \subseteq answers
  /\ dropped \subseteq Calls

\* HttpOutRequestDisp::HttpOutRequestDisp and its client's constructor.
Init ==
  /\ max_parallel \in Parallels
  /\ task_q = <<KickTask>> /\ running = {}
  /\ m_req_id = 0 /\ m_requesters = <<>>
  /\ m_id = [r \in Requesters |-> 0]
  /\ m_isfinished = [r \in Requesters |-> FALSE]
  /\ made = [r \in Requesters |-> 0]
  /\ m_e_curls = {} /\ ended = {} /\ msgs = {} /\ handlers = {} /\ foreign = FALSE
  /\ kick = "queued" /\ still_running = None
  /\ kick_running = TRUE /\ kick_stopped = FALSE /\ dtor = "no"
  /\ added = {} /\ dropped = {}
  /\ answers = {} /\ repeated = {}

\* Once the object is destroyed what its remaining tasks do is undefined, and
\* the model lets them rest; only kickTask goes on.
Alive == dtor # "gone"

-------------------------------------------------------------------------------
(* The launcher. *)

\* The launcher hands the next task to a thread.  checkLaunch compares the count
\* first and takes a task later, so that every other thread that is in it may go
\* one beyond max_parallel (BoundedOvershoot of TaskLauncher).
Launch ==
  /\ Alive
  /\ task_q # <<>>
  /\ Cardinality(running) < max_parallel + Others
  /\ running' = running \cup {Head(task_q)}
  /\ task_q' = Tail(task_q)
  /\ UNCHANGED <<max_parallel, dispatcher, requesters, client, kicking, stop, history>>

\* A task of this kind runs; tasks_ are those it adds.
Runs(t, kind, tasks_) ==
  /\ Alive
  /\ t \in running /\ t.kind = kind
  /\ running' = running \ {t}
  /\ task_q' = task_q \o tasks_

\* onCallDoneTask goes on to its next stage.
GoesOn(t, kind, next) ==
  /\ Alive
  /\ t \in running /\ t.kind = kind
  /\ running' = (running \ {t}) \cup {next}

-------------------------------------------------------------------------------
(* HttpOutRequestDisp and its Requesters. *)

\* addRequester, called by the application until it destroys the dispatcher.
AddRequester(r) ==
  /\ dtor = "no"
  /\ r \notin added
  /\ added' = added \cup {r}
  /\ task_q' = Append(task_q, AddTask(r))
  /\ UNCHANGED <<max_parallel, running, dispatcher, requesters, client, kicking,
                 stop, answers, repeated, dropped>>

\* The calls a requester makes in start(): call() and onCall() add a task each.
StartCalls(r, id, n) == [i \in 1 .. n |-> Task("call", Call(r, id, i))]

\* std::map::insert: an id already there stays.
Insert(table, id, r) ==
  [i \in DOMAIN table \cup {id} |-> IF i \in DOMAIN table THEN table[i] ELSE r]

\* The id is the size of the table, as in the commented-out line.
AddRequesterTask_Size(t, n) ==
  LET r == t.requester  id == Cardinality(DOMAIN m_requesters) + 1 IN
  /\ Runs(t, "add", StartCalls(r, id, n))
  /\ m_req_id' = m_req_id + 1
  /\ m_id' = [m_id EXCEPT ![r] = id]
  /\ m_requesters' = Insert(m_requesters, id, r)
  /\ made' = [made EXCEPT ![r] = n]
  /\ UNCHANGED <<max_parallel, m_isfinished, client, kicking, stop, history>>

\* addRequesterTask: a new id, into the table (an id already there stays), and
\* start(), which makes n calls.
AddRequesterTask(t, n) ==
  LET r == t.requester  id == m_req_id + 1 IN
  /\ Runs(t, "add", StartCalls(r, id, n))
  /\ m_req_id' = id
  /\ m_id' = [m_id EXCEPT ![r] = id]
  /\ m_requesters' = Insert(m_requesters, id, r)
  /\ made' = [made EXCEPT ![r] = n]
  /\ UNCHANGED <<max_parallel, m_isfinished, client, kicking, stop, history>>

\* HttpClientAsync::call and callPost: a new transfer of the multi handle.
ClientCall(c) == m_e_curls' = m_e_curls \cup {c}

\* onCallTask, onCallPostTask
OnCallTask(t) ==
  /\ Runs(t, "call", <<>>)
  /\ ClientCall(t.c)
  /\ UNCHANGED <<max_parallel, dispatcher, requesters, ended, msgs, handlers,
                 foreign, kicking, stop, history>>

\* onCallDoneTask finds the requester, under the lock ...
OnCallDoneTask(t) ==
  /\ t.kind = "done" /\ t.c.id \in DOMAIN m_requesters
  /\ GoesOn(t, "done", [kind |-> "answer", c |-> t.c,
                        requester |-> m_requesters[t.c.id]])
  /\ UNCHANGED <<max_parallel, task_q, dispatcher, requesters, client, kicking,
                 stop, history>>

\* ... or does not: the answer is dropped.
RequesterDoesNotExist(t) ==
  /\ t.kind = "done" /\ t.c.id \notin DOMAIN m_requesters
  /\ Runs(t, "done", <<>>)
  /\ dropped' = dropped \cup {t.c}
  /\ UNCHANGED <<max_parallel, dispatcher, requesters, client, kicking, stop,
                 added, answers, repeated>>

\* Without the lock: the requester's onCallDone, which may make one more call,
\* and may hold the requester finished.
OnCallDone(t, more, finishes) ==
  LET r == t.requester IN
  /\ GoesOn(t, "answer", [kind |-> "check", c |-> t.c, requester |-> r])
  /\ more => made[r] < MaxCalls[r]
  /\ made' = [made EXCEPT ![r] = IF more THEN @ + 1 ELSE @]
  /\ task_q' = IF more
               THEN Append(task_q, Task("call", Call(r, m_id[r], made[r] + 1)))
               ELSE task_q
  /\ m_isfinished' = [m_isfinished EXCEPT ![r] = @ \/ finishes]
  /\ answers' = answers \cup {<<r, t.c>>}
  /\ repeated' = repeated \cup (answers \cap {<<r, t.c>>})
  /\ UNCHANGED <<max_parallel, dispatcher, m_id, client, kicking, stop, added,
                 dropped>>

\* finished(): then a task is to take the requester out of the table.
CheckFinished(t) ==
  /\ Runs(t, "check", IF m_isfinished[t.requester]
                      THEN <<Task("finished", [t.c EXCEPT !.id = m_id[t.requester]])>>
                      ELSE <<>>)
  /\ UNCHANGED <<max_parallel, dispatcher, requesters, client, kicking, stop,
                 history>>

\* onRequesterFinishedTask; two answers at once may have asked for it twice.
OnRequesterFinishedTask(t) ==
  /\ Runs(t, "finished", <<>>)
  /\ m_requesters' = [id \in DOMAIN m_requesters \ {t.c.id} |-> m_requesters[id]]
  /\ UNCHANGED <<max_parallel, m_req_id, requesters, client, kicking, stop, history>>

-------------------------------------------------------------------------------
(* HttpClientAsync. *)

\* A transfer ends: the peer answers, refuses, or CURLOPT_TIMEOUT runs out.
TransferEnds(c) ==
  /\ c \in m_e_curls \ ended
  /\ ended' = ended \cup {c}
  /\ UNCHANGED <<max_parallel, launcher, dispatcher, requesters, m_e_curls, msgs,
                 handlers, foreign, kicking, stop, history>>

\* call() for other requesters, and the end of the last of their transfers.
ForeignCall ==
  /\ Alive
  /\ ~foreign /\ foreign' = TRUE
  /\ UNCHANGED <<max_parallel, launcher, dispatcher, requesters, m_e_curls, ended,
                 msgs, handlers, kicking, stop, history>>

ForeignEnds ==
  /\ foreign /\ foreign' = FALSE
  /\ UNCHANGED <<max_parallel, launcher, dispatcher, requesters, m_e_curls, ended,
                 msgs, handlers, kicking, stop, history>>

\* callHandler, a task of the client's launcher: onCallDone adds a task.
CallHandler(c) ==
  /\ Alive
  /\ c \in handlers
  /\ handlers' = handlers \ {c}
  /\ task_q' = Append(task_q, Task("done", c))
  /\ UNCHANGED <<max_parallel, running, dispatcher, requesters, m_e_curls, ended,
                 msgs, foreign, kicking, stop, history>>

KickGo(from, to) == kick = from /\ kick' = to

\* while (kick_running) kick(), whose still_running is not initialised.
TestKickRunning_Idle(from) ==
  /\ KickGo(from, IF kick_running /\ m_e_curls # {} THEN "select" ELSE "stop")
  /\ still_running' = None
  /\ UNCHANGED <<max_parallel, launcher, dispatcher, requesters, client, stop,
                 history>>

TestKickRunning(from) ==
  /\ KickGo(from, IF kick_running THEN "select" ELSE "stop")
  /\ still_running' = None
  /\ UNCHANGED <<max_parallel, launcher, dispatcher, requesters, client, stop,
                 history>>

KickStarts == KickTask \in running /\ TestKickRunning("queued")

\* kick(): select() returns ...
Select ==
  /\ KickGo("select", "perform")
  /\ UNCHANGED <<max_parallel, launcher, dispatcher, requesters, client,
                 still_running, stop, history>>

\* ... curl_multi_perform reports what has ended, and the loop goes on while any
\* transfer runs.
Perform ==
  /\ still_running' = (m_e_curls # ended \/ foreign)
  /\ KickGo("perform", IF still_running' THEN "select" ELSE "transfers")
  /\ msgs' = ended
  /\ UNCHANGED <<max_parallel, launcher, dispatcher, requesters, m_e_curls,
                 ended, handlers, foreign, stop, history>>

\* select() fails: the loop's condition is the old still_running, or any value.
SelectFails ==
  /\ \E b \in (IF still_running = None THEN BOOLEAN ELSE {still_running}) :
       KickGo("select", IF b THEN "select" ELSE "transfers")
  /\ UNCHANGED <<max_parallel, launcher, dispatcher, requesters, client,
                 still_running, stop, history>>

\* The job is not erased when it is handed on.
PerformTransfers_Keeps(c) ==
  /\ kick = "transfers"
  /\ c \in msgs
  /\ msgs' = msgs \ {c}
  /\ handlers' = handlers \cup {c}
  /\ UNCHANGED <<max_parallel, launcher, dispatcher, requesters, m_e_curls, ended,
                 foreign, kicking, stop, history>>

\* performTransfers takes the reported transfers one by one.
PerformTransfers(c) ==
  /\ kick = "transfers"
  /\ c \in msgs
  /\ msgs' = msgs \ {c}
  /\ m_e_curls' = m_e_curls \ {c}
  /\ ended' = ended \ {c}
  /\ handlers' = handlers \cup {c}
  /\ UNCHANGED <<max_parallel, launcher, dispatcher, requesters, foreign, kicking,
                 stop, history>>

KickReturns == msgs = {} /\ TestKickRunning("transfers")

\* kick_stopped is set without the condition's mutex.
KickStops_NoLock ==
  /\ KickGo("stop", "signal")
  /\ kick_stopped' = TRUE
  /\ UNCHANGED <<max_parallel, launcher, dispatcher, requesters, client,
                 still_running, kick_running, dtor, history>>

\* kick_stopped = true, under the condition's mutex ...
KickStops ==
  /\ dtor # "tested"
  /\ KickGo("stop", "signal")
  /\ kick_stopped' = TRUE
  /\ UNCHANGED <<max_parallel, launcher, dispatcher, requesters, client,
                 still_running, kick_running, dtor, history>>

\* ... and then the signal, without it: the object may be gone by now.
KickSignals ==
  /\ KickGo("signal", "over")
  /\ dtor' = IF dtor = "asleep" THEN "wait" ELSE dtor
  /\ running' = running \ {KickTask}
  /\ UNCHANGED <<max_parallel, task_q, dispatcher, requesters, client,
                 still_running, kick_running, kick_stopped, history>>

-------------------------------------------------------------------------------
(* HttpOutRequestDisp::~HttpOutRequestDisp *)

\* The destructor does not wait.
CallDtor_NoWait ==
  /\ dtor = "no"
  /\ kick_running' = FALSE
  /\ dtor' = "gone"
  /\ UNCHANGED <<max_parallel, launcher, dispatcher, requesters, client, kicking,
                 kick_stopped, history>>

CallDtor ==
  /\ dtor = "no"
  /\ kick_running' = FALSE
  /\ dtor' = "wait"
  /\ UNCHANGED <<max_parallel, launcher, dispatcher, requesters, client, kicking,
                 kick_stopped, history>>

\* cond_kicking.wait(): the test with the mutex held, and pthread_cond_wait,
\* which releases it.
DtorTest ==
  /\ dtor = "wait"
  /\ dtor' = IF kick_stopped THEN "gone" ELSE "tested"
  /\ UNCHANGED <<max_parallel, launcher, dispatcher, requesters, client, kicking,
                 kick_running, kick_stopped, history>>

DtorSleeps ==
  /\ dtor = "tested"
  /\ dtor' = "asleep"
  /\ UNCHANGED <<max_parallel, launcher, dispatcher, requesters, client, kicking,
                 kick_running, kick_stopped, history>>

-------------------------------------------------------------------------------

Runner(t) ==
  \/ t.kind = "add" /\ \E n \in 1 .. MaxCalls[t.requester] : AddRequesterTask(t, n)
  \/ OnCallTask(t)
  \/ OnCallDoneTask(t)
  \/ RequesterDoesNotExist(t)
  \/ \E more, finishes \in BOOLEAN : OnCallDone(t, more, finishes)
  \/ CheckFinished(t)
  \/ OnRequesterFinishedTask(t)

Kicker ==
  \/ KickStarts \/ Select \/ Perform \/ SelectFails \/ KickReturns
  \/ KickStops \/ KickSignals
  \/ \E c \in msgs : PerformTransfers(c)

Destructor == DtorTest \/ DtorSleeps

Next ==
  \/ Launch
  \/ \E t \in running : Runner(t)
  \/ \E r \in Requesters : AddRequester(r)
  \/ \E c \in m_e_curls : TransferEnds(c)
  \/ ForeignCall \/ ForeignEnds
  \/ \E c \in handlers : CallHandler(c)
  \/ Kicker
  \/ CallDtor
  \/ Destructor

Spec == Init /\ [][Next]_vars

\* Threads are scheduled, below max_parallel a task is launched and the pool runs
\* it, transfers end within their timeout, and select() does not fail for ever.
Fairness ==
  /\ WF_vars(Cardinality(running) < max_parallel /\ Launch)
  /\ WF_vars(\E t \in running : Runner(t))
  /\ WF_vars(\E c \in m_e_curls : TransferEnds(c)) /\ WF_vars(ForeignEnds)
  /\ WF_vars(\E c \in handlers : CallHandler(c))
  /\ WF_vars(Kicker) /\ SF_vars(Select)
  /\ WF_vars(Destructor)

FairSpec == Spec /\ Fairness

-------------------------------------------------------------------------------
(* Properties. *)

\* Answers pass through three queues and two sets of threads and find their
\* requester by a number that outlives it: each call is answered at most once,
\* and only to the requester that made it, never to one that came later.
OwnAnswerOnce ==
  repeated = {} /\ \A a \in answers : a[2].by = a[1]

InTask(c, kinds) ==
  \/ \E t \in running : t.kind \in kinds /\ t.c = c
  \/ \E i \in DOMAIN task_q : task_q[i].kind \in kinds /\ task_q[i].c = c

\* Where a call is.
Places(c) ==
  {p \in {"waiting", "transfer", "handler", "done", "answered", "dropped"} :
     \/ p = "waiting"  /\ InTask(c, {"call"})
     \/ p = "transfer" /\ c \in m_e_curls
     \/ p = "handler"  /\ c \in handlers
     \/ p = "done"     /\ InTask(c, {"done", "answer"})
     \/ p = "answered" /\ <<c.by, c>> \in answers
     \/ p = "dropped"  /\ c \in dropped /\ m_isfinished[c.by]}

\* A call that was made is waiting for its turn, a transfer, on its way back,
\* answered, or dropped because its requester had already finished; and it is
\* only one of these.
CallInOnePlace ==
  \A r \in Requesters : \A n \in 1 .. made[r] :
    Cardinality(Places(Call(r, m_id[r], n))) = 1

\* The destructor returns only when the loop that uses its client is over; what
\* is left of kickTask is the signal, which may come too late.
DtorOutlivesKicking == ~Alive => kick \in {"signal", "over"}

\* With max_parallel above 1 (kickTask has one slot for itself), every call is
\* answered or dropped, unless the dispatcher is destroyed or other calls are made
\* without end while some are being transferred: kick() hands results on only when
\* no transfer is running (HttpClientAsync.cpp:187), so that calls that overlap
\* can hold back for ever one that has long ended.
EveryCallIsDone ==
  \/ []<><<ForeignCall /\ m_e_curls # {}>>_vars
  \/ max_parallel > 1 ~>
       \/ dtor # "no"
       \/ \A r \in Requesters : \A n \in 1 .. made[r] :
            LET c == Call(r, m_id[r], n) IN c \in dropped \/ <<r, c>> \in answers

\* The destructor returns: kick_stopped is not set between its test and its
\* wait, and the transfers under way end.  Calls without end can keep kick(),
\* and so the destructor, from returning.
DtorReturns == []<><<ForeignCall>>_vars \/ (dtor # "no" ~> ~Alive)

-------------------------------------------------------------------------------
(* The inductive invariant that OutRequestsProofs shows to hold: the parts     *)
(* above follow from it.                                                       *)

\* The launcher's tasks.  Those that stand for a call, or for a requester to be
\* added, are there once.
Waiting == running \cup ToSet(task_q)
Carrying == {t \in Tasks : t.kind \in {"add", "call", "done", "answer"}}
TasksOnce ==
  /\ \A i, j \in DOMAIN task_q : task_q[i] = task_q[j] /\ task_q[i] \in Carrying => i = j
  /\ running \cap ToSet(task_q) \cap Carrying = {}

\* Where a call can be.
Answering(c) == [kind |-> "answer", c |-> c, requester |-> c.by]
Stages == {"call", "transfer", "handler", "done", "answer", "answered", "dropped"}
At(c, s) ==
  \/ s = "call" /\ Task("call", c) \in Waiting
  \/ s = "transfer" /\ c \in m_e_curls
  \/ s = "handler" /\ c \in handlers
  \/ s = "done" /\ Task("done", c) \in Waiting
  \/ s = "answer" /\ Answering(c) \in Waiting
  \/ s = "answered" /\ <<c.by, c>> \in answers
  \/ s = "dropped" /\ c \in dropped

\* The calls that were made are each in one place, and no others are anywhere.
Made(c) == c.id = m_id[c.by] /\ c.call \in 1 .. made[c.by]
StageInv ==
  \A c \in Calls :
    /\ Made(c) <=> \E s \in Stages : At(c, s)
    /\ \A s1, s2 \in Stages : At(c, s1) /\ At(c, s2) => s1 = s2

\* An id is the id of one requester, which the table has under it until it
\* has finished.
TableInv ==
  /\ \A q, r \in Requesters : m_id[q] = m_id[r] /\ m_id[q] # 0 => q = r
  /\ \A id \in DOMAIN m_requesters : m_id[m_requesters[id]] = id
  /\ \A r \in Requesters :
       /\ m_id[r] # 0 => m_id[r] \in DOMAIN m_requesters \/ m_isfinished[r]
       /\ m_id[r] = 0 => made[r] = 0

\* A requester is added once, and has no id before its task has run.
AddInv ==
  \A r \in Requesters :
    /\ AddTask(r) \in Waiting => r \in added /\ m_id[r] = 0
    /\ m_id[r] # 0 => r \in added

\* The requester a task holds is the one that made the call.
HeldInv ==
  \A t \in Waiting :
    /\ t.kind \in {"answer", "check"} => t.requester = t.c.by /\ m_id[t.c.by] # 0
    /\ t.kind = "finished" =>
         t.c.id = m_id[t.c.by] /\ m_id[t.c.by] # 0 /\ m_isfinished[t.c.by]

DroppedInv == \A c \in dropped : m_isfinished[c.by]

\* kick_stopped is set after the loop, and the destructor waits for it.
KickInv ==
  /\ kick_stopped => kick \in {"signal", "over"}
  /\ dtor = "gone" => kick_stopped

\* Everything that is about calls and requesters.
CallInv ==
  /\ TasksOnce /\ StageInv /\ TableInv /\ AddInv /\ HeldInv /\ DroppedInv
  /\ OwnAnswerOnce

IndInv == TypeOK /\ CallInv /\ KickInv
===============================================================================
