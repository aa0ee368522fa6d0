------------------------------ MODULE HttpServer ------------------------------
(***************************************************************************)
(* network/HttpServer: one thread runs HttpServer::handleEvents in a loop  *)
(* (accepts, receives, starts handlers, sends answers, throws away dead    *)
(* connections); handlers answer at once, from other threads, or never.    *)
(* The handler is HttpRouter and HttpApi.                                  *)
(*                                                                         *)
(* A connection object is named by the client it serves.  A request is its *)
(* number on the connection and its kind:                                  *)
(*   "sync"     the handler answers before it returns                      *)
(*   "close"    the same, with "Connection: close"                         *)
(*   "async"    an asynchronous method: another thread answers             *)
(*   "bad"      HttpApi finds it malformed and answers with an error       *)
(*   "lost"     HttpRouter has no route for it                             *)
(*   "upgrade"  asks for the binary protocol                               *)
(*   "garbage"  what the binary protocol's parser throws at                *)
(* Undefined behaviour stops the model: loop is "undefined" then.          *)
(***************************************************************************)
EXTENDS Integers, Sequences, SequencesExt, FiniteSetsExt

CONSTANTS Conns, Fds, Kinds, NoConn,
          Scripts,    \* what each client may ask for, in order
          MaxFaults   \* a bound: hangups, delays and short sends

ASSUME HttpServerAssumption ==
  /\ Fds \subseteq Nat \ {0} /\ IsFiniteSet(Fds) /\ IsFiniteSet(Conns) /\ NoConn \notin Conns
  /\ Kinds \subseteq {"sync", "close", "async", "bad", "lost", "upgrade", "garbage"}
  /\ Scripts \in [Conns -> SUBSET Seq(Kinds)] /\ MaxFaults \in Nat

VARIABLES
  client,        \* what the client did, and what lies between it and the server
  conn,          \* the HttpConnection objects
  table,         \* m_reading_connections
  watch, edge,   \* m_events_watcher: what epoll watches, and the edges not yet reported
  resp_queue, custom_resp_queue,
  jobs,          \* answers that other threads have still to give
  loop,          \* where handleEvents is, or why it will not go on
  faults         \* history: what has gone wrong outside the server, counted

vars == <<client, conn, table, watch, edge, resp_queue, custom_resp_queue, jobs, loop, faults>>

listen == 0    \* m_listen_socket

Request  == [n : Nat, kind : Kinds]
Response == [to : Conns, n : Nat, form : {"http", "custom"}]

NewConn(fd) ==
  [state |-> "open", fd |-> fd, alive |-> TRUE, age |-> "young", keepalive |-> TRUE,
   ever_sent |-> FALSE, custom |-> FALSE, waiting |-> FALSE, requests |-> <<>>,
   resps |-> <<>>, send_buffer |-> <<>>]

Init ==
  /\ client = [c \in Conns |-> [asked |-> <<>>, arrived |-> <<>>, closed |-> FALSE,
                                got |-> <<>>, early |-> FALSE, binary |-> FALSE,
                                shut |-> FALSE]]
  /\ conn = [c \in Conns |-> [NewConn(0) EXCEPT !.state = "none"]]
  /\ table = [f \in Fds |-> NoConn]
  /\ watch = [f \in Fds |-> "nothing"]
  /\ edge = {}
  /\ resp_queue = <<>> /\ custom_resp_queue = <<>>
  /\ jobs = {}
  /\ loop = "events"
  /\ faults = 0

-----------------------------------------------------------------------------
(* The clients.  Requests on a binary connection follow the handshake.       *)

Readable(e, cs) ==
  e \cup {f \in Fds : \E c \in cs : conn[c].state = "open" /\ conn[c].fd = f /\ watch[f] = "edge in"}

Fault == faults < MaxFaults /\ faults' = faults + 1

Connect(c) ==
  /\ conn[c].state = "none"
  /\ conn' = [conn EXCEPT ![c].state = "backlog"]
  /\ edge' = edge \cup {listen}
  /\ UNCHANGED <<client, table, watch, resp_queue, custom_resp_queue, jobs, loop, faults>>

Ask(c, kind) ==
  /\ conn[c].state # "none" /\ ~client[c].closed
  /\ \E script \in Scripts[c] : IsPrefix(Append(client[c].asked, kind), script)
  /\ IF client[c].binary
     THEN /\ \E i \in DOMAIN client[c].got : client[c].got[i].form = "custom"
          /\ kind \in {"sync", "async", "bad", "garbage"}
     ELSE kind # "garbage"
  /\ client' = [client EXCEPT
       ![c].asked   = Append(@, kind),
       ![c].arrived = Append(@, [n |-> Len(client[c].asked) + 1, kind |-> kind]),
       ![c].binary  = @ \/ kind = "upgrade",
       ![c].early   = @ \/ Len(client[c].got) < Len(client[c].asked)]
  /\ edge' = Readable(edge, {c})
  /\ UNCHANGED <<conn, table, watch, resp_queue, custom_resp_queue, jobs, loop, faults>>

Hangup(c) ==
  /\ conn[c].state # "none" /\ ~client[c].closed
  /\ Fault
  /\ client' = [client EXCEPT ![c].closed = TRUE]
  /\ edge' = Readable(edge, {c})
  /\ UNCHANGED <<conn, table, watch, resp_queue, custom_resp_queue, jobs, loop>>

\* Two seconds after it was accepted an HTTP connection counts as dead, a binary one
\* when it has been idle for a minute.
Grow(c) ==
  /\ conn[c].state = "open" /\ conn[c].age # "idle" /\ Fault
  /\ conn' = [conn EXCEPT ![c].age = IF @ = "young" THEN "old" ELSE "idle"]
  /\ UNCHANGED <<client, table, watch, edge, resp_queue, custom_resp_queue, jobs, loop>>

Active(k) == [k EXCEPT !.age = IF @ = "idle" THEN "old" ELSE @]

notDead_BinaryToo(k) == k.alive /\ k.age = "young"

notDead(k) == k.alive /\ (k.age = "young" \/ (k.custom /\ k.age = "old"))

-----------------------------------------------------------------------------
(* A step of the server works on s, a record of the variables it changes.    *)

Here == [client |-> client, conn |-> conn, table |-> table, watch |-> watch,
         edge |-> edge, rq |-> resp_queue, cq |-> custom_resp_queue, jobs |-> jobs,
         loop |-> loop]

\* ~HttpConnection: an object nobody refers to any more closes its socket.
Referenced(s, c) ==
  \/ \E f \in Fds : s.table[f] = c
  \/ \E i \in DOMAIN s.rq : s.rq[i].conn = c
  \/ \E i \in DOMAIN s.cq : s.cq[i].conn = c
  \/ \E j \in s.jobs : j.conn = c

Destroy(s) ==
  [s EXCEPT !.conn = [c \in Conns |->
     IF s.conn[c].state = "open" /\ ~Referenced(s, c) /\ s.loop # "undefined"
     THEN [NewConn(s.conn[c].fd) EXCEPT !.state = "gone"] ELSE s.conn[c]]]

Become(s) ==
  \E t \in {s} : \E d \in {Destroy(t)} :
    /\ client' = d.client /\ conn' = d.conn /\ table' = d.table /\ watch' = d.watch
    /\ edge' = d.edge /\ resp_queue' = d.rq /\ custom_resp_queue' = d.cq
    /\ jobs' = d.jobs /\ loop' = d.loop

delSocket(s, fs) ==
  [s EXCEPT !.watch = [f \in Fds |-> IF f \in fs THEN "nothing" ELSE s.watch[f]],
            !.edge = @ \ fs]

\* The first call leaves only EPOLLOUT, level-triggered; the second one nothing.
enableEvents(s, f) ==
  [s EXCEPT !.watch[f] = CASE @ = "edge in" -> "level out"
                           [] @ = "level out" -> "off"
                           [] OTHER -> @,
            !.edge = @ \ {f}]

\* erase(find(sock)) of the sockets fs
Unlisted(s, fs) == [f \in Fds |-> IF f \in fs THEN NoConn ELSE s.table[f]]

Erase_Watched(s, fs) == [s EXCEPT !.table = Unlisted(s, fs)]

Erase(s, fs) == [delSocket(s, fs) EXCEPT !.table = Unlisted(s, fs)]

\* The lock is boost::mutex: the event loop waits for itself if it holds it already.
onSendResponse(s, c, n) ==
  LET to == s.table[s.conn[c].fd]
  IN  IF s.loop = "answers" THEN [s EXCEPT !.loop = "stuck"]
      ELSE IF to = NoConn THEN s
      ELSE [s EXCEPT !.rq = Append(@, [conn |-> to, resp |-> [to |-> c, n |-> n, form |-> "http"]])]

onSendCustomResponse(s, c, n) ==
  LET to == s.table[s.conn[c].fd]
  IN  IF to = NoConn THEN s
      ELSE [s EXCEPT !.cq = Append(@, [conn |-> to, resp |-> [to |-> c, n |-> n, form |-> "custom"]])]

\* HttpApi::handleRequest behind HttpRouter::handle; errors are sent as HTTP always.
HandleRequest(s, c, r) ==
  CASE r.kind = "async" -> [s EXCEPT !.jobs = @ \cup {[conn |-> c, n |-> r.n]}]
    [] r.kind = "lost"  -> s
    [] r.kind = "sync" /\ s.conn[c].custom -> onSendCustomResponse(s, c, r.n)
    [] OTHER -> onSendResponse(s, c, r.n)

checkUpgrade(s, c, r) ==
  [onSendCustomResponse([s EXCEPT !.conn[c].custom = TRUE], c, r.n)
     EXCEPT !.conn[c].waiting = FALSE, !.conn[c].requests = <<>>]

HandleWaitingRequests_NoWaiting(s, c) ==
  LET k == s.conn[c]
      t == [s EXCEPT !.conn[c].waiting = TRUE, !.conn[c].requests = Tail(@)]
  IN  IF k.requests = <<>> THEN s
      ELSE IF Head(k.requests).kind = "upgrade" /\ ~k.custom THEN checkUpgrade(t, c, Head(k.requests))
      ELSE HandleRequest(t, c, Head(k.requests))

\* One request of a connection at a time.
HandleWaitingRequests(s, c) ==
  LET k == s.conn[c]
      t == [s EXCEPT !.conn[c].waiting = TRUE, !.conn[c].requests = Tail(@)]
  IN  IF k.waiting \/ k.requests = <<>> THEN s
      ELSE IF Head(k.requests).kind = "upgrade" /\ ~k.custom THEN checkUpgrade(t, c, Head(k.requests))
      ELSE HandleRequest(t, c, Head(k.requests))

-----------------------------------------------------------------------------
(* HttpConnection: sending and receiving. *)

\* performSend, its outcome o chosen by send(2); the answer it finishes goes out.
performSend(s, c, o) ==
  LET k    == s.conn[c]
      load == [k EXCEPT !.send_buffer = <<Head(k.resps)>>, !.resps = Tail(@)]
      full == IF k.send_buffer = <<>> THEN load ELSE k
      sent == [full EXCEPT !.ever_sent = TRUE]
      done(ok, new) == [ok |-> ok, s |-> [s EXCEPT !.conn[c] = new]]
  IN  IF k.send_buffer = <<>> /\ k.ever_sent /\ ~k.keepalive
      THEN done(FALSE, [k EXCEPT !.alive = FALSE])
      ELSE IF k.send_buffer = <<>> /\ k.resps = <<>> THEN done(FALSE, k)
      ELSE CASE o = "fails" -> done(FALSE, [sent EXCEPT !.alive = FALSE])
             [] o = "takes none" -> done(FALSE, sent)
             [] o = "takes some" -> done(FALSE, Active(sent))
             [] o = "takes all" ->
                  [ok |-> TRUE,
                   s  |-> [s EXCEPT !.conn[c] = [Active(sent) EXCEPT !.send_buffer = <<>>],
                                    !.client[c].got = Append(@, full.send_buffer[1])]]

Outcomes == {"takes all", "takes some", "takes none", "fails"}

\* A peer that has closed may refuse what is sent to it.
Outcome(c, o) ==
  IF o = "takes all" THEN UNCHANGED faults
  ELSE Fault /\ (o = "fails" => client[c].closed \/ client[c].shut)

\* The binary protocol's parser throws at what connection c reads.
Throws(s, c) ==
  /\ s.conn[c].custom /\ ~s.client[c].closed /\ ~s.client[c].shut
  /\ \E i \in DOMAIN s.client[c].arrived : s.client[c].arrived[i].kind = "garbage"

\* What is pushed to custom_requests.  getRequest parses on before it returns: the
\* request right before the garbage is lost with it.
Pushed(data) ==
  LET bad == SelectInSeq(data, LAMBDA r : r.kind = "garbage")
  IN  IF bad = 0 THEN data ELSE SubSeq(data, 1, bad - 2)

\* HttpConnection::performRecv.  HTTP requests that arrive together are taken for one,
\* what follows an upgrade or the end of a connection that is not kept is dropped.
performRecv(s, c) ==
  LET k    == s.conn[c]
      data == s.client[c].arrived
      cut  == SelectInSeq(data, LAMBDA r : r.kind \in {"upgrade", "close"})
      last == data[IF cut = 0 THEN Len(data) ELSE cut]
      new  == IF s.client[c].closed \/ s.client[c].shut THEN [k EXCEPT !.alive = FALSE]
              ELSE IF data = <<>> THEN k
              ELSE IF k.custom THEN [Active(k) EXCEPT !.requests = @ \o Pushed(data)]
              ELSE IF ~k.keepalive THEN Active(k)
              ELSE [Active(k) EXCEPT !.requests = Append(@, last),
                                     !.keepalive = last.kind # "close"]
  IN  [s EXCEPT !.conn[c] = new, !.client[c].arrived = <<>>]

-----------------------------------------------------------------------------
(* HttpServer: events, answers, dead connections. *)

\* With no descriptor left the rest of the backlog waits for the next client.
onAccept ==
  LET waiting == {c \in Conns : conn[c].state = "backlog"}
      free    == {f \in Fds : \A c \in Conns : conn[c].state = "open" => conn[c].fd # f}
  IN  /\ loop = "events" /\ listen \in edge
      /\ IF waiting = {} \/ free = {}
         THEN Become([Here EXCEPT !.edge = @ \ {listen}])
         ELSE \E c \in waiting :
                LET f == Min(free)
                IN  Become([Here EXCEPT
                      !.conn[c] = NewConn(f), !.table[f] = c, !.watch[f] = "edge in",
                      !.edge = IF client[c].arrived # <<>> \/ client[c].closed
                               THEN @ \cup {f} ELSE @])
      /\ UNCHANGED faults

\* Every exception kills the connection; what it has taken in stays with it.
onRead(f) ==
  LET c    == table[f]
      seen == [Here EXCEPT !.edge = @ \ {f}]
      got  == performRecv(seen, c)
  IN  /\ loop = "events" /\ f \in edge
      /\ IF c = NoConn THEN Become(delSocket(seen, {f}))
         ELSE IF Throws(seen, c) \/ ~notDead(got.conn[c]) THEN Become(Erase(got, {f}))
         ELSE Become(HandleWaitingRequests(got, c))
      /\ UNCHANGED faults

onWrite(f) ==
  /\ loop = "events" /\ watch[f] = "level out" /\ table[f] # NoConn
  /\ \E o \in Outcomes :
       LET done == performSend(Here, table[f], o)
       IN  /\ Outcome(table[f], o)
           /\ Become(IF ~done.ok /\ ~notDead(done.s.conn[table[f]]) THEN Erase(done.s, {f})
                     ELSE done.s)

\* erase(find(sock)) of a connection that is not in the table is undefined.
handleResponse(s, c, o) ==
  LET done == performSend([s EXCEPT !.conn[c].waiting = FALSE], c, o)
      f    == s.conn[c].fd
  IN  IF ~done.ok /\ ~notDead(done.s.conn[c])
      THEN IF s.table[f] = NoConn THEN [done.s EXCEPT !.loop = "undefined"] ELSE Erase(done.s, {f})
      ELSE HandleWaitingRequests(IF done.ok THEN done.s ELSE enableEvents(done.s, f), c)

Dead == {f \in Fds : table[f] # NoConn /\ ~notDead(conn[table[f]])}

LockQueues_OnlyHttp ==
  /\ loop = "events" /\ edge = {} /\ (resp_queue # <<>> \/ Dead # {})
  /\ loop' = "answers"
  /\ UNCHANGED <<client, conn, table, watch, edge, resp_queue, custom_resp_queue, jobs, faults>>

\* handleEvents takes the lock, when it has been through the events, and empties both
\* queues.  Rounds that find nothing to send and nothing dead are left out.
LockQueues ==
  /\ loop = "events" /\ edge = {} /\ (resp_queue # <<>> \/ custom_resp_queue # <<>> \/ Dead # {})
  /\ loop' = "answers"
  /\ UNCHANGED <<client, conn, table, watch, edge, resp_queue, custom_resp_queue, jobs, faults>>

addResponse(s, c, resp) == [s EXCEPT !.conn[c].resps = Append(@, resp)]

\* Nobody sees when, under the lock, the answer leaves the queue.
NextResponse ==
  /\ loop = "answers" /\ resp_queue # <<>>
  /\ LET r == Head(resp_queue)
         s == addResponse([Here EXCEPT !.rq = Tail(@)], r.conn, r.resp)
     IN  \E o \in Outcomes : Outcome(r.conn, o) /\ Become(handleResponse(s, r.conn, o))

NextCustomResponse ==
  /\ loop = "answers" /\ resp_queue = <<>> /\ custom_resp_queue # <<>>
  /\ LET r == Head(custom_resp_queue)
         s == addResponse([Here EXCEPT !.cq = Tail(@)], r.conn, r.resp)
     IN  \E o \in Outcomes : Outcome(r.conn, o) /\ Become(handleResponse(s, r.conn, o))

\* It lets go of the lock and cleans up: the iterator of an erased element is moved on,
\* which may go well or not.
cleanUpDeadConnections ==
  /\ loop = "answers" /\ resp_queue = <<>> /\ custom_resp_queue = <<>>
  /\ \/ Become([Erase(Here, Dead) EXCEPT !.loop = "events"])
     \/ /\ Dead # {}
        /\ loop' = "undefined"
        /\ UNCHANGED <<client, conn, table, watch, edge, resp_queue, custom_resp_queue, jobs>>
  /\ UNCHANGED faults

\* HttpApi::onAsyncCallDone in another thread.  The thread may be the last to refer to
\* the connection: it closes the socket and then shuts the same number down.
onAsyncCallDone(j) ==
  LET s    == [onSendResponse(Here, j.conn, j.n) EXCEPT !.jobs = @ \ {j}]
      last == ~Referenced(s, j.conn)
  IN  /\ loop = "events"
      /\ Become(IF last THEN [s EXCEPT !.conn[j.conn].state = "closed"] ELSE s)
      /\ UNCHANGED faults

Shutdown(c) ==
  LET others == {d \in Conns : conn[d].state = "open" /\ conn[d].fd = conn[c].fd}
  IN  /\ conn[c].state = "closed"
      /\ conn' = [conn EXCEPT ![c] = [NewConn(conn[c].fd) EXCEPT !.state = "gone"]]
      /\ client' = [d \in Conns |-> IF d \in others THEN [client[d] EXCEPT !.shut = TRUE] ELSE client[d]]
      /\ edge' = Readable(edge, others)
      /\ UNCHANGED <<table, watch, resp_queue, custom_resp_queue, jobs, loop, faults>>

Server ==
  \/ onAccept
  \/ \E f \in Fds : onRead(f)
  \/ \E f \in Fds : onWrite(f)
  \/ LockQueues
  \/ NextResponse
  \/ NextCustomResponse
  \/ cleanUpDeadConnections

Threads ==
  \/ \E j \in jobs : onAsyncCallDone(j)
  \/ \E c \in Conns : Shutdown(c)

Clients ==
  \E c \in Conns :
    \/ Connect(c)
    \/ \E kind \in Kinds : Ask(c, kind)
    \/ Hangup(c)
    \/ Grow(c)

Next == Server \/ Threads \/ Clients

Spec == Init /\ [][Next]_vars

\* The loop runs on, and a thread that waits for the lock gets it in the end.
FairSpec == Spec /\ WF_vars(Server) /\ WF_vars(Threads)

-----------------------------------------------------------------------------
(* Properties. *)

Client == [asked : Seq(Kinds), arrived : Seq(Request), closed : BOOLEAN, got : Seq(Response),
           early : BOOLEAN, binary : BOOLEAN, shut : BOOLEAN]

Connection ==
  [state : {"none", "backlog", "open", "closed", "gone"}, fd : Fds \cup {listen},
   alive : BOOLEAN, age : {"young", "old", "idle"}, keepalive : BOOLEAN, ever_sent : BOOLEAN,
   custom : BOOLEAN, waiting : BOOLEAN, requests : Seq(Request), resps : Seq(Response),
   send_buffer : Seq(Response)]

\* What a step of the server works on.
States ==
  [client : [Conns -> Client], conn : [Conns -> Connection], table : [Fds -> Conns \cup {NoConn}],
   watch : [Fds -> {"nothing", "edge in", "level out", "off"}], edge : SUBSET (Fds \cup {listen}),
   rq : Seq([conn : Conns, resp : Response]), cq : Seq([conn : Conns, resp : Response]),
   jobs : SUBSET [conn : Conns, n : Nat], loop : {"events", "answers", "stuck", "undefined"}]

TypeOK == Here \in States /\ faults \in Nat

Owned(q, c) == \A i \in DOMAIN q : q[i].to = c

\* Answers find their connection by the number of its socket; yet, numbers being used
\* again, no client gets or will get the answer to another's request (onSendResponse).
OwnAnswers ==
  /\ \A c \in Conns : /\ Owned(client[c].got, c) /\ Owned(conn[c].send_buffer, c)
                       /\ Owned(conn[c].resps, c)
  /\ \A q \in {resp_queue, custom_resp_queue} : \A i \in DOMAIN q : q[i].resp.to = q[i].conn

Ascending(q) == \A i, j \in DOMAIN q : i < j => q[i].n < q[j].n

Nums(q) == {q[i].n : i \in DOMAIN q}

Less(M, N) == \A m \in M, n \in N : m < n

\* Where the queue q has answers for c, and the answers that are queued for it.
For(q, c) == {i \in DOMAIN q : q[i].conn = c}

Answers(q, c) == {q[i].resp : i \in For(q, c)}

One(q, c) == \A i, j \in For(q, c) : i = j

Queued(s, c) == Answers(s.rq, c) \cup Answers(s.cq, c)

OneQueued(s, c) ==
  One(s.rq, c) /\ One(s.cq, c) /\ (For(s.rq, c) = {} \/ For(s.cq, c) = {})

\* Whichever handlers answer at once and whichever later, the answers of a connection
\* keep the order of its requests, and no request is answered twice: what the client has
\* got, what is being sent, what waits to be sent, and one answer at most that the loop
\* has still to take from its queues (handleWaitingRequests).
AnswersInOrder ==
  \A c \in Conns :
    LET got  == client[c].got
        send == conn[c].send_buffer
        wait == conn[c].resps
    IN  /\ Ascending(got) /\ Ascending(send) /\ Ascending(wait)
        /\ Less(Nums(got), Nums(send)) /\ Less(Nums(got) \cup Nums(send), Nums(wait))
        /\ Less(Nums(got) \cup Nums(send) \cup Nums(wait), {r.n : r \in Queued(Here, c)})
        /\ OneQueued(Here, c)

\* Every client gets its own answers and gets them in the order of its requests.
OwnAnswersInOrder == OwnAnswers /\ AnswersInOrder

\* The table, epoll and the objects agree: a socket is watched if and only if it belongs
\* to a connection of the table, and no two open connections share one.
TableIsTrue ==
  /\ \A f \in Fds : /\ table[f] # NoConn <=> watch[f] # "nothing"
                    /\ table[f] # NoConn => conn[table[f]].state = "open" /\ conn[table[f]].fd = f
  /\ \A c, d \in Conns : conn[c].state = "open" /\ conn[d].state = "open" /\ c # d
                            => conn[c].fd # conn[d].fd

\* The loop waits for its own lock only if a client did not wait for an answer.
StuckByPipelining == loop = "stuck" => \E c \in Conns : client[c].early

\* Undefined behaviour takes a client that hangs up, a connection past its time, or a
\* client that asked to close before it had the answers to what it asked for before.
UndefinedByDeath ==
  loop = "undefined" =>
    \E c \in Conns : \/ client[c].closed \/ client[c].shut
                     \/ conn[c].age = (IF conn[c].custom THEN "idle" ELSE "old")
                     \/ conn[c].age = "idle"
                     \/ client[c].early /\ "close" \in Range(client[c].asked)

\* The event loop goes on: handleEvents locks m_sendq_mtx against itself only through
\* a client that sent a request before it had the answer to the last (the handler's
\* onSendResponse), and erases an iterator it should not only with a dead connection
\* (handleResponse, cleanUpDeadConnections).
LoopGoesOn == StuckByPipelining /\ UndefinedByDeath

\* A client is excused from waiting for an answer if it hung up or did not wait, asked for
\* nothing the handler knows or after "close", is past its time or too slow.
Excused(c) ==
  \/ client[c].closed \/ client[c].shut \/ client[c].early
  \/ \E i \in DOMAIN client[c].asked :
       \/ client[c].asked[i] \in {"lost", "garbage"}
       \/ client[c].asked[i] = "close" /\ i < Len(client[c].asked)
  \/ conn[c].state \in {"closed", "gone"}
  \/ conn[c].state = "open" /\ (~notDead(conn[c]) \/ watch[conn[c].fd] # "edge in")

\* While the loop runs every other client gets an answer to every request.
EveryRequestAnswered ==
  \A c \in Conns :
    Len(client[c].asked) > Len(client[c].got)
      ~> \/ Len(client[c].asked) = Len(client[c].got) \/ Excused(c)
         \/ loop \in {"stuck", "undefined"}

-----------------------------------------------------------------------------
(* The inductive invariant that HttpServerProofs shows to hold, of what a    *)
(* step of the server works on.                                              *)

TableInv(s) ==
  /\ \A f \in Fds : /\ s.table[f] # NoConn <=> s.watch[f] # "nothing"
                    /\ s.table[f] # NoConn =>
                         s.conn[s.table[f]].state = "open" /\ s.conn[s.table[f]].fd = f
  /\ \A c \in Conns : s.conn[c].state = "open" => s.conn[c].fd \in Fds
  /\ \A c, d \in Conns :
       s.conn[c].state = "open" /\ s.conn[d].state = "open" /\ s.conn[c].fd = s.conn[d].fd => c = d

\* A queue of answers for open connections, each with its own.
QueueInv(s, q) == \A i \in DOMAIN q : s.conn[q[i].conn].state = "open" /\ q[i].resp.to = q[i].conn

OwnInv(s) ==
  /\ QueueInv(s, s.rq) /\ QueueInv(s, s.cq)
  /\ \A j \in s.jobs : s.conn[j.conn].state = "open"
  /\ \A c \in Conns : /\ Owned(s.client[c].got, c) /\ Owned(s.conn[c].send_buffer, c)
                       /\ Owned(s.conn[c].resps, c)

IndInv == TypeOK /\ TableInv(Here) /\ OwnInv(Here)

(* The order of answers.  The numbers of a connection's requests go from     *)
(* what has arrived to the requests taken in, to the one the handler works   *)
(* on or has answered, and to what is sent.                                  *)

Working(s, c) == {j.n : j \in {x \in s.jobs : x.conn = c}}

\* One request of a connection at a time is being worked on or has its answer queued.
Single(s, c) ==
  /\ OneQueued(s, c)
  /\ \A i, j \in Working(s, c) : i = j
  /\ Working(s, c) = {} \/ Queued(s, c) = {}

Out(A, J) == {r.n : r \in A} \cup J

Chain(G, S, R, O, Q, A, n) ==
  /\ Less(G, S) /\ Less(G \cup S, R) /\ Less(G \cup S \cup R, O)
  /\ Less(G \cup S \cup R \cup O, Q) /\ Less(G \cup S \cup R \cup O \cup Q, A)
  /\ G \cup S \cup R \cup O \cup Q \cup A \subseteq 1 .. n

Chained(k, m, O) ==
  /\ Ascending(m.got) /\ Ascending(k.send_buffer) /\ Ascending(k.resps)
  /\ Ascending(k.requests) /\ Ascending(m.arrived)
  /\ Chain(Nums(m.got), Nums(k.send_buffer), Nums(k.resps), O, Nums(k.requests),
           Nums(m.arrived), Len(m.asked))

Customs(q) == {i \in DOMAIN q : q[i].form = "custom"}

NoCustoms(k, m) == Customs(m.got) = {} /\ Customs(k.send_buffer) = {} /\ Customs(k.resps) = {}

\* The client waits for the answer to its handshake.
Handshake(k, m) == k.requests = <<>> /\ m.arrived = <<>> /\ m.binary /\ NoCustoms(k, m)

\* What a client asks for, and what of it the server knows.
Asked(k, m) ==
  /\ \A i \in DOMAIN k.requests : m.asked[k.requests[i].n] = k.requests[i].kind
  /\ \A i \in DOMAIN m.arrived : m.asked[m.arrived[i].n] = m.arrived[i].kind
  /\ \A i \in DOMAIN m.asked : m.asked[i] = "upgrade" =>
       m.binary /\ (i < Len(m.asked) => Customs(m.got) # {})
  /\ ~m.early => Len(m.asked) <= Len(m.got) + 1
  /\ \A i \in DOMAIN m.got : m.got[i].n >= i

\* A connection that speaks HTTP, or will.
Plain(k) == k.state \in {"none", "backlog"} \/ (k.state = "open" /\ ~k.custom)

\* The flow of requests and answers of a connection k and its client m, with answers A
\* in the queues and the requests J in the hands of threads.
Flow(k, m, A, J) ==
  /\ Chained(k, m, Out(A, J))
  /\ Asked(k, m)
  /\ Plain(k) => NoCustoms(k, m) /\ \A r \in A : r.form # "custom"
  /\ (k.waiting \/ Out(A, J) = {} \/ Handshake(k, m))

FlowAt(s, c) == Single(s, c) /\ Flow(s.conn[c], s.client[c], Queued(s, c), Working(s, c))

(* Why connections leave the table while an answer of theirs is queued.      *)

Aged(k) == k.age = "idle" \/ (~k.custom /\ k.age = "old")

Excuse(m) == m.closed \/ m.shut \/ (m.early /\ "close" \in Range(m.asked))

\* An open connection, in the table or not, with w watched of its socket.
Life(k, m, A, J, listed, w) ==
  /\ ~k.keepalive => "close" \in Range(m.asked)
  /\ (k.custom \/ \E i \in DOMAIN k.requests : k.requests[i].kind = "upgrade") => k.keepalive
  /\ listed /\ w # "edge in" /\ ~k.keepalive /\ (Out(A, J) # {} \/ k.requests # <<>>) => m.early
  /\ A # {} /\ ~k.alive => Excuse(m)
  /\ A # {} /\ ~listed => Excuse(m) \/ k.keepalive \/ Aged(k)

Listed(s, c) == s.table[s.conn[c].fd] = c

LifeAt(s, c) ==
  s.conn[c].state = "open" =>
    Life(s.conn[c], s.client[c], Queued(s, c), Working(s, c), Listed(s, c), s.watch[s.conn[c].fd])

AliveAt(s, c) == s.conn[c].state = "open" /\ Listed(s, c) => s.conn[c].alive

EdgeInv(s) == \A f \in Fds : f \in s.edge => s.watch[f] = "edge in"

\* Who is to blame when the loop does not go on.
Blamed(s) ==
  /\ s.loop = "stuck" => \E c \in Conns : s.client[c].early
  /\ s.loop = "undefined" =>
       \E c \in Conns : Excuse(s.client[c]) \/ (s.conn[c].state = "open" /\ Aged(s.conn[c]))

GoesOnInv ==
  /\ \A c \in Conns : FlowAt(Here, c) /\ LifeAt(Here, c) /\ AliveAt(Here, c)
  /\ EdgeInv(Here) /\ Blamed(Here)
=============================================================================
