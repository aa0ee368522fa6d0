--------------------------- MODULE HttpServerProofs ---------------------------
(***************************************************************************)
(* Theorems about HttpServer, for any clients, descriptors, scripts and    *)
(* number of faults: the table, epoll and the connection objects agree,    *)
(* no client gets another's answer, the answers of a connection keep the   *)
(* order of its requests, and the event loop goes on.                      *)
(***************************************************************************)
EXTENDS HttpServer, QueueLemmas, WellFoundedInduction

-------------------------------------------------------------------------------
(* What a step of the server works on. *)

\* A connection with one field changed is a connection.
LEMMA ConnForm ==
  ASSUME NEW k \in Connection
  PROVE  /\ \A v \in {"none", "backlog", "open", "closed", "gone"} :
              [k EXCEPT !.state = v] \in Connection
         /\ \A v \in BOOLEAN : /\ [k EXCEPT !.alive = v] \in Connection
                               /\ [k EXCEPT !.keepalive = v] \in Connection
                               /\ [k EXCEPT !.ever_sent = v] \in Connection
                               /\ [k EXCEPT !.custom = v] \in Connection
                               /\ [k EXCEPT !.waiting = v] \in Connection
         /\ \A v \in {"young", "old", "idle"} : [k EXCEPT !.age = v] \in Connection
         /\ \A v \in Seq(Request) : [k EXCEPT !.requests = v] \in Connection
         /\ \A v \in Seq(Response) : /\ [k EXCEPT !.resps = v] \in Connection
                                     /\ [k EXCEPT !.send_buffer = v] \in Connection
BY DEF Connection

\* The fields of a state.
LEMMA StateForm ==
  ASSUME NEW s \in States
  PROVE  /\ s.client \in [Conns -> Client] /\ s.conn \in [Conns -> Connection]
         /\ s.table \in [Fds -> Conns \cup {NoConn}]
         /\ s.watch \in [Fds -> {"nothing", "edge in", "level out", "off"}]
         /\ s.edge \in SUBSET (Fds \cup {listen})
         /\ s.rq \in Seq([conn : Conns, resp : Response])
         /\ s.cq \in Seq([conn : Conns, resp : Response])
         /\ s.jobs \in SUBSET [conn : Conns, n : Nat]
         /\ s.loop \in {"events", "answers", "stuck", "undefined"}
BY DEF States

\* The rest of a state when a connection is replaced.
LEMMA PutConn ==
  ASSUME NEW s \in States, NEW c \in Conns, NEW k \in Connection
  PROVE  LET t == [s EXCEPT !.conn[c] = k] IN
         /\ t \in States /\ t.conn[c] = k
         /\ \A d \in Conns \ {c} : t.conn[d] = s.conn[d]
         /\ t.client = s.client /\ t.table = s.table /\ t.watch = s.watch /\ t.edge = s.edge
         /\ t.rq = s.rq /\ t.cq = s.cq /\ t.jobs = s.jobs /\ t.loop = s.loop
BY DEF States

\* The invariant of a state.
Good(s) == s \in States /\ TableInv(s) /\ OwnInv(s)

\* What queues and jobs refer to.
LEMMA Referred ==
  ASSUME NEW s \in States
  PROVE  /\ \A i \in DOMAIN s.rq : s.rq[i].conn \in Conns
         /\ \A i \in DOMAIN s.cq : s.cq[i].conn \in Conns
         /\ \A j \in s.jobs : j.conn \in Conns
<1>1. /\ s.rq \in Seq([conn : Conns, resp : Response]) /\ s.cq \in Seq([conn : Conns, resp : Response])
      /\ s.jobs \in SUBSET [conn : Conns, n : Nat]
  BY StateForm
<1>2. /\ \A i \in DOMAIN s.rq : s.rq[i] \in [conn : Conns, resp : Response]
      /\ \A i \in DOMAIN s.cq : s.cq[i] \in [conn : Conns, resp : Response]
      /\ \A j \in s.jobs : j \in [conn : Conns, n : Nat]
  <2> DEFINE E == [conn : Conns, resp : Response]
  <2>1. s.rq \in Seq(E) /\ s.cq \in Seq(E)
    BY <1>1
  <2> HIDE DEF E
  <2>2. /\ \A i \in DOMAIN s.rq : s.rq[i] \in E
        /\ \A i \in DOMAIN s.cq : s.cq[i] \in E
    BY <2>1, QueueElement
  <2> QED
    BY <1>1, <2>2 DEF E
<1>3. \A r \in [conn : Conns, resp : Response] : r.conn \in Conns
  OBVIOUS
<1>4. \A r \in [conn : Conns, n : Nat] : r.conn \in Conns
  OBVIOUS
<1> QED
  BY <1>2, <1>3, <1>4

\* A connection changes, but not its socket, and gets nobody else's answers.
LEMMA GoodConn ==
  ASSUME NEW s, Good(s), NEW c \in Conns, NEW k \in Connection,
         k.state = s.conn[c].state, k.fd = s.conn[c].fd,
         Owned(k.send_buffer, c), Owned(k.resps, c)
  PROVE  Good([s EXCEPT !.conn[c] = k])
<1> DEFINE t == [s EXCEPT !.conn[c] = k]
<1>1. /\ t \in States /\ t.conn[c] = k
      /\ \A d \in Conns \ {c} : t.conn[d] = s.conn[d]
      /\ t.client = s.client /\ t.table = s.table /\ t.watch = s.watch /\ t.edge = s.edge
      /\ t.rq = s.rq /\ t.cq = s.cq /\ t.jobs = s.jobs /\ t.loop = s.loop
  BY PutConn DEF Good
<1>2. \A d \in Conns : t.conn[d].state = s.conn[d].state /\ t.conn[d].fd = s.conn[d].fd
  BY <1>1
<1> HIDE DEF t
<1>3. s.table \in [Fds -> Conns \cup {NoConn}]
  BY StateForm DEF Good
<1>4. TableInv(t)
  BY <1>1, <1>2, <1>3 DEF Good, TableInv
<1>5. OwnInv(t)
  <2>1. /\ \A i \in DOMAIN s.rq : s.rq[i].conn \in Conns
        /\ \A i \in DOMAIN s.cq : s.cq[i].conn \in Conns
        /\ \A j \in s.jobs : j.conn \in Conns
    BY Referred DEF Good
  <2>2. QueueInv(t, t.rq) /\ QueueInv(t, t.cq)
    BY <1>1, <1>2, <2>1 DEF Good, OwnInv, QueueInv
  <2>3. \A j \in t.jobs : t.conn[j.conn].state = "open"
    BY <1>1, <1>2, <2>1 DEF Good, OwnInv
  <2>4. \A d \in Conns : /\ Owned(t.client[d].got, d) /\ Owned(t.conn[d].send_buffer, d)
                         /\ Owned(t.conn[d].resps, d)
    BY <1>1 DEF Good, OwnInv
  <2> QED
    BY <2>2, <2>3, <2>4 DEF OwnInv
<1>6. Good(t)
  BY <1>1, <1>4, <1>5 DEF Good
<1> QED
  BY <1>6 DEF t

\* Neither the table nor a connection changes.
LEMMA GoodFrame ==
  ASSUME NEW s, Good(s), NEW t \in States,
         t.conn = s.conn, t.table = s.table,
         \A f \in Fds : t.watch[f] # "nothing" <=> s.watch[f] # "nothing",
         \A c \in Conns : Owned(t.client[c].got, c),
         QueueInv(s, t.rq), QueueInv(s, t.cq), \A j \in t.jobs : s.conn[j.conn].state = "open"
  PROVE  Good(t)
<1>1. TableInv(t)
  BY DEF Good, TableInv
<1>2. OwnInv(t)
  BY DEF Good, OwnInv, QueueInv
<1> QED
  BY <1>1, <1>2 DEF Good

\* An answer is queued for a connection that is in the table.
LEMMA GoodSend ==
  ASSUME NEW s, Good(s), NEW c \in Conns, s.conn[c].state = "open", NEW n \in Nat,
         NEW form \in {"http", "custom"}, s.table[s.conn[c].fd] # NoConn
  PROVE  LET e == [conn |-> s.table[s.conn[c].fd], resp |-> [to |-> c, n |-> n, form |-> form]] IN
         Good([s EXCEPT !.rq = Append(@, e)]) /\ Good([s EXCEPT !.cq = Append(@, e)])
<1> DEFINE e == [conn |-> s.table[s.conn[c].fd], resp |-> [to |-> c, n |-> n, form |-> form]]
<1>1. s.table[s.conn[c].fd] = c
  <2>1. s.conn[c].fd \in Fds
    BY DEF Good, TableInv
  <2>2. s.table \in [Fds -> Conns \cup {NoConn}]
    BY StateForm DEF Good
  <2> QED
    BY <2>1, <2>2 DEF Good, TableInv
<1>2. e \in [conn : Conns, resp : Response] /\ e.conn = c /\ e.resp.to = c
  BY <1>1 DEF Response
<1> HIDE DEF e
<1>3. ASSUME NEW q \in Seq([conn : Conns, resp : Response]), QueueInv(s, q)
      PROVE  Append(q, e) \in Seq([conn : Conns, resp : Response]) /\ QueueInv(s, Append(q, e))
  <2>1. /\ Append(q, e) \in Seq([conn : Conns, resp : Response])
        /\ DOMAIN Append(q, e) = 1 .. Len(q) + 1 /\ Len(q) \in Nat /\ DOMAIN q = 1 .. Len(q)
        /\ Append(q, e)[Len(q) + 1] = e
        /\ \A i \in 1 .. Len(q) : Append(q, e)[i] = q[i]
    BY <1>2
  <2>2. \A i \in 1 .. Len(q) + 1 : i \in 1 .. Len(q) \/ i = Len(q) + 1
    BY <2>1
  <2> QED
    BY <1>2, <1>3, <2>1, <2>2 DEF QueueInv
<1>4. s \in States /\ QueueInv(s, s.rq) /\ QueueInv(s, s.cq)
  BY DEF Good, OwnInv
<1>5. Append(s.rq, e) \in Seq([conn : Conns, resp : Response]) /\ QueueInv(s, Append(s.rq, e))
  BY <1>3, <1>4, StateForm
<1>6. Append(s.cq, e) \in Seq([conn : Conns, resp : Response]) /\ QueueInv(s, Append(s.cq, e))
  BY <1>3, <1>4, StateForm
<1>7. Good([s EXCEPT !.rq = Append(@, e)])
  <2> DEFINE t == [s EXCEPT !.rq = Append(@, e)]
  <2>1. t \in States
    BY <1>4, <1>5 DEF States
  <2>2. /\ t.client = s.client /\ t.conn = s.conn /\ t.table = s.table /\ t.watch = s.watch
        /\ t.rq = Append(s.rq, e) /\ t.cq = s.cq /\ t.jobs = s.jobs
    BY <1>4 DEF States
  <2> HIDE DEF t
  <2>3. Good(t)
    BY <1>5, <1>4, <2>1, <2>2, GoodFrame DEF Good, OwnInv
  <2> QED
    BY <2>3 DEF t
<1>8. Good([s EXCEPT !.cq = Append(@, e)])
  <2> DEFINE t == [s EXCEPT !.cq = Append(@, e)]
  <2>1. t \in States
    BY <1>4, <1>6 DEF States
  <2>2. /\ t.client = s.client /\ t.conn = s.conn /\ t.table = s.table /\ t.watch = s.watch
        /\ t.cq = Append(s.cq, e) /\ t.rq = s.rq /\ t.jobs = s.jobs
    BY <1>4 DEF States
  <2> HIDE DEF t
  <2>3. Good(t)
    BY <1>6, <1>4, <2>1, <2>2, GoodFrame DEF Good, OwnInv
  <2> QED
    BY <2>3 DEF t
<1> QED
  BY <1>7, <1>8 DEF e

\* The loop is somewhere else.
LEMMA GoodLoop ==
  ASSUME NEW s, Good(s), NEW l \in {"events", "answers", "stuck", "undefined"}
  PROVE  Good([s EXCEPT !.loop = l])
<1> DEFINE t == [s EXCEPT !.loop = l]
<1>1. /\ t \in States
      /\ t.client = s.client /\ t.conn = s.conn /\ t.table = s.table /\ t.watch = s.watch
      /\ t.rq = s.rq /\ t.cq = s.cq /\ t.jobs = s.jobs
  BY DEF Good, States
<1> HIDE DEF t
<1>2. Good(t)
  BY <1>1, GoodFrame DEF Good, OwnInv
<1> QED
  BY <1>2 DEF t

-------------------------------------------------------------------------------
(* HttpServer: what its methods do to a state. *)

\* From s to t connection c keeps its socket.
Kept(s, t, c) == Good(t) /\ t.conn[c].state = s.conn[c].state /\ t.conn[c].fd = s.conn[c].fd

LEMMA KeptTwice ==
  ASSUME NEW s, NEW t, NEW u, NEW c, Kept(s, t, c), Kept(t, u, c)
  PROVE  Kept(s, u, c)
BY DEF Kept

\* A connection changes in what is its own.
LEMMA KeptConn ==
  ASSUME NEW s, Good(s), NEW c \in Conns, NEW k \in Connection,
         k.state = s.conn[c].state, k.fd = s.conn[c].fd,
         Owned(k.send_buffer, c), Owned(k.resps, c)
  PROVE  Kept(s, [s EXCEPT !.conn[c] = k], c)
<1>1. Good([s EXCEPT !.conn[c] = k])
  BY GoodConn
<1>2. [s EXCEPT !.conn[c] = k].conn[c] = k
  BY PutConn DEF Good
<1> QED
  BY <1>1, <1>2 DEF Kept

\* onSendResponse and onSendCustomResponse of an open connection.
LEMMA SendResponseGood ==
  ASSUME NEW s, Good(s), NEW c \in Conns, s.conn[c].state = "open", NEW n \in Nat
  PROVE  /\ Kept(s, onSendResponse(s, c, n), c)
         /\ Kept(s, onSendCustomResponse(s, c, n), c)
<1>1. Good(onSendResponse(s, c, n)) /\ Good(onSendCustomResponse(s, c, n))
  BY GoodSend, GoodLoop DEF onSendResponse, onSendCustomResponse
<1>2. onSendResponse(s, c, n).conn = s.conn /\ onSendCustomResponse(s, c, n).conn = s.conn
  BY DEF onSendResponse, onSendCustomResponse, Good, States
<1> QED
  BY <1>1, <1>2 DEF Kept

\* The handler works on a request of an open connection.
LEMMA HandleRequestGood ==
  ASSUME NEW s, Good(s), NEW c \in Conns, s.conn[c].state = "open", NEW r \in Request
  PROVE  Kept(s, HandleRequest(s, c, r), c)
<1> DEFINE j == [conn |-> c, n |-> r.n]
           t == [s EXCEPT !.jobs = @ \cup {j}]
<1>1. r.n \in Nat /\ j \in [conn : Conns, n : Nat] /\ j.conn = c
  BY DEF Request
<1> HIDE DEF j
<1>2. /\ t \in States
      /\ t.client = s.client /\ t.conn = s.conn /\ t.table = s.table /\ t.watch = s.watch
      /\ t.rq = s.rq /\ t.cq = s.cq /\ t.jobs = s.jobs \cup {j}
  <2>1. s.jobs \cup {j} \in SUBSET [conn : Conns, n : Nat]
    BY <1>1, StateForm DEF Good
  <2> QED
    BY <2>1 DEF Good, States
<1> HIDE DEF t
<1>3. Good(t)
  BY <1>1, <1>2, GoodFrame DEF Good, OwnInv
<1>4. Kept(s, t, c) /\ Kept(s, s, c)
  BY <1>2, <1>3 DEF Kept
<1> QED
  BY <1>1, <1>4, SendResponseGood DEF HandleRequest, t, j

\* checkUpgrade answers the handshake and forgets what else was asked.
LEMMA CheckUpgradeGood ==
  ASSUME NEW s, Good(s), NEW c \in Conns, s.conn[c].state = "open", NEW r \in Request
  PROVE  Kept(s, checkUpgrade(s, c, r), c)
<1> DEFINE k == [s.conn[c] EXCEPT !.custom = TRUE]
           t == [s EXCEPT !.conn[c] = k]
           u == onSendCustomResponse(t, c, r.n)
           l == [u.conn[c] EXCEPT !.waiting = FALSE, !.requests = <<>>]
<1>1. r.n \in Nat
  BY DEF Request
<1>2. s.conn[c] \in Connection /\ Owned(s.conn[c].send_buffer, c) /\ Owned(s.conn[c].resps, c)
  BY StateForm DEF Good, OwnInv
<1>3. /\ k \in Connection /\ k.state = s.conn[c].state /\ k.fd = s.conn[c].fd
      /\ k.send_buffer = s.conn[c].send_buffer /\ k.resps = s.conn[c].resps
  BY <1>2 DEF Connection
<1>4. Kept(s, t, c)
  BY <1>2, <1>3, KeptConn
<1>5. Kept(t, u, c)
  <2>1. Good(t) /\ t.conn[c].state = "open"
    BY <1>4 DEF Kept
  <2> HIDE DEF t
  <2> QED
    BY <1>1, <2>1, SendResponseGood
<1> HIDE DEF u
<1>6. Good(u) /\ u.conn[c] \in Connection /\ Owned(u.conn[c].send_buffer, c) /\ Owned(u.conn[c].resps, c)
  BY <1>5, StateForm DEF Good, OwnInv, Kept
<1>7. /\ l \in Connection /\ l.state = u.conn[c].state /\ l.fd = u.conn[c].fd
      /\ l.send_buffer = u.conn[c].send_buffer /\ l.resps = u.conn[c].resps
  <2>1. <<>> \in Seq(Request)
    OBVIOUS
  <2> QED
    BY <1>6, <2>1 DEF Connection
<1>8. Kept(u, [u EXCEPT !.conn[c] = l], c)
  BY <1>6, <1>7, KeptConn
<1>9. checkUpgrade(s, c, r) = [u EXCEPT !.conn[c] = l]
  <2>1. t = [s EXCEPT !.conn[c].custom = TRUE]
    OBVIOUS
  <2>2. u = onSendCustomResponse([s EXCEPT !.conn[c].custom = TRUE], c, r.n)
    BY <2>1 DEF u
  <2>3. [u EXCEPT !.conn[c].waiting = FALSE, !.conn[c].requests = <<>>] = [u EXCEPT !.conn[c] = l]
    BY <1>6, StateForm DEF Good, States
  <2> QED
    BY <2>2, <2>3 DEF checkUpgrade
<1> QED
  BY <1>4, <1>5, <1>8, <1>9, KeptTwice

\* HandleWaitingRequests starts the next request of an open connection.
LEMMA HandleWaitingGood ==
  ASSUME NEW s, Good(s), NEW c \in Conns, s.conn[c].state = "open"
  PROVE  Kept(s, HandleWaitingRequests(s, c), c)
<1> DEFINE q == s.conn[c].requests
           k == [s.conn[c] EXCEPT !.waiting = TRUE, !.requests = Tail(q)]
           t == [s EXCEPT !.conn[c].waiting = TRUE, !.conn[c].requests = Tail(@)]
<1>1. Kept(s, s, c)
  BY DEF Kept
<1>2. CASE s.conn[c].waiting \/ q = <<>>
  BY <1>1, <1>2 DEF HandleWaitingRequests
<1>3. CASE ~(s.conn[c].waiting \/ q = <<>>)
  <2>1. /\ s.conn[c] \in Connection /\ Owned(s.conn[c].send_buffer, c) /\ Owned(s.conn[c].resps, c)
        /\ q \in Seq(Request)
    BY StateForm, ZenonT(60) DEF Good, OwnInv, Connection
  <2>2. Head(q) \in Request /\ Tail(q) \in Seq(Request)
    BY <1>3, <2>1, QueuePop
  <2>3. /\ k \in Connection /\ k.state = s.conn[c].state /\ k.fd = s.conn[c].fd
        /\ k.send_buffer = s.conn[c].send_buffer /\ k.resps = s.conn[c].resps
    BY <2>1, <2>2 DEF Connection
  <2>4. Kept(s, [s EXCEPT !.conn[c] = k], c)
    BY <2>1, <2>3, KeptConn
  <2>5. t = [s EXCEPT !.conn[c] = k]
    BY <2>1, StateForm DEF Good, States
  <2>6. Kept(s, t, c)
    BY <2>4, <2>5
  <2> HIDE DEF t
  <2>7. /\ Kept(t, checkUpgrade(t, c, Head(q)), c)
        /\ Kept(t, HandleRequest(t, c, Head(q)), c)
    BY <2>2, <2>6, CheckUpgradeGood, HandleRequestGood DEF Kept
  <2>8. /\ Kept(s, checkUpgrade(t, c, Head(q)), c)
        /\ Kept(s, HandleRequest(t, c, Head(q)), c)
    BY <2>6, <2>7, KeptTwice
  <2> QED
    BY <1>3, <2>8 DEF HandleWaitingRequests, t
<1> QED
  BY <1>2, <1>3

-------------------------------------------------------------------------------
(* HttpConnection. *)

\* Something changes between a client and the server.
LEMMA KeptClient ==
  ASSUME NEW s, Good(s), NEW c \in Conns, NEW d \in Conns, NEW m \in Client, Owned(m.got, c)
  PROVE  Kept(s, [s EXCEPT !.client[c] = m], d)
<1> DEFINE t == [s EXCEPT !.client[c] = m]
<1>1. /\ t \in States
      /\ t.conn = s.conn /\ t.table = s.table /\ t.watch = s.watch
      /\ t.rq = s.rq /\ t.cq = s.cq /\ t.jobs = s.jobs
  BY DEF Good, States
<1>2. t.client[c] = m /\ \A e \in Conns \ {c} : t.client[e] = s.client[e]
  BY DEF Good, States
<1> HIDE DEF t
<1>3. \A e \in Conns : Owned(t.client[e].got, e)
  BY <1>2 DEF Good, OwnInv
<1>4. Good(t)
  BY <1>1, <1>3, GoodFrame DEF Good, OwnInv
<1> QED
  BY <1>1, <1>4 DEF Kept, t

LEMMA ActiveForm ==
  ASSUME NEW k \in Connection
  PROVE  /\ Active(k) \in Connection
         /\ Active(k).state = k.state /\ Active(k).fd = k.fd /\ Active(k).alive = k.alive
         /\ Active(k).keepalive = k.keepalive /\ Active(k).ever_sent = k.ever_sent
         /\ Active(k).custom = k.custom /\ Active(k).waiting = k.waiting
         /\ Active(k).requests = k.requests /\ Active(k).resps = k.resps
         /\ Active(k).send_buffer = k.send_buffer
BY DEF Active, Connection

\* An answer joins a connection's own, and the next one is taken from them.
LEMMA OwnedQueue ==
  ASSUME NEW q \in Seq(Response), NEW c, Owned(q, c)
  PROVE  /\ \A e \in Response : e.to = c => Append(q, e) \in Seq(Response) /\ Owned(Append(q, e), c)
         /\ q # <<>> => /\ Head(q) \in Response /\ Head(q).to = c /\ q[1] = Head(q)
                        /\ Tail(q) \in Seq(Response) /\ Owned(Tail(q), c)
<1>1. ASSUME NEW e \in Response, e.to = c
      PROVE  Append(q, e) \in Seq(Response) /\ Owned(Append(q, e), c)
  <2>1. /\ Append(q, e) \in Seq(Response)
        /\ DOMAIN Append(q, e) = 1 .. Len(q) + 1 /\ Len(q) \in Nat /\ DOMAIN q = 1 .. Len(q)
        /\ Append(q, e)[Len(q) + 1] = e
        /\ \A i \in 1 .. Len(q) : Append(q, e)[i] = q[i]
    OBVIOUS
  <2>2. \A i \in 1 .. Len(q) + 1 : i \in 1 .. Len(q) \/ i = Len(q) + 1
    BY <2>1
  <2> QED
    BY <1>1, <2>1, <2>2 DEF Owned
<1>2. ASSUME q # <<>>
      PROVE  /\ Head(q) \in Response /\ Head(q).to = c /\ q[1] = Head(q)
             /\ Tail(q) \in Seq(Response) /\ Owned(Tail(q), c)
  <2>1. /\ Head(q) \in Response /\ Tail(q) \in Seq(Response) /\ Len(q) \in Nat \ {0}
        /\ Head(q) = q[1] /\ Len(Tail(q)) = Len(q) - 1
        /\ \A i \in 1 .. Len(Tail(q)) : Tail(q)[i] = q[i + 1]
    BY <1>2, QueuePop
  <2>2. DOMAIN q = 1 .. Len(q) /\ DOMAIN Tail(q) = 1 .. Len(Tail(q))
    BY <2>1
  <2>3. 1 \in DOMAIN q /\ \A i \in DOMAIN Tail(q) : i + 1 \in DOMAIN q
    BY <2>1, <2>2
  <2> QED
    BY <2>1, <2>2, <2>3 DEF Owned
<1> QED
  BY <1>1, <1>2

\* performSend of an open connection.
LEMMA PerformSendGood ==
  ASSUME NEW s, Good(s), NEW c \in Conns, NEW o \in Outcomes
  PROVE  Kept(s, performSend(s, c, o).s, c) /\ performSend(s, c, o).s.table = s.table
<1> DEFINE k    == s.conn[c]
           load == [k EXCEPT !.send_buffer = <<Head(k.resps)>>, !.resps = Tail(@)]
           full == IF k.send_buffer = <<>> THEN load ELSE k
           sent == [full EXCEPT !.ever_sent = TRUE]
           Mine(l) == /\ l \in Connection /\ l.state = k.state /\ l.fd = k.fd
                      /\ Owned(l.send_buffer, c) /\ Owned(l.resps, c)
           Put(l) == [s EXCEPT !.conn[c] = l]
<1>1. Mine(k)
  BY StateForm DEF Good, OwnInv
<1>2. ASSUME NEW l, Mine(l) PROVE Kept(s, Put(l), c) /\ Put(l).table = s.table
  <2>1. Kept(s, Put(l), c)
    BY <1>2, KeptConn
  <2> QED
    BY <2>1 DEF Good, States
<1>3. CASE k.send_buffer = <<>> /\ k.ever_sent /\ ~k.keepalive
  <2>1. Mine([k EXCEPT !.alive = FALSE])
    BY <1>1 DEF Connection
  <2>2. performSend(s, c, o).s = Put([k EXCEPT !.alive = FALSE])
    BY <1>3 DEF performSend
  <2> HIDE DEF Mine, Put
  <2> QED
    BY <1>2, <2>1, <2>2
<1>4. CASE ~(k.send_buffer = <<>> /\ k.ever_sent /\ ~k.keepalive)
           /\ k.send_buffer = <<>> /\ k.resps = <<>>
  <2>1. performSend(s, c, o).s = Put(k)
    BY <1>4 DEF performSend
  <2> HIDE DEF Mine, Put
  <2> QED
    BY <1>1, <1>2, <2>1
<1>5. CASE ~(k.send_buffer = <<>> /\ k.ever_sent /\ ~k.keepalive)
           /\ ~(k.send_buffer = <<>> /\ k.resps = <<>>)
  <2>1. k.resps \in Seq(Response) /\ k.send_buffer \in Seq(Response)
    BY <1>1 DEF Connection
  <2>2. Mine(full) /\ full.send_buffer # <<>>
    <3>1. CASE k.send_buffer # <<>>
      BY <1>1, <3>1
    <3>2. CASE k.send_buffer = <<>>
      <4> DEFINE h == Head(k.resps)
                 q == Tail(k.resps)
      <4>1. h \in Response /\ h.to = c /\ q \in Seq(Response) /\ Owned(q, c)
        BY <1>1, <1>5, <2>1, <3>2, OwnedQueue
      <4> HIDE DEF h, q
      <4>2. <<h>> \in Seq(Response) /\ <<h>> # <<>> /\ Owned(<<h>>, c)
        BY <4>1 DEF Owned
      <4> DEFINE b == <<h>>
      <4>3. load = [k EXCEPT !.send_buffer = b, !.resps = q]
        BY DEF h, q
      <4> HIDE DEF b
      <4>4. /\ load \in Connection /\ load.state = k.state /\ load.fd = k.fd
            /\ load.send_buffer = b /\ load.resps = q
        BY <1>1, <4>1, <4>2, <4>3 DEF Connection, b
      <4> HIDE DEF load
      <4>5. full = load
        BY <3>2
      <4>6. Mine(load) /\ load.send_buffer # <<>>
        BY <4>1, <4>2, <4>4 DEF b
      <4> QED
        BY <4>5, <4>6
    <3> QED
      BY <3>1, <3>2
  <2> DEFINE e == full.send_buffer[1]
  <2>3. e \in Response /\ e.to = c
    <3> DEFINE b == full.send_buffer
    <3>1. b \in Seq(Response) /\ Owned(b, c) /\ b # <<>>
      BY <2>2 DEF Connection
    <3> HIDE DEF b, full
    <3>2. b[1] \in Response /\ b[1].to = c
      BY <3>1, OwnedQueue
    <3> QED
      BY <3>2 DEF b
  <2>4. \/ performSend(s, c, o).s = Put([sent EXCEPT !.alive = FALSE])
        \/ performSend(s, c, o).s = Put(sent)
        \/ performSend(s, c, o).s = Put(Active(sent))
        \/ performSend(s, c, o).s = [s EXCEPT !.conn[c] = [Active(sent) EXCEPT !.send_buffer = <<>>],
                                              !.client[c].got = Append(@, e)]
    BY <1>5 DEF performSend, Outcomes
  <2> HIDE DEF full, e
  <2>5. Mine(sent)
    BY <2>2 DEF Connection
  <2> HIDE DEF sent
  <2>6. Mine([sent EXCEPT !.alive = FALSE])
    BY <2>5 DEF Connection
  <2>7. Mine(Active(sent))
    BY <2>5, ActiveForm
  <2> DEFINE l == [Active(sent) EXCEPT !.send_buffer = <<>>]
             t == Put(l)
             m == [t.client[c] EXCEPT !.got = Append(@, e)]
             u == [t EXCEPT !.client[c] = m]
  <2>8. Mine(l)
    <3>1. <<>> \in Seq(Response) /\ Owned(<<>>, c)
      BY DEF Owned
    <3> QED
      BY <2>7, <3>1 DEF Connection
  <2> HIDE DEF l
  <2>9. Kept(s, t, c) /\ t.table = s.table
    BY <1>2, <2>8
  <2>10. [s EXCEPT !.conn[c] = l, !.client[c].got = Append(@, e)] = u
    BY DEF Good, States
  <2>11. Kept(s, u, c) /\ u.table = s.table
    <3> HIDE DEF t
    <3>1. Good(t) /\ t \in States /\ t.client[c] \in Client /\ Owned(t.client[c].got, c)
      BY <2>9, StateForm DEF Kept, Good, OwnInv
    <3>2. t.client[c].got \in Seq(Response)
      BY <3>1 DEF Client
    <3>3. Append(t.client[c].got, e) \in Seq(Response) /\ Owned(Append(t.client[c].got, e), c)
      BY <2>3, <3>1, <3>2, OwnedQueue
    <3>4. m \in Client /\ Owned(m.got, c)
      BY <3>1, <3>3 DEF Client
    <3> HIDE DEF m
    <3>5. Kept(t, u, c)
      BY <3>1, <3>4, KeptClient
    <3>6. u.table = t.table
      BY <3>1 DEF States
    <3> QED
      BY <2>9, <3>5, <3>6, KeptTwice
  <2>12. CASE performSend(s, c, o).s = u
    BY <2>11, <2>12
  <2> HIDE DEF Mine, Put, u
  <2> QED
    BY <1>2, <2>4, <2>5, <2>6, <2>7, <2>10, <2>12 DEF l
<1> QED
  BY <1>3, <1>4, <1>5

\* The least number of a set.
LEMMA MinForm ==
  ASSUME NEW S \in SUBSET Nat, S # {}
  PROVE  Min(S) \in S /\ \A n \in S : Min(S) <= n
<1> DEFINE R == OpToRel(<, Nat)
<1>1. IsWellFoundedOn(R, Nat)
  BY NatLessThanWellFounded
<1>2. \A m, n \in Nat : m < n => <<m, n>> \in R
  BY DEF OpToRel
<1> HIDE DEF R
<1>3. PICK m \in S : \A n \in S : <<n, m>> \notin R
  BY <1>1, WFMin
<1>4. \A n \in S : m <= n
  <2>1. \A a, b \in Nat : ~(a < b) => b <= a
    OBVIOUS
  <2>2. \A n \in S : ~(n < m)
    BY <1>2, <1>3
  <2> QED
    BY <2>1, <2>2
<1> QED
  BY <1>4 DEF Min

\* What performRecv takes for the last request of what has arrived.
Cut(data) == SelectInSeq(data, LAMBDA r : r.kind \in {"upgrade", "close"})

LastOf(data) == data[IF Cut(data) = 0 THEN Len(data) ELSE Cut(data)]

LEMMA LastForm ==
  ASSUME NEW data \in Seq(Request), data # <<>>
  PROVE  LastOf(data) \in Request /\ \E i \in DOMAIN data : LastOf(data) = data[i]
<1> DEFINE I == {i \in 1 .. Len(data) : data[i].kind \in {"upgrade", "close"}}
<1>1. Cut(data) = IF I # {} THEN Min(I) ELSE 0
  BY DEF Cut, SelectInSeq
<1>2. Len(data) \in Nat \ {0} /\ DOMAIN data = 1 .. Len(data)
  OBVIOUS
<1>3. I \in SUBSET Nat /\ I \subseteq 1 .. Len(data)
  BY <1>2
<1> HIDE DEF I
<1>4. I # {} => Min(I) \in I
  BY <1>3, MinForm
<1>5. ASSUME NEW n, n = IF I # {} THEN Min(I) ELSE 0
      PROVE  (IF n = 0 THEN Len(data) ELSE n) \in DOMAIN data
  <2>1. CASE I # {}
    <3>1. n \in 1 .. Len(data)
      BY <1>3, <1>4, <1>5, <2>1
    <3> QED
      BY <1>2, <3>1
  <2>2. CASE I = {}
    BY <1>2, <1>5, <2>2
  <2> QED
    BY <2>1, <2>2
<1>6. (IF Cut(data) = 0 THEN Len(data) ELSE Cut(data)) \in DOMAIN data
  BY <1>1, <1>5
<1>7. ASSUME NEW i \in DOMAIN data PROVE data[i] \in Request
  BY QueueElement
<1> QED
  BY <1>6, <1>7 DEF LastOf

\* The requests of v begin those of w.
Begins(v, w) == v \in Seq(Request) /\ Len(v) <= Len(w) /\ \A i \in 1 .. Len(v) : v[i] = w[i]

LEMMA PushedForm ==
  ASSUME NEW data \in Seq(Request)
  PROVE  Pushed(data) \in Seq(Request) /\ Begins(Pushed(data), data)
<1> DEFINE I == {i \in 1 .. Len(data) : data[i].kind = "garbage"}
           bad == IF I # {} THEN Min(I) ELSE 0
<1>1. Pushed(data) = IF bad = 0 THEN data ELSE SubSeq(data, 1, bad - 2)
  BY DEF Pushed, SelectInSeq
<1>2. Len(data) \in Nat /\ I \in SUBSET Nat /\ I \subseteq 1 .. Len(data)
  OBVIOUS
<1> HIDE DEF I
<1>3. bad \in 0 .. Len(data)
  <2>1. CASE I = {}
    BY <1>2, <2>1
  <2>2. CASE I # {}
    <3>1. Min(I) \in I
      BY <1>2, <2>2, MinForm
    <3>2. \A n \in 1 .. Len(data) : n \in 0 .. Len(data)
      BY <1>2
    <3> QED
      BY <1>2, <2>2, <3>1, <3>2
  <2> QED
    BY <2>1, <2>2
<1> HIDE DEF bad
<1>4. Begins(data, data)
  BY DEF Begins
<1>5. CASE bad \in 2 .. Len(data)
  <2> DEFINE n == bad - 2
             v == SubSeq(data, 1, n)
  <2>1. n \in 0 .. Len(data)
    BY <1>2, <1>5
  <2> HIDE DEF n
  <2>2. v \in Seq(Request) /\ Len(v) = n /\ \A i \in 1 .. n : v[i] = data[i]
    BY <1>2, <2>1
  <2>3. Begins(v, data)
    <3> HIDE DEF v
    <3> QED
      BY <1>2, <2>1, <2>2 DEF Begins
  <2>4. Pushed(data) = v
    BY <1>1, <1>2, <1>5 DEF n
  <2> QED
    BY <2>2, <2>3, <2>4
<1>6. CASE bad = 1
  <2>1. SubSeq(data, 1, bad - 2) = <<>>
    BY <1>6
  <2>2. Begins(<<>>, data)
    BY <1>2 DEF Begins
  <2>3. Pushed(data) = <<>>
    <3>1. bad # 0
      BY <1>6
    <3> QED
      BY <1>1, <2>1, <3>1
  <2> QED
    BY <2>2, <2>3 DEF Begins
<1>7. CASE bad = 0
  BY <1>1, <1>4, <1>7
<1> QED
  BY <1>2, <1>3, <1>5, <1>6, <1>7

\* performRecv of a connection.
LEMMA PerformRecvGood ==
  ASSUME NEW s, Good(s), NEW c \in Conns
  PROVE  Kept(s, performRecv(s, c), c) /\ performRecv(s, c).table = s.table
<1> DEFINE k    == s.conn[c]
           data == s.client[c].arrived
           last == LastOf(data)
           new  == IF s.client[c].closed \/ s.client[c].shut THEN [k EXCEPT !.alive = FALSE]
                   ELSE IF data = <<>> THEN k
                   ELSE IF k.custom THEN [Active(k) EXCEPT !.requests = @ \o Pushed(data)]
                   ELSE IF ~k.keepalive THEN Active(k)
                   ELSE [Active(k) EXCEPT !.requests = Append(@, last),
                                          !.keepalive = last.kind # "close"]
           Mine(l) == /\ l \in Connection /\ l.state = k.state /\ l.fd = k.fd
                      /\ Owned(l.send_buffer, c) /\ Owned(l.resps, c)
           m == [s.client[c] EXCEPT !.arrived = <<>>]
           t == [s EXCEPT !.conn[c] = new]
           u == [t EXCEPT !.client[c] = m]
<1>1. Mine(k) /\ s.client[c] \in Client /\ Owned(s.client[c].got, c)
  BY StateForm DEF Good, OwnInv
<1>2. data \in Seq(Request) /\ k.requests \in Seq(Request)
  BY <1>1 DEF Client, Connection
<1>3. performRecv(s, c) = [s EXCEPT !.conn[c] = new, !.client[c].arrived = <<>>]
  BY DEF performRecv, LastOf, Cut
<1>4. Mine(Active(k)) /\ Active(k).requests = k.requests
  BY <1>1, ActiveForm
<1>5. Mine(new)
  <2>1. Mine([k EXCEPT !.alive = FALSE])
    BY <1>1 DEF Connection
  <2>2. Mine([Active(k) EXCEPT !.requests = @ \o Pushed(data)])
    <3>1. Pushed(data) \in Seq(Request)
      BY <1>2, PushedForm
    <3>2. Active(k).requests \o Pushed(data) \in Seq(Request)
      BY <1>2, <1>4, <3>1, ConcatQueue
    <3> QED
      BY <1>4, <3>2 DEF Connection
  <2>3. ASSUME data # <<>>
        PROVE  Mine([Active(k) EXCEPT !.requests = Append(@, last), !.keepalive = last.kind # "close"])
    <3>1. last \in Request
      BY <1>2, <2>3, LastForm
    <3> HIDE DEF last
    <3>2. Append(Active(k).requests, last) \in Seq(Request)
      BY <1>2, <1>4, <3>1, QueuePush
    <3>3. (last.kind # "close") \in BOOLEAN
      OBVIOUS
    <3> DEFINE q == Append(Active(k).requests, last)
               b == last.kind # "close"
    <3> HIDE DEF q, b
    <3>4. Mine([Active(k) EXCEPT !.requests = q, !.keepalive = b])
      BY <1>4, <3>2, <3>3 DEF Connection, q, b
    <3> QED
      BY <3>4 DEF q, b
  <2> HIDE DEF Mine
  <2> QED
    BY <1>1, <1>4, <2>1, <2>2, <2>3
<1> HIDE DEF new
<1>6. Kept(s, t, c) /\ t.table = s.table /\ t.client = s.client
  <2>1. Kept(s, t, c)
    BY <1>5, KeptConn
  <2> QED
    BY <2>1 DEF Good, States
<1>7. m \in Client /\ Owned(m.got, c)
  <2>1. <<>> \in Seq(Request)
    OBVIOUS
  <2> QED
    BY <1>1, <2>1 DEF Client
<1>8. performRecv(s, c) = u
  BY <1>3 DEF Good, States
<1> HIDE DEF t, m
<1>9. Kept(t, u, c) /\ u.table = t.table
  <2>1. Good(t)
    BY <1>6 DEF Kept
  <2>2. Kept(t, u, c)
    BY <1>7, <2>1, KeptClient
  <2> QED
    BY <2>1, <2>2 DEF Good, States
<1> QED
  BY <1>6, <1>8, <1>9, KeptTwice

-------------------------------------------------------------------------------
(* HttpServer: sockets, answers and dead connections. *)

\* Sockets that no connection of the table has are no longer watched.
LEMMA DelSocketGood ==
  ASSUME NEW s, Good(s), NEW fs \in SUBSET Fds, \A f \in fs : s.table[f] = NoConn
  PROVE  Good(delSocket(s, fs))
<1> DEFINE t == delSocket(s, fs)
<1>1. /\ t \in States
      /\ t.client = s.client /\ t.conn = s.conn /\ t.table = s.table
      /\ t.rq = s.rq /\ t.cq = s.cq /\ t.jobs = s.jobs
      /\ \A f \in Fds : t.watch[f] = IF f \in fs THEN "nothing" ELSE s.watch[f]
  BY DEF Good, States, delSocket
<1> HIDE DEF t
<1>2. \A f \in Fds : t.watch[f] # "nothing" <=> s.watch[f] # "nothing"
  BY <1>1 DEF Good, TableInv
<1>3. Good(t)
  BY <1>1, <1>2, GoodFrame DEF Good, OwnInv
<1> QED
  BY <1>3 DEF t

\* Connections leave the table, and their sockets are no longer watched.
LEMMA EraseGood ==
  ASSUME NEW s, Good(s), NEW fs \in SUBSET Fds
  PROVE  Good(Erase(s, fs)) /\ \A c : Kept(s, Erase(s, fs), c)
<1> DEFINE t == Erase(s, fs)
<1>1. /\ t \in States
      /\ t.client = s.client /\ t.conn = s.conn
      /\ t.rq = s.rq /\ t.cq = s.cq /\ t.jobs = s.jobs
  BY DEF Good, States, Erase, delSocket, Unlisted
<1>2. \A f \in Fds : /\ t.watch[f] = IF f \in fs THEN "nothing" ELSE s.watch[f]
                     /\ t.table[f] = IF f \in fs THEN NoConn ELSE s.table[f]
  BY DEF Good, States, Erase, delSocket, Unlisted
<1> HIDE DEF t
<1>3. TableInv(t)
  BY <1>1, <1>2 DEF Good, TableInv
<1>4. OwnInv(t)
  BY <1>1 DEF Good, OwnInv, QueueInv
<1>5. Good(t) /\ \A c : Kept(s, t, c)
  BY <1>1, <1>3, <1>4 DEF Kept, Good
<1> QED
  BY <1>5 DEF t

\* enableEvents of a socket that is watched, or is not: it stays so.
LEMMA EnableEventsGood ==
  ASSUME NEW s, Good(s), NEW f \in Fds, NEW c \in Conns
  PROVE  Kept(s, enableEvents(s, f), c)
<1> DEFINE t == enableEvents(s, f)
           w == CASE s.watch[f] = "edge in" -> "level out"
                  [] s.watch[f] = "level out" -> "off"
                  [] OTHER -> s.watch[f]
<1>1. /\ w \in {"nothing", "edge in", "level out", "off"}
      /\ w # "nothing" <=> s.watch[f] # "nothing"
  <2>1. s.watch[f] \in {"nothing", "edge in", "level out", "off"}
    BY StateForm DEF Good
  <2> QED
    BY <2>1
<1>2. t = [s EXCEPT !.watch[f] = w, !.edge = @ \ {f}]
  BY DEF enableEvents
<1> HIDE DEF t, w
<1>3. /\ t \in States
      /\ t.client = s.client /\ t.conn = s.conn /\ t.table = s.table
      /\ t.rq = s.rq /\ t.cq = s.cq /\ t.jobs = s.jobs
      /\ t.watch[f] = w /\ \A g \in Fds \ {f} : t.watch[g] = s.watch[g]
  BY <1>1, <1>2 DEF Good, States
<1>4. \A g \in Fds : t.watch[g] # "nothing" <=> s.watch[g] # "nothing"
  BY <1>1, <1>3
<1>5. Good(t)
  BY <1>3, <1>4, GoodFrame DEF Good, OwnInv
<1> QED
  BY <1>3, <1>5 DEF Kept, t

\* An answer is handed to its connection, an open one, and sent.
LEMMA HandleResponseGood ==
  ASSUME NEW s, Good(s), NEW c \in Conns, s.conn[c].state = "open", NEW o \in Outcomes
  PROVE  Kept(s, handleResponse(s, c, o), c)
<1> DEFINE k == [s.conn[c] EXCEPT !.waiting = FALSE]
           t == [s EXCEPT !.conn[c].waiting = FALSE]
           u == performSend(t, c, o).s
           f == s.conn[c].fd
<1>1. Kept(s, t, c) /\ t.table = s.table
  <2>1. s.conn[c] \in Connection /\ Owned(s.conn[c].send_buffer, c) /\ Owned(s.conn[c].resps, c)
    BY StateForm DEF Good, OwnInv
  <2>2. /\ k \in Connection /\ k.state = s.conn[c].state /\ k.fd = s.conn[c].fd
        /\ k.send_buffer = s.conn[c].send_buffer /\ k.resps = s.conn[c].resps
    BY <2>1 DEF Connection
  <2>3. Kept(s, [s EXCEPT !.conn[c] = k], c)
    BY <2>1, <2>2, KeptConn
  <2>4. t = [s EXCEPT !.conn[c] = k]
    OBVIOUS
  <2>5. t.table = s.table
    BY DEF Good, States
  <2> QED
    BY <2>3, <2>4, <2>5
<1> HIDE DEF t
<1>2. Good(t) /\ t.conn[c].state = "open"
  BY <1>1 DEF Kept
<1>3. Kept(t, u, c)
  BY <1>2, PerformSendGood
<1>4. Kept(s, u, c)
  BY <1>1, <1>3, KeptTwice
<1>5. f \in Fds
  BY DEF Good, TableInv
<1> HIDE DEF u, f
<1>6. Good(u) /\ u.conn[c].state = "open"
  BY <1>4 DEF Kept
<1>7. Kept(u, [u EXCEPT !.loop = "undefined"], c)
  <2> DEFINE v == [u EXCEPT !.loop = "undefined"]
  <2>1. Good(v)
    BY <1>6, GoodLoop
  <2>2. v.conn = u.conn /\ v.rq = u.rq /\ v.cq = u.cq
    BY <1>6 DEF Good, States
  <2> HIDE DEF v
  <2>3. Kept(u, v, c)
    BY <2>1, <2>2 DEF Kept
  <2> QED
    BY <2>3 DEF v
<1>8. Kept(u, Erase(u, {f}), c)
  BY <1>5, <1>6, EraseGood
<1>9. Kept(u, enableEvents(u, f), c)
  BY <1>5, <1>6, EnableEventsGood
<1>10. Kept(u, HandleWaitingRequests(u, c), c)
  BY <1>6, HandleWaitingGood
<1>11. Kept(u, HandleWaitingRequests(enableEvents(u, f), c), c)
  <2> DEFINE v == enableEvents(u, f)
  <2>1. Good(v) /\ v.conn[c].state = "open"
    BY <1>6, <1>9 DEF Kept
  <2> HIDE DEF v
  <2>2. Kept(v, HandleWaitingRequests(v, c), c)
    BY <2>1, HandleWaitingGood
  <2> QED
    BY <1>9, <2>2, KeptTwice DEF v
<1>12. \/ handleResponse(s, c, o) = [u EXCEPT !.loop = "undefined"]
       \/ handleResponse(s, c, o) = Erase(u, {f})
       \/ handleResponse(s, c, o) = HandleWaitingRequests(u, c)
       \/ handleResponse(s, c, o) = HandleWaitingRequests(enableEvents(u, f), c)
  BY DEF handleResponse, t, u, f
<1>13. Kept(u, handleResponse(s, c, o), c)
  BY <1>7, <1>8, <1>10, <1>11, <1>12
<1> QED
  BY <1>4, <1>13, KeptTwice

\* An object that nobody refers to goes.
LEMMA DestroyGood ==
  ASSUME NEW s, Good(s)
  PROVE  Good(Destroy(s))
<1> DEFINE t == Destroy(s)
           gone == {c \in Conns : s.conn[c].state = "open" /\ ~Referenced(s, c) /\ s.loop # "undefined"}
           G(c) == [NewConn(s.conn[c].fd) EXCEPT !.state = "gone"]
<1>1. s \in States
  BY DEF Good
<1>2. \A c \in Conns : s.conn[c] \in Connection
  BY <1>1, StateForm
<1>3. \A c \in Conns : /\ G(c) \in Connection /\ G(c).state = "gone"
                       /\ Owned(G(c).send_buffer, c) /\ Owned(G(c).resps, c)
  <2> SUFFICES ASSUME NEW c \in Conns
               PROVE  /\ G(c) \in Connection /\ G(c).state = "gone"
                      /\ Owned(G(c).send_buffer, c) /\ Owned(G(c).resps, c)
    OBVIOUS
  <2>1. s.conn[c].fd \in Fds \cup {listen}
    BY <1>2 DEF Connection
  <2>2. <<>> \in Seq(Request) /\ <<>> \in Seq(Response) /\ Owned(<<>>, c)
    BY DEF Owned
  <2> QED
    BY <2>1, <2>2 DEF NewConn, Connection
<1>4. t = [s EXCEPT !.conn = [c \in Conns |-> IF c \in gone THEN G(c) ELSE s.conn[c]]]
  BY DEF Destroy
<1> HIDE DEF t, gone, G
<1>5. [c \in Conns |-> IF c \in gone THEN G(c) ELSE s.conn[c]] \in [Conns -> Connection]
  BY <1>2, <1>3
<1>6. /\ t \in States
      /\ t.client = s.client /\ t.table = s.table /\ t.watch = s.watch
      /\ t.rq = s.rq /\ t.cq = s.cq /\ t.jobs = s.jobs
      /\ \A c \in Conns : t.conn[c] = IF c \in gone THEN G(c) ELSE s.conn[c]
  BY <1>1, <1>4, <1>5 DEF States
<1>7. /\ \A f \in Fds : s.table[f] \notin gone
      /\ \A i \in DOMAIN s.rq : s.rq[i].conn \notin gone
      /\ \A i \in DOMAIN s.cq : s.cq[i].conn \notin gone
      /\ \A j \in s.jobs : j.conn \notin gone
  BY DEF gone, Referenced
<1>8. s.table \in [Fds -> Conns \cup {NoConn}]
  BY <1>1, StateForm
<1>9. TableInv(t)
  BY <1>3, <1>6, <1>7, <1>8 DEF Good, TableInv
<1>10. OwnInv(t)
  <2>1. /\ \A i \in DOMAIN s.rq : s.rq[i].conn \in Conns
        /\ \A i \in DOMAIN s.cq : s.cq[i].conn \in Conns
        /\ \A j \in s.jobs : j.conn \in Conns
    BY <1>1, Referred
  <2>2. QueueInv(t, t.rq) /\ QueueInv(t, t.cq)
    BY <1>6, <1>7, <2>1 DEF Good, OwnInv, QueueInv
  <2>3. \A j \in t.jobs : t.conn[j.conn].state = "open"
    BY <1>6, <1>7, <2>1 DEF Good, OwnInv
  <2>4. \A d \in Conns : /\ Owned(t.client[d].got, d) /\ Owned(t.conn[d].send_buffer, d)
                         /\ Owned(t.conn[d].resps, d)
    BY <1>3, <1>6 DEF Good, OwnInv
  <2> QED
    BY <2>2, <2>3, <2>4 DEF OwnInv
<1> QED
  BY <1>6, <1>9, <1>10 DEF Good, t

\* The end of a step of the server.
LEMMA BecomeGood ==
  ASSUME NEW s, Good(s), Become(s)
  PROVE  Good(Here')
<1>1. Good(Destroy(s))
  BY DestroyGood
<1> DEFINE d == Destroy(s)
<1>2. /\ client' = d.client /\ conn' = d.conn /\ table' = d.table /\ watch' = d.watch
      /\ edge' = d.edge /\ resp_queue' = d.rq /\ custom_resp_queue' = d.cq
      /\ jobs' = d.jobs /\ loop' = d.loop
  BY DEF Become
<1> HIDE DEF d
<1>3. d = [client |-> d.client, conn |-> d.conn, table |-> d.table, watch |-> d.watch,
           edge |-> d.edge, rq |-> d.rq, cq |-> d.cq, jobs |-> d.jobs, loop |-> d.loop]
  BY <1>1 DEF Good, States, d
<1>4. Here' = d
  BY <1>2, <1>3 DEF Here
<1> QED
  BY <1>1, <1>4 DEF d

-------------------------------------------------------------------------------
(* The steps of the loop. *)

\* The fields of Here are the variables.
LEMMA HereForm ==
  /\ Here.client = client /\ Here.conn = conn /\ Here.table = table /\ Here.watch = watch
  /\ Here.edge = edge /\ Here.rq = resp_queue /\ Here.cq = custom_resp_queue
  /\ Here.jobs = jobs /\ Here.loop = loop
BY DEF Here

\* An edge has been reported.
LEMMA SeenGood ==
  ASSUME NEW s, Good(s), NEW e \in SUBSET (Fds \cup {listen})
  PROVE  LET t == [s EXCEPT !.edge = e] IN
         Good(t) /\ t.conn = s.conn /\ t.table = s.table /\ t.client = s.client
<1> DEFINE t == [s EXCEPT !.edge = e]
<1>1. /\ t \in States
      /\ t.client = s.client /\ t.conn = s.conn /\ t.table = s.table /\ t.watch = s.watch
      /\ t.rq = s.rq /\ t.cq = s.cq /\ t.jobs = s.jobs
  BY DEF Good, States
<1> HIDE DEF t
<1>2. Good(t)
  BY <1>1, GoodFrame DEF Good, OwnInv
<1> QED
  BY <1>1, <1>2 DEF t

\* A connection out of the backlog takes a free descriptor.
LEMMA AcceptGood ==
  ASSUME NEW s, Good(s), NEW c \in Conns, s.conn[c].state = "backlog", NEW f \in Fds,
         \A d \in Conns : s.conn[d].state = "open" => s.conn[d].fd # f,
         NEW e \in SUBSET (Fds \cup {listen})
  PROVE  Good([s EXCEPT !.conn[c] = NewConn(f), !.table[f] = c, !.watch[f] = "edge in", !.edge = e])
<1> DEFINE n == NewConn(f)
           t == [s EXCEPT !.conn[c] = n, !.table[f] = c, !.watch[f] = "edge in", !.edge = e]
<1>1. /\ n \in Connection /\ n.state = "open" /\ n.fd = f
      /\ Owned(n.send_buffer, c) /\ Owned(n.resps, c)
  <2>1. <<>> \in Seq(Request) /\ <<>> \in Seq(Response) /\ Owned(<<>>, c)
    BY DEF Owned
  <2> QED
    BY <2>1 DEF NewConn, Connection
<1> HIDE DEF n
<1>2. /\ t \in States
      /\ t.client = s.client /\ t.rq = s.rq /\ t.cq = s.cq /\ t.jobs = s.jobs
      /\ \A d \in Conns : t.conn[d] = IF d = c THEN n ELSE s.conn[d]
      /\ \A g \in Fds : /\ t.table[g] = IF g = f THEN c ELSE s.table[g]
                        /\ t.watch[g] = IF g = f THEN "edge in" ELSE s.watch[g]
  BY <1>1 DEF Good, States
<1> HIDE DEF t
<1>3. s.table \in [Fds -> Conns \cup {NoConn}]
  BY StateForm DEF Good
<1>4. \A g \in Fds : s.table[g] # c
  BY HttpServerAssumption DEF Good, TableInv
<1>5. TableInv(t)
  <2>1. TableInv(s) /\ NoConn \notin Conns
    BY HttpServerAssumption DEF Good
  <2>2. ASSUME NEW g \in Fds
        PROVE  /\ t.table[g] # NoConn <=> t.watch[g] # "nothing"
               /\ t.table[g] # NoConn =>
                    t.conn[t.table[g]].state = "open" /\ t.conn[t.table[g]].fd = g
    <3>1. CASE g = f
      BY <1>1, <1>2, <2>1, <3>1
    <3>2. CASE g # f
      <4>1. t.table[g] = s.table[g] /\ t.watch[g] = s.watch[g]
        BY <1>2, <3>2
      <4>2. s.table[g] # NoConn => s.table[g] \in Conns /\ t.conn[s.table[g]] = s.conn[s.table[g]]
        BY <1>2, <1>3, <1>4
      <4> QED
        BY <2>1, <4>1, <4>2 DEF TableInv
    <3> QED
      BY <3>1, <3>2
  <2>3. \A d \in Conns : t.conn[d].state = "open" => t.conn[d].fd \in Fds
    BY <1>1, <1>2, ZenonT(60) DEF Good, TableInv
  <2>4. ASSUME NEW a \in Conns, NEW b \in Conns, t.conn[a].state = "open", t.conn[b].state = "open",
               t.conn[a].fd = t.conn[b].fd
        PROVE  a = b
    <3>1. CASE a # c /\ b # c
      <4>1. t.conn[a] = s.conn[a] /\ t.conn[b] = s.conn[b]
        BY <1>2, <3>1
      <4> QED
        BY <2>1, <2>4, <4>1 DEF TableInv
    <3>2. \A d \in Conns : d # c => t.conn[d] = s.conn[d]
      BY <1>2
    <3>3. t.conn[c].fd = f
      BY <1>1, <1>2
    <3> QED
      BY <2>4, <3>1, <3>2, <3>3
  <2> QED
    BY <2>2, <2>3, <2>4 DEF TableInv
<1>6. OwnInv(t)
  <2>1. /\ \A i \in DOMAIN s.rq : s.rq[i].conn \in Conns /\ s.rq[i].conn # c
        /\ \A i \in DOMAIN s.cq : s.cq[i].conn \in Conns /\ s.cq[i].conn # c
        /\ \A j \in s.jobs : j.conn \in Conns /\ j.conn # c
    BY Referred DEF Good, OwnInv, QueueInv
  <2>2. QueueInv(t, t.rq) /\ QueueInv(t, t.cq)
    <3>1. \A d \in Conns : d # c => t.conn[d] = s.conn[d]
      BY <1>2
    <3>2. QueueInv(s, s.rq) /\ QueueInv(s, s.cq)
      BY DEF Good, OwnInv
    <3>3. QueueInv(t, s.rq)
      BY <2>1, <3>1, <3>2 DEF QueueInv
    <3>4. QueueInv(t, s.cq)
      BY <2>1, <3>1, <3>2 DEF QueueInv
    <3> QED
      BY <1>2, <3>3, <3>4
  <2>3. \A j \in t.jobs : t.conn[j.conn].state = "open"
    BY <1>2, <2>1 DEF Good, OwnInv
  <2>4. \A d \in Conns : /\ Owned(t.client[d].got, d) /\ Owned(t.conn[d].send_buffer, d)
                         /\ Owned(t.conn[d].resps, d)
    BY <1>1, <1>2 DEF Good, OwnInv
  <2> QED
    BY <2>2, <2>3, <2>4 DEF OwnInv
<1> QED
  BY <1>2, <1>5, <1>6 DEF Good, t, n

LEMMA OnAcceptGood ==
  ASSUME Good(Here), onAccept
  PROVE  Good(Here')
<1> DEFINE waiting == {c \in Conns : conn[c].state = "backlog"}
           free    == {f \in Fds : \A c \in Conns : conn[c].state = "open" => conn[c].fd # f}
<1>1. edge \in SUBSET (Fds \cup {listen})
  BY HereForm, StateForm DEF Good
<1>2. CASE waiting = {} \/ free = {}
  <2> DEFINE t == [Here EXCEPT !.edge = edge \ {listen}]
  <2>1. Become(t)
    BY <1>2, HereForm DEF onAccept
  <2>2. Good(t)
    BY <1>1, SeenGood
  <2> HIDE DEF t
  <2> QED
    BY <2>1, <2>2, BecomeGood
<1>3. CASE ~(waiting = {} \/ free = {})
  <2> DEFINE f == Min(free)
             e(c) == IF client[c].arrived # <<>> \/ client[c].closed THEN edge \cup {f} ELSE edge
             t(c) == [Here EXCEPT !.conn[c] = NewConn(f), !.table[f] = c, !.watch[f] = "edge in",
                                  !.edge = e(c)]
  <2>1. PICK c \in waiting : Become(t(c))
    BY <1>3, HereForm DEF onAccept
  <2>2. f \in free
    <3>1. free \in SUBSET Nat
      BY HttpServerAssumption
    <3> HIDE DEF free
    <3> QED
      BY <1>3, <3>1, MinForm
  <2> HIDE DEF f
  <2>3. /\ c \in Conns /\ Here.conn[c].state = "backlog" /\ f \in Fds
        /\ \A d \in Conns : Here.conn[d].state = "open" => Here.conn[d].fd # f
    BY <2>2, HereForm
  <2>4. e(c) \in SUBSET (Fds \cup {listen})
    BY <1>1, <2>3
  <2> HIDE DEF e
  <2>5. Good(t(c))
    BY <2>3, <2>4, AcceptGood
  <2> HIDE DEF t
  <2> QED
    BY <2>1, <2>5, BecomeGood, SMTT(30)
<1> QED
  BY <1>2, <1>3

LEMMA OnReadGood ==
  ASSUME Good(Here), NEW f \in Fds, onRead(f)
  PROVE  Good(Here')
<1> DEFINE c    == table[f]
           seen == [Here EXCEPT !.edge = edge \ {f}]
           got  == performRecv(seen, c)
<1>1. \/ c = NoConn /\ Become(delSocket(seen, {f}))
      \/ c # NoConn /\ Become(Erase(got, {f}))
      \/ c # NoConn /\ Become(HandleWaitingRequests(got, c))
  BY HereForm DEF onRead
<1>2. Good(seen) /\ seen.conn = conn /\ seen.table = table
  <2>1. edge \ {f} \in SUBSET (Fds \cup {listen})
    BY HereForm, StateForm DEF Good
  <2> DEFINE e == edge \ {f}
  <2> HIDE DEF e
  <2> QED
    BY <2>1, HereForm, SeenGood DEF e
<1> HIDE DEF seen
<1>3. c \in Conns \cup {NoConn} /\ (c # NoConn => conn[c].state = "open" /\ conn[c].fd = f)
  <2>1. seen.table \in [Fds -> Conns \cup {NoConn}] /\ TableInv(seen)
    BY <1>2, StateForm DEF Good
  <2>2. table \in [Fds -> Conns \cup {NoConn}]
    BY <1>2, <2>1
  <2> QED
    BY <1>2, <2>1, <2>2 DEF TableInv
<1>4. CASE c = NoConn /\ Become(delSocket(seen, {f}))
  <2>1. Good(delSocket(seen, {f}))
    BY <1>2, <1>4, DelSocketGood
  <2> QED
    BY <1>4, <2>1, BecomeGood
<1>5. CASE c # NoConn
  <2>1. c \in Conns
    BY <1>3, <1>5
  <2> HIDE DEF c
  <2>2. Kept(seen, got, c)
    BY <1>2, <2>1, PerformRecvGood
  <2> HIDE DEF got
  <2>3. Good(got) /\ got.conn[c].state = "open"
    BY <1>2, <1>3, <1>5, <2>2 DEF Kept
  <2>4. Good(Erase(got, {f}))
    BY <2>3, EraseGood
  <2>5. Good(HandleWaitingRequests(got, c))
    BY <2>1, <2>3, HandleWaitingGood DEF Kept
  <2> QED
    BY <1>1, <1>5, <2>4, <2>5, BecomeGood
<1> QED
  BY <1>1, <1>4, <1>5

LEMMA OnWriteGood ==
  ASSUME Good(Here), NEW f \in Fds, onWrite(f)
  PROVE  Good(Here')
<1> DEFINE c == table[f]
<1>1. PICK o \in Outcomes : \/ Become(Erase(performSend(Here, c, o).s, {f}))
                            \/ Become(performSend(Here, c, o).s)
  BY DEF onWrite
<1>2. c \in Conns
  <2>1. table \in [Fds -> Conns \cup {NoConn}]
    BY HereForm, StateForm DEF Good
  <2> QED
    BY <2>1 DEF onWrite
<1> HIDE DEF c
<1>3. Kept(Here, performSend(Here, c, o).s, c)
  BY <1>2, PerformSendGood
<1> DEFINE t == performSend(Here, c, o).s
<1>4. Good(t)
  BY <1>3 DEF Kept
<1> HIDE DEF t
<1>5. Good(Erase(t, {f}))
  BY <1>4, EraseGood
<1>6. Become(Erase(t, {f})) \/ Become(t)
  BY <1>1 DEF t
<1> QED
  BY <1>4, <1>5, <1>6, BecomeGood

\* The first answer of a queue leaves it.
LEMMA PopGood ==
  ASSUME NEW s, Good(s)
  PROVE  /\ s.rq # <<>> => Good([s EXCEPT !.rq = Tail(@)])
         /\ s.cq # <<>> => Good([s EXCEPT !.cq = Tail(@)])
<1> DEFINE E == [conn : Conns, resp : Response]
<1>1. ASSUME NEW q \in Seq(E), q # <<>>, QueueInv(s, q)
      PROVE  Tail(q) \in Seq(E) /\ QueueInv(s, Tail(q))
  <2> HIDE DEF E
  <2>1. /\ Tail(q) \in Seq(E) /\ Len(q) \in Nat \ {0} /\ Len(Tail(q)) = Len(q) - 1
        /\ \A i \in 1 .. Len(Tail(q)) : Tail(q)[i] = q[i + 1]
    BY <1>1, QueuePop
  <2>2. DOMAIN q = 1 .. Len(q) /\ DOMAIN Tail(q) = 1 .. Len(Tail(q))
    BY <1>1, <2>1
  <2>3. \A i \in DOMAIN Tail(q) : i + 1 \in DOMAIN q
    BY <2>1, <2>2
  <2> QED
    BY <1>1, <2>1, <2>2, <2>3 DEF QueueInv
<1>2. s \in States /\ s.rq \in Seq(E) /\ s.cq \in Seq(E) /\ QueueInv(s, s.rq) /\ QueueInv(s, s.cq)
  BY StateForm DEF Good, OwnInv
<1>3. ASSUME s.rq # <<>> PROVE Good([s EXCEPT !.rq = Tail(@)])
  <2> DEFINE p == Tail(s.rq)
             t == [s EXCEPT !.rq = p]
  <2>1. p \in Seq(E) /\ QueueInv(s, p)
    BY <1>1, <1>2, <1>3
  <2> HIDE DEF p
  <2>2. /\ t \in States
        /\ t.client = s.client /\ t.conn = s.conn /\ t.table = s.table /\ t.watch = s.watch
        /\ t.rq = p /\ t.cq = s.cq /\ t.jobs = s.jobs
    BY <1>2, <2>1 DEF States
  <2> HIDE DEF t
  <2>3. Good(t)
    BY <1>2, <2>1, <2>2, GoodFrame DEF Good, OwnInv
  <2> QED
    BY <2>3 DEF t, p
<1>4. ASSUME s.cq # <<>> PROVE Good([s EXCEPT !.cq = Tail(@)])
  <2> DEFINE p == Tail(s.cq)
             t == [s EXCEPT !.cq = p]
  <2>1. p \in Seq(E) /\ QueueInv(s, p)
    BY <1>1, <1>2, <1>4
  <2> HIDE DEF p
  <2>2. /\ t \in States
        /\ t.client = s.client /\ t.conn = s.conn /\ t.table = s.table /\ t.watch = s.watch
        /\ t.cq = p /\ t.rq = s.rq /\ t.jobs = s.jobs
    BY <1>2, <2>1 DEF States
  <2> HIDE DEF t
  <2>3. Good(t)
    BY <1>2, <2>1, <2>2, GoodFrame DEF Good, OwnInv
  <2> QED
    BY <2>3 DEF t, p
<1> QED
  BY <1>3, <1>4

\* The first answer of a queue is one for an open connection.
LEMMA HeadGood ==
  ASSUME NEW s, Good(s), NEW q \in Seq([conn : Conns, resp : Response]), q # <<>>, QueueInv(s, q)
  PROVE  /\ Head(q).conn \in Conns /\ Head(q).resp \in Response
         /\ Head(q).resp.to = Head(q).conn /\ s.conn[Head(q).conn].state = "open"
<1> DEFINE r == Head(q)
<1>1. r \in [conn : Conns, resp : Response] /\ r = q[1] /\ Len(q) \in Nat \ {0}
  BY QueuePop
<1>2. DOMAIN q = 1 .. Len(q)
  OBVIOUS
<1>3. 1 \in DOMAIN q
  BY <1>1, <1>2
<1> HIDE DEF r
<1>4. r.conn \in Conns /\ r.resp \in Response /\ r.resp.to = r.conn /\ s.conn[r.conn].state = "open"
  BY <1>1, <1>3 DEF QueueInv
<1> QED
  BY <1>4 DEF r

\* An open connection gets an answer of its own.
LEMMA AddResponseGood ==
  ASSUME NEW s, Good(s), NEW c \in Conns, NEW e \in Response, e.to = c
  PROVE  Kept(s, addResponse(s, c, e), c)
<1> DEFINE k == [s.conn[c] EXCEPT !.resps = Append(@, e)]
           t == [s EXCEPT !.conn[c] = k]
<1>1. s.conn[c] \in Connection /\ Owned(s.conn[c].send_buffer, c) /\ Owned(s.conn[c].resps, c)
  BY StateForm DEF Good, OwnInv
<1>2. s.conn[c].resps \in Seq(Response)
  BY <1>1 DEF Connection
<1>3. Append(s.conn[c].resps, e) \in Seq(Response) /\ Owned(Append(s.conn[c].resps, e), c)
  BY <1>1, <1>2, OwnedQueue
<1>4. /\ k \in Connection /\ k.state = s.conn[c].state /\ k.fd = s.conn[c].fd
      /\ Owned(k.send_buffer, c) /\ Owned(k.resps, c)
  BY <1>1, <1>3 DEF Connection
<1>5. Kept(s, t, c)
  BY <1>4, KeptConn
<1>6. addResponse(s, c, e) = t
  BY DEF addResponse
<1> QED
  BY <1>5, <1>6

\* What an open connection does with it.
LEMMA AnswerGood ==
  ASSUME NEW s, Good(s), NEW c \in Conns, s.conn[c].state = "open", NEW e \in Response, e.to = c,
         NEW o \in Outcomes
  PROVE  Good(handleResponse(addResponse(s, c, e), c, o))
<1> DEFINE t == addResponse(s, c, e)
<1>1. Good(t) /\ t.conn[c].state = "open"
  BY AddResponseGood DEF Kept
<1> HIDE DEF t
<1>2. Good(handleResponse(t, c, o))
  BY <1>1, HandleResponseGood DEF Kept
<1> QED
  BY <1>2 DEF t

LEMMA NextResponseGood ==
  ASSUME Good(Here), NextResponse
  PROVE  Good(Here')
<1> DEFINE r == Head(resp_queue)
           p == [Here EXCEPT !.rq = Tail(@)]
<1>1. PICK o \in Outcomes : Become(handleResponse(addResponse(p, r.conn, r.resp), r.conn, o))
  BY DEF NextResponse
<1>2. /\ resp_queue \in Seq([conn : Conns, resp : Response]) /\ QueueInv(Here, resp_queue)
      /\ resp_queue # <<>> /\ Here.rq # <<>>
  BY HereForm, StateForm DEF Good, OwnInv, NextResponse
<1>3. /\ r.conn \in Conns /\ r.resp \in Response /\ r.resp.to = r.conn
      /\ Here.conn[r.conn].state = "open"
  BY <1>2, HeadGood
<1>4. Good(p) /\ p.conn = Here.conn
  <2>1. Good(p)
    BY <1>2, PopGood
  <2> QED
    BY <2>1 DEF Good, States
<1> HIDE DEF r, p
<1>5. Good(handleResponse(addResponse(p, r.conn, r.resp), r.conn, o))
  BY <1>3, <1>4, AnswerGood
<1> QED
  BY <1>1, <1>5, BecomeGood

LEMMA NextCustomResponseGood ==
  ASSUME Good(Here), NextCustomResponse
  PROVE  Good(Here')
<1> DEFINE r == Head(custom_resp_queue)
           p == [Here EXCEPT !.cq = Tail(@)]
<1>1. PICK o \in Outcomes : Become(handleResponse(addResponse(p, r.conn, r.resp), r.conn, o))
  BY DEF NextCustomResponse
<1>2. /\ custom_resp_queue \in Seq([conn : Conns, resp : Response])
      /\ QueueInv(Here, custom_resp_queue)
      /\ custom_resp_queue # <<>> /\ Here.cq # <<>>
  BY HereForm, StateForm DEF Good, OwnInv, NextCustomResponse
<1>3. /\ r.conn \in Conns /\ r.resp \in Response /\ r.resp.to = r.conn
      /\ Here.conn[r.conn].state = "open"
  BY <1>2, HeadGood
<1>4. Good(p) /\ p.conn = Here.conn
  <2>1. Good(p)
    BY <1>2, PopGood
  <2> QED
    BY <2>1 DEF Good, States
<1> HIDE DEF r, p
<1>5. Good(handleResponse(addResponse(p, r.conn, r.resp), r.conn, o))
  BY <1>3, <1>4, AnswerGood
<1> QED
  BY <1>1, <1>5, BecomeGood

\* Nothing but where the loop is changes.
LEMMA LoopOnlyGood ==
  ASSUME Good(Here), loop' \in {"events", "answers", "stuck", "undefined"},
         UNCHANGED <<client, conn, table, watch, edge, resp_queue, custom_resp_queue, jobs>>
  PROVE  Good(Here')
<1>1. Here' = [Here EXCEPT !.loop = loop']
  BY DEF Here
<1> QED
  BY <1>1, GoodLoop

LEMMA CleanUpGood ==
  ASSUME Good(Here), cleanUpDeadConnections
  PROVE  Good(Here')
<1>1. CASE Become([Erase(Here, Dead) EXCEPT !.loop = "events"])
  <2>1. Dead \in SUBSET Fds
    BY DEF Dead
  <2> DEFINE t == Erase(Here, Dead)
  <2>2. Good(t)
    BY <2>1, EraseGood
  <2> HIDE DEF t
  <2>3. Good([t EXCEPT !.loop = "events"])
    BY <2>2, GoodLoop
  <2> QED
    BY <1>1, <2>3, BecomeGood DEF t
<1>2. CASE /\ loop' = "undefined"
           /\ UNCHANGED <<client, conn, table, watch, edge, resp_queue, custom_resp_queue, jobs>>
  BY <1>2, LoopOnlyGood
<1> QED
  BY <1>1, <1>2 DEF cleanUpDeadConnections

-------------------------------------------------------------------------------
(* The steps of other threads and of the clients. *)

\* An object in nobody's use is closed, or goes, or is in the backlog.
LEMMA GoodOther ==
  ASSUME NEW s, Good(s), NEW c \in Conns, NEW k \in Connection, k.state # "open",
         Owned(k.send_buffer, c), Owned(k.resps, c),
         \A f \in Fds : s.table[f] # c,
         \A i \in DOMAIN s.rq : s.rq[i].conn # c,
         \A i \in DOMAIN s.cq : s.cq[i].conn # c,
         \A j \in s.jobs : j.conn # c
  PROVE  Good([s EXCEPT !.conn[c] = k])
<1> DEFINE t == [s EXCEPT !.conn[c] = k]
<1>1. /\ t \in States /\ t.conn[c] = k
      /\ \A d \in Conns : d # c => t.conn[d] = s.conn[d]
      /\ t.client = s.client /\ t.table = s.table /\ t.watch = s.watch /\ t.edge = s.edge
      /\ t.rq = s.rq /\ t.cq = s.cq /\ t.jobs = s.jobs /\ t.loop = s.loop
  BY PutConn DEF Good
<1> HIDE DEF t
<1>2. s.table \in [Fds -> Conns \cup {NoConn}] /\ TableInv(s)
  BY StateForm DEF Good
<1>3. TableInv(t)
  BY <1>1, <1>2 DEF TableInv
<1>4. OwnInv(t)
  <2>1. /\ \A i \in DOMAIN s.rq : s.rq[i].conn \in Conns
        /\ \A i \in DOMAIN s.cq : s.cq[i].conn \in Conns
        /\ \A j \in s.jobs : j.conn \in Conns
    BY Referred DEF Good
  <2>2. QueueInv(t, t.rq) /\ QueueInv(t, t.cq)
    BY <1>1, <2>1 DEF Good, OwnInv, QueueInv
  <2>3. \A j \in t.jobs : t.conn[j.conn].state = "open"
    BY <1>1, <2>1 DEF Good, OwnInv
  <2>4. \A d \in Conns : /\ Owned(t.client[d].got, d) /\ Owned(t.conn[d].send_buffer, d)
                         /\ Owned(t.conn[d].resps, d)
    BY <1>1 DEF Good, OwnInv
  <2> QED
    BY <2>2, <2>3, <2>4 DEF OwnInv
<1> QED
  BY <1>1, <1>3, <1>4 DEF Good, t

\* A connection that is not open is in nobody's use.
LEMMA Unused ==
  ASSUME NEW s, Good(s), NEW c \in Conns, s.conn[c].state # "open"
  PROVE  /\ \A f \in Fds : s.table[f] # c
         /\ \A i \in DOMAIN s.rq : s.rq[i].conn # c
         /\ \A i \in DOMAIN s.cq : s.cq[i].conn # c
         /\ \A j \in s.jobs : j.conn # c
<1>1. NoConn \notin Conns
  BY HttpServerAssumption
<1> QED
  BY <1>1 DEF Good, TableInv, OwnInv, QueueInv

LEMMA OnAsyncCallDoneGood ==
  ASSUME Good(Here), NEW j \in jobs, onAsyncCallDone(j)
  PROVE  Good(Here')
<1> DEFINE c == j.conn
           t == onSendResponse(Here, c, j.n)
           s == [t EXCEPT !.jobs = @ \ {j}]
           k == [s.conn[c] EXCEPT !.state = "closed"]
           u == [s EXCEPT !.conn[c] = k]
<1>1. c \in Conns /\ j.n \in Nat /\ Here.conn[c].state = "open"
  <2>1. jobs \in SUBSET [conn : Conns, n : Nat]
    BY HereForm, StateForm DEF Good
  <2>2. j \in [conn : Conns, n : Nat]
    BY <2>1
  <2> QED
    BY <2>2, HereForm DEF Good, OwnInv
<1> HIDE DEF c
<1>2. Good(t)
  BY <1>1, SendResponseGood DEF Kept
<1> HIDE DEF t
<1>3. Good(s)
  <2>1. /\ s \in States
        /\ s.client = t.client /\ s.conn = t.conn /\ s.table = t.table /\ s.watch = t.watch
        /\ s.rq = t.rq /\ s.cq = t.cq /\ s.jobs = t.jobs \ {j}
    BY <1>2 DEF Good, States
  <2> HIDE DEF s
  <2> QED
    BY <1>2, <2>1, GoodFrame DEF Good, OwnInv
<1> HIDE DEF s
<1>4. /\ Referenced(s, c) => Become(s)
      /\ ~Referenced(s, c) => Become([s EXCEPT !.conn[c].state = "closed"])
  BY DEF onAsyncCallDone, c, t, s
<1>5. CASE Referenced(s, c)
  BY <1>3, <1>4, <1>5, BecomeGood
<1>6. CASE ~Referenced(s, c)
  <2>1. s.conn[c] \in Connection /\ Owned(s.conn[c].send_buffer, c) /\ Owned(s.conn[c].resps, c)
    BY <1>1, <1>3, StateForm DEF Good, OwnInv
  <2>2. /\ k \in Connection /\ k.state = "closed"
        /\ k.send_buffer = s.conn[c].send_buffer /\ k.resps = s.conn[c].resps
    BY <2>1 DEF Connection
  <2>3. /\ \A f \in Fds : s.table[f] # c
        /\ \A i \in DOMAIN s.rq : s.rq[i].conn # c
        /\ \A i \in DOMAIN s.cq : s.cq[i].conn # c
        /\ \A l \in s.jobs : l.conn # c
    BY <1>6 DEF Referenced
  <2> HIDE DEF k
  <2>4. Good(u)
    BY <1>1, <1>3, <2>1, <2>2, <2>3, GoodOther
  <2>5. u = [s EXCEPT !.conn[c].state = "closed"]
    BY DEF k
  <2> HIDE DEF u
  <2> QED
    BY <1>4, <1>6, <2>4, <2>5, BecomeGood
<1> QED
  BY <1>5, <1>6

\* What a step of a client, or of a thread that shuts a number down, may change.
LEMMA OutsideGood ==
  ASSUME Good(Here), Here' \in States, UNCHANGED <<table, watch, resp_queue, custom_resp_queue, jobs>>,
         \A c \in Conns : client'[c].got = client[c].got,
         \A c \in Conns : \/ /\ conn'[c].state = conn[c].state /\ conn'[c].fd = conn[c].fd
                             /\ conn'[c].send_buffer = conn[c].send_buffer
                             /\ conn'[c].resps = conn[c].resps
                          \/ /\ conn[c].state # "open" /\ conn'[c].state # "open"
                             /\ Owned(conn'[c].send_buffer, c) /\ Owned(conn'[c].resps, c)
  PROVE  Good(Here')
<1> DEFINE s == Here
           t == Here'
<1>1. /\ t.client = client' /\ t.conn = conn' /\ t.table = table /\ t.watch = watch
      /\ t.rq = resp_queue /\ t.cq = custom_resp_queue /\ t.jobs = jobs
  BY DEF Here
<1>2. /\ s.client = client /\ s.conn = conn /\ s.table = table /\ s.watch = watch
      /\ s.rq = resp_queue /\ s.cq = custom_resp_queue /\ s.jobs = jobs
  BY DEF Here
<1>3. Good(s) /\ t \in States
  OBVIOUS
<1> HIDE DEF s, t
<1>4. \A c \in Conns : \/ t.conn[c].state = s.conn[c].state /\ t.conn[c].fd = s.conn[c].fd
                       \/ s.conn[c].state # "open" /\ t.conn[c].state # "open"
  BY <1>1, <1>2
<1>5. s.table \in [Fds -> Conns \cup {NoConn}] /\ TableInv(s)
  BY <1>3, StateForm DEF Good
<1>6. TableInv(t)
  BY <1>1, <1>2, <1>4, <1>5 DEF TableInv
<1>7. OwnInv(t)
  <2>1. /\ \A i \in DOMAIN s.rq : s.rq[i].conn \in Conns
        /\ \A i \in DOMAIN s.cq : s.cq[i].conn \in Conns
        /\ \A j \in s.jobs : j.conn \in Conns
    BY <1>3, Referred DEF Good
  <2>2. QueueInv(t, t.rq) /\ QueueInv(t, t.cq)
    BY <1>1, <1>2, <1>3, <1>4, <2>1 DEF Good, OwnInv, QueueInv
  <2>3. \A j \in t.jobs : t.conn[j.conn].state = "open"
    BY <1>1, <1>2, <1>3, <1>4, <2>1 DEF Good, OwnInv
  <2>4. \A d \in Conns : Owned(t.client[d].got, d)
    BY <1>1, <1>2, <1>3 DEF Good, OwnInv
  <2>5. \A d \in Conns : Owned(t.conn[d].send_buffer, d) /\ Owned(t.conn[d].resps, d)
    BY <1>1, <1>2, <1>3 DEF Good, OwnInv
  <2> QED
    BY <2>2, <2>3, <2>4, <2>5 DEF OwnInv
<1> QED
  BY <1>3, <1>6, <1>7 DEF Good, t

\* The types of the variables, before a step and after it.
LEMMA HereType ==
  Here \in States <=>
    /\ client \in [Conns -> Client] /\ conn \in [Conns -> Connection]
    /\ table \in [Fds -> Conns \cup {NoConn}]
    /\ watch \in [Fds -> {"nothing", "edge in", "level out", "off"}]
    /\ edge \in SUBSET (Fds \cup {listen})
    /\ resp_queue \in Seq([conn : Conns, resp : Response])
    /\ custom_resp_queue \in Seq([conn : Conns, resp : Response])
    /\ jobs \in SUBSET [conn : Conns, n : Nat]
    /\ loop \in {"events", "answers", "stuck", "undefined"}
BY DEF Here, States

LEMMA NextType ==
  ASSUME Here \in States, UNCHANGED <<table, watch, resp_queue, custom_resp_queue, jobs, loop>>,
         client' \in [Conns -> Client], conn' \in [Conns -> Connection],
         edge' \in SUBSET (Fds \cup {listen})
  PROVE  Here' \in States
<1>1. /\ table \in [Fds -> Conns \cup {NoConn}]
      /\ watch \in [Fds -> {"nothing", "edge in", "level out", "off"}]
      /\ resp_queue \in Seq([conn : Conns, resp : Response])
      /\ custom_resp_queue \in Seq([conn : Conns, resp : Response])
      /\ jobs \in SUBSET [conn : Conns, n : Nat]
      /\ loop \in {"events", "answers", "stuck", "undefined"}
  BY HereType
<1> QED
  BY <1>1 DEF Here, States

LEMMA ReadableForm ==
  ASSUME NEW cs, edge \in SUBSET (Fds \cup {listen})
  PROVE  Readable(edge, cs) \in SUBSET (Fds \cup {listen})
BY DEF Readable

LEMMA ConnectGood ==
  ASSUME Good(Here), NEW c \in Conns, Connect(c)
  PROVE  Good(Here')
<1>1. /\ client \in [Conns -> Client] /\ conn \in [Conns -> Connection]
      /\ edge \in SUBSET (Fds \cup {listen}) /\ Here \in States
  BY HereType DEF Good
<1> DEFINE k == [conn[c] EXCEPT !.state = "backlog"]
<1>2. /\ conn[c].state = "none" /\ conn' = [conn EXCEPT ![c] = k] /\ edge' = edge \cup {listen}
      /\ UNCHANGED <<client, table, watch, resp_queue, custom_resp_queue, jobs, loop>>
  BY DEF Connect
<1>3. /\ k \in Connection /\ k.state = "backlog"
      /\ k.send_buffer = conn[c].send_buffer /\ k.resps = conn[c].resps
  BY <1>1 DEF Connection
<1> HIDE DEF k
<1>4. conn' \in [Conns -> Connection] /\ edge' \in SUBSET (Fds \cup {listen})
  BY <1>1, <1>2, <1>3
<1>5. Here' \in States
  BY <1>1, <1>2, <1>4, NextType
<1>6. Owned(conn[c].send_buffer, c) /\ Owned(conn[c].resps, c)
  BY HereForm DEF Good, OwnInv
<1>7. \A d \in Conns : conn'[d] = IF d = c THEN k ELSE conn[d]
  BY <1>1, <1>2
<1> QED
  BY <1>2, <1>3, <1>5, <1>6, <1>7, OutsideGood

LEMMA AskGood ==
  ASSUME Good(Here), NEW c \in Conns, NEW kind \in Kinds, Ask(c, kind)
  PROVE  Good(Here')
<1>1. /\ client \in [Conns -> Client] /\ conn \in [Conns -> Connection]
      /\ edge \in SUBSET (Fds \cup {listen}) /\ Here \in States
  BY HereType DEF Good
<1> DEFINE m == client[c]
           as == Append(m.asked, kind)
           ar == Append(m.arrived, [n |-> Len(m.asked) + 1, kind |-> kind])
           b  == m.binary \/ kind = "upgrade"
           e  == m.early \/ Len(m.got) < Len(m.asked)
           l  == [m EXCEPT !.asked = as, !.arrived = ar, !.binary = b, !.early = e]
<1>2. /\ client' = [client EXCEPT ![c] = l] /\ edge' = Readable(edge, {c})
      /\ UNCHANGED <<conn, table, watch, resp_queue, custom_resp_queue, jobs, loop>>
  BY DEF Ask
<1>3. m \in Client /\ m.asked \in Seq(Kinds) /\ m.arrived \in Seq(Request)
  BY <1>1 DEF Client
<1>4. as \in Seq(Kinds) /\ ar \in Seq(Request)
  <2>1. [n |-> Len(m.asked) + 1, kind |-> kind] \in Request
    BY <1>3 DEF Request
  <2> QED
    BY <1>3, <2>1, QueuePush
<1>5. b \in BOOLEAN /\ e \in BOOLEAN
  BY <1>3 DEF Client
<1> HIDE DEF m, as, ar, b, e
<1>6. l \in Client /\ l.got = m.got
  BY <1>3, <1>4, <1>5 DEF Client
<1> HIDE DEF l
<1>7. client' \in [Conns -> Client] /\ \A d \in Conns : client'[d] = IF d = c THEN l ELSE client[d]
  BY <1>1, <1>2, <1>6
<1>8. edge' \in SUBSET (Fds \cup {listen})
  BY <1>1, <1>2, ReadableForm
<1>9. Here' \in States
  BY <1>1, <1>2, <1>7, <1>8, NextType
<1>10. \A d \in Conns : client'[d].got = client[d].got
  BY <1>6, <1>7 DEF m
<1> QED
  BY <1>2, <1>9, <1>10, OutsideGood

LEMMA HangupGood ==
  ASSUME Good(Here), NEW c \in Conns, Hangup(c)
  PROVE  Good(Here')
<1>1. /\ client \in [Conns -> Client] /\ conn \in [Conns -> Connection]
      /\ edge \in SUBSET (Fds \cup {listen}) /\ Here \in States
  BY HereType DEF Good
<1> DEFINE l == [client[c] EXCEPT !.closed = TRUE]
<1>2. /\ client' = [client EXCEPT ![c] = l] /\ edge' = Readable(edge, {c})
      /\ UNCHANGED <<conn, table, watch, resp_queue, custom_resp_queue, jobs, loop>>
  BY DEF Hangup
<1>3. l \in Client /\ l.got = client[c].got
  BY <1>1 DEF Client
<1> HIDE DEF l
<1>4. client' \in [Conns -> Client] /\ \A d \in Conns : client'[d] = IF d = c THEN l ELSE client[d]
  BY <1>1, <1>2, <1>3
<1>5. edge' \in SUBSET (Fds \cup {listen})
  BY <1>1, <1>2, ReadableForm
<1>6. Here' \in States
  BY <1>1, <1>2, <1>4, <1>5, NextType
<1>7. \A d \in Conns : client'[d].got = client[d].got
  BY <1>3, <1>4
<1> QED
  BY <1>2, <1>6, <1>7, OutsideGood

LEMMA GrowGood ==
  ASSUME Good(Here), NEW c \in Conns, Grow(c)
  PROVE  Good(Here')
<1>1. /\ client \in [Conns -> Client] /\ conn \in [Conns -> Connection]
      /\ edge \in SUBSET (Fds \cup {listen}) /\ Here \in States
  BY HereType DEF Good
<1> DEFINE a == IF conn[c].age = "young" THEN "old" ELSE "idle"
           k == [conn[c] EXCEPT !.age = a]
<1>2. /\ conn' = [conn EXCEPT ![c] = k]
      /\ UNCHANGED <<client, table, watch, edge, resp_queue, custom_resp_queue, jobs, loop>>
  BY DEF Grow
<1>3. /\ k \in Connection /\ k.state = conn[c].state /\ k.fd = conn[c].fd
      /\ k.send_buffer = conn[c].send_buffer /\ k.resps = conn[c].resps
  BY <1>1 DEF Connection
<1> HIDE DEF k
<1>4. conn' \in [Conns -> Connection] /\ \A d \in Conns : conn'[d] = IF d = c THEN k ELSE conn[d]
  BY <1>1, <1>2, <1>3
<1>5. Here' \in States
  BY <1>1, <1>2, <1>4, NextType
<1> QED
  BY <1>2, <1>3, <1>4, <1>5, OutsideGood

LEMMA ShutdownGood ==
  ASSUME Good(Here), NEW c \in Conns, Shutdown(c)
  PROVE  Good(Here')
<1>1. /\ client \in [Conns -> Client] /\ conn \in [Conns -> Connection]
      /\ edge \in SUBSET (Fds \cup {listen}) /\ Here \in States
  BY HereType DEF Good
<1> DEFINE others == {d \in Conns : conn[d].state = "open" /\ conn[d].fd = conn[c].fd}
           k == [NewConn(conn[c].fd) EXCEPT !.state = "gone"]
           l(d) == [client[d] EXCEPT !.shut = TRUE]
<1>2. /\ conn[c].state = "closed" /\ conn' = [conn EXCEPT ![c] = k]
      /\ client' = [d \in Conns |-> IF d \in others THEN l(d) ELSE client[d]]
      /\ edge' = Readable(edge, others)
      /\ UNCHANGED <<table, watch, resp_queue, custom_resp_queue, jobs, loop>>
  BY DEF Shutdown
<1>3. /\ k \in Connection /\ k.state = "gone" /\ Owned(k.send_buffer, c) /\ Owned(k.resps, c)
  <2>1. conn[c].fd \in Fds \cup {listen}
    BY <1>1 DEF Connection
  <2>2. <<>> \in Seq(Request) /\ <<>> \in Seq(Response) /\ Owned(<<>>, c)
    BY DEF Owned
  <2> QED
    BY <2>1, <2>2 DEF NewConn, Connection
<1>4. \A d \in Conns : l(d) \in Client /\ l(d).got = client[d].got
  BY <1>1 DEF Client
<1> HIDE DEF k, l, others
<1>5. conn' \in [Conns -> Connection] /\ \A d \in Conns : conn'[d] = IF d = c THEN k ELSE conn[d]
  BY <1>1, <1>2, <1>3
<1>6. client' \in [Conns -> Client] /\ \A d \in Conns : client'[d].got = client[d].got
  BY <1>1, <1>2, <1>4
<1>7. edge' \in SUBSET (Fds \cup {listen})
  BY <1>1, <1>2, ReadableForm
<1>8. Here' \in States
  BY <1>1, <1>2, <1>5, <1>6, <1>7, NextType
<1>9. \A d \in Conns : \/ conn'[d] = conn[d]
                       \/ /\ conn[d].state # "open" /\ conn'[d].state # "open"
                          /\ Owned(conn'[d].send_buffer, d) /\ Owned(conn'[d].resps, d)
  BY <1>2, <1>3, <1>5
<1> QED
  BY <1>2, <1>6, <1>8, <1>9, OutsideGood

-------------------------------------------------------------------------------
(* The theorems. *)

LEMMA InitGood ==
  ASSUME Init
  PROVE  IndInv
<1> DEFINE m == [asked |-> <<>>, arrived |-> <<>>, closed |-> FALSE, got |-> <<>>,
                 early |-> FALSE, binary |-> FALSE, shut |-> FALSE]
           k == [NewConn(0) EXCEPT !.state = "none"]
<1>1. /\ client = [c \in Conns |-> m] /\ conn = [c \in Conns |-> k]
      /\ table = [f \in Fds |-> NoConn] /\ watch = [f \in Fds |-> "nothing"] /\ edge = {}
      /\ resp_queue = <<>> /\ custom_resp_queue = <<>> /\ jobs = {} /\ loop = "events" /\ faults = 0
  BY DEF Init
<1>2. <<>> \in Seq(Kinds) /\ <<>> \in Seq(Request) /\ <<>> \in Seq(Response)
  OBVIOUS
<1>3. \A c : Owned(<<>>, c)
  BY DEF Owned
<1>4. m \in Client /\ m.got = <<>>
  BY <1>2 DEF Client
<1>5. k \in Connection /\ k.state = "none" /\ k.send_buffer = <<>> /\ k.resps = <<>>
  BY <1>2 DEF NewConn, Connection, listen
<1> HIDE DEF m, k
<1>6. Here \in States
  <2>1. client \in [Conns -> Client] /\ conn \in [Conns -> Connection]
    BY <1>1, <1>4, <1>5
  <2>2. /\ table \in [Fds -> Conns \cup {NoConn}]
        /\ watch \in [Fds -> {"nothing", "edge in", "level out", "off"}]
    BY <1>1
  <2>3. <<>> \in Seq([conn : Conns, resp : Response])
    OBVIOUS
  <2> QED
    BY <1>1, <2>1, <2>2, <2>3, HereType
<1>7. TableInv(Here)
  BY <1>1, <1>5, HereForm DEF TableInv
<1>8. OwnInv(Here)
  <2>1. QueueInv(Here, Here.rq) /\ QueueInv(Here, Here.cq)
    BY <1>1, HereForm DEF QueueInv
  <2>2. \A c \in Conns : /\ Owned(Here.client[c].got, c) /\ Owned(Here.conn[c].send_buffer, c)
                         /\ Owned(Here.conn[c].resps, c)
    BY <1>1, <1>3, <1>4, <1>5, HereForm
  <2> QED
    BY <1>1, <2>1, <2>2, HereForm DEF OwnInv
<1> QED
  BY <1>1, <1>6, <1>7, <1>8 DEF IndInv, TypeOK

\* Faults are counted.
LEMMA FaultsCounted ==
  ASSUME faults \in Nat, Next
  PROVE  faults' \in Nat
<1>1. faults' = faults \/ faults' = faults + 1
  BY ZenonT(60) DEF Next, Server, Threads, Clients, onAccept, onRead, onWrite, LockQueues, NextResponse,
         NextCustomResponse, cleanUpDeadConnections, onAsyncCallDone, Shutdown, Connect, Ask,
         Hangup, Grow, Fault, Outcome
<1> QED
  BY <1>1, SMTT(30)

LEMMA NextGood ==
  ASSUME IndInv, [Next]_vars
  PROVE  IndInv'
<1>1. Good(Here) /\ faults \in Nat
  BY DEF IndInv, TypeOK, Good
<1>2. ASSUME UNCHANGED vars PROVE Good(Here') /\ faults' \in Nat
  BY <1>1, <1>2 DEF vars, Here
<1>3. ASSUME Next PROVE Good(Here')
  <2>1. ASSUME Server PROVE Good(Here')
    <3>1. ASSUME LockQueues PROVE Good(Here')
      BY <1>1, <3>1, LoopOnlyGood DEF LockQueues
    <3> QED
      BY <1>1, <2>1, <3>1, OnAcceptGood, OnReadGood, OnWriteGood, NextResponseGood,
         NextCustomResponseGood, CleanUpGood DEF Server
  <2>2. ASSUME Threads PROVE Good(Here')
    BY <1>1, <2>2, OnAsyncCallDoneGood, ShutdownGood DEF Threads
  <2>3. ASSUME Clients PROVE Good(Here')
    BY <1>1, <2>3, ConnectGood, AskGood, HangupGood, GrowGood DEF Clients
  <2> QED
    BY <1>3, <2>1, <2>2, <2>3 DEF Next
<1>4. ASSUME Next PROVE faults' \in Nat
  BY <1>1, <1>4, FaultsCounted
<1>5. Good(Here') /\ faults' \in Nat
  BY <1>2, <1>3, <1>4
<1> QED
  BY <1>5 DEF IndInv, TypeOK, Good

\* The inductive invariant: types, the table that agrees with epoll and the objects, and
\* answers that are on their way to the client they are for.
THEOREM IndInvariant == Spec => []IndInv
<1>1. Init => IndInv
  BY InitGood
<1>2. IndInv /\ [Next]_vars => IndInv'
  BY NextGood
<1> QED
  BY <1>1, <1>2, PTL DEF Spec

\* Type correctness of the server, its connections and its clients.
THEOREM TypeCorrect == Spec => []TypeOK
<1>1. IndInv => TypeOK
  BY DEF IndInv
<1> QED
  BY <1>1, IndInvariant, PTL

\* m_reading_connections, epoll and the objects agree, whatever descriptors are used again:
\* a socket is watched if and only if an open connection of the table has it, and no two
\* open connections share one.
THEOREM TableAgrees == Spec => []TableIsTrue
<1>1. IndInv => TableIsTrue
  BY HereForm DEF IndInv, TableInv, TableIsTrue
<1> QED
  BY <1>1, IndInvariant, PTL

\* No client gets the answer to another's request, although answers look their connection
\* up by a number that may have been used again since the request came.
THEOREM AnswersReachTheirClient == Spec => []OwnAnswers
<1>1. IndInv => OwnAnswers
  BY HereForm DEF IndInv, OwnInv, QueueInv, OwnAnswers
<1> QED
  BY <1>1, IndInvariant, PTL

-------------------------------------------------------------------------------
(* The numbers of what is queued. *)

LEMMA NumsEmpty == Nums(<<>>) = {} /\ Ascending(<<>>)
BY DEF Nums, Ascending

\* The numbers of a queue that grows.
LEMMA NumsAppend ==
  ASSUME NEW S, NEW q \in Seq(S), NEW e \in S
  PROVE  Nums(Append(q, e)) = Nums(q) \cup {e.n}
<1> DEFINE p == Append(q, e)
           l == Len(q)
<1>1. /\ l \in Nat /\ DOMAIN q = 1 .. l /\ DOMAIN p = 1 .. l + 1
      /\ p[l + 1] = e /\ \A i \in 1 .. l : p[i] = q[i]
  OBVIOUS
<1> HIDE DEF p, l
<1>2. /\ \A i \in 1 .. l + 1 : i \in 1 .. l \/ i = l + 1
      /\ \A i \in 1 .. l : i \in 1 .. l + 1
      /\ l + 1 \in 1 .. l + 1
  BY <1>1
<1>3. Nums(p) = Nums(q) \cup {e.n}
  BY <1>1, <1>2 DEF Nums
<1> QED
  BY <1>3 DEF p

LEMMA NumsPush ==
  ASSUME NEW S, NEW q \in Seq(S), NEW e \in S, \A x \in S : x.n \in Nat
  PROVE  /\ Nums(q) \subseteq Nat
         /\ Nums(Append(q, e)) = Nums(q) \cup {e.n}
         /\ Ascending(q) /\ Less(Nums(q), {e.n}) => Ascending(Append(q, e))
         /\ Nums(<<e>>) = {e.n} /\ Ascending(<<e>>)
<1> DEFINE p == Append(q, e)
           l == Len(q)
<1>1. /\ l \in Nat /\ DOMAIN q = 1 .. l /\ DOMAIN p = 1 .. l + 1
      /\ p[l + 1] = e /\ \A i \in 1 .. l : p[i] = q[i]
  OBVIOUS
<1>2. \A i \in 1 .. l : q[i] \in S
  OBVIOUS
<1> HIDE DEF p, l
<1>3. /\ \A i \in 1 .. l + 1 : i \in 1 .. l \/ i = l + 1
      /\ \A i \in 1 .. l : i \in 1 .. l + 1
      /\ l + 1 \in 1 .. l + 1
  BY <1>1
<1>4. Nums(q) \subseteq Nat
  BY <1>1, <1>2 DEF Nums
<1>5. Nums(p) = Nums(q) \cup {e.n}
  BY <1>1, <1>3 DEF Nums
<1>6. ASSUME Ascending(q), Less(Nums(q), {e.n}) PROVE Ascending(p)
  <2> SUFFICES ASSUME NEW i \in 1 .. l + 1, NEW j \in 1 .. l + 1, i < j
               PROVE  p[i].n < p[j].n
    BY <1>1 DEF Ascending
  <2>1. i \in 1 .. l
    BY <1>1
  <2>2. CASE j \in 1 .. l
    BY <1>1, <1>6, <2>1, <2>2 DEF Ascending
  <2>3. CASE j = l + 1
    <3>1. q[i].n \in Nums(q)
      BY <1>1, <2>1 DEF Nums
    <3> QED
      BY <1>1, <1>6, <2>1, <2>3, <3>1 DEF Less
  <2> QED
    BY <1>3, <2>2, <2>3
<1>7. Nums(<<e>>) = {e.n} /\ Ascending(<<e>>)
  BY DEF Nums, Ascending
<1> QED
  BY <1>4, <1>5, <1>6, <1>7 DEF p

LEMMA NumsPop ==
  ASSUME NEW S, NEW q \in Seq(S), q # <<>>, \A x \in S : x.n \in Nat
  PROVE  /\ Nums(q) = {Head(q).n} \cup Nums(Tail(q))
         /\ Ascending(q) => Ascending(Tail(q)) /\ Less({Head(q).n}, Nums(Tail(q)))
<1> DEFINE p == Tail(q)
           l == Len(q)
           h == Head(q)
<1>1. /\ l \in Nat \ {0} /\ DOMAIN q = 1 .. l /\ DOMAIN p = 1 .. l - 1
      /\ h = q[1] /\ \A i \in 1 .. l - 1 : p[i] = q[i + 1]
  <2>1. p \in Seq(S) /\ Len(p) = l - 1
    BY QueuePop
  <2> QED
    BY <2>1, QueuePop
<1> HIDE DEF p, l, h
<1>2. /\ 1 \in 1 .. l
      /\ \A i \in 2 .. l : i - 1 \in 1 .. l - 1 /\ (i - 1) + 1 = i
      /\ \A i \in 1 .. l - 1 : i + 1 \in 1 .. l /\ 1 < i + 1
      /\ \A i \in 1 .. l : i = 1 \/ i \in 2 .. l
  BY <1>1
<1>3. \A i \in 2 .. l : p[i - 1] = q[i]
  BY <1>1, <1>2
<1>4. Nums(q) = {h.n} \cup Nums(p)
  <2>1. ASSUME NEW x \in Nums(q) PROVE x \in {h.n} \cup Nums(p)
    <3>1. PICK i \in 1 .. l : x = q[i].n
      BY <1>1, <2>1 DEF Nums
    <3>2. CASE i = 1
      BY <1>1, <3>1, <3>2
    <3>3. CASE i \in 2 .. l
      <4>1. i - 1 \in DOMAIN p /\ x = p[i - 1].n
        BY <1>1, <1>2, <1>3, <3>1, <3>3
      <4> QED
        BY <4>1 DEF Nums
    <3> QED
      BY <1>2, <3>2, <3>3
  <2>2. ASSUME NEW x \in {h.n} \cup Nums(p) PROVE x \in Nums(q)
    <3>1. CASE x = h.n
      BY <1>1, <1>2, <3>1 DEF Nums
    <3>2. CASE x \in Nums(p)
      <4>1. PICK i \in 1 .. l - 1 : x = p[i].n
        BY <1>1, <3>2 DEF Nums
      <4>2. i + 1 \in DOMAIN q /\ x = q[i + 1].n
        BY <1>1, <1>2, <4>1
      <4> QED
        BY <4>2 DEF Nums
    <3> QED
      BY <2>2, <3>1, <3>2
  <2> QED
    BY <2>1, <2>2
<1>5. ASSUME Ascending(q) PROVE Ascending(p) /\ Less({h.n}, Nums(p))
  <2>1. ASSUME NEW i \in 1 .. l - 1, NEW j \in 1 .. l - 1, i < j PROVE p[i].n < p[j].n
    <3>1. i + 1 \in DOMAIN q /\ j + 1 \in DOMAIN q /\ i + 1 < j + 1
      BY <1>1, <2>1
    <3> QED
      BY <1>1, <1>5, <3>1 DEF Ascending
  <2>2. ASSUME NEW x \in Nums(p) PROVE h.n < x
    <3>1. PICK i \in 1 .. l - 1 : x = p[i].n
      BY <1>1, <2>2 DEF Nums
    <3> QED
      BY <1>1, <1>2, <1>5, <3>1 DEF Ascending
  <2> QED
    BY <1>1, <2>1, <2>2 DEF Ascending, Less
<1> QED
  BY <1>4, <1>5 DEF p, h

LEMMA NumsConcat ==
  ASSUME NEW S, NEW q \in Seq(S), NEW r \in Seq(S), \A x \in S : x.n \in Nat
  PROVE  /\ Nums(q \o r) = Nums(q) \cup Nums(r)
         /\ Ascending(q) /\ Ascending(r) /\ Less(Nums(q), Nums(r)) => Ascending(q \o r)
<1> DEFINE p == q \o r
           l == Len(q)
           m == Len(r)
<1>1. /\ l \in Nat /\ m \in Nat /\ DOMAIN q = 1 .. l /\ DOMAIN r = 1 .. m
      /\ DOMAIN p = 1 .. l + m
      /\ \A i \in 1 .. l : p[i] = q[i]
      /\ \A i \in l + 1 .. l + m : p[i] = r[i - l]
  OBVIOUS
<1> HIDE DEF p, l, m
<1>2. /\ \A i \in 1 .. l + m : i \in 1 .. l \/ (i \in l + 1 .. l + m /\ i - l \in 1 .. m)
      /\ \A i \in 1 .. m : i + l \in l + 1 .. l + m /\ (i + l) - l = i
      /\ \A i \in 1 .. l : i \in 1 .. l + m
      /\ \A i \in l + 1 .. l + m : i \in 1 .. l + m
  BY <1>1
<1>3. Nums(p) = Nums(q) \cup Nums(r)
  <2>1. ASSUME NEW x \in Nums(p) PROVE x \in Nums(q) \cup Nums(r)
    <3>1. PICK i \in 1 .. l + m : x = p[i].n
      BY <1>1, <2>1 DEF Nums
    <3> QED
      BY <1>1, <1>2, <3>1 DEF Nums
  <2>2. ASSUME NEW x \in Nums(q) PROVE x \in Nums(p)
    BY <1>1, <1>2, <2>2 DEF Nums
  <2>3. ASSUME NEW x \in Nums(r) PROVE x \in Nums(p)
    <3>1. PICK i \in 1 .. m : x = r[i].n
      BY <1>1, <2>3 DEF Nums
    <3>2. i + l \in DOMAIN p /\ p[i + l] = r[i]
      BY <1>1, <1>2
    <3> QED
      BY <3>1, <3>2 DEF Nums
  <2> QED
    BY <2>1, <2>2, <2>3
<1>4. ASSUME Ascending(q), Ascending(r), Less(Nums(q), Nums(r)) PROVE Ascending(p)
  <2> SUFFICES ASSUME NEW i \in 1 .. l + m, NEW j \in 1 .. l + m, i < j
               PROVE  p[i].n < p[j].n
    BY <1>1 DEF Ascending
  <2>1. CASE i \in 1 .. l /\ j \in 1 .. l
    BY <1>1, <1>4, <2>1 DEF Ascending
  <2>2. CASE i \in l + 1 .. l + m /\ j \in l + 1 .. l + m
    <3>1. i - l \in 1 .. m /\ j - l \in 1 .. m /\ i - l < j - l
      BY <1>1, <2>2
    <3> QED
      BY <1>1, <1>4, <2>2, <3>1 DEF Ascending
  <2>3. CASE i \in 1 .. l /\ j \in l + 1 .. l + m
    <3>1. j - l \in 1 .. m /\ q[i].n \in Nums(q)
      BY <1>1, <2>3 DEF Nums
    <3>2. r[j - l].n \in Nums(r)
      BY <1>1, <3>1 DEF Nums
    <3> QED
      BY <1>1, <1>4, <2>3, <3>1, <3>2 DEF Less
  <2>4. ~(i \in l + 1 .. l + m /\ j \in 1 .. l)
    BY <1>1
  <2> QED
    BY <1>2, <2>1, <2>2, <2>3, <2>4
<1> QED
  BY <1>3, <1>4 DEF p

\* Requests and answers have numbers.
LEMMA Numbered ==
  /\ \A r \in Request : r.n \in Nat /\ r.kind \in Kinds
  /\ \A r \in Response : r.n \in Nat /\ r.form \in {"http", "custom"}
BY DEF Request, Response

LEMMA ResponsePush ==
  ASSUME NEW q \in Seq(Response), NEW e \in Response
  PROVE  /\ Nums(Append(q, e)) = Nums(q) \cup {e.n}
         /\ Ascending(q) /\ Less(Nums(q), {e.n}) => Ascending(Append(q, e))
<1>1. \A x \in Response : x.n \in Nat
  BY Numbered
<1>2. Nums(Append(q, e)) = Nums(q) \cup {e.n}
  BY NumsAppend
<1>3. Ascending(q) /\ Less(Nums(q), {e.n}) => Ascending(Append(q, e))
  BY <1>1, NumsPush
<1> QED
  BY <1>2, <1>3

-------------------------------------------------------------------------------
(* The flow of one connection. *)

\* Parts of a connection and its client that have nothing to do with it change.
LEMMA FlowSame ==
  ASSUME NEW k, NEW m, NEW A, NEW J, Flow(k, m, A, J), NEW l, NEW p,
         l.state = k.state, l.custom = k.custom, l.waiting = k.waiting,
         l.requests = k.requests, l.resps = k.resps, l.send_buffer = k.send_buffer,
         p.got = m.got, p.arrived = m.arrived, p.asked = m.asked, p.early = m.early,
         p.binary = m.binary
  PROVE  Flow(l, p, A, J)
<1>1. Chained(l, p, Out(A, J))
  BY DEF Flow, Chained
<1>2. Asked(l, p)
  BY DEF Flow, Asked
<1>3. NoCustoms(l, p) <=> NoCustoms(k, m)
  BY DEF NoCustoms
<1> QED
  BY <1>1, <1>2, <1>3 DEF Flow, Handshake, Plain

\* Fewer requests are out, and no new form of answer.
LEMMA FlowLess ==
  ASSUME NEW k, NEW m, NEW A, NEW J, Flow(k, m, A, J), NEW B, NEW K,
         Out(B, K) \subseteq Out(A, J), \A r \in B : r \in A \/ r.form = "http"
  PROVE  Flow(k, m, B, K)
<1>1. Chained(k, m, Out(B, K))
  BY DEF Flow, Chained, Chain, Less
<1> QED
  BY <1>1 DEF Flow

\* The numbers that are out.
LEMMA OutForm ==
  ASSUME NEW A \in SUBSET Response, NEW J \in SUBSET Nat
  PROVE  Out(A, J) \subseteq Nat /\ (Out(A, J) = {} <=> A = {} /\ J = {})
BY Numbered DEF Out

\* performSend takes the next answer to be sent.
LEMMA FlowLoad ==
  ASSUME NEW k \in Connection, NEW m \in Client, NEW A, NEW J, Flow(k, m, A, J), NEW l,
         k.send_buffer = <<>>, k.resps # <<>>,
         l.send_buffer = <<Head(k.resps)>>, l.resps = Tail(k.resps),
         l.state = k.state, l.custom = k.custom, l.waiting = k.waiting, l.requests = k.requests
  PROVE  Flow(l, m, A, J)
<1> DEFINE h == Head(k.resps)
           q == Tail(k.resps)
           b == <<h>>
<1>1. k.resps \in Seq(Response)
  BY DEF Connection
<1>2. h \in Response /\ q \in Seq(Response) /\ Len(k.resps) \in Nat \ {0}
      /\ h = k.resps[1] /\ Len(q) = Len(k.resps) - 1
      /\ \A i \in 1 .. Len(q) : q[i] = k.resps[i + 1]
  BY <1>1, QueuePop
<1>3. /\ Nums(k.resps) = {h.n} \cup Nums(q) /\ Nums(b) = {h.n} /\ Ascending(b)
      /\ Ascending(k.resps) => Ascending(q) /\ Less({h.n}, Nums(q))
  BY <1>1, <1>2, Numbered, NumsPop, NumsPush
<1>4. Customs(k.resps) = {} => Customs(b) = {} /\ Customs(q) = {}
  <2>1. DOMAIN k.resps = 1 .. Len(k.resps) /\ DOMAIN q = 1 .. Len(q) /\ DOMAIN b = {1} /\ b[1] = h
    BY <1>1, <1>2
  <2>2. 1 \in DOMAIN k.resps /\ \A i \in DOMAIN q : i + 1 \in DOMAIN k.resps
    BY <1>2, <2>1
  <2> HIDE DEF b, h, q
  <2> QED
    BY <1>2, <2>1, <2>2 DEF Customs
<1> HIDE DEF h, q, b
<1>5. Nums(k.send_buffer) = {}
  BY NumsEmpty
<1>6. Chained(l, m, Out(A, J))
  <2>1. Chained(k, m, Out(A, J))
    BY DEF Flow
  <2>2. /\ l.send_buffer = b /\ l.resps = q /\ l.requests = k.requests
    BY DEF b, h, q
  <2> DEFINE G == Nums(m.got)
             O == Out(A, J)
             Q == Nums(k.requests)
             a == Nums(m.arrived)
             n == Len(m.asked)
  <2>3. Chain(G, {}, {h.n} \cup Nums(q), O, Q, a, n)
    BY <1>3, <1>5, <2>1 DEF Chained
  <2> HIDE DEF G, O, Q, a, n
  <2>4. Less({h.n}, Nums(q))
    BY <1>3, <2>1 DEF Chained
  <2>5. Chain(G, {h.n}, Nums(q), O, Q, a, n)
    BY <2>3, <2>4 DEF Chain, Less
  <2> QED
    BY <1>3, <2>1, <2>2, <2>5 DEF Chained, G, O, Q, a, n
<1>7. Asked(l, m)
  BY DEF Flow, Asked
<1>8. NoCustoms(k, m) => NoCustoms(l, m)
  BY <1>4 DEF NoCustoms, b, h, q
<1> QED
  BY <1>6, <1>7, <1>8 DEF Flow, Handshake, Plain

\* An answer joins the others, and the greatest of them is no less than their number.
LEMMA GotForm ==
  ASSUME NEW got \in Seq(Response), NEW e \in Response, Less(Nums(got), {e.n}), e.n >= 1,
         \A i \in DOMAIN got : got[i].n >= i
  PROVE  /\ \A i \in DOMAIN Append(got, e) : Append(got, e)[i].n >= i
         /\ Customs(got) # {} => Customs(Append(got, e)) # {}
         /\ Customs(got) = {} /\ e.form # "custom" => Customs(Append(got, e)) = {}
         /\ Len(Append(got, e)) = Len(got) + 1 /\ Len(got) \in Nat /\ Len(got) < e.n
<1> DEFINE p == Append(got, e)
           l == Len(got)
<1>1. /\ l \in Nat /\ DOMAIN got = 1 .. l /\ DOMAIN p = 1 .. l + 1
      /\ p[l + 1] = e /\ \A i \in 1 .. l : p[i] = got[i] /\ got[i] \in Response
      /\ Len(p) = l + 1
  OBVIOUS
<1> HIDE DEF p, l
<1>2. /\ \A i \in 1 .. l + 1 : i \in 1 .. l \/ i = l + 1
      /\ \A i \in 1 .. l : i \in 1 .. l + 1
      /\ l + 1 \in 1 .. l + 1
  BY <1>1
<1>3. l < e.n
  <2>1. e.n \in Nat
    BY Numbered
  <2>2. CASE l = 0
    BY <2>1, <2>2
  <2>3. CASE l # 0
    <3>1. l \in DOMAIN got /\ got[l] \in Response
      BY <1>1, <2>3
    <3>2. got[l].n \in Nums(got) /\ got[l].n \in Nat /\ got[l].n >= l
      BY <3>1, Numbered DEF Nums
    <3>3. got[l].n < e.n
      BY <3>2 DEF Less
    <3> QED
      BY <1>1, <2>1, <3>2, <3>3
  <2> QED
    BY <2>2, <2>3
<1>4. \A i \in DOMAIN p : p[i].n >= i
  <2>1. e.n >= l + 1
    BY <1>1, <1>3, Numbered
  <2> QED
    BY <1>1, <1>2, <2>1
<1>5. Customs(got) # {} => Customs(p) # {}
  BY <1>1, <1>2 DEF Customs
<1>6. Customs(got) = {} /\ e.form # "custom" => Customs(p) = {}
  BY <1>1, <1>2 DEF Customs
<1> QED
  BY <1>1, <1>3, <1>4, <1>5, <1>6 DEF p, l

\* The answer in the send buffer has been sent.
LEMMA FlowGot ==
  ASSUME NEW k \in Connection, NEW m \in Client, NEW A, NEW J, Flow(k, m, A, J), NEW l, NEW p,
         k.send_buffer # <<>>, l.send_buffer = <<>>, p.got = Append(m.got, k.send_buffer[1]),
         l.state = k.state, l.custom = k.custom, l.waiting = k.waiting,
         l.requests = k.requests, l.resps = k.resps,
         p.arrived = m.arrived, p.asked = m.asked, p.early = m.early, p.binary = m.binary
  PROVE  Flow(l, p, A, J)
<1> DEFINE e == k.send_buffer[1]
<1>1. /\ k.send_buffer \in Seq(Response) /\ m.got \in Seq(Response) /\ m.asked \in Seq(Kinds)
      /\ e \in Response /\ 1 \in DOMAIN k.send_buffer
  <2>1. k.send_buffer \in Seq(Response) /\ m.got \in Seq(Response) /\ m.asked \in Seq(Kinds)
    BY DEF Connection, Client
  <2> QED
    BY <2>1
<1>2. Chained(k, m, Out(A, J))
  BY DEF Flow
<1>3. e.n \in Nums(k.send_buffer) /\ e.n \in Nat
  BY <1>1, Numbered DEF Nums
<1> DEFINE G == Nums(m.got)
           S == Nums(k.send_buffer)
           R == Nums(k.resps)
           O == Out(A, J)
           Q == Nums(k.requests)
           a == Nums(m.arrived)
           n == Len(m.asked)
<1>4. Chain(G, S, R, O, Q, a, n) /\ e.n \in S
  BY <1>2, <1>3 DEF Chained
<1>5. Ascending(Append(m.got, e)) /\ Nums(Append(m.got, e)) = G \cup {e.n}
  <2>1. Ascending(m.got) /\ Less(Nums(m.got), {e.n})
    BY <1>2, <1>4 DEF Chained, Chain, Less
  <2>2. m.got \in Seq(Response) /\ e \in Response
    BY <1>1
  <2> DEFINE g == m.got
  <2> HIDE DEF e, g
  <2>3. /\ Nums(Append(g, e)) = Nums(g) \cup {e.n}
        /\ Ascending(g) /\ Less(Nums(g), {e.n}) => Ascending(Append(g, e))
    BY <2>2, ResponsePush DEF g
  <2> QED
    BY <2>1, <2>3 DEF g
<1>6. n \in Nat
  BY <1>1
<1> HIDE DEF e, G, S, R, O, Q, a, n
<1>7. Chain(G \cup {e.n}, {}, R, O, Q, a, n)
  BY <1>4 DEF Chain, Less
<1>8. Chained(l, p, Out(A, J))
  BY <1>2, <1>5, <1>7, NumsEmpty DEF Chained, e, G, R, O, Q, a, n
<1>9. Less(G, {e.n}) /\ e.n >= 1
  BY <1>3, <1>4, <1>6 DEF Chain, Less
<1>10. /\ \A i \in DOMAIN p.got : p.got[i].n >= i
       /\ Customs(m.got) # {} => Customs(p.got) # {}
       /\ Customs(m.got) = {} /\ e.form # "custom" => Customs(p.got) = {}
       /\ Len(p.got) = Len(m.got) + 1 /\ Len(m.got) \in Nat
  <2>1. \A i \in DOMAIN m.got : m.got[i].n >= i
    BY DEF Flow, Asked
  <2>2. p.got = Append(m.got, e)
    BY DEF e
  <2> QED
    BY <1>1, <1>9, <2>1, <2>2, GotForm DEF G
<1>11. Asked(l, p)
  <2>1. Asked(k, m)
    BY DEF Flow
  <2>2. ~p.early => Len(p.asked) <= Len(p.got) + 1
    <3>1. ~m.early => Len(m.asked) <= Len(m.got) + 1
      BY <2>1 DEF Asked
    <3> QED
      BY <1>6, <1>10, <3>1 DEF n
  <2> QED
    BY <1>10, <2>1, <2>2 DEF Asked
<1>12. NoCustoms(k, m) => NoCustoms(l, p)
  <2>1. Customs(k.send_buffer) = {} => e.form # "custom"
    BY <1>1 DEF Customs, e
  <2>2. Customs(l.send_buffer) = {}
    BY DEF Customs
  <2> QED
    BY <1>10, <2>1, <2>2 DEF NoCustoms
<1> QED
  BY <1>8, <1>11, <1>12 DEF Flow, Handshake, Plain

\* Requests that join a queue, leave it, or are dropped.
LEMMA RequestPush ==
  ASSUME NEW q \in Seq(Request), NEW e \in Request
  PROVE  /\ Nums(Append(q, e)) = Nums(q) \cup {e.n}
         /\ Ascending(q) /\ Less(Nums(q), {e.n}) => Ascending(Append(q, e))
<1>1. \A x \in Request : x.n \in Nat
  BY Numbered
<1>2. Nums(Append(q, e)) = Nums(q) \cup {e.n}
  BY NumsAppend
<1>3. Ascending(q) /\ Less(Nums(q), {e.n}) => Ascending(Append(q, e))
  BY <1>1, NumsPush
<1> QED
  BY <1>2, <1>3

LEMMA RequestPop ==
  ASSUME NEW q \in Seq(Request), q # <<>>
  PROVE  /\ Head(q) \in Request /\ Tail(q) \in Seq(Request)
         /\ Head(q).n \in Nat /\ Head(q).n \in Nums(q) /\ Nums(Tail(q)) \subseteq Nums(q)
         /\ Ascending(q) => Ascending(Tail(q)) /\ Less({Head(q).n}, Nums(Tail(q)))
<1>1. \A x \in Request : x.n \in Nat
  BY Numbered
<1>2. Head(q) \in Request /\ Tail(q) \in Seq(Request)
  BY QueuePop
<1>3. Nums(q) = {Head(q).n} \cup Nums(Tail(q))
  BY <1>1, NumsPop
<1>4. Ascending(q) => Ascending(Tail(q)) /\ Less({Head(q).n}, Nums(Tail(q)))
  BY <1>1, NumsPop
<1> QED
  BY <1>1, <1>2, <1>3, <1>4

LEMMA RequestConcat ==
  ASSUME NEW q \in Seq(Request), NEW r \in Seq(Request)
  PROVE  /\ Nums(q \o r) = Nums(q) \cup Nums(r)
         /\ Ascending(q) /\ Ascending(r) /\ Less(Nums(q), Nums(r)) => Ascending(q \o r)
<1>1. \A x \in Request : x.n \in Nat
  BY Numbered
<1>2. Nums(q \o r) = Nums(q) \cup Nums(r)
  BY <1>1, NumsConcat
<1>3. Ascending(q) /\ Ascending(r) /\ Less(Nums(q), Nums(r)) => Ascending(q \o r)
  BY <1>1, NumsConcat
<1> QED
  BY <1>2, <1>3

\* HTTP answers among HTTP answers.
LEMMA CustomsPush ==
  ASSUME NEW q \in Seq(Response), NEW e \in Response, Customs(q) = {}, e.form # "custom"
  PROVE  Customs(Append(q, e)) = {}
<1> DEFINE p == Append(q, e)
           l == Len(q)
<1>1. /\ l \in Nat /\ DOMAIN q = 1 .. l /\ DOMAIN p = 1 .. l + 1
      /\ p[l + 1] = e /\ \A i \in 1 .. l : p[i] = q[i]
  OBVIOUS
<1> HIDE DEF p, l
<1>2. \A i \in 1 .. l + 1 : i \in 1 .. l \/ i = l + 1
  BY <1>1
<1>3. Customs(p) = {}
  BY <1>1, <1>2 DEF Customs
<1> QED
  BY <1>3 DEF p

\* An answer from a queue joins those to be sent.
LEMMA FlowAdd ==
  ASSUME NEW k \in Connection, NEW m \in Client, NEW e \in Response, Flow(k, m, {e}, {}), NEW l,
         l.resps = Append(k.resps, e), l.state = k.state, l.custom = k.custom,
         l.requests = k.requests, l.send_buffer = k.send_buffer
  PROVE  Flow(l, m, {}, {})
<1>1. k.resps \in Seq(Response)
  BY DEF Connection
<1>2. Out({e}, {}) = {e.n} /\ Out({}, {}) = {}
  BY DEF Out
<1> DEFINE G == Nums(m.got)
           S == Nums(k.send_buffer)
           R == Nums(k.resps)
           Q == Nums(k.requests)
           a == Nums(m.arrived)
           n == Len(m.asked)
<1>3. Chained(k, m, {e.n})
  BY <1>2 DEF Flow
<1>4. Chain(G, S, R, {e.n}, Q, a, n)
  BY <1>3 DEF Chained
<1> HIDE DEF G, S, R, Q, a, n
<1>5. Chain(G, S, R \cup {e.n}, {}, Q, a, n) /\ Less(R, {e.n})
  BY <1>4 DEF Chain, Less
<1>6. Nums(l.resps) = R \cup {e.n} /\ Ascending(l.resps)
  <2>1. Ascending(k.resps) /\ Less(Nums(k.resps), {e.n})
    BY <1>3, <1>5 DEF Chained, R
  <2>2. Nums(Append(k.resps, e)) = Nums(k.resps) \cup {e.n}
    BY <1>1, ResponsePush
  <2>3. Ascending(Append(k.resps, e))
    BY <1>1, <2>1, ResponsePush
  <2> QED
    BY <2>2, <2>3 DEF R
<1>7. Chained(l, m, {})
  BY <1>3, <1>5, <1>6 DEF Chained, G, S, Q, a, n
<1>8. Asked(l, m)
  BY DEF Flow, Asked
<1>9. Plain(l) => NoCustoms(l, m)
  <2>1. Plain(l) => NoCustoms(k, m) /\ e.form # "custom"
    BY DEF Flow, Plain
  <2>2. Customs(k.resps) = {} /\ e.form # "custom" => Customs(l.resps) = {}
    BY <1>1, CustomsPush
  <2> QED
    BY <2>1, <2>2 DEF NoCustoms
<1> QED
  BY <1>2, <1>7, <1>8, <1>9 DEF Flow

\* A client that has a request before the server while an answer waits to be sent did not
\* wait for it.
LEMMA FlowEarly ==
  ASSUME NEW k \in Connection, NEW m \in Client, NEW A, NEW J, Flow(k, m, A, J),
         k.requests # <<>>, k.resps # <<>>
  PROVE  m.early
<1> DEFINE h == Head(k.requests)
           e == Head(k.resps)
           n == Len(m.asked)
<1>1. /\ k.requests \in Seq(Request) /\ k.resps \in Seq(Response) /\ m.got \in Seq(Response)
      /\ m.asked \in Seq(Kinds)
  BY DEF Connection, Client
<1>2. h.n \in Nums(k.requests) /\ h.n \in Nat
  BY <1>1, RequestPop
<1>3. e \in Response /\ e.n \in Nums(k.resps) /\ e.n \in Nat
  <2>1. e \in Response /\ e = k.resps[1] /\ Len(k.resps) \in Nat \ {0}
    BY <1>1, QueuePop
  <2>2. 1 \in DOMAIN k.resps
    BY <1>1, <2>1
  <2> HIDE DEF e
  <2> QED
    BY <2>1, <2>2, Numbered DEF Nums
<1> HIDE DEF h, e
<1>4. n \in Nat
  BY <1>1
<1>5. Chain(Nums(m.got), Nums(k.send_buffer), Nums(k.resps), Out(A, J), Nums(k.requests),
            Nums(m.arrived), n)
  BY DEF Flow, Chained
<1> HIDE DEF n
<1>6. Less(Nums(m.got), {e.n}) /\ e.n < h.n /\ h.n \in 1 .. n /\ e.n \in 1 .. n
  BY <1>2, <1>3, <1>5 DEF Chain, Less
<1>7. Len(m.got) < e.n /\ Len(m.got) \in Nat
  <2>1. \A i \in DOMAIN m.got : m.got[i].n >= i
    BY DEF Flow, Asked
  <2>2. e.n >= 1
    BY <1>6
  <2> QED
    BY <1>1, <1>3, <1>6, <2>1, <2>2, GotForm
<1>8. ~m.early => n <= Len(m.got) + 1
  BY DEF Flow, Asked, n
<1>9. ~(n <= Len(m.got) + 1)
  BY <1>2, <1>3, <1>4, <1>6, <1>7
<1> QED
  BY <1>8, <1>9

\* A request that is not an upgrade is started: its answer is queued, it is in the hands
\* of a thread, or it is lost.
LEMMA FlowStart ==
  ASSUME NEW k \in Connection, NEW m \in Client,
         NEW A \in SUBSET Response, NEW J \in SUBSET Nat, Flow(k, m, A, J),
         ~k.waiting, k.requests # <<>>, NEW l, NEW B, NEW K,
         Out(B, K) \subseteq {Head(k.requests).n}, Plain(k) => \A r \in B : r.form # "custom",
         l.waiting, l.requests = Tail(k.requests), l.state = k.state, l.custom = k.custom,
         l.resps = k.resps, l.send_buffer = k.send_buffer
  PROVE  A = {} /\ J = {} /\ Flow(l, m, B, K)
<1>1. Out(A, J) = {} /\ A = {} /\ J = {}
  BY OutForm DEF Flow, Handshake
<1> DEFINE h == Head(k.requests)
           q == Tail(k.requests)
           G == Nums(m.got)
           S == Nums(k.send_buffer)
           R == Nums(k.resps)
           Q == Nums(k.requests)
           a == Nums(m.arrived)
           n == Len(m.asked)
<1>2. k.requests \in Seq(Request)
  BY DEF Connection
<1>3. h \in Request /\ q \in Seq(Request) /\ h.n \in Q /\ Nums(q) \subseteq Q
  BY <1>2, RequestPop
<1>4. Chained(k, m, {})
  BY <1>1 DEF Flow
<1>5. Ascending(q) /\ Less({h.n}, Nums(q))
  BY <1>2, <1>4, RequestPop DEF Chained
<1>6. Chain(G, S, R, {}, Q, a, n)
  BY <1>4 DEF Chained
<1>7. Out(B, K) \subseteq {h.n}
  OBVIOUS
<1>8. l.requests = q
  OBVIOUS
<1> HIDE DEF h, q, G, S, R, Q, a, n
<1>9. Chain(G, S, R, Out(B, K), Nums(q), a, n)
  BY <1>3, <1>5, <1>6, <1>7 DEF Chain, Less
<1>10. Chained(l, m, Out(B, K))
  BY <1>4, <1>5, <1>8, <1>9 DEF Chained, G, S, R, a, n
<1>11. Asked(l, m)
  <2>1. \A i \in DOMAIN q : \E j \in DOMAIN k.requests : q[i] = k.requests[j]
    <3>1. /\ Len(k.requests) \in Nat \ {0} /\ Len(q) = Len(k.requests) - 1
          /\ \A i \in 1 .. Len(q) : q[i] = k.requests[i + 1]
      BY <1>2, QueuePop DEF q
    <3>2. DOMAIN k.requests = 1 .. Len(k.requests) /\ DOMAIN q = 1 .. Len(q)
      BY <1>2, <1>3
    <3>3. \A i \in DOMAIN q : i + 1 \in DOMAIN k.requests
      BY <3>1, <3>2
    <3> QED
      BY <3>1, <3>2, <3>3
  <2>2. \A i \in DOMAIN q : m.asked[q[i].n] = q[i].kind
    BY <2>1 DEF Flow, Asked
  <2> QED
    BY <1>8, <2>2 DEF Flow, Asked
<1>12. Plain(l) => NoCustoms(l, m) /\ \A r \in B : r.form # "custom"
  BY DEF Flow, Plain, NoCustoms
<1> QED
  BY <1>1, <1>10, <1>11, <1>12 DEF Flow

\* The handshake is the last a client asked for: it is answered and nothing else waits.
LEMMA FlowUpgrade ==
  ASSUME NEW k \in Connection, NEW m \in Client,
         NEW A \in SUBSET Response, NEW J \in SUBSET Nat, Flow(k, m, A, J),
         ~k.waiting, k.requests # <<>>, Head(k.requests).kind = "upgrade", ~k.custom,
         k.state = "open", NEW l, NEW B,
         Out(B, {}) \subseteq {Head(k.requests).n},
         l.custom, ~l.waiting, l.requests = <<>>, l.state = k.state,
         l.resps = k.resps, l.send_buffer = k.send_buffer
  PROVE  A = {} /\ J = {} /\ Flow(l, m, B, {})
<1>1. Out(A, J) = {} /\ A = {} /\ J = {}
  BY OutForm DEF Flow, Handshake
<1> DEFINE h == Head(k.requests)
           G == Nums(m.got)
           S == Nums(k.send_buffer)
           R == Nums(k.resps)
           Q == Nums(k.requests)
           a == Nums(m.arrived)
           n == Len(m.asked)
<1>2. k.requests \in Seq(Request) /\ m.arrived \in Seq(Request) /\ m.asked \in Seq(Kinds)
  BY DEF Connection, Client
<1>3. h \in Request /\ h.n \in Q /\ h.n \in Nat
  BY <1>2, RequestPop
<1>4. Chained(k, m, {}) /\ Chain(G, S, R, {}, Q, a, n)
  BY <1>1 DEF Flow, Chained
<1>5. n \in Nat /\ DOMAIN m.asked = 1 .. n
  BY <1>2
<1>6. NoCustoms(k, m)
  BY DEF Flow, Plain
<1>7. m.asked[h.n] = "upgrade"
  <2>1. h = k.requests[1] /\ Len(k.requests) \in Nat \ {0}
    BY <1>2, QueuePop
  <2>2. 1 \in DOMAIN k.requests
    BY <1>2, <2>1
  <2>3. m.asked[k.requests[1].n] = k.requests[1].kind
    BY <2>2 DEF Flow, Asked
  <2> QED
    BY <2>1, <2>3
<1> HIDE DEF h, G, S, R, Q, a, n
<1>8. h.n \in 1 .. n
  BY <1>3, <1>4 DEF Chain
<1>9. m.binary /\ ~(h.n < n)
  <2>1. m.asked[h.n] = "upgrade" => m.binary /\ (h.n < Len(m.asked) => Customs(m.got) # {})
    BY <1>5, <1>8 DEF Flow, Asked
  <2> QED
    BY <1>6, <1>7, <2>1 DEF NoCustoms, n
<1>10. m.arrived = <<>>
  <2> SUFFICES ASSUME m.arrived # <<>> PROVE FALSE
    OBVIOUS
  <2>1. Head(m.arrived).n \in a /\ Head(m.arrived).n \in Nat
    BY <1>2, RequestPop DEF a
  <2>2. h.n < Head(m.arrived).n /\ Head(m.arrived).n \in 1 .. n
    BY <1>3, <1>4, <2>1 DEF Chain, Less
  <2> QED
    BY <1>3, <1>5, <1>9, <2>1, <2>2
<1>11. Chain(G, S, R, Out(B, {}), {}, a, n)
  <2>1. Out(B, {}) \subseteq {h.n}
    BY DEF h
  <2> QED
    BY <1>3, <1>4, <2>1 DEF Chain, Less
<1>12. Chained(l, m, Out(B, {}))
  BY <1>4, <1>11, NumsEmpty DEF Chained, G, S, R, a, n
<1>13. Asked(l, m)
  BY DEF Flow, Asked
<1>14. Handshake(l, m) /\ ~Plain(l)
  BY <1>6, <1>9, <1>10 DEF Handshake, NoCustoms, Plain
<1> QED
  BY <1>1, <1>12, <1>13, <1>14 DEF Flow

\* What is true of the requests of two queues is true of their concatenation, and of a
\* queue that one of them joins.
LEMMA ConcatAsked ==
  ASSUME NEW u \in Seq(Request), NEW v \in Seq(Request), NEW w,
         \A i \in DOMAIN u : w[u[i].n] = u[i].kind, \A i \in DOMAIN v : w[v[i].n] = v[i].kind
  PROVE  \A i \in DOMAIN (u \o v) : w[(u \o v)[i].n] = (u \o v)[i].kind
<1> DEFINE x == Len(u)
           y == Len(v)
           z == u \o v
<1>1. /\ x \in Nat /\ y \in Nat /\ DOMAIN u = 1 .. x /\ DOMAIN v = 1 .. y
      /\ DOMAIN z = 1 .. x + y
      /\ \A h \in 1 .. x : z[h] = u[h]
      /\ \A h \in x + 1 .. x + y : z[h] = v[h - x]
  OBVIOUS
<1> HIDE DEF x, y, z
<1>2. \A h \in 1 .. x + y : h \in 1 .. x \/ (h \in x + 1 .. x + y /\ h - x \in 1 .. y)
  BY <1>1
<1>3. ASSUME NEW i \in DOMAIN z PROVE w[z[i].n] = z[i].kind
  <2>1. CASE i \in 1 .. x
    BY <1>1, <2>1
  <2>2. CASE i \in x + 1 .. x + y /\ i - x \in 1 .. y
    <3>1. z[i] = v[i - x] /\ i - x \in DOMAIN v
      BY <1>1, <2>2
    <3>2. w[v[i - x].n] = v[i - x].kind
      BY <3>1
    <3> QED
      BY <3>1, <3>2
  <2> QED
    BY <1>1, <1>2, <2>1, <2>2
<1> QED
  BY <1>3 DEF z

LEMMA PushAsked ==
  ASSUME NEW u \in Seq(Request), NEW e \in Request, NEW w,
         \A i \in DOMAIN u : w[u[i].n] = u[i].kind, w[e.n] = e.kind
  PROVE  \A i \in DOMAIN Append(u, e) : w[Append(u, e)[i].n] = Append(u, e)[i].kind
<1> DEFINE x == Len(u)
           z == Append(u, e)
<1>1. /\ x \in Nat /\ DOMAIN u = 1 .. x /\ DOMAIN z = 1 .. x + 1
      /\ z[x + 1] = e /\ \A i \in 1 .. x : z[i] = u[i]
  OBVIOUS
<1> HIDE DEF x, z
<1>2. \A i \in 1 .. x + 1 : i \in 1 .. x \/ i = x + 1
  BY <1>1
<1>3. \A i \in DOMAIN z : w[z[i].n] = z[i].kind
  BY <1>1, <1>2
<1> QED
  BY <1>3 DEF z

\* The beginning of a queue keeps what is true of the queue.
LEMMA BeginsForm ==
  ASSUME NEW w \in Seq(Request), NEW v, Begins(v, w)
  PROVE  /\ v \in Seq(Request) /\ Nums(v) \subseteq Nums(w)
         /\ Ascending(w) => Ascending(v)
         /\ w = <<>> => v = <<>>
         /\ \A i \in DOMAIN v : i \in DOMAIN w /\ v[i] = w[i]
<1>1. /\ v \in Seq(Request) /\ Len(v) \in Nat /\ Len(w) \in Nat
      /\ DOMAIN v = 1 .. Len(v) /\ DOMAIN w = 1 .. Len(w)
  BY DEF Begins
<1>2. \A i \in DOMAIN v : i \in DOMAIN w /\ v[i] = w[i]
  BY <1>1 DEF Begins
<1>3. Nums(v) \subseteq Nums(w)
  BY <1>2 DEF Nums
<1>4. Ascending(w) => Ascending(v)
  BY <1>2 DEF Ascending
<1>5. w = <<>> => v = <<>>
  BY <1>1 DEF Begins
<1> QED
  BY <1>1, <1>2, <1>3, <1>4, <1>5

\* What has arrived is taken in: the beginning of it, one request of it, or nothing.
LEMMA FlowRecv ==
  ASSUME NEW k \in Connection, NEW m \in Client, NEW A, NEW J, Flow(k, m, A, J), NEW l, NEW p,
         \/ l.requests = k.requests
         \/ \E v : Begins(v, m.arrived) /\ l.requests = k.requests \o v
         \/ \E i \in DOMAIN m.arrived : l.requests = Append(k.requests, m.arrived[i]),
         l.waiting = k.waiting, l.state = k.state, l.custom = k.custom,
         l.resps = k.resps, l.send_buffer = k.send_buffer,
         p.arrived = <<>>, p.got = m.got, p.asked = m.asked, p.early = m.early, p.binary = m.binary
  PROVE  Flow(l, p, A, J)
<1> DEFINE G == Nums(m.got)
           S == Nums(k.send_buffer)
           R == Nums(k.resps)
           O == Out(A, J)
           Q == Nums(k.requests)
           a == Nums(m.arrived)
           n == Len(m.asked)
           q == l.requests
<1>1. k.requests \in Seq(Request) /\ m.arrived \in Seq(Request)
  BY DEF Connection, Client
<1>2. Chained(k, m, O) /\ Chain(G, S, R, O, Q, a, n)
  BY DEF Flow, Chained
<1>3. Less(Q, a)
  BY <1>2 DEF Chain, Less
<1>4. Nums(q) \subseteq Q \cup a /\ Ascending(q)
  <2>1. CASE q = k.requests
    BY <1>2, <2>1 DEF Chained
  <2>2. ASSUME NEW v, Begins(v, m.arrived), q = k.requests \o v
        PROVE  Nums(q) \subseteq Q \cup a /\ Ascending(q)
    <3>1. Ascending(k.requests) /\ Ascending(m.arrived)
      BY <1>2 DEF Chained
    <3>2. v \in Seq(Request) /\ Nums(v) \subseteq a /\ Ascending(v)
      BY <1>1, <2>2, <3>1, BeginsForm
    <3>3. Less(Nums(k.requests), Nums(v))
      BY <1>3, <3>2 DEF Less
    <3>4. Nums(k.requests \o v) = Nums(k.requests) \cup Nums(v)
      BY <1>1, <3>2, RequestConcat
    <3>5. Ascending(k.requests \o v)
      BY <1>1, <3>1, <3>2, <3>3, RequestConcat
    <3> QED
      BY <2>2, <3>2, <3>4, <3>5
  <2>3. ASSUME NEW i \in DOMAIN m.arrived, q = Append(k.requests, m.arrived[i])
        PROVE  Nums(q) \subseteq Q \cup a /\ Ascending(q)
    <3> DEFINE e == m.arrived[i]
    <3>1. e \in Request
      BY <1>1, QueueElement
    <3>2. e.n \in a
      BY DEF Nums
    <3> HIDE DEF e
    <3>3. Ascending(k.requests) /\ Less(Nums(k.requests), {e.n})
      BY <1>2, <1>3, <3>2 DEF Chained, Less
    <3>4. Nums(Append(k.requests, e)) = Nums(k.requests) \cup {e.n}
      BY <1>1, <3>1, RequestPush
    <3>5. Ascending(Append(k.requests, e))
      BY <1>1, <3>1, <3>3, RequestPush
    <3> QED
      BY <2>3, <3>2, <3>4, <3>5 DEF e
  <2> QED
    BY <2>1, <2>2, <2>3
<1> HIDE DEF G, S, R, O, Q, a, n
<1>5. Chain(G, S, R, O, Nums(q), {}, n)
  BY <1>2, <1>4 DEF Chain, Less
<1>6. Chained(l, p, O)
  BY <1>2, <1>4, <1>5, NumsEmpty DEF Chained, G, S, R, n
<1>7. Asked(l, p)
  <2>1. /\ \A i \in DOMAIN k.requests : m.asked[k.requests[i].n] = k.requests[i].kind
        /\ \A i \in DOMAIN m.arrived : m.asked[m.arrived[i].n] = m.arrived[i].kind
    BY DEF Flow, Asked
  <2>2. \A i \in DOMAIN q : m.asked[q[i].n] = q[i].kind
    <3>1. CASE q = k.requests
      BY <2>1, <3>1
    <3>2. ASSUME NEW v, Begins(v, m.arrived), q = k.requests \o v
          PROVE  \A i \in DOMAIN q : m.asked[q[i].n] = q[i].kind
      <4> DEFINE z == k.requests \o v
      <4>1. v \in Seq(Request) /\ \A i \in DOMAIN v : m.asked[v[i].n] = v[i].kind
        <5>1. v \in Seq(Request) /\ \A i \in DOMAIN v : i \in DOMAIN m.arrived /\ v[i] = m.arrived[i]
          BY <1>1, <3>2, BeginsForm
        <5> QED
          BY <2>1, <5>1
      <4>2. \A i \in DOMAIN z : m.asked[z[i].n] = z[i].kind
        BY <1>1, <2>1, <4>1, ConcatAsked
      <4> QED
        BY <3>2, <4>2
    <3>3. ASSUME NEW j \in DOMAIN m.arrived, q = Append(k.requests, m.arrived[j])
          PROVE  \A i \in DOMAIN q : m.asked[q[i].n] = q[i].kind
      <4> DEFINE e == m.arrived[j]
                 z == Append(k.requests, e)
      <4>1. e \in Request /\ m.asked[e.n] = e.kind
        BY <1>1, <2>1, QueueElement
      <4> HIDE DEF e
      <4>2. \A i \in DOMAIN z : m.asked[z[i].n] = z[i].kind
        BY <1>1, <2>1, <4>1, PushAsked
      <4> QED
        BY <3>3, <4>2 DEF e
    <3> QED
      BY <3>1, <3>2, <3>3
  <2>3. \A i \in DOMAIN p.arrived : p.asked[p.arrived[i].n] = p.arrived[i].kind
    OBVIOUS
  <2> QED
    BY <2>2, <2>3 DEF Flow, Asked
<1>8. Plain(l) => NoCustoms(l, p) /\ \A r \in A : r.form # "custom"
  BY DEF Flow, Plain, NoCustoms
<1>9. Handshake(k, m) => Handshake(l, p)
  <2> SUFFICES ASSUME Handshake(k, m) PROVE Handshake(l, p)
    OBVIOUS
  <2>1. k.requests = <<>> /\ m.arrived = <<>>
    BY DEF Handshake
  <2>2. q = <<>>
    <3>1. ASSUME NEW v, Begins(v, m.arrived) PROVE k.requests \o v = <<>>
      <4>1. Len(m.arrived) = 0
        BY <2>1
      <4>2. v = <<>>
        BY <3>1, <4>1 DEF Begins
      <4> QED
        BY <2>1, <4>2
    <3>2. \A v : Begins(v, m.arrived) => k.requests \o v = <<>>
      BY <3>1
    <3>3. DOMAIN m.arrived = {}
      BY <2>1
    <3> QED
      BY <2>1, <3>2, <3>3
  <2> QED
    BY <2>2 DEF Handshake, NoCustoms
<1> QED
  BY <1>6, <1>7, <1>8, <1>9 DEF Flow, O

\* A connection with nothing in it.
LEMMA FlowReset ==
  ASSUME NEW k, NEW m, NEW A, NEW J, Flow(k, m, A, J), NEW l,
         l.requests = <<>>, l.resps = <<>>, l.send_buffer = <<>>, Plain(l) => Plain(k)
  PROVE  Flow(l, m, {}, {})
<1>1. Out({}, {}) = {}
  BY DEF Out
<1>2. Chained(k, m, Out(A, J))
  BY DEF Flow
<1>3. Chained(l, m, {})
  <2> DEFINE G == Nums(m.got)
             S == Nums(k.send_buffer)
             R == Nums(k.resps)
             Q == Nums(k.requests)
             a == Nums(m.arrived)
             n == Len(m.asked)
  <2>1. Chain(G, S, R, Out(A, J), Q, a, n)
    BY <1>2 DEF Chained
  <2> HIDE DEF G, S, R, Q, a, n
  <2>2. Chain(G, {}, {}, {}, {}, a, n)
    BY <2>1 DEF Chain, Less
  <2> QED
    BY <1>2, <2>2, NumsEmpty DEF Chained, G, a, n
<1>4. Asked(l, m)
  BY DEF Flow, Asked
<1>5. Plain(l) => NoCustoms(l, m)
  BY DEF Flow, NoCustoms, Customs
<1> QED
  BY <1>1, <1>3, <1>4, <1>5 DEF Flow

\* A client asks for something more.
LEMMA FlowAsk ==
  ASSUME NEW k \in Connection, NEW m \in Client, NEW A, NEW J, Flow(k, m, A, J),
         NEW kind \in Kinds, m.binary => Customs(m.got) # {}, NEW p \in Client,
         p.asked = Append(m.asked, kind),
         p.arrived = Append(m.arrived, [n |-> Len(m.asked) + 1, kind |-> kind]),
         p.binary = (m.binary \/ kind = "upgrade"),
         p.early = (m.early \/ Len(m.got) < Len(m.asked)), p.got = m.got
  PROVE  Flow(k, p, A, J)
<1> DEFINE n == Len(m.asked)
           e == [n |-> n + 1, kind |-> kind]
           G == Nums(m.got)
           S == Nums(k.send_buffer)
           R == Nums(k.resps)
           O == Out(A, J)
           Q == Nums(k.requests)
           a == Nums(m.arrived)
<1>1. /\ m.asked \in Seq(Kinds) /\ m.arrived \in Seq(Request) /\ m.got \in Seq(Response)
      /\ k.requests \in Seq(Request) /\ m.early \in BOOLEAN /\ m.binary \in BOOLEAN
  BY DEF Client, Connection
<1>2. /\ n \in Nat /\ DOMAIN m.asked = 1 .. n /\ Len(p.asked) = n + 1 /\ Len(m.got) \in Nat
      /\ DOMAIN p.asked = 1 .. n + 1
      /\ p.asked[n + 1] = kind /\ \A i \in 1 .. n : p.asked[i] = m.asked[i]
  BY <1>1
<1>3. e \in Request /\ e.n = n + 1 /\ e.kind = kind
  BY <1>2 DEF Request
<1>4. Chained(k, m, O) /\ Chain(G, S, R, O, Q, a, n)
  BY DEF Flow, Chained
<1>5. p.arrived = Append(m.arrived, e)
  OBVIOUS
<1> HIDE DEF n, e, G, S, R, O, Q, a
<1>6. /\ 1 .. n \subseteq 1 .. n + 1 /\ n + 1 \in 1 .. n + 1
      /\ \A i \in 1 .. n : i < n + 1
      /\ \A i \in 1 .. n + 1 : i \in 1 .. n \/ i = n + 1
  BY <1>2
<1>7. Chain(G, S, R, O, Q, a \cup {n + 1}, n + 1) /\ Less(a, {n + 1})
  <2> DEFINE z == n + 1
  <2>1. Less(G \cup S \cup R \cup O \cup Q \cup a, {z})
    BY <1>4, <1>6 DEF Chain, Less
  <2>2. G \cup S \cup R \cup O \cup Q \cup a \cup {z} \subseteq 1 .. z
    BY <1>4, <1>6 DEF Chain
  <2> HIDE DEF z
  <2>3. Chain(G, S, R, O, Q, a \cup {z}, z)
    <3>1. /\ Less(G, S) /\ Less(G \cup S, R) /\ Less(G \cup S \cup R, O)
          /\ Less(G \cup S \cup R \cup O, Q) /\ Less(G \cup S \cup R \cup O \cup Q, a)
      BY <1>4 DEF Chain
    <3>2. Less(G \cup S \cup R \cup O \cup Q, a \cup {z})
      BY <2>1, <3>1 DEF Less
    <3> QED
      BY <2>2, <3>1, <3>2 DEF Chain
  <2>4. Less(a, {z})
    BY <2>1 DEF Less
  <2> QED
    BY <2>3, <2>4 DEF z
<1>8. Nums(p.arrived) = a \cup {n + 1} /\ Ascending(p.arrived)
  <2>1. Ascending(m.arrived) /\ Less(Nums(m.arrived), {e.n})
    BY <1>3, <1>4, <1>7 DEF Chained, a
  <2>2. Nums(Append(m.arrived, e)) = Nums(m.arrived) \cup {e.n}
    BY <1>1, <1>3, RequestPush
  <2>3. Ascending(Append(m.arrived, e))
    BY <1>1, <1>3, <2>1, RequestPush
  <2> QED
    BY <1>3, <1>5, <2>2, <2>3 DEF a
<1>9. Chained(k, p, O)
  BY <1>2, <1>4, <1>7, <1>8 DEF Chained, G, S, R, Q
<1>10. Asked(k, p)
  <2>1. Asked(k, m)
    BY DEF Flow
  <2>2. \A i \in DOMAIN k.requests : k.requests[i].n \in 1 .. n
    BY <1>4 DEF Chain, Q, Nums
  <2>3. \A i \in DOMAIN k.requests : p.asked[k.requests[i].n] = k.requests[i].kind
    BY <1>2, <2>1, <2>2 DEF Asked
  <2>4. \A i \in DOMAIN m.arrived : p.asked[m.arrived[i].n] = m.arrived[i].kind
    <3>1. \A i \in DOMAIN m.arrived : m.arrived[i].n \in 1 .. n
      BY <1>4 DEF Chain, a, Nums
    <3> QED
      BY <1>2, <2>1, <3>1 DEF Asked
  <2>5. \A i \in DOMAIN p.arrived : p.asked[p.arrived[i].n] = p.arrived[i].kind
    <3> DEFINE w == p.asked
               z == Append(m.arrived, e)
    <3>1. w[e.n] = e.kind
      BY <1>2, <1>3
    <3>2. \A i \in DOMAIN m.arrived : w[m.arrived[i].n] = m.arrived[i].kind
      BY <2>4
    <3> HIDE DEF w
    <3>3. \A i \in DOMAIN z : w[z[i].n] = z[i].kind
      BY <1>1, <1>3, <3>1, <3>2, PushAsked
    <3> QED
      BY <1>5, <3>3 DEF w
  <2>6. ASSUME NEW i \in DOMAIN p.asked, p.asked[i] = "upgrade"
        PROVE  p.binary /\ (i < Len(p.asked) => Customs(p.got) # {})
    <3>1. CASE i \in 1 .. n
      <4>1. m.asked[i] = "upgrade" /\ i \in DOMAIN m.asked
        BY <1>2, <2>6, <3>1
      <4>2. m.binary
        BY <2>1, <4>1 DEF Asked
      <4> QED
        BY <4>2
    <3>2. CASE i = n + 1
      <4>1. kind = "upgrade"
        BY <1>2, <2>6, <3>2
      <4>2. ~(i < Len(p.asked))
        BY <1>2, <3>2
      <4> QED
        BY <4>1, <4>2
    <3> QED
      BY <1>2, <1>6, <3>1, <3>2
  <2>7. ~p.early => Len(p.asked) <= Len(p.got) + 1
    <3>1. ~p.early => ~(Len(m.got) < n)
      BY DEF n
    <3>2. ~(Len(m.got) < n) => n + 1 <= Len(m.got) + 1
      BY <1>2
    <3> QED
      BY <1>2, <3>1, <3>2
  <2> QED
    BY <2>1, <2>3, <2>5, <2>6, <2>7 DEF Asked
<1>11. Plain(k) => NoCustoms(k, p) /\ \A r \in A : r.form # "custom"
  BY DEF Flow, NoCustoms
<1>12. ~Handshake(k, m)
  BY DEF Handshake, NoCustoms
<1>13. k.waiting \/ O = {}
  BY <1>12 DEF Flow, O
<1> QED
  BY <1>9, <1>10, <1>11, <1>13 DEF Flow, O

-------------------------------------------------------------------------------
(* The queues of answers. *)

Entries == [conn : Conns, resp : Response]

LEMMA EntryForm ==
  /\ \A e \in Entries : e.conn \in Conns /\ e.resp \in Response
  /\ \A s \in States : s.rq \in Seq(Entries) /\ s.cq \in Seq(Entries)
BY StateForm DEF Entries

\* A queue grows.
LEMMA PushAnswers ==
  ASSUME NEW q \in Seq(Entries), NEW e \in Entries, NEW d
  PROVE  /\ d # e.conn => Answers(Append(q, e), d) = Answers(q, d) /\ For(Append(q, e), d) = For(q, d)
         /\ d = e.conn /\ For(q, d) = {} =>
              /\ e.resp \in Answers(Append(q, e), d)
              /\ \A r \in Answers(Append(q, e), d) : r = e.resp
              /\ One(Append(q, e), d)
<1> DEFINE p == Append(q, e)
           l == Len(q)
           z == l + 1
<1>1. /\ l \in Nat /\ DOMAIN q = 1 .. l /\ DOMAIN p = 1 .. l + 1
      /\ p[l + 1] = e /\ \A i \in 1 .. l : p[i] = q[i]
  OBVIOUS
<1> HIDE DEF p, l
<1>2. 1 .. l + 1 = (1 .. l) \cup {l + 1}
  BY <1>1
<1>3. d # e.conn => For(p, d) = For(q, d)
  BY <1>1, <1>2 DEF For
<1>4. d = e.conn => For(p, d) = For(q, d) \cup {z}
  BY <1>1, <1>2 DEF For
<1>5. p[z] = e /\ \A i \in DOMAIN q : p[i] = q[i]
  BY <1>1
<1> HIDE DEF z
<1>6. For(q, d) \subseteq DOMAIN q
  BY DEF For
<1>7. d # e.conn => Answers(p, d) = Answers(q, d)
  BY <1>3, <1>5, <1>6 DEF Answers
<1>8. d = e.conn /\ For(q, d) = {} => Answers(p, d) = {e.resp} /\ One(p, d)
  BY <1>4, <1>5 DEF Answers, One
<1> QED
  BY <1>3, <1>7, <1>8 DEF p

\* The first answer of a queue leaves it.
LEMMA PopAnswers ==
  ASSUME NEW q \in Seq(Entries), q # <<>>, NEW d
  PROVE  /\ For(q, d) = {} => For(Tail(q), d) = {}
         /\ One(q, d) => One(Tail(q), d)
         /\ d # Head(q).conn => Answers(Tail(q), d) = Answers(q, d)
         /\ d = Head(q).conn => Head(q).resp \in Answers(q, d) /\ For(q, d) # {}
         /\ d = Head(q).conn /\ One(q, d) => For(Tail(q), d) = {}
<1> DEFINE p == Tail(q)
           l == Len(q)
           h == Head(q)
<1>1. /\ l \in Nat \ {0} /\ DOMAIN q = 1 .. l /\ DOMAIN p = 1 .. l - 1
      /\ h = q[1] /\ \A i \in 1 .. l - 1 : p[i] = q[i + 1]
  <2>1. p \in Seq(Entries) /\ Len(p) = l - 1 /\ h = q[1] /\ l \in Nat \ {0}
        /\ \A i \in 1 .. Len(p) : p[i] = q[i + 1]
    BY QueuePop
  <2> QED
    BY <2>1
<1> HIDE DEF p, l, h
<1>2. /\ 1 \in 1 .. l
      /\ \A i \in 2 .. l : i - 1 \in 1 .. l - 1 /\ (i - 1) + 1 = i
      /\ \A i \in 1 .. l - 1 : i + 1 \in 1 .. l /\ i + 1 # 1
      /\ \A i \in 1 .. l : i = 1 \/ i \in 2 .. l
  BY <1>1
<1>3. \A i \in For(p, d) : i \in 1 .. l - 1 /\ i + 1 \in For(q, d) /\ p[i] = q[i + 1]
  BY <1>1, <1>2 DEF For
<1>4. \A i \in For(q, d) : i # 1 => i - 1 \in For(p, d) /\ q[i] = p[i - 1]
  <2> SUFFICES ASSUME NEW i \in For(q, d), i # 1 PROVE i - 1 \in For(p, d) /\ q[i] = p[i - 1]
    OBVIOUS
  <2>1. i \in 2 .. l /\ q[i].conn = d
    BY <1>1, <1>2 DEF For
  <2>2. i - 1 \in DOMAIN p /\ p[i - 1] = q[i]
    BY <1>1, <1>2, <2>1
  <2> QED
    BY <2>1, <2>2 DEF For
<1>5. 1 \in For(q, d) <=> d = h.conn
  BY <1>1, <1>2 DEF For
<1>6. For(q, d) = {} => For(p, d) = {}
  BY <1>3
<1>7. One(q, d) => One(p, d)
  <2> SUFFICES ASSUME One(q, d), NEW i \in For(p, d), NEW j \in For(p, d) PROVE i = j
    BY DEF One
  <2>1. i + 1 = j + 1
    BY <1>3 DEF One
  <2> QED
    BY <1>1, <1>3, <2>1
<1>8. d # h.conn => Answers(p, d) = Answers(q, d)
  <2> SUFFICES ASSUME d # h.conn PROVE Answers(p, d) = Answers(q, d)
    OBVIOUS
  <2>1. \A r \in Answers(p, d) : r \in Answers(q, d)
    BY <1>3 DEF Answers
  <2>2. \A r \in Answers(q, d) : r \in Answers(p, d)
    BY <1>4, <1>5 DEF Answers
  <2> QED
    BY <2>1, <2>2
<1>9. d = h.conn => h.resp \in Answers(q, d) /\ For(q, d) # {}
  BY <1>1, <1>5 DEF Answers
<1>10. d = h.conn /\ One(q, d) => For(p, d) = {}
  <2> SUFFICES ASSUME d = h.conn, One(q, d), NEW i \in For(p, d) PROVE FALSE
    OBVIOUS
  <2>1. i + 1 \in For(q, d) /\ 1 \in For(q, d) /\ i + 1 # 1
    BY <1>2, <1>3, <1>5
  <2> QED
    BY <2>1 DEF One
<1> QED
  BY <1>6, <1>7, <1>8, <1>9, <1>10 DEF p, h

-------------------------------------------------------------------------------
(* The handler starts a request. *)

\* What the queues and the threads have for other connections stays as it is.
Elsewhere(s, t, c) ==
  \A d \in Conns : d # c =>
    /\ Queued(t, d) = Queued(s, d) /\ Working(t, d) = Working(s, d)
    /\ OneQueued(s, d) => OneQueued(t, d)

\* From s to t at most the request n of c is in hand or answered, for c in the table.
Started(s, t, c, n) ==
  /\ t.conn = s.conn /\ t.client = s.client /\ t.table = s.table /\ t.watch = s.watch
  /\ t.edge = s.edge
  /\ Elsewhere(s, t, c) /\ Single(t, c)
  /\ Out(Queued(t, c), Working(t, c)) \subseteq {n}
  /\ Queued(t, c) # {} => Listed(s, c)

LEMMA QueuedNone ==
  ASSUME NEW s, NEW c
  PROVE  Queued(s, c) = {} <=> For(s.rq, c) = {} /\ For(s.cq, c) = {}
BY DEF Queued, Answers

\* An answer for c joins one of the queues, which had none.
LEMMA PushStarts ==
  ASSUME NEW s \in States, NEW t \in States, NEW c \in Conns, NEW e \in Entries, e.conn = c,
         Queued(s, c) = {}, Working(s, c) = {}, t.jobs = s.jobs,
         \/ t.rq = Append(s.rq, e) /\ t.cq = s.cq
         \/ t.cq = Append(s.cq, e) /\ t.rq = s.rq
  PROVE  /\ Elsewhere(s, t, c) /\ Single(t, c)
         /\ Queued(t, c) = {e.resp} /\ Working(t, c) = {}
<1>1. s.rq \in Seq(Entries) /\ s.cq \in Seq(Entries)
  BY EntryForm
<1>2. For(s.rq, c) = {} /\ For(s.cq, c) = {}
  BY QueuedNone
<1>3. \A d : Working(t, d) = Working(s, d)
  BY DEF Working
<1> DEFINE p == Append(s.rq, e)
           q == Append(s.cq, e)
<1>a. \A d : d # c => /\ Answers(p, d) = Answers(s.rq, d) /\ For(p, d) = For(s.rq, d)
                      /\ Answers(q, d) = Answers(s.cq, d) /\ For(q, d) = For(s.cq, d)
  BY <1>1, PushAnswers
<1>b. /\ e.resp \in Answers(p, c) /\ (\A r \in Answers(p, c) : r = e.resp) /\ One(p, c)
      /\ e.resp \in Answers(q, c) /\ (\A r \in Answers(q, c) : r = e.resp) /\ One(q, c)
  BY <1>1, <1>2, PushAnswers
<1>c. (t.rq = p /\ t.cq = s.cq) \/ (t.cq = q /\ t.rq = s.rq)
  OBVIOUS
<1> HIDE DEF p, q
<1>4. ASSUME NEW d, d # c
      PROVE  /\ Answers(t.rq, d) = Answers(s.rq, d) /\ For(t.rq, d) = For(s.rq, d)
             /\ Answers(t.cq, d) = Answers(s.cq, d) /\ For(t.cq, d) = For(s.cq, d)
  BY <1>4, <1>a, <1>c
<1>5. Elsewhere(s, t, c)
  BY <1>3, <1>4 DEF Elsewhere, Queued, OneQueued, One
<1>6. \/ Answers(t.rq, c) = {e.resp} /\ One(t.rq, c) /\ t.cq = s.cq
      \/ Answers(t.cq, c) = {e.resp} /\ One(t.cq, c) /\ t.rq = s.rq
  BY <1>b, <1>c
<1>7. Queued(t, c) = {e.resp} /\ OneQueued(t, c)
  BY <1>2, <1>6 DEF Queued, OneQueued, Answers, One
<1> QED
  BY <1>3, <1>5, <1>7 DEF Single

\* onSendResponse and onSendCustomResponse.
LEMMA SendStarts ==
  ASSUME NEW s, Good(s), NEW c \in Conns, s.conn[c].state = "open", NEW n \in Nat,
         Queued(s, c) = {}, Working(s, c) = {}, Single(s, c)
  PROVE  LET t == onSendResponse(s, c, n)
             u == onSendCustomResponse(s, c, n)
         IN  /\ Started(s, t, c, n) /\ Working(t, c) = {}
             /\ \A r \in Queued(t, c) : r.form = "http"
             /\ t.loop = s.loop \/ (s.loop = "answers" /\ t.loop = "stuck")
             /\ Started(s, u, c, n) /\ Working(u, c) = {} /\ u.loop = s.loop
<1> DEFINE t == onSendResponse(s, c, n)
           u == onSendCustomResponse(s, c, n)
           to == s.table[s.conn[c].fd]
<1>1. Good(t) /\ Good(u) /\ s \in States /\ t \in States /\ u \in States
  BY SendResponseGood DEF Kept, Good
<1>2. to = c \/ to = NoConn
  <2>1. s.conn[c].fd \in Fds
    BY DEF Good, TableInv
  <2>2. s.table \in [Fds -> Conns \cup {NoConn}]
    BY StateForm DEF Good
  <2> QED
    BY <2>1, <2>2 DEF Good, TableInv
<1>3. /\ t.conn = s.conn /\ t.client = s.client /\ t.table = s.table /\ t.watch = s.watch
      /\ t.edge = s.edge /\ t.cq = s.cq /\ t.jobs = s.jobs
      /\ t.loop = s.loop \/ (s.loop = "answers" /\ t.loop = "stuck")
  BY <1>1 DEF onSendResponse, States
<1>4. /\ u.conn = s.conn /\ u.client = s.client /\ u.table = s.table /\ u.watch = s.watch
      /\ u.edge = s.edge /\ u.rq = s.rq /\ u.jobs = s.jobs /\ u.loop = s.loop
  BY <1>1 DEF onSendCustomResponse, States
<1> DEFINE e(form) == [conn |-> c, resp |-> [to |-> c, n |-> n, form |-> form]]
<1>5. \A form \in {"http", "custom"} :
         e(form) \in Entries /\ e(form).conn = c /\ e(form).resp.n = n /\ e(form).resp.form = form
  BY DEF Entries, Response
<1>6. t.rq = s.rq \/ (to = c /\ t.rq = Append(s.rq, e("http")))
  BY <1>1, <1>2 DEF onSendResponse, States
<1>7. u.cq = s.cq \/ (to = c /\ u.cq = Append(s.cq, e("custom")))
  BY <1>1, <1>2 DEF onSendCustomResponse, States
<1> HIDE DEF t, u, e
<1>8. ASSUME NEW v, v.rq = s.rq, v.cq = s.cq, v.jobs = s.jobs
      PROVE  /\ Elsewhere(s, v, c) /\ Single(v, c) /\ Working(v, c) = {} /\ Queued(v, c) = {}
  <2>1. \A d : Queued(v, d) = Queued(s, d) /\ Working(v, d) = Working(s, d)
    BY <1>8 DEF Queued, Working
  <2>2. \A d : OneQueued(v, d) <=> OneQueued(s, d)
    BY <1>8 DEF OneQueued
  <2> QED
    BY <2>1, <2>2 DEF Elsewhere, Single
<1>9. \A A : A = {} => Out(A, {}) = {}
  BY DEF Out
<1>10. ASSUME NEW f \in {"http", "custom"} PROVE Out({e(f).resp}, {}) = {n}
  BY <1>5, <1>10 DEF Out
<1>11. Started(s, t, c, n) /\ Working(t, c) = {} /\ \A r \in Queued(t, c) : r.form = "http"
  <2>1. CASE t.rq = s.rq
    <3>1. Elsewhere(s, t, c) /\ Single(t, c) /\ Working(t, c) = {} /\ Queued(t, c) = {}
      BY <1>3, <1>8, <2>1
    <3> QED
      BY <1>3, <1>9, <3>1 DEF Started
  <2>2. CASE to = c /\ t.rq = Append(s.rq, e("http"))
    <3>1. /\ Elsewhere(s, t, c) /\ Single(t, c) /\ Working(t, c) = {}
          /\ Queued(t, c) = {e("http").resp}
      BY <1>1, <1>3, <1>5, <2>2, PushStarts
    <3> QED
      BY <1>3, <1>5, <1>10, <2>2, <3>1 DEF Started, Listed
  <2> QED
    BY <1>6, <2>1, <2>2
<1>12. Started(s, u, c, n) /\ Working(u, c) = {}
  <2>1. CASE u.cq = s.cq
    <3>1. Elsewhere(s, u, c) /\ Single(u, c) /\ Working(u, c) = {} /\ Queued(u, c) = {}
      BY <1>4, <1>8, <2>1
    <3> QED
      BY <1>4, <1>9, <3>1 DEF Started
  <2>2. CASE to = c /\ u.cq = Append(s.cq, e("custom"))
    <3>1. /\ Elsewhere(s, u, c) /\ Single(u, c) /\ Working(u, c) = {}
          /\ Queued(u, c) = {e("custom").resp}
      BY <1>1, <1>4, <1>5, <2>2, PushStarts
    <3> QED
      BY <1>4, <1>5, <1>10, <2>2, <3>1 DEF Started, Listed
  <2> QED
    BY <1>7, <2>1, <2>2
<1> QED
  BY <1>3, <1>4, <1>11, <1>12 DEF t, u

\* The handler of a request.
LEMMA HandleRequestStarts ==
  ASSUME NEW s, Good(s), NEW c \in Conns, s.conn[c].state = "open", NEW r \in Request,
         Queued(s, c) = {}, Working(s, c) = {}, Single(s, c)
  PROVE  LET t == HandleRequest(s, c, r)
         IN  /\ Started(s, t, c, r.n)
             /\ s.conn[c].custom \/ \A a \in Queued(t, c) : a.form = "http"
             /\ t.loop = s.loop \/ (s.loop = "answers" /\ t.loop = "stuck")
<1> DEFINE j == [conn |-> c, n |-> r.n]
           t == [s EXCEPT !.jobs = @ \cup {j}]
<1>1. r.n \in Nat /\ j.conn = c /\ j.n = r.n
  BY Numbered
<1> HIDE DEF j
<1>2. /\ t.client = s.client /\ t.conn = s.conn /\ t.table = s.table /\ t.watch = s.watch
      /\ t.edge = s.edge /\ t.rq = s.rq /\ t.cq = s.cq /\ t.jobs = s.jobs \cup {j} /\ t.loop = s.loop
  BY DEF Good, States
<1> HIDE DEF t
<1>3. \A d : Queued(t, d) = Queued(s, d) /\ (OneQueued(t, d) <=> OneQueued(s, d))
  BY <1>2 DEF Queued, OneQueued
<1>4. \A d \in Conns : d # c => Working(t, d) = Working(s, d)
  BY <1>1, <1>2 DEF Working
<1>5. Working(t, c) = {r.n}
  BY <1>1, <1>2 DEF Working
<1>6. Started(s, t, c, r.n) /\ Queued(t, c) = {}
  <2>1. Elsewhere(s, t, c)
    BY <1>3, <1>4 DEF Elsewhere
  <2>2. Single(t, c)
    BY <1>3, <1>5 DEF Single
  <2>3. Out({}, {r.n}) = {r.n}
    BY DEF Out
  <2> QED
    BY <1>2, <1>3, <1>5, <2>1, <2>2, <2>3 DEF Started
<1>7. Started(s, s, c, r.n)
  <2>1. Out({}, {}) = {}
    BY DEF Out
  <2> QED
    BY <2>1 DEF Started, Elsewhere
<1>8. CASE r.kind = "async"
  <2>1. HandleRequest(s, c, r) = t
    BY <1>8 DEF HandleRequest, t, j
  <2> QED
    BY <1>2, <1>6, <2>1
<1>9. CASE r.kind = "lost"
  <2>1. HandleRequest(s, c, r) = s
    BY <1>9 DEF HandleRequest
  <2> QED
    BY <1>7, <2>1
<1>10. CASE r.kind = "sync" /\ s.conn[c].custom
  <2>1. HandleRequest(s, c, r) = onSendCustomResponse(s, c, r.n)
    BY <1>10 DEF HandleRequest
  <2> QED
    BY <1>1, <1>10, <2>1, SendStarts
<1>11. CASE r.kind # "async" /\ r.kind # "lost" /\ ~(r.kind = "sync" /\ s.conn[c].custom)
  <2>1. HandleRequest(s, c, r) = onSendResponse(s, c, r.n)
    BY <1>11 DEF HandleRequest
  <2> QED
    BY <1>1, <2>1, SendStarts
<1> QED
  BY <1>8, <1>9, <1>10, <1>11

-------------------------------------------------------------------------------
(* What the loop works on, while a connection x may be dead and still listed. *)

At(s, c) == FlowAt(s, c) /\ LifeAt(s, c)

Fit(s, x) ==
  /\ Good(s) /\ EdgeInv(s)
  /\ \A c \in Conns : At(s, c) /\ (c # x => AliveAt(s, c))

\* A connection's flow and life, written out.
LEMMA AtForm ==
  ASSUME NEW s, NEW c
  PROVE  At(s, c) <=>
           /\ Single(s, c) /\ Flow(s.conn[c], s.client[c], Queued(s, c), Working(s, c))
           /\ s.conn[c].state = "open" =>
                Life(s.conn[c], s.client[c], Queued(s, c), Working(s, c), Listed(s, c),
                     s.watch[s.conn[c].fd])
BY DEF At, FlowAt, LifeAt

\* The types of what is queued and in hand.
LEMMA AtTypes ==
  ASSUME NEW s \in States, NEW c \in Conns
  PROVE  /\ Queued(s, c) \in SUBSET Response /\ Working(s, c) \in SUBSET Nat
         /\ s.conn[c] \in Connection /\ s.client[c] \in Client
<1>1. s.rq \in Seq(Entries) /\ s.cq \in Seq(Entries) /\ s.jobs \in SUBSET [conn : Conns, n : Nat]
  BY EntryForm, StateForm
<1>2. /\ \A i \in DOMAIN s.rq : s.rq[i] \in Entries
      /\ \A i \in DOMAIN s.cq : s.cq[i] \in Entries
  BY <1>1, QueueElement
<1>3. Queued(s, c) \in SUBSET Response
  BY <1>2, EntryForm DEF Queued, Answers, For
<1>4. Working(s, c) \in SUBSET Nat
  BY <1>1 DEF Working
<1> QED
  BY <1>3, <1>4, StateForm

\* Nothing about connection d has changed.
Unmoved(s, t, d) ==
  /\ t.conn[d] = s.conn[d] /\ t.client[d] = s.client[d]
  /\ Queued(t, d) = Queued(s, d) /\ Working(t, d) = Working(s, d)
  /\ OneQueued(s, d) => OneQueued(t, d)
  /\ s.conn[d].state = "open" =>
       (Listed(t, d) <=> Listed(s, d)) /\ t.watch[s.conn[d].fd] = s.watch[s.conn[d].fd]

LEMMA UnmovedAt ==
  ASSUME NEW s, NEW t, NEW d, Unmoved(s, t, d), At(s, d)
  PROVE  At(t, d) /\ (AliveAt(s, d) => AliveAt(t, d))
<1>1. FlowAt(t, d)
  BY DEF Unmoved, At, FlowAt, Single
<1>2. LifeAt(t, d)
  <2> SUFFICES ASSUME t.conn[d].state = "open"
               PROVE  Life(t.conn[d], t.client[d], Queued(t, d), Working(t, d), Listed(t, d),
                           t.watch[t.conn[d].fd])
    BY DEF LifeAt
  <2>1. Life(s.conn[d], s.client[d], Queued(s, d), Working(s, d), Listed(s, d),
             s.watch[s.conn[d].fd])
    BY DEF Unmoved, At, LifeAt
  <2>2. Listed(t, d) <=> Listed(s, d)
    BY DEF Unmoved
  <2>3. t.conn[d] = s.conn[d] /\ t.client[d] = s.client[d] /\ Queued(t, d) = Queued(s, d)
        /\ Working(t, d) = Working(s, d) /\ t.watch[s.conn[d].fd] = s.watch[s.conn[d].fd]
    BY DEF Unmoved
  <2> QED
    BY <2>1, <2>2, <2>3 DEF Life
<1>3. AliveAt(s, d) => AliveAt(t, d)
  BY DEF Unmoved, AliveAt
<1> QED
  BY <1>1, <1>2, <1>3 DEF At

\* Only connection c moves.
LEMMA FitMove ==
  ASSUME NEW s, NEW c \in Conns, Fit(s, c), NEW t, Good(t), EdgeInv(t), At(t, c),
         \A d \in Conns : d # c => Unmoved(s, t, d)
  PROVE  Fit(t, c) /\ (AliveAt(t, c) => \A x : Fit(t, x))
<1>1. \A d \in Conns : d # c => At(t, d) /\ AliveAt(t, d)
  BY UnmovedAt DEF Fit
<1> QED
  BY <1>1 DEF Fit

\* A connection and its client change, and nothing else.
LEMMA FitPut ==
  ASSUME NEW s, NEW c \in Conns, Fit(s, c), s.conn[c].state = "open", NEW t, Good(t),
         t.table = s.table, t.watch = s.watch, t.edge = s.edge, t.rq = s.rq, t.cq = s.cq, t.jobs = s.jobs,
         \A d \in Conns : d # c => t.conn[d] = s.conn[d] /\ t.client[d] = s.client[d],
         t.conn[c].fd = s.conn[c].fd,
         Flow(t.conn[c], t.client[c], Queued(s, c), Working(s, c)),
         Life(t.conn[c], t.client[c], Queued(s, c), Working(s, c), Listed(s, c),
              s.watch[s.conn[c].fd])
  PROVE  /\ Fit(t, c) /\ (AliveAt(t, c) => \A x : Fit(t, x))
         /\ Queued(t, c) = Queued(s, c) /\ Working(t, c) = Working(s, c)
         /\ Listed(t, c) <=> Listed(s, c)
<1>1. \A d : /\ Queued(t, d) = Queued(s, d) /\ Working(t, d) = Working(s, d)
             /\ OneQueued(s, d) <=> OneQueued(t, d)
  BY DEF Queued, Working, OneQueued
<1>2. \A d \in Conns : d # c => Unmoved(s, t, d)
  BY <1>1 DEF Unmoved, Listed
<1>3. Listed(t, c) <=> Listed(s, c)
  BY DEF Listed
<1>4. Single(t, c)
  BY <1>1 DEF Fit, At, FlowAt, Single
<1>5. FlowAt(t, c)
  BY <1>1, <1>4 DEF FlowAt
<1>6. LifeAt(t, c)
  BY <1>1, <1>3 DEF LifeAt, Life
<1>7. At(t, c) /\ EdgeInv(t)
  BY <1>5, <1>6 DEF At, EdgeInv, Fit
<1> QED
  BY <1>1, <1>2, <1>3, <1>7, FitMove

\* The handler takes the next request of c, which is alive if it is listed.
LEMMA FitStarted ==
  ASSUME NEW s, NEW c \in Conns, Fit(s, c), AliveAt(s, c), s.conn[c].state = "open", NEW t, Good(t),
         t.client = s.client, t.table = s.table, t.watch = s.watch, t.edge = s.edge,
         \A d \in Conns : d # c => t.conn[d] = s.conn[d],
         Elsewhere(s, t, c), Single(t, c), Queued(t, c) # {} => Listed(s, c),
         Flow(t.conn[c], s.client[c], Queued(t, c), Working(t, c)),
         t.conn[c].fd = s.conn[c].fd, t.conn[c].alive = s.conn[c].alive,
         t.conn[c].keepalive = s.conn[c].keepalive, s.conn[c].requests # <<>>,
         t.conn[c].custom \/ (\E i \in DOMAIN t.conn[c].requests : t.conn[c].requests[i].kind = "upgrade")
           => s.conn[c].keepalive
  PROVE  \A x : Fit(t, x)
<1>1. \A d \in Conns : d # c => Unmoved(s, t, d)
  BY DEF Elsewhere, Unmoved, Listed
<1>2. Listed(t, c) <=> Listed(s, c)
  BY DEF Listed
<1>3. FlowAt(t, c)
  BY DEF FlowAt
<1>4. Life(s.conn[c], s.client[c], Queued(s, c), Working(s, c), Listed(s, c), s.watch[s.conn[c].fd])
  BY DEF Fit, At, LifeAt
<1>5. Listed(s, c) => s.conn[c].alive
  BY DEF AliveAt
<1>6. Life(t.conn[c], t.client[c], Queued(t, c), Working(t, c), Listed(t, c), t.watch[t.conn[c].fd])
  <2> DEFINE k == s.conn[c]
             l == t.conn[c]
             m == s.client[c]
             A == Queued(t, c)
             J == Working(t, c)
             a == Listed(s, c)
             b == Listed(t, c)
             w == s.watch[k.fd]
  <2>1. t.client[c] = m /\ t.watch[l.fd] = w /\ l.alive = k.alive /\ l.keepalive = k.keepalive
        /\ k.requests # <<>> /\ (A # {} => a) /\ (b <=> a) /\ (a => k.alive)
    BY <1>2, <1>5
  <2>2. l.custom \/ (\E i \in DOMAIN l.requests : l.requests[i].kind = "upgrade") => k.keepalive
    OBVIOUS
  <2>3. Life(k, m, Queued(s, c), Working(s, c), a, w)
    BY <1>4
  <2> HIDE DEF k, l, m, A, J, a, b, w
  <2>4. Life(l, m, A, J, b, w)
    BY <2>1, <2>2, <2>3 DEF Life
  <2> QED
    BY <2>1, <2>4 DEF k, l, m, A, J, a, b, w
<1>7. At(t, c)
  BY <1>3, <1>6 DEF At, LifeAt
<1>8. EdgeInv(t) /\ AliveAt(t, c)
  BY <1>2, <1>5 DEF EdgeInv, Fit, AliveAt
<1> QED
  BY <1>1, <1>7, <1>8, FitMove

\* A request of a connection is one of those behind it.
LEMMA TailKinds ==
  ASSUME NEW q \in Seq(Request), q # <<>>
  PROVE  /\ (\E i \in DOMAIN Tail(q) : Tail(q)[i].kind = "upgrade")
               => \E i \in DOMAIN q : q[i].kind = "upgrade"
         /\ Head(q).kind = "upgrade" => \E i \in DOMAIN q : q[i].kind = "upgrade"
<1> DEFINE S == Request
<1>0. q \in Seq(S)
  OBVIOUS
<1> HIDE DEF S
<1>1. /\ Tail(q) \in Seq(S) /\ Len(q) \in Nat \ {0} /\ Len(Tail(q)) = Len(q) - 1 /\ Head(q) = q[1]
      /\ \A i \in 1 .. Len(Tail(q)) : Tail(q)[i] = q[i + 1]
  BY <1>0, QueuePop
<1>2. DOMAIN q = 1 .. Len(q) /\ DOMAIN Tail(q) = 1 .. Len(Tail(q))
  BY <1>0, <1>1
<1>3. 1 \in DOMAIN q /\ \A i \in DOMAIN Tail(q) : i + 1 \in DOMAIN q
  BY <1>1, <1>2
<1> QED
  BY <1>1, <1>2, <1>3

\* HandleWaitingRequests of a connection that is not both listed and dead.
LEMMA FitHandle ==
  ASSUME NEW s, NEW c \in Conns, Fit(s, c), AliveAt(s, c), s.conn[c].state = "open",
         s.loop \in {"events", "answers"},
         s.loop = "answers" /\ s.conn[c].requests # <<>> => s.client[c].early
  PROVE  (\A x : Fit(HandleWaitingRequests(s, c), x)) /\ Blamed(HandleWaitingRequests(s, c))
<1> DEFINE k == s.conn[c]
           q == k.requests
           h == Head(q)
           l == [k EXCEPT !.waiting = TRUE, !.requests = Tail(q)]
           u == [s EXCEPT !.conn[c].waiting = TRUE, !.conn[c].requests = Tail(@)]
           t == HandleWaitingRequests(s, c)
<1>1. /\ s \in States /\ k \in Connection /\ s.client[c] \in Client
      /\ Queued(s, c) \in SUBSET Response /\ Working(s, c) \in SUBSET Nat
      /\ Single(s, c) /\ Flow(k, s.client[c], Queued(s, c), Working(s, c))
      /\ Life(k, s.client[c], Queued(s, c), Working(s, c), Listed(s, c), s.watch[k.fd])
      /\ k.state = "open"
  <2>1. s \in States /\ At(s, c)
    BY DEF Fit, Good
  <2> QED
    BY <2>1, AtForm, AtTypes
<1>2. Kept(s, t, c)
  BY HandleWaitingGood DEF Fit
<1>3. ASSUME t = s PROVE (\A x : Fit(t, x)) /\ Blamed(t)
  BY <1>3 DEF Fit, Blamed
<1>4. CASE k.waiting \/ q = <<>>
  BY <1>3, <1>4 DEF HandleWaitingRequests
<1>5. CASE ~(k.waiting \/ q = <<>>)
  <2>1. q \in Seq(Request) /\ q # <<>> /\ ~k.waiting
    BY <1>1, <1>5 DEF Connection
  <2>2. h \in Request /\ Tail(q) \in Seq(Request) /\ h.n \in Nat
    BY <2>1, RequestPop
  <2>3. /\ (\E i \in DOMAIN Tail(q) : Tail(q)[i].kind = "upgrade")
               => \E i \in DOMAIN q : q[i].kind = "upgrade"
        /\ h.kind = "upgrade" => \E i \in DOMAIN q : q[i].kind = "upgrade"
    BY <2>1, TailKinds
  <2>4. (k.custom \/ \E i \in DOMAIN q : q[i].kind = "upgrade") => k.keepalive
    BY <1>1 DEF Life
  <2>5. /\ l \in Connection /\ l.state = "open" /\ l.fd = k.fd /\ l.alive = k.alive
        /\ l.keepalive = k.keepalive /\ l.custom = k.custom /\ l.waiting /\ l.requests = Tail(q)
        /\ l.send_buffer = k.send_buffer /\ l.resps = k.resps
    BY <1>1, <2>2 DEF Connection
  <2>6. u = [s EXCEPT !.conn[c] = l]
    BY <1>1 DEF States
  <2> HIDE DEF u, l
  <2>7. /\ u \in States /\ u.conn[c] = l
        /\ \A d \in Conns \ {c} : u.conn[d] = s.conn[d]
        /\ u.client = s.client /\ u.table = s.table /\ u.watch = s.watch /\ u.edge = s.edge
        /\ u.rq = s.rq /\ u.cq = s.cq /\ u.jobs = s.jobs /\ u.loop = s.loop
    BY <1>1, <2>5, <2>6, PutConn
  <2>8. Good(u)
    <3>1. Owned(k.send_buffer, c) /\ Owned(k.resps, c) /\ Good(s)
      BY DEF Fit, Good, OwnInv
    <3>2. Good([s EXCEPT !.conn[c] = l])
      BY <2>5, <3>1, GoodConn
    <3> QED
      BY <2>6, <3>2
  <2>9. \A d : /\ Queued(u, d) = Queued(s, d) /\ Working(u, d) = Working(s, d)
               /\ OneQueued(u, d) <=> OneQueued(s, d)
    BY <2>7 DEF Queued, Working, OneQueued
  <2>10. Queued(s, c) = {} /\ Working(s, c) = {}
    <3>1. Out({}, {}) \subseteq {Head(k.requests).n}
      BY DEF Out
    <3>2. l.state = k.state /\ l.requests = Tail(k.requests) /\ k.requests # <<>>
      BY <1>1, <2>1, <2>5
    <3> DEFINE m == s.client[c]
               A == Queued(s, c)
               J == Working(s, c)
               B == {}
    <3>3. /\ k \in Connection /\ m \in Client /\ A \in SUBSET Response /\ J \in SUBSET Nat
          /\ Flow(k, m, A, J) /\ ~k.waiting
      BY <1>1, <2>1
    <3>4. Out(B, B) \subseteq {Head(k.requests).n} /\ (Plain(k) => \A r \in B : r.form # "custom")
      BY <3>1
    <3>5. l.waiting /\ l.custom = k.custom /\ l.resps = k.resps /\ l.send_buffer = k.send_buffer
      BY <2>5
    <3> HIDE DEF k, m, A, J, B
    <3>6. A = {} /\ J = {} /\ Flow(l, m, B, B)
      BY <3>2, <3>3, <3>4, <3>5, FlowStart
    <3> QED
      BY <3>6 DEF A, J
  <2>11. Queued(u, c) = {} /\ Working(u, c) = {} /\ Single(u, c) /\ u.conn[c].state = "open"
    BY <1>1, <2>5, <2>7, <2>9, <2>10 DEF Single
  <2>12. ASSUME NEW v, u.loop = v.loop \/ (u.loop = "answers" /\ v.loop = "stuck"), v.client = s.client
         PROVE  Blamed(v)
    BY <2>1, <2>7, <2>12 DEF Blamed
  <2>13. ASSUME NEW v, Elsewhere(u, v, c) PROVE Elsewhere(s, v, c)
    BY <2>9, <2>13 DEF Elsewhere
  <2>14. CASE ~(h.kind = "upgrade" /\ ~k.custom)
    <3>1. t = HandleRequest(u, c, h)
      BY <1>5, <2>14 DEF HandleWaitingRequests, u
    <3> HIDE DEF t, h
    <3>2. /\ Started(u, t, c, h.n)
          /\ u.conn[c].custom \/ \A a \in Queued(t, c) : a.form = "http"
          /\ t.loop = u.loop \/ (u.loop = "answers" /\ t.loop = "stuck")
      BY <2>2, <2>8, <2>11, <3>1, HandleRequestStarts
    <3>3. Flow(l, s.client[c], Queued(t, c), Working(t, c))
      <4>1. Plain(k) => \A r \in Queued(t, c) : r.form # "custom"
        BY <2>5, <2>7, <3>2 DEF Plain, Fit
      <4>2. Out(Queued(t, c), Working(t, c)) \subseteq {Head(k.requests).n}
        BY <3>2 DEF Started, h
      <4>3. l.state = k.state /\ l.requests = Tail(k.requests) /\ k.requests # <<>>
        BY <1>1, <2>1, <2>5
      <4> DEFINE m == s.client[c]
                 A == Queued(s, c)
                 J == Working(s, c)
                 B == Queued(t, c)
                 K == Working(t, c)
      <4>4. /\ k \in Connection /\ m \in Client /\ A \in SUBSET Response /\ J \in SUBSET Nat
            /\ Flow(k, m, A, J) /\ ~k.waiting
        BY <1>1, <2>1
      <4>5. /\ Out(B, K) \subseteq {Head(k.requests).n} /\ (Plain(k) => \A r \in B : r.form # "custom")
            /\ l.waiting /\ l.custom = k.custom /\ l.resps = k.resps /\ l.send_buffer = k.send_buffer
        BY <2>5, <4>1, <4>2
      <4> HIDE DEF k, m, A, J, B, K
      <4>6. Flow(l, m, B, K)
        BY <4>3, <4>4, <4>5, FlowStart
      <4> QED
        BY <4>6 DEF m, B, K
    <3>4. /\ t.conn = u.conn /\ t.client = s.client /\ t.table = s.table /\ t.watch = s.watch
          /\ t.edge = s.edge /\ Single(t, c) /\ Elsewhere(s, t, c)
          /\ Queued(t, c) # {} => Listed(s, c)
      BY <2>5, <2>7, <2>13, <3>2 DEF Started, Listed
    <3>5. Good(t)
      BY <1>2 DEF Kept
    <3>6. t.conn[c] = l /\ \A d \in Conns : d # c => t.conn[d] = s.conn[d]
      BY <2>7, <3>4
    <3>7. l.custom \/ (\E i \in DOMAIN l.requests : l.requests[i].kind = "upgrade") => k.keepalive
      BY <2>3, <2>4, <2>5
    <3>8. \A x : Fit(t, x)
      BY <2>1, <2>5, <3>3, <3>4, <3>5, <3>6, <3>7, FitStarted, ZenonT(60)
    <3> QED
      BY <2>12, <3>2, <3>4, <3>8 DEF t
  <2>15. CASE h.kind = "upgrade" /\ ~k.custom
    <3> DEFINE j == [l EXCEPT !.custom = TRUE]
               v == [u EXCEPT !.conn[c].custom = TRUE]
               y == onSendCustomResponse(v, c, h.n)
               z == [j EXCEPT !.waiting = FALSE, !.requests = <<>>]
    <3>1. t = [y EXCEPT !.conn[c].waiting = FALSE, !.conn[c].requests = <<>>]
      BY <1>5, <2>15 DEF HandleWaitingRequests, checkUpgrade, u
    <3>2. j \in Connection /\ j.state = "open" /\ j.fd = k.fd /\ j.send_buffer = k.send_buffer
          /\ j.resps = k.resps
      BY <2>5 DEF Connection
    <3>3. v = [u EXCEPT !.conn[c] = j]
      BY <2>7 DEF States
    <3>6. /\ z.custom /\ ~z.waiting /\ z.requests = <<>> /\ z.state = k.state /\ z.resps = k.resps
          /\ z.send_buffer = k.send_buffer /\ z.fd = k.fd /\ z.alive = k.alive
          /\ z.keepalive = k.keepalive
      BY <2>5, <3>2 DEF Connection
    <3> HIDE DEF v, z, j
    <3>4. /\ v \in States /\ v.conn[c] = j
          /\ \A d \in Conns \ {c} : v.conn[d] = u.conn[d]
          /\ v.client = u.client /\ v.table = u.table /\ v.watch = u.watch /\ v.edge = u.edge
          /\ v.rq = u.rq /\ v.cq = u.cq /\ v.jobs = u.jobs /\ v.loop = u.loop
      BY <2>7, <3>2, <3>3, PutConn
    <3>5. Good(v)
      <4>1. Owned(k.send_buffer, c) /\ Owned(k.resps, c)
        BY DEF Fit, Good, OwnInv
      <4>2. u.conn[c].state = j.state /\ u.conn[c].fd = j.fd
        BY <2>5, <2>7, <3>2
      <4>3. Good([u EXCEPT !.conn[c] = j])
        BY <2>8, <3>2, <4>1, <4>2, GoodConn
      <4> QED
        BY <3>3, <4>3
    <3>7. \A d : /\ Queued(v, d) = Queued(u, d) /\ Working(v, d) = Working(u, d)
                 /\ OneQueued(v, d) <=> OneQueued(u, d)
      BY <3>4 DEF Queued, Working, OneQueued
    <3>8. Started(v, y, c, h.n) /\ Working(y, c) = {} /\ y.loop = v.loop
      <4>1. Queued(v, c) = {} /\ Working(v, c) = {} /\ Single(v, c) /\ v.conn[c].state = "open"
        BY <2>11, <3>2, <3>4, <3>7, SMTT(30) DEF Single
      <4> HIDE DEF h
      <4> QED
        BY <2>2, <3>5, <4>1, SendStarts
    <3>9. y \in States
      <4>1. v.conn[c].state = "open"
        BY <3>2, <3>4
      <4>2. Kept(v, y, c)
        BY <2>2, <3>5, <4>1, SendResponseGood
      <4> QED
        BY <4>2 DEF Kept, Good
    <3> HIDE DEF y
    <3>10. y.conn = v.conn /\ y.client = v.client /\ y.table = v.table /\ y.watch = v.watch
           /\ y.edge = v.edge
      BY <3>8 DEF Started
    <3>11. /\ t.conn = [y.conn EXCEPT ![c] = z]
           /\ t.client = y.client /\ t.table = y.table /\ t.watch = y.watch /\ t.edge = y.edge
           /\ t.rq = y.rq /\ t.cq = y.cq /\ t.jobs = y.jobs /\ t.loop = y.loop
      <4>1. y.conn[c] = j
        BY <3>4, <3>10
      <4>2. t = [y EXCEPT !.conn[c] = z]
        BY <3>1, <3>9, <4>1 DEF States, z
      <4> HIDE DEF t
      <4> QED
        BY <3>9, <4>2 DEF States
    <3> HIDE DEF t
    <3>12. \A d : /\ Queued(t, d) = Queued(y, d) /\ Working(t, d) = Working(y, d)
                  /\ OneQueued(t, d) <=> OneQueued(y, d)
      BY <3>11 DEF Queued, Working, OneQueued
    <3>13. t.conn[c] = z /\ \A d \in Conns : d # c => t.conn[d] = s.conn[d]
      <4>1. y.conn \in [Conns -> Connection]
        BY <3>9, StateForm
      <4> QED
        BY <2>7, <3>4, <3>10, <3>11, <4>1
    <3>14. /\ Out(Queued(t, c), {}) \subseteq {h.n} /\ Working(t, c) = {} /\ Single(t, c)
           /\ Queued(t, c) # {} => Listed(s, c)
      BY <2>7, <3>2, <3>4, <3>8, <3>12 DEF Started, Single, Listed
    <3>15. Elsewhere(s, t, c)
      BY <2>9, <3>7, <3>8, <3>12 DEF Started, Elsewhere
    <3>16. Flow(z, s.client[c], Queued(t, c), Working(t, c))
      <4>1. Out(Queued(t, c), {}) \subseteq {Head(k.requests).n} /\ Head(k.requests).kind = "upgrade"
        BY <2>15, <3>14
      <4>2. k.requests # <<>>
        BY <2>1
      <4> HIDE DEF k, h
      <4>3. Flow(z, s.client[c], Queued(t, c), {})
        BY <1>1, <2>1, <2>15, <3>6, <4>1, <4>2, FlowUpgrade
      <4> QED
        BY <3>14, <4>3
    <3>17. /\ t.client = s.client /\ t.table = s.table /\ t.watch = s.watch /\ t.edge = s.edge
           /\ Good(t)
      BY <1>2, <2>7, <3>4, <3>10, <3>11 DEF Kept
    <3>18. k.keepalive
      BY <2>3, <2>4, <2>15
    <3>19. \A x : Fit(t, x)
      BY <2>1, <3>6, <3>13, <3>14, <3>15, <3>16, <3>17, <3>18, FitStarted
    <3>20. Blamed(t)
      BY <2>12, <3>4, <3>8, <3>11, <3>17
    <3> QED
      BY <3>19, <3>20 DEF t
  <2> QED
    BY <2>14, <2>15
<1> QED
  BY <1>4, <1>5

-------------------------------------------------------------------------------
(* HttpConnection: sending and receiving. *)

\* What sending and receiving leave alone: all but connection c and its client.
Alone(s, t, c) ==
  /\ t.table = s.table /\ t.watch = s.watch /\ t.edge = s.edge
  /\ t.rq = s.rq /\ t.cq = s.cq /\ t.jobs = s.jobs /\ t.loop = s.loop
  /\ \A d \in Conns : d # c => t.conn[d] = s.conn[d] /\ t.client[d] = s.client[d]

\* A connection and its client are replaced.
LEMMA PutBoth ==
  ASSUME NEW s \in States, NEW c \in Conns, NEW k \in Connection, NEW m \in Client
  PROVE  LET t == [s EXCEPT !.conn[c] = k, !.client[c] = m] IN
         t \in States /\ t.conn[c] = k /\ t.client[c] = m /\ Alone(s, t, c)
BY DEF States, Alone

\* What stays of a connection and of its client when something is sent.
SentOf(k, l) ==
  /\ l.state = k.state /\ l.fd = k.fd /\ l.keepalive = k.keepalive /\ l.custom = k.custom
  /\ l.waiting = k.waiting /\ l.requests = k.requests

Told(m, p) ==
  /\ p.asked = m.asked /\ p.early = m.early /\ p.closed = m.closed /\ p.shut = m.shut

LEMMA SendFlow ==
  ASSUME NEW s \in States, NEW c \in Conns, NEW o \in Outcomes, NEW A, NEW J,
         Flow(s.conn[c], s.client[c], A, J)
  PROVE  LET k == s.conn[c]
             t == performSend(s, c, o).s
         IN  /\ t \in States /\ Alone(s, t, c)
             /\ SentOf(k, t.conn[c]) /\ Told(s.client[c], t.client[c])
             /\ \/ t.conn[c].alive = k.alive \/ o = "fails"
                \/ ~k.keepalive /\ t.conn[c].age = k.age
             /\ Flow(t.conn[c], t.client[c], A, J)
<1> DEFINE k    == s.conn[c]
           m    == s.client[c]
           load == [k EXCEPT !.send_buffer = <<Head(k.resps)>>, !.resps = Tail(@)]
           full == IF k.send_buffer = <<>> THEN load ELSE k
           sent == [full EXCEPT !.ever_sent = TRUE]
           Put(l, p) == [s EXCEPT !.conn[c] = l, !.client[c] = p]
           t == performSend(s, c, o).s
           Fits(l, p) == /\ SentOf(k, l) /\ Told(m, p) /\ Flow(l, p, A, J)
                         /\ l.alive = k.alive \/ o = "fails" \/ (~k.keepalive /\ l.age = k.age)
           Goal(v) == v \in States /\ Alone(s, v, c) /\ Fits(v.conn[c], v.client[c])
<1>1. k \in Connection /\ m \in Client /\ Flow(k, m, A, J)
  BY StateForm
<1>2. ASSUME NEW l \in Connection, NEW p \in Client, Fits(l, p)
      PROVE  Goal(Put(l, p))
  <2>1. Put(l, p) \in States /\ Put(l, p).conn[c] = l /\ Put(l, p).client[c] = p
        /\ Alone(s, Put(l, p), c)
    BY PutBoth
  <2> HIDE DEF Put, Fits
  <2> QED
    BY <1>2, <2>1
<1>3. ASSUME NEW l \in Connection PROVE [s EXCEPT !.conn[c] = l] = Put(l, m)
  BY DEF States
<1>4. Told(m, m)
  BY DEF Told
<1>5. ASSUME NEW l, SentOf(k, l), l.resps = k.resps, l.send_buffer = k.send_buffer
      PROVE  Flow(l, m, A, J)
  BY <1>1, <1>5, FlowSame DEF SentOf
<1>6. CASE k.send_buffer = <<>> /\ k.ever_sent /\ ~k.keepalive
  <2> DEFINE l == [k EXCEPT !.alive = FALSE]
  <2>1. /\ l \in Connection /\ SentOf(k, l) /\ l.resps = k.resps /\ l.send_buffer = k.send_buffer
        /\ l.age = k.age
    BY <1>1 DEF Connection, SentOf
  <2>2. t = [s EXCEPT !.conn[c] = l]
    BY <1>6 DEF performSend
  <2> HIDE DEF l, t
  <2>3. Fits(l, m)
    BY <1>4, <1>5, <1>6, <2>1
  <2> HIDE DEF Goal, Fits, Put
  <2>4. Goal(t)
    BY <1>1, <1>2, <1>3, <2>1, <2>2, <2>3
  <2> QED
    BY <2>4 DEF Goal, Fits, t
<1>7. CASE ~(k.send_buffer = <<>> /\ k.ever_sent /\ ~k.keepalive)
           /\ k.send_buffer = <<>> /\ k.resps = <<>>
  <2>1. t = [s EXCEPT !.conn[c] = k]
    BY <1>7 DEF performSend
  <2>2. Fits(k, m)
    BY <1>1, <1>4 DEF SentOf
  <2> HIDE DEF k, t
  <2> HIDE DEF Goal, Fits, Put
  <2>3. Goal(t)
    BY <1>1, <1>2, <1>3, <2>1, <2>2
  <2> QED
    BY <2>3 DEF Goal, Fits, t, k
<1>8. CASE ~(k.send_buffer = <<>> /\ k.ever_sent /\ ~k.keepalive)
           /\ ~(k.send_buffer = <<>> /\ k.resps = <<>>)
  <2>1. k.resps \in Seq(Response) /\ k.send_buffer \in Seq(Response)
    BY <1>1 DEF Connection
  <2>2. /\ full \in Connection /\ full.send_buffer # <<>> /\ SentOf(k, full) /\ full.alive = k.alive
        /\ full.age = k.age /\ Flow(full, m, A, J)
    <3>1. CASE k.send_buffer # <<>>
      BY <1>1, <3>1 DEF SentOf
    <3>2. CASE k.send_buffer = <<>>
      <4> DEFINE h == Head(k.resps)
                 q == Tail(k.resps)
                 b == <<h>>
      <4>1. h \in Response /\ q \in Seq(Response)
        BY <1>8, <2>1, <3>2, QueuePop
      <4> HIDE DEF h
      <4>2. b \in Seq(Response) /\ b # <<>>
        BY <4>1
      <4>3. load = [k EXCEPT !.send_buffer = b, !.resps = q]
        BY DEF h
      <4> HIDE DEF b, q, load
      <4>4. /\ load \in Connection /\ SentOf(k, load) /\ load.alive = k.alive /\ load.age = k.age
            /\ load.send_buffer = b /\ load.resps = q
        BY <1>1, <4>1, <4>2, <4>3 DEF Connection, SentOf
      <4>5. Flow(load, m, A, J)
        <5>1. load.send_buffer = <<Head(k.resps)>> /\ load.resps = Tail(k.resps) /\ k.resps # <<>>
          BY <1>8, <3>2, <4>4 DEF b, q, h
        <5>2. /\ load.state = k.state /\ load.custom = k.custom /\ load.waiting = k.waiting
              /\ load.requests = k.requests
          BY <4>4 DEF SentOf
        <5> HIDE DEF k, m
        <5> QED
          BY <1>1, <3>2, <5>1, <5>2, FlowLoad
      <4> QED
        BY <3>2, <4>2, <4>4, <4>5
    <3> QED
      BY <3>1, <3>2
  <2> DEFINE e == full.send_buffer[1]
             dead == [sent EXCEPT !.alive = FALSE]
             gone == [Active(sent) EXCEPT !.send_buffer = <<>>]
             p == [m EXCEPT !.got = Append(@, e)]
  <2>3. \/ o = "fails" /\ t = [s EXCEPT !.conn[c] = dead]
        \/ t = [s EXCEPT !.conn[c] = sent]
        \/ t = [s EXCEPT !.conn[c] = Active(sent)]
        \/ t = [s EXCEPT !.conn[c] = gone, !.client[c].got = Append(@, e)]
    BY <1>8 DEF performSend, Outcomes
  <2>4. [s EXCEPT !.conn[c] = gone, !.client[c].got = Append(@, e)] = Put(gone, p)
    BY DEF States
  <2>5. e \in Response
    <3> DEFINE b == full.send_buffer
    <3>1. b \in Seq(Response) /\ b # <<>>
      BY <2>2 DEF Connection
    <3> HIDE DEF b, full
    <3>2. b[1] \in Response
      BY <3>1, QueuePop
    <3> QED
      BY <3>2 DEF b
  <2> HIDE DEF full
  <2>6. /\ sent \in Connection /\ SentOf(k, sent) /\ sent.alive = k.alive /\ sent.age = k.age
        /\ sent.resps = full.resps /\ sent.send_buffer = full.send_buffer
    BY <2>2 DEF Connection, SentOf
  <2>7. ASSUME NEW l, SentOf(k, l), l.resps = full.resps, l.send_buffer = full.send_buffer
        PROVE  Flow(l, m, A, J)
    <3>1. /\ l.state = full.state /\ l.custom = full.custom /\ l.waiting = full.waiting
          /\ l.requests = full.requests
      BY <2>2, <2>7 DEF SentOf
    <3> HIDE DEF k, m
    <3> QED
      BY <2>2, <2>7, <3>1, FlowSame
  <2> HIDE DEF sent
  <2>8. Fits(sent, m)
    BY <1>4, <2>6, <2>7
  <2>9. dead \in Connection /\ (o = "fails" => Fits(dead, m))
    <3>1. /\ dead \in Connection /\ SentOf(k, dead) /\ dead.resps = full.resps
          /\ dead.send_buffer = full.send_buffer
      BY <2>6 DEF Connection, SentOf
    <3> HIDE DEF dead
    <3> QED
      BY <1>4, <2>7, <3>1
  <2>10. /\ Active(sent) \in Connection /\ SentOf(k, Active(sent)) /\ Active(sent).alive = k.alive
         /\ Active(sent).resps = full.resps /\ Active(sent).send_buffer = full.send_buffer
    BY <2>6, ActiveForm DEF SentOf
  <2> DEFINE a == Active(sent)
  <2> HIDE DEF a
  <2>11. /\ a \in Connection /\ SentOf(k, a) /\ a.alive = k.alive
         /\ a.resps = full.resps /\ a.send_buffer = full.send_buffer
    BY <2>10 DEF a
  <2>12. Fits(a, m) /\ Flow(a, m, A, J)
    BY <1>4, <2>7, <2>11
  <2>13. /\ gone \in Connection /\ SentOf(k, gone) /\ gone.alive = k.alive
         /\ gone.resps = a.resps /\ gone.send_buffer = <<>>
    <3>1. <<>> \in Seq(Response) /\ gone = [a EXCEPT !.send_buffer = <<>>]
      BY DEF a
    <3> HIDE DEF gone
    <3> QED
      BY <2>11, <3>1 DEF Connection, SentOf
  <2> HIDE DEF gone
  <2>14. /\ p \in Client /\ Told(m, p) /\ p.got = Append(m.got, e) /\ p.arrived = m.arrived
         /\ p.binary = m.binary
    <3>1. m.got \in Seq(Response)
      BY <1>1 DEF Client
    <3>2. Append(m.got, e) \in Seq(Response)
      BY <2>5, <3>1, QueuePush
    <3> QED
      BY <1>1, <3>2 DEF Client, Told
  <2> HIDE DEF p
  <2>15. Flow(gone, p, A, J)
    <3>1. a.send_buffer # <<>> /\ p.got = Append(m.got, a.send_buffer[1])
      BY <2>2, <2>11, <2>14
    <3>2. /\ gone.state = a.state /\ gone.custom = a.custom /\ gone.waiting = a.waiting
          /\ gone.requests = a.requests
      BY <2>11, <2>13 DEF SentOf
    <3>3. p.asked = m.asked /\ p.early = m.early
      BY <2>14 DEF Told
    <3> HIDE DEF m, k, e
    <3> QED
      BY <1>1, <2>11, <2>12, <2>13, <2>14, <3>1, <3>2, <3>3, FlowGot
  <2>16. Fits(gone, p)
    BY <2>13, <2>14, <2>15
  <2> HIDE DEF Goal, Fits, Put, dead, e, t
  <2>17. Goal(t)
    <3>1. CASE o = "fails" /\ t = [s EXCEPT !.conn[c] = dead]
      BY <1>1, <1>2, <1>3, <2>9, <3>1
    <3>2. CASE t = [s EXCEPT !.conn[c] = sent]
      BY <1>1, <1>2, <1>3, <2>6, <2>8, <3>2
    <3>3. CASE t = [s EXCEPT !.conn[c] = Active(sent)]
      BY <1>1, <1>2, <1>3, <2>11, <2>12, <3>3 DEF a
    <3>4. CASE t = [s EXCEPT !.conn[c] = gone, !.client[c].got = Append(@, e)]
      BY <1>2, <2>4, <2>13, <2>14, <2>16, <3>4
    <3> QED
      BY <2>3, <3>1, <3>2, <3>3, <3>4
  <2> QED
    BY <2>17 DEF Goal, Fits, t
<1> QED
  BY <1>6, <1>7, <1>8

Sendable(s, c) == Queued(s, c) # {} => Listed(s, c) /\ s.watch[s.conn[c].fd] # "edge in"

\* performSend of an open connection: nothing is queued for it, or it is waited for
\* until it can be sent to.
LEMMA FitSend ==
  ASSUME NEW s, NEW c \in Conns, Fit(s, c), s.conn[c].state = "open", NEW o \in Outcomes,
         o = "fails" => s.client[c].closed \/ s.client[c].shut,
         Sendable(s, c)
  PROVE  LET k == s.conn[c]
             t == performSend(s, c, o).s
         IN  /\ Fit(t, c) /\ Alone(s, t, c)
             /\ SentOf(k, t.conn[c]) /\ Told(s.client[c], t.client[c])
             /\ \/ t.conn[c].alive = k.alive \/ s.client[c].closed \/ s.client[c].shut
                \/ ~k.keepalive /\ t.conn[c].age = k.age
<1> DEFINE k == s.conn[c]
           m == s.client[c]
           A == Queued(s, c)
           J == Working(s, c)
           t == performSend(s, c, o).s
           l == t.conn[c]
           p == t.client[c]
           w == s.watch[k.fd]
           a == Listed(s, c)
<1>1. /\ s \in States /\ A \in SUBSET Response /\ J \in SUBSET Nat
      /\ Flow(k, m, A, J) /\ Life(k, m, A, J, a, w)
  <2>1. s \in States /\ At(s, c)
    BY DEF Fit, Good
  <2> QED
    BY <2>1, AtForm, AtTypes
<1>2. Good(t)
  BY PerformSendGood DEF Fit, Kept
<1>3. /\ Alone(s, t, c) /\ SentOf(k, l) /\ Told(m, p) /\ Flow(l, p, A, J)
      /\ l.alive = k.alive \/ o = "fails" \/ (~k.keepalive /\ l.age = k.age)
  <2> HIDE DEF A, J
  <2> QED
    BY <1>1, SendFlow
<1>4. A # {} => Out(A, J) # {}
  BY <1>1, OutForm
<1>5. Life(l, p, A, J, a, w)
  <2>1. l.keepalive = k.keepalive /\ l.custom = k.custom /\ l.requests = k.requests
    BY <1>3 DEF SentOf
  <2>2. p.asked = m.asked /\ p.early = m.early /\ p.closed = m.closed /\ p.shut = m.shut
    BY <1>3 DEF Told
  <2>3. (o = "fails" => m.closed \/ m.shut) /\ (A # {} => a /\ w # "edge in")
    BY DEF Sendable
  <2> HIDE DEF k, m, A, J, t, l, p, w, a
  <2>4. A # {} /\ ~l.alive => Excuse(p)
    BY <1>1, <1>3, <1>4, <2>1, <2>2, <2>3 DEF Life, Excuse
  <2> QED
    BY <1>1, <2>1, <2>2, <2>3, <2>4 DEF Life
<1>6. Fit(t, c)
  <2>1. /\ t.table = s.table /\ t.watch = s.watch /\ t.edge = s.edge /\ t.rq = s.rq /\ t.cq = s.cq
        /\ t.jobs = s.jobs /\ \A d \in Conns : d # c => t.conn[d] = s.conn[d] /\ t.client[d] = s.client[d]
        /\ t.conn[c].fd = s.conn[c].fd
    BY <1>3 DEF Alone, SentOf
  <2> HIDE DEF t
  <2> QED
    BY <1>2, <1>3, <1>5, <2>1, FitPut
<1> QED
  BY <1>3, <1>6

\* Nothing that stays the same can hold of a dead connection: why one is thrown away.
LEMMA DeadForm ==
  ASSUME NEW k \in Connection
  PROVE  notDead(k) <=> k.alive /\ ~Aged(k)
<1>1. k.age \in {"young", "old", "idle"} /\ k.custom \in BOOLEAN
  BY DEF Connection
<1> QED
  BY <1>1 DEF notDead, Aged

\* The connections of some sockets leave the table: dead ones, or ones to be kept.
LEMMA FitErase ==
  ASSUME NEW s, NEW x, Fit(s, x), NEW fs \in SUBSET Fds,
         \A f \in fs : s.table[f] # NoConn =>
           ~notDead(s.conn[s.table[f]]) \/ s.conn[s.table[f]].keepalive,
         \A f \in Fds : s.table[f] = x /\ x \in Conns => f \in fs
  PROVE  \A y : Fit(Erase(s, fs), y)
<1> DEFINE t == Erase(s, fs)
<1>1. /\ t \in States
      /\ t.client = s.client /\ t.conn = s.conn
      /\ t.rq = s.rq /\ t.cq = s.cq /\ t.jobs = s.jobs
      /\ \A f \in Fds : /\ t.watch[f] = IF f \in fs THEN "nothing" ELSE s.watch[f]
                        /\ t.table[f] = IF f \in fs THEN NoConn ELSE s.table[f]
      /\ t.edge = s.edge \ fs
  BY DEF Fit, Good, States, Erase, delSocket, Unlisted
<1>2. Good(t)
  BY EraseGood DEF Fit
<1> HIDE DEF t
<1>3. \A d : /\ Queued(t, d) = Queued(s, d) /\ Working(t, d) = Working(s, d)
             /\ OneQueued(t, d) <=> OneQueued(s, d)
  BY <1>1 DEF Queued, Working, OneQueued
<1>4. EdgeInv(t)
  BY <1>1 DEF EdgeInv, Fit
<1>5. ASSUME NEW d \in Conns PROVE At(t, d) /\ AliveAt(t, d)
  <2>1. s \in States /\ At(s, d) /\ (d # x => AliveAt(s, d))
    BY DEF Fit, Good
  <2>2. CASE s.conn[d].state # "open"
    <3>1. Unmoved(s, t, d)
      BY <1>1, <1>3, <2>2 DEF Unmoved
    <3>2. AliveAt(t, d)
      BY <1>1, <2>2 DEF AliveAt
    <3> QED
      BY <2>1, <3>1, <3>2, UnmovedAt
  <2>3. CASE s.conn[d].state = "open" /\ s.conn[d].fd \notin fs
    <3>1. s.conn[d].fd \in Fds
      BY <2>3 DEF Fit, Good, TableInv
    <3>2. Unmoved(s, t, d)
      BY <1>1, <1>3, <2>3, <3>1 DEF Unmoved, Listed
    <3>3. AliveAt(s, d)
      BY <2>1, <2>3, <3>1 DEF AliveAt, Listed
    <3> QED
      BY <2>1, <3>2, <3>3, UnmovedAt
  <2>4. CASE s.conn[d].state = "open" /\ s.conn[d].fd \in fs
    <3> DEFINE k == s.conn[d]
               m == s.client[d]
               A == Queued(s, d)
               J == Working(s, d)
    <3>1. k.fd \in Fds /\ k \in Connection /\ NoConn \notin Conns
      BY <2>1, <2>4, AtTypes, HttpServerAssumption
    <3>2. /\ Single(s, d) /\ Flow(k, m, A, J)
          /\ Life(k, m, A, J, Listed(s, d), s.watch[k.fd])
      BY <2>1, <2>4, AtForm
    <3>3. ~Listed(t, d) /\ t.conn[d] = k /\ t.client[d] = m /\ t.watch[k.fd] = "nothing"
      BY <1>1, <2>4, <3>1 DEF Listed
    <3>4. Listed(s, d) => ~k.alive \/ Aged(k) \/ k.keepalive
      BY <2>4, <3>1, DeadForm DEF Listed
    <3>5. Life(k, m, A, J, Listed(t, d), "nothing")
      <4> DEFINE a == Listed(s, d)
                 b == Listed(t, d)
                 w == s.watch[k.fd]
      <4>1. Life(k, m, A, J, a, w) /\ ~b /\ (a => ~k.alive \/ Aged(k) \/ k.keepalive)
        BY <3>2, <3>3, <3>4
      <4> HIDE DEF k, m, A, J, a, b, w
      <4>2. Life(k, m, A, J, b, "nothing")
        BY <4>1 DEF Life
      <4> QED
        BY <4>2 DEF b
    <3>6. FlowAt(t, d)
      BY <1>3, <3>2, <3>3 DEF FlowAt, Single
    <3>7. LifeAt(t, d)
      BY <1>3, <3>3, <3>5 DEF LifeAt
    <3> QED
      BY <3>3, <3>6, <3>7 DEF At, AliveAt
  <2> QED
    BY <2>2, <2>3, <2>4
<1>6. \A y : Fit(t, y)
  BY <1>2, <1>4, <1>5 DEF Fit
<1> QED
  BY <1>6 DEF t

\* Only what epoll has to report, or where the loop is, changes.
LEMMA FitQuiet ==
  ASSUME NEW s, NEW x, Fit(s, x), NEW t, Good(t), EdgeInv(t),
         t.conn = s.conn, t.client = s.client, t.table = s.table,
         \A f \in Fds : t.watch[f] = s.watch[f],
         t.rq = s.rq, t.cq = s.cq, t.jobs = s.jobs
  PROVE  Fit(t, x)
<1>1. \A d : /\ Queued(t, d) = Queued(s, d) /\ Working(t, d) = Working(s, d)
             /\ OneQueued(t, d) <=> OneQueued(s, d)
  BY DEF Queued, Working, OneQueued
<1>2. \A d \in Conns : s.conn[d].state = "open" => s.conn[d].fd \in Fds
  BY DEF Fit, Good, TableInv
<1>3. \A d \in Conns : Unmoved(s, t, d)
  BY <1>1, <1>2 DEF Unmoved, Listed
<1>4. \A d \in Conns : At(t, d) /\ (AliveAt(s, d) => AliveAt(t, d))
  BY <1>3, UnmovedAt DEF Fit
<1> QED
  BY <1>4 DEF Fit

\* enableEvents for a connection without a request in hand.
LEMMA FitEvents ==
  ASSUME NEW s, NEW c \in Conns, Fit(s, c), s.conn[c].state = "open",
         Queued(s, c) = {}, Working(s, c) = {}, s.conn[c].requests # <<>> => s.client[c].early
  PROVE  LET t == enableEvents(s, s.conn[c].fd)
         IN  /\ Fit(t, c)
             /\ t.conn = s.conn /\ t.client = s.client /\ t.table = s.table /\ t.loop = s.loop
<1> DEFINE f == s.conn[c].fd
           t == enableEvents(s, f)
<1>1. s \in States /\ TableInv(s) /\ f \in Fds
  BY DEF Fit, Good, TableInv
<1>2. /\ t.conn = s.conn /\ t.client = s.client /\ t.table = s.table /\ t.loop = s.loop
      /\ t.rq = s.rq /\ t.cq = s.cq /\ t.jobs = s.jobs
      /\ t.edge = s.edge \ {f} /\ \A g \in Fds \ {f} : t.watch[g] = s.watch[g]
  BY <1>1 DEF enableEvents, States
<1>3. Good(t)
  BY <1>1, EnableEventsGood DEF Fit, Kept
<1> HIDE DEF t
<1>4. \A d : /\ Queued(t, d) = Queued(s, d) /\ Working(t, d) = Working(s, d)
             /\ OneQueued(t, d) <=> OneQueued(s, d)
  BY <1>2 DEF Queued, Working, OneQueued
<1>5. \A d \in Conns : d # c /\ s.conn[d].state = "open" => s.conn[d].fd \in Fds \ {f}
  BY <1>1 DEF TableInv
<1>6. \A d \in Conns : d # c => Unmoved(s, t, d)
  BY <1>2, <1>4, <1>5 DEF Unmoved, Listed
<1>7. EdgeInv(t)
  BY <1>2 DEF EdgeInv, Fit
<1>8. At(s, c)
  BY DEF Fit
<1>9. Life(s.conn[c], s.client[c], {}, {}, Listed(t, c), t.watch[f])
  <2> DEFINE k == s.conn[c]
             m == s.client[c]
             w == t.watch[f]
             v == s.watch[f]
             a == Listed(s, c)
             b == Listed(t, c)
  <2>1. Life(k, m, {}, {}, a, v) /\ (k.requests # <<>> => m.early)
    BY <1>8, AtForm
  <2>2. Out({}, {}) = {}
    BY DEF Out
  <2> HIDE DEF k, m, w, v, a, b
  <2>3. Life(k, m, {}, {}, b, w)
    BY <2>1, <2>2 DEF Life
  <2> QED
    BY <2>3 DEF k, m, w, b
<1>10. At(t, c)
  <2>1. FlowAt(t, c)
    BY <1>2, <1>4, <1>8 DEF At, FlowAt, Single
  <2>2. LifeAt(t, c)
    BY <1>2, <1>4, <1>9 DEF LifeAt
  <2> QED
    BY <2>1, <2>2 DEF At
<1>11. Fit(t, c)
  BY <1>3, <1>6, <1>7, <1>10, FitMove
<1> QED
  BY <1>2, <1>11 DEF t

\* Connection c is listed, and epoll watches its socket for what arrives.
Watched(s, c) == Listed(s, c) /\ s.watch[s.conn[c].fd] = "edge in"

\* performRecv.
LEMMA FitRecv ==
  ASSUME NEW s, NEW c \in Conns, Fit(s, c), s.conn[c].state = "open", Watched(s, c)
  PROVE  LET k == s.conn[c]
             t == performRecv(s, c)
         IN  /\ Fit(t, c) /\ t.table = s.table /\ t.loop = s.loop
             /\ t.conn[c].state = "open" /\ t.conn[c].fd = k.fd
             /\ k.custom => t.conn[c].keepalive
<1> DEFINE k == s.conn[c]
           m == s.client[c]
           A == Queued(s, c)
           J == Working(s, c)
           w == s.watch[k.fd]
           a == Listed(s, c)
           data == m.arrived
           last == LastOf(data)
           new  == IF m.closed \/ m.shut THEN [k EXCEPT !.alive = FALSE]
                   ELSE IF data = <<>> THEN k
                   ELSE IF k.custom THEN [Active(k) EXCEPT !.requests = @ \o Pushed(data)]
                   ELSE IF ~k.keepalive THEN Active(k)
                   ELSE [Active(k) EXCEPT !.requests = Append(@, last),
                                          !.keepalive = last.kind # "close"]
           p == [m EXCEPT !.arrived = <<>>]
           t == performRecv(s, c)
<1>1. /\ s \in States /\ A \in SUBSET Response /\ J \in SUBSET Nat /\ k \in Connection /\ m \in Client
      /\ Flow(k, m, A, J) /\ Life(k, m, A, J, a, w)
  <2>1. s \in States /\ At(s, c)
    BY DEF Fit, Good
  <2> QED
    BY <2>1, AtForm, AtTypes
<1>2. data \in Seq(Request) /\ k.requests \in Seq(Request)
  BY <1>1 DEF Client, Connection
<1>3. t = [s EXCEPT !.conn[c] = new, !.client[c] = p]
  BY <1>1 DEF performRecv, LastOf, Cut, States
<1>4. Good(t)
  BY PerformRecvGood DEF Fit, Kept
<1>5. /\ p \in Client /\ p.arrived = <<>> /\ p.got = m.got /\ p.asked = m.asked /\ p.early = m.early
      /\ p.binary = m.binary /\ p.closed = m.closed /\ p.shut = m.shut
  <2>1. <<>> \in Seq(Request)
    OBVIOUS
  <2> QED
    BY <1>1, <2>1 DEF Client
<1> HIDE DEF p, t
\* What has been received, and why.
<1> DEFINE Same(l) == /\ l \in Connection /\ l.state = k.state /\ l.fd = k.fd /\ l.custom = k.custom
                      /\ l.waiting = k.waiting /\ l.resps = k.resps /\ l.send_buffer = k.send_buffer
           Dies(l) == m.closed \/ m.shut \/ l.alive = k.alive
           Recv(l) ==
             \/ l.requests = k.requests /\ l.keepalive = k.keepalive
             \/ /\ k.custom /\ l.keepalive = k.keepalive
                /\ \E v : Begins(v, data) /\ l.requests = k.requests \o v
             \/ /\ ~k.custom /\ k.keepalive
                /\ \E i \in DOMAIN data : /\ l.requests = Append(k.requests, data[i])
                                      /\ l.keepalive = (data[i].kind # "close")
<1>6. Same(new) /\ Dies(new) /\ Recv(new)
  <2> DEFINE g == Active(k)
  <2>1. Same(g) /\ g.alive = k.alive /\ g.keepalive = k.keepalive /\ g.requests = k.requests
    BY <1>1, ActiveForm
  <2> HIDE DEF g
  <2>2. CASE m.closed \/ m.shut
    <3> DEFINE l == [k EXCEPT !.alive = FALSE]
    <3>1. Same(l) /\ l.requests = k.requests /\ l.keepalive = k.keepalive
      BY <1>1 DEF Connection
    <3>2. new = l
      BY <2>2
    <3> HIDE DEF l, new
    <3> QED
      BY <2>2, <3>1, <3>2
  <2>3. CASE ~(m.closed \/ m.shut) /\ data = <<>>
    <3>1. new = k
      BY <2>3
    <3> HIDE DEF new
    <3> QED
      BY <1>1, <3>1
  <2>4. CASE ~(m.closed \/ m.shut) /\ data # <<>> /\ k.custom
    <3> DEFINE v == Pushed(data)
               q == k.requests \o v
               l == [g EXCEPT !.requests = q]
    <3>1. new = l
      BY <2>1, <2>4 DEF g
    <3>2. v \in Seq(Request) /\ Begins(v, data)
      BY <1>2, PushedForm
    <3> HIDE DEF v
    <3>3. q \in Seq(Request)
      BY <1>2, <3>2, ConcatQueue
    <3> HIDE DEF q
    <3>4. Same(l) /\ l.requests = q /\ l.keepalive = k.keepalive /\ l.alive = k.alive
      BY <2>1, <3>3 DEF Connection
    <3> HIDE DEF l, new
    <3>5. \E x : Begins(x, data) /\ q = k.requests \o x
      BY <3>2 DEF q
    <3> QED
      BY <2>4, <3>1, <3>4, <3>5
  <2>5. CASE ~(m.closed \/ m.shut) /\ data # <<>> /\ ~k.custom /\ ~k.keepalive
    <3>1. new = g
      BY <2>5 DEF g
    <3> HIDE DEF new
    <3> QED
      BY <2>1, <3>1
  <2>6. CASE ~(m.closed \/ m.shut) /\ data # <<>> /\ ~k.custom /\ k.keepalive
    <3> DEFINE q == Append(k.requests, last)
               b == last.kind # "close"
               l == [g EXCEPT !.requests = q, !.keepalive = b]
    <3>1. new = l
      BY <2>1, <2>6 DEF g
    <3>2. last \in Request /\ \E i \in DOMAIN data : last = data[i]
      BY <1>2, <2>6, LastForm
    <3> HIDE DEF last
    <3>3. q \in Seq(Request) /\ b \in BOOLEAN
      BY <1>2, <3>2, QueuePush
    <3> HIDE DEF q, b
    <3>4. Same(l) /\ l.requests = q /\ l.keepalive = b /\ l.alive = k.alive
      BY <2>1, <3>3 DEF Connection
    <3> HIDE DEF l, new
    <3> QED
      BY <2>6, <3>1, <3>2, <3>4 DEF q, b
  <2> QED
    BY <2>2, <2>3, <2>4, <2>5, <2>6
<1> HIDE DEF new
<1>7. t.conn[c] = new /\ t.client[c] = p /\ Alone(s, t, c)
  <2>1. new \in Connection /\ s \in States
    BY <1>1, <1>6
  <2> DEFINE v == [s EXCEPT !.conn[c] = new, !.client[c] = p]
  <2>2. v.conn[c] = new /\ v.client[c] = p /\ Alone(s, v, c)
    BY <1>5, <2>1, PutBoth, ZenonT(60)
  <2> QED
    BY <1>3, <2>2
<1>8. Flow(new, p, A, J)
  <2>1. \/ new.requests = k.requests
        \/ \E v : Begins(v, m.arrived) /\ new.requests = k.requests \o v
        \/ \E i \in DOMAIN m.arrived : new.requests = Append(k.requests, m.arrived[i])
    BY <1>6
  <2> HIDE DEF k, m, A, J
  <2> QED
    BY <1>1, <1>5, <1>6, <2>1, FlowRecv
<1>9. Life(new, p, A, J, a, w)
  <2>1. ASSUME NEW i \in DOMAIN data
        PROVE  /\ data[i] \in Request /\ data[i].n \in DOMAIN m.asked
               /\ m.asked[data[i].n] = data[i].kind
    <3>1. data[i] \in Request
      BY <1>2, <2>1, QueueElement
    <3>2. data[i].n \in Nums(data)
      BY SMTT(30) DEF Nums
    <3>3. Nums(data) \subseteq 1 .. Len(m.asked) /\ m.asked[data[i].n] = data[i].kind
      BY <1>1 DEF Flow, Chained, Chain, Asked
    <3>4. DOMAIN m.asked = 1 .. Len(m.asked)
      BY <1>1, SMTT(30) DEF Client
    <3> QED
      BY <3>1, <3>2, <3>3, <3>4
  <2>2. ~new.keepalive => "close" \in Range(m.asked)
    <3>1. ~k.keepalive => "close" \in Range(m.asked)
      BY <1>1 DEF Life
    <3>2. \A i \in DOMAIN data : data[i].kind = "close" => "close" \in Range(m.asked)
      BY <2>1 DEF Range
    <3> QED
      BY <1>6, <3>1, <3>2
  <2>3. (new.custom \/ \E i \in DOMAIN new.requests : new.requests[i].kind = "upgrade") => new.keepalive
    <3>1. (k.custom \/ \E i \in DOMAIN k.requests : k.requests[i].kind = "upgrade") => k.keepalive
      BY <1>1 DEF Life
    <3>2. CASE new.keepalive = k.keepalive /\ new.requests = k.requests
      BY <1>6, <3>1, <3>2
    <3>3. CASE k.custom /\ new.keepalive = k.keepalive
      BY <3>1, <3>3, SMTT(30)
    <3>4. CASE /\ ~k.custom /\ k.keepalive
               /\ \E i \in DOMAIN data : /\ new.requests = Append(k.requests, data[i])
                                         /\ new.keepalive = (data[i].kind # "close")
      <4>1. PICK i \in DOMAIN data : /\ new.requests = Append(k.requests, data[i])
                                     /\ new.keepalive = (data[i].kind # "close")
        BY <3>4
      <4>2. SUFFICES ASSUME data[i].kind = "close"
                     PROVE  ~new.custom /\ \A j \in DOMAIN new.requests : new.requests[j].kind # "upgrade"
        BY <4>1
      <4>3. ASSUME NEW j \in DOMAIN k.requests PROVE k.requests[j].kind # "upgrade"
        <5> SUFFICES ASSUME k.requests[j].kind = "upgrade" PROVE FALSE
          OBVIOUS
        <5> DEFINE n == k.requests[j].n
                   u == data[i].n
        <5>1. n \in Nums(k.requests) /\ u \in Nums(data)
          BY <4>3 DEF Nums
        <5>2. n < u /\ n \in 1 .. Len(m.asked) /\ u \in 1 .. Len(m.asked) /\ m.asked[n] = "upgrade"
          <6>1. /\ Less(Nums(m.got) \cup Nums(k.send_buffer) \cup Nums(k.resps) \cup Out(A, J)
                          \cup Nums(k.requests), Nums(data))
                /\ Nums(m.got) \cup Nums(k.send_buffer) \cup Nums(k.resps) \cup Out(A, J)
                     \cup Nums(k.requests) \cup Nums(data) \subseteq 1 .. Len(m.asked)
            BY <1>1, SMTT(30) DEF Flow, Chained, Chain
          <6>2. m.asked[n] = k.requests[j].kind
            BY <1>1, <4>3 DEF Flow, Asked
          <6> HIDE DEF n, u
          <6> QED
            BY <5>1, <6>1, <6>2, SMTT(30) DEF Less
        <5>3. DOMAIN m.asked = 1 .. Len(m.asked) /\ Len(m.asked) \in Nat
          BY <1>1 DEF Client
        <5> HIDE DEF n, u
        <5>4. n \in DOMAIN m.asked /\ n < Len(m.asked)
          BY <5>2, <5>3, SMTT(30)
        <5>5. Customs(m.got) # {}
          BY <1>1, <5>2, <5>4 DEF Flow, Asked
        <5>6. Plain(k) /\ NoCustoms(k, m)
          BY <1>1, <3>4 DEF Flow, Plain
        <5> QED
          BY <5>5, <5>6 DEF NoCustoms
      <4>4. ASSUME NEW j \in DOMAIN new.requests PROVE new.requests[j].kind # "upgrade"
        <5> DEFINE e == data[i]
        <5>1. e \in Request /\ e.kind = "close" /\ new.requests = Append(k.requests, e)
          BY <2>1, <4>1, <4>2
        <5> HIDE DEF e
        <5>2. /\ DOMAIN Append(k.requests, e) = 1 .. Len(k.requests) + 1 /\ Len(k.requests) \in Nat
              /\ DOMAIN k.requests = 1 .. Len(k.requests)
              /\ Append(k.requests, e)[Len(k.requests) + 1] = e
              /\ \A g \in 1 .. Len(k.requests) : Append(k.requests, e)[g] = k.requests[g]
          BY <1>2, <5>1, SMTT(30)
        <5>3. j \in 1 .. Len(k.requests) \/ j = Len(k.requests) + 1
          BY <4>4, <5>1, <5>2
        <5> QED
          BY <4>3, <5>1, <5>2, <5>3
      <4> QED
        BY <1>6, <3>4, <4>4
    <3> QED
      BY <1>6, <3>1, <3>2, <3>3, <3>4
  <2>4. a /\ w = "edge in"
    BY DEF Watched
  <2>5. A # {} /\ ~new.alive => Excuse(p)
    BY <1>1, <1>5, <1>6 DEF Life, Excuse
  <2> HIDE DEF k, m, A, J, a, w
  <2> QED
    BY <1>5, <2>2, <2>3, <2>4, <2>5 DEF Life
<1>10. Fit(t, c)
  <2>1. /\ t.table = s.table /\ t.watch = s.watch /\ t.edge = s.edge /\ t.rq = s.rq /\ t.cq = s.cq
        /\ t.jobs = s.jobs /\ \A d \in Conns : d # c => t.conn[d] = s.conn[d] /\ t.client[d] = s.client[d]
    BY <1>7, SMTT(30) DEF Alone
  <2>2. t.conn[c].fd = s.conn[c].fd
    BY <1>6, <1>7
  <2>3. Flow(t.conn[c], t.client[c], A, J) /\ Life(t.conn[c], t.client[c], A, J, a, w)
    BY <1>7, <1>8, <1>9, SMTT(30)
  <2> QED
    BY <1>4, <2>1, <2>2, <2>3, FitPut
<1>11. k.custom => new.keepalive
  BY <1>1, <1>6 DEF Life
<1> QED
  BY <1>6, <1>7, <1>10, <1>11 DEF t, Alone

\* An answer that is sent as a whole leaves the connection as alive as it was.
LEMMA SendAlive ==
  ASSUME NEW s \in States, NEW c \in Conns, NEW o \in Outcomes, performSend(s, c, o).ok
  PROVE  performSend(s, c, o).s.conn[c].alive = s.conn[c].alive
<1> DEFINE k    == s.conn[c]
           load == [k EXCEPT !.send_buffer = <<Head(k.resps)>>, !.resps = Tail(@)]
           full == IF k.send_buffer = <<>> THEN load ELSE k
           sent == [full EXCEPT !.ever_sent = TRUE]
           gone == [Active(sent) EXCEPT !.send_buffer = <<>>]
           t    == performSend(s, c, o).s
<1>1. k \in Connection /\ s.conn \in [Conns -> Connection]
  BY StateForm
<1>2. t = [s EXCEPT !.conn[c] = gone, !.client[c].got = Append(@, full.send_buffer[1])]
  BY DEF performSend, Outcomes
<1>3. gone.alive = k.alive
  <2>1. \A b, q : [k EXCEPT !.send_buffer = b, !.resps = q].alive = k.alive
    BY <1>1 DEF Connection
  <2>2. full.alive = k.alive
    BY <2>1
  <2>3. sent.alive = full.alive
    <3>1. "alive" \in DOMAIN full
      BY <1>1 DEF Connection
    <3> HIDE DEF full
    <3> QED
      BY <3>1
  <2> QED
    BY <2>2, <2>3 DEF Active
<1> HIDE DEF gone, full
<1>4. t.conn = [s.conn EXCEPT ![c] = gone]
  BY <1>2 DEF States
<1> HIDE DEF t
<1> QED
  BY <1>1, <1>3, <1>4 DEF t

-------------------------------------------------------------------------------
(* HttpServer: answers. *)

\* The loop takes r out of a queue,
Popped(s, v, r) ==
  \/ s.rq # <<>> /\ r = Head(s.rq) /\ v.rq = Tail(s.rq) /\ v.cq = s.cq
  \/ s.cq # <<>> /\ r = Head(s.cq) /\ v.cq = Tail(s.cq) /\ v.rq = s.rq

\* and hands the answer e to connection c.
Handed(s, v, c, e) ==
  LET k == s.conn[c]
      l == v.conn[c]
  IN  /\ v.client = s.client /\ v.table = s.table /\ v.watch = s.watch /\ v.edge = s.edge
      /\ v.jobs = s.jobs /\ v.loop = s.loop
      /\ \A d \in Conns : d # c => v.conn[d] = s.conn[d]
      /\ l.state = k.state /\ l.fd = k.fd /\ l.custom = k.custom /\ l.requests = k.requests
      /\ l.send_buffer = k.send_buffer /\ l.alive = k.alive /\ l.keepalive = k.keepalive
      /\ l.age = k.age /\ l.resps = Append(k.resps, e)

LEMMA FitTake ==
  ASSUME NEW s, NEW x, Fit(s, x), NEW c \in Conns, NEW r \in Entries, r.conn = c, NEW v, Good(v),
         Popped(s, v, r), Handed(s, v, c, r.resp)
  PROVE  /\ Fit(v, x) /\ Queued(v, c) = {} /\ Working(v, c) = {}
         /\ r.resp \in Queued(s, c)
<1> DEFINE e == r.resp
           k == s.conn[c]
           l == v.conn[c]
           m == s.client[c]
<1>1. /\ s \in States /\ s.rq \in Seq(Entries) /\ s.cq \in Seq(Entries) /\ e \in Response
      /\ k \in Connection /\ m \in Client
  <2>1. s \in States
    BY DEF Fit, Good
  <2> QED
    BY <2>1, EntryForm, AtTypes
<1>2. \A d : Working(v, d) = Working(s, d)
  BY DEF Working, Handed
<1>3. ASSUME NEW d \in Conns, d # c
      PROVE  Queued(v, d) = Queued(s, d) /\ (OneQueued(s, d) => OneQueued(v, d))
  <2>1. CASE s.rq # <<>> /\ r = Head(s.rq) /\ v.rq = Tail(s.rq) /\ v.cq = s.cq
    <3>1. /\ For(s.rq, d) = {} => For(v.rq, d) = {}
          /\ One(s.rq, d) => One(v.rq, d)
          /\ Answers(v.rq, d) = Answers(s.rq, d)
      BY <1>1, <1>3, <2>1, PopAnswers
    <3> QED
      BY <2>1, <3>1 DEF Queued, OneQueued
  <2>2. CASE s.cq # <<>> /\ r = Head(s.cq) /\ v.cq = Tail(s.cq) /\ v.rq = s.rq
    <3>1. /\ For(s.cq, d) = {} => For(v.cq, d) = {}
          /\ One(s.cq, d) => One(v.cq, d)
          /\ Answers(v.cq, d) = Answers(s.cq, d)
      BY <1>1, <1>3, <2>2, PopAnswers
    <3> QED
      BY <2>2, <3>1 DEF Queued, OneQueued
  <2> QED
    BY <2>1, <2>2 DEF Popped
<1>4. Single(s, c) /\ Flow(k, m, Queued(s, c), Working(s, c))
  BY AtForm DEF Fit
<1>5. /\ For(v.rq, c) = {} /\ For(v.cq, c) = {} /\ e \in Queued(s, c)
      /\ \A a \in Queued(s, c) : a = e
  <2>0. One(s.rq, c) /\ One(s.cq, c) /\ (For(s.rq, c) = {} \/ For(s.cq, c) = {})
    BY <1>4 DEF Single, OneQueued
  <2>1. CASE s.rq # <<>> /\ r = Head(s.rq) /\ v.rq = Tail(s.rq) /\ v.cq = s.cq
    <3>1. e \in Answers(s.rq, c) /\ For(s.rq, c) # {} /\ For(v.rq, c) = {}
      BY <1>1, <2>0, <2>1, PopAnswers
    <3> HIDE DEF e
    <3> QED
      BY <2>0, <2>1, <3>1 DEF Queued, Answers, One
  <2>2. CASE s.cq # <<>> /\ r = Head(s.cq) /\ v.cq = Tail(s.cq) /\ v.rq = s.rq
    <3>1. e \in Answers(s.cq, c) /\ For(s.cq, c) # {} /\ For(v.cq, c) = {}
      BY <1>1, <2>0, <2>2, PopAnswers
    <3> HIDE DEF e
    <3> QED
      BY <2>0, <2>2, <3>1 DEF Queued, Answers, One
  <2> QED
    BY <2>1, <2>2 DEF Popped
<1>6. Queued(v, c) = {} /\ Working(v, c) = {} /\ Working(s, c) = {} /\ Single(v, c)
  <2>1. Queued(v, c) = {}
    BY <1>5, QueuedNone
  <2>2. Working(s, c) = {}
    BY <1>4, <1>5 DEF Single
  <2> QED
    BY <1>2, <1>5, <2>1, <2>2 DEF Single, OneQueued, One
<1>7. /\ l.state = k.state /\ l.fd = k.fd /\ l.custom = k.custom /\ l.requests = k.requests
      /\ l.send_buffer = k.send_buffer /\ l.alive = k.alive /\ l.keepalive = k.keepalive
      /\ l.resps = Append(k.resps, e)
  BY DEF Handed
<1>8. Flow(l, m, {}, {})
  <2>1. Queued(s, c) = {e}
    BY <1>5
  <2>2. Flow(k, m, {e}, {})
    BY <1>4, <1>6, <2>1
  <2> HIDE DEF e, k, l, m
  <2> QED
    BY <1>1, <1>7, <2>2, FlowAdd
<1>9. Listed(v, c) <=> Listed(s, c)
  BY <1>7 DEF Listed, Handed
<1>10. ASSUME k.state = "open" PROVE Life(l, m, {}, {}, Listed(v, c), s.watch[k.fd])
  <2> DEFINE a == Listed(s, c)
             b == Listed(v, c)
             w == s.watch[k.fd]
             A == Queued(s, c)
             J == Working(s, c)
  <2>1. Life(k, m, A, J, a, w) /\ (a <=> b)
    BY <1>9, <1>10, AtForm DEF Fit
  <2>2. Out({}, {}) = {}
    BY DEF Out
  <2> HIDE DEF a, b, w, A, J, k, l, m
  <2>3. Life(l, m, {}, {}, b, w)
    BY <1>7, <2>1, <2>2 DEF Life
  <2> QED
    BY <2>3 DEF b, w
<1>11. At(v, c)
  <2>1. FlowAt(v, c)
    BY <1>6, <1>8 DEF FlowAt, Handed
  <2>2. LifeAt(v, c)
    BY <1>6, <1>7, <1>10 DEF LifeAt, Handed
  <2> QED
    BY <2>1, <2>2 DEF At
<1>12. \A d \in Conns : d # c => Unmoved(s, v, d)
  BY <1>2, <1>3 DEF Unmoved, Listed, Handed
<1>13. ASSUME NEW d \in Conns PROVE At(v, d) /\ (d # x => AliveAt(v, d))
  <2>1. CASE d = c
    BY <1>7, <1>9, <1>11, <2>1 DEF AliveAt, Fit
  <2>2. CASE d # c
    BY <1>12, <2>2, UnmovedAt DEF Fit
  <2> QED
    BY <2>1, <2>2
<1>14. EdgeInv(v)
  BY DEF EdgeInv, Fit, Handed
<1> QED
  BY <1>5, <1>6, <1>13, <1>14 DEF Fit

\* The loop is somewhere else.
LEMMA FitLoop ==
  ASSUME NEW s, NEW x, Fit(s, x), NEW w \in {"events", "answers", "stuck", "undefined"}
  PROVE  LET t == [s EXCEPT !.loop = w]
         IN  Fit(t, x) /\ t.conn = s.conn /\ t.client = s.client /\ t.loop = w /\ t.table = s.table
<1> DEFINE t == [s EXCEPT !.loop = w]
<1>1. /\ t.conn = s.conn /\ t.client = s.client /\ t.table = s.table /\ t.watch = s.watch
      /\ t.rq = s.rq /\ t.cq = s.cq /\ t.jobs = s.jobs /\ t.edge = s.edge /\ t.loop = w
  BY DEF Fit, Good, States
<1>2. Good(t)
  BY GoodLoop DEF Fit
<1> HIDE DEF t
<1>3. EdgeInv(t)
  BY <1>1 DEF EdgeInv, Fit
<1>4. Fit(t, x)
  BY <1>1, <1>2, <1>3, FitQuiet
<1> QED
  BY <1>1, <1>4 DEF t

\* handleResponse: the connection has its answer and tries to send it.
LEMMA FitAnswer ==
  ASSUME NEW s, Fit(s, NoConn), NEW c \in Conns, s.conn[c].state = "open", s.loop = "answers",
         NEW o \in Outcomes, o = "fails" => s.client[c].closed \/ s.client[c].shut,
         NEW r \in Entries, r.conn = c, NEW u, Good(u),
         Popped(s, u, r), Handed(s, u, c, r.resp)
  PROVE  Fit(handleResponse(u, c, o), NoConn) /\ Blamed(handleResponse(u, c, o))
<1> DEFINE k == s.conn[c]
           m == s.client[c]
           f == k.fd
           v == [u EXCEPT !.conn[c].waiting = FALSE]
           done == performSend(v, c, o)
           t == done.s
           l == t.conn[c]
           z == handleResponse(u, c, o)
<1>1. s \in States /\ u \in States /\ k \in Connection /\ f \in Fds /\ NoConn \notin Conns
  BY AtTypes, HttpServerAssumption DEF Fit, Good, TableInv
<1>2. u.conn[c] \in Connection /\ u.conn[c].fd = f /\ u.conn[c].state = "open"
  BY <1>1, StateForm DEF Handed
<1>3. Popped(s, v, r) /\ Handed(s, v, c, r.resp)
  <2> DEFINE j == [u.conn[c] EXCEPT !.waiting = FALSE]
             w == [u EXCEPT !.conn[c] = j]
  <2>0. w = [u EXCEPT !.conn[c] = j]
    OBVIOUS
  <2>1. /\ v = w /\ j \in Connection /\ j.state = u.conn[c].state /\ j.fd = u.conn[c].fd
        /\ j.custom = u.conn[c].custom /\ j.requests = u.conn[c].requests
        /\ j.send_buffer = u.conn[c].send_buffer /\ j.alive = u.conn[c].alive
        /\ j.keepalive = u.conn[c].keepalive /\ j.age = u.conn[c].age /\ j.resps = u.conn[c].resps
    BY <1>1, <1>2 DEF Connection
  <2> HIDE DEF j, w
  <2>2. /\ w.conn[c] = j
        /\ \A d \in Conns \ {c} : w.conn[d] = u.conn[d]
        /\ w.client = u.client /\ w.table = u.table /\ w.watch = u.watch /\ w.edge = u.edge
        /\ w.rq = u.rq /\ w.cq = u.cq /\ w.jobs = u.jobs /\ w.loop = u.loop
    BY <1>1, <2>0, <2>1, PutConn
  <2> HIDE DEF v
  <2>3. Popped(s, v, r)
    BY <2>1, <2>2 DEF Popped
  <2>4. Handed(s, v, c, r.resp)
    BY <2>1, <2>2 DEF Handed
  <2> QED
    BY <2>3, <2>4
<1>4. Good(v)
  <2> DEFINE j == [u.conn[c] EXCEPT !.waiting = FALSE]
  <2>1. v = [u EXCEPT !.conn[c] = j]
    OBVIOUS
  <2>2. /\ j \in Connection /\ j.state = u.conn[c].state /\ j.fd = u.conn[c].fd
        /\ j.send_buffer = u.conn[c].send_buffer /\ j.resps = u.conn[c].resps
    BY <1>2 DEF Connection
  <2>3. Owned(u.conn[c].send_buffer, c) /\ Owned(u.conn[c].resps, c)
    BY DEF Good, OwnInv
  <2> HIDE DEF j
  <2>4. Good([u EXCEPT !.conn[c] = j])
    BY <2>2, <2>3, GoodConn
  <2> QED
    BY <2>1, <2>4
<1>5. z = IF ~done.ok /\ ~notDead(l)
          THEN IF s.table[f] = NoConn THEN [t EXCEPT !.loop = "undefined"] ELSE Erase(t, {f})
          ELSE HandleWaitingRequests(IF done.ok THEN t ELSE enableEvents(t, f), c)
  BY <1>2 DEF handleResponse, Handed
<1> HIDE DEF v
<1>6. /\ Fit(v, NoConn) /\ Fit(v, c) /\ Queued(v, c) = {} /\ Working(v, c) = {}
      /\ r.resp \in Queued(s, c)
  <2>1. Fit(v, NoConn) /\ Queued(v, c) = {} /\ Working(v, c) = {} /\ r.resp \in Queued(s, c)
    BY <1>3, <1>4, FitTake
  <2> QED
    BY <1>1, <2>1 DEF Fit
<1>7. /\ v.conn[c].state = "open" /\ v.conn[c].fd = f /\ v.conn[c].keepalive = k.keepalive
      /\ v.conn[c].alive = k.alive /\ v.conn[c].age = k.age /\ v.conn[c].custom = k.custom
      /\ v.conn[c].requests = k.requests /\ v.conn[c].resps = Append(k.resps, r.resp)
      /\ v.client = s.client /\ v.table = s.table /\ v.loop = "answers"
  BY <1>3 DEF Handed
<1>8. k.requests # <<>> => m.early
  <2>1. SUFFICES ASSUME k.requests # <<>> PROVE m.early
    OBVIOUS
  <2>2. Append(k.resps, r.resp) # <<>>
    <3>1. k.resps \in Seq(Response) /\ r.resp \in Response
      BY <1>1, EntryForm DEF Connection
    <3>2. Len(Append(k.resps, r.resp)) = Len(k.resps) + 1 /\ Len(k.resps) \in Nat
      BY <3>1, QueuePush
    <3> QED
      BY <3>1, <3>2
  <2> DEFINE j == v.conn[c]
             A == Queued(v, c)
             J == Working(v, c)
  <2>3. j \in Connection /\ m \in Client /\ Flow(j, m, A, J) /\ j.requests # <<>> /\ j.resps # <<>>
    BY <1>1, <1>4, <1>6, <1>7, <2>1, <2>2, AtForm, AtTypes DEF Fit, Good
  <2> HIDE DEF j, A, J
  <2> QED
    BY <2>3, FlowEarly
<1>9. /\ Fit(t, c) /\ Alone(v, t, c) /\ SentOf(v.conn[c], l) /\ Told(m, t.client[c])
      /\ l.alive = k.alive \/ m.closed \/ m.shut \/ (~k.keepalive /\ l.age = k.age)
  <2>1. v.client[c] = m /\ (o = "fails" => v.client[c].closed \/ v.client[c].shut)
    BY <1>7
  <2>2. v.conn[c].state = "open" /\ Sendable(v, c)
    BY <1>6, <1>7 DEF Sendable
  <2> HIDE DEF m, k
  <2>3. /\ Fit(t, c) /\ Alone(v, t, c) /\ SentOf(v.conn[c], l) /\ Told(v.client[c], t.client[c])
        /\ \/ l.alive = v.conn[c].alive \/ v.client[c].closed \/ v.client[c].shut
           \/ ~v.conn[c].keepalive /\ l.age = v.conn[c].age
    BY <1>6, <2>1, <2>2, FitSend
  <2> QED
    BY <1>7, <2>1, <2>3
<1>10. done.ok => l.alive = k.alive
  BY <1>4, <1>7, SendAlive DEF Good
<1>11. /\ t.table = s.table /\ t.loop = "answers" /\ Queued(t, c) = {} /\ Working(t, c) = {}
       /\ l.state = "open" /\ l.fd = f /\ l.custom = k.custom /\ l.requests = k.requests
       /\ l.keepalive = k.keepalive
  <2>1. t.rq = v.rq /\ t.cq = v.cq /\ t.jobs = v.jobs
    BY <1>9 DEF Alone
  <2>2. Queued(t, c) = Queued(v, c) /\ Working(t, c) = Working(v, c)
    BY <2>1 DEF Queued, Working
  <2> QED
    BY <1>6, <1>7, <1>9, <2>2 DEF Alone, SentOf
<1> DEFINE p == t.client[c]
<1>12. p.asked = m.asked /\ p.early = m.early /\ p.closed = m.closed /\ p.shut = m.shut
  BY <1>9 DEF Told
<1>13. l \in Connection /\ t \in States /\ Good(t)
  <2>1. Good(t) /\ t \in States
    BY <1>9 DEF Fit, Good
  <2> QED
    BY <2>1, AtTypes
<1> HIDE DEF p, z, t, l
<1>14. Listed(s, c) => k.alive
  BY <1>1 DEF Fit, AliveAt
<1>15. Listed(s, c) <=> s.table[f] # NoConn
  <2>1. s.table[f] \in Conns \cup {NoConn}
    BY <1>1, StateForm
  <2>2. s.table[f] # NoConn => s.conn[s.table[f]].state = "open" /\ s.conn[s.table[f]].fd = f
    BY <1>1 DEF Fit, Good, TableInv
  <2>3. s.table[f] # NoConn => s.table[f] = c
    BY <1>1, <2>1, <2>2 DEF Fit, Good, TableInv
  <2> QED
    BY <1>1, <2>3 DEF Listed
<1>16. CASE ~done.ok /\ ~notDead(l) /\ s.table[f] = NoConn
  <2>1. Excuse(p) \/ Aged(l)
    <3>1. notDead(l) <=> l.alive /\ ~Aged(l)
      BY <1>13, DeadForm
    <3>2. Life(k, m, Queued(s, c), Working(s, c), Listed(s, c), s.watch[f])
      BY AtForm DEF Fit
    <3>3. Queued(s, c) # {} /\ ~Listed(s, c)
      BY <1>6, <1>15, <1>16
    <3>4. (~k.alive => Excuse(m)) /\ (Excuse(m) \/ k.keepalive \/ Aged(k))
      <4> DEFINE A == Queued(s, c)
                 J == Working(s, c)
                 a == Listed(s, c)
                 w == s.watch[f]
      <4> HIDE DEF A, J, a, w, k, m
      <4>1. Life(k, m, A, J, a, w) /\ A # {} /\ ~a
        BY <3>2, <3>3 DEF A, J, a, w
      <4> QED
        BY <4>1 DEF Life
    <3>5. Excuse(p) <=> Excuse(m)
      BY <1>12 DEF Excuse
    <3>6. (m.closed \/ m.shut) => Excuse(m)
      BY DEF Excuse
    <3>7. l.age = k.age => (Aged(l) <=> Aged(k))
      BY <1>11 DEF Aged
    <3> QED
      BY <1>9, <1>16, <3>1, <3>4, <3>5, <3>6, <3>7
  <2>2. z = [t EXCEPT !.loop = "undefined"]
    BY <1>5, <1>16
  <2>3. Fit(t, NoConn)
    <3>1. ~Listed(t, c)
      BY <1>1, <1>11, <1>15, <1>16 DEF Listed, l
    <3>2. AliveAt(t, c)
      BY <3>1 DEF AliveAt
    <3> QED
      BY <1>9, <3>2 DEF Fit
  <2>4. /\ Fit(z, NoConn) /\ z.conn = t.conn /\ z.client = t.client /\ z.loop = "undefined"
    BY <2>2, <2>3, FitLoop
  <2>5. Blamed(z)
    BY <1>11, <2>1, <2>4 DEF Blamed, l, p
  <2> QED
    BY <2>4, <2>5 DEF z
<1>17. CASE ~done.ok /\ ~notDead(l) /\ s.table[f] # NoConn
  <2>1. z = Erase(t, {f})
    BY <1>5, <1>17
  <2>2. t.table[f] = c
    BY <1>11, <1>15, <1>17 DEF Listed
  <2>3. \A g \in Fds : t.table[g] = c => g \in {f}
    BY <1>1, <1>11, <1>13 DEF Good, TableInv, l
  <2>4. \A y : Fit(Erase(t, {f}), y)
    <3>1. \A g \in {f} : t.table[g] # NoConn => ~notDead(t.conn[t.table[g]])
      BY <1>17, <2>2 DEF l
    <3> HIDE DEF f, k
    <3> QED
      BY <1>1, <1>9, <2>3, <3>1, FitErase
  <2>5. z.loop = "answers"
    BY <1>11, <1>13, <2>1 DEF Erase, delSocket, States
  <2> QED
    BY <2>1, <2>4, <2>5 DEF z, Blamed
<1>18. CASE done.ok
  <2>1. z = HandleWaitingRequests(t, c)
    BY <1>5, <1>18
  <2>2. AliveAt(t, c)
    BY <1>10, <1>11, <1>14, <1>18 DEF AliveAt, Listed, l
  <2>3. t.conn[c].state = "open" /\ (t.conn[c].requests # <<>> => t.client[c].early)
    BY <1>8, <1>11, <1>12 DEF l, p
  <2>4. (\A x : Fit(z, x)) /\ Blamed(z)
    BY <1>9, <1>11, <2>1, <2>2, <2>3, FitHandle
  <2> QED
    BY <2>4 DEF z
<1>19. CASE ~done.ok /\ notDead(l)
  <2> DEFINE y == enableEvents(t, f)
  <2>1. z = HandleWaitingRequests(y, c)
    BY <1>5, <1>19
  <2>2. t.conn[c].state = "open" /\ (t.conn[c].requests # <<>> => t.client[c].early) /\ t.conn[c].fd = f
    BY <1>8, <1>11, <1>12 DEF l, p
  <2>3. Fit(y, c) /\ y.conn = t.conn /\ y.client = t.client /\ y.table = t.table /\ y.loop = t.loop
    <3> HIDE DEF f, k, y
    <3>1. y = enableEvents(t, t.conn[c].fd)
      BY <2>2 DEF y
    <3> QED
      BY <1>9, <1>11, <2>2, <3>1, FitEvents
  <2> HIDE DEF y
  <2>4. AliveAt(y, c)
    BY <1>19, <2>3 DEF AliveAt, notDead, l
  <2>5. (\A x : Fit(z, x)) /\ Blamed(z)
    BY <1>11, <2>1, <2>2, <2>3, <2>4, FitHandle
  <2> QED
    BY <2>5 DEF z
<1> QED
  BY <1>16, <1>17, <1>18, <1>19

-------------------------------------------------------------------------------
(* The steps of the loop. *)

Runs(s) == Fit(s, NoConn) /\ Blamed(s)

\* Nobody refers to a connection: nothing is queued or in hand for it.
LEMMA UnusedNone ==
  ASSUME NEW s, NEW c, \A i \in DOMAIN s.rq : s.rq[i].conn # c, \A i \in DOMAIN s.cq : s.cq[i].conn # c,
         \A j \in s.jobs : j.conn # c
  PROVE  Queued(s, c) = {} /\ Working(s, c) = {}
BY DEF Queued, Answers, For, Working

\* An object that is not open any more, or not yet.
LEMMA GoneForm ==
  ASSUME NEW g, NEW l, l = [NewConn(g) EXCEPT !.state = "gone"]
  PROVE  /\ l.requests = <<>> /\ l.resps = <<>> /\ l.send_buffer = <<>> /\ l.state = "gone"
         /\ ~Plain(l)
BY DEF NewConn, Plain

\* ~HttpConnection.
LEMMA DestroyRuns ==
  ASSUME NEW s, Runs(s)
  PROVE  Runs(Destroy(s))
<1> DEFINE t == Destroy(s)
           Gone(c) == s.conn[c].state = "open" /\ ~Referenced(s, c) /\ s.loop # "undefined"
           G(c) == [NewConn(s.conn[c].fd) EXCEPT !.state = "gone"]
<1>1. s \in States /\ Good(t)
  BY DestroyGood DEF Runs, Fit, Good
<1>2. /\ t.client = s.client /\ t.table = s.table /\ t.watch = s.watch /\ t.edge = s.edge
      /\ t.rq = s.rq /\ t.cq = s.cq /\ t.jobs = s.jobs /\ t.loop = s.loop
      /\ \A c \in Conns : t.conn[c] = IF Gone(c) THEN G(c) ELSE s.conn[c]
  BY <1>1 DEF Destroy, States
<1>3. \A c : /\ G(c).requests = <<>> /\ G(c).resps = <<>> /\ G(c).send_buffer = <<>>
             /\ G(c).state = "gone" /\ ~Plain(G(c))
  BY GoneForm
<1> HIDE DEF t, G
<1>4. \A d : /\ Queued(t, d) = Queued(s, d) /\ Working(t, d) = Working(s, d)
             /\ OneQueued(t, d) <=> OneQueued(s, d)
  BY <1>2 DEF Queued, Working, OneQueued
<1>5. ASSUME NEW d \in Conns PROVE At(t, d) /\ AliveAt(t, d)
  <2>1. At(s, d) /\ AliveAt(s, d)
    BY HttpServerAssumption DEF Runs, Fit
  <2>2. CASE ~Gone(d)
    <3>1. t.conn[d] = s.conn[d]
      BY <1>2, <2>2
    <3>2. Unmoved(s, t, d)
      BY <1>2, <1>4, <3>1 DEF Unmoved, Listed
    <3> QED
      BY <2>1, <3>2, UnmovedAt
  <2>3. CASE Gone(d)
    <3>1. Queued(s, d) = {} /\ Working(s, d) = {}
      BY <2>3, UnusedNone DEF Referenced
    <3> DEFINE l == t.conn[d]
               k == s.conn[d]
               m == s.client[d]
    <3>2. l.requests = <<>> /\ l.resps = <<>> /\ l.send_buffer = <<>> /\ l.state = "gone" /\ ~Plain(l)
      BY <1>2, <1>3, <2>3
    <3>3. Flow(k, m, {}, {}) /\ Single(s, d)
      BY <2>1, <3>1, AtForm
    <3> HIDE DEF l, k, m
    <3>4. Flow(l, m, {}, {})
      BY <3>2, <3>3, FlowReset
    <3>5. FlowAt(t, d)
      BY <1>2, <1>4, <3>1, <3>3, <3>4 DEF FlowAt, Single, l, m
    <3> QED
      BY <3>2, <3>5 DEF At, LifeAt, AliveAt, l
  <2> QED
    BY <2>2, <2>3
<1>6. EdgeInv(t)
  BY <1>2 DEF EdgeInv, Runs, Fit
<1>7. Blamed(t)
  <2>1. s.loop = "undefined" => \A c \in Conns : t.conn[c] = s.conn[c]
    BY <1>2
  <2> QED
    BY <1>2, <2>1 DEF Blamed, Runs
<1>8. Runs(t)
  BY <1>1, <1>5, <1>6, <1>7 DEF Runs, Fit
<1> QED
  BY <1>8 DEF t

LEMMA BecomeRuns ==
  ASSUME NEW s, Runs(s), Become(s)
  PROVE  Runs(Here')
<1>1. Runs(Destroy(s)) /\ Destroy(s) \in States
  BY DestroyRuns DEF Runs, Fit, Good
<1> DEFINE d == Destroy(s)
<1>2. /\ client' = d.client /\ conn' = d.conn /\ table' = d.table /\ watch' = d.watch
      /\ edge' = d.edge /\ resp_queue' = d.rq /\ custom_resp_queue' = d.cq
      /\ jobs' = d.jobs /\ loop' = d.loop
  BY DEF Become
<1> HIDE DEF d
<1>3. d = [client |-> d.client, conn |-> d.conn, table |-> d.table, watch |-> d.watch,
           edge |-> d.edge, rq |-> d.rq, cq |-> d.cq, jobs |-> d.jobs, loop |-> d.loop]
  BY <1>1 DEF States, d
<1>4. Here' = d
  BY <1>2, <1>3 DEF Here
<1> QED
  BY <1>1, <1>4 DEF d

\* A connection out of the backlog.
LEMMA AcceptRuns ==
  ASSUME NEW s, Runs(s), NEW c \in Conns, s.conn[c].state = "backlog", NEW f \in Fds,
         \A d \in Conns : s.conn[d].state = "open" => s.conn[d].fd # f,
         NEW e, e = s.edge \/ e = s.edge \cup {f}, s.loop = "events"
  PROVE  Runs([s EXCEPT !.conn[c] = NewConn(f), !.table[f] = c, !.watch[f] = "edge in", !.edge = e])
<1> DEFINE n == NewConn(f)
           t == [s EXCEPT !.conn[c] = n, !.table[f] = c, !.watch[f] = "edge in", !.edge = e]
<1>1. s \in States /\ Good(s) /\ e \in SUBSET (Fds \cup {listen})
  <2>1. s \in States /\ Good(s)
    BY DEF Runs, Fit, Good
  <2> QED
    BY <2>1, StateForm
<1>2. Good(t)
  BY <1>1, AcceptGood
<1>3. /\ n.state = "open" /\ n.fd = f /\ n.alive /\ n.keepalive /\ ~n.custom /\ n.requests = <<>>
      /\ n.resps = <<>> /\ n.send_buffer = <<>>
  BY DEF NewConn
<1> HIDE DEF n
<1>4. /\ t.client = s.client /\ t.rq = s.rq /\ t.cq = s.cq /\ t.jobs = s.jobs /\ t.edge = e
      /\ t.loop = s.loop
      /\ \A d \in Conns : t.conn[d] = IF d = c THEN n ELSE s.conn[d]
      /\ \A g \in Fds : /\ t.table[g] = IF g = f THEN c ELSE s.table[g]
                        /\ t.watch[g] = IF g = f THEN "edge in" ELSE s.watch[g]
  BY <1>1 DEF States
<1> HIDE DEF t
<1>5. \A d : /\ Queued(t, d) = Queued(s, d) /\ Working(t, d) = Working(s, d)
             /\ OneQueued(t, d) <=> OneQueued(s, d)
  BY <1>4 DEF Queued, Working, OneQueued
<1>6. \A d \in Conns : s.conn[d].state = "open" => s.conn[d].fd \in Fds
  BY <1>1 DEF Good, TableInv
<1>7. \A d \in Conns : d # c => Unmoved(s, t, d)
  <2>1. /\ t.client = s.client /\ \A d \in Conns : d # c => t.conn[d] = s.conn[d]
        /\ \A g \in Fds : g # f => t.table[g] = s.table[g] /\ t.watch[g] = s.watch[g]
    BY <1>4
  <2> QED
    BY <1>5, <1>6, <2>1 DEF Unmoved, Listed
<1>8. Queued(s, c) = {} /\ Working(s, c) = {}
  <2>1. /\ \A i \in DOMAIN s.rq : s.rq[i].conn # c
        /\ \A i \in DOMAIN s.cq : s.cq[i].conn # c
        /\ \A j \in s.jobs : j.conn # c
    BY <1>1, Unused
  <2> QED
    BY <2>1, UnusedNone
<1>9. At(t, c) /\ AliveAt(t, c)
  <2> DEFINE k == s.conn[c]
             m == s.client[c]
  <2>1. Flow(k, m, {}, {}) /\ Single(s, c) /\ Plain(k)
    BY <1>8, AtForm DEF Runs, Fit, Plain
  <2> HIDE DEF k, m
  <2>2. Flow(n, m, {}, {})
    BY <1>3, <2>1, FlowReset
  <2>3. FlowAt(t, c)
    BY <1>4, <1>5, <1>8, <2>1, <2>2 DEF FlowAt, Single, m
  <2>4. DOMAIN n.requests = {} /\ Out({}, {}) = {}
    BY <1>3 DEF Out
  <2>5. \A a, w : Life(n, m, {}, {}, a, w)
    BY <1>3, <2>4 DEF Life
  <2>6. LifeAt(t, c)
    BY <1>4, <1>5, <1>8, <2>5, ZenonT(60) DEF LifeAt, m
  <2> QED
    BY <1>3, <1>4, <2>3, <2>6 DEF At, AliveAt
<1>10. EdgeInv(t)
  <2>1. EdgeInv(s)
    BY DEF Runs, Fit
  <2> QED
    BY <1>4, <2>1 DEF EdgeInv
<1>11. Fit(s, c)
  BY HttpServerAssumption DEF Runs, Fit
<1>12. \A x : Fit(t, x)
  BY <1>2, <1>7, <1>9, <1>10, <1>11, FitMove
<1>13. Blamed(t)
  BY <1>4 DEF Blamed
<1> QED
  BY <1>12, <1>13 DEF Runs, t, n

LEMMA OnAcceptRuns ==
  ASSUME Runs(Here), onAccept
  PROVE  Runs(Here')
<1> DEFINE waiting == {c \in Conns : conn[c].state = "backlog"}
           free    == {f \in Fds : \A c \in Conns : conn[c].state = "open" => conn[c].fd # f}
<1>1. edge \in SUBSET (Fds \cup {listen}) /\ Good(Here) /\ Here \in States /\ Here.loop = "events"
  <2>1. Good(Here) /\ Here \in States
    BY DEF Runs, Fit, Good
  <2> QED
    BY <2>1, HereForm, StateForm DEF onAccept
<1>2. CASE waiting = {} \/ free = {}
  <2> DEFINE t == [Here EXCEPT !.edge = edge \ {listen}]
  <2>1. Become(t)
    BY <1>2, HereForm DEF onAccept
  <2>2. Good(t)
    BY <1>1, SeenGood
  <2>3. /\ t.client = client /\ t.conn = conn /\ t.table = table /\ t.watch = watch
        /\ t.rq = resp_queue /\ t.cq = custom_resp_queue /\ t.jobs = jobs /\ t.loop = loop
        /\ t.edge = edge \ {listen}
    BY DEF Here
  <2> HIDE DEF t
  <2>4. EdgeInv(t)
    <3>1. EdgeInv(Here)
      BY DEF Runs, Fit
    <3> QED
      BY <2>3, <3>1, HereForm DEF EdgeInv
  <2>5. Fit(t, NoConn)
    BY <2>2, <2>3, <2>4, HereForm, FitQuiet DEF Runs
  <2>6. Blamed(t)
    BY <1>1, <2>3, HereForm, SMTT(30) DEF Blamed
  <2> QED
    BY <2>1, <2>5, <2>6, BecomeRuns DEF Runs
<1>3. CASE ~(waiting = {} \/ free = {})
  <2> DEFINE f == Min(free)
             e(c) == IF client[c].arrived # <<>> \/ client[c].closed THEN edge \cup {f} ELSE edge
             t(c) == [Here EXCEPT !.conn[c] = NewConn(f), !.table[f] = c, !.watch[f] = "edge in",
                                  !.edge = e(c)]
  <2>1. PICK c \in waiting : Become(t(c))
    BY <1>3, HereForm DEF onAccept
  <2>2. f \in free
    <3>1. free \in SUBSET Nat
      BY HttpServerAssumption
    <3> HIDE DEF free
    <3> QED
      BY <1>3, <3>1, MinForm
  <2> HIDE DEF f
  <2>3. /\ c \in Conns /\ Here.conn[c].state = "backlog" /\ f \in Fds
        /\ \A d \in Conns : Here.conn[d].state = "open" => Here.conn[d].fd # f
    BY <2>2, HereForm
  <2>4. e(c) = Here.edge \/ e(c) = Here.edge \cup {f}
    BY HereForm
  <2> HIDE DEF e
  <2>5. Runs(t(c))
    BY <1>1, <2>3, <2>4, AcceptRuns
  <2> HIDE DEF t
  <2> QED
    BY <2>1, <2>5, BecomeRuns
<1> QED
  BY <1>2, <1>3

\* A listed connection is open, and is the only one with its socket.
LEMMA ListedForm ==
  ASSUME NEW s, Good(s), NEW f \in Fds, s.table[f] # NoConn
  PROVE  /\ s.table[f] \in Conns /\ s.conn[s.table[f]].state = "open" /\ s.conn[s.table[f]].fd = f
         /\ Listed(s, s.table[f]) /\ \A g \in Fds : s.table[g] = s.table[f] => g = f
<1>1. s.table[f] \in Conns \cup {NoConn}
  BY StateForm DEF Good
<1>2. s.conn[s.table[f]].state = "open" /\ s.conn[s.table[f]].fd = f
  BY DEF Good, TableInv
<1>3. \A g \in Fds : s.table[g] = s.table[f] => g = f
  BY <1>2 DEF Good, TableInv
<1> QED
  BY <1>1, <1>2, <1>3 DEF Listed

LEMMA OnReadRuns ==
  ASSUME Runs(Here), NEW f \in Fds, onRead(f)
  PROVE  Runs(Here')
<1> DEFINE c    == table[f]
           seen == [Here EXCEPT !.edge = edge \ {f}]
           got  == performRecv(seen, c)
<1>1. \/ c = NoConn /\ Become(delSocket(seen, {f}))
      \/ /\ c # NoConn /\ (seen.conn[c].custom \/ ~notDead(got.conn[c]))
         /\ Become(Erase(got, {f}))
      \/ c # NoConn /\ notDead(got.conn[c]) /\ Become(HandleWaitingRequests(got, c))
  BY HereForm DEF onRead, Throws
<1>2. /\ Good(Here) /\ Here \in States /\ f \in edge /\ Here.loop = "events"
  <2>1. Good(Here) /\ Here \in States
    BY DEF Runs, Fit, Good
  <2> QED
    BY <2>1, HereForm DEF onRead
<1>3. Good(seen)
  <2>1. edge \ {f} \in SUBSET (Fds \cup {listen})
    BY <1>2, HereForm, StateForm
  <2> DEFINE e == edge \ {f}
  <2> HIDE DEF e
  <2> QED
    BY <1>2, <2>1, SeenGood DEF e
<1>4. /\ seen.client = client /\ seen.conn = conn /\ seen.table = table /\ seen.watch = watch
      /\ seen.rq = resp_queue /\ seen.cq = custom_resp_queue /\ seen.jobs = jobs
      /\ seen.loop = "events" /\ seen.edge = edge \ {f}
  BY <1>2, HereForm DEF Here
<1> HIDE DEF seen
<1>5. EdgeInv(Here)
  BY DEF Runs, Fit
<1>6. EdgeInv(seen)
  BY <1>4, <1>5, HereForm DEF EdgeInv
<1>7. Fit(seen, NoConn)
  BY <1>3, <1>4, <1>6, HereForm, FitQuiet DEF Runs
<1>8. watch[f] = "edge in"
  BY <1>2, <1>5, HereForm DEF EdgeInv
<1>9. c # NoConn
  BY <1>2, <1>8, HereForm DEF Good, TableInv
<1>10. /\ c \in Conns /\ conn[c].state = "open" /\ conn[c].fd = f /\ Listed(seen, c)
       /\ \A g \in Fds : table[g] = c => g = f
  BY <1>3, <1>4, <1>9, ListedForm
<1> HIDE DEF c
<1>11. Fit(seen, c)
  BY <1>7, <1>10, HttpServerAssumption DEF Fit
<1>12. Watched(seen, c)
  BY <1>4, <1>8, <1>10 DEF Watched
<1>13. /\ Fit(got, c) /\ got.table = table /\ got.loop = "events"
       /\ got.conn[c].state = "open" /\ got.conn[c].fd = f
       /\ seen.conn[c].custom => got.conn[c].keepalive
  <2>1. seen.conn[c].state = "open"
    BY <1>4, <1>10
  <2>2. /\ Fit(got, c) /\ got.table = seen.table /\ got.loop = seen.loop
        /\ got.conn[c].state = "open" /\ got.conn[c].fd = seen.conn[c].fd
        /\ seen.conn[c].custom => got.conn[c].keepalive
    BY <1>10, <1>11, <1>12, <2>1, FitRecv
  <2> QED
    BY <1>4, <1>10, <2>2
<1> HIDE DEF got
<1>14. table[f] = c
  BY DEF c
<1>15. CASE (seen.conn[c].custom \/ ~notDead(got.conn[c])) /\ Become(Erase(got, {f}))
  <2>1. \A g \in {f} : got.table[g] # NoConn =>
          ~notDead(got.conn[got.table[g]]) \/ got.conn[got.table[g]].keepalive
    BY <1>13, <1>14, <1>15
  <2>2. \A g \in Fds : got.table[g] = c => g \in {f}
    BY <1>10, <1>13
  <2>3. \A y : Fit(Erase(got, {f}), y)
    BY <1>13, <2>1, <2>2, FitErase
  <2>4. Erase(got, {f}).loop = "events"
    BY <1>13 DEF Erase, delSocket, Fit, Good, States
  <2> QED
    BY <1>15, <2>3, <2>4, BecomeRuns DEF Runs, Blamed
<1>16. CASE notDead(got.conn[c]) /\ Become(HandleWaitingRequests(got, c))
  <2>1. AliveAt(got, c)
    BY <1>16 DEF AliveAt, notDead
  <2>2. (\A x : Fit(HandleWaitingRequests(got, c), x)) /\ Blamed(HandleWaitingRequests(got, c))
    BY <1>10, <1>13, <2>1, FitHandle
  <2> QED
    BY <1>16, <2>2, BecomeRuns DEF Runs
<1>17. \/ (seen.conn[c].custom \/ ~notDead(got.conn[c])) /\ Become(Erase(got, {f}))
       \/ notDead(got.conn[c]) /\ Become(HandleWaitingRequests(got, c))
  BY <1>1, <1>9
<1> QED
  BY <1>15, <1>16, <1>17

LEMMA OnWriteRuns ==
  ASSUME Runs(Here), NEW f \in Fds, onWrite(f)
  PROVE  Runs(Here')
<1> DEFINE c == table[f]
<1>1. PICK o \in Outcomes :
        /\ Outcome(c, o)
        /\ \/ /\ ~notDead(performSend(Here, c, o).s.conn[c])
              /\ Become(Erase(performSend(Here, c, o).s, {f}))
           \/ /\ performSend(Here, c, o).ok \/ notDead(performSend(Here, c, o).s.conn[c])
              /\ Become(performSend(Here, c, o).s)
  BY DEF onWrite
<1>2. /\ Good(Here) /\ Here \in States /\ Here.loop = "events"
  <2>1. Good(Here) /\ Here \in States
    BY DEF Runs, Fit, Good
  <2> QED
    BY <2>1, HereForm DEF onWrite
<1>3. /\ c \in Conns /\ Here.conn[c].state = "open" /\ Here.conn[c].fd = f /\ Listed(Here, c)
      /\ \A g \in Fds : Here.table[g] = c => g = f
  <2>1. Here.table[f] # NoConn /\ Here.table[f] = c
    BY HereForm DEF onWrite
  <2> HIDE DEF c
  <2> QED
    BY <1>2, <2>1, ListedForm
<1>4. Sendable(Here, c)
  BY <1>3, HereForm DEF Sendable, onWrite
<1>5. Here.table[f] = c
  BY HereForm
<1> HIDE DEF c
<1>6. Fit(Here, c) /\ AliveAt(Here, c)
  BY <1>3, HttpServerAssumption DEF Runs, Fit
<1>7. o = "fails" => Here.client[c].closed \/ Here.client[c].shut
  BY <1>1, HereForm DEF Outcome
<1> DEFINE t == performSend(Here, c, o).s
<1>8. Fit(t, c) /\ Alone(Here, t, c) /\ SentOf(Here.conn[c], t.conn[c])
  BY <1>3, <1>4, <1>6, <1>7, FitSend
<1>9. performSend(Here, c, o).ok => t.conn[c].alive = Here.conn[c].alive
  BY <1>2, <1>3, SendAlive
<1>10. \/ ~notDead(t.conn[c]) /\ Become(Erase(t, {f}))
       \/ (performSend(Here, c, o).ok \/ notDead(t.conn[c])) /\ Become(t)
  BY <1>1
<1> HIDE DEF t
<1>11. t.table = Here.table /\ t.loop = "events" /\ t.conn[c].state = "open" /\ t.conn[c].fd = f
  BY <1>2, <1>3, <1>8 DEF Alone, SentOf
<1>12. CASE ~notDead(t.conn[c]) /\ Become(Erase(t, {f}))
  <2>1. \A g \in {f} : t.table[g] # NoConn =>
          ~notDead(t.conn[t.table[g]]) \/ t.conn[t.table[g]].keepalive
    BY <1>5, <1>11, <1>12
  <2>2. \A g \in Fds : t.table[g] = c => g \in {f}
    BY <1>3, <1>11
  <2>3. \A y : Fit(Erase(t, {f}), y)
    BY <1>8, <2>1, <2>2, FitErase
  <2>4. Erase(t, {f}).loop = "events"
    BY <1>8, <1>11 DEF Erase, delSocket, Fit, Good, States
  <2> QED
    BY <1>12, <2>3, <2>4, BecomeRuns DEF Runs, Blamed
<1>13. CASE (performSend(Here, c, o).ok \/ notDead(t.conn[c])) /\ Become(t)
  <2>1. t.conn[c].alive
    BY <1>3, <1>6, <1>9, <1>13 DEF AliveAt, notDead
  <2>2. Fit(t, NoConn)
    BY <1>8, <2>1 DEF Fit, AliveAt
  <2>3. Blamed(t)
    BY <1>11 DEF Blamed
  <2> QED
    BY <1>13, <2>2, <2>3, BecomeRuns DEF Runs
<1> QED
  BY <1>10, <1>12, <1>13

\* The connection of an answer gets it.
LEMMA AddHanded ==
  ASSUME NEW s, Good(s), NEW p, Good(p), p.client = s.client, p.conn = s.conn, p.table = s.table,
         p.watch = s.watch, p.edge = s.edge, p.jobs = s.jobs, p.loop = s.loop,
         NEW c \in Conns, NEW e \in Response, e.to = c
  PROVE  LET u == addResponse(p, c, e)
         IN  Good(u) /\ Handed(s, u, c, e) /\ u.rq = p.rq /\ u.cq = p.cq
<1> DEFINE q == Append(p.conn[c].resps, e)
           k == [p.conn[c] EXCEPT !.resps = q]
           u == addResponse(p, c, e)
<1>1. Good(u)
  BY AddResponseGood DEF Kept
<1>2. p.conn[c] \in Connection /\ p \in States
  BY StateForm DEF Good
<1>3. q \in Seq(Response)
  <2>1. p.conn[c].resps \in Seq(Response)
    BY <1>2 DEF Connection
  <2> QED
    BY <2>1, QueuePush
<1>4. u = [p EXCEPT !.conn[c] = k]
  BY <1>2 DEF addResponse, States
<1>5. q = Append(s.conn[c].resps, e)
  OBVIOUS
<1> HIDE DEF q, u
<1>6. /\ k \in Connection /\ k.resps = q /\ k.state = p.conn[c].state /\ k.fd = p.conn[c].fd
      /\ k.custom = p.conn[c].custom /\ k.requests = p.conn[c].requests
      /\ k.send_buffer = p.conn[c].send_buffer /\ k.alive = p.conn[c].alive
      /\ k.keepalive = p.conn[c].keepalive /\ k.age = p.conn[c].age
  BY <1>2, <1>3 DEF Connection
<1> HIDE DEF k
<1>7. /\ u.conn[c] = k
      /\ \A d \in Conns \ {c} : u.conn[d] = p.conn[d]
      /\ u.client = p.client /\ u.table = p.table /\ u.watch = p.watch /\ u.edge = p.edge
      /\ u.rq = p.rq /\ u.cq = p.cq /\ u.jobs = p.jobs /\ u.loop = p.loop
  BY <1>2, <1>4, <1>6, PutConn
<1>8. Handed(s, u, c, e)
  BY <1>5, <1>6, <1>7 DEF Handed
<1> QED
  BY <1>1, <1>7, <1>8 DEF u

LEMMA NextResponseRuns ==
  ASSUME Runs(Here), NextResponse
  PROVE  Runs(Here')
<1> DEFINE r == Head(resp_queue)
           p == [Here EXCEPT !.rq = Tail(@)]
           u == addResponse(p, r.conn, r.resp)
<1>1. PICK o \in Outcomes : Outcome(r.conn, o) /\ Become(handleResponse(u, r.conn, o))
  BY DEF NextResponse
<1>2. Good(Here) /\ Here \in States /\ Here.loop = "answers"
  BY HereForm DEF Runs, Fit, Good, NextResponse
<1>3. /\ resp_queue \in Seq([conn : Conns, resp : Response]) /\ QueueInv(Here, resp_queue)
      /\ resp_queue # <<>> /\ Here.rq # <<>> /\ Here.rq = resp_queue
  BY <1>2, HereForm, StateForm DEF Good, OwnInv, NextResponse
<1>4. /\ r.conn \in Conns /\ r.resp \in Response /\ r.resp.to = r.conn
      /\ Here.conn[r.conn].state = "open"
  BY <1>2, <1>3, HeadGood
<1>5. r \in Entries
  <2>1. resp_queue \in Seq(Entries)
    BY <1>3 DEF Entries
  <2> QED
    BY <1>3, <2>1, QueuePop
<1>6. Good(p)
  BY <1>2, <1>3, PopGood
<1>7. /\ p.client = Here.client /\ p.conn = Here.conn /\ p.table = Here.table /\ p.watch = Here.watch
      /\ p.edge = Here.edge /\ p.cq = Here.cq /\ p.jobs = Here.jobs /\ p.loop = Here.loop
      /\ p.rq = Tail(Here.rq)
  BY <1>2 DEF States
<1>8. r = Head(Here.rq)
  BY <1>3
<1> HIDE DEF r, p
<1>9. Good(u) /\ Handed(Here, u, r.conn, r.resp) /\ u.rq = p.rq /\ u.cq = p.cq
  BY <1>2, <1>4, <1>6, <1>7, AddHanded
<1> HIDE DEF u
<1>10. Popped(Here, u, r)
  BY <1>3, <1>7, <1>8, <1>9 DEF Popped
<1>11. o = "fails" => Here.client[r.conn].closed \/ Here.client[r.conn].shut
  BY <1>1, HereForm DEF Outcome
<1>12. Fit(handleResponse(u, r.conn, o), NoConn) /\ Blamed(handleResponse(u, r.conn, o))
  BY <1>2, <1>4, <1>5, <1>9, <1>10, <1>11, FitAnswer DEF Runs
<1> QED
  BY <1>1, <1>12, BecomeRuns DEF Runs

LEMMA NextCustomResponseRuns ==
  ASSUME Runs(Here), NextCustomResponse
  PROVE  Runs(Here')
<1> DEFINE r == Head(custom_resp_queue)
           p == [Here EXCEPT !.cq = Tail(@)]
           u == addResponse(p, r.conn, r.resp)
<1>1. PICK o \in Outcomes : Outcome(r.conn, o) /\ Become(handleResponse(u, r.conn, o))
  BY DEF NextCustomResponse
<1>2. Good(Here) /\ Here \in States /\ Here.loop = "answers"
  BY HereForm DEF Runs, Fit, Good, NextCustomResponse
<1>3. /\ custom_resp_queue \in Seq([conn : Conns, resp : Response])
      /\ QueueInv(Here, custom_resp_queue)
      /\ custom_resp_queue # <<>> /\ Here.cq # <<>> /\ Here.cq = custom_resp_queue
  BY <1>2, HereForm, StateForm DEF Good, OwnInv, NextCustomResponse
<1>4. /\ r.conn \in Conns /\ r.resp \in Response /\ r.resp.to = r.conn
      /\ Here.conn[r.conn].state = "open"
  BY <1>2, <1>3, HeadGood
<1>5. r \in Entries
  <2>1. custom_resp_queue \in Seq(Entries)
    BY <1>3 DEF Entries
  <2> QED
    BY <1>3, <2>1, QueuePop
<1>6. Good(p)
  BY <1>2, <1>3, PopGood
<1>7. /\ p.client = Here.client /\ p.conn = Here.conn /\ p.table = Here.table /\ p.watch = Here.watch
      /\ p.edge = Here.edge /\ p.rq = Here.rq /\ p.jobs = Here.jobs /\ p.loop = Here.loop
      /\ p.cq = Tail(Here.cq)
  BY <1>2 DEF States
<1>8. r = Head(Here.cq)
  BY <1>3
<1> HIDE DEF r, p
<1>9. Good(u) /\ Handed(Here, u, r.conn, r.resp) /\ u.rq = p.rq /\ u.cq = p.cq
  BY <1>2, <1>4, <1>6, <1>7, AddHanded
<1> HIDE DEF u
<1>10. Popped(Here, u, r)
  BY <1>3, <1>7, <1>8, <1>9 DEF Popped
<1>11. o = "fails" => Here.client[r.conn].closed \/ Here.client[r.conn].shut
  BY <1>1, HereForm DEF Outcome
<1>12. Fit(handleResponse(u, r.conn, o), NoConn) /\ Blamed(handleResponse(u, r.conn, o))
  BY <1>2, <1>4, <1>5, <1>9, <1>10, <1>11, FitAnswer DEF Runs
<1> QED
  BY <1>1, <1>12, BecomeRuns DEF Runs

\* Nothing but where the loop is changes.
LEMMA LoopOnlyRuns ==
  ASSUME Runs(Here), loop' \in {"events", "answers", "stuck", "undefined"},
         UNCHANGED <<client, conn, table, watch, edge, resp_queue, custom_resp_queue, jobs>>
  PROVE  Fit(Here', NoConn)
<1>1. Here' = [Here EXCEPT !.loop = loop']
  BY DEF Here
<1> QED
  BY <1>1, FitLoop DEF Runs

LEMMA LockQueuesRuns ==
  ASSUME Runs(Here), LockQueues
  PROVE  Runs(Here')
<1>1. loop' = "answers" /\ Here'.loop = loop'
  BY DEF LockQueues, Here
<1>2. Fit(Here', NoConn)
  BY <1>1, LoopOnlyRuns DEF LockQueues
<1> QED
  BY <1>1, <1>2 DEF Runs, Blamed

LEMMA CleanUpRuns ==
  ASSUME Runs(Here), cleanUpDeadConnections
  PROVE  Runs(Here')
<1>1. CASE Become([Erase(Here, Dead) EXCEPT !.loop = "events"])
  <2>1. Dead \in SUBSET Fds /\ NoConn \notin Conns
    BY HttpServerAssumption DEF Dead
  <2>2. \A f \in Dead : Here.table[f] # NoConn =>
          ~notDead(Here.conn[Here.table[f]]) \/ Here.conn[Here.table[f]].keepalive
    BY HereForm DEF Dead
  <2> DEFINE t == Erase(Here, Dead)
  <2>3. Fit(t, NoConn)
    BY <2>1, <2>2, FitErase DEF Runs
  <2> HIDE DEF t
  <2> DEFINE u == [t EXCEPT !.loop = "events"]
  <2>4. Fit(u, NoConn) /\ u.loop = "events"
    BY <2>3, FitLoop
  <2>5. Become(u)
    BY <1>1 DEF t
  <2> HIDE DEF u
  <2> QED
    BY <2>4, <2>5, BecomeRuns DEF Runs, Blamed
<1>2. CASE /\ Dead # {} /\ loop' = "undefined"
           /\ UNCHANGED <<client, conn, table, watch, edge, resp_queue, custom_resp_queue, jobs>>
  <2>1. PICK f \in Fds : table[f] # NoConn /\ ~notDead(conn[table[f]])
    BY <1>2 DEF Dead
  <2> DEFINE c == table[f]
  <2>2. Good(Here) /\ Here \in States
    BY DEF Runs, Fit, Good
  <2>3. c \in Conns /\ Here.conn[c].state = "open" /\ Listed(Here, c)
    BY <2>1, <2>2, HereForm, ListedForm
  <2> HIDE DEF c
  <2>4. Here.conn[c].alive /\ Here.conn[c] \in Connection
    BY <2>2, <2>3, HttpServerAssumption, AtTypes DEF Runs, Fit, AliveAt
  <2>5. Aged(conn[c]) /\ conn[c].state = "open"
    BY <2>1, <2>3, <2>4, HereForm, DeadForm DEF c
  <2>6. Here'.conn = conn /\ Here'.loop = "undefined"
    BY <1>2 DEF Here
  <2>7. Fit(Here', NoConn)
    BY <1>2, LoopOnlyRuns
  <2>8. Blamed(Here')
    BY <2>3, <2>5, <2>6 DEF Blamed
  <2> QED
    BY <2>7, <2>8 DEF Runs
<1> QED
  BY <1>1, <1>2 DEF cleanUpDeadConnections

-------------------------------------------------------------------------------
(* The steps of threads and clients. *)

\* A connection leaves its state, and does not come to speak HTTP by that.
LEMMA FlowState ==
  ASSUME NEW k, NEW m, NEW A, NEW J, Flow(k, m, A, J), NEW l, Plain(l) => Plain(k),
         l.waiting = k.waiting, l.requests = k.requests, l.resps = k.resps,
         l.send_buffer = k.send_buffer
  PROVE  Flow(l, m, A, J)
<1>1. Chained(l, m, Out(A, J))
  BY DEF Flow, Chained
<1>2. Asked(l, m)
  BY DEF Flow, Asked
<1>3. NoCustoms(l, m) <=> NoCustoms(k, m)
  BY DEF NoCustoms
<1> QED
  BY <1>1, <1>2, <1>3 DEF Flow, Handshake

\* What a connection and its client may do while the server does nothing.
Onward(k, m, l, p) ==
  /\ k.state = "open" <=> l.state = "open"
  /\ k.state = "open" => /\ l.fd = k.fd /\ l.alive = k.alive /\ l.keepalive = k.keepalive
                         /\ l.custom = k.custom /\ l.requests = k.requests
                         /\ Aged(k) => Aged(l)
  /\ (m.early => p.early) /\ (Excuse(m) => Excuse(p))
  /\ "close" \in Range(m.asked) => "close" \in Range(p.asked)

LEMMA LifeOnward ==
  ASSUME NEW k, NEW m, NEW l, NEW p, Onward(k, m, l, p), k.state = "open", NEW A, NEW J, NEW a, NEW w,
         Life(k, m, A, J, a, w)
  PROVE  Life(l, p, A, J, a, w)
BY DEF Onward, Life

LEMMA OutsideRuns ==
  ASSUME Runs(Here), Good(Here'), UNCHANGED <<table, watch, resp_queue, custom_resp_queue, jobs, loop>>,
         EdgeInv(Here'),
         \A d \in Conns : /\ Flow(conn'[d], client'[d], Queued(Here, d), Working(Here, d))
                          /\ Onward(conn[d], client[d], conn'[d], client'[d])
  PROVE  Runs(Here')
<1> DEFINE s == Here
           t == Here'
<1>1. /\ t.client = client' /\ t.conn = conn' /\ t.table = table /\ t.watch = watch
      /\ t.rq = resp_queue /\ t.cq = custom_resp_queue /\ t.jobs = jobs /\ t.loop = loop
  BY DEF Here
<1>2. /\ s.client = client /\ s.conn = conn /\ s.table = table /\ s.watch = watch
      /\ s.rq = resp_queue /\ s.cq = custom_resp_queue /\ s.jobs = jobs /\ s.loop = loop
  BY DEF Here
<1>3. Runs(s) /\ Good(t) /\ EdgeInv(t)
  OBVIOUS
<1>4. \A d \in Conns : /\ Flow(t.conn[d], t.client[d], Queued(s, d), Working(s, d))
                       /\ Onward(s.conn[d], s.client[d], t.conn[d], t.client[d])
  BY <1>1, <1>2
<1> HIDE DEF s, t
<1>5. \A d : /\ Queued(t, d) = Queued(s, d) /\ Working(t, d) = Working(s, d)
             /\ OneQueued(t, d) <=> OneQueued(s, d)
  BY <1>1, <1>2 DEF Queued, Working, OneQueued
<1>6. ASSUME NEW d \in Conns PROVE At(t, d) /\ AliveAt(t, d)
  <2>1. At(s, d) /\ AliveAt(s, d)
    BY <1>3, HttpServerAssumption DEF Runs, Fit
  <2>2. FlowAt(t, d)
    BY <1>4, <1>5, <2>1 DEF At, FlowAt, Single
  <2> DEFINE k == s.conn[d]
             l == t.conn[d]
             m == s.client[d]
             p == t.client[d]
  <2>3. Onward(k, m, l, p)
    BY <1>4
  <2>4. k.state = "open" => Life(k, m, Queued(s, d), Working(s, d), Listed(s, d), s.watch[k.fd])
    BY <2>1 DEF At, LifeAt
  <2>5. l.state = "open" => k.state = "open" /\ (Listed(t, d) <=> Listed(s, d)) /\ t.watch[l.fd] = s.watch[k.fd]
                            /\ l.alive = k.alive
    BY <1>1, <1>2, <2>3 DEF Onward, Listed
  <2>6. ASSUME l.state = "open"
        PROVE  Life(l, p, Queued(t, d), Working(t, d), Listed(t, d), t.watch[l.fd])
    <3> DEFINE A == Queued(s, d)
               J == Working(s, d)
               a == Listed(s, d)
               b == Listed(t, d)
               w == s.watch[k.fd]
    <3>1. Queued(t, d) = A /\ Working(t, d) = J /\ (b <=> a) /\ t.watch[l.fd] = w
      BY <1>5, <2>5, <2>6
    <3>2. Life(k, m, A, J, a, w) /\ k.state = "open"
      BY <2>4, <2>5, <2>6
    <3> HIDE DEF A, J, a, b, w, k, l, m, p
    <3>3. Life(l, p, A, J, a, w)
      BY <2>3, <3>2, LifeOnward
    <3>4. Life(l, p, A, J, b, w)
      BY <3>1, <3>3 DEF Life
    <3> QED
      BY <3>1, <3>4 DEF b
  <2>7. LifeAt(t, d)
    BY <2>6 DEF LifeAt
  <2>8. AliveAt(t, d)
    BY <2>1, <2>5 DEF AliveAt
  <2> QED
    BY <2>2, <2>7, <2>8 DEF At
<1>7. Blamed(t)
  <2>1. Blamed(s) /\ t.loop = s.loop
    BY <1>1, <1>2, <1>3 DEF Runs
  <2> QED
    BY <1>4, <2>1 DEF Blamed, Onward
<1>8. Runs(t)
  BY <1>3, <1>6, <1>7 DEF Runs, Fit
<1> QED
  BY <1>8 DEF t

\* Data that comes in is an edge only where edges are watched.
LEMMA ReadableEdges ==
  ASSUME EdgeInv(Here), watch' = watch, NEW cs, edge' = Readable(edge, cs) \/ edge' = edge \cup {listen}
  PROVE  EdgeInv(Here')
<1>1. listen \notin Fds
  BY HttpServerAssumption DEF listen
<1>2. Here'.watch = watch /\ Here'.edge = edge' /\ Here.watch = watch /\ Here.edge = edge
  BY DEF Here
<1> DEFINE E(f) == watch[f] = "edge in"
<1>3. \A f \in Fds : f \in edge => E(f)
  BY <1>2 DEF EdgeInv
<1>4. \A f \in Fds : f \in Readable(edge, cs) => f \in edge \/ E(f)
  BY Zenon DEF Readable
<1> HIDE DEF E
<1>5. \A f \in Fds : f \in edge' => E(f)
  BY <1>1, <1>3, <1>4
<1> QED
  BY <1>2, <1>5 DEF EdgeInv, E

\* What is queued and in hand for a connection, and what its client has done.
LEMMA RunsForm ==
  ASSUME Runs(Here), NEW d \in Conns
  PROVE  /\ Flow(conn[d], client[d], Queued(Here, d), Working(Here, d)) /\ Single(Here, d)
         /\ Good(Here) /\ EdgeInv(Here) /\ conn[d] \in Connection /\ client[d] \in Client
         /\ client \in [Conns -> Client] /\ conn \in [Conns -> Connection]
         /\ Onward(conn[d], client[d], conn[d], client[d])
<1>1. At(Here, d) /\ Good(Here) /\ EdgeInv(Here) /\ Here \in States
  BY DEF Runs, Fit, Good
<1>2. client \in [Conns -> Client] /\ conn \in [Conns -> Connection]
  BY <1>1, HereType
<1>3. conn[d] \in Connection /\ client[d] \in Client
  BY <1>2
<1>4. Flow(conn[d], client[d], Queued(Here, d), Working(Here, d)) /\ Single(Here, d)
  BY <1>1, HereForm DEF At, FlowAt
<1>5. Onward(conn[d], client[d], conn[d], client[d])
  BY DEF Onward
<1> QED
  BY <1>1, <1>2, <1>3, <1>4, <1>5

LEMMA ConnectRuns ==
  ASSUME Runs(Here), NEW c \in Conns, Connect(c)
  PROVE  Runs(Here')
<1> DEFINE k == [conn[c] EXCEPT !.state = "backlog"]
<1>1. /\ conn[c].state = "none" /\ conn' = [conn EXCEPT ![c] = k] /\ edge' = edge \cup {listen}
      /\ UNCHANGED <<client, table, watch, resp_queue, custom_resp_queue, jobs, loop>>
  BY DEF Connect
<1>2. conn[c] \in Connection /\ conn \in [Conns -> Connection] /\ Good(Here) /\ EdgeInv(Here)
  BY RunsForm
<1>3. /\ k.state = "backlog" /\ k.waiting = conn[c].waiting /\ k.requests = conn[c].requests
      /\ k.resps = conn[c].resps /\ k.send_buffer = conn[c].send_buffer
  BY <1>2 DEF Connection
<1> HIDE DEF k
<1>4. \A d \in Conns : conn'[d] = IF d = c THEN k ELSE conn[d]
  BY <1>1, <1>2
<1>5. Good(Here') /\ EdgeInv(Here')
  BY <1>1, <1>2, ConnectGood, ReadableEdges
<1>6. ASSUME NEW d \in Conns
      PROVE  /\ Flow(conn'[d], client'[d], Queued(Here, d), Working(Here, d))
             /\ Onward(conn[d], client[d], conn'[d], client'[d])
  <2>1. /\ Flow(conn[d], client[d], Queued(Here, d), Working(Here, d))
        /\ Onward(conn[d], client[d], conn[d], client[d]) /\ client'[d] = client[d]
    BY <1>1, RunsForm
  <2>2. CASE d # c
    BY <1>4, <2>1, <2>2
  <2>3. CASE d = c
    <3>1. Plain(k) => Plain(conn[c])
      BY <1>1 DEF Plain
    <3>2. conn'[d] = k /\ client'[d] = client[d]
      BY <1>4, <2>1, <2>3
    <3>3. Flow(k, client[d], Queued(Here, d), Working(Here, d))
      BY <1>3, <2>1, <2>3, <3>1, FlowState
    <3>4. Onward(conn[d], client[d], k, client[d])
      BY <1>1, <1>3, <2>1, <2>3 DEF Onward
    <3> QED
      BY <3>2, <3>3, <3>4
  <2> QED
    BY <2>2, <2>3
<1> QED
  BY <1>1, <1>5, <1>6, OutsideRuns

LEMMA AskRuns ==
  ASSUME Runs(Here), NEW c \in Conns, NEW kind \in Kinds, Ask(c, kind)
  PROVE  Runs(Here')
<1> DEFINE m == client[c]
           as == Append(m.asked, kind)
           ar == Append(m.arrived, [n |-> Len(m.asked) + 1, kind |-> kind])
           b  == m.binary \/ kind = "upgrade"
           e  == m.early \/ Len(m.got) < Len(m.asked)
           p  == [m EXCEPT !.asked = as, !.arrived = ar, !.binary = b, !.early = e]
<1>1. /\ client' = [client EXCEPT ![c] = p] /\ edge' = Readable(edge, {c})
      /\ UNCHANGED <<conn, table, watch, resp_queue, custom_resp_queue, jobs, loop>>
      /\ m.binary => \E i \in DOMAIN m.got : m.got[i].form = "custom"
  BY DEF Ask
<1>2. m \in Client /\ client \in [Conns -> Client] /\ Good(Here) /\ EdgeInv(Here)
      /\ conn[c] \in Connection /\ Flow(conn[c], m, Queued(Here, c), Working(Here, c))
  BY RunsForm
<1>3. Good(Here') /\ EdgeInv(Here')
  BY <1>1, <1>2, AskGood, ReadableEdges
<1>4. \A d \in Conns : client'[d] = IF d = c THEN p ELSE client[d]
  BY <1>1, <1>2
<1>5. p \in Client
  <2>1. Here' \in States
    BY <1>3 DEF Good
  <2>2. client' \in [Conns -> Client]
    BY <2>1, StateForm DEF Here
  <2> QED
    BY <1>4, <2>2
<1>6. /\ p.asked = as /\ p.arrived = ar /\ p.binary = b /\ p.early = e /\ p.got = m.got
      /\ p.closed = m.closed /\ p.shut = m.shut
  BY <1>2 DEF Client
<1> HIDE DEF p
<1>7. m.binary => Customs(m.got) # {}
  BY <1>1 DEF Customs
<1>8. Flow(conn[c], p, Queued(Here, c), Working(Here, c))
  <2> DEFINE k == conn[c]
             A == Queued(Here, c)
             J == Working(Here, c)
  <2>1. k \in Connection /\ m \in Client /\ Flow(k, m, A, J)
    BY <1>2
  <2> HIDE DEF k, A, J, m
  <2>2. /\ p.asked = Append(m.asked, kind)
        /\ p.arrived = Append(m.arrived, [n |-> Len(m.asked) + 1, kind |-> kind])
        /\ p.binary = (m.binary \/ kind = "upgrade")
        /\ p.early = (m.early \/ Len(m.got) < Len(m.asked)) /\ p.got = m.got
    BY <1>6 DEF m
  <2>3. Flow(k, p, A, J)
    BY <1>5, <1>7, <2>1, <2>2, FlowAsk
  <2> QED
    BY <2>3 DEF k, A, J
<1>9. Onward(conn[c], m, conn[c], p)
  <2>1. "close" \in Range(m.asked) => "close" \in Range(p.asked)
    <3>1. m.asked \in Seq(Kinds)
      BY <1>2 DEF Client
    <3>2. \A i \in DOMAIN m.asked : i \in DOMAIN as /\ as[i] = m.asked[i]
      BY <3>1
    <3> QED
      BY <1>6, <3>2 DEF Range
  <2>2. m.early => p.early
    BY <1>6
  <2> QED
    BY <1>6, <2>1, <2>2 DEF Onward, Excuse
<1> HIDE DEF m
<1>10. ASSUME NEW d \in Conns
       PROVE  /\ Flow(conn'[d], client'[d], Queued(Here, d), Working(Here, d))
              /\ Onward(conn[d], client[d], conn'[d], client'[d])
  <2>1. /\ Flow(conn[d], client[d], Queued(Here, d), Working(Here, d))
        /\ Onward(conn[d], client[d], conn[d], client[d]) /\ conn'[d] = conn[d]
    BY <1>1, RunsForm
  <2> QED
    BY <1>4, <1>8, <1>9, <2>1 DEF m
<1> QED
  BY <1>1, <1>3, <1>10, OutsideRuns

LEMMA HangupRuns ==
  ASSUME Runs(Here), NEW c \in Conns, Hangup(c)
  PROVE  Runs(Here')
<1> DEFINE m == client[c]
           p == [m EXCEPT !.closed = TRUE]
<1>1. /\ client' = [client EXCEPT ![c] = p] /\ edge' = Readable(edge, {c})
      /\ UNCHANGED <<conn, table, watch, resp_queue, custom_resp_queue, jobs, loop>>
  BY DEF Hangup
<1>2. m \in Client /\ client \in [Conns -> Client] /\ Good(Here) /\ EdgeInv(Here)
      /\ Flow(conn[c], m, Queued(Here, c), Working(Here, c))
  BY RunsForm
<1>3. Good(Here') /\ EdgeInv(Here')
  BY <1>1, <1>2, HangupGood, ReadableEdges
<1>4. \A d \in Conns : client'[d] = IF d = c THEN p ELSE client[d]
  BY <1>1, <1>2
<1>5. /\ p.got = m.got /\ p.arrived = m.arrived /\ p.asked = m.asked /\ p.early = m.early
      /\ p.binary = m.binary /\ p.closed
  BY <1>2 DEF Client
<1> HIDE DEF p, m
<1>6. Flow(conn[c], p, Queued(Here, c), Working(Here, c))
  BY <1>2, <1>5, FlowSame
<1>7. Onward(conn[c], m, conn[c], p)
  BY <1>5 DEF Onward, Excuse
<1>8. ASSUME NEW d \in Conns
      PROVE  /\ Flow(conn'[d], client'[d], Queued(Here, d), Working(Here, d))
             /\ Onward(conn[d], client[d], conn'[d], client'[d])
  <2>1. /\ Flow(conn[d], client[d], Queued(Here, d), Working(Here, d))
        /\ Onward(conn[d], client[d], conn[d], client[d]) /\ conn'[d] = conn[d]
    BY <1>1, RunsForm
  <2> QED
    BY <1>4, <1>6, <1>7, <2>1 DEF m
<1> QED
  BY <1>1, <1>3, <1>8, OutsideRuns

LEMMA GrowRuns ==
  ASSUME Runs(Here), NEW c \in Conns, Grow(c)
  PROVE  Runs(Here')
<1> DEFINE a == IF conn[c].age = "young" THEN "old" ELSE "idle"
           k == [conn[c] EXCEPT !.age = a]
<1>1. /\ conn' = [conn EXCEPT ![c] = k] /\ conn[c].age # "idle"
      /\ UNCHANGED <<client, table, watch, edge, resp_queue, custom_resp_queue, jobs, loop>>
  BY DEF Grow
<1>2. conn[c] \in Connection /\ conn \in [Conns -> Connection] /\ Good(Here) /\ EdgeInv(Here)
      /\ Flow(conn[c], client[c], Queued(Here, c), Working(Here, c))
  BY RunsForm
<1>3. /\ k.state = conn[c].state /\ k.waiting = conn[c].waiting /\ k.requests = conn[c].requests
      /\ k.resps = conn[c].resps /\ k.send_buffer = conn[c].send_buffer /\ k.custom = conn[c].custom
      /\ k.fd = conn[c].fd /\ k.alive = conn[c].alive /\ k.keepalive = conn[c].keepalive /\ k.age = a
  BY <1>2 DEF Connection
<1> HIDE DEF k
<1>4. \A d \in Conns : conn'[d] = IF d = c THEN k ELSE conn[d]
  BY <1>1, <1>2
<1>5. Good(Here') /\ EdgeInv(Here')
  <2>1. Here'.edge = Here.edge /\ Here'.watch = Here.watch
    BY <1>1 DEF Here
  <2> QED
    BY <1>2, <2>1, GrowGood DEF EdgeInv
<1>6. Flow(k, client[c], Queued(Here, c), Working(Here, c))
  BY <1>2, <1>3, FlowSame
<1>7. Onward(conn[c], client[c], k, client[c])
  <2>1. Aged(conn[c]) => Aged(k)
    BY <1>1, <1>3 DEF Aged
  <2> QED
    BY <1>3, <2>1 DEF Onward
<1>8. ASSUME NEW d \in Conns
      PROVE  /\ Flow(conn'[d], client'[d], Queued(Here, d), Working(Here, d))
             /\ Onward(conn[d], client[d], conn'[d], client'[d])
  <2>1. /\ Flow(conn[d], client[d], Queued(Here, d), Working(Here, d))
        /\ Onward(conn[d], client[d], conn[d], client[d]) /\ client'[d] = client[d]
    BY <1>1, RunsForm
  <2> QED
    BY <1>4, <1>6, <1>7, <2>1
<1> QED
  BY <1>1, <1>5, <1>8, OutsideRuns

LEMMA ShutdownRuns ==
  ASSUME Runs(Here), NEW c \in Conns, Shutdown(c)
  PROVE  Runs(Here')
<1> DEFINE others == {d \in Conns : conn[d].state = "open" /\ conn[d].fd = conn[c].fd}
           k == [NewConn(conn[c].fd) EXCEPT !.state = "gone"]
           p(d) == [client[d] EXCEPT !.shut = TRUE]
<1>1. /\ conn[c].state = "closed" /\ conn' = [conn EXCEPT ![c] = k]
      /\ client' = [d \in Conns |-> IF d \in others THEN p(d) ELSE client[d]]
      /\ edge' = Readable(edge, others)
      /\ UNCHANGED <<table, watch, resp_queue, custom_resp_queue, jobs, loop>>
  BY DEF Shutdown
<1>2. conn[c] \in Connection /\ conn \in [Conns -> Connection] /\ Good(Here) /\ EdgeInv(Here)
      /\ client \in [Conns -> Client] /\ Flow(conn[c], client[c], Queued(Here, c), Working(Here, c))
  BY RunsForm
<1>3. Good(Here') /\ EdgeInv(Here')
  BY <1>1, <1>2, ShutdownGood, ReadableEdges
<1>4. /\ k.requests = <<>> /\ k.resps = <<>> /\ k.send_buffer = <<>> /\ k.state = "gone" /\ ~Plain(k)
  BY GoneForm
<1>5. c \notin others
  BY <1>1
<1>6. \A d \in Conns : p(d).got = client[d].got /\ p(d).arrived = client[d].arrived
        /\ p(d).asked = client[d].asked /\ p(d).early = client[d].early
        /\ p(d).binary = client[d].binary /\ p(d).shut
  BY <1>2 DEF Client
<1> HIDE DEF k, p, others
<1>7. \A d \in Conns : /\ conn'[d] = IF d = c THEN k ELSE conn[d]
                       /\ client'[d] = client[d] \/ client'[d] = p(d)
  BY <1>1, <1>2
<1>8. client'[c] = client[c] /\ conn'[c] = k
  BY <1>1, <1>2, <1>5
<1>9. Queued(Here, c) = {} /\ Working(Here, c) = {}
  <2>1. /\ \A i \in DOMAIN Here.rq : Here.rq[i].conn # c
        /\ \A i \in DOMAIN Here.cq : Here.cq[i].conn # c
        /\ \A j \in Here.jobs : j.conn # c
    BY <1>1, <1>2, HereForm, Unused
  <2> QED
    BY <2>1, UnusedNone
<1>10. Flow(k, client[c], {}, {})
  BY <1>2, <1>4, FlowReset
<1>11. Onward(conn[c], client[c], k, client[c])
  BY <1>1, <1>4 DEF Onward
<1>12. ASSUME NEW d \in Conns
       PROVE  /\ Flow(conn'[d], client'[d], Queued(Here, d), Working(Here, d))
              /\ Onward(conn[d], client[d], conn'[d], client'[d])
  <2>1. /\ Flow(conn[d], client[d], Queued(Here, d), Working(Here, d))
        /\ Onward(conn[d], client[d], conn[d], client[d])
    BY RunsForm
  <2>2. CASE d = c
    BY <1>8, <1>9, <1>10, <1>11, <2>2
  <2>3. CASE d # c
    <3>1. conn'[d] = conn[d]
      BY <1>7, <2>3
    <3>2. CASE client'[d] = client[d]
      BY <2>1, <3>1, <3>2
    <3>3. CASE client'[d] = p(d)
      <4>1. Flow(conn[d], p(d), Queued(Here, d), Working(Here, d))
        BY <1>6, <2>1, FlowSame
      <4>2. Onward(conn[d], client[d], conn[d], p(d))
        BY <1>6 DEF Onward, Excuse
      <4> QED
        BY <3>1, <3>3, <4>1, <4>2
    <3> QED
      BY <1>7, <3>2, <3>3
  <2> QED
    BY <2>2, <2>3
<1> QED
  BY <1>1, <1>3, <1>12, OutsideRuns

\* A thread has answered, if the connection is in the table still.
LEMMA AnsweredRuns ==
  ASSUME NEW s, Runs(s), s.loop = "events", NEW j \in s.jobs
  PROVE  LET t == onSendResponse([s EXCEPT !.jobs = @ \ {j}], j.conn, j.n)
         IN  Runs(t) /\ t.loop = "events"
<1> DEFINE c == j.conn
           n == j.n
           h == [s EXCEPT !.jobs = @ \ {j}]
           t == onSendResponse(h, c, n)
<1>1. s \in States /\ Good(s) /\ s.jobs \in SUBSET [conn : Conns, n : Nat]
  BY StateForm DEF Runs, Fit, Good
<1>2. /\ c \in Conns /\ n \in Nat /\ s.conn[c].state = "open" /\ j = [conn |-> c, n |-> n]
  <2>1. j \in [conn : Conns, n : Nat]
    BY <1>1
  <2> QED
    BY <1>1, <2>1 DEF Good, OwnInv
<1>3. \A x \in s.jobs : x.conn = c /\ x.n = n => x = j
  BY <1>1, <1>2
<1>4. /\ h \in States
      /\ h.client = s.client /\ h.conn = s.conn /\ h.table = s.table /\ h.watch = s.watch
      /\ h.edge = s.edge /\ h.rq = s.rq /\ h.cq = s.cq /\ h.jobs = s.jobs \ {j} /\ h.loop = s.loop
  BY <1>1 DEF States
<1>5. t = onSendResponse(h, c, n) /\ j.conn = c /\ j.n = n /\ s.loop = "events"
  OBVIOUS
<1> HIDE DEF c, n, h, t
<1>6. Good(h)
  BY <1>1, <1>4, GoodFrame DEF Good, OwnInv
<1>7. n \in Working(s, c) /\ At(s, c) /\ AliveAt(s, c)
  <2>1. At(s, c) /\ AliveAt(s, c)
    BY <1>2, HttpServerAssumption DEF Runs, Fit
  <2> QED
    BY <1>5, <2>1 DEF Working
<1>8. Single(s, c) /\ Queued(s, c) = {} /\ \A i \in Working(s, c) : i = n
  BY <1>7 DEF At, FlowAt, Single
<1>9. Working(h, c) = {}
  <2>1. \A x \in h.jobs : x \in s.jobs /\ x # j
    BY <1>4
  <2>2. \A x \in s.jobs : x.conn = c => x.n = n
    BY <1>8 DEF Working
  <2>3. \A x \in h.jobs : x.conn # c
    BY <1>3, <2>1, <2>2
  <2> QED
    BY <2>3 DEF Working
<1>10. \A d : Queued(h, d) = Queued(s, d) /\ (OneQueued(h, d) <=> OneQueued(s, d))
  BY <1>4 DEF Queued, OneQueued
<1>11. \A d : d # c => Working(h, d) = Working(s, d)
  BY <1>4, <1>5 DEF Working
<1>12. Single(h, c) /\ Queued(h, c) = {}
  BY <1>8, <1>9, <1>10 DEF Single
<1>13. /\ Started(h, t, c, n) /\ Working(t, c) = {} /\ \A r \in Queued(t, c) : r.form = "http"
       /\ t.loop = "events" /\ Good(t)
  <2>1. h.conn[c].state = "open"
    BY <1>2, <1>4
  <2>2. Good(t)
    BY <1>2, <1>5, <1>6, <2>1, SendResponseGood DEF Kept
  <2>3. /\ Started(h, t, c, n) /\ Working(t, c) = {}
        /\ \A r \in Queued(t, c) : r.form = "http"
        /\ t.loop = h.loop \/ (h.loop = "answers" /\ t.loop = "stuck")
    <3>1. Good(h) /\ c \in Conns /\ n \in Nat /\ Queued(h, c) = {} /\ Working(h, c) = {} /\ Single(h, c)
      BY <1>2, <1>6, <1>9, <1>12
    <3>2. /\ Started(h, onSendResponse(h, c, n), c, n) /\ Working(onSendResponse(h, c, n), c) = {}
          /\ \A r \in Queued(onSendResponse(h, c, n), c) : r.form = "http"
          /\ \/ onSendResponse(h, c, n).loop = h.loop
             \/ h.loop = "answers" /\ onSendResponse(h, c, n).loop = "stuck"
          /\ Started(h, onSendCustomResponse(h, c, n), c, n)
          /\ Working(onSendCustomResponse(h, c, n), c) = {}
          /\ onSendCustomResponse(h, c, n).loop = h.loop
      BY <2>1, <3>1, SendStarts
    <3> QED
      BY <1>5, <3>2
  <2>4. h.loop = "events"
    BY <1>4
  <2> QED
    BY <2>2, <2>3, <2>4
<1>14. \A d \in Conns : d # c => Unmoved(s, t, d)
  BY <1>4, <1>10, <1>11, <1>13 DEF Started, Elsewhere, Unmoved, Listed
<1> DEFINE k == s.conn[c]
           m == s.client[c]
           A == Queued(s, c)
           J == Working(s, c)
           B == Queued(t, c)
<1>15. /\ t.conn[c] = k /\ t.client[c] = m /\ t.edge = s.edge /\ t.watch = s.watch
       /\ (Listed(t, c) <=> Listed(s, c)) /\ (B # {} => Listed(s, c)) /\ Out(B, {}) \subseteq {n}
  BY <1>4, <1>13 DEF Started, Listed
<1>16. Flow(k, m, A, J) /\ Life(k, m, A, J, Listed(s, c), s.watch[k.fd]) /\ n \in Out(A, J)
  BY <1>2, <1>7, AtForm DEF Out
<1>17. Listed(s, c) => k.alive
  BY <1>2, <1>7 DEF AliveAt
<1>18. \A r \in B : r.form = "http"
  BY <1>13
<1> HIDE DEF k, m, A, J, B
<1>19. Flow(k, m, B, {})
  BY <1>15, <1>16, <1>18, FlowLess
<1>20. Life(k, m, B, {}, Listed(t, c), s.watch[k.fd])
  <2> DEFINE a == Listed(s, c)
             b == Listed(t, c)
             w == s.watch[k.fd]
  <2>1. Life(k, m, A, J, a, w) /\ (b <=> a) /\ (B # {} => a) /\ (a => k.alive) /\ Out(A, J) # {}
    BY <1>15, <1>16, <1>17
  <2> HIDE DEF a, b, w
  <2>2. Life(k, m, B, {}, b, w)
    BY <2>1 DEF Life
  <2> QED
    BY <2>2 DEF b, w
<1>21. At(t, c) /\ AliveAt(t, c)
  <2>1. FlowAt(t, c)
    BY <1>13, <1>15, <1>19 DEF FlowAt, Started, B
  <2>2. LifeAt(t, c)
    BY <1>13, <1>15, <1>20 DEF LifeAt, B
  <2> QED
    BY <1>15, <1>17, <2>1, <2>2 DEF At, AliveAt
<1>22. EdgeInv(t) /\ Fit(s, c)
  BY <1>15, HttpServerAssumption DEF EdgeInv, Runs, Fit
<1>23. Fit(t, NoConn)
  BY <1>2, <1>13, <1>14, <1>21, <1>22, FitMove
<1> QED
  <2>1. Runs(t) /\ t.loop = "events"
    BY <1>13, <1>23 DEF Runs, Blamed
  <2> QED
    BY <2>1 DEF t, h, c, n

\* The last to refer to a connection closes its socket.
LEMMA ClosedRuns ==
  ASSUME NEW s, Runs(s), s.loop = "events", NEW c \in Conns, ~Referenced(s, c)
  PROVE  Runs([s EXCEPT !.conn[c].state = "closed"])
<1> DEFINE k == [s.conn[c] EXCEPT !.state = "closed"]
           u == [s EXCEPT !.conn[c] = k]
<1>1. s \in States /\ Good(s)
  BY DEF Runs, Fit, Good
<1>2. s.conn[c] \in Connection /\ Owned(s.conn[c].send_buffer, c) /\ Owned(s.conn[c].resps, c)
  BY <1>1, StateForm DEF Good, OwnInv
<1>3. /\ k \in Connection /\ k.state = "closed" /\ k.waiting = s.conn[c].waiting
      /\ k.requests = s.conn[c].requests
      /\ k.send_buffer = s.conn[c].send_buffer /\ k.resps = s.conn[c].resps
  BY <1>2 DEF Connection
<1>4. /\ \A f \in Fds : s.table[f] # c
      /\ \A i \in DOMAIN s.rq : s.rq[i].conn # c
      /\ \A i \in DOMAIN s.cq : s.cq[i].conn # c
      /\ \A l \in s.jobs : l.conn # c
  BY DEF Referenced
<1> HIDE DEF k
<1>5. Good(u)
  BY <1>1, <1>2, <1>3, <1>4, GoodOther
<1>6. /\ u.client = s.client /\ u.table = s.table /\ u.watch = s.watch /\ u.edge = s.edge
      /\ u.rq = s.rq /\ u.cq = s.cq /\ u.jobs = s.jobs /\ u.loop = s.loop
      /\ \A d \in Conns : u.conn[d] = IF d = c THEN k ELSE s.conn[d]
  BY <1>1 DEF States
<1>7. u = [s EXCEPT !.conn[c].state = "closed"]
  BY DEF k
<1> HIDE DEF u
<1>8. \A d : /\ Queued(u, d) = Queued(s, d) /\ Working(u, d) = Working(s, d)
             /\ OneQueued(u, d) <=> OneQueued(s, d)
  BY <1>6 DEF Queued, Working, OneQueued
<1>9. \A d \in Conns : d # c => Unmoved(s, u, d)
  BY <1>6, <1>8 DEF Unmoved, Listed
<1>10. Flow(s.conn[c], s.client[c], Queued(s, c), Working(s, c)) /\ Single(s, c)
  BY AtForm DEF Runs, Fit
<1>11. ~Plain(k)
  BY <1>3 DEF Plain
<1>12. Flow(k, s.client[c], Queued(s, c), Working(s, c))
  BY <1>3, <1>10, <1>11, FlowState
<1>13. FlowAt(u, c)
  BY <1>6, <1>8, <1>10, <1>12 DEF FlowAt, Single
<1>14. At(u, c) /\ AliveAt(u, c)
  BY <1>3, <1>6, <1>13 DEF At, LifeAt, AliveAt
<1>15. EdgeInv(u) /\ Fit(s, c)
  BY <1>6, HttpServerAssumption DEF EdgeInv, Runs, Fit
<1>16. Fit(u, NoConn)
  BY <1>5, <1>9, <1>14, <1>15, FitMove
<1>17. Runs(u)
  BY <1>6, <1>16 DEF Runs, Blamed
<1> QED
  BY <1>7, <1>17

LEMMA OnAsyncCallDoneRuns ==
  ASSUME Runs(Here), NEW j \in jobs, onAsyncCallDone(j)
  PROVE  Runs(Here')
<1> DEFINE c == j.conn
           s == [onSendResponse(Here, c, j.n) EXCEPT !.jobs = @ \ {j}]
           h == [Here EXCEPT !.jobs = @ \ {j}]
<1>1. Here \in States /\ Here.loop = "events" /\ j \in Here.jobs
  BY HereForm DEF Runs, Fit, Good, onAsyncCallDone
<1>2. c \in Conns
  <2>1. Here.jobs \in SUBSET [conn : Conns, n : Nat]
    BY <1>1, StateForm
  <2> QED
    BY <1>1, <2>1
<1>3. s = onSendResponse(h, c, j.n)
  BY <1>1, ZenonT(60) DEF onSendResponse, Here
<1>4. /\ Referenced(s, c) => Become(s)
      /\ ~Referenced(s, c) => Become([s EXCEPT !.conn[c].state = "closed"])
  BY DEF onAsyncCallDone
<1> HIDE DEF s
<1>5. Runs(s) /\ s.loop = "events"
  BY <1>1, <1>3, AnsweredRuns
<1>6. CASE Referenced(s, c)
  BY <1>4, <1>5, <1>6, BecomeRuns
<1>7. CASE ~Referenced(s, c)
  <2> DEFINE u == [s EXCEPT !.conn[c].state = "closed"]
  <2>1. Runs(u)
    BY <1>2, <1>5, <1>7, ClosedRuns
  <2>2. Become(u)
    BY <1>4, <1>7
  <2> HIDE DEF u
  <2> QED
    BY <2>1, <2>2, BecomeRuns
<1> QED
  BY <1>6, <1>7

-------------------------------------------------------------------------------
(* The theorems. *)

LEMMA InitRuns ==
  ASSUME Init
  PROVE  Runs(Here)
<1> DEFINE m == [asked |-> <<>>, arrived |-> <<>>, closed |-> FALSE, got |-> <<>>,
                 early |-> FALSE, binary |-> FALSE, shut |-> FALSE]
           k == [NewConn(0) EXCEPT !.state = "none"]
<1>1. /\ client = [c \in Conns |-> m] /\ conn = [c \in Conns |-> k] /\ edge = {}
      /\ resp_queue = <<>> /\ custom_resp_queue = <<>> /\ jobs = {} /\ loop = "events"
  BY DEF Init
<1>2. Good(Here)
  BY InitGood DEF IndInv, TypeOK, Good
<1>3. m.asked = <<>> /\ m.arrived = <<>> /\ m.got = <<>>
  OBVIOUS
<1>4. k.state = "none" /\ k.requests = <<>> /\ k.resps = <<>> /\ k.send_buffer = <<>>
  BY DEF NewConn
<1> HIDE DEF m, k
<1>5. Flow(k, m, {}, {})
  <2>1. Out({}, {}) = {} /\ Chain({}, {}, {}, {}, {}, {}, Len(<<>>)) /\ Customs(<<>>) = {}
    BY DEF Out, Chain, Less, Customs
  <2>2. Chained(k, m, {})
    BY <1>3, <1>4, <2>1, NumsEmpty DEF Chained
  <2>3. Asked(k, m)
    BY <1>3, <1>4 DEF Asked
  <2> QED
    BY <1>3, <1>4, <2>1, <2>2, <2>3 DEF Flow, NoCustoms
<1>6. ASSUME NEW c \in Conns PROVE At(Here, c) /\ AliveAt(Here, c)
  <2>1. Here.conn[c] = k /\ Here.client[c] = m
    BY <1>1, HereForm
  <2>2. Here.rq = <<>> /\ Here.cq = <<>> /\ Here.jobs = {}
    BY <1>1, HereForm
  <2>3. For(<<>>, c) = {}
    BY DEF For
  <2>4. Queued(Here, c) = {} /\ Working(Here, c) = {} /\ OneQueued(Here, c)
    BY <2>2, <2>3 DEF Queued, Answers, Working, OneQueued, One
  <2>5. FlowAt(Here, c)
    BY <1>5, <2>1, <2>4 DEF FlowAt, Single
  <2> QED
    BY <1>4, <2>1, <2>5 DEF At, LifeAt, AliveAt
<1>7. EdgeInv(Here) /\ Blamed(Here)
  BY <1>1, HereForm DEF EdgeInv, Blamed
<1> QED
  BY <1>2, <1>6, <1>7 DEF Runs, Fit

LEMMA NextRuns ==
  ASSUME Runs(Here), [Next]_vars
  PROVE  Runs(Here')
<1>1. ASSUME UNCHANGED vars PROVE Runs(Here')
  BY <1>1 DEF vars, Here
<1>2. ASSUME Next PROVE Runs(Here')
  <2>1. ASSUME Server PROVE Runs(Here')
    BY <2>1, OnAcceptRuns, OnReadRuns, OnWriteRuns, LockQueuesRuns, NextResponseRuns,
       NextCustomResponseRuns, CleanUpRuns DEF Server
  <2>2. ASSUME Threads PROVE Runs(Here')
    BY <2>2, OnAsyncCallDoneRuns, ShutdownRuns DEF Threads
  <2>3. ASSUME Clients PROVE Runs(Here')
    BY <2>3, ConnectRuns, AskRuns, HangupRuns, GrowRuns DEF Clients
  <2> QED
    BY <1>2, <2>1, <2>2, <2>3 DEF Next
<1> QED
  BY <1>1, <1>2

\* The invariant, with the one below it, says that the loop works on what it should.
LEMMA RunsInv ==
  Runs(Here) <=> Good(Here) /\ GoesOnInv
BY HttpServerAssumption DEF Runs, Fit, At, GoesOnInv

\* The second inductive invariant: the numbers of a connection's requests and answers go up
\* from what has been sent to what has arrived, one request at a time is in hand or has its
\* answer queued, and a connection that is dead or out of the table while it has is so for
\* a reason its client gave or its age.
THEOREM GoesOnInvariant == Spec => []GoesOnInv
<1>1. Init => Runs(Here)
  BY InitRuns
<1>2. Runs(Here) /\ [Next]_vars => Runs(Here)'
  BY NextRuns
<1>3. Runs(Here) => GoesOnInv
  BY RunsInv
<1> QED
  BY <1>1, <1>2, <1>3, PTL DEF Spec

\* The answers of a connection are in order.
LEMMA InOrder ==
  ASSUME NEW c \in Conns, FlowAt(Here, c)
  PROVE  LET got  == client[c].got
             send == conn[c].send_buffer
             wait == conn[c].resps
         IN  /\ Ascending(got) /\ Ascending(send) /\ Ascending(wait)
             /\ Less(Nums(got), Nums(send)) /\ Less(Nums(got) \cup Nums(send), Nums(wait))
             /\ Less(Nums(got) \cup Nums(send) \cup Nums(wait), {r.n : r \in Queued(Here, c)})
             /\ OneQueued(Here, c)
<1> DEFINE O == Out(Queued(Here, c), Working(Here, c))
<1>1. Chained(conn[c], client[c], O) /\ OneQueued(Here, c)
  BY HereForm DEF FlowAt, Flow, Single
<1>2. {r.n : r \in Queued(Here, c)} \subseteq O
  BY DEF Out
<1> HIDE DEF O
<1> QED
  BY <1>1, <1>2 DEF Chained, Chain, Less

\* Every client gets its own answers, each once and in the order of its requests, whichever
\* handlers answer at once, later or never and whichever numbers sockets get.
THEOREM AnswersComeInOrder == Spec => []OwnAnswersInOrder
<1>1. GoesOnInv => AnswersInOrder
  BY InOrder DEF GoesOnInv, AnswersInOrder
<1>2. GoesOnInv /\ OwnAnswers => OwnAnswersInOrder
  BY <1>1 DEF OwnAnswersInOrder
<1> QED
  BY <1>2, GoesOnInvariant, AnswersReachTheirClient, PTL

\* The event loop waits for its own lock only when a client did not wait for an answer, and
\* does something undefined only when a client hung up, was shut down, asked to close before
\* it had its earlier answers, or had a connection past its time.
THEOREM LoopStopsForAReason == Spec => []LoopGoesOn
<1>1. IndInv /\ GoesOnInv => LoopGoesOn
  <2> SUFFICES ASSUME IndInv, GoesOnInv PROVE LoopGoesOn
    OBVIOUS
  <2>1. /\ loop = "stuck" => \E c \in Conns : client[c].early
        /\ loop = "undefined" =>
             \E c \in Conns : Excuse(client[c]) \/ (conn[c].state = "open" /\ Aged(conn[c]))
    BY HereForm DEF GoesOnInv, Blamed
  <2>2. \A c \in Conns : conn[c].custom \in BOOLEAN
    <3>1. conn \in [Conns -> Connection]
      BY HereType DEF IndInv, TypeOK
    <3> QED
      BY <3>1 DEF Connection
  <2> QED
    BY <2>1, <2>2 DEF LoopGoesOn, StuckByPipelining, UndefinedByDeath, Excuse, Aged
<1> QED
  BY <1>1, IndInvariant, GoesOnInvariant, PTL
===============================================================================
