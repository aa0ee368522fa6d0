------------------------------- MODULE BinLink -------------------------------
(***************************************************************************)
(* The binary API end to end: a BinClientA with one connection             *)
(* (network/HttpApi/BinClient/BinClientA.cpp, Connection.cpp), the byte    *)
(* streams of its socket, and the server's side of that connection         *)
(* (HttpConnection and the parts of HttpServer that serve it, with a       *)
(* handler that answers at once, as HttpApi::handleRequest does for a      *)
(* method it knows).                                                       *)
(*                                                                         *)
(* Each side is one thread that handles events; call() comes from any      *)
(* thread.  A stream may be cut anywhere: a receive takes any prefix of    *)
(* what was sent, and a send takes as much of its buffer as there is room  *)
(* for.  A lost connection is replaced by a new one; what the server still *)
(* does on the old one has no effect on the client and is left out.        *)
(***************************************************************************)
EXTENDS BinFrames

CONSTANTS Requests,          \* calls, each made once
          Data,              \* the dump of each request
          Answer,            \* what the handler answers to each dump
          RequestRoom,       \* bytes the network holds on the way to the server
          ResponseRoom,      \* and on the way back
          MaxBreaks,         \* bound: failures of the connection
          MaxKeepAlives      \* bound: keepalives sent

ASSUME BinLinkAssumption ==
  /\ Data \in [Requests -> Seq(Byte)]
  /\ \A r \in Requests : Data[r] \in DOMAIN Answer /\ Answer[Data[r]] \in Seq(Byte)
  /\ RequestRoom \in Nat \ {0} /\ ResponseRoom \in Nat \ {0}
  /\ MaxBreaks \in Nat /\ MaxKeepAlives \in Nat

VARIABLES
  called,            \* requests call() was made with
  m_new_requests,    \* requests no connection has taken
  client,            \* the client's Connection, with what the watcher owes it
  server,            \* the server's HttpConnection and its queues
  c2s, s2c,          \* bytes under way
  up,                \* neither end has closed
  finished,          \* per request: the calls of onFinished
  breaks, keepalives

streams == <<c2s, s2c>>
bounds  == <<breaks, keepalives>>
vars    == <<called, m_new_requests, client, server, streams, up, finished, bounds>>

Failed     == [succ |-> FALSE, res |-> <<>>]
Success(s) == [succ |-> TRUE, res |-> s]

\* state "NONE": there is no connection.  "UNDEFINED", "CORRUPT": the client has
\* done something undefined, and nothing is known of it any more.  free: it is in
\* m_free_connections.
\* writable: the (edge-triggered) watcher has reported the socket writable in the
\* event being handled ("now"), will do so in an event to come ("later"), or has
\* no reason to ("no").
ClientConn ==
  [state : {"NONE", "HANDSHAKING", "ACTIVE", "UNDEFINED", "CORRUPT"},
   m_send_buffer : Seq(Byte), m_sent_requests : Seq(Requests),
   m_parser : Parser, free : BOOLEAN,
   writable : {"now", "later", "no"}]

\* mask: m_sockets_masks of the watcher.  epoll: what epoll was told last.
ServerConn ==
  [custom_protocol : BOOLEAN, m_custom_parser : Parser,
   custom_requests : Seq(Seq(Byte)), waiting_last_handling : BOOLEAN,
   m_custom_resp_queue : Seq(Seq(Byte)), m_resps : Seq(Seq(Byte)),
   m_send_buffer : Seq(Byte),
   mask : SUBSET {"read", "write"}, epoll : SUBSET {"read", "write"}]

TypeOK ==
  /\ called \subseteq Requests
  /\ m_new_requests \in Seq(Requests)
  /\ client \in ClientConn
  /\ server \in ServerConn
  /\ c2s \in Seq(Byte) /\ s2c \in Seq(Byte)
  /\ up \in BOOLEAN
  /\ finished \in [Requests -> Seq([succ : BOOLEAN, res : Seq(Byte)])]
  /\ breaks \in 0 .. MaxBreaks /\ keepalives \in 0 .. MaxKeepAlives

\* Connection::Connection sends the Upgrade request; addSocket makes the watcher
\* report the socket writable.
NewClientConn ==
  [state |-> "HANDSHAKING", m_send_buffer |-> <<>>, m_sent_requests |-> <<>>,
   m_parser |-> ResponseParser, free |-> FALSE, writable |-> "later"]

NoClientConn == [NewClientConn EXCEPT !.state = "NONE", !.writable = "no"]

\* HttpServer::performAccept
NewServerConn ==
  [custom_protocol |-> FALSE, m_custom_parser |-> ServerParser,
   custom_requests |-> <<>>, waiting_last_handling |-> FALSE,
   m_custom_resp_queue |-> <<>>, m_resps |-> <<>>, m_send_buffer |-> <<>>,
   mask |-> {"read"}, epoll |-> {"read"}]

Init ==
  /\ called = {} /\ m_new_requests = <<>>
  /\ client = NewClientConn /\ server = NewServerConn
  /\ c2s = <<Upgrade>> /\ s2c = <<>> /\ up = TRUE
  /\ finished = [r \in Requests |-> <<>>]
  /\ breaks = 0 /\ keepalives = 0

\* establishNewConnection
Connect ==
  /\ client' = NewClientConn /\ server' = NewServerConn
  /\ c2s' = <<Upgrade>> /\ s2c' = <<>> /\ up' = TRUE

\* establishNewConnection when connectSocket throws CannotConnectEx
CannotConnect ==
  /\ client' = NoClientConn
  /\ up' = FALSE
  /\ UNCHANGED <<server, streams>>

-----------------------------------------------------------------------------
(* The client. *)

\* finished after onFinished(o[i]) of the requests rs[i], i <= Len(o)
Finish(fin, rs, o) ==
  [r \in Requests |->
    LET mine == {i \in 1 .. Len(o) : rs[i] = r}
    IN  IF mine = {} THEN fin[r] ELSE Append(fin[r], o[Min(mine)])]

FailSent_Forgets(fin, rs) == fin

\* Connection::~Connection: what was sent and not answered has failed.
FailSent(fin, rs) == Finish(fin, rs, [i \in 1 .. Len(rs) |-> Failed])

\* onLostConnection: the connection is removed, a new one is attempted, and the
\* last reference to the old one goes.  fin: finished when the loss is noticed.
OnLostConnection(rs, fin) ==
  /\ finished' = FailSent(fin, rs)
  /\ Connect \/ CannotConnect

\* How many bytes of a buffer a stream still takes.
Takes(room, stream, buffer) ==
  Min({Len(buffer), IF Len(stream) < room THEN room - Len(stream) ELSE 0})

\* The client's thread is not in the middle of an event.
AtEventLoop == client.state \in {"HANDSHAKING", "ACTIVE"} /\ client.writable # "now"

\* Connection::performSend of connection c.  When nothing is taken (EAGAIN) substr
\* throws and the buffer stays.  A socket that takes less than asked is reported
\* when it has room again.
PerformSend(c) ==
  LET n == Takes(RequestRoom, c2s, c.m_send_buffer)
  IN  /\ c2s' = c2s \o SubSeq(c.m_send_buffer, 1, n)
      /\ client' = [c EXCEPT !.m_send_buffer = From(@, n + 1),
                             !.writable = IF n < Len(c.m_send_buffer) THEN "later" ELSE @]

\* BinClientA::performSend: the send works, or the connection is lost.
PerformSendOrLose(c) ==
  \/ /\ PerformSend(c)
     /\ UNCHANGED <<server, s2c, up, finished>>
  \/ /\ ~up /\ c.m_send_buffer # <<>>
     /\ OnLostConnection(c.m_sent_requests, finished)

AddRequest_Front(c, r) ==
  [c EXCEPT !.m_sent_requests = <<r>> \o @, !.m_send_buffer = @ \o Frame(Data[r])]

\* Connection::addRequest
AddRequest(c, r) ==
  [c EXCEPT !.m_sent_requests = Append(@, r), !.m_send_buffer = @ \o Frame(Data[r])]

\* BinClientA::call
Call(r) ==
  /\ r \notin called
  /\ called' = called \cup {r}
  /\ m_new_requests' = Append(m_new_requests, r)
  /\ UNCHANGED <<client, server, streams, up, finished, bounds>>

\* onWrite: a connection with nothing to send takes a request or is free.
OnWrite ==
  /\ client.state \in {"HANDSHAKING", "ACTIVE"}
  /\ \/ client.writable = "now"
     \/ client.writable = "later" /\ Len(c2s) < RequestRoom
  /\ LET c    == [client EXCEPT !.writable = "no"]
         idle == c.m_send_buffer = <<>>
     IN  \/ /\ c.state = "ACTIVE" /\ idle /\ m_new_requests # <<>>
            /\ m_new_requests' = Tail(m_new_requests)
            /\ PerformSendOrLose(AddRequest(c, Head(m_new_requests)))
         \/ /\ idle
            /\ c.state = "ACTIVE" => m_new_requests = <<>>
            /\ client' = [c EXCEPT !.free = TRUE]
            /\ UNCHANGED <<m_new_requests, server, streams, up, finished>>
         \/ /\ ~idle
            /\ PerformSendOrLose(c)
            /\ UNCHANGED m_new_requests
  /\ UNCHANGED <<called, bounds>>

\* putRequestsToFreeConnections.  If the send loses the connection,
\* removeConnection has taken it from m_free_connections and the code goes on to
\* erase it again.
PutRequestsToFreeConnections ==
  /\ AtEventLoop /\ client.state = "ACTIVE" /\ client.free
  /\ m_new_requests # <<>>
  /\ m_new_requests' = Tail(m_new_requests)
  /\ LET c == [AddRequest(client, Head(m_new_requests)) EXCEPT !.free = FALSE]
     IN  \/ PerformSend(c) /\ UNCHANGED <<server, s2c, up, finished>>
         \/ /\ ~up
            /\ client' = [c EXCEPT !.state = "CORRUPT"]
            /\ UNCHANGED <<server, streams, up, finished>>
  /\ UNCHANGED <<called, bounds>>

\* checkKeepAlive, once the period has passed.  On a closed socket the exception
\* ends handleEvents and leaves the byte in the buffer.
CheckKeepAlive ==
  /\ AtEventLoop /\ client.m_send_buffer = <<>>
  /\ keepalives < MaxKeepAlives
  /\ keepalives' = keepalives + 1
  /\ LET c == [client EXCEPT !.m_send_buffer = <<KeepAlive>>]
     IN  \/ PerformSend(c)
         \/ ~up /\ client' = c /\ UNCHANGED c2s
  /\ UNCHANGED <<called, m_new_requests, server, s2c, up, finished, breaks>>

\* Connection::performRecv: the messages in out answer the oldest requests.
\* The event also reports the socket writable, if it is.
OnRead ==
  /\ AtEventLoop
  /\ \E n \in 1 .. Len(s2c) :
     \E run \in Receive("client", ResponseLimit, client.m_parser, SubSeq(s2c, 1, n)) :
       LET rs   == client.m_sent_requests
           out  == run.out
           left == From(rs, Len(out) + 1)
           fin  == Finish(finished, rs, [i \in 1 .. Len(out) |-> Success(out[i])])
       IN  \/ /\ run.parser.state # "THROWN"
              /\ Len(out) \in 0 .. Len(rs)
              /\ s2c' = From(s2c, n + 1)
              /\ client' = [client EXCEPT
                   !.m_parser = run.parser, !.m_sent_requests = left,
                   !.writable = IF Len(c2s) < RequestRoom THEN "now" ELSE @,
                   !.state = CASE run.parser.state = "UNDEFINED" -> "UNDEFINED"
                               [] run.parser.state = "READING_HANDSHAKE" -> "HANDSHAKING"
                               [] OTHER -> "ACTIVE"]
              /\ finished' = fin
              /\ UNCHANGED <<server, c2s, up>>
           \/ /\ run.parser.state = "THROWN" /\ Len(out) \in 0 .. Len(rs)
              /\ OnLostConnection(left, fin)
           \/ \* onResponse takes the front of an empty queue
              /\ Len(out) > Len(rs)
              /\ client' = [client EXCEPT !.state = "UNDEFINED"]
              /\ UNCHANGED <<server, streams, up, finished>>
  /\ UNCHANGED <<called, m_new_requests, bounds>>

\* performRecv that meets the end of the stream: what it has just read is dropped.
OnReadEnd ==
  /\ AtEventLoop /\ ~up
  /\ OnLostConnection(client.m_sent_requests, finished)
  /\ UNCHANGED <<called, m_new_requests, bounds>>

\* handleEvents with fewer connections than m_max_connections
Reconnect ==
  /\ client.state = "NONE"
  /\ Connect
  /\ UNCHANGED <<called, m_new_requests, finished, bounds>>

-----------------------------------------------------------------------------
(* The server. *)

\* onSendCustomResponse
SendCustomResponse(s, bytes) ==
  [s EXCEPT !.m_custom_resp_queue = Append(@, bytes)]

HandleWaitingRequests_LastFirst(s) ==
  IF s.custom_requests # <<>>
  THEN SendCustomResponse(
         [s EXCEPT !.custom_requests = Front(@), !.waiting_last_handling = TRUE],
         Frame(Answer[Last(s.custom_requests)]))
  ELSE s

\* handleWaitingRequests on an upgraded connection: one request at a time.
HandleWaitingRequests(s) ==
  IF ~s.waiting_last_handling /\ s.custom_requests # <<>>
  THEN SendCustomResponse(
         [s EXCEPT !.custom_requests = Tail(@), !.waiting_last_handling = TRUE],
         Frame(Answer[Head(s.custom_requests)]))
  ELSE s

\* checkUpgrade of the request that carries Upgrade: hiapi
CheckUpgrade(s) ==
  SendCustomResponse([s EXCEPT !.custom_protocol = TRUE], Handshake)

\* HttpServer::performRecv.  Before the upgrade everything read goes to the HTTP
\* parser, also what follows the Upgrade request.  An exception of the parser
\* kills the connection.
SrvOnRead ==
  /\ up /\ "read" \in server.epoll
  /\ \E n \in 1 .. Len(c2s) :
       /\ c2s' = From(c2s, n + 1)
       /\ \/ /\ ~server.custom_protocol
             /\ server' = CheckUpgrade(server)
             /\ UNCHANGED up
          \/ /\ server.custom_protocol
             /\ \E run \in Receive("server", RequestLimit, server.m_custom_parser,
                                       SubSeq(c2s, 1, n)) :
                LET s == [server EXCEPT !.m_custom_parser = run.parser,
                                        !.custom_requests = @ \o run.out]
                IN  /\ server' = IF run.parser.state = "THROWN" THEN s
                                 ELSE HandleWaitingRequests(s)
                    /\ up' = (run.parser.state # "THROWN")
  /\ UNCHANGED <<called, m_new_requests, client, s2c, finished, bounds>>

\* HttpConnection::performSend with something to send: the rest of a response,
\* else the next one.
Loaded(s) ==
  IF s.m_send_buffer = <<>>
  THEN [s EXCEPT !.m_send_buffer = Head(s.m_resps), !.m_resps = Tail(@)]
  ELSE s

\* EventWatcherEpoll::enableEvents(HI_READ | HI_WRITE): epoll is told only what
\* the mask did not have yet.
EnableEvents(s) ==
  [s EXCEPT !.epoll = {"read", "write"} \ s.mask, !.mask = {"read", "write"}]

HandleResponse_NoNext(s, n) ==
  LET sent == [s EXCEPT !.waiting_last_handling = FALSE,
                        !.m_send_buffer = From(@, n + 1)]
  IN  IF sent.m_send_buffer # <<>> THEN EnableEvents(sent) ELSE sent

\* handleResponse after n bytes have been sent
HandleResponse(s, n) ==
  LET sent == [s EXCEPT !.waiting_last_handling = FALSE,
                        !.m_send_buffer = From(@, n + 1)]
  IN  HandleWaitingRequests(
        IF sent.m_send_buffer # <<>> THEN EnableEvents(sent) ELSE sent)

\* One round of the loop of HttpServer::handleEvents over m_custom_resp_queue.
SrvHandleResponses ==
  /\ up /\ server.m_custom_resp_queue # <<>>
  /\ LET s == Loaded([server EXCEPT
                !.m_resps = Append(@, Head(server.m_custom_resp_queue)),
                !.m_custom_resp_queue = Tail(@)])
         n == Takes(ResponseRoom, s2c, s.m_send_buffer)
     IN  /\ s2c' = s2c \o SubSeq(s.m_send_buffer, 1, n)
         /\ server' = HandleResponse(s, n)
  /\ UNCHANGED <<called, m_new_requests, client, c2s, up, finished, bounds>>

\* HttpServer::onWrite, level triggered once enableEvents has been called
SrvOnWrite ==
  /\ up /\ "write" \in server.epoll
  /\ server.m_send_buffer # <<>> \/ server.m_resps # <<>>
  /\ Len(s2c) < ResponseRoom
  /\ LET s == Loaded(server)
         n == Takes(ResponseRoom, s2c, s.m_send_buffer)
     IN  /\ s2c' = s2c \o SubSeq(s.m_send_buffer, 1, n)
         /\ server' = [s EXCEPT !.m_send_buffer = From(@, n + 1)]
  /\ UNCHANGED <<called, m_new_requests, client, c2s, up, finished, bounds>>

\* The network fails, or the server finds the connection dead (notDead, onError).
Break ==
  /\ up /\ breaks < MaxBreaks
  /\ up' = FALSE /\ breaks' = breaks + 1
  /\ UNCHANGED <<called, m_new_requests, client, server, streams, finished, keepalives>>

-----------------------------------------------------------------------------
Next ==
  \/ \E r \in Requests : Call(r)
  \/ OnWrite \/ PutRequestsToFreeConnections \/ CheckKeepAlive
  \/ OnRead \/ OnReadEnd \/ Reconnect
  \/ SrvOnRead \/ SrvHandleResponses \/ SrvOnWrite
  \/ Break

Spec == Init /\ [][Next]_vars

\* Both ends call handleEvents in a loop and the network delivers what it has.
Fairness ==
  /\ WF_vars(OnWrite) /\ WF_vars(PutRequestsToFreeConnections)
  /\ WF_vars(OnRead) /\ WF_vars(OnReadEnd) /\ WF_vars(Reconnect)
  /\ WF_vars(SrvOnRead) /\ WF_vars(SrvHandleResponses) /\ WF_vars(SrvOnWrite)

FairSpec == Spec /\ Fairness

-----------------------------------------------------------------------------
(* Properties. *)

\* However the streams are cut and whenever the connection breaks, a call
\* finishes at most once, and if it succeeds then with the answer to its own
\* request (BinClient/Connection.cpp onResponse pairs answers and requests by
\* order alone).
OwnAnswerOnce ==
  \A r \in Requests :
    finished[r] \in {<<>>, <<Failed>>, <<Success(Answer[Data[r]])>>}

\* A call is queued, or sent and unanswered, or finished, and only one of these
\* (BinClientA moves it between m_new_requests, m_sent_requests and onFinished).
CallInOnePlace ==
  \A r \in called :
    Cardinality({i \in 1 .. Len(m_new_requests) : m_new_requests[i] = r})
    + Cardinality({i \in 1 .. Len(client.m_sent_requests) :
                     client.m_sent_requests[i] = r})
    + Len(finished[r]) = 1

\* No parser ever reads a length that is not a number (string_to_uint64 would
\* return an uninitialised value) and onResponse never takes the front of an
\* empty queue, although keepalives are mixed with the frames.
Defined ==
  /\ client.state # "UNDEFINED"
  /\ server.m_custom_parser.state # "UNDEFINED"

\* All bytes the server has still to send or the client to parse.
Answering ==
  s2c \o server.m_send_buffer \o FlattenSeq(server.m_resps)
      \o FlattenSeq(server.m_custom_resp_queue)

\* What is under way is taken apart without the limits of the parsers.
LongestMessage ==
  LET sent == Range(client.m_sent_requests)
  IN  Max({0} \cup {Len(Data[r]) : r \in sent} \cup {Len(Answer[Data[r]]) : r \in sent})

\* The requests the server has still to handle.
Asking ==
  server.custom_requests \o
    MessagesIn("server", LongestMessage, server.m_custom_parser,
               c2s \o client.m_send_buffer)

\* What is under way in both directions, taken apart frame by frame, is one answer
\* for every request the client has sent, in its order, while the connection is up
\* (HttpServer handles a pipelined connection one request at a time).
AnswersUnderWay ==
  up /\ client.state = "ACTIVE" =>
    MessagesIn("client", LongestMessage, client.m_parser, Answering)
      \o [i \in 1 .. Len(Asking) |-> Answer[Asking[i]]]
    = [i \in 1 .. Len(client.m_sent_requests) |->
         Answer[Data[client.m_sent_requests[i]]]]

\* A response the server's socket did not take at once has made enableEvents tell
\* epoll to watch for less than both directions (EventWatcherEpoll::enableEvents).
Deaf == up /\ server.mask # server.epoll

\* The rest of a send buffer went out after the last edge: the connection has
\* nothing to do and is not free (BinClientA::onWrite).
Stranded ==
  /\ client.state = "ACTIVE" /\ ~client.free /\ client.writable = "no"
  /\ client.m_send_buffer = <<>> /\ client.m_sent_requests = <<>>

\* A connection was lost while it was taken from the free ones
\* (BinClientA.cpp:220-221).
Corrupt == client.state = "CORRUPT"

\* Every call is finished in the end, answered or failed with its connection, also
\* across breaks, unless the server has gone deaf, the connection is stranded or
\* the client's connections are corrupt.
EveryCallFinishes ==
  \A r \in Requests : r \in called ~> finished[r] # <<>> \/ Deaf \/ Stranded \/ Corrupt

-----------------------------------------------------------------------------
(* The inductive invariant that BinLinkProofs shows to hold. *)

\* Of the calls made, some are in the queue new, some in the queue sent, each of
\* them once, and fin has the end of every other one and of no more.
OnePlace(made, new, sent, fin) ==
  /\ made \subseteq Requests /\ fin = [r \in Requests |-> fin[r]]
  /\ new \in Seq(Requests) /\ IsInjective(new) /\ Range(new) \subseteq made
  /\ sent \in Seq(Requests) /\ IsInjective(sent) /\ Range(sent) \subseteq made
  /\ Range(new) \cap Range(sent) = {}
  /\ \A r \in Requests :
       IF r \in made /\ r \notin Range(new) /\ r \notin Range(sent)
       THEN Len(fin[r]) = 1 ELSE fin[r] = <<>>

PlaceInv ==
  /\ {"state", "m_sent_requests"} \subseteq DOMAIN client
  /\ client.state = "NONE" => client.m_sent_requests = <<>>
  /\ OnePlace(called, m_new_requests, client.m_sent_requests, finished)
=============================================================================
