---------------------------- MODULE BinLinkProofs -----------------------------
(***************************************************************************)
(* Theorems about BinLink, for any requests, messages, limits, rooms and   *)
(* numbers of breaks.  BinClientA keeps every call in one place, whatever  *)
(* the parsers make of the streams (PlaceInv).  The parsers take a stream  *)
(* of frames apart however it is cut (ReceiveHolds), so that the calls     *)
(* sent always correspond to what is under way between the two ends        *)
(* (LinkInv), and every call ends with its own answer or a failure.        *)
(***************************************************************************)
EXTENDS BinLink, QueueLemmas, FiniteSetTheorems, TLAPS

-------------------------------------------------------------------------------
(* What moves a call. *)

\* call() queues a request.
LEMMA CallMoves ==
  ASSUME NEW made, NEW new, NEW sent, NEW fin, OnePlace(made, new, sent, fin),
         NEW r \in Requests, r \notin made
  PROVE  OnePlace(made \cup {r}, Append(new, r), sent, fin)
<1> DEFINE n == Len(new)
           p == Append(new, r)
<1>1. /\ n \in Nat /\ p \in Seq(Requests) /\ Len(p) = n + 1 /\ p[n + 1] = r
      /\ DOMAIN p = 1 .. n + 1 /\ DOMAIN new = 1 .. n
      /\ \A i \in 1 .. n : p[i] = new[i]
  BY DEF OnePlace
<1>2. 1 .. n + 1 = (1 .. n) \cup {n + 1} /\ n + 1 \notin 1 .. n
  BY <1>1
<1> HIDE DEF n, p
<1>3. Range(p) = Range(new) \cup {r}
  BY <1>1, <1>2 DEF Range
<1>4. r \notin Range(new) /\ r \notin Range(sent)
  BY DEF OnePlace
<1>5. IsInjective(p)
  BY <1>1, <1>2, <1>4 DEF IsInjective, OnePlace, Range
<1> QED
  BY <1>1, <1>3, <1>4, <1>5 DEF OnePlace, p

\* A connection takes the oldest request from the queue.
LEMMA TakeMoves ==
  ASSUME NEW made, NEW new, NEW sent, NEW fin, OnePlace(made, new, sent, fin), new # <<>>
  PROVE  OnePlace(made, Tail(new), Append(sent, Head(new)), fin)
<1> DEFINE h == Head(new)
           n == Len(new)
           t == Tail(new)
           m == Len(sent)
           p == Append(sent, h)
<1>1. /\ n \in Nat \ {0} /\ h \in Requests /\ h = new[1] /\ t \in Seq(Requests)
      /\ DOMAIN new = 1 .. n /\ DOMAIN t = 1 .. n - 1
      /\ \A i \in 1 .. n - 1 : t[i] = new[i + 1]
  BY DEF OnePlace
<1>2. /\ m \in Nat /\ p \in Seq(Requests) /\ p[m + 1] = h
      /\ DOMAIN p = 1 .. m + 1 /\ DOMAIN sent = 1 .. m
      /\ \A i \in 1 .. m : p[i] = sent[i]
  BY <1>1 DEF OnePlace
<1>3. /\ 1 .. m + 1 = (1 .. m) \cup {m + 1} /\ m + 1 \notin 1 .. m
      /\ 1 \in 1 .. n /\ \A i \in 1 .. n - 1 : i + 1 \in 1 .. n /\ i + 1 # 1
      /\ \A i \in 1 .. n : i = 1 \/ (i - 1 \in 1 .. n - 1 /\ (i - 1) + 1 = i)
      /\ \A i, j \in 1 .. n - 1 : i + 1 = j + 1 => i = j
  BY <1>1, <1>2
<1> HIDE DEF h, n, t, m, p
<1>4. IsInjective(new) /\ IsInjective(sent) /\ Range(new) \cap Range(sent) = {}
  BY DEF OnePlace
<1>5. Range(new) = Range(t) \cup {h} /\ h \notin Range(t)
  <2>1. h \in Range(new) /\ Range(t) \subseteq Range(new)
    <3>1. h \in Range(new)
      BY <1>1, <1>3 DEF Range
    <3>2. ASSUME NEW i \in 1 .. n - 1 PROVE t[i] \in Range(new)
      <4>1. t[i] = new[i + 1] /\ i + 1 \in 1 .. n
        BY <1>1, <1>3
      <4> QED
        BY <1>1, <4>1 DEF Range
    <3> QED
      BY <1>1, <3>1, <3>2 DEF Range
  <2>2. Range(new) \subseteq Range(t) \cup {h}
    <3> SUFFICES ASSUME NEW i \in 1 .. n PROVE new[i] \in Range(t) \cup {h}
      BY <1>1 DEF Range
    <3>1. CASE i = 1
      BY <1>1, <3>1
    <3>2. CASE i - 1 \in 1 .. n - 1 /\ (i - 1) + 1 = i
      <4>1. new[i] = t[i - 1]
        BY <1>1, <3>2
      <4> QED
        BY <1>1, <3>2, <4>1 DEF Range
    <3> QED
      BY <1>3, <3>1, <3>2
  <2>3. h \notin Range(t)
    <3> SUFFICES ASSUME NEW i \in 1 .. n - 1, t[i] = h PROVE FALSE
      BY <1>1 DEF Range
    <3>1. new[i + 1] = new[1] /\ i + 1 \in 1 .. n /\ 1 \in 1 .. n /\ i + 1 # 1
      BY <1>1, <1>3
    <3> QED
      BY <1>1, <1>4, <3>1 DEF IsInjective
  <2> QED
    BY <2>1, <2>2, <2>3
<1>6. IsInjective(t)
  <2> SUFFICES ASSUME NEW i \in 1 .. n - 1, NEW j \in 1 .. n - 1, t[i] = t[j] PROVE i = j
    BY <1>1 DEF IsInjective
  <2>1. new[i + 1] = new[j + 1] /\ i + 1 \in 1 .. n /\ j + 1 \in 1 .. n
    BY <1>1, <1>3
  <2>2. i + 1 = j + 1
    BY <1>1, <1>4, <2>1 DEF IsInjective
  <2> QED
    BY <1>3, <2>2
<1>7. Range(p) = Range(sent) \cup {h}
  BY <1>2, <1>3 DEF Range
<1>8. h \notin Range(sent)
  BY <1>4, <1>5
<1>9. IsInjective(p)
  BY <1>2, <1>3, <1>4, <1>8 DEF IsInjective, Range
<1>10. \A r : (r \notin Range(new) /\ r \notin Range(sent)) <=> (r \notin Range(t) /\ r \notin Range(p))
  BY <1>5, <1>7
<1>11. OnePlace(made, t, p, fin)
  BY <1>1, <1>2, <1>4, <1>5, <1>6, <1>7, <1>8, <1>9, <1>10 DEF OnePlace
<1> QED
  BY <1>11 DEF t, p, h

\* onFinished of the k oldest of what was sent, whatever the outcomes o.
LEMMA FinishMoves ==
  ASSUME NEW made, NEW new, NEW sent, NEW fin, OnePlace(made, new, sent, fin),
         NEW k \in 0 .. Len(sent), NEW o, o = [i \in 1 .. k |-> o[i]]
  PROVE  OnePlace(made, new, SubSeq(sent, k + 1, Len(sent)), Finish(fin, sent, o))
<1> DEFINE m == Len(sent)
           t == SubSeq(sent, k + 1, m)
           f == Finish(fin, sent, o)
<1>1. m \in Nat /\ k \in Nat /\ k <= m /\ sent \in Seq(Requests) /\ DOMAIN sent = 1 .. m
  BY DEF OnePlace
<1>2. /\ t \in Seq(Requests) /\ DOMAIN t = 1 .. m - k
      /\ \A i \in 1 .. m - k : t[i] = sent[i + k]
  <2>1. \A i \in k + 1 .. m : i \in 1 .. m
    BY <1>1
  <2>2. t \in Seq(Requests) /\ Len(t) = m - k
    BY <1>1, <2>1
  <2>3. \A i \in 1 .. m - k : t[i] = sent[i + k]
    BY <1>1
  <2> QED
    BY <2>2, <2>3
<1>3. Len(o) = k
  <2>1. o \in Seq({o[i] : i \in 1 .. k})
    BY <1>1
  <2>2. DOMAIN o = 1 .. k /\ DOMAIN o = 1 .. Len(o) /\ Len(o) \in Nat
    BY <2>1
  <2> QED
    BY <1>1, <2>2
<1>4. \A r \in Requests :
        IF \E i \in 1 .. k : sent[i] = r
        THEN \E x : f[r] = Append(fin[r], x)
        ELSE f[r] = fin[r]
  BY <1>3 DEF Finish
<1>5. f = [r \in Requests |-> f[r]]
  BY DEF Finish
<1>6. /\ \A i \in 1 .. m - k : i + k \in 1 .. m /\ ~(i + k \in 1 .. k)
      /\ \A i, j \in 1 .. m - k : i + k = j + k => i = j
      /\ \A i \in 1 .. m : i \in 1 .. k \/ (i - k \in 1 .. m - k /\ (i - k) + k = i)
      /\ \A i \in 1 .. k : i \in 1 .. m
  BY <1>1
<1> HIDE DEF m, t, f
<1>7. IsInjective(sent)
  BY DEF OnePlace
<1>8. ASSUME NEW r PROVE r \in Range(t) <=> r \in Range(sent) /\ ~\E i \in 1 .. k : sent[i] = r
  <2>1. ASSUME NEW i \in 1 .. m - k, r = t[i]
        PROVE  r \in Range(sent) /\ ~\E j \in 1 .. k : sent[j] = r
    <3>1. r = sent[i + k] /\ i + k \in 1 .. m /\ ~(i + k \in 1 .. k)
      BY <1>2, <1>6, <2>1
    <3> QED
      BY <1>1, <1>6, <1>7, <3>1 DEF Range, IsInjective
  <2>2. ASSUME NEW i \in 1 .. m, r = sent[i], ~\E j \in 1 .. k : sent[j] = r
        PROVE  r \in Range(t)
    <3>1. i - k \in 1 .. m - k /\ (i - k) + k = i
      BY <1>6, <2>2
    <3>2. r = t[i - k]
      BY <1>2, <2>2, <3>1
    <3> QED
      BY <1>2, <3>1, <3>2 DEF Range
  <2> QED
    BY <1>1, <1>2, <2>1, <2>2 DEF Range
<1>9. IsInjective(t)
  <2> SUFFICES ASSUME NEW i \in 1 .. m - k, NEW j \in 1 .. m - k, t[i] = t[j] PROVE i = j
    BY <1>2 DEF IsInjective
  <2>1. sent[i + k] = sent[j + k] /\ i + k \in 1 .. m /\ j + k \in 1 .. m
    BY <1>2, <1>6
  <2>2. i + k = j + k
    BY <1>1, <1>7, <2>1 DEF IsInjective
  <2> QED
    BY <1>6, <2>2
<1>10. \A i \in 1 .. k : sent[i] \in Range(sent)
  BY <1>1, <1>6 DEF Range
<1>11. ASSUME NEW r \in Requests
       PROVE  IF r \in made /\ r \notin Range(new) /\ r \notin Range(t)
              THEN Len(f[r]) = 1 ELSE f[r] = <<>>
  <2>1. /\ Range(new) \cap Range(sent) = {} /\ Range(sent) \subseteq made
        /\ IF r \in made /\ r \notin Range(new) /\ r \notin Range(sent)
           THEN Len(fin[r]) = 1 ELSE fin[r] = <<>>
    BY DEF OnePlace
  <2>2. CASE \E i \in 1 .. k : sent[i] = r
    <3>1. r \in Range(sent) /\ r \in made /\ r \notin Range(new) /\ r \notin Range(t) /\ fin[r] = <<>>
      BY <1>8, <1>10, <2>1, <2>2
    <3>2. PICK x : f[r] = Append(<<>>, x)
      BY <1>4, <2>2, <3>1
    <3>3. Len(Append(<<>>, x)) = 1
      <4>1. <<>> \in Seq({x}) /\ x \in {x} /\ Len(<<>>) = 0
        OBVIOUS
      <4> QED
        BY <4>1
    <3> QED
      BY <3>1, <3>2, <3>3
  <2>3. CASE ~\E i \in 1 .. k : sent[i] = r
    <3>1. f[r] = fin[r] /\ (r \in Range(t) <=> r \in Range(sent))
      BY <1>4, <1>8, <2>3
    <3> QED
      BY <2>1, <3>1
  <2> QED
    BY <2>2, <2>3
<1>12. OnePlace(made, new, t, f)
  BY <1>2, <1>5, <1>8, <1>9, <1>11 DEF OnePlace
<1> QED
  BY <1>12 DEF t, f, m

\* ~Connection: everything that was sent and not answered has failed.
LEMMA FailMoves ==
  ASSUME NEW made, NEW new, NEW sent, NEW fin, OnePlace(made, new, sent, fin)
  PROVE  OnePlace(made, new, <<>>, FailSent(fin, sent))
<1> DEFINE m == Len(sent)
           o == [i \in 1 .. m |-> Failed]
<1>1. m \in Nat /\ m \in 0 .. m /\ sent \in Seq(Requests)
  BY DEF OnePlace
<1>2. o = [i \in 1 .. m |-> o[i]]
  OBVIOUS
<1> HIDE DEF o
<1>3. OnePlace(made, new, SubSeq(sent, m + 1, m), Finish(fin, sent, o))
  BY <1>1, <1>2, FinishMoves
<1>4. SubSeq(sent, m + 1, m) = <<>>
  BY <1>1
<1> QED
  BY <1>3, <1>4 DEF FailSent, o
-------------------------------------------------------------------------------
(* The steps. *)

\* A connection with nothing but the fields that matter here.
IsConn(c) == {"state", "m_sent_requests"} \subseteq DOMAIN c

LEMMA NewConnForm ==
  /\ IsConn(NewClientConn) /\ NewClientConn.m_sent_requests = <<>>
  /\ IsConn(NoClientConn) /\ NoClientConn.m_sent_requests = <<>>
BY DEF IsConn, NewClientConn, NoClientConn

\* onLostConnection of a connection that had sent rs.
LEMMA LostStep ==
  ASSUME NEW made, NEW new, NEW rs, NEW fin, OnePlace(made, new, rs, fin),
         OnLostConnection(rs, fin), called' = made, m_new_requests' = new
  PROVE  PlaceInv'
<1>1. client' = NewClientConn \/ client' = NoClientConn
  BY DEF OnLostConnection, Connect, CannotConnect
<1>2. finished' = FailSent(fin, rs)
  BY DEF OnLostConnection
<1>3. OnePlace(made, new, <<>>, finished')
  BY <1>2, FailMoves
<1> QED
  BY <1>1, <1>3, NewConnForm DEF PlaceInv, IsConn

\* A connection c sends, or is lost.
LEMMA SendStep ==
  ASSUME NEW made, NEW new, NEW c, IsConn(c), c.state # "NONE",
         OnePlace(made, new, c.m_sent_requests, finished),
         PerformSendOrLose(c), called' = made, m_new_requests' = new
  PROVE  PlaceInv'
<1>1. CASE PerformSend(c) /\ UNCHANGED finished
  <2>1. PICK b, w : client' = [c EXCEPT !.m_send_buffer = b, !.writable = w]
    BY <1>1 DEF PerformSend
  <2>2. IsConn(client') /\ client'.m_sent_requests = c.m_sent_requests /\ client'.state # "NONE"
    BY <2>1 DEF IsConn
  <2> QED
    BY <1>1, <2>2 DEF PlaceInv, IsConn
<1>2. CASE OnLostConnection(c.m_sent_requests, finished)
  BY <1>2, LostStep
<1> QED
  BY <1>1, <1>2 DEF PerformSendOrLose

\* addRequest keeps the connection and adds to what it sent.
LEMMA AddRequestForm ==
  ASSUME NEW c, IsConn(c), NEW r
  PROVE  /\ IsConn(AddRequest(c, r)) /\ AddRequest(c, r).state = c.state
         /\ AddRequest(c, r).m_sent_requests = Append(c.m_sent_requests, r)
BY DEF AddRequest, IsConn

\* The watcher reports the socket writable.
LEMMA OnWriteStep == PlaceInv /\ OnWrite => PlaceInv'
<1> SUFFICES ASSUME PlaceInv, OnWrite PROVE PlaceInv'
  OBVIOUS
<1> DEFINE c == [client EXCEPT !.writable = "no"]
<1>1. IsConn(c) /\ c.m_sent_requests = client.m_sent_requests /\ c.state # "NONE"
  BY DEF PlaceInv, IsConn, OnWrite
<1>2. OnePlace(called, m_new_requests, c.m_sent_requests, finished) /\ called' = called
  BY <1>1 DEF PlaceInv, OnWrite
<1>3. \/ /\ m_new_requests # <<>> /\ m_new_requests' = Tail(m_new_requests)
         /\ PerformSendOrLose(AddRequest(c, Head(m_new_requests)))
      \/ client' = [c EXCEPT !.free = TRUE] /\ UNCHANGED <<m_new_requests, finished>>
      \/ PerformSendOrLose(c) /\ UNCHANGED m_new_requests
  BY DEF OnWrite
<1> HIDE DEF c
<1>4. CASE /\ m_new_requests # <<>> /\ m_new_requests' = Tail(m_new_requests)
           /\ PerformSendOrLose(AddRequest(c, Head(m_new_requests)))
  <2> DEFINE d == AddRequest(c, Head(m_new_requests))
  <2>1. /\ IsConn(d) /\ d.state # "NONE"
        /\ d.m_sent_requests = Append(c.m_sent_requests, Head(m_new_requests))
    BY <1>1, AddRequestForm
  <2>2. OnePlace(called, Tail(m_new_requests), d.m_sent_requests, finished)
    BY <1>2, <1>4, <2>1, TakeMoves
  <2> HIDE DEF d
  <2>3. PerformSendOrLose(d)
    BY <1>4 DEF d
  <2> QED
    BY <1>2, <1>4, <2>1, <2>2, <2>3, SendStep
<1>5. CASE client' = [c EXCEPT !.free = TRUE] /\ UNCHANGED <<m_new_requests, finished>>
  <2>1. IsConn(client') /\ client'.m_sent_requests = c.m_sent_requests /\ client'.state # "NONE"
    BY <1>1, <1>5 DEF IsConn
  <2> QED
    BY <1>2, <1>5, <2>1 DEF PlaceInv, IsConn
<1>6. CASE PerformSendOrLose(c) /\ UNCHANGED m_new_requests
  BY <1>1, <1>2, <1>6, SendStep
<1> QED
  BY <1>3, <1>4, <1>5, <1>6

\* A free connection is given a request.
LEMMA PutRequestsStep == PlaceInv /\ PutRequestsToFreeConnections => PlaceInv'
<1> SUFFICES ASSUME PlaceInv, PutRequestsToFreeConnections PROVE PlaceInv'
  OBVIOUS
<1> DEFINE a == AddRequest(client, Head(m_new_requests))
           d == [a EXCEPT !.free = FALSE]
<1>1. /\ m_new_requests # <<>> /\ m_new_requests' = Tail(m_new_requests) /\ called' = called
      /\ client.state # "NONE" /\ UNCHANGED finished
      /\ PerformSend(d) \/ client' = [d EXCEPT !.state = "CORRUPT"]
  BY DEF PutRequestsToFreeConnections
<1>2. /\ IsConn(d) /\ d.state # "NONE"
      /\ d.m_sent_requests = Append(client.m_sent_requests, Head(m_new_requests))
  <2>1. IsConn(client)
    BY DEF PlaceInv, IsConn
  <2>2. /\ IsConn(a) /\ a.state = client.state
        /\ a.m_sent_requests = Append(client.m_sent_requests, Head(m_new_requests))
    BY <2>1, AddRequestForm
  <2> HIDE DEF a
  <2> QED
    BY <1>1, <2>2 DEF IsConn
<1> HIDE DEF d
<1>3. OnePlace(called, Tail(m_new_requests), d.m_sent_requests, finished)
  <2>1. OnePlace(called, m_new_requests, client.m_sent_requests, finished)
    BY DEF PlaceInv
  <2>2. m_new_requests # <<>>
    BY <1>1
  <2>3. OnePlace(called, Tail(m_new_requests),
                 Append(client.m_sent_requests, Head(m_new_requests)), finished)
    BY <2>1, <2>2, TakeMoves
  <2> QED
    BY <1>2, <2>3
<1>4. \/ \E b, w : client' = [d EXCEPT !.m_send_buffer = b, !.writable = w]
      \/ client' = [d EXCEPT !.state = "CORRUPT"]
  BY <1>1 DEF PerformSend
<1>5. IsConn(client') /\ client'.m_sent_requests = d.m_sent_requests /\ client'.state # "NONE"
  BY <1>2, <1>4 DEF IsConn
<1> QED
  BY <1>1, <1>3, <1>5 DEF PlaceInv, IsConn

\* Answers come, or bytes that are none.
LEMMA OnReadStep == PlaceInv /\ OnRead => PlaceInv'
<1> SUFFICES ASSUME PlaceInv, OnRead PROVE PlaceInv'
  OBVIOUS
<1> DEFINE rs == client.m_sent_requests
           Outs(out) == [i \in 1 .. Len(out) |-> Success(out[i])]
           Left(out) == SubSeq(rs, Len(out) + 1, Len(rs))
           Fin(out)  == Finish(finished, rs, Outs(out))
           Read(p, x, w, st) == [client EXCEPT !.m_parser = p, !.m_sent_requests = x,
                                               !.writable = w, !.state = st]
<1>1. UNCHANGED <<called, m_new_requests>> /\ client.state # "NONE"
  BY DEF OnRead, AtEventLoop
<1>2. PICK run : \/ /\ Len(run.out) \in 0 .. Len(rs)
                    /\ client' = Read(run.parser, Left(run.out),
                                  IF Len(c2s) < RequestRoom THEN "now" ELSE client.writable,
                                  CASE run.parser.state = "UNDEFINED" -> "UNDEFINED"
                                    [] run.parser.state = "READING_HANDSHAKE" -> "HANDSHAKING"
                                    [] OTHER -> "ACTIVE")
                    /\ finished' = Fin(run.out)
                 \/ Len(run.out) \in 0 .. Len(rs) /\ OnLostConnection(Left(run.out), Fin(run.out))
                 \/ client' = [client EXCEPT !.state = "UNDEFINED"] /\ UNCHANGED finished
  BY DEF OnRead, From
<1>3. PICK out, p, w, st :
        /\ st \in {"UNDEFINED", "HANDSHAKING", "ACTIVE"}
        /\ \/ Len(out) \in 0 .. Len(rs) /\ client' = Read(p, Left(out), w, st) /\ finished' = Fin(out)
           \/ Len(out) \in 0 .. Len(rs) /\ OnLostConnection(Left(out), Fin(out))
           \/ client' = [client EXCEPT !.state = "UNDEFINED"] /\ UNCHANGED finished
  <2> DEFINE st == CASE run.parser.state = "UNDEFINED" -> "UNDEFINED"
                     [] run.parser.state = "READING_HANDSHAKE" -> "HANDSHAKING"
                     [] OTHER -> "ACTIVE"
  <2>1. st \in {"UNDEFINED", "HANDSHAKING", "ACTIVE"}
    OBVIOUS
  <2> HIDE DEF st
  <2> HIDE DEF Outs, Left, Fin, Read, rs
  <2> QED
    BY <1>2, <2>1 DEF st
<1>4. IsConn(client) /\ OnePlace(called, m_new_requests, rs, finished)
  BY DEF PlaceInv, IsConn
<1>5. ASSUME Len(out) \in 0 .. Len(rs)
      PROVE  OnePlace(called, m_new_requests, Left(out), Fin(out))
  <2> DEFINE o == Outs(out)
             k == Len(out)
  <2>1. o = [i \in 1 .. k |-> o[i]]
    OBVIOUS
  <2> HIDE DEF o, k, rs
  <2>2. OnePlace(called, m_new_requests, SubSeq(rs, k + 1, Len(rs)), Finish(finished, rs, o))
    BY <1>4, <1>5, <2>1, FinishMoves DEF k
  <2> QED
    BY <2>2 DEF o, k
<1> HIDE DEF Left, Fin, Outs
<1>6. CASE Len(out) \in 0 .. Len(rs) /\ client' = Read(p, Left(out), w, st) /\ finished' = Fin(out)
  <2>1. IsConn(client') /\ client'.m_sent_requests = Left(out) /\ client'.state = st
    BY <1>4, <1>6 DEF IsConn
  <2> QED
    BY <1>1, <1>3, <1>5, <1>6, <2>1 DEF PlaceInv, IsConn
<1>7. CASE Len(out) \in 0 .. Len(rs) /\ OnLostConnection(Left(out), Fin(out))
  BY <1>1, <1>5, <1>7, LostStep
<1>8. CASE client' = [client EXCEPT !.state = "UNDEFINED"] /\ UNCHANGED finished
  <2>1. IsConn(client') /\ client'.m_sent_requests = rs /\ client'.state = "UNDEFINED"
    BY <1>4, <1>8 DEF IsConn
  <2> QED
    BY <1>1, <1>4, <1>8, <2>1 DEF PlaceInv, IsConn
<1> QED
  BY <1>3, <1>6, <1>7, <1>8

LEMMA StepPlace == PlaceInv /\ [Next]_vars => PlaceInv'
<1> SUFFICES ASSUME PlaceInv, [Next]_vars PROVE PlaceInv'
  OBVIOUS
<1>1. ASSUME NEW r \in Requests, Call(r) PROVE PlaceInv'
  <2>1. OnePlace(called \cup {r}, Append(m_new_requests, r), client.m_sent_requests, finished)
    BY <1>1, CallMoves DEF PlaceInv, Call
  <2> QED
    BY <1>1, <2>1 DEF PlaceInv, Call
<1>2. CASE CheckKeepAlive
  <2> DEFINE c == [client EXCEPT !.m_send_buffer = <<KeepAlive>>]
  <2>1. IsConn(c) /\ c.m_sent_requests = client.m_sent_requests /\ c.state # "NONE"
    BY <1>2 DEF PlaceInv, IsConn, CheckKeepAlive, AtEventLoop
  <2>2. client' = c \/ \E b, w : client' = [c EXCEPT !.m_send_buffer = b, !.writable = w]
    BY <1>2 DEF CheckKeepAlive, PerformSend
  <2> HIDE DEF c
  <2>3. IsConn(client') /\ client'.m_sent_requests = c.m_sent_requests /\ client'.state # "NONE"
    BY <2>1, <2>2 DEF IsConn
  <2> QED
    BY <1>2, <2>1, <2>3 DEF PlaceInv, IsConn, CheckKeepAlive
<1>3. CASE OnReadEnd
  BY <1>3, LostStep DEF OnReadEnd, PlaceInv
<1>4. CASE Reconnect
  <2>1. /\ UNCHANGED <<called, m_new_requests, finished>> /\ client' = NewClientConn
        /\ client.state = "NONE"
    BY <1>4 DEF Reconnect, Connect
  <2> QED
    BY <2>1, NewConnForm DEF PlaceInv, IsConn
<1>5. CASE SrvOnRead \/ SrvHandleResponses \/ SrvOnWrite \/ Break \/ UNCHANGED vars
  <2>1. UNCHANGED <<called, m_new_requests, client, finished>>
    BY <1>5 DEF SrvOnRead, SrvHandleResponses, SrvOnWrite, Break, vars
  <2> QED
    BY <2>1 DEF PlaceInv
<1> QED
  BY <1>1, <1>2, <1>3, <1>4, <1>5, OnWriteStep, PutRequestsStep, OnReadStep DEF Next

LEMMA InitPlace == Init => PlaceInv
<1> SUFFICES ASSUME Init PROVE PlaceInv
  OBVIOUS
<1>1. /\ called = {} /\ m_new_requests = <<>> /\ client = NewClientConn
      /\ finished = [r \in Requests |-> <<>>]
  BY DEF Init
<1>2. Range(<<>>) = {} /\ IsInjective(<<>>) /\ <<>> \in Seq(Requests)
  BY DEF Range, IsInjective
<1>3. OnePlace({}, <<>>, <<>>, finished)
  BY <1>1, <1>2 DEF OnePlace
<1> QED
  BY <1>1, <1>3, NewConnForm DEF PlaceInv, IsConn

\* Every call made is in one of the client's queues or has come to its end, and only
\* one of these, and only once.
THEOREM PlaceInvariant == Spec => []PlaceInv
BY InitPlace, StepPlace, PTL DEF Spec

-------------------------------------------------------------------------------
(* Counting. *)

\* A queue without repetitions has each of its elements at one place.
LEMMA OneIndex ==
  ASSUME NEW q \in Seq(Requests), IsInjective(q), NEW r
  PROVE  Cardinality({i \in 1 .. Len(q) : q[i] = r}) = IF r \in Range(q) THEN 1 ELSE 0
<1> DEFINE I == {i \in 1 .. Len(q) : q[i] = r}
<1>1. DOMAIN q = 1 .. Len(q)
  OBVIOUS
<1>2. CASE r \in Range(q)
  <2>1. PICK i \in 1 .. Len(q) : q[i] = r
    BY <1>1, <1>2 DEF Range
  <2>2. I = {i}
    BY <1>1, <2>1 DEF IsInjective
  <2>3. Cardinality(I) = 1
    BY <2>2, FS_Singleton
  <2> QED
    BY <1>2, <2>3
<1>3. CASE r \notin Range(q)
  <2>1. I = {}
    BY <1>1, <1>3 DEF Range
  <2>2. Cardinality(I) = 0
    BY <2>1, FS_EmptySet
  <2> QED
    BY <1>3, <2>2
<1> QED
  BY <1>2, <1>3

\* No call is lost or doubled, however the connection breaks and whatever the
\* parsers make of the streams (CallInOnePlace).
THEOREM NoCallLostOrDoubled == Spec => []CallInOnePlace
<1>1. ASSUME PlaceInv PROVE CallInOnePlace
  <2> DEFINE sent == client.m_sent_requests
  <2> SUFFICES ASSUME NEW r \in called
               PROVE  Cardinality({i \in 1 .. Len(m_new_requests) : m_new_requests[i] = r})
                      + Cardinality({i \in 1 .. Len(sent) : sent[i] = r})
                      + Len(finished[r]) = 1
    BY DEF CallInOnePlace
  <2>1. /\ r \in Requests /\ m_new_requests \in Seq(Requests) /\ IsInjective(m_new_requests)
        /\ sent \in Seq(Requests) /\ IsInjective(sent)
        /\ ~(r \in Range(m_new_requests) /\ r \in Range(sent))
        /\ IF r \notin Range(m_new_requests) /\ r \notin Range(sent)
           THEN Len(finished[r]) = 1 ELSE finished[r] = <<>>
    BY <1>1 DEF PlaceInv, OnePlace
  <2> HIDE DEF sent
  <2>2. /\ Cardinality({i \in 1 .. Len(m_new_requests) : m_new_requests[i] = r})
             = IF r \in Range(m_new_requests) THEN 1 ELSE 0
        /\ Cardinality({i \in 1 .. Len(sent) : sent[i] = r}) = IF r \in Range(sent) THEN 1 ELSE 0
    BY <2>1, OneIndex
  <2>3. finished[r] = <<>> => Len(finished[r]) = 0
    OBVIOUS
  <2> DEFINE a == Cardinality({i \in 1 .. Len(m_new_requests) : m_new_requests[i] = r})
             b == Cardinality({i \in 1 .. Len(sent) : sent[i] = r})
             l == Len(finished[r])
  <2>4. \/ a = 1 /\ b = 0 /\ l = 0
        \/ a = 0 /\ b = 1 /\ l = 0
        \/ a = 0 /\ b = 0 /\ l = 1
    <3> HIDE DEF a, b, l
    <3>1. /\ a = IF r \in Range(m_new_requests) THEN 1 ELSE 0
          /\ b = IF r \in Range(sent) THEN 1 ELSE 0
          /\ IF r \notin Range(m_new_requests) /\ r \notin Range(sent) THEN l = 1 ELSE l = 0
      BY <2>1, <2>2, <2>3 DEF a, b, l
    <3> QED
      BY <2>1, <3>1
  <2>5. a + b + l = 1
    <3> HIDE DEF a, b, l
    <3> QED
      BY <2>4
  <2> QED
    BY <2>5
<1> QED
  BY PlaceInvariant, <1>1, PTL

-------------------------------------------------------------------------------
(* The bytes of a frame. *)

\* The symbols of the protocol are different bytes.
LEMMA Symbols ==
  /\ Base \in Nat \ {0, 1} /\ Newline \in Byte /\ KeepAlive \in Byte /\ Upgrade \in Byte
  /\ Digit \subseteq Byte
  /\ Newline \notin Digit /\ KeepAlive \notin Digit /\ KeepAlive # Newline
  /\ Handshake \in Seq(Byte) /\ Handshake # <<>>
BY BinFramesAssumption DEF Byte, Digit, Newline, KeepAlive, Upgrade

\* ToDigits satisfies its own equation.
LEMMA DigitsDef ==
  \A n \in Nat : ToDigits[n] = IF n < Base THEN <<n>> ELSE Append(ToDigits[n \div Base], n % Base)
<1> DEFINE T == Seq(Nat)
           H == Seq(T)
           more(n, h) == IF n < Base \/ (n \div Base) + 1 \notin DOMAIN h THEN <<n>>
                         ELSE Append(h[(n \div Base) + 1], n % Base)
           next(n, h) == Append(h, more(n, h))
           step == [n \in Nat |-> [h \in H |-> next(n, h)]]
<1>1. \A n \in Nat : n \div Base \in Nat /\ n % Base \in Nat /\ (n >= Base => n \div Base < n)
  BY DivMod, Symbols
<1>2. /\ \A h \in H : \A i \in DOMAIN h : h[i] \in T
      /\ \A s \in T, d \in Nat : Append(s, d) \in T
      /\ \A d \in Nat : <<d>> \in T
      /\ <<>> \in H
  OBVIOUS
<1>3. \A h \in H, s \in T :
        /\ Append(h, s) \in H /\ Len(h) \in Nat /\ Len(Append(h, s)) = Len(h) + 1
        /\ Append(h, s)[Len(h) + 1] = s /\ DOMAIN h = 1 .. Len(h)
        /\ \A i \in 1 .. Len(h) : Append(h, s)[i] = h[i]
  <2> HIDE DEF T
  <2> QED
    OBVIOUS
<1> HIDE DEF T, H
<1>4. \A n \in Nat, h \in H : more(n, h) \in T
  BY <1>1, <1>2
<1> HIDE DEF more
<1>5. \A n \in Nat, h \in H : next(n, h) \in H
  BY <1>3, <1>4
<1> HIDE DEF next
<1>6. step \in [Nat -> [H -> H]]
  BY <1>5
<1>7. PICK f : Iterates(f, H, <<>>, step)
  <2> DEFINE b == <<>>
  <2>1. b \in H
    BY <1>2
  <2> HIDE DEF b, step
  <2>2. \E f : Iterates(f, H, b, step)
    BY <1>6, <2>1, Iteration
  <2> QED
    BY <2>2 DEF b
<1>8. f \in [Nat -> H] /\ f[0] = <<>> /\ \A n \in Nat : f[n + 1] = next(n, f[n])
  BY <1>7 DEF Iterates
<1> HIDE DEF step
<1>9. \A n \in Nat : Len(f[n]) = n
  <2> DEFINE U == {n \in Nat : Len(f[n]) = n}
  <2>1. 0 \in U
    BY <1>8
  <2>2. ASSUME NEW n \in Nat, n \in U PROVE n + 1 \in U
    <3>1. f[n] \in H /\ more(n, f[n]) \in T
      BY <1>4, <1>8
    <3>2. Len(Append(f[n], more(n, f[n]))) = n + 1
      BY <1>3, <2>2, <3>1
    <3> QED
      BY <1>8, <3>2 DEF next
  <2> HIDE DEF U
  <2>3. \A n \in Nat : n \in U
    BY <2>1, <2>2, SetInduction
  <2> QED
    BY <2>3 DEF U
<1>14. ASSUME NEW n \in Nat
       PROVE  f[n + 1][n + 1] = more(n, f[n]) /\ \A i \in 1 .. n : f[n + 1][i] = f[n][i]
  <2>1. f[n] \in H /\ more(n, f[n]) \in T /\ Len(f[n]) = n
    BY <1>4, <1>8, <1>9
  <2>2. f[n + 1] = Append(f[n], more(n, f[n]))
    BY <1>8 DEF next
  <2>3. /\ Append(f[n], more(n, f[n]))[Len(f[n]) + 1] = more(n, f[n])
        /\ \A i \in 1 .. Len(f[n]) : Append(f[n], more(n, f[n]))[i] = f[n][i]
    BY <1>3, <2>1
  <2> QED
    BY <2>1, <2>2, <2>3
<1> DEFINE g == [n \in Nat |-> f[n + 1][n + 1]]
<1>10. \A n \in Nat : \A i \in 1 .. n : f[n][i] = g[i - 1]
  <2> DEFINE U == {n \in Nat : \A i \in 1 .. n : f[n][i] = g[i - 1]}
  <2>1. 0 \in U
    OBVIOUS
  <2>2. ASSUME NEW n \in Nat, n \in U PROVE n + 1 \in U
    <3>1. SUFFICES ASSUME NEW i \in 1 .. n + 1 PROVE f[n + 1][i] = g[i - 1]
      <4> HIDE DEF g
      <4> QED
        OBVIOUS
    <3>2. CASE i = n + 1
      BY <3>2
    <3>3. CASE i \in 1 .. n
      <4> HIDE DEF g
      <4>2. f[n + 1][i] = f[n][i]
        BY <1>14, <3>3
      <4>3. f[n][i] = g[i - 1]
        BY <2>2, <3>3
      <4> QED
        BY <4>2, <4>3
    <3> QED
      BY <3>2, <3>3
  <2> HIDE DEF U
  <2>3. \A n \in Nat : n \in U
    BY <2>1, <2>2, SetInduction
  <2> QED
    BY <2>3 DEF U
<1>11. ASSUME NEW n \in Nat PROVE g[n] = IF n < Base THEN <<n>> ELSE Append(g[n \div Base], n % Base)
  <2>1. f[n] \in H /\ more(n, f[n]) \in T /\ Len(f[n]) = n /\ DOMAIN f[n] = 1 .. n
    BY <1>3, <1>4, <1>8, <1>9
  <2>2. f[n + 1][n + 1] = more(n, f[n])
    BY <1>14
  <2>3. g[n] = more(n, f[n])
    BY <2>2
  <2>4. CASE n < Base
    BY <2>3, <2>4 DEF more
  <2>5. CASE ~ (n < Base)
    <3>1. (n \div Base) + 1 \in 1 .. n /\ ((n \div Base) + 1) - 1 = n \div Base
      BY <1>1, <2>5, Symbols
    <3>2. f[n][(n \div Base) + 1] = g[n \div Base]
      BY <1>10, <3>1
    <3>3. more(n, f[n]) = Append(f[n][(n \div Base) + 1], n % Base)
      BY <2>1, <2>5, <3>1 DEF more
    <3> HIDE DEF g
    <3> QED
      BY <2>3, <2>5, <3>2, <3>3
  <2> QED
    BY <2>4, <2>5
<1> HIDE DEF g
<1>12. g = [n \in Nat |-> IF n < Base THEN <<n>> ELSE Append(g[n \div Base], n % Base)]
  <2>1. g = [n \in Nat |-> g[n]]
    BY DEF g
  <2> QED
    BY <1>11, <2>1
<1>13. ToDigits = [n \in Nat |-> IF n < Base THEN <<n>> ELSE Append(ToDigits[n \div Base], n % Base)]
  BY <1>12 DEF ToDigits
<1> QED
  BY <1>13

\* How far the leading elements of t in S go.
LEMMA LeadingIs ==
  ASSUME NEW X, NEW t \in Seq(X), NEW S
  PROVE  /\ Leading(t, S) \in 0 .. Len(t)
         /\ \A i \in 1 .. Leading(t, S) : t[i] \in S
         /\ Leading(t, S) < Len(t) => t[Leading(t, S) + 1] \notin S
<1> DEFINE A == {n \in 0 .. Len(t) : \A i \in 1 .. n : t[i] \in S}
           k == Max(A)
<1>1. Len(t) \in Nat
  OBVIOUS
<1>2. A \subseteq 0 .. Len(t) /\ 0 \in A
  BY <1>1
<1>3. k \in A /\ \A y \in A : k >= y
  <2> HIDE DEF A
  <2> QED
    BY <1>1, <1>2, BoundedMax
<1> HIDE DEF k
<1>4. k \in 0 .. Len(t) /\ \A i \in 1 .. k : t[i] \in S
  BY <1>3
<1>5. ASSUME k < Len(t), t[k + 1] \in S PROVE FALSE
  <2>1. k + 1 \in 0 .. Len(t)
    BY <1>1, <1>4, <1>5
  <2>2. \A i \in 1 .. k + 1 : i \in 1 .. k \/ i = k + 1
    BY <1>4
  <2>3. k + 1 \in A
    BY <1>4, <1>5, <2>1, <2>2
  <2>4. k >= k + 1
    BY <1>3, <2>3
  <2> QED
    BY <1>4, <2>4
<1>6. Leading(t, S) = k
  BY DEF Leading, k
<1> QED
  BY <1>4, <1>5, <1>6

\* The value of a line of digits.
LEMMA NumberPrefixes ==
  ASSUME NEW line \in Seq(Digit)
  PROVE  \E v \in [0 .. Len(line) -> Nat] :
           /\ v[0] = 0
           /\ \A i \in 1 .. Len(line) : v[i] = Base * v[i - 1] + line[i]
           /\ LeadingNumber(line) = v[Len(line)]
<1> DEFINE m == Len(line)
           F == CHOOSE h : h = [i \in 0 .. m |-> IF i = 0 THEN 0 ELSE Base * h[i - 1] + line[i]]
           next(n, s) == IF n + 1 \in 1 .. m THEN Base * s + line[n + 1] ELSE s
           step == [n \in Nat |-> [s \in Nat |-> next(n, s)]]
<1>1. m \in Nat /\ \A i \in 1 .. m : line[i] \in Nat
  BY Symbols DEF Digit
<1>2. Leading(line, Digit) = m
  <2>1. \A i \in 1 .. m : line[i] \in Digit
    OBVIOUS
  <2>2. Leading(line, Digit) \in 0 .. m /\ (Leading(line, Digit) < m => line[Leading(line, Digit) + 1] \notin Digit)
    BY LeadingIs
  <2>3. ASSUME Leading(line, Digit) < m PROVE FALSE
    <3>1. Leading(line, Digit) + 1 \in 1 .. m
      BY <1>1, <2>2, <2>3
    <3> QED
      BY <2>1, <2>2, <2>3, <3>1
  <2> QED
    BY <1>1, <2>2, <2>3
<1>3. LeadingNumber(line) = F[m]
  BY <1>2 DEF LeadingNumber
<1> HIDE DEF m, F
<1>4. \A n \in Nat, s \in Nat : next(n, s) \in Nat
  BY <1>1, Symbols
<1> HIDE DEF next
<1>5. step \in [Nat -> [Nat -> Nat]]
  BY <1>4
<1>6. PICK g : Iterates(g, Nat, 0, step)
  <2> HIDE DEF step
  <2> QED
    BY <1>5, Iteration
<1>7. g \in [Nat -> Nat] /\ g[0] = 0 /\ \A n \in Nat : g[n + 1] = next(n, g[n])
  BY <1>6 DEF Iterates
<1> HIDE DEF step
<1> DEFINE f == [i \in 0 .. m |-> g[i]]
<1>8. ASSUME NEW i \in 0 .. m, i # 0 PROVE f[i] = Base * f[i - 1] + line[i]
  <2>1. i - 1 \in Nat /\ (i - 1) + 1 = i /\ i \in 1 .. m /\ i - 1 \in 0 .. m /\ i \in 0 .. m
    BY <1>1, <1>8
  <2>2. g[i] = next(i - 1, g[i - 1])
    BY <1>7, <2>1
  <2>3. next(i - 1, g[i - 1]) = Base * g[i - 1] + line[i]
    BY <2>1 DEF next
  <2>4. f[i] = g[i] /\ f[i - 1] = g[i - 1]
    BY <2>1
  <2> HIDE DEF f
  <2> QED
    BY <2>2, <2>3, <2>4
<1>9. f = [i \in 0 .. m |-> IF i = 0 THEN 0 ELSE Base * f[i - 1] + line[i]]
  <2>1. f = [i \in 0 .. m |-> f[i]] /\ f[0] = 0
    BY <1>1, <1>7
  <2> HIDE DEF f
  <2> QED
    BY <1>8, <2>1
<1> HIDE DEF f
<1>10. F = [i \in 0 .. m |-> IF i = 0 THEN 0 ELSE Base * F[i - 1] + line[i]]
  BY <1>9 DEF F
<1>11. F[0] = 0 /\ \A i \in 1 .. m : F[i] = Base * F[i - 1] + line[i]
  <2>1. 0 \in 0 .. m /\ \A i \in 1 .. m : i \in 0 .. m /\ i # 0
    BY <1>1
  <2>2. \A i \in 0 .. m : F[i] = IF i = 0 THEN 0 ELSE Base * F[i - 1] + line[i]
    BY <1>10
  <2> QED
    BY <2>1, <2>2
<1>12. \A n \in Nat : n \in 0 .. m => F[n] \in Nat
  <2> DEFINE U == {n \in Nat : n \in 0 .. m => F[n] \in Nat}
  <2>1. 0 \in U
    BY <1>11
  <2>2. ASSUME NEW n \in Nat, n \in U PROVE n + 1 \in U
    <3>1. SUFFICES ASSUME n + 1 \in 0 .. m PROVE F[n + 1] \in Nat
      OBVIOUS
    <3>2. n \in 0 .. m /\ n + 1 \in 1 .. m /\ (n + 1) - 1 = n
      BY <1>1, <3>1
    <3>3. F[n] \in Nat /\ line[n + 1] \in Nat /\ F[n + 1] = Base * F[n] + line[n + 1]
      BY <1>1, <1>11, <2>2, <3>2
    <3> QED
      BY <3>3, Symbols
  <2> HIDE DEF U
  <2>3. \A n \in Nat : n \in U
    BY <2>1, <2>2, SetInduction
  <2> QED
    BY <2>3 DEF U
<1>13. F \in [0 .. m -> Nat]
  <2>1. \A i \in 0 .. m : F[i] \in Nat
    BY <1>1, <1>12
  <2>2. F = [i \in 0 .. m |-> F[i]]
    BY <1>10
  <2> QED
    BY <2>1, <2>2
<1> QED
  BY <1>3, <1>11, <1>13 DEF m

\* One more digit.
LEMMA NumberAppend ==
  ASSUME NEW line \in Seq(Digit), NEW d \in Digit
  PROVE  LeadingNumber(Append(line, d)) = Base * LeadingNumber(line) + d
<1> DEFINE m == Len(line)
           more == Append(line, d)
<1>1. /\ more \in Seq(Digit) /\ m \in Nat /\ Len(more) = m + 1 /\ more[m + 1] = d
      /\ \A i \in 1 .. m : more[i] = line[i]
  OBVIOUS
<1> HIDE DEF more
<1>2. PICK v \in [0 .. m -> Nat] :
           /\ v[0] = 0 /\ \A i \in 1 .. m : v[i] = Base * v[i - 1] + line[i]
           /\ LeadingNumber(line) = v[m]
  BY NumberPrefixes
<1>3. PICK w \in [0 .. Len(more) -> Nat] :
           /\ w[0] = 0 /\ \A i \in 1 .. Len(more) : w[i] = Base * w[i - 1] + more[i]
           /\ LeadingNumber(more) = w[Len(more)]
  BY <1>1, NumberPrefixes
<1> HIDE DEF m
<1>4. \A n \in Nat : n \in 0 .. m => w[n] = v[n]
  <2> DEFINE U == {n \in Nat : n \in 0 .. m => w[n] = v[n]}
  <2>1. 0 \in U
    BY <1>2, <1>3
  <2>2. ASSUME NEW n \in Nat, n \in U PROVE n + 1 \in U
    <3>1. SUFFICES ASSUME n + 1 \in 0 .. m PROVE w[n + 1] = v[n + 1]
      OBVIOUS
    <3>2. n \in 0 .. m /\ n + 1 \in 1 .. m /\ n + 1 \in 1 .. Len(more) /\ (n + 1) - 1 = n
      BY <1>1, <3>1
    <3>3. w[n] = v[n] /\ more[n + 1] = line[n + 1]
      BY <1>1, <2>2, <3>2
    <3>4. w[n + 1] = Base * w[n] + more[n + 1] /\ v[n + 1] = Base * v[n] + line[n + 1]
      BY <1>2, <1>3, <3>2
    <3> QED
      BY <3>3, <3>4
  <2> HIDE DEF U
  <2>3. \A n \in Nat : n \in U
    BY <2>1, <2>2, SetInduction
  <2> QED
    BY <2>3 DEF U
<1>5. w[m] = v[m]
  BY <1>1, <1>4
<1>6. m + 1 \in 1 .. Len(more) /\ (m + 1) - 1 = m
  BY <1>1
<1>7. w[m + 1] = Base * w[m] + more[m + 1]
  BY <1>3, <1>6
<1> QED
  BY <1>1, <1>2, <1>3, <1>5, <1>7 DEF more

\* The length line of a frame is read back as the length, whatever its number of digits
\* (string_to_uint64 of what operator<< has printed).
THEOREM DigitsAreRead ==
  \A n \in Nat : ToDigits[n] \in Seq(Digit) /\ ToDigits[n] # <<>> /\ LeadingNumber(ToDigits[n]) = n
<1> DEFINE Good(n) == ToDigits[n] \in Seq(Digit) /\ ToDigits[n] # <<>> /\ LeadingNumber(ToDigits[n]) = n
           U == {n \in Nat : \A k \in 0 .. n : Good(k)}
<1>1. \A d \in Digit : d \in Nat /\ <<d>> \in Seq(Digit) /\ <<d>> # <<>> /\ LeadingNumber(<<d>>) = d
  <2>1. SUFFICES ASSUME NEW d \in Digit
                 PROVE  d \in Nat /\ <<d>> \in Seq(Digit) /\ <<d>> # <<>> /\ LeadingNumber(<<d>>) = d
    OBVIOUS
  <2> DEFINE e == <<>>
  <2>2. e \in Seq(Digit) /\ Len(e) = 0 /\ Append(e, d) = <<d>>
    OBVIOUS
  <2>3. d \in Nat
    BY Symbols DEF Digit
  <2> HIDE DEF e
  <2>4. LeadingNumber(e) = 0
    <3>1. PICK v \in [0 .. Len(e) -> Nat] : v[0] = 0 /\ LeadingNumber(e) = v[Len(e)]
      BY <2>2, NumberPrefixes
    <3> QED
      BY <2>2, <3>1
  <2>5. LeadingNumber(Append(e, d)) = Base * LeadingNumber(e) + d
    BY <2>2, NumberAppend
  <2>6. Base * 0 + d = d
    BY <2>3, Symbols
  <2>7. LeadingNumber(<<d>>) = d
    BY <2>2, <2>4, <2>5, <2>6
  <2> QED
    BY <2>3, <2>7
<1>2. ASSUME NEW n \in Nat, \A k \in 0 .. n - 1 : Good(k) PROVE Good(n)
  <2>1. CASE n < Base
    <3>1. n \in Digit /\ ToDigits[n] = <<n>>
      <4>1. Base \in Nat
        BY Symbols
      <4>2. n \in Digit
        BY <2>1, <4>1 DEF Digit
      <4>3. ToDigits[n] = <<n>>
        BY <2>1, DigitsDef
      <4> QED
        BY <4>2, <4>3
    <3> QED
      BY <1>1, <3>1
  <2>2. CASE ~ (n < Base)
    <3> DEFINE q == n \div Base
               r == n % Base
    <3>1. q \in 0 .. n - 1 /\ r \in Digit /\ n = Base * q + r
      <4>1. Base \in Nat \ {0, 1}
        BY Symbols
      <4>2. q \in Nat /\ r \in 0 .. Base - 1 /\ n = Base * q + r /\ (n # 0 => q < n)
        BY <4>1, DivMod
      <4> HIDE DEF q, r
      <4>3. q \in 0 .. n - 1
        BY <2>2, <4>1, <4>2
      <4> QED
        BY <4>2, <4>3 DEF Digit
    <3>2. ToDigits[n] = Append(ToDigits[q], r)
      BY <2>2, DigitsDef
    <3> HIDE DEF q, r
    <3>3. Good(q)
      BY <1>2, <3>1
    <3>4. LeadingNumber(Append(ToDigits[q], r)) = Base * LeadingNumber(ToDigits[q]) + r
      BY <3>1, <3>3, NumberAppend
    <3>5. Append(ToDigits[q], r) \in Seq(Digit) /\ Append(ToDigits[q], r) # <<>>
      <4> DEFINE t == ToDigits[q]
      <4>1. t \in Seq(Digit)
        BY <3>3
      <4> HIDE DEF t
      <4>2. Append(t, r) \in Seq(Digit) /\ Append(t, r) # <<>>
        BY <3>1, <4>1, AppendProperties
      <4> QED
        BY <4>2 DEF t
    <3> QED
      BY <3>1, <3>2, <3>3, <3>4, <3>5
  <2> QED
    BY <2>1, <2>2
<1> HIDE DEF Good
<1>3. 0 \in U
  BY <1>2
<1>4. ASSUME NEW n \in Nat, n \in U PROVE n + 1 \in U
  <2>1. Good(n + 1)
    BY <1>2, <1>4
  <2>2. \A k \in 0 .. n + 1 : k \in 0 .. n \/ k = n + 1
    OBVIOUS
  <2> QED
    BY <1>4, <2>1, <2>2
<1> HIDE DEF U
<1>5. \A n \in Nat : n \in U
  BY <1>3, <1>4, SetInduction
<1>6. \A n \in Nat : Good(n)
  BY <1>5 DEF U
<1> QED
  BY <1>6 DEF Good

\* ... and c is no longer than a.
Overlaps(S, a, b, c, d) ==
  /\ From(a, Len(c) + 1) \in Seq(S) /\ Len(From(a, Len(c) + 1)) = Len(a) - Len(c)
  /\ a = c \o From(a, Len(c) + 1)
  /\ SubSeq(a, 1, Len(c)) = c
  /\ d = From(a, Len(c) + 1) \o b

\* If a followed by b is c followed by d and c is no longer, a is c and more.
LEMMA Overlap ==
  ASSUME NEW S, NEW a \in Seq(S), NEW b \in Seq(S), NEW c \in Seq(S), NEW d \in Seq(S),
         Joined(a, b, c, d), Len(c) <= Len(a)
  PROVE  Overlaps(S, a, b, c, d)
<1> DEFINE e == SubSeq(a, Len(c) + 1, Len(a))
           n == Len(c)
<1>1. n \in Nat /\ Len(a) \in Nat /\ n <= Len(a)
  OBVIOUS
<1>2. e \in Seq(S) /\ Len(e) = Len(a) - n /\ \A i \in 1 .. Len(a) - n : e[i] = a[n + i]
  OBVIOUS
<1> DEFINE x == a \o b
<1>3. /\ Len(x) = Len(a) + Len(b) /\ Len(x) = n + Len(d)
      /\ \A i \in 1 .. Len(a) : x[i] = a[i]
      /\ \A i \in 1 .. Len(b) : x[Len(a) + i] = b[i]
      /\ \A i \in 1 .. n : x[i] = c[i]
      /\ \A i \in 1 .. Len(d) : x[n + i] = d[i]
  <2>1. Concats(x, a, b)
    BY ConcatElements
  <2>2. Concats(c \o d, c, d) /\ x = c \o d
    BY ConcatElements DEF Joined
  <2> HIDE DEF x
  <2> QED
    BY <2>1, <2>2 DEF Concats
<1> HIDE DEF x
<1>4. SubSeq(a, 1, n) = c
  <2>1. SubSeq(a, 1, n) \in Seq(S) /\ Len(SubSeq(a, 1, n)) = n
        /\ \A i \in 1 .. n : SubSeq(a, 1, n)[i] = a[i]
    BY <1>1
  <2>2. \A i \in 1 .. n : a[i] = c[i]
    BY <1>1, <1>3
  <2> DEFINE y == SubSeq(a, 1, n)
  <2> HIDE DEF y
  <2>3. y \in Seq(S) /\ Len(y) = Len(c) /\ \A i \in 1 .. Len(c) : y[i] = c[i]
    BY <2>1, <2>2 DEF y
  <2>4. y = c
    BY <2>3, SeqEqual
  <2> QED
    BY <2>4 DEF y
<1> HIDE DEF e
<1>5. a = c \o e
  <2> DEFINE y == c \o e
  <2>1. y \in Seq(S) /\ Len(y) = Len(a)
    BY <1>1, <1>2
  <2>2. ASSUME NEW i \in 1 .. Len(a) PROVE y[i] = a[i]
    <3>1. CASE i \in 1 .. n
      <4>1. y[i] = c[i]
        BY <1>2, <3>1
      <4> QED
        BY <1>1, <1>3, <3>1, <4>1
    <3>2. CASE i - n \in 1 .. Len(a) - n
      <4>1. y[i] = e[i - n]
        BY <1>1, <1>2, <3>2
      <4> DEFINE j == i - n
      <4> HIDE DEF j
      <4>2. j \in 1 .. Len(a) - n /\ n + j = i /\ y[i] = e[j]
        BY <1>1, <3>2, <4>1 DEF j
      <4>3. e[j] = a[n + j]
        BY <1>2, <4>2
      <4> QED
        BY <4>2, <4>3
    <3>3. i \in 1 .. n \/ i - n \in 1 .. Len(a) - n
      BY <1>1
    <3> QED
      BY <3>1, <3>2, <3>3
  <2> HIDE DEF y
  <2>3. y = a
    BY <2>1, <2>2, SeqEqual
  <2> QED
    BY <2>3 DEF y
<1>6. d = e \o b
  <2> DEFINE y == e \o b
  <2>1. y \in Seq(S) /\ Len(y) = Len(d)
    BY <1>1, <1>2, <1>3
  <2>2. ASSUME NEW i \in 1 .. Len(d) PROVE y[i] = d[i]
    <3>0. Len(d) = (Len(a) - n) + Len(b) /\ d[i] = x[n + i]
      <4>1. Len(b) \in Nat /\ Len(d) \in Nat /\ Len(a) + Len(b) = n + Len(d)
        <5>1. Len(b) \in Nat /\ Len(d) \in Nat
          OBVIOUS
        <5>2. Len(x) = Len(a) + Len(b) /\ Len(x) = n + Len(d)
          BY <1>3
        <5> QED
          BY <5>1, <5>2
      <4>2. d[i] = x[n + i]
        BY <1>3
      <4> QED
        BY <1>1, <4>1, <4>2
    <3>1. CASE i \in 1 .. Len(a) - n
      <4>1. y[i] = e[i]
        BY <1>2, <3>1
      <4>2. n + i \in 1 .. Len(a)
        BY <1>1, <3>1
      <4> QED
        BY <1>2, <1>3, <3>0, <3>1, <4>1, <4>2
    <3>2. CASE i - (Len(a) - n) \in 1 .. Len(b)
      <4>1. y[i] = b[i - (Len(a) - n)]
        BY <1>1, <1>2, <3>2
      <4>2. x[Len(a) + (i - (Len(a) - n))] = b[i - (Len(a) - n)] /\ Len(a) + (i - (Len(a) - n)) = n + i
        BY <1>1, <1>3, <3>2
      <4> QED
        BY <3>0, <4>1, <4>2
    <3>3. i \in 1 .. Len(a) - n \/ i - (Len(a) - n) \in 1 .. Len(b)
      BY <1>1, <3>0
    <3> QED
      BY <3>1, <3>2, <3>3
  <2> HIDE DEF y
  <2>3. y = d
    BY <2>1, <2>2, SeqEqual
  <2> QED
    BY <2>3 DEF y
<1>7. From(a, Len(c) + 1) = e
  BY DEF From, e
<1> QED
  BY <1>2, <1>4, <1>5, <1>6, <1>7 DEF Overlaps

-------------------------------------------------------------------------------
(* Streams of frames. *)

\* What may stand between the frames sent to one end: keepalives, for the server.
Idle(end) == IF end = "server" THEN Seq({KeepAlive}) ELSE {<<>>}

\* The frame of the message m, after idle bytes.
Padded(end, m) == {v \o Frame(m) : v \in Idle(end)}

\* The bytes bs are the frames of the messages ms, and idle bytes among them.
Stream(end, bs, ms) ==
  \E ps \in Seq(Seq(Byte)), u \in Idle(end) :
    /\ Len(ps) = Len(ms)
    /\ \A i \in 1 .. Len(ms) : ps[i] \in Padded(end, ms[i])
    /\ bs = FlattenSeq(ps) \o u

\* A frame is a line with the length, and the message.
LEMMA FrameShape ==
  ASSUME NEW m \in Seq(Byte)
  PROVE  /\ Frame(m) \in Seq(Byte)
         /\ ToDigits[Len(m)] \in Seq(Digit) /\ ToDigits[Len(m)] \in Seq(Byte)
         /\ ToDigits[Len(m)] \o <<Newline>> \in Seq(Byte)
         /\ Frame(m) = (ToDigits[Len(m)] \o <<Newline>>) \o m
<1> DEFINE d == ToDigits[Len(m)]
           e == <<Newline>>
<1>1. Len(m) \in Nat
  OBVIOUS
<1>2. d \in Seq(Digit)
  BY <1>1, DigitsAreRead
<1> HIDE DEF d
<1>3. d \in Seq(Byte)
  BY <1>2, Symbols, SeqMonotonic
<1>4. e \in Seq(Byte)
  BY Symbols
<1> HIDE DEF e
<1>5. d \o e \in Seq(Byte)
  BY <1>3, <1>4, ConcatElements
<1>6. (d \o e) \o m \in Seq(Byte)
  BY <1>5, ConcatElements
<1> QED
  BY <1>2, <1>3, <1>5, <1>6 DEF Frame, d, e

\* Idle bytes are keepalives, also after the first n of them.
LEMMA IdleBytes ==
  ASSUME NEW end, NEW v \in Idle(end)
  PROVE  /\ v \in Seq(Byte) /\ (\A i \in 1 .. Len(v) : v[i] = KeepAlive)
         /\ end # "server" => v = <<>>
         /\ \A n \in 0 .. Len(v) : From(v, n + 1) \in Idle(end)
<1>1. CASE end = "server"
  <2>1. v \in Seq({KeepAlive})
    BY <1>1 DEF Idle
  <2>2. \A i \in 1 .. Len(v) : v[i] = KeepAlive
    BY <2>1
  <2>3. v \in Seq(Byte)
    BY <2>1, Symbols, SeqMonotonic
  <2>4. \A n \in 0 .. Len(v) : From(v, n + 1) \in Seq({KeepAlive})
    BY <2>1 DEF From
  <2> QED
    BY <1>1, <2>2, <2>3, <2>4 DEF Idle
<1>2. CASE end # "server"
  <2>1. v = <<>>
    BY <1>2 DEF Idle
  <2>2. From(<<>>, 0 + 1) = <<>> /\ Len(<<>>) = 0
    BY DEF From
  <2>3. \A n \in 0 .. Len(v) : n = 0
    BY <2>1, <2>2
  <2>4. \A n \in 0 .. Len(v) : From(v, n + 1) \in Idle(end)
    BY <2>1, <2>2, <2>3
  <2>5. v \in Seq(Byte) /\ \A i \in 1 .. Len(v) : v[i] = KeepAlive
    BY <2>1
  <2> QED
    BY <1>2, <2>1, <2>4, <2>5
<1> QED
  BY <1>1, <1>2

\* Idle bytes after idle bytes.
LEMMA IdleMore ==
  ASSUME NEW end
  PROVE  <<>> \in Idle(end) /\ (\A v, w \in Idle(end) : v \o w \in Idle(end))
         /\ <<KeepAlive>> \in Idle("server")
<1>1. <<>> \in Idle(end) /\ <<KeepAlive>> \in Idle("server")
  BY DEF Idle
<1>2. ASSUME NEW v \in Idle(end), NEW w \in Idle(end) PROVE v \o w \in Idle(end)
  <2>1. CASE end = "server"
    BY <2>1 DEF Idle
  <2>2. CASE end # "server"
    <3>1. v = <<>> /\ w = <<>>
      BY <2>2 DEF Idle
    <3>2. <<>> \o <<>> = <<>>
      OBVIOUS
    <3> QED
      BY <2>2, <3>1, <3>2 DEF Idle
  <2> QED
    BY <2>1, <2>2
<1> QED
  BY <1>1, <1>2

\* A frame after idle bytes is bytes.
LEMMA PaddedBytes ==
  ASSUME NEW end, NEW v \in Idle(end), NEW m \in Seq(Byte)
  PROVE  v \o Frame(m) \in Padded(end, m) /\ v \o Frame(m) \in Seq(Byte)
<1>1. v \in Seq(Byte) /\ Frame(m) \in Seq(Byte)
  BY IdleBytes, FrameShape
<1>2. v \o Frame(m) \in Seq(Byte)
  BY <1>1, ConcatElements
<1> QED
  BY <1>2 DEF Padded

\* A stream is bytes.
LEMMA StreamBytes ==
  ASSUME NEW end, NEW bs, NEW ms, Stream(end, bs, ms)
  PROVE  bs \in Seq(Byte)
<1>1. PICK ps \in Seq(Seq(Byte)), u \in Idle(end) : bs = FlattenSeq(ps) \o u
  BY DEF Stream
<1>2. FlattenSeq(ps) \in Seq(Byte) /\ u \in Seq(Byte)
  BY FlattenType, IdleBytes
<1> QED
  BY <1>1, <1>2, ConcatElements

\* Idle bytes alone are a stream without messages.
LEMMA StreamIdle ==
  ASSUME NEW end, NEW u \in Idle(end)
  PROVE  Stream(end, u, <<>>)
<1> DEFINE ps == <<>>
<1>1. ps \in Seq(Seq(Byte)) /\ Len(ps) = 0 /\ Len(<<>>) = 0 /\ FlattenSeq(ps) = <<>>
  BY FlattenType
<1>2. u \in Seq(Byte)
  BY IdleBytes
<1>3. <<>> \o u = u
  BY <1>2, ConcatEmptySeq
<1>4. \A i \in 1 .. 0 : ps[i] \in Padded(end, <<>>[i])
  OBVIOUS
<1> HIDE DEF ps
<1> QED
  BY <1>1, <1>3, <1>4 DEF Stream

\* Idle bytes and a frame are sent after what is under way.
LEMMA StreamSend ==
  ASSUME NEW end, NEW bs, NEW ms \in Seq(Seq(Byte)), Stream(end, bs, ms)
  PROVE  /\ \A v \in Idle(end) : Stream(end, bs \o v, ms)
         /\ \A m \in Seq(Byte) : Stream(end, bs \o Frame(m), Append(ms, m))
<1>1. PICK ps \in Seq(Seq(Byte)), u \in Idle(end) :
        /\ Len(ps) = Len(ms)
        /\ \A i \in 1 .. Len(ms) : ps[i] \in Padded(end, ms[i])
        /\ bs = FlattenSeq(ps) \o u
  BY DEF Stream
<1>2. FlattenSeq(ps) \in Seq(Byte) /\ u \in Seq(Byte)
  BY FlattenType, IdleBytes
<1>3. ASSUME NEW v \in Idle(end) PROVE Stream(end, bs \o v, ms)
  <2>1. v \in Seq(Byte) /\ u \o v \in Idle(end)
    BY IdleBytes, IdleMore
  <2>2. Regroups(FlattenSeq(ps), u, v)
    BY <1>2, <2>1, Assoc
  <2>3. bs \o v = FlattenSeq(ps) \o (u \o v)
    BY <1>1, <2>2 DEF Regroups
  <2> QED
    BY <1>1, <2>1, <2>3 DEF Stream
<1>4. ASSUME NEW m \in Seq(Byte) PROVE Stream(end, bs \o Frame(m), Append(ms, m))
  <2> DEFINE p == u \o Frame(m)
             qs == Append(ps, p)
             ns == Append(ms, m)
             n == Len(ms)
             B == Seq(Byte)
  <2>1. p \in Padded(end, m) /\ p \in Seq(Byte) /\ Frame(m) \in Seq(Byte)
    BY PaddedBytes, FrameShape
  <2>2. FlattenSeq(qs) = FlattenSeq(ps) \o p
    <3> HIDE DEF p
    <3> QED
      BY <2>1, FlattenAppend
  <2>3. Regroups(FlattenSeq(ps), u, Frame(m))
    BY <1>2, <2>1, Assoc
  <2>4. bs \o Frame(m) = FlattenSeq(qs)
    BY <1>1, <2>2, <2>3 DEF Regroups
  <2> HIDE DEF B, p
  <2>5. /\ n \in Nat /\ qs \in Seq(B) /\ Len(qs) = n + 1 /\ Len(ns) = n + 1
        /\ (\A i \in 1 .. n : qs[i] = ps[i] /\ ns[i] = ms[i]) /\ qs[n + 1] = p /\ ns[n + 1] = m
    <3>1. ps \in Seq(B) /\ ms \in Seq(B) /\ p \in B /\ m \in B
      BY <2>1 DEF B
    <3> QED
      BY <1>1, <3>1
  <2> HIDE DEF qs, ns
  <2>6. ASSUME NEW i \in 1 .. n + 1 PROVE qs[i] \in Padded(end, ns[i])
    <3>1. i \in 1 .. n \/ i = n + 1
      BY <2>5
    <3> QED
      BY <1>1, <2>1, <2>5, <3>1
  <2>7. FlattenSeq(qs) \in Seq(Byte)
    BY <2>5, FlattenType DEF B
  <2>8. FlattenSeq(qs) \o <<>> = FlattenSeq(qs)
    BY <2>7, ConcatEmptySeq
  <2>9. <<>> \in Idle(end)
    BY IdleMore
  <2>10. Stream(end, bs \o Frame(m), ns)
    BY <2>4, <2>5, <2>6, <2>8, <2>9 DEF Stream, B
  <2> QED
    BY <2>10 DEF ns
<1> QED
  BY <1>3, <1>4

\* The first frame, and what follows it.
LEMMA StreamHead ==
  ASSUME NEW end, NEW bs, NEW ms \in Seq(Seq(Byte)), Stream(end, bs, ms)
  PROVE  /\ ms = <<>> => bs \in Idle(end)
         /\ ms # <<>> => \E v \in Idle(end), cs \in Seq(Byte) :
                           bs = (v \o Frame(Head(ms))) \o cs /\ Stream(end, cs, Tail(ms))
<1>1. PICK ps \in Seq(Seq(Byte)), u \in Idle(end) :
        /\ Len(ps) = Len(ms)
        /\ \A i \in 1 .. Len(ms) : ps[i] \in Padded(end, ms[i])
        /\ bs = FlattenSeq(ps) \o u
  BY DEF Stream
<1>2. u \in Seq(Byte)
  BY IdleBytes
<1>3. CASE ms = <<>>
  <2>1. Len(ps) = 0
    BY <1>1, <1>3
  <2>2. ps = <<>>
    BY <2>1
  <2>3. FlattenSeq(ps) = <<>>
    BY <2>2, FlattenType
  <2>4. <<>> \o u = u
    BY <1>2, ConcatEmptySeq
  <2> QED
    BY <1>1, <1>3, <2>3, <2>4
<1>4. CASE ms # <<>>
  <2> DEFINE qs == Tail(ps)
             ns == Tail(ms)
             n == Len(ms)
             B == Seq(Byte)
             cs == FlattenSeq(qs) \o u
  <2> HIDE DEF B, cs
  <2>1. /\ n \in Nat \ {0} /\ ps # <<>> /\ qs \in Seq(B) /\ Len(qs) = n - 1 /\ Len(ns) = n - 1
        /\ \A i \in 1 .. n - 1 : qs[i] = ps[i + 1] /\ ns[i] = ms[i + 1]
        /\ Head(ps) = ps[1] /\ Head(ms) = ms[1] /\ Head(ps) \in B
    <3>1. ps \in Seq(B) /\ ms \in Seq(B)
      BY DEF B
    <3>2. n \in Nat \ {0} /\ ps # <<>>
      BY <1>1, <1>4, <3>1
    <3> QED
      BY <1>1, <1>4, <3>1, <3>2
  <2>2. FlattenSeq(ps) = Head(ps) \o FlattenSeq(qs)
    BY <2>1, FlattenHead
  <2> HIDE DEF qs, ns, n
  <2>3. FlattenSeq(qs) \in Seq(Byte)
    BY <2>1, FlattenType DEF B
  <2>4. Regroups(Head(ps), FlattenSeq(qs), u)
    BY <1>2, <2>1, <2>3, Assoc DEF B
  <2>5. bs = Head(ps) \o cs
    BY <1>1, <2>2, <2>4 DEF Regroups, cs
  <2>6. ASSUME NEW i \in 1 .. n - 1 PROVE qs[i] \in Padded(end, ns[i])
    <3>1. i + 1 \in 1 .. n
      BY <2>1
    <3>2. ps[i + 1] \in Padded(end, ms[i + 1])
      BY <1>1, <3>1 DEF n
    <3> QED
      BY <2>1, <3>2
  <2>7. Stream(end, cs, ns)
    BY <2>1, <2>6 DEF Stream, cs, B
  <2>8. 1 \in 1 .. n
    BY <2>1
  <2>9. Head(ps) \in Padded(end, Head(ms))
    BY <1>1, <2>1, <2>8 DEF n
  <2>10. PICK v \in Idle(end) : Head(ps) = v \o Frame(Head(ms))
    BY <2>9 DEF Padded
  <2>11. cs \in Seq(Byte)
    BY <2>7, StreamBytes
  <2> QED
    BY <1>4, <2>5, <2>7, <2>10, <2>11 DEF ns
<1> QED
  BY <1>3, <1>4

\* A frame put in front of a stream.
LEMMA StreamCons ==
  ASSUME NEW end, NEW cs, NEW ms \in Seq(Seq(Byte)), ms # <<>>, Stream(end, cs, Tail(ms)),
         NEW v \in Idle(end)
  PROVE  Stream(end, (v \o Frame(Head(ms))) \o cs, ms)
<1> DEFINE ns == Tail(ms)
           m == Head(ms)
           n == Len(ns)
           p == v \o Frame(m)
           B == Seq(Byte)
<1>1. PICK ps \in Seq(Seq(Byte)), u \in Idle(end) :
        /\ Len(ps) = Len(ns)
        /\ \A i \in 1 .. Len(ns) : ps[i] \in Padded(end, ns[i])
        /\ cs = FlattenSeq(ps) \o u
  BY DEF Stream
<1> DEFINE qs == <<p>> \o ps
<1>2. m \in B /\ ns \in Seq(B) /\ Len(ms) = n + 1 /\ n \in Nat /\ m = ms[1]
      /\ \A i \in 1 .. n : ns[i] = ms[i + 1]
  <2> HIDE DEF B
  <2>1. ms \in Seq(B)
    BY DEF B
  <2> QED
    BY <2>1
<1>3. p \in Padded(end, m) /\ p \in B
  BY <1>2, PaddedBytes
<1> HIDE DEF p, m, ns
<1>4. /\ qs \in Seq(B) /\ Len(qs) = n + 1 /\ qs[1] = p /\ Head(qs) = p /\ Tail(qs) = ps /\ qs # <<>>
      /\ \A i \in 1 .. n : qs[i + 1] = ps[i]
  <2> HIDE DEF B
  <2>1. ps \in Seq(B) /\ <<p>> \in Seq(B) /\ Len(<<p>>) = 1 /\ <<p>>[1] = p
    BY <1>3 DEF B
  <2>2. qs \in Seq(B) /\ Len(qs) = n + 1 /\ qs[1] = p /\ \A i \in 1 .. n : qs[i + 1] = ps[i]
    <3>1. qs \in Seq(B) /\ Concats(qs, <<p>>, ps)
      BY <2>1, ConcatElements
    <3>2. n = Len(ps) /\ n \in Nat
      BY <1>1, <1>2
    <3> HIDE DEF n, qs
    <3>3. Len(qs) = 1 + n
      BY <2>1, <3>1, <3>2 DEF Concats
    <3>4. qs[1] = p
      BY <2>1, <3>1 DEF Concats
    <3>5. \A i \in 1 .. n : qs[1 + i] = ps[i]
      BY <2>1, <3>1, <3>2 DEF Concats
    <3> QED
      BY <3>1, <3>2, <3>3, <3>4, <3>5
  <2> HIDE DEF qs
  <2>3. qs # <<>> /\ Head(qs) = p
    BY <1>2, <2>2
  <2>4. Tail(qs) \in Seq(B) /\ Len(Tail(qs)) = n /\ \A i \in 1 .. n : Tail(qs)[i] = ps[i]
    BY <1>2, <2>2, <2>3
  <2>5. Len(ps) = n
    BY <1>1
  <2>6. Tail(qs) = ps
    <3> DEFINE t == Tail(qs)
    <3> HIDE DEF t
    <3>1. t \in Seq(B) /\ Len(t) = Len(ps) /\ \A i \in 1 .. Len(t) : t[i] = ps[i]
      BY <2>4, <2>5 DEF t
    <3>2. t = ps
      BY <2>1, <3>1, SeqEqual
    <3> QED
      BY <3>2 DEF t
  <2> QED
    BY <2>2, <2>3, <2>6
<1> HIDE DEF qs
<1>5. FlattenSeq(qs) = p \o FlattenSeq(ps)
  BY <1>4, FlattenHead
<1>6. FlattenSeq(ps) \in Seq(Byte) /\ u \in Seq(Byte)
  BY FlattenType, IdleBytes
<1>7. Regroups(p, FlattenSeq(ps), u)
  BY <1>3, <1>6, Assoc
<1>8. p \o cs = FlattenSeq(qs) \o u
  BY <1>1, <1>5, <1>7 DEF Regroups
<1>9. ASSUME NEW i \in 1 .. n + 1 PROVE qs[i] \in Padded(end, ms[i])
  <2>1. i = 1 \/ (i - 1 \in 1 .. n /\ (i - 1) + 1 = i)
    BY <1>2
  <2>2. CASE i = 1
    BY <1>2, <1>3, <1>4, <2>2
  <2>3. CASE i - 1 \in 1 .. n /\ (i - 1) + 1 = i
    <3>1. qs[i] = ps[i - 1] /\ ms[i] = ns[i - 1]
      BY <1>2, <1>4, <2>3
    <3> QED
      BY <1>1, <2>3, <3>1
  <2> QED
    BY <2>1, <2>2, <2>3
<1>10. Stream(end, p \o cs, ms)
  BY <1>2, <1>4, <1>8, <1>9 DEF Stream
<1> QED
  BY <1>10 DEF p, m

\* A suffix of a token followed by the bytes to come.
Cut(S, t, n) ==
  /\ From(t, n + 1) \in Seq(S) /\ Len(From(t, n + 1)) = Len(t) - n
  /\ \A i \in 1 .. Len(t) - n : From(t, n + 1)[i] = t[n + i]
  /\ SubSeq(t, 1, n) \in Seq(S) /\ Len(SubSeq(t, 1, n)) = n
  /\ SubSeq(t, 1, n) \o From(t, n + 1) = t

\* A sequence cut after its first n elements, alone and with more behind it.
LEMMA FromConcat ==
  ASSUME NEW S, NEW t \in Seq(S), NEW b \in Seq(S), NEW n \in 0 .. Len(t)
  PROVE  Cut(S, t, n) /\ From(t \o b, n + 1) = From(t, n + 1) \o b
<1> DEFINE a == SubSeq(t, 1, n)
           w == From(t, n + 1)
           none == <<>>
           X == t \o b
           z == w \o b
<1>1. a \in Seq(S) /\ Len(a) = n
  OBVIOUS
<1>2. w \in Seq(S) /\ Len(w) = Len(t) - n /\ \A i \in 1 .. Len(t) - n : w[i] = t[n + i]
  BY SMTT(30) DEF From
<1>3. a \o w = t
  <2>1. 1 \in 1 .. Len(t) + 1 /\ n \in 1 - 1 .. Len(t) /\ Len(t) \in n .. Len(t)
    OBVIOUS
  <2>2. SubSeq(t, 1, n) \o SubSeq(t, n + 1, Len(t)) = SubSeq(t, 1, Len(t))
    BY <2>1, ConcatAdjacentSubSeq
  <2>3. SubSeq(t, 1, Len(t)) = t
    BY SubSeqFull
  <2> QED
    BY <2>2, <2>3 DEF From
<1> HIDE DEF a, w
<1>4. Regroups(a, w, b)
  BY <1>1, <1>2, Assoc
<1>5. X = a \o z
  BY <1>3, <1>4 DEF Regroups
<1>6. z \in Seq(S) /\ X \in Seq(S)
  BY <1>2, ConcatElements
<1>7. none \in Seq(S) /\ X \o none = X
  BY <1>6, ConcatEmptySeq
<1> HIDE DEF X, z, none
<1>8. Overlaps(S, X, none, a, z) /\ From(X, n + 1) \in Seq(S)
  <2>1. Joined(X, none, a, z) /\ Len(a) <= Len(X)
    <3>1. Concats(X, a, z) /\ Len(a) \in Nat /\ Len(z) \in Nat
      BY <1>1, <1>5, <1>6, ConcatElements
    <3> QED
      BY <1>5, <1>7, <3>1 DEF Concats, Joined
  <2> QED
    <3>1. Overlaps(S, X, none, a, z)
      BY <1>1, <1>6, <1>7, <2>1, Overlap
    <3> QED
      BY <1>1, <3>1 DEF Overlaps
<1>9. z = From(X, n + 1) \o none
  BY <1>1, <1>8 DEF Overlaps
<1>10. From(X, n + 1) \o <<>> = From(X, n + 1)
  BY <1>8, ConcatEmptySeq
<1>11. From(X, n + 1) = z
  BY <1>9, <1>10 DEF none
<1> QED
  BY <1>1, <1>2, <1>3, <1>11 DEF X, z, a, w, Cut

\* A digit comes first in a frame and its newline after the digits.
StartsWith(X, d, m, cs) ==
  /\ d \in Seq(Digit) /\ Len(d) \in Nat \ {0} /\ X \in Seq(Byte)
  /\ \A i \in 1 .. Len(d) : X[i] = d[i] /\ X[i] \in Digit
  /\ Len(X) > Len(d) /\ X[Len(d) + 1] = Newline
  /\ X = (d \o <<Newline>>) \o (m \o cs)

\* Every frame, with whatever follows it, starts like that.
LEMMA FrameStarts ==
  ASSUME NEW m \in Seq(Byte), NEW cs \in Seq(Byte), NEW X, X = Frame(m) \o cs
  PROVE  StartsWith(X, ToDigits[Len(m)], m, cs)
<1> DEFINE d == ToDigits[Len(m)]
           e == <<Newline>>
           h == d \o e
<1>1. /\ d \in Seq(Digit) /\ d \in Seq(Byte) /\ h \in Seq(Byte) /\ Frame(m) = h \o m
  BY FrameShape
<1>2. Len(m) \in Nat
  OBVIOUS
<1>3. d # <<>>
  BY <1>2, DigitsAreRead
<1> HIDE DEF d
<1>4. Len(d) \in Nat \ {0} /\ (\A i \in 1 .. Len(d) : d[i] \in Digit)
  BY <1>1, <1>3
<1>5. e \in Seq(Byte) /\ Len(e) = 1 /\ e[1] = Newline
  BY Symbols
<1> HIDE DEF e
<1>6. Concats(h, d, e)
  BY <1>1, <1>5, ConcatElements
<1> HIDE DEF h
<1>7. Len(h) = Len(d) + 1 /\ (\A i \in 1 .. Len(d) : h[i] = d[i]) /\ h[Len(d) + 1] = Newline
  BY <1>5, <1>6 DEF Concats
<1>8. Regroups(h, m, cs)
  BY <1>1, Assoc
<1>9. X = h \o (m \o cs)
  BY <1>1, <1>8 DEF Regroups
<1>10. m \o cs \in Seq(Byte)
  BY ConcatElements
<1>11. X \in Seq(Byte) /\ Concats(X, h, m \o cs)
  BY <1>1, <1>9, <1>10, ConcatElements
<1>12. \A i \in 1 .. Len(d) + 1 : X[i] = h[i]
  BY <1>7, <1>11 DEF Concats
<1>13. (\A i \in 1 .. Len(d) : i \in 1 .. Len(d) + 1) /\ Len(d) + 1 \in 1 .. Len(d) + 1
  BY <1>4
<1>14. (\A i \in 1 .. Len(d) : X[i] = d[i] /\ X[i] \in Digit) /\ X[Len(d) + 1] = Newline
  BY <1>4, <1>7, <1>12, <1>13
<1>15. Len(X) > Len(d)
  <2>1. Len(m \o cs) \in Nat
    BY <1>10
  <2> QED
    BY <1>4, <1>7, <1>11, <2>1 DEF Concats
<1> QED
  BY <1>1, <1>4, <1>9, <1>11, <1>14, <1>15 DEF d, e, h, StartsWith

\* Idle bytes that come first may be dropped.
LEMMA StreamDrop ==
  ASSUME NEW end, NEW X \in Seq(Byte), NEW ms \in Seq(Seq(Byte)), Stream(end, X, ms),
         NEW n \in 0 .. Len(X), \A i \in 1 .. n : X[i] = KeepAlive
  PROVE  Stream(end, From(X, n + 1), ms)
<1>1. CASE ms = <<>>
  <2>1. X \in Idle(end)
    BY <1>1, StreamHead
  <2>2. From(X, n + 1) \in Idle(end)
    BY <2>1, IdleBytes
  <2> QED
    BY <1>1, <2>2, StreamIdle
<1>2. CASE ms # <<>>
  <2>1. PICK v \in Idle(end), cs \in Seq(Byte) :
          X = (v \o Frame(Head(ms))) \o cs /\ Stream(end, cs, Tail(ms))
    BY <1>2, StreamHead
  <2> DEFINE m == Head(ms)
             y == Frame(m) \o cs
             w == From(v, n + 1)
  <2>2. m \in Seq(Byte)
    BY <1>2
  <2> HIDE DEF m
  <2>3. v \in Seq(Byte) /\ Frame(m) \in Seq(Byte) /\ \A i \in 1 .. Len(v) : v[i] = KeepAlive
    BY <2>2, IdleBytes, FrameShape
  <2>4. Regroups(v, Frame(m), cs)
    BY <2>3, Assoc
  <2>5. X = v \o y
    BY <2>1, <2>4 DEF Regroups, m
  <2>6. y \in Seq(Byte) /\ Len(y) \in Nat \ {0} /\ y[1] # KeepAlive
    <3> DEFINE d == ToDigits[Len(m)]
    <3>1. StartsWith(y, d, m, cs)
      BY <2>2, FrameStarts
    <3> HIDE DEF y, d
    <3>2. y \in Seq(Byte) /\ y[1] \in Digit /\ Len(y) \in Nat \ {0}
      BY <3>1 DEF StartsWith
    <3> QED
      BY <3>2, Symbols
  <2> HIDE DEF y
  <2>7. Concats(X, v, y)
    BY <2>3, <2>5, <2>6, ConcatElements
  <2>8. n <= Len(v)
    <3>1. Len(v) \in Nat /\ Len(X) = Len(v) + Len(y) /\ X[Len(v) + 1] = y[1]
      <4>1. Len(v) \in Nat /\ 1 \in 1 .. Len(y)
        BY <2>3, <2>6
      <4>2. Len(X) = Len(v) + Len(y) /\ \A i \in 1 .. Len(y) : X[Len(v) + i] = y[i]
        BY <2>7 DEF Concats
      <4> QED
        BY <4>1, <4>2
    <3>2. ASSUME n > Len(v) PROVE FALSE
      <4>1. Len(v) + 1 \in 1 .. n
        BY <3>1, <3>2
      <4> QED
        BY <2>6, <3>1, <4>1
    <3> QED
      BY <3>1, <3>2
  <2>9. w \in Idle(end)
    <3>1. n \in 0 .. Len(v)
      BY <2>3, <2>8
    <3> QED
      BY <3>1, IdleBytes
  <2>10. From(X, n + 1) = w \o y
    <3>1. n \in 0 .. Len(v)
      BY <2>3, <2>8
    <3> QED
      BY <2>3, <2>5, <2>6, <3>1, FromConcat
  <2>11. Regroups(w, Frame(m), cs)
    <3>1. w \in Seq(Byte)
      BY <2>9, IdleBytes
    <3> QED
      BY <2>3, <3>1, Assoc
  <2>12. From(X, n + 1) = (w \o Frame(m)) \o cs
    BY <2>10, <2>11 DEF Regroups, y
  <2>13. Stream(end, (w \o Frame(Head(ms))) \o cs, ms)
    <3> HIDE DEF w
    <3> QED
      BY <1>2, <2>1, <2>9, StreamCons
  <2> QED
    BY <2>12, <2>13 DEF m
<1> QED
  BY <1>1, <1>2

\* SkipKeepAlives takes nothing but keepalives off the stream.
LEMMA SkipHolds ==
  ASSUME NEW end, NEW t \in Seq(Byte), NEW bs \in Seq(Byte), NEW ms \in Seq(Seq(Byte)),
         Stream(end, t \o bs, ms)
  PROVE  LET s == From(t, Leading(t, {KeepAlive}) + 1)
         IN  /\ s \in Seq(Byte) /\ Len(s) <= Len(t) /\ Stream(end, s \o bs, ms)
             /\ s # <<>> => s[1] # KeepAlive
<1> DEFINE n == Leading(t, {KeepAlive})
           s == From(t, n + 1)
           X == t \o bs
<1>1. n \in 0 .. Len(t) /\ (\A i \in 1 .. n : t[i] \in {KeepAlive}) /\ (n < Len(t) => t[n + 1] \notin {KeepAlive})
  BY LeadingIs
<1> HIDE DEF n
<1>2. Cut(Byte, t, n) /\ From(X, n + 1) = s \o bs
  BY <1>1, FromConcat
<1>7. /\ s \in Seq(Byte) /\ Len(s) = Len(t) - n /\ (\A i \in 1 .. Len(t) - n : s[i] = t[n + i])
  BY <1>2 DEF Cut
<1>8. Len(t) \in Nat /\ n \in Nat /\ n <= Len(t) /\ Len(t) - n \in Nat /\ Len(t) - n <= Len(t)
  BY <1>1
<1>3. X \in Seq(Byte) /\ Concats(X, t, bs) /\ Len(t) \in Nat /\ Len(bs) \in Nat
  BY ConcatElements
<1> HIDE DEF s, X
<1>4. n \in 0 .. Len(X) /\ \A i \in 1 .. n : X[i] = KeepAlive
  <2>1. Len(X) = Len(t) + Len(bs) /\ \A i \in 1 .. Len(t) : X[i] = t[i]
    BY <1>3 DEF Concats
  <2>2. n \in 0 .. Len(X) /\ \A i \in 1 .. n : i \in 1 .. Len(t)
    BY <1>3, <1>8, <2>1
  <2> QED
    BY <1>1, <2>1, <2>2
<1>5. Stream(end, From(X, n + 1), ms)
  BY <1>3, <1>4, StreamDrop DEF X
<1>6. ASSUME s # <<>> PROVE s[1] # KeepAlive
  <2>1. Len(s) \in Nat \ {0}
    BY <1>6, <1>7
  <2>2. n < Len(t) /\ 1 \in 1 .. Len(t) - n
    BY <1>7, <1>8, <2>1
  <2>3. s[1] = t[n + 1]
    BY <1>7, <2>2
  <2> QED
    BY <1>1, <2>2, <2>3
<1>9. Len(s) <= Len(t)
  BY <1>7, <1>8
<1>10. Stream(end, s \o bs, ms)
  BY <1>2, <1>5
<1> QED
  BY <1>6, <1>7, <1>9, <1>10 DEF s, n

\* The first e bytes of t are the length line of the first message.
SizeRead(end, t, bs, ms, e) ==
  /\ ms # <<>> /\ e \in 1 .. Len(t)
  /\ SubSeq(t, 1, e - 1) = ToDigits[Len(Head(ms))]
  /\ From(t, e + 1) \in Seq(Byte) /\ Len(From(t, e + 1)) + 2 <= Len(t)
  /\ \E cs \in Seq(Byte) : From(t, e + 1) \o bs = Head(ms) \o cs /\ Stream(end, cs, Tail(ms))

\* A newline in the token ends the length line of the first message.
LEMMA SizeHolds ==
  ASSUME NEW end, NEW t \in Seq(Byte), NEW bs \in Seq(Byte), NEW ms \in Seq(Seq(Byte)),
         Stream(end, t \o bs, ms), NEW j \in 1 .. Len(t), t[j] = Newline,
         end = "server" => t[1] # KeepAlive
  PROVE  SizeRead(end, t, bs, ms, SelectInSeq(t, LAMBDA b : b = Newline))
<1> DEFINE X == t \o bs
<1>1. X \in Seq(Byte) /\ Concats(X, t, bs) /\ Len(t) \in Nat
  BY ConcatElements
<1> HIDE DEF X
<1>2. X[j] = Newline /\ 1 \in 1 .. Len(t) /\ X[1] = t[1] /\ \A i \in 1 .. Len(t) : X[i] = t[i]
  BY <1>1 DEF Concats
<1>3. ms # <<>>
  <2>1. SUFFICES ASSUME ms = <<>> PROVE FALSE
    OBVIOUS
  <2>2. X \in Idle(end)
    BY <2>1, StreamHead DEF X
  <2>3. \A i \in 1 .. Len(X) : X[i] = KeepAlive
    BY <2>2, IdleBytes
  <2>4. j \in 1 .. Len(X)
    BY <1>1 DEF Concats
  <2> QED
    BY <1>2, <2>3, <2>4, Symbols
<1>4. PICK v \in Idle(end), cs \in Seq(Byte) :
        X = (v \o Frame(Head(ms))) \o cs /\ Stream(end, cs, Tail(ms))
  BY <1>3, StreamHead DEF X
<1> DEFINE m == Head(ms)
           d == ToDigits[Len(m)]
           nl == <<Newline>>
           h == d \o nl
<1>5. m \in Seq(Byte)
  BY <1>3
<1> HIDE DEF m
<1>6. Frame(m) \in Seq(Byte) /\ h \in Seq(Byte) /\ d \in Seq(Byte)
  BY <1>5, FrameShape
<1>7. v = <<>>
  <2>1. CASE end # "server"
    BY <2>1, IdleBytes
  <2>2. CASE end = "server"
    <3>1. SUFFICES ASSUME v # <<>> PROVE FALSE
      OBVIOUS
    <3>2. v \in Seq(Byte) /\ (\A i \in 1 .. Len(v) : v[i] = KeepAlive)
      BY IdleBytes
    <3>3. 1 \in 1 .. Len(v)
      BY <3>1, <3>2
    <3>4. Regroups(v, Frame(m), cs) /\ Frame(m) \o cs \in Seq(Byte)
      BY <1>6, <3>2, Assoc, ConcatElements
    <3>5. Concats(X, v, Frame(m) \o cs)
      <4>1. X = v \o (Frame(m) \o cs)
        BY <1>4, <3>4 DEF Regroups, m
      <4> QED
        BY <3>2, <3>4, <4>1, ConcatElements
    <3>6. X[1] = KeepAlive
      BY <3>2, <3>3, <3>5 DEF Concats
    <3> QED
      BY <1>2, <2>2, <3>6
  <2> QED
    BY <2>1, <2>2
<1>8. X = Frame(m) \o cs
  <2>1. <<>> \o Frame(m) = Frame(m)
    BY <1>6, ConcatEmptySeq
  <2> QED
    BY <1>4, <1>7, <2>1 DEF m
<1>9. /\ d \in Seq(Digit) /\ Len(d) \in Nat \ {0}
      /\ \A i \in 1 .. Len(d) : X[i] = d[i] /\ X[i] \in Digit
      /\ X[Len(d) + 1] = Newline
      /\ X = (d \o <<Newline>>) \o (m \o cs)
  <2>1. StartsWith(X, d, m, cs)
    BY <1>5, <1>8, FrameStarts
  <2> QED
    BY <2>1 DEF StartsWith
<1> DEFINE e == SelectInSeq(t, LAMBDA b : b = Newline)
           I == {i \in 1 .. Len(t) : t[i] = Newline}
<1>10. e = Min(I) /\ I \subseteq Nat /\ I # {}
  <2>1. j \in I
    OBVIOUS
  <2>2. \A i \in I : i \in Nat
    BY <1>1
  <2> QED
    BY <2>1, <2>2 DEF SelectInSeq
<1> HIDE DEF e, d, h
<1>11. e \in I /\ \A y \in I : e =< y
  <2> HIDE DEF I
  <2> QED
    BY <1>10, NatMin
<1>12. e = Len(d) + 1
  <2>1. e \in 1 .. Len(t) /\ X[e] = Newline
    BY <1>2, <1>11
  <2>2. e \notin 1 .. Len(d)
    BY <1>9, <2>1, Symbols
  <2>3. Len(d) + 1 \in 1 .. Len(t)
    BY <1>1, <1>9, <2>1, <2>2
  <2>4. t[Len(d) + 1] = Newline
    BY <1>2, <1>9, <2>3
  <2>5. Len(d) + 1 \in I
    BY <2>3, <2>4
  <2> QED
    BY <1>9, <1>11, <2>1, <2>2, <2>5
<1>13. nl \in Seq(Byte) /\ Len(nl) = 1
  BY Symbols
<1> HIDE DEF nl
<1>14. Concats(h, d, nl)
  BY <1>6, <1>13, ConcatElements DEF h
<1>15. Len(h) = e
  BY <1>9, <1>12, <1>13, <1>14 DEF Concats
<1>16. m \o cs \in Seq(Byte) /\ X = h \o (m \o cs)
  BY <1>5, <1>9, ConcatElements DEF h, nl
<1>17. e \in 1 .. Len(t)
  BY <1>11
<1>18. Overlaps(Byte, t, bs, h, m \o cs)
  <2> DEFINE y == m \o cs
  <2>1. y \in Seq(Byte) /\ Joined(t, bs, h, y) /\ Len(h) <= Len(t)
    BY <1>15, <1>16, <1>17 DEF X, Joined
  <2> HIDE DEF y
  <2>2. Overlaps(Byte, t, bs, h, y)
    BY <1>6, <2>1, Overlap
  <2> QED
    BY <2>2 DEF y
<1>19. From(t, e + 1) \o bs = m \o cs
  BY <1>15, <1>18 DEF Overlaps
<1>20. From(t, e + 1) \in Seq(Byte) /\ Len(From(t, e + 1)) + 2 <= Len(t)
  BY <1>1, <1>9, <1>12, <1>15, <1>17, <1>18 DEF Overlaps
<1>21. SubSeq(t, 1, e - 1) = d
  <2> DEFINE s == SubSeq(t, 1, e - 1)
  <2>1. e - 1 = Len(d) /\ e - 1 \in Nat /\ e - 1 <= Len(t)
    BY <1>9, <1>12, <1>17, <1>1
  <2>2. s \in Seq(Byte) /\ Len(s) = Len(d) /\ \A i \in 1 .. Len(d) : s[i] = t[i]
    BY <2>1
  <2> HIDE DEF s
  <2>3. \A i \in 1 .. Len(d) : s[i] = d[i]
    <3>1. \A i \in 1 .. Len(d) : i \in 1 .. Len(t)
      BY <1>1, <2>1
    <3> QED
      BY <1>2, <1>9, <2>2, <3>1
  <2>4. s = d
    BY <1>6, <2>2, <2>3, SeqEqual
  <2> QED
    BY <2>4 DEF s
<1>22. SizeRead(end, t, bs, ms, e)
  BY <1>3, <1>4, <1>17, <1>19, <1>20, <1>21 DEF m, d, SizeRead
<1> QED
  BY <1>22 DEF e

-------------------------------------------------------------------------------
(* Parsers and the bytes on their way to them. *)

\* In the given state, the token and the bytes to come are those of the messages ms.
HeldIn(end, state, t, size, bs, ms) ==
  \/ /\ state = "READING_HANDSHAKE" /\ end = "client"
     /\ \E cs \in Seq(Byte) : Joined(t, bs, Handshake, cs) /\ Stream(end, cs, ms)
  \/ /\ state = "READING_SIZE"
     /\ Stream(end, t \o bs, ms)
  \/ /\ state = "READING_MESSAGE" /\ ms # <<>> /\ size = Len(Head(ms))
     /\ \E cs \in Seq(Byte) : Joined(t, bs, Head(ms), cs) /\ Stream(end, cs, Tail(ms))

\* The parser p of one end, and the bytes bs on their way to it, hold the messages ms.
Holds(end, p, bs, ms) ==
  /\ p \in Parser /\ bs \in Seq(Byte) /\ ms \in Seq(Seq(Byte))
  /\ HeldIn(end, p.state, p.m_cur_token, p.m_size, bs, ms)

\* parse() can do nothing before more bytes come.
Waiting(p) ==
  /\ ~ p.got
  /\ p.state = "READING_HANDSHAKE" => Len(p.m_cur_token) < Len(Handshake)
  /\ p.state = "READING_SIZE" => Newline \notin Range(p.m_cur_token)
  /\ p.state = "READING_MESSAGE" => Len(p.m_cur_token) < p.m_size

\* The stage of parse() before the length.
FirstStage(end, p) == IF end = "server" THEN SkipKeepAlives(p) ELSE ReadHandshake(p)

\* What the first stage of parse() leaves for the next ones.
Started(end, p, q) ==
  /\ q.got = p.got
  /\ Len(q.m_cur_token) <= Len(p.m_cur_token)
  /\ p.state = "READING_MESSAGE" => q = p
  /\ q.state = "READING_MESSAGE" => q = p
  /\ end = "server" /\ q.state = "READING_SIZE" /\ q.m_cur_token # <<>>
       => q.m_cur_token[1] # KeepAlive
  /\ q.state = "READING_HANDSHAKE" => Len(q.m_cur_token) < Len(Handshake)

\* SkipKeepAlives loses no message.
LEMMA StageSkip ==
  ASSUME NEW p, NEW bs, NEW ms, Holds("server", p, bs, ms)
  PROVE  Holds("server", SkipKeepAlives(p), bs, ms) /\ Started("server", p, SkipKeepAlives(p))
<1>1. p \in Parser /\ bs \in Seq(Byte) /\ ms \in Seq(Seq(Byte))
      /\ HeldIn("server", p.state, p.m_cur_token, p.m_size, bs, ms)
  BY DEF Holds
<1>2. p.m_cur_token \in Seq(Byte) /\ p.state # "READING_HANDSHAKE"
  BY <1>1 DEF Parser, HeldIn
<1>3. CASE p.state = "READING_SIZE"
  <2> DEFINE t == p.m_cur_token
             s == From(t, Leading(t, {KeepAlive}) + 1)
             q == [p EXCEPT !.m_cur_token = s]
  <2>1. Stream("server", t \o bs, ms)
    BY <1>1, <1>3 DEF HeldIn
  <2>2. /\ s \in Seq(Byte) /\ Len(s) <= Len(t) /\ Stream("server", s \o bs, ms)
        /\ s # <<>> => s[1] # KeepAlive
    <3> HIDE DEF t
    <3>1. t \in Seq(Byte)
      BY <1>2 DEF t
    <3> QED
      BY <1>1, <2>1, <3>1, SkipHolds
  <2> HIDE DEF s
  <2>3. SkipKeepAlives(p) = q
    BY <1>3 DEF SkipKeepAlives, s
  <2>4. /\ q \in Parser /\ q.state = "READING_SIZE" /\ q.got = p.got /\ q.m_cur_token = s
        /\ q.m_size = p.m_size
    BY <1>1, <1>3, <2>2 DEF Parser
  <2> HIDE DEF q, t
  <2>5. Holds("server", q, bs, ms)
    BY <1>1, <2>2, <2>4 DEF Holds, HeldIn
  <2>6. Started("server", p, q)
    BY <1>3, <2>2, <2>4 DEF Started, t
  <2> QED
    BY <2>3, <2>5, <2>6
<1>4. CASE p.state # "READING_SIZE"
  <2>1. SkipKeepAlives(p) = p
    BY <1>4 DEF SkipKeepAlives
  <2>2. Len(p.m_cur_token) <= Len(p.m_cur_token)
    BY <1>2
  <2>3. Started("server", p, p)
    BY <1>2, <1>4, <2>2 DEF Started
  <2> QED
    BY <2>1, <2>3
<1> QED
  BY <1>3, <1>4

\* ReadHandshake loses no message, and finds the handshake.
LEMMA StageHandshake ==
  ASSUME NEW p, NEW bs, NEW ms, Holds("client", p, bs, ms)
  PROVE  Holds("client", ReadHandshake(p), bs, ms) /\ Started("client", p, ReadHandshake(p))
<1>1. p \in Parser /\ bs \in Seq(Byte) /\ ms \in Seq(Seq(Byte))
      /\ HeldIn("client", p.state, p.m_cur_token, p.m_size, bs, ms)
  BY DEF Holds
<1> DEFINE t == p.m_cur_token
           n == Len(Handshake)
<1>2. t \in Seq(Byte) /\ Len(t) \in Nat
  BY <1>1 DEF Parser
<1>3. Handshake \in Seq(Byte) /\ n \in Nat
  BY Symbols
<1>4. CASE p.state = "READING_HANDSHAKE" /\ Len(t) >= n
  <2> DEFINE s == From(t, n + 1)
             q == [p EXCEPT !.m_cur_token = s, !.state = "READING_SIZE"]
  <2>1. PICK cs \in Seq(Byte) : Joined(t, bs, Handshake, cs) /\ Stream("client", cs, ms)
    BY <1>1, <1>4 DEF HeldIn
  <2>2. Overlaps(Byte, t, bs, Handshake, cs)
    <3> HIDE DEF t
    <3> QED
      BY <1>1, <1>2, <1>3, <1>4, <2>1, Overlap
  <2>3. s \in Seq(Byte) /\ Len(s) = Len(t) - n /\ SubSeq(t, 1, n) = Handshake /\ cs = s \o bs
    BY <2>2 DEF Overlaps
  <2>4. IsPrefix(Handshake, t)
    <3>1. SubSeq(Handshake, 1, n) = Handshake
      BY <1>3, SubSeqFull
    <3> QED
      BY <1>2, <1>3, <1>4, <2>3, <3>1 DEF IsPrefix
  <2>5. ReadHandshake(p) = q
    BY <1>4, <2>4 DEF ReadHandshake
  <2> HIDE DEF s
  <2>6. /\ q \in Parser /\ q.state = "READING_SIZE" /\ q.got = p.got /\ q.m_cur_token = s
        /\ q.m_size = p.m_size
    BY <1>1, <2>3 DEF Parser, States
  <2> HIDE DEF q
  <2>7. Holds("client", q, bs, ms)
    BY <1>1, <2>1, <2>3, <2>6 DEF Holds, HeldIn
  <2>8. Len(s) <= Len(t)
    BY <1>2, <1>3, <2>3
  <2>9. Started("client", p, q)
    BY <1>4, <2>6, <2>8 DEF Started
  <2> QED
    BY <2>5, <2>7, <2>9
<1>5. CASE ~ (p.state = "READING_HANDSHAKE" /\ Len(t) >= n)
  <2>1. ReadHandshake(p) = p
    BY <1>5 DEF ReadHandshake
  <2>2. Len(t) <= Len(t) /\ (p.state = "READING_HANDSHAKE" => Len(t) < n)
    BY <1>2, <1>3, <1>5
  <2>3. Started("client", p, p)
    BY <2>2 DEF Started
  <2> QED
    BY <2>1, <2>3
<1> QED
  BY <1>4, <1>5

\* Both of them, by the end that parses.
LEMMA StageFirst ==
  ASSUME NEW end \in {"client", "server"}, NEW p, NEW bs, NEW ms, Holds(end, p, bs, ms)
  PROVE  Holds(end, FirstStage(end, p), bs, ms) /\ Started(end, p, FirstStage(end, p))
<1>1. CASE end = "server"
  BY <1>1, StageSkip DEF FirstStage
<1>2. CASE end = "client"
  BY <1>2, StageHandshake DEF FirstStage
<1> QED
  BY <1>1, <1>2

\* What ReadSize does: it refuses a message that is too long, takes a length line off
\* the token, or finds none.
Sized(end, limit, p, q, bs, ms) ==
  \/ /\ q.state = "THROWN" /\ q \in Parser /\ q.got = p.got
     /\ ms # <<>> /\ Len(Head(ms)) > limit
  \/ /\ p.state = "READING_SIZE" /\ q.state = "READING_MESSAGE"
     /\ Holds(end, q, bs, ms) /\ q.got = p.got
     /\ Len(q.m_cur_token) + 2 <= Len(p.m_cur_token)
  \/ /\ q = p /\ (p.state = "READING_SIZE" => Newline \notin Range(p.m_cur_token))

\* ReadSize does one of these, and never reads a length that is no number.
LEMMA StageSize ==
  ASSUME NEW end, NEW p, NEW bs, NEW ms, Holds(end, p, bs, ms), NEW limit \in Nat,
         end = "server" /\ p.state = "READING_SIZE" /\ p.m_cur_token # <<>>
           => p.m_cur_token[1] # KeepAlive
  PROVE  Sized(end, limit, p, ReadSize(p, limit), bs, ms)
<1>1. p \in Parser /\ bs \in Seq(Byte) /\ ms \in Seq(Seq(Byte))
      /\ HeldIn(end, p.state, p.m_cur_token, p.m_size, bs, ms)
  BY DEF Holds
<1> DEFINE t == p.m_cur_token
<1>2. t \in Seq(Byte)
  BY <1>1 DEF Parser
<1>3. CASE p.state = "READING_SIZE" /\ Newline \in Range(t)
  <2> HIDE DEF t
  <2>1. PICK j \in 1 .. Len(t) : t[j] = Newline
    BY <1>2, <1>3 DEF Range
  <2>2. t # <<>> /\ Stream(end, t \o bs, ms)
    BY <1>1, <1>2, <1>3, <2>1 DEF HeldIn, t
  <2>3. end = "server" => t[1] # KeepAlive
    BY <1>3, <2>2 DEF t
  <2> DEFINE e == SelectInSeq(t, LAMBDA b : b = Newline)
             line == SubSeq(t, 1, e - 1)
             s == From(t, e + 1)
             size == LeadingNumber(line)
             m == Head(ms)
             verdict == IF Leading(line, Digit) = 0 THEN "UNDEFINED"
                        ELSE IF size > limit THEN "THROWN" ELSE "READING_MESSAGE"
             q == [p EXCEPT !.m_cur_token = s, !.m_size = size, !.state = verdict]
  <2>4. /\ ms # <<>> /\ line = ToDigits[Len(m)] /\ s \in Seq(Byte) /\ Len(s) + 2 <= Len(t)
        /\ \E cs \in Seq(Byte) : s \o bs = m \o cs /\ Stream(end, cs, Tail(ms))
    <3>1. SizeRead(end, t, bs, ms, e)
      BY <1>1, <1>2, <2>1, <2>2, <2>3, SizeHolds
    <3> HIDE DEF e
    <3> QED
      BY <3>1 DEF SizeRead
  <2>5. ReadSize(p, limit) = q
    BY <1>3 DEF ReadSize, t
  <2> HIDE DEF e, line, s, m
  <2>6. m \in Seq(Byte) /\ Len(m) \in Nat
    BY <1>1, <2>4 DEF m
  <2>7. line \in Seq(Digit) /\ line # <<>> /\ size = Len(m)
    BY <2>4, <2>6, DigitsAreRead
  <2>8. Leading(line, Digit) # 0
    <3>1. Len(line) \in Nat \ {0} /\ line[1] \in Digit
      BY <2>7
    <3>2. Leading(line, Digit) < Len(line) => line[Leading(line, Digit) + 1] \notin Digit
      BY <2>7, LeadingIs
    <3> QED
      BY <3>1, <3>2
  <2> HIDE DEF size
  <2>9. /\ q \in Parser /\ q.state = verdict /\ q.got = p.got /\ q.m_cur_token = s
        /\ q.m_size = Len(m) /\ verdict = (IF Len(m) > limit THEN "THROWN" ELSE "READING_MESSAGE")
    BY <1>1, <2>4, <2>6, <2>7, <2>8 DEF Parser, States
  <2> HIDE DEF q, verdict
  <2>10. CASE Len(m) > limit
    BY <2>4, <2>5, <2>9, <2>10 DEF Sized, m
  <2>11. CASE ~ (Len(m) > limit)
    <3>1. q.state = "READING_MESSAGE"
      BY <2>9, <2>11
    <3>2. HeldIn(end, q.state, q.m_cur_token, q.m_size, bs, ms)
      BY <2>4, <2>9, <3>1 DEF HeldIn, Joined, m
    <3>3. Holds(end, q, bs, ms)
      BY <1>1, <2>9, <3>2 DEF Holds
    <3>4. Len(q.m_cur_token) + 2 <= Len(p.m_cur_token)
      BY <2>4, <2>9 DEF t
    <3> QED
      BY <1>3, <2>5, <2>9, <3>1, <3>3, <3>4 DEF Sized
  <2> QED
    BY <2>10, <2>11
<1>4. CASE ~ (p.state = "READING_SIZE" /\ Newline \in Range(t))
  <2>1. ReadSize(p, limit) = p
    BY <1>4 DEF ReadSize
  <2> QED
    BY <1>4, <2>1 DEF Sized
<1> QED
  BY <1>3, <1>4

\* What ReadMessage does: it takes the first message off the token, or waits for it.
MessageRead(end, p, q, bs, ms) ==
  \/ /\ p.state = "READING_MESSAGE" /\ q.state = "READING_SIZE" /\ q.got
     /\ ms # <<>> /\ q.message = Head(ms)
     /\ Holds(end, q, bs, Tail(ms))
     /\ Len(q.m_cur_token) + p.m_size = Len(p.m_cur_token)
  \/ /\ q = p /\ (p.state = "READING_MESSAGE" => Len(p.m_cur_token) < p.m_size)

\* ReadMessage does one of these.
LEMMA StageMessage ==
  ASSUME NEW end, NEW p, NEW bs, NEW ms, Holds(end, p, bs, ms)
  PROVE  MessageRead(end, p, ReadMessage(p), bs, ms)
<1>1. p \in Parser /\ bs \in Seq(Byte) /\ ms \in Seq(Seq(Byte))
      /\ HeldIn(end, p.state, p.m_cur_token, p.m_size, bs, ms)
  BY DEF Holds
<1> DEFINE t == p.m_cur_token
           n == p.m_size
<1>2. t \in Seq(Byte) /\ Len(t) \in Nat /\ n \in Nat
  BY <1>1 DEF Parser
<1>3. CASE p.state = "READING_MESSAGE" /\ Len(t) >= n
  <2> DEFINE m == Head(ms)
             s == From(t, n + 1)
             q == [p EXCEPT !.message = SubSeq(t, 1, n), !.got = TRUE,
                            !.m_cur_token = s, !.state = "READING_SIZE"]
  <2>1. PICK cs \in Seq(Byte) : Joined(t, bs, m, cs) /\ Stream(end, cs, Tail(ms))
    BY <1>1, <1>3 DEF HeldIn
  <2>2. ms # <<>> /\ n = Len(m)
    BY <1>1, <1>3 DEF HeldIn
  <2>3. m \in Seq(Byte) /\ Tail(ms) \in Seq(Seq(Byte))
    BY <1>1, <2>2
  <2> HIDE DEF m
  <2>4. Overlaps(Byte, t, bs, m, cs)
    <3> HIDE DEF t, n
    <3> QED
      BY <1>1, <1>2, <1>3, <2>1, <2>2, <2>3, Overlap
  <2>5. s \in Seq(Byte) /\ Len(s) = Len(t) - n /\ SubSeq(t, 1, n) = m /\ cs = s \o bs
    BY <2>2, <2>4 DEF Overlaps
  <2>6. ReadMessage(p) = q
    BY <1>3 DEF ReadMessage
  <2> HIDE DEF s
  <2>7. /\ q \in Parser /\ q.state = "READING_SIZE" /\ q.got /\ q.m_cur_token = s /\ q.message = m
    BY <1>1, <2>3, <2>5 DEF Parser, States
  <2> HIDE DEF q
  <2>8. Holds(end, q, bs, Tail(ms))
    BY <1>1, <2>1, <2>3, <2>5, <2>7 DEF Holds, HeldIn
  <2>9. Len(q.m_cur_token) + p.m_size = Len(p.m_cur_token)
    BY <1>2, <2>5, <2>7
  <2> QED
    BY <1>3, <2>2, <2>6, <2>7, <2>8, <2>9 DEF MessageRead, m
<1>4. CASE ~ (p.state = "READING_MESSAGE" /\ Len(t) >= n)
  <2>1. ReadMessage(p) = p
    BY <1>4 DEF ReadMessage
  <2>2. p.state = "READING_MESSAGE" => Len(t) < n
    BY <1>2, <1>4
  <2> QED
    BY <2>1, <2>2 DEF MessageRead
<1> QED
  BY <1>3, <1>4

\* What one parse() of a parser without a message does.
Parsed(end, limit, p, q, bs, ms) ==
  \/ /\ q.state = "THROWN" /\ q \in Parser /\ ~ q.got
     /\ ms # <<>> /\ Len(Head(ms)) > limit
  \/ /\ Waiting(q) /\ Holds(end, q, bs, ms)
     /\ Len(q.m_cur_token) <= Len(p.m_cur_token)
  \/ /\ q.got /\ q.state = "READING_SIZE"
     /\ ms # <<>> /\ q.message = Head(ms)
     /\ Holds(end, q, bs, Tail(ms))
     /\ Len(q.m_cur_token) + (IF p.state = "READING_MESSAGE" THEN p.m_size ELSE 2)
          <= Len(p.m_cur_token)

\* parse() does one of these.
LEMMA ParseHolds ==
  ASSUME NEW end \in {"client", "server"}, NEW p, NEW bs, NEW ms, Holds(end, p, bs, ms),
         ~ p.got, NEW limit \in Nat
  PROVE  Parsed(end, limit, p, Parse(end, limit, p), bs, ms)
<1> DEFINE a == FirstStage(end, p)
           b == ReadSize(a, limit)
           q == ReadMessage(b)
<1>1. Parse(end, limit, p) = q
  BY DEF Parse, FirstStage
<1>2. Holds(end, a, bs, ms) /\ Started(end, p, a)
  BY StageFirst
<1> HIDE DEF a
<1>3. end = "server" /\ a.state = "READING_SIZE" /\ a.m_cur_token # <<>> => a.m_cur_token[1] # KeepAlive
  BY <1>2 DEF Started
<1>4. Sized(end, limit, a, b, bs, ms)
  BY <1>2, <1>3, StageSize
<1> HIDE DEF b
<1>5. ~ a.got /\ p.m_cur_token \in Seq(Byte) /\ a.m_cur_token \in Seq(Byte) /\ p.m_size \in Nat
  BY <1>2 DEF Started, Holds, Parser
<1>6. Len(p.m_cur_token) \in Nat /\ Len(a.m_cur_token) \in Nat /\ Len(a.m_cur_token) <= Len(p.m_cur_token)
  BY <1>2, <1>5 DEF Started
<1>7. CASE b.state = "THROWN" /\ b \in Parser /\ b.got = a.got /\ ms # <<>> /\ Len(Head(ms)) > limit
  <2>1. q = b
    BY <1>7 DEF ReadMessage
  <2> QED
    BY <1>1, <1>5, <1>7, <2>1 DEF Parsed
<1>8. CASE /\ a.state = "READING_SIZE" /\ b.state = "READING_MESSAGE"
           /\ Holds(end, b, bs, ms) /\ b.got = a.got
           /\ Len(b.m_cur_token) + 2 <= Len(a.m_cur_token)
  <2>1. MessageRead(end, b, q, bs, ms)
    BY <1>8, StageMessage
  <2> HIDE DEF q
  <2>2. p.state # "READING_MESSAGE"
    BY <1>2, <1>8 DEF Started
  <2>3. b.m_cur_token \in Seq(Byte) /\ b.m_size \in Nat /\ Len(b.m_cur_token) \in Nat
    BY <1>8 DEF Holds, Parser
  <2>4. CASE q.got /\ q.state = "READING_SIZE" /\ ms # <<>> /\ q.message = Head(ms)
             /\ Holds(end, q, bs, Tail(ms)) /\ Len(q.m_cur_token) + b.m_size = Len(b.m_cur_token)
    <3>1. Len(q.m_cur_token) \in Nat
      BY <2>4 DEF Holds, Parser
    <3>2. Len(q.m_cur_token) + 2 <= Len(p.m_cur_token)
      BY <1>6, <1>8, <2>3, <2>4, <3>1, SMTT(30)
    <3> QED
      BY <1>1, <2>2, <2>4, <3>2 DEF Parsed
  <2>5. CASE q = b /\ Len(b.m_cur_token) < b.m_size
    <3>1. Waiting(b)
      BY <1>5, <1>8, <2>5 DEF Waiting
    <3>2. Len(b.m_cur_token) <= Len(p.m_cur_token)
      BY <1>6, <1>8, <2>3
    <3> QED
      BY <1>1, <1>8, <2>5, <3>1, <3>2 DEF Parsed
  <2> QED
    BY <1>8, <2>1, <2>4, <2>5 DEF MessageRead
<1>9. CASE b = a /\ (a.state = "READING_SIZE" => Newline \notin Range(a.m_cur_token))
  <2>1. MessageRead(end, a, q, bs, ms)
    BY <1>2, <1>9, StageMessage
  <2> HIDE DEF q
  <2>2. CASE a.state = "READING_MESSAGE" /\ q.got /\ q.state = "READING_SIZE" /\ ms # <<>> /\ q.message = Head(ms)
             /\ Holds(end, q, bs, Tail(ms)) /\ Len(q.m_cur_token) + a.m_size = Len(a.m_cur_token)
    <3>1. Len(q.m_cur_token) \in Nat /\ a = p /\ p.state = "READING_MESSAGE"
      BY <1>2, <2>2 DEF Holds, Parser, Started
    <3>2. Len(q.m_cur_token) + p.m_size <= Len(p.m_cur_token)
      BY <1>5, <1>6, <2>2, <3>1
    <3> QED
      BY <1>1, <2>2, <3>1, <3>2 DEF Parsed
  <2>3. CASE q = a /\ (a.state = "READING_MESSAGE" => Len(a.m_cur_token) < a.m_size)
    <3>1. Waiting(a)
      BY <1>2, <1>5, <1>9, <2>3 DEF Waiting, Started
    <3> QED
      BY <1>1, <1>2, <1>6, <2>3, <3>1 DEF Parsed
  <2> QED
    BY <2>1, <2>2, <2>3 DEF MessageRead
<1> QED
  BY <1>4, <1>7, <1>8, <1>9 DEF Sized

\* The messages handed out, and the rest of them.
Handed(ms, out, rest) ==
  out \in Seq(Seq(Byte)) /\ rest \in Seq(Seq(Byte)) /\ ms = out \o rest

\* A message is longer than the limit.
Long(ms, limit) == \E i \in 1 .. Len(ms) : Len(ms[i]) > limit

\* One more message is handed out.
LEMMA HandedMore ==
  ASSUME NEW ms, NEW out, NEW rest, Handed(ms, out, rest), rest # <<>>
  PROVE  Handed(ms, Append(out, Head(rest)), Tail(rest))
<1> DEFINE B == Seq(Byte)
<1> HIDE DEF B
<1>1. out \in Seq(B) /\ rest \in Seq(B) /\ ms = out \o rest
  BY DEF Handed, B
<1>2. Append(out, Head(rest)) \in Seq(B) /\ Tail(rest) \in Seq(B)
  BY <1>1
<1>3. Joined(Append(out, Head(rest)), Tail(rest), out, rest)
  BY <1>1, HeadMoves
<1> QED
  BY <1>1, <1>2, <1>3 DEF Handed, Joined, B

\* The last message handed out is still to come.
LEMMA HandedLess ==
  ASSUME NEW ms, NEW out \in Seq(Seq(Byte)), NEW m \in Seq(Byte), NEW rest, Handed(ms, Append(out, m), rest)
  PROVE  Handed(ms, out, <<m>> \o rest)
<1> DEFINE B == Seq(Byte)
<1>0. m \in B
  OBVIOUS
<1> HIDE DEF B
<1>1. out \in Seq(B) /\ rest \in Seq(B) /\ ms = Append(out, m) \o rest
  BY DEF Handed, B
<1>2. <<m>> \o rest \in Seq(B) /\ Joined(Append(out, m), rest, out, <<m>> \o rest)
  BY <1>0, <1>1, LastMoves
<1> QED
  BY <1>1, <1>2 DEF Handed, Joined, B

\* A message too long among the rest is one among all.
LEMMA LongRest ==
  ASSUME NEW ms, NEW out, NEW rest, Handed(ms, out, rest), rest # <<>>, NEW limit,
         Len(Head(rest)) > limit
  PROVE  Long(ms, limit)
<1> DEFINE B == Seq(Byte)
           i == Len(out) + 1
<1> HIDE DEF B
<1>1. out \in Seq(B) /\ rest \in Seq(B) /\ ms = out \o rest
  BY DEF Handed, B
<1>2. Concats(ms, out, rest) /\ Len(out) \in Nat /\ Len(rest) \in Nat /\ 1 \in 1 .. Len(rest) /\ Head(rest) = rest[1]
  BY <1>1, ConcatElements
<1>3. i \in 1 .. Len(ms) /\ ms[i] = rest[1]
  BY <1>2 DEF Concats
<1> QED
  BY <1>2, <1>3 DEF Long

\* execute() appends bytes to the token.
LEMMA HoldsMore ==
  ASSUME NEW end, NEW p, NEW bs \in Seq(Byte), NEW cs \in Seq(Byte), NEW ms, Holds(end, p, bs \o cs, ms)
  PROVE  Holds(end, [p EXCEPT !.m_cur_token = @ \o bs], cs, ms)
<1> DEFINE t == p.m_cur_token
           q == [p EXCEPT !.m_cur_token = @ \o bs]
<1>1. p \in Parser /\ t \in Seq(Byte) /\ ms \in Seq(Seq(Byte))
  BY DEF Holds, Parser
<1>2. t \o bs \in Seq(Byte)
  BY <1>1, ConcatElements
<1>3. /\ q \in Parser /\ q.state = p.state /\ q.m_size = p.m_size /\ q.m_cur_token = t \o bs
  BY <1>1, <1>2 DEF Parser
<1> HIDE DEF q, t
<1>4. (t \o bs) \o cs = t \o (bs \o cs)
  BY <1>1, Assoc DEF Regroups
<1>5. HeldIn(end, p.state, t, p.m_size, bs \o cs, ms)
  BY DEF Holds, t
<1>6. HeldIn(end, p.state, t \o bs, p.m_size, cs, ms)
  BY <1>4, <1>5 DEF HeldIn, Joined
<1> QED
  BY <1>1, <1>3, <1>6 DEF Holds, q, t

\* A run that has ended with an exception, because of a message that is too long.
Thrown(limit, ms, r) ==
  /\ r.parser.state = "THROWN" /\ ~ r.parser.got /\ Long(ms, limit)
  /\ \E rest : Handed(ms, r.out, rest)

\* A run that has handed out all it can.
Stopped(end, bs, ms, r) ==
  /\ Waiting(r.parser)
  /\ \E rest : Handed(ms, r.out, rest) /\ Holds(end, r.parser, bs, rest)

\* A run with a message to hand out, whose token has fewer than room bytes.
Going(end, bs, ms, room, r) ==
  /\ r.parser.got /\ r.parser.state = "READING_SIZE" /\ r.out \in Seq(Seq(Byte))
  /\ \E rest : /\ Handed(ms, Append(r.out, r.parser.message), rest)
               /\ Holds(end, r.parser, bs, rest)
  /\ Len(r.parser.m_cur_token) + 1 <= room

\* What holds of a run after each round.
RunInv(end, limit, bs, ms, room, r) ==
  /\ r = [parser |-> r.parser, out |-> r.out] /\ r.parser \in Parser
  /\ \/ Thrown(limit, ms, r) \/ Stopped(end, bs, ms, r) \/ Going(end, bs, ms, room, r)

\* A round of getRequest() or getResponse().
LEMMA FetchStep ==
  ASSUME NEW end \in {"client", "server"}, NEW limit \in Nat, NEW bs, NEW ms, NEW room \in Int,
         NEW r, RunInv(end, limit, bs, ms, room, r)
  PROVE  \E s : Fetch(end, limit, r) = {s} /\ RunInv(end, limit, bs, ms, room - 2, s)
<1>1. r.parser \in Parser /\ r = [parser |-> r.parser, out |-> r.out]
  BY DEF RunInv
<1>2. CASE ~ r.parser.got
  <2>1. Fetch(end, limit, r) = {r}
    BY <1>2 DEF Fetch
  <2>2. RunInv(end, limit, bs, ms, room - 2, r)
    BY <1>2 DEF RunInv, Going
  <2> QED
    BY <2>1, <2>2
<1>3. CASE r.parser.got
  <2> DEFINE p == r.parser
             p0 == [p EXCEPT !.got = FALSE]
             q == Parse(end, limit, p0)
             s == HandOut(r, q)
  <2>1. Fetch(end, limit, r) = {s}
    BY <1>3 DEF Fetch
  <2>2. Going(end, bs, ms, room, r)
    BY <1>3 DEF RunInv, Thrown, Stopped, Waiting
  <2>3. PICK rest : Handed(ms, Append(r.out, p.message), rest) /\ Holds(end, p, bs, rest)
    BY <2>2 DEF Going
  <2>4. p0 \in Parser /\ ~ p0.got /\ p0.state = "READING_SIZE" /\ p0.m_cur_token = p.m_cur_token /\ p0.m_size = p.m_size
    BY <1>1, <2>2 DEF Parser, Going
  <2> HIDE DEF p0
  <2>5. Holds(end, p0, bs, rest)
    BY <2>2, <2>3, <2>4 DEF Holds, Going
  <2>6. Parsed(end, limit, p0, q, bs, rest)
    BY <2>4, <2>5, ParseHolds
  <2> HIDE DEF q
  <2> DEFINE out == Append(r.out, p.message)
  <2>7. s = [parser |-> s.parser, out |-> s.out] /\ s.parser = q /\ s.out = (IF q.state = "THROWN" THEN r.out ELSE out)
    BY DEF HandOut
  <2> HIDE DEF s
  <2>8. CASE q.state = "THROWN" /\ q \in Parser /\ ~ q.got /\ rest # <<>> /\ Len(Head(rest)) > limit
    <3>1. Long(ms, limit)
      BY <2>3, <2>8, LongRest
    <3>2. Handed(ms, r.out, <<p.message>> \o rest)
      BY <1>1, <2>2, <2>3, HandedLess DEF Going, Parser
    <3>3. Thrown(limit, ms, s)
      BY <2>7, <2>8, <3>1, <3>2 DEF Thrown
    <3> QED
      BY <2>1, <2>7, <2>8, <3>3 DEF RunInv
  <2>9. CASE Waiting(q) /\ Holds(end, q, bs, rest)
    <3>1. q.state # "THROWN" /\ q \in Parser
      BY <2>9 DEF Holds, HeldIn
    <3>2. Stopped(end, bs, ms, s)
      BY <2>3, <2>7, <2>9, <3>1 DEF Stopped
    <3> QED
      BY <2>1, <2>7, <3>1, <3>2 DEF RunInv
  <2>10. CASE /\ q.got /\ q.state = "READING_SIZE" /\ rest # <<>> /\ q.message = Head(rest)
              /\ Holds(end, q, bs, Tail(rest))
              /\ Len(q.m_cur_token) + 2 <= Len(p0.m_cur_token)
    <3>1. q \in Parser /\ q.m_cur_token \in Seq(Byte) /\ Len(q.m_cur_token) \in Nat /\ Len(p.m_cur_token) \in Nat
      BY <1>1, <2>10 DEF Holds, Parser
    <3>2. Handed(ms, Append(out, q.message), Tail(rest))
      <4> HIDE DEF out
      <4> QED
        BY <2>3, <2>10, HandedMore DEF out
    <3>3. Len(q.m_cur_token) + 1 <= room - 2
      <4>1. Len(p.m_cur_token) + 1 <= room
        BY <2>2 DEF Going
      <4> QED
        BY <2>4, <2>10, <3>1, <4>1
    <3>4. out \in Seq(Seq(Byte))
      BY <2>3 DEF Handed
    <3>5. s.out = out
      BY <2>7, <2>10
    <3> HIDE DEF out
    <3>6. Going(end, bs, ms, room - 2, s)
      BY <2>7, <2>10, <3>2, <3>3, <3>4, <3>5 DEF Going
    <3> QED
      BY <2>1, <2>7, <3>1, <3>6 DEF RunInv
  <2> QED
    BY <2>4, <2>6, <2>8, <2>9, <2>10 DEF Parsed
<1> QED
  BY <1>2, <1>3

\* The first parse() after bytes were added.
LEMMA ExecuteStep ==
  ASSUME NEW end \in {"client", "server"}, NEW limit \in Nat, NEW bs \in Seq(Byte),
         NEW cs \in Seq(Byte), NEW ms, NEW p, Waiting(p), Holds(end, p, bs \o cs, ms)
  PROVE  RunInv(end, limit, cs, ms, Len(p.m_cur_token) + Len(bs),
                [parser |-> Execute(end, limit, p, bs), out |-> <<>>])
<1> DEFINE t == p.m_cur_token
           p0 == [p EXCEPT !.m_cur_token = @ \o bs]
           q == Parse(end, limit, p0)
           r == [parser |-> q, out |-> <<>>]
           room == Len(t) + Len(bs)
<1>1. Execute(end, limit, p, bs) = q
  BY DEF Execute
<1>2. Holds(end, p0, cs, ms)
  BY HoldsMore
<1>3. /\ p \in Parser /\ t \in Seq(Byte) /\ ms \in Seq(Seq(Byte)) /\ p.m_size \in Nat
      /\ Len(t) \in Nat /\ Len(bs) \in Nat
  BY DEF Holds, Parser
<1>4. t \o bs \in Seq(Byte) /\ Len(t \o bs) = room
  BY <1>3
<1>5. /\ p0.state = p.state /\ p0.m_size = p.m_size /\ p0.m_cur_token = t \o bs /\ ~ p0.got
  BY <1>3 DEF Parser, Waiting
<1> HIDE DEF p0
<1>6. Parsed(end, limit, p0, q, cs, ms)
  BY <1>2, <1>5, ParseHolds
<1> HIDE DEF q
<1>7. Handed(ms, <<>>, ms)
  <2> DEFINE B == Seq(Byte)
  <2> HIDE DEF B
  <2>1. ms \in Seq(B)
    BY <1>3 DEF B
  <2>2. <<>> \in Seq(B) /\ <<>> \o ms = ms
    BY <2>1, ConcatEmptySeq
  <2> QED
    BY <2>1, <2>2 DEF Handed, B
<1>8. r = [parser |-> r.parser, out |-> r.out] /\ r.parser = q /\ r.out = <<>>
  OBVIOUS
<1> HIDE DEF r
<1>9. CASE q.state = "THROWN" /\ q \in Parser /\ ~ q.got /\ ms # <<>> /\ Len(Head(ms)) > limit
  <2>1. Long(ms, limit)
    BY <1>7, <1>9, LongRest
  <2> QED
    BY <1>1, <1>7, <1>8, <1>9, <2>1 DEF RunInv, Thrown, r
<1>10. CASE Waiting(q) /\ Holds(end, q, cs, ms)
  <2>1. q \in Parser
    BY <1>10 DEF Holds
  <2> QED
    BY <1>1, <1>7, <1>8, <1>10, <2>1 DEF RunInv, Stopped, r
<1>11. CASE /\ q.got /\ q.state = "READING_SIZE" /\ ms # <<>> /\ q.message = Head(ms)
            /\ Holds(end, q, cs, Tail(ms))
            /\ Len(q.m_cur_token) + (IF p0.state = "READING_MESSAGE" THEN p0.m_size ELSE 2)
                 <= Len(p0.m_cur_token)
  <2>1. q \in Parser /\ Len(q.m_cur_token) \in Nat
    BY <1>11 DEF Holds, Parser
  <2>2. Len(q.m_cur_token) + 1 <= room
    <3> DEFINE m == IF p0.state = "READING_MESSAGE" THEN p0.m_size ELSE 2
    <3>1. m >= 1 /\ m \in Nat
      <4>1. CASE p.state = "READING_MESSAGE"
        BY <1>3, <1>5, <4>1 DEF Waiting
      <4>2. CASE p.state # "READING_MESSAGE"
        BY <1>5, <4>2
      <4> QED
        BY <4>1, <4>2
    <3>2. Len(q.m_cur_token) + m <= Len(p0.m_cur_token)
      BY <1>11
    <3>3. Len(p0.m_cur_token) = room /\ room \in Nat
      BY <1>3, <1>4, <1>5
    <3> HIDE DEF m, room
    <3> QED
      BY <2>1, <3>1, <3>2, <3>3
  <2>3. Handed(ms, Append(<<>>, q.message), Tail(ms))
    BY <1>7, <1>11, HandedMore
  <2>4. <<>> \in Seq(Seq(Byte))
    BY <1>7 DEF Handed
  <2>5. Going(end, cs, ms, room, r)
    BY <1>8, <1>11, <2>2, <2>3, <2>4 DEF Going
  <2> QED
    BY <1>1, <1>8, <2>1, <2>5 DEF RunInv, r
<1> QED
  BY <1>6, <1>9, <1>10, <1>11 DEF Parsed

\* What execute() and the getRequest() after it do: everything is handed out, or an
\* exception is thrown because a message is too long.
Received(end, limit, cs, ms, r) ==
  /\ r.parser \in Parser
  /\ Thrown(limit, ms, r) \/ Stopped(end, cs, ms, r)

\* However the stream of frames and keepalives is cut, and whatever the parser has
\* kept from before: execute() and the loop behind it hand out the next messages,
\* unchanged and in order, and leave the rest to the parser and the bytes to come, or
\* throw because a message is longer than the limit (BinClient/Parser.cpp,
\* BinServer/Parser.cpp).
THEOREM ReceiveHolds ==
  ASSUME NEW end \in {"client", "server"}, NEW limit \in Nat, NEW bs \in Seq(Byte),
         NEW cs \in Seq(Byte), NEW ms, NEW p, Waiting(p), Holds(end, p, bs \o cs, ms)
  PROVE  \E r : Receive(end, limit, p, bs) = {r} /\ Received(end, limit, cs, ms, r)
<1> DEFINE total == Len(p.m_cur_token) + Len(bs)
           rounds == total \div 2 + 1
           first == {[parser |-> q, out |-> <<>>] : q \in {Execute(end, limit, p, bs)}}
           after(R) == UNION {Fetch(end, limit, r) : r \in R}
           run[n \in 0 .. rounds] == IF n = 0 THEN first ELSE after(run[n - 1])
           Inv(n, R) == \E r : R = {r} /\ RunInv(end, limit, cs, ms, total - 2 * n, r)
<1>1. Receive(end, limit, p, bs) = run[rounds]
  BY DEF Receive
<1>2. total \in Nat /\ rounds \in Nat /\ total - 2 * rounds < 0
  <2>1. Len(p.m_cur_token) \in Nat /\ Len(bs) \in Nat
    BY DEF Holds, Parser
  <2>2. total \in Nat
    BY <2>1
  <2> HIDE DEF total
  <2> QED
    BY <2>2, Halves
<1>3. Inv(0, first)
  <2> DEFINE r == [parser |-> Execute(end, limit, p, bs), out |-> <<>>]
  <2>1. first = {r}
    OBVIOUS
  <2>2. RunInv(end, limit, cs, ms, total, r)
    BY ExecuteStep
  <2>3. total - 2 * 0 = total
    BY <1>2
  <2> HIDE DEF r, total
  <2> QED
    BY <2>1, <2>2, <2>3
<1>4. ASSUME NEW n \in Nat, NEW R, Inv(n, R) PROVE Inv(n + 1, after(R))
  <2>1. PICK r : R = {r} /\ RunInv(end, limit, cs, ms, total - 2 * n, r)
    BY <1>4
  <2>2. total - 2 * n \in Int /\ (total - 2 * n) - 2 = total - 2 * (n + 1)
    <3>1. total \in Nat
      BY <1>2
    <3> HIDE DEF total
    <3> QED
      BY <3>1
  <2> DEFINE room == total - 2 * n
  <2> HIDE DEF room, total
  <2>3. PICK s : Fetch(end, limit, r) = {s} /\ RunInv(end, limit, cs, ms, room - 2, s)
    BY <2>1, <2>2, FetchStep DEF room
  <2>4. after(R) = {s}
    BY <2>1, <2>3
  <2> QED
    BY <2>2, <2>3, <2>4 DEF room
<1> HIDE DEF total, rounds, first, after, run, Inv
<1>5. \E f : f = [n \in 0 .. rounds |-> IF n = 0 THEN first ELSE after(f[n - 1])]
  <2> DEFINE U == {R \in SUBSET [parser : Parser, out : Seq(Seq(Byte))] : TRUE}
  <2>0. \A n : \A R : Inv(n, R) => R \in U
    <3> SUFFICES ASSUME NEW n, NEW r, RunInv(end, limit, cs, ms, total - 2 * n, r) PROVE {r} \in U
      BY DEF Inv
    <3>1. r.parser \in Parser /\ r.out \in Seq(Seq(Byte)) /\ r = [parser |-> r.parser, out |-> r.out]
      BY DEF RunInv, Thrown, Stopped, Going, Handed
    <3> QED
      BY <3>1
  <2> HIDE DEF U
  <2> DEFINE next(R) == IF after(R) \in U THEN after(R) ELSE R
             step == [n \in Nat |-> [R \in U |-> next(R)]]
  <2>1. \A R \in U : next(R) \in U
    OBVIOUS
  <2>2. step \in [Nat -> [U -> U]] /\ first \in U
    <3> HIDE DEF next
    <3> QED
      BY <2>1, <1>3, <2>0
  <2>3. PICK f : Iterates(f, U, first, step)
    <3> HIDE DEF step
    <3> QED
      BY <2>2, Iteration
  <2>4. f \in [Nat -> U] /\ f[0] = first /\ \A n \in Nat : f[n + 1] = next(f[n])
    BY <2>3 DEF Iterates
  <2> HIDE DEF step
  <2>5. \A n \in Nat : Inv(n, f[n])
    <3> DEFINE T == {n \in Nat : Inv(n, f[n])}
    <3>1. 0 \in T
      BY <1>3, <2>4
    <3>2. ASSUME NEW n \in Nat, n \in T PROVE n + 1 \in T
      <4>1. Inv(n + 1, after(f[n]))
        BY <1>4, <3>2
      <4>2. f[n + 1] = after(f[n])
        BY <2>0, <2>4, <4>1
      <4> QED
        BY <4>1, <4>2
    <3> HIDE DEF T
    <3>3. \A n \in Nat : n \in T
      BY <3>1, <3>2, SetInduction
    <3> QED
      BY <3>3 DEF T
  <2>6. \A n \in Nat : f[n + 1] = after(f[n])
    <3> SUFFICES ASSUME NEW n \in Nat PROVE f[n + 1] = after(f[n])
      OBVIOUS
    <3>1. Inv(n + 1, after(f[n]))
      BY <1>4, <2>5
    <3> QED
      BY <2>0, <2>4, <3>1
  <2> HIDE DEF next
  <2> DEFINE g == [n \in 0 .. rounds |-> f[n]]
  <2>7. ASSUME NEW n \in 0 .. rounds, n # 0 PROVE g[n] = after(g[n - 1])
    <3>1. n - 1 \in Nat /\ (n - 1) + 1 = n /\ n - 1 \in 0 .. rounds
      BY <1>2, <2>7
    <3>2. f[n] = after(f[n - 1])
      BY <2>6, <3>1
    <3>3. g[n] = f[n] /\ g[n - 1] = f[n - 1]
      BY <3>1
    <3> HIDE DEF g
    <3> QED
      BY <3>2, <3>3
  <2>8. g = [n \in 0 .. rounds |-> g[n]] /\ g[0] = first
    BY <1>2, <2>4
  <2> HIDE DEF g
  <2>9. g = [n \in 0 .. rounds |-> IF n = 0 THEN first ELSE after(g[n - 1])]
    BY <2>7, <2>8
  <2> QED
    BY <2>9
<1>6. run = [n \in 0 .. rounds |-> IF n = 0 THEN first ELSE after(run[n - 1])]
  BY <1>5 DEF run
<1>7. \A n \in Nat : n \in 0 .. rounds => Inv(n, run[n])
  <2> DEFINE T == {n \in Nat : n \in 0 .. rounds => Inv(n, run[n])}
  <2>0. \A n \in 0 .. rounds : run[n] = IF n = 0 THEN first ELSE after(run[n - 1])
    BY <1>6
  <2>1. 0 \in T
    <3>1. 0 \in 0 .. rounds
      BY <1>2
    <3> QED
      BY <1>3, <2>0, <3>1
  <2>2. ASSUME NEW n \in Nat, n \in T PROVE n + 1 \in T
    <3> SUFFICES ASSUME n + 1 \in 0 .. rounds PROVE Inv(n + 1, run[n + 1])
      OBVIOUS
    <3>1. n \in 0 .. rounds /\ n + 1 # 0 /\ (n + 1) - 1 = n
      BY <1>2
    <3>2. run[n + 1] = after(run[n])
      BY <2>0, <3>1
    <3>3. Inv(n, run[n])
      BY <2>2, <3>1
    <3> QED
      BY <1>4, <3>2, <3>3
  <2> HIDE DEF T
  <2>3. \A n \in Nat : n \in T
    BY <2>1, <2>2, SetInduction
  <2> QED
    BY <2>3 DEF T
<1>8. Inv(rounds, run[rounds])
  <2>1. rounds \in 0 .. rounds
    BY <1>2
  <2> QED
    BY <1>2, <1>7, <2>1
<1>9. PICK r : run[rounds] = {r} /\ RunInv(end, limit, cs, ms, total - 2 * rounds, r)
  BY <1>8 DEF Inv
<1>10. ~ Going(end, cs, ms, total - 2 * rounds, r)
  <2>1. Len(r.parser.m_cur_token) \in Nat
    BY <1>9 DEF RunInv, Parser
  <2>2. ~ (Len(r.parser.m_cur_token) + 1 <= total - 2 * rounds)
    <3> DEFINE l == Len(r.parser.m_cur_token)
               e == total - 2 * rounds
    <3>1. l \in Nat /\ e \in Int /\ e < 0
      BY <1>2, <2>1
    <3> HIDE DEF l, e
    <3>2. ~ (l + 1 <= e)
      BY <3>1
    <3> QED
      BY <3>2 DEF l, e
  <2> QED
    BY <2>2 DEF Going
<1>11. Received(end, limit, cs, ms, r)
  BY <1>9, <1>10 DEF RunInv, Received
<1> QED
  BY <1>1, <1>9, <1>11

\* Sending adds idle bytes, or the frame of a message, to the bytes to come.
LEMMA HoldsSend ==
  ASSUME NEW end, NEW p, NEW bs, NEW ms, Holds(end, p, bs, ms)
  PROVE  /\ \A v \in Idle(end) : Holds(end, p, bs \o v, ms)
         /\ \A m \in Seq(Byte) : Holds(end, p, bs \o Frame(m), Append(ms, m))
<1> DEFINE t == p.m_cur_token
<1>1. p \in Parser /\ bs \in Seq(Byte) /\ ms \in Seq(Seq(Byte)) /\ t \in Seq(Byte)
      /\ HeldIn(end, p.state, t, p.m_size, bs, ms)
  BY DEF Holds, Parser
<1> HIDE DEF t
<1>2. ASSUME NEW x \in Seq(Byte), NEW ns \in Seq(Seq(Byte)),
             \A cs \in Seq(Byte) : Stream(end, cs, ms) => Stream(end, cs \o x, ns),
             ms # <<>> => ns # <<>> /\ Head(ns) = Head(ms) /\ Head(ms) \in Seq(Byte)
                          /\ \A cs \in Seq(Byte) : Stream(end, cs, Tail(ms)) => Stream(end, cs \o x, Tail(ns))
      PROVE  Holds(end, p, bs \o x, ns)
  <2>1. bs \o x \in Seq(Byte)
    BY <1>1, ConcatElements
  <2>2. CASE p.state = "READING_HANDSHAKE" /\ end = "client"
    <3>1. PICK cs \in Seq(Byte) : Joined(t, bs, Handshake, cs) /\ Stream(end, cs, ms)
      BY <1>1, <2>2 DEF HeldIn
    <3>2. Joined(t, bs \o x, Handshake, cs \o x) /\ cs \o x \in Seq(Byte) /\ Stream(end, cs \o x, ns)
      BY <1>1, <1>2, <3>1, JoinedMore, ConcatElements, Symbols
    <3>3. HeldIn(end, p.state, t, p.m_size, bs \o x, ns)
      BY <2>2, <3>2 DEF HeldIn
    <3> QED
      BY <1>1, <1>2, <2>1, <3>3 DEF Holds, t
  <2>3. CASE p.state = "READING_SIZE"
    <3>1. Stream(end, t \o bs, ms)
      BY <1>1, <2>3 DEF HeldIn
    <3>2. Regroups(t, bs, x) /\ t \o bs \in Seq(Byte)
      BY <1>1, Assoc, ConcatElements
    <3>3. Stream(end, t \o (bs \o x), ns)
      BY <1>2, <3>1, <3>2 DEF Regroups
    <3>4. HeldIn(end, p.state, t, p.m_size, bs \o x, ns)
      BY <2>3, <3>3 DEF HeldIn
    <3> QED
      BY <1>1, <1>2, <2>1, <3>4 DEF Holds, t
  <2>4. CASE p.state = "READING_MESSAGE"
    <3>1. ms # <<>> /\ p.m_size = Len(Head(ms))
      BY <1>1, <2>4 DEF HeldIn
    <3>2. PICK cs \in Seq(Byte) : Joined(t, bs, Head(ms), cs) /\ Stream(end, cs, Tail(ms))
      BY <1>1, <2>4 DEF HeldIn
    <3> DEFINE h == Head(ms)
    <3>3. h \in Seq(Byte) /\ Head(ns) = h /\ ns # <<>> /\ Joined(t, bs, h, cs)
      BY <1>2, <3>1, <3>2
    <3> HIDE DEF h
    <3>4. Joined(t, bs \o x, h, cs \o x) /\ cs \o x \in Seq(Byte)
      BY <1>1, <3>3, JoinedMore, ConcatElements
    <3>5. Stream(end, cs \o x, Tail(ns))
      BY <1>2, <3>1, <3>2
    <3>6. HeldIn(end, p.state, t, p.m_size, bs \o x, ns)
      BY <2>4, <3>1, <3>3, <3>4, <3>5 DEF HeldIn, h
    <3> QED
      BY <1>1, <1>2, <2>1, <3>6 DEF Holds, t
  <2> QED
    BY <1>1, <2>2, <2>3, <2>4 DEF HeldIn
<1> DEFINE B == Seq(Byte)
<1>3. ms # <<>> => Head(ms) \in B /\ Tail(ms) \in Seq(B)
  BY <1>1
<1>4. ASSUME NEW v \in Idle(end) PROVE Holds(end, p, bs \o v, ms)
  <2>1. v \in Seq(Byte)
    BY IdleBytes
  <2>2. \A cs \in Seq(Byte) : Stream(end, cs, ms) => Stream(end, cs \o v, ms)
    BY <1>1, <1>4, StreamSend
  <2>3. ASSUME ms # <<>>
        PROVE \A cs \in Seq(Byte) : Stream(end, cs, Tail(ms)) => Stream(end, cs \o v, Tail(ms))
    BY <1>3, <1>4, <2>3, StreamSend
  <2> QED
    BY <1>1, <1>2, <1>3, <2>1, <2>2, <2>3
<1>5. ASSUME NEW m \in B PROVE Holds(end, p, bs \o Frame(m), Append(ms, m))
  <2> DEFINE x == Frame(m)
             ns == Append(ms, m)
  <2>1. x \in Seq(Byte)
    BY <1>5, FrameShape
  <2>2. \A cs \in Seq(Byte) : Stream(end, cs, ms) => Stream(end, cs \o x, ns)
    BY <1>1, <1>5, StreamSend
  <2>3. ns \in Seq(B) /\ (ms # <<>> => ns # <<>> /\ Head(ns) = Head(ms) /\ Tail(ns) = Append(Tail(ms), m))
    <3>1. ms \in Seq(B)
      BY <1>1
    <3> HIDE DEF B
    <3>2. ns \in Seq(B) /\ (ms # <<>> => ns # <<>> /\ Head(ns) = Head(ms))
      BY <1>5, <3>1
    <3>3. ASSUME ms # <<>> PROVE Tail(ns) = Append(Tail(ms), m)
      <4> DEFINE n == Len(ms)
                 a == Tail(ns)
                 b == Append(Tail(ms), m)
      <4>1. a \in Seq(B) /\ Len(a) = n /\ n \in Nat \ {0} /\ \A i \in 1 .. n : a[i] = ns[i + 1]
        BY <1>5, <3>1, <3>3
      <4>2. b \in Seq(B) /\ Len(b) = n /\ b[n] = m /\ \A i \in 1 .. n - 1 : b[i] = ms[i + 1]
        BY <1>5, <3>1, <3>3
      <4>3. \A i \in 1 .. n : ns[i + 1] = IF i = n THEN m ELSE ms[i + 1]
        BY <1>5, <3>1, <4>1
      <4> HIDE DEF a, b
      <4>4. \A i \in 1 .. n : a[i] = b[i]
        BY <4>1, <4>2, <4>3
      <4>5. a = b
        BY <4>1, <4>2, <4>4, SeqEqual
      <4> QED
        BY <4>5 DEF a, b
    <3> QED
      BY <3>2, <3>3
  <2> HIDE DEF x, ns
  <2>4. ASSUME ms # <<>>
        PROVE \A cs \in Seq(Byte) : Stream(end, cs, Tail(ms)) => Stream(end, cs \o x, Tail(ns))
    BY <1>3, <1>5, <2>3, <2>4, StreamSend DEF x
  <2>5. Holds(end, p, bs \o x, ns)
    BY <1>2, <1>3, <2>1, <2>2, <2>3, <2>4
  <2> QED
    BY <2>5 DEF x, ns
<1> QED
  BY <1>4, <1>5

\* A parser that waits, with no bytes to come, has no message to come.
LEMMA NothingHeld ==
  ASSUME NEW end, NEW p, NEW ms, Holds(end, p, <<>>, ms), Waiting(p)
  PROVE  ms = <<>>
<1> DEFINE t == p.m_cur_token
<1>1. p \in Parser /\ ms \in Seq(Seq(Byte)) /\ t \in Seq(Byte) /\ Len(t) \in Nat
      /\ HeldIn(end, p.state, t, p.m_size, <<>>, ms)
  BY DEF Holds, Parser
<1>2. t \o <<>> = t
  BY <1>1, ConcatEmptySeq
<1>3. ASSUME NEW h \in Seq(Byte), NEW cs \in Seq(Byte), Joined(t, <<>>, h, cs) PROVE Len(h) <= Len(t)
  <2>1. t = h \o cs
    BY <1>2, <1>3 DEF Joined
  <2>2. Len(h \o cs) = Len(h) + Len(cs) /\ Len(h) \in Nat /\ Len(cs) \in Nat
    OBVIOUS
  <2> QED
    BY <2>1, <2>2
<1> HIDE DEF t
<1>4. CASE p.state = "READING_HANDSHAKE"
  <2>1. PICK cs \in Seq(Byte) : Joined(t, <<>>, Handshake, cs)
    BY <1>1, <1>4 DEF HeldIn
  <2>2. Len(Handshake) <= Len(t) /\ Len(t) < Len(Handshake)
    BY <1>3, <1>4, <2>1, Symbols DEF Waiting, t
  <2>3. Len(Handshake) \in Nat
    BY Symbols
  <2> QED
    BY <1>1, <2>2, <2>3
<1>5. CASE p.state = "READING_SIZE"
  <2> SUFFICES ASSUME ms # <<>> PROVE FALSE
    OBVIOUS
  <2>1. Stream(end, t, ms)
    BY <1>1, <1>2, <1>5 DEF HeldIn
  <2>2. PICK v \in Idle(end), cs \in Seq(Byte) : t = (v \o Frame(Head(ms))) \o cs
    <3>1. \E v \in Idle(end), cs \in Seq(Byte) :
            t = (v \o Frame(Head(ms))) \o cs /\ Stream(end, cs, Tail(ms))
      BY <1>1, <2>1, StreamHead
    <3> QED
      BY <3>1
  <2> DEFINE m == Head(ms)
             d == ToDigits[Len(m)]
             x == Frame(m)
             X == x \o cs
  <2>3. m \in Seq(Byte)
    BY <1>1
  <2> HIDE DEF m
  <2>4. StartsWith(X, d, m, cs) /\ x \in Seq(Byte) /\ v \in Seq(Byte)
    BY <2>3, FrameStarts, FrameShape, IdleBytes
  <2> HIDE DEF x
  <2>5. X \in Seq(Byte) /\ Len(d) + 1 \in 1 .. Len(X) /\ X[Len(d) + 1] = Newline
    <3> HIDE DEF X, d
    <3>1. /\ Len(d) \in Nat \ {0} /\ X \in Seq(Byte) /\ Len(X) > Len(d)
          /\ X[Len(d) + 1] = Newline
      BY <2>4 DEF StartsWith
    <3>2. Len(X) \in Nat
      BY <3>1
    <3> QED
      BY <3>1, <3>2
  <2> HIDE DEF d
  <2>6. Regroups(v, x, cs)
    BY <2>4, Assoc
  <2>7. t = v \o X
    BY <2>2, <2>6 DEF Regroups, x, m
  <2> HIDE DEF X
  <2>8. Concats(t, v, X)
    BY <2>4, <2>5, <2>7, ConcatElements
  <2> DEFINE j == Len(v) + (Len(d) + 1)
  <2>9. j \in 1 .. Len(t) /\ t[j] = Newline
    <3>1. Len(v) \in Nat /\ Len(X) \in Nat
      BY <2>4, <2>5
    <3> QED
      BY <2>5, <2>8, <3>1 DEF Concats
  <2>10. Newline \in Range(t)
    <3> HIDE DEF j
    <3> QED
      BY <1>1, <2>9 DEF Range
  <2> QED
    BY <1>5, <2>10 DEF Waiting, t
<1>6. CASE p.state = "READING_MESSAGE"
  <2>1. ms # <<>> /\ p.m_size = Len(Head(ms))
    BY <1>1, <1>6 DEF HeldIn
  <2>2. PICK cs \in Seq(Byte) : Joined(t, <<>>, Head(ms), cs)
    BY <1>1, <1>6 DEF HeldIn
  <2> DEFINE h == Head(ms)
  <2>3. h \in Seq(Byte) /\ Len(h) \in Nat
    BY <1>1, <2>1
  <2> HIDE DEF h
  <2>4. Len(h) <= Len(t) /\ Len(t) < Len(h)
    BY <1>3, <1>6, <2>1, <2>2, <2>3 DEF Waiting, t, h
  <2> QED
    BY <1>1, <2>3, <2>4
<1> QED
  BY <1>1, <1>4, <1>5, <1>6 DEF HeldIn

-------------------------------------------------------------------------------
(* Calls, requests and answers. *)

\* x has the values of f at the elements of rs.
Mapped(rs, f, x) ==
  /\ x \in Seq(Seq(Byte)) /\ Len(x) = Len(rs) /\ \A i \in 1 .. Len(rs) : x[i] = f[rs[i]]

\* There is such a sequence.
LEMMA MappedIs ==
  ASSUME NEW rs \in Seq(Requests), NEW f \in [Requests -> Seq(Byte)]
  PROVE  Mapped(rs, f, [i \in 1 .. Len(rs) |-> f[rs[i]]])
<1> DEFINE B == Seq(Byte)
<1>1. f \in [Requests -> B] /\ rs \in Seq(Requests) /\ \A i \in 1 .. Len(rs) : f[rs[i]] \in B
  OBVIOUS
<1> HIDE DEF B
<1>2. [i \in 1 .. Len(rs) |-> f[rs[i]]] \in Seq(B) /\ Len([i \in 1 .. Len(rs) |-> f[rs[i]]]) = Len(rs)
  BY <1>1
<1> QED
  BY <1>2 DEF Mapped, B

\* There is only one.
LEMMA MappedOne ==
  ASSUME NEW rs, NEW f, NEW x, NEW y, Mapped(rs, f, x), Mapped(rs, f, y)
  PROVE  x = y
<1> DEFINE B == Seq(Byte)
<1> HIDE DEF B
<1>1. x \in Seq(B) /\ y \in Seq(B) /\ Len(x) = Len(y) /\ \A i \in 1 .. Len(x) : x[i] = y[i]
  BY DEF Mapped, B
<1> QED
  BY <1>1, SeqEqual

\* ... of a concatenation.
LEMMA MappedMore ==
  ASSUME NEW rs \in Seq(Requests), NEW f \in [Requests -> Seq(Byte)], NEW x, NEW y,
         NEW qs \in Seq(Requests), Mapped(rs, f, x), Mapped(qs, f, y)
  PROVE  Mapped(rs \o qs, f, x \o y)
<1> DEFINE B == Seq(Byte)
           z == x \o y
           ss == rs \o qs
<1> HIDE DEF B
<1>1. /\ x \in Seq(B) /\ y \in Seq(B) /\ Len(x) = Len(rs) /\ Len(y) = Len(qs)
      /\ \A i \in 1 .. Len(rs) : x[i] = f[rs[i]]
      /\ \A i \in 1 .. Len(qs) : y[i] = f[qs[i]]
  BY DEF Mapped, B
<1>2. z \in Seq(B) /\ Concats(z, x, y) /\ Concats(ss, rs, qs)
  BY <1>1, ConcatElements
<1>3. Len(rs) \in Nat /\ Len(qs) \in Nat
  OBVIOUS
<1> HIDE DEF z, ss
<1>4. Len(z) = Len(ss) /\ Len(ss) = Len(rs) + Len(qs)
  BY <1>1, <1>2 DEF Concats
<1>5. ASSUME NEW i \in 1 .. Len(ss) PROVE z[i] = f[ss[i]]
  <2>1. CASE i \in 1 .. Len(rs)
    BY <1>1, <1>2, <2>1 DEF Concats
  <2>2. CASE i \notin 1 .. Len(rs)
    <3> DEFINE j == i - Len(rs)
    <3>1. j \in 1 .. Len(qs) /\ i = Len(rs) + j
      BY <1>3, <1>4, <2>2
    <3> HIDE DEF j
    <3>2. z[i] = y[j] /\ ss[i] = qs[j]
      BY <1>1, <1>2, <3>1 DEF Concats
    <3> QED
      BY <1>1, <3>1, <3>2
  <2> QED
    BY <2>1, <2>2
<1>6. Mapped(ss, f, z)
  BY <1>2, <1>4, <1>5 DEF Mapped, B
<1> QED
  BY <1>6 DEF z, ss

\* ... of one more element.
LEMMA MappedAppend ==
  ASSUME NEW rs \in Seq(Requests), NEW f \in [Requests -> Seq(Byte)], NEW x, NEW r \in Requests, Mapped(rs, f, x)
  PROVE  Mapped(Append(rs, r), f, Append(x, f[r]))
<1> DEFINE B == Seq(Byte)
<1>0. f[r] \in B
  OBVIOUS
<1>1. Mapped(<<r>>, f, <<f[r]>>) /\ <<r>> \in Seq(Requests)
  <2> DEFINE e == f[r]
             z == <<e>>
  <2> HIDE DEF B, e
  <2>1. z \in Seq(B) /\ Len(z) = 1 /\ z[1] = e /\ Len(<<r>>) = 1 /\ <<r>>[1] = r
    BY <1>0 DEF e
  <2> QED
    BY <2>1 DEF Mapped, B, e
<1> HIDE DEF B
<1>2. x \in Seq(B)
  BY DEF Mapped, B
<1>3. Append(rs, r) = rs \o <<r>> /\ Append(x, f[r]) = x \o <<f[r]>>
  BY <1>0, <1>2
<1> QED
  BY <1>1, <1>3, MappedMore

\* ... of the rest.
LEMMA MappedEmpty ==
  ASSUME NEW rs \in Seq(Requests), NEW f, NEW x, Mapped(rs, f, x)
  PROVE  (rs = <<>> <=> x = <<>>) /\ (rs # <<>> => Head(x) = f[Head(rs)] /\ Mapped(Tail(rs), f, Tail(x)))
<1> DEFINE B == Seq(Byte)
<1> HIDE DEF B
<1>1. /\ x \in Seq(B) /\ Len(x) = Len(rs) /\ \A i \in 1 .. Len(rs) : x[i] = f[rs[i]]
  BY DEF Mapped, B
<1>2. rs = <<>> <=> x = <<>>
  BY <1>1
<1>3. ASSUME rs # <<>> PROVE Head(x) = f[Head(rs)] /\ Mapped(Tail(rs), f, Tail(x))
  <2> DEFINE n == Len(rs) - 1
             y == Tail(x)
             qs == Tail(rs)
  <2>1. Len(rs) \in Nat \ {0} /\ n \in Nat /\ Head(x) = x[1] /\ Head(rs) = rs[1] /\ 1 \in 1 .. Len(rs)
    BY <1>1, <1>3
  <2>2. y \in Seq(B) /\ Len(y) = n /\ \A i \in 1 .. n : y[i] = x[i + 1]
    BY <1>1, <1>2, <1>3
  <2>3. qs \in Seq(Requests) /\ Len(qs) = n /\ \A i \in 1 .. n : qs[i] = rs[i + 1]
    BY <1>3
  <2>4. \A i \in 1 .. n : i + 1 \in 1 .. Len(rs)
    BY <2>1
  <2> HIDE DEF n, y, qs
  <2>5. Mapped(qs, f, y)
    <3>1. \A i \in 1 .. n : y[i] = f[qs[i]]
      BY <1>1, <2>2, <2>3, <2>4
    <3> QED
      BY <2>2, <2>3, <3>1 DEF Mapped, B
  <2> QED
    BY <1>1, <2>1, <2>5 DEF y, qs
<1> QED
  BY <1>2, <1>3

\* The answer to each call.
AnswerTo == [r \in Requests |-> Answer[Data[r]]]

\* Dumps and answers are bytes.
LEMMA Dumps == Data \in [Requests -> Seq(Byte)] /\ AnswerTo \in [Requests -> Seq(Byte)]
BY BinLinkAssumption DEF AnswerTo

\* The client's parser and the bytes on their way to it hold the answers xs.
AnswersHeld(custom, parser, bytes, xs) ==
  \/ custom /\ Holds("client", parser, bytes, xs) /\ Waiting(parser)
  \/ ~ custom /\ parser = ResponseParser /\ bytes = <<>> /\ xs = <<>>

\* The server's queue, its parser and the bytes on their way to it hold the requests ds.
RequestsHeld(custom, parser, queue, bytes, ds) ==
  \/ /\ custom /\ Waiting(parser)
     /\ \E ms : Handed(ds, queue, ms) /\ Holds("server", parser, bytes, ms)
  \/ /\ ~ custom /\ parser = ServerParser /\ queue = <<>> /\ ds = <<>>
     /\ \E v \in Idle("server") : bytes = <<Upgrade>> \o v

\* The calls the client has sent are those whose answers are on their way back, and
\* then those whose requests are on their way to the handler, as long as the
\* connection lives.
Linked(custom, cparser, sent, back, live, sparser, queue, forth) ==
  \E A, Q \in Seq(Requests) : \E xs, ds :
    /\ sent = A \o Q /\ Mapped(A, AnswerTo, xs) /\ Mapped(Q, Data, ds)
    /\ AnswersHeld(custom, cparser, back, xs)
    /\ live => RequestsHeld(custom, sparser, queue, forth, ds)

\* One more message comes.
LEMMA HandedAppend ==
  ASSUME NEW ds, NEW w, NEW ms, Handed(ds, w, ms), NEW d \in Seq(Byte)
  PROVE  Handed(Append(ds, d), w, Append(ms, d))
<1> DEFINE B == Seq(Byte)
           e == <<d>>
<1>0. d \in B
  OBVIOUS
<1> HIDE DEF B
<1>1. w \in Seq(B) /\ ms \in Seq(B) /\ ds = w \o ms /\ e \in Seq(B)
  BY <1>0 DEF Handed, B
<1>2. ds \in Seq(B)
  BY <1>1, ConcatElements
<1>3. Append(ds, d) = ds \o e /\ Append(ms, d) = ms \o e /\ Append(ms, d) \in Seq(B)
  BY <1>0, <1>1, <1>2, AppendConcat DEF Appends
<1> HIDE DEF e
<1>4. Regroups(w, ms, e)
  BY <1>1, Assoc
<1> QED
  BY <1>1, <1>3, <1>4 DEF Handed, Regroups, B

\* More messages are handed out.
LEMMA HandedTwice ==
  ASSUME NEW ds, NEW w, NEW ms, Handed(ds, w, ms), NEW out, NEW rest, Handed(ms, out, rest)
  PROVE  Handed(ds, w \o out, rest)
<1> DEFINE B == Seq(Byte)
<1> HIDE DEF B
<1>1. w \in Seq(B) /\ ms = out \o rest /\ ds = w \o ms /\ out \in Seq(B) /\ rest \in Seq(B)
  BY DEF Handed, B
<1>2. Regroups(w, out, rest) /\ w \o out \in Seq(B)
  BY <1>1, Assoc, ConcatElements
<1> QED
  BY <1>1, <1>2 DEF Handed, Regroups, B

\* The first of the messages handed out is the first of all.
LEMMA HandedFirst ==
  ASSUME NEW ds, NEW w, NEW ms, Handed(ds, w, ms), w # <<>>
  PROVE  /\ ds \in Seq(Seq(Byte)) /\ ds # <<>> /\ Head(ds) = Head(w) /\ Handed(Tail(ds), Tail(w), ms)
<1> DEFINE B == Seq(Byte)
<1> HIDE DEF B
<1>1. w \in Seq(B) /\ ms \in Seq(B) /\ ds = w \o ms
  BY DEF Handed, B
<1>2. ds \in Seq(B) /\ Concats(ds, w, ms)
  BY <1>1, ConcatElements
<1>3. Len(w) \in Nat \ {0} /\ Len(ms) \in Nat /\ Head(w) = w[1] /\ 1 \in 1 .. Len(w)
  BY <1>1
<1>4. Len(ds) = Len(w) + Len(ms) /\ ds[1] = w[1] /\ ds # <<>>
  BY <1>2, <1>3 DEF Concats
<1>5. Head(ds) = ds[1]
  BY <1>2, <1>4
<1> DEFINE h == <<Head(w)>>
           t == Tail(w)
<1>6. h \in Seq(B) /\ t \in Seq(B) /\ w = h \o t
  BY <1>1
<1>7. Tail(h \o (t \o ms)) = t \o ms
  <2> DEFINE y == t \o ms
  <2>1. y \in Seq(B) /\ Head(w) \in B
    BY <1>1, <1>6, ConcatElements
  <2> HIDE DEF y
  <2>2. Tail(<<Head(w)>> \o y) = y
    BY <2>1
  <2> QED
    BY <2>2 DEF y
<1> HIDE DEF h, t
<1>8. Regroups(h, t, ms)
  BY <1>1, <1>6, Assoc
<1>9. Tail(ds) = t \o ms
  BY <1>1, <1>6, <1>7, <1>8 DEF Regroups
<1>10. Handed(Tail(ds), t, ms)
  BY <1>1, <1>6, <1>9 DEF Handed, B
<1>11. ds \in Seq(Seq(Byte))
  BY <1>2 DEF B
<1>12. Head(ds) = Head(w)
  BY <1>3, <1>4, <1>5
<1> QED
  BY <1>4, <1>10, <1>11, <1>12 DEF t

\* Connection::addRequest
LEMMA LinkAdd ==
  ASSUME NEW custom, NEW cp, NEW sent, NEW back, NEW live, NEW sp, NEW queue, NEW forth,
         Linked(custom, cp, sent, back, live, sp, queue, forth), custom, NEW r \in Requests
  PROVE  Linked(custom, cp, Append(sent, r), back, live, sp, queue, forth \o Frame(Data[r]))
<1>1. PICK A \in Seq(Requests), Q \in Seq(Requests) : \E xs, ds :
        /\ sent = A \o Q /\ Mapped(A, AnswerTo, xs) /\ Mapped(Q, Data, ds)
        /\ AnswersHeld(custom, cp, back, xs)
        /\ live => RequestsHeld(custom, sp, queue, forth, ds)
  BY DEF Linked
<1>2. PICK xs, ds :
        /\ sent = A \o Q /\ Mapped(A, AnswerTo, xs) /\ Mapped(Q, Data, ds)
        /\ AnswersHeld(custom, cp, back, xs)
        /\ live => RequestsHeld(custom, sp, queue, forth, ds)
  BY <1>1
<1> DEFINE d == Data[r]
           Q2 == Append(Q, r)
           ds2 == Append(ds, d)
<1>3. d \in Seq(Byte)
  BY Dumps
<1>4. Q2 \in Seq(Requests) /\ Append(sent, r) = A \o Q2
  <2> DEFINE e == <<r>>
  <2>1. e \in Seq(Requests) /\ Q2 = Q \o e /\ A \o Q \in Seq(Requests)
    BY ConcatElements
  <2>2. Append(A \o Q, r) = (A \o Q) \o e
    BY <2>1
  <2>3. Regroups(A, Q, e) /\ Q \o e \in Seq(Requests)
    BY <2>1, Assoc, ConcatElements
  <2> QED
    BY <1>2, <2>1, <2>2, <2>3 DEF Regroups
<1>5. Mapped(Q2, Data, ds2)
  BY <1>2, Dumps, MappedAppend
<1>6. ASSUME live PROVE RequestsHeld(custom, sp, queue, forth \o Frame(d), ds2)
  <2>1. Waiting(sp)
    BY <1>2, <1>6 DEF RequestsHeld
  <2>2. PICK ms : Handed(ds, queue, ms) /\ Holds("server", sp, forth, ms)
    BY <1>2, <1>6 DEF RequestsHeld
  <2> HIDE DEF d
  <2>3. Handed(ds2, queue, Append(ms, d))
    BY <1>3, <2>2, HandedAppend
  <2>4. Holds("server", sp, forth \o Frame(d), Append(ms, d))
    BY <1>3, <2>2, HoldsSend
  <2> HIDE DEF ds2
  <2> QED
    BY <2>1, <2>3, <2>4 DEF RequestsHeld
<1> HIDE DEF Q2, ds2, d
<1>7. Linked(custom, cp, Append(sent, r), back, live, sp, queue, forth \o Frame(d))
  BY <1>2, <1>4, <1>5, <1>6 DEF Linked
<1> QED
  BY <1>7 DEF d

\* A keepalive is sent.
LEMMA LinkIdle ==
  ASSUME NEW custom, NEW cp, NEW sent, NEW back, NEW live, NEW sp, NEW queue, NEW forth,
         Linked(custom, cp, sent, back, live, sp, queue, forth)
  PROVE  Linked(custom, cp, sent, back, live, sp, queue, forth \o <<KeepAlive>>)
<1> DEFINE k == <<KeepAlive>>
<1>1. ASSUME NEW ds, RequestsHeld(custom, sp, queue, forth, ds)
      PROVE  RequestsHeld(custom, sp, queue, forth \o k, ds)
  <2>0. k \in Idle("server") /\ k \in Seq(Byte)
    BY IdleMore, IdleBytes
  <2> HIDE DEF k
  <2>1. CASE custom
    <3>1. PICK ms : Handed(ds, queue, ms) /\ Holds("server", sp, forth, ms)
      BY <1>1, <2>1 DEF RequestsHeld
    <3>2. Holds("server", sp, forth \o k, ms)
      BY <2>0, <3>1, HoldsSend
    <3> QED
      BY <1>1, <2>1, <3>1, <3>2 DEF RequestsHeld
  <2>2. CASE ~ custom
    <3>1. PICK v \in Idle("server") : forth = <<Upgrade>> \o v
      BY <1>1, <2>2 DEF RequestsHeld
    <3> DEFINE u == <<Upgrade>>
    <3>2. u \in Seq(Byte) /\ v \in Seq(Byte) /\ v \o k \in Idle("server")
      BY <2>0, Symbols, IdleBytes, IdleMore
    <3> HIDE DEF u
    <3>3. Regroups(u, v, k)
      BY <2>0, <3>2, Assoc
    <3>4. forth \o k = u \o (v \o k)
      BY <3>1, <3>3 DEF Regroups, u
    <3> QED
      BY <1>1, <2>2, <3>2, <3>4 DEF RequestsHeld, u
  <2> QED
    BY <2>1, <2>2
<1> HIDE DEF k
<1> QED
  BY <1>1 DEF Linked, k

\* The connection breaks.
LEMMA LinkDown ==
  ASSUME NEW custom, NEW cp, NEW sent, NEW back, NEW live, NEW sp, NEW queue, NEW forth,
         Linked(custom, cp, sent, back, live, sp, queue, forth), NEW x, NEW y, NEW z, NEW dead, ~ dead
  PROVE  Linked(custom, cp, sent, back, dead, x, y, z)
BY DEF Linked

\* The client's parser waits, for the handshake before the upgrade, and has not thrown.
LEMMA LinkState ==
  ASSUME NEW custom, NEW cp, NEW sent, NEW back, NEW live, NEW sp, NEW queue, NEW forth,
         Linked(custom, cp, sent, back, live, sp, queue, forth)
  PROVE  /\ cp \in Parser /\ Waiting(cp) /\ cp.state \in {"READING_HANDSHAKE", "READING_SIZE", "READING_MESSAGE"}
         /\ ~ custom => cp.state = "READING_HANDSHAKE" /\ back = <<>>
         /\ sent \in Seq(Requests)
<1>1. PICK A, Q, xs : /\ A \in Seq(Requests) /\ Q \in Seq(Requests)
                      /\ AnswersHeld(custom, cp, back, xs) /\ sent = A \o Q
  BY DEF Linked
<1>2. sent \in Seq(Requests)
  BY <1>1, ConcatElements
<1>3. CASE custom
  BY <1>1, <1>2, <1>3 DEF AnswersHeld, Holds, HeldIn
<1>4. CASE ~ custom
  <2>1. cp = ResponseParser /\ back = <<>>
    BY <1>1, <1>4 DEF AnswersHeld
  <2>2. Len(<<>>) < Len(Handshake)
    BY Symbols
  <2> QED
    BY <1>2, <2>1, <2>2 DEF ResponseParser, NewParser, Parser, States, Waiting
<1> QED
  BY <1>3, <1>4

\* What Linked says, with its witnesses.
LinkedBy(custom, cp, sent, back, live, sp, queue, forth, A, Q, xs, ds) ==
  /\ A \in Seq(Requests) /\ Q \in Seq(Requests)
  /\ sent = A \o Q /\ Mapped(A, AnswerTo, xs) /\ Mapped(Q, Data, ds)
  /\ AnswersHeld(custom, cp, back, xs)
  /\ live => RequestsHeld(custom, sp, queue, forth, ds)

\* Linked has witnesses.
LEMMA LinkedIs ==
  ASSUME NEW custom, NEW cp, NEW sent, NEW back, NEW live, NEW sp, NEW queue, NEW forth
  PROVE  Linked(custom, cp, sent, back, live, sp, queue, forth)
           <=> \E A, Q, xs, ds : LinkedBy(custom, cp, sent, back, live, sp, queue, forth, A, Q, xs, ds)
BY DEF Linked, LinkedBy

\* What is left of a queue after its first bytes.
LEMMA RestOf ==
  ASSUME NEW S, NEW a \in Seq(S), NEW b \in Seq(S)
  PROVE  From(a \o b, Len(a) + 1) = b
<1>1. Len(a) \in 0 .. Len(a)
  OBVIOUS
<1>2. Cut(S, a, Len(a)) /\ From(a \o b, Len(a) + 1) = From(a, Len(a) + 1) \o b
  BY <1>1, FromConcat
<1> DEFINE e == From(a, Len(a) + 1)
<1>3. e \in Seq(S) /\ Len(e) = 0
  <2>1. Len(a) - Len(a) = 0
    BY <1>1
  <2> QED
    BY <1>2, <2>1 DEF Cut
<1> HIDE DEF e
<1>4. e = <<>>
  BY <1>3
<1>5. <<>> \o b = b
  BY ConcatEmptySeq
<1> QED
  BY <1>2, <1>4, <1>5 DEF e

\* What reading the Upgrade request does to the link.
Upgrades(custom, cp, sent, back, live, sp, queue, bs, cs, upgraded) ==
  ~ custom /\ live /\ upgraded /\ Linked(custom, cp, sent, back, live, sp, queue, bs \o cs)
    => back = <<>> /\ Linked(upgraded, cp, sent, Handshake, live, sp, queue, cs)

\* The server reads the Upgrade request, and what follows it in the same bytes.
LEMMA LinkUpgrade ==
  ASSUME NEW custom, NEW cp, NEW sent, NEW back, NEW live, NEW sp, NEW queue,
         NEW bs \in Seq(Byte), NEW cs \in Seq(Byte), bs # <<>>, NEW upgraded
  PROVE  Upgrades(custom, cp, sent, back, live, sp, queue, bs, cs, upgraded)
<1> SUFFICES ASSUME ~ custom, live, upgraded,
                    Linked(custom, cp, sent, back, live, sp, queue, bs \o cs)
             PROVE  back = <<>> /\ Linked(upgraded, cp, sent, Handshake, live, sp, queue, cs)
  BY DEF Upgrades
<1> DEFINE none == <<>>
           u == <<Upgrade>>
<1>1. PICK A, Q, xs, ds : LinkedBy(custom, cp, sent, back, live, sp, queue, bs \o cs, A, Q, xs, ds)
  BY LinkedIs
<1>2. /\ A \in Seq(Requests) /\ Q \in Seq(Requests)
      /\ sent = A \o Q /\ Mapped(A, AnswerTo, xs) /\ Mapped(Q, Data, ds)
      /\ cp = ResponseParser /\ back = <<>> /\ xs = <<>>
      /\ sp = ServerParser /\ queue = <<>> /\ ds = <<>>
      /\ \E v \in Idle("server") : bs \o cs = u \o v
  BY <1>1 DEF LinkedBy, AnswersHeld, RequestsHeld
<1>3. PICK v \in Idle("server") : bs \o cs = u \o v
  BY <1>2
<1>4. u \in Seq(Byte) /\ Len(u) = 1 /\ v \in Seq(Byte)
  BY Symbols, IdleBytes
<1>5. Len(bs) \in Nat \ {0}
  OBVIOUS
<1>6. cs \in Idle("server")
  <2> HIDE DEF u
  <2> DEFINE w == From(bs, Len(u) + 1)
  <2>1. Overlaps(Byte, bs, cs, u, v)
    <3>1. Joined(bs, cs, u, v) /\ Len(u) <= Len(bs)
      BY <1>3, <1>4, <1>5 DEF Joined
    <3> QED
      BY <1>4, <3>1, Overlap
  <2>2. w \in Seq(Byte) /\ v = w \o cs
    BY <2>1 DEF Overlaps
  <2> HIDE DEF w
  <2>3. From(v, Len(w) + 1) = cs
    BY <2>2, RestOf
  <2>4. Len(w) \in 0 .. Len(v)
    <3>1. Concats(v, w, cs) /\ Len(w) \in Nat /\ Len(cs) \in Nat
      BY <2>2, ConcatElements
    <3> QED
      BY <3>1 DEF Concats
  <2> QED
    BY <2>3, <2>4, IdleBytes
<1>7. none \in Seq(Byte) /\ none \in Seq(Seq(Byte)) /\ none \o none = none /\ none \o cs = cs
  BY ConcatEmptySeq
<1>8. none \o Handshake = Handshake /\ Handshake \o none = Handshake /\ Handshake \in Seq(Byte)
  BY Symbols, ConcatEmptySeq
<1>9. Stream("server", cs, none) /\ Stream("client", none, none)
  BY <1>6, StreamIdle, IdleMore
<1>10. /\ ServerParser \in Parser /\ ServerParser.state = "READING_SIZE" /\ ServerParser.m_cur_token = none
       /\ ResponseParser \in Parser /\ ResponseParser.state = "READING_HANDSHAKE" /\ ResponseParser.m_cur_token = none
       /\ Waiting(ServerParser) /\ Waiting(ResponseParser)
  <2>1. 0 < Len(Handshake)
    BY Symbols
  <2>2. Range(none) = {} /\ Len(none) = 0
    BY DEF Range
  <2> QED
    BY <1>7, <2>1, <2>2 DEF ServerParser, ResponseParser, NewParser, Parser, States, Waiting
<1> HIDE DEF none
<1>11. Holds("server", ServerParser, cs, none)
  BY <1>7, <1>9, <1>10 DEF Holds, HeldIn
<1>12. Holds("client", ResponseParser, Handshake, none)
  BY <1>7, <1>8, <1>9, <1>10 DEF Holds, HeldIn, Joined
<1>13. Handed(none, none, none)
  BY <1>7 DEF Handed
<1>14. RequestsHeld(upgraded, sp, queue, cs, ds)
  BY <1>2, <1>10, <1>11, <1>13 DEF RequestsHeld, none
<1>15. AnswersHeld(upgraded, cp, Handshake, xs)
  BY <1>2, <1>10, <1>12 DEF AnswersHeld, none
<1>16. LinkedBy(upgraded, cp, sent, Handshake, live, sp, queue, cs, A, Q, xs, ds)
  BY <1>2, <1>14, <1>15 DEF LinkedBy
<1> QED
  BY <1>2, <1>16, LinkedIs

\* What the server makes of the bytes it receives.
Served(custom, cp, sent, back, live, queue, cs, r) ==
  /\ r.parser \in Parser /\ r.out \in Seq(Seq(Byte))
  /\ \/ r.parser.state = "THROWN"
     \/ /\ r.parser.state \notin {"THROWN", "UNDEFINED"}
        /\ Linked(custom, cp, sent, back, live, r.parser, queue \o r.out, cs)

\* The server receives the bytes bs, with cs still to come.
RequestsRead(custom, cp, sent, back, live, sp, queue, bs, cs) ==
  \E r : /\ Receive("server", RequestLimit, sp, bs) = {r}
         /\ Served(custom, cp, sent, back, live, queue, cs, r)

\* What the server takes from the stream goes from the stream to its queue.
LEMMA LinkServe ==
  ASSUME NEW custom, NEW cp, NEW sent, NEW back, NEW live, NEW sp, NEW queue,
         NEW bs \in Seq(Byte), NEW cs \in Seq(Byte),
         Linked(custom, cp, sent, back, live, sp, queue, bs \o cs), custom, live
  PROVE  RequestsRead(custom, cp, sent, back, live, sp, queue, bs, cs)
<1>1. PICK A, Q, xs, ds : LinkedBy(custom, cp, sent, back, live, sp, queue, bs \o cs, A, Q, xs, ds)
  BY LinkedIs
<1>2. RequestsHeld(custom, sp, queue, bs \o cs, ds)
  BY <1>1 DEF LinkedBy
<1>3. PICK ms : Handed(ds, queue, ms) /\ Holds("server", sp, bs \o cs, ms)
  BY <1>2 DEF RequestsHeld
<1>4. Waiting(sp) /\ RequestLimit \in Nat
  BY <1>2, BinFramesAssumption DEF RequestsHeld
<1>5. PICK r : Receive("server", RequestLimit, sp, bs) = {r} /\ Received("server", RequestLimit, cs, ms, r)
  BY <1>3, <1>4, ReceiveHolds
<1>6. CASE Thrown(RequestLimit, ms, r)
  BY <1>5, <1>6 DEF Received, Thrown, Served, RequestsRead, Handed
<1>7. CASE Stopped("server", cs, ms, r)
  <2>1. PICK rest : Handed(ms, r.out, rest) /\ Holds("server", r.parser, cs, rest)
    BY <1>7 DEF Stopped
  <2>2. Handed(ds, queue \o r.out, rest)
    BY <1>3, <2>1, HandedTwice
  <2>3. RequestsHeld(custom, r.parser, queue \o r.out, cs, ds)
    BY <1>7, <2>1, <2>2 DEF RequestsHeld, Stopped
  <2>4. LinkedBy(custom, cp, sent, back, live, r.parser, queue \o r.out, cs, A, Q, xs, ds)
    BY <1>1, <2>3 DEF LinkedBy
  <2>5. r.parser.state \notin {"THROWN", "UNDEFINED"}
    BY <2>1 DEF Holds, HeldIn
  <2>6. Linked(custom, cp, sent, back, live, r.parser, queue \o r.out, cs)
    BY <2>4, LinkedIs
  <2>7. r.parser \in Parser /\ r.out \in Seq(Seq(Byte))
    BY <2>1 DEF Holds, Handed
  <2> QED
    BY <1>5, <2>5, <2>6, <2>7 DEF Served, RequestsRead
<1> QED
  BY <1>5, <1>6, <1>7 DEF Received

\* The server handles a request.
LEMMA LinkHandle ==
  ASSUME NEW custom, NEW cp, NEW sent, NEW back, NEW live, NEW sp, NEW queue, NEW forth,
         Linked(custom, cp, sent, back, live, sp, queue, forth), custom, live, queue # <<>>
  PROVE  /\ Answer[Head(queue)] \in Seq(Byte)
         /\ Linked(custom, cp, sent, back \o Frame(Answer[Head(queue)]), live, sp, Tail(queue), forth)
<1>1. PICK A, Q, xs, ds : LinkedBy(custom, cp, sent, back, live, sp, queue, forth, A, Q, xs, ds)
  BY LinkedIs
<1>2. /\ A \in Seq(Requests) /\ Q \in Seq(Requests)
      /\ sent = A \o Q /\ Mapped(A, AnswerTo, xs) /\ Mapped(Q, Data, ds)
  BY <1>1 DEF LinkedBy
<1>3. PICK ms : Handed(ds, queue, ms) /\ Holds("server", sp, forth, ms)
  BY <1>1 DEF LinkedBy, RequestsHeld
<1>4. ds # <<>> /\ Head(ds) = Head(queue) /\ Handed(Tail(ds), Tail(queue), ms)
  BY <1>3, HandedFirst
<1>5. Q # <<>> /\ Head(ds) = Data[Head(Q)] /\ Mapped(Tail(Q), Data, Tail(ds))
  BY <1>2, <1>4, MappedEmpty
<1> DEFINE q == Head(Q)
           a == AnswerTo[q]
<1>6. q \in Requests /\ Tail(Q) \in Seq(Requests) /\ Append(A, q) \in Seq(Requests)
  BY <1>2, <1>5
<1>7. a = Answer[Head(queue)] /\ a \in Seq(Byte)
  BY <1>4, <1>5, <1>6, Dumps DEF AnswerTo
<1>8. sent = Append(A, q) \o Tail(Q)
  <2>1. Joined(Append(A, q), Tail(Q), A, Q)
    BY <1>2, <1>5, HeadMoves
  <2> QED
    BY <1>2, <2>1 DEF Joined
<1> HIDE DEF q
<1>9. Mapped(Append(A, q), AnswerTo, Append(xs, a))
  BY <1>2, <1>6, Dumps, MappedAppend
<1> HIDE DEF a
<1>10. AnswersHeld(custom, cp, back \o Frame(a), Append(xs, a))
  <2>1. Holds("client", cp, back, xs) /\ Waiting(cp)
    BY <1>1 DEF LinkedBy, AnswersHeld
  <2>2. Holds("client", cp, back \o Frame(a), Append(xs, a))
    BY <1>7, <2>1, HoldsSend
  <2> QED
    BY <2>1, <2>2 DEF AnswersHeld
<1>11. RequestsHeld(custom, sp, Tail(queue), forth, Tail(ds))
  <2>1. Waiting(sp)
    BY <1>1 DEF LinkedBy, RequestsHeld
  <2> QED
    BY <1>3, <1>4, <2>1 DEF RequestsHeld
<1>12. LinkedBy(custom, cp, sent, back \o Frame(a), live, sp, Tail(queue), forth,
               Append(A, q), Tail(Q), Append(xs, a), Tail(ds))
  BY <1>5, <1>6, <1>8, <1>9, <1>10, <1>11 DEF LinkedBy, q
<1> QED
  BY <1>7, <1>12, LinkedIs

\* What the client makes of the bytes it receives.
Answered(custom, sent, live, sp, queue, forth, cs, r) ==
  /\ r.parser \in Parser /\ r.out \in Seq(Seq(Byte)) /\ Len(r.out) \in 0 .. Len(sent)
  /\ \A i \in 1 .. Len(r.out) : r.out[i] = AnswerTo[sent[i]]
  /\ \/ r.parser.state = "THROWN"
     \/ /\ r.parser.state \notin {"THROWN", "UNDEFINED"}
        /\ Linked(custom, r.parser, From(sent, Len(r.out) + 1), cs, live, sp, queue, forth)

\* The client receives the bytes bs, with cs still to come.
AnswersRead(custom, cp, sent, live, sp, queue, forth, bs, cs) ==
  \E r : /\ Receive("client", ResponseLimit, cp, bs) = {r}
         /\ Answered(custom, sent, live, sp, queue, forth, cs, r)

\* The messages the client takes from the stream are the answers to its oldest calls.
LEMMA LinkRead ==
  ASSUME NEW custom, NEW cp, NEW sent, NEW live, NEW sp, NEW queue, NEW forth,
         NEW bs \in Seq(Byte), NEW cs \in Seq(Byte), bs # <<>>,
         Linked(custom, cp, sent, bs \o cs, live, sp, queue, forth)
  PROVE  AnswersRead(custom, cp, sent, live, sp, queue, forth, bs, cs)
<1> DEFINE B == Seq(Byte)
<1>1. PICK A, Q, xs, ds : LinkedBy(custom, cp, sent, bs \o cs, live, sp, queue, forth, A, Q, xs, ds)
  BY LinkedIs
<1>2. /\ A \in Seq(Requests) /\ Q \in Seq(Requests)
      /\ sent = A \o Q /\ Mapped(A, AnswerTo, xs) /\ Mapped(Q, Data, ds)
      /\ AnswersHeld(custom, cp, bs \o cs, xs)
  BY <1>1 DEF LinkedBy
<1>3. custom /\ Holds("client", cp, bs \o cs, xs) /\ Waiting(cp)
  <2>1. bs \o cs # <<>>
    <3>1. Len(bs \o cs) = Len(bs) + Len(cs) /\ Len(bs) \in Nat \ {0} /\ Len(cs) \in Nat
      OBVIOUS
    <3> QED
      BY <3>1
  <2> QED
    BY <1>2, <2>1 DEF AnswersHeld
<1>4. PICK r : Receive("client", ResponseLimit, cp, bs) = {r} /\ Received("client", ResponseLimit, cs, xs, r)
  <2>1. ResponseLimit \in Nat
    BY BinFramesAssumption
  <2> QED
    BY <1>3, <2>1, ReceiveHolds
<1>5. PICK rest : Handed(xs, r.out, rest)
  BY <1>4 DEF Received, Thrown, Stopped
<1> DEFINE out == r.out
           k == Len(out)
           A1 == SubSeq(A, 1, k)
           A2 == From(A, k + 1)
<1> HIDE DEF out, B
<1>6. out \in Seq(B) /\ rest \in Seq(B) /\ xs = out \o rest /\ k \in Nat /\ Len(rest) \in Nat
  BY <1>5 DEF Handed, out, B
<1>7. Concats(xs, out, rest)
  BY <1>6, ConcatElements
<1>8. Len(xs) = Len(A) /\ \A i \in 1 .. Len(A) : xs[i] = AnswerTo[A[i]]
  BY <1>2 DEF Mapped
<1>9. Concats(sent, A, Q) /\ Len(A) \in Nat /\ Len(Q) \in Nat
  BY <1>2, ConcatElements
<1>10. k \in 0 .. Len(A) /\ k \in 0 .. Len(sent) /\ Len(A) = k + Len(rest)
  BY <1>6, <1>7, <1>8, <1>9 DEF Concats
<1>11. ASSUME NEW i \in 1 .. k PROVE out[i] = AnswerTo[sent[i]]
  <2>1. i \in 1 .. Len(A)
    BY <1>6, <1>9, <1>10
  <2>2. xs[i] = out[i] /\ sent[i] = A[i]
    BY <1>7, <1>9, <2>1 DEF Concats
  <2> QED
    BY <1>8, <2>1, <2>2
<1>12. Cut(Requests, A, k) /\ From(sent, k + 1) = A2 \o Q
  BY <1>2, <1>10, FromConcat
<1>13. A2 \in Seq(Requests) /\ Mapped(A2, AnswerTo, rest)
  <2>1. A2 \in Seq(Requests) /\ Len(A2) = Len(A) - k /\ \A i \in 1 .. Len(A) - k : A2[i] = A[k + i]
    BY <1>12 DEF Cut
  <2> HIDE DEF A2, k
  <2>2. Len(A) - k = Len(rest) /\ \A i \in 1 .. Len(rest) : k + i \in 1 .. Len(A)
    BY <1>6, <1>9, <1>10
  <2>3. \A i \in 1 .. Len(rest) : xs[k + i] = rest[i]
    BY <1>7 DEF Concats, k
  <2>4. \A i \in 1 .. Len(rest) : rest[i] = AnswerTo[A2[i]]
    BY <1>8, <2>1, <2>2, <2>3
  <2> QED
    BY <1>6, <2>1, <2>2, <2>4 DEF Mapped, B
<1> HIDE DEF A2, A1, k
<1>14. out \in Seq(Seq(Byte))
  BY <1>6 DEF B
<1>15. CASE Thrown(ResponseLimit, xs, r)
  BY <1>4, <1>10, <1>11, <1>14, <1>15 DEF Received, Thrown, Answered, AnswersRead, k, out
<1>16. CASE Stopped("client", cs, xs, r)
  <2>1. PICK rest2 : Handed(xs, r.out, rest2) /\ Holds("client", r.parser, cs, rest2)
    BY <1>16 DEF Stopped
  <2>2. rest2 = rest
    <3>1. rest2 \in Seq(B) /\ xs = out \o rest2
      BY <2>1 DEF Handed, B, out
    <3>2. From(xs, k + 1) = rest2 /\ From(xs, k + 1) = rest
      BY <1>6, <3>1, RestOf, ZenonT(60) DEF k
    <3> QED
      BY <3>2
  <2>3. AnswersHeld(custom, r.parser, cs, rest)
    BY <1>3, <1>16, <2>1, <2>2 DEF AnswersHeld, Stopped
  <2>4. LinkedBy(custom, r.parser, From(sent, k + 1), cs, live, sp, queue, forth, A2, Q, rest, ds)
    BY <1>1, <1>12, <1>13, <2>3 DEF LinkedBy
  <2>5. Linked(custom, r.parser, From(sent, k + 1), cs, live, sp, queue, forth)
    BY <2>4, LinkedIs
  <2>6. r.parser.state \notin {"THROWN", "UNDEFINED"} /\ r.parser \in Parser
    BY <2>1 DEF Holds, HeldIn
  <2> QED
    BY <1>4, <1>10, <1>11, <1>14, <2>5, <2>6 DEF Answered, AnswersRead, k, out
<1> QED
  BY <1>4, <1>15, <1>16 DEF Received

-------------------------------------------------------------------------------
(* The server's queues. *)

\* What is on its way to the client: in the network, in the send buffer and in the
\* two queues of the server.
OutOf(o, b, rs, qs) == o \o b \o FlattenSeq(rs) \o FlattenSeq(qs)

\* It is bytes.
LEMMA OutBytes ==
  ASSUME NEW o \in Seq(Byte), NEW b \in Seq(Byte), NEW rs \in Seq(Seq(Byte)), NEW qs \in Seq(Seq(Byte))
  PROVE  /\ OutOf(o, b, rs, qs) \in Seq(Byte)
         /\ OutOf(o, b, rs, qs) = o \o (b \o (FlattenSeq(rs) \o FlattenSeq(qs)))
<1> DEFINE c == FlattenSeq(rs)
           d == FlattenSeq(qs)
<1>1. c \in Seq(Byte) /\ d \in Seq(Byte)
  BY FlattenType
<1> HIDE DEF c, d
<1>2. Four(o, b, c, d) /\ o \o b \o c \o d \in Seq(Byte)
  BY <1>1, FourRegroup
<1> QED
  BY <1>2 DEF OutOf, Four, c, d

\* A send moves bytes from the buffer to the network.
LEMMA OutSend ==
  ASSUME NEW o \in Seq(Byte), NEW b \in Seq(Byte), NEW n \in 0 .. Len(b), NEW rs, NEW qs
  PROVE  /\ o \o SubSeq(b, 1, n) \in Seq(Byte) /\ From(b, n + 1) \in Seq(Byte)
         /\ (o \o SubSeq(b, 1, n)) \o From(b, n + 1) = o \o b
         /\ OutOf(o \o SubSeq(b, 1, n), From(b, n + 1), rs, qs) = OutOf(o, b, rs, qs)
<1> DEFINE x == SubSeq(b, 1, n)
           y == From(b, n + 1)
<1>1. x \in Seq(Byte) /\ y \in Seq(Byte) /\ x \o y = b
  BY FromConcat DEF Cut
<1> HIDE DEF x, y
<1>2. Regroups(o, x, y) /\ o \o x \in Seq(Byte)
  BY <1>1, Assoc, ConcatElements
<1>3. (o \o x) \o y = o \o b
  BY <1>1, <1>2 DEF Regroups
<1> QED
  BY <1>1, <1>2, <1>3 DEF OutOf, x, y

\* performSend takes the next response.
LEMMA OutLoad ==
  ASSUME NEW o \in Seq(Byte), NEW rs \in Seq(Seq(Byte)), rs # <<>>, NEW qs \in Seq(Seq(Byte))
  PROVE  OutOf(o, Head(rs), Tail(rs), qs) = OutOf(o, <<>>, rs, qs)
<1> DEFINE B == Seq(Byte)
           h == Head(rs)
           t == FlattenSeq(Tail(rs))
           c == FlattenSeq(rs)
           d == FlattenSeq(qs)
<1>1. h \in B /\ Tail(rs) \in Seq(B)
  OBVIOUS
<1>2. t \in Seq(Byte) /\ c \in Seq(Byte) /\ d \in Seq(Byte) /\ h \in Seq(Byte)
  BY <1>1, FlattenType
<1>3. c = h \o t
  BY FlattenHead
<1>4. o \o <<>> = o
  BY ConcatEmptySeq
<1> HIDE DEF h, t, c, d
<1>5. Regroups(o, h, t)
  BY <1>2, Assoc
<1>6. (o \o h) \o t = o \o c
  BY <1>3, <1>5 DEF Regroups
<1> QED
  BY <1>4, <1>6 DEF OutOf, h, t, c, d

\* handleEvents moves a response to the connection.
LEMMA OutTake ==
  ASSUME NEW o \in Seq(Byte), NEW b \in Seq(Byte), NEW rs \in Seq(Seq(Byte)),
         NEW qs \in Seq(Seq(Byte)), qs # <<>>
  PROVE  OutOf(o, b, Append(rs, Head(qs)), Tail(qs)) = OutOf(o, b, rs, qs)
<1> DEFINE B == Seq(Byte)
           h == Head(qs)
           t == FlattenSeq(Tail(qs))
           c == FlattenSeq(rs)
           d == FlattenSeq(qs)
           x == o \o b
           y == x \o c
<1>1. h \in B /\ Tail(qs) \in Seq(B)
  OBVIOUS
<1>2. t \in Seq(Byte) /\ c \in Seq(Byte) /\ d \in Seq(Byte) /\ h \in Seq(Byte) /\ x \in Seq(Byte)
  BY <1>1, FlattenType, ConcatElements
<1>3. d = h \o t
  BY FlattenHead
<1>4. FlattenSeq(Append(rs, h)) = c \o h
  <2>1. \A e \in Seq(Byte) : FlattenSeq(Append(rs, e)) = FlattenSeq(rs) \o e
    BY FlattenAppend
  <2> QED
    BY <1>2, <2>1
<1> HIDE DEF h, t, c, d, x
<1>5. Regroups(x, c, h) /\ y \in Seq(Byte)
  BY <1>2, Assoc, ConcatElements
<1> HIDE DEF y
<1>6. Regroups(y, h, t)
  BY <1>2, <1>5, Assoc
<1>7. (x \o (c \o h)) \o t = y \o d
  BY <1>3, <1>5, <1>6 DEF Regroups, y
<1> QED
  BY <1>4, <1>7 DEF OutOf, h, t, c, d, x, y

\* e is added to what is on its way.
OutGrows(o, b, rs, qs, e) ==
  /\ OutOf(o, b, rs, Append(qs, e)) = OutOf(o, b, rs, qs) \o e
  /\ Append(qs, e) \in Seq(Seq(Byte))

\* onSendCustomResponse
LEMMA OutAdd ==
  ASSUME NEW o \in Seq(Byte), NEW b \in Seq(Byte), NEW rs \in Seq(Seq(Byte)),
         NEW qs \in Seq(Seq(Byte)), NEW e \in Seq(Byte)
  PROVE  OutGrows(o, b, rs, qs, e)
<1> DEFINE c == FlattenSeq(rs)
           d == FlattenSeq(qs)
           x == o \o b \o c
<1>1. c \in Seq(Byte) /\ d \in Seq(Byte)
  BY FlattenType
<1>2. FlattenSeq(Append(qs, e)) = d \o e
  BY FlattenAppend
<1>3. x \in Seq(Byte)
  <2> HIDE DEF c
  <2>1. o \o b \in Seq(Byte)
    BY ConcatElements
  <2> QED
    BY <1>1, <2>1, ConcatElements
<1>4. Append(qs, e) \in Seq(Seq(Byte))
  <2> DEFINE B == Seq(Byte)
  <2>1. e \in B
    OBVIOUS
  <2> HIDE DEF B
  <2>2. qs \in Seq(B)
    BY DEF B
  <2>3. Append(qs, e) \in Seq(B)
    BY <2>1, <2>2, AppendConcat DEF Appends
  <2> QED
    BY <2>3 DEF B
<1> HIDE DEF c, d, x
<1>5. Regroups(x, d, e)
  BY <1>1, <1>3, Assoc
<1>6. x \o (d \o e) = (x \o d) \o e
  BY <1>5 DEF Regroups
<1> QED
  BY <1>2, <1>4, <1>6 DEF OutGrows, OutOf, x, c, d

\* What a send takes of a buffer.
LEMMA TakesPart ==
  ASSUME NEW room \in Nat, NEW s \in Seq(Byte), NEW b \in Seq(Byte)
  PROVE  Takes(room, s, b) \in 0 .. Len(b)
<1> DEFINE free == IF Len(s) < room THEN room - Len(s) ELSE 0
           I == {Len(b), free}
<1>1. Len(b) \in Nat /\ Len(s) \in Nat
  OBVIOUS
<1>2. free \in Nat
  BY <1>1
<1> HIDE DEF free
<1>3. I \subseteq Nat /\ I # {} /\ Len(b) \in I
  BY <1>1, <1>2
<1>4. Min(I) \in I /\ \A y \in I : Min(I) =< y
  <2> HIDE DEF I
  <2> QED
    BY <1>3, NatMin
<1>5. Min(I) \in Nat /\ Min(I) <= Len(b)
  <2> HIDE DEF I
  <2> QED
    BY <1>3, <1>4
<1> QED
  BY <1>1, <1>5 DEF Takes, free

-------------------------------------------------------------------------------
(* The two ends of a connection. *)

\* Linked, for the client's connection c, the server's s, and the streams i and o.
Link(c, s, i, o, u) ==
  Linked(s.custom_protocol, c.m_parser, c.m_sent_requests,
         OutOf(o, s.m_send_buffer, s.m_resps, s.m_custom_resp_queue),
         u, s.m_custom_parser, s.custom_requests, i \o c.m_send_buffer)

\* The types of these.
Typed(c, s, i, o, u) ==
  c \in ClientConn /\ s \in ServerConn /\ i \in Seq(Byte) /\ o \in Seq(Byte) /\ u \in BOOLEAN

\* What holds of the two ends of a connection: no parser has read what is no number,
\* and the calls sent correspond to what is under way.
Sound(c, s, i, o, u) ==
  /\ Typed(c, s, i, o, u)
  /\ c.state \in {"NONE", "HANDSHAKING", "ACTIVE", "CORRUPT"}
  /\ s.m_custom_parser.state # "UNDEFINED"
  /\ c.state \in {"NONE", "CORRUPT"} => ~ u
  /\ c.state \in {"HANDSHAKING", "ACTIVE"} =>
       /\ (c.state = "HANDSHAKING" <=> c.m_parser.state = "READING_HANDSHAKE")
       /\ Link(c, s, i, o, u)

\* Only the watcher's part of a connection changes.
LEMMA SoundSame ==
  ASSUME NEW c, NEW s, NEW i, NEW o, NEW u, Sound(c, s, i, o, u), NEW d \in ClientConn,
         d.state = c.state, d.m_parser = c.m_parser, d.m_sent_requests = c.m_sent_requests,
         d.m_send_buffer = c.m_send_buffer
  PROVE  Sound(d, s, i, o, u)
BY DEF Sound, Typed, Link

\* Connection::performSend
LEMMA SoundSend ==
  ASSUME NEW c, NEW s, NEW i, NEW o, NEW u, Sound(c, s, i, o, u),
         NEW n \in 0 .. Len(c.m_send_buffer), NEW w \in {"now", "later", "no"}
  PROVE  Sound([c EXCEPT !.m_send_buffer = From(@, n + 1), !.writable = w], s,
               i \o SubSeq(c.m_send_buffer, 1, n), o, u)
<1> DEFINE b == c.m_send_buffer
           x == SubSeq(b, 1, n)
           y == From(b, n + 1)
           d == [c EXCEPT !.m_send_buffer = y, !.writable = w]
<1>1. c \in ClientConn /\ b \in Seq(Byte) /\ i \in Seq(Byte) /\ s \in ServerConn /\ o \in Seq(Byte) /\ u \in BOOLEAN
  BY DEF Sound, Typed, ClientConn
<1>2. i \o x \in Seq(Byte) /\ y \in Seq(Byte) /\ (i \o x) \o y = i \o b
  <2> HIDE DEF b
  <2>1. n \in 0 .. Len(b)
    BY DEF b
  <2> QED
    BY <1>1, <2>1, OutSend
<1> HIDE DEF x, y
<1>3. /\ d \in ClientConn /\ d.state = c.state /\ d.m_parser = c.m_parser
      /\ d.m_sent_requests = c.m_sent_requests /\ d.m_send_buffer = y
  BY <1>1, <1>2 DEF ClientConn
<1>4. Typed(d, s, i \o x, o, u)
  BY <1>1, <1>2, <1>3 DEF Typed
<1> HIDE DEF d, b
<1>5. Link(c, s, i, o, u) => Link(d, s, i \o x, o, u)
  BY <1>2, <1>3 DEF Link, b
<1>6. Sound(d, s, i \o x, o, u)
  BY <1>3, <1>4, <1>5 DEF Sound
<1> QED
  BY <1>6 DEF d, x, y, b

\* Connection::addRequest
LEMMA SoundAdd ==
  ASSUME NEW c, NEW s, NEW i, NEW o, NEW u, Sound(c, s, i, o, u), c.state = "ACTIVE",
         NEW r \in Requests
  PROVE  Sound(AddRequest(c, r), s, i, o, u)
<1> DEFINE b == c.m_send_buffer
           f == Frame(Data[r])
           q == Append(c.m_sent_requests, r)
           d == AddRequest(c, r)
<1>1. c \in ClientConn /\ b \in Seq(Byte) /\ i \in Seq(Byte) /\ s \in ServerConn /\ o \in Seq(Byte) /\ u \in BOOLEAN
  BY DEF Sound, Typed, ClientConn
<1>2. f \in Seq(Byte) /\ q \in Seq(Requests)
  BY <1>1, Dumps, FrameShape DEF ClientConn
<1> HIDE DEF f
<1>3. b \o f \in Seq(Byte) /\ Regroups(i, b, f)
  BY <1>1, <1>2, Assoc, ConcatElements
<1> HIDE DEF q
<1>4. /\ d \in ClientConn /\ d.state = c.state /\ d.m_parser = c.m_parser
      /\ d.m_sent_requests = q /\ d.m_send_buffer = b \o f
  BY <1>1, <1>2, <1>3 DEF ClientConn, AddRequest, f, q
<1> HIDE DEF d, b
<1>5. Typed(d, s, i, o, u)
  BY <1>1, <1>4 DEF Typed
<1>6. Link(c, s, i, o, u) /\ c.m_parser.state # "READING_HANDSHAKE"
  BY DEF Sound
<1> DEFINE back == OutOf(o, s.m_send_buffer, s.m_resps, s.m_custom_resp_queue)
           forth == i \o b
<1>7. Linked(s.custom_protocol, c.m_parser, c.m_sent_requests, back, u,
             s.m_custom_parser, s.custom_requests, forth)
  BY <1>6 DEF Link, b
<1>8. s.custom_protocol
  <2> HIDE DEF back, forth
  <2>1. ~ s.custom_protocol => c.m_parser.state = "READING_HANDSHAKE"
    BY <1>7, LinkState
  <2> QED
    BY <1>6, <2>1
<1>9. Linked(s.custom_protocol, c.m_parser, q, back, u,
             s.m_custom_parser, s.custom_requests, forth \o f)
  <2> HIDE DEF back, forth
  <2> QED
    BY <1>7, <1>8, LinkAdd DEF q, f
<1>10. Link(d, s, i, o, u)
  <2>1. i \o d.m_send_buffer = forth \o f
    BY <1>3, <1>4 DEF Regroups
  <2> QED
    BY <1>4, <1>9, <2>1 DEF Link
<1>11. Sound(d, s, i, o, u)
  BY <1>4, <1>5, <1>10 DEF Sound
<1> QED
  BY <1>11 DEF d

\* checkKeepAlive puts its byte into the empty buffer.
LEMMA SoundIdle ==
  ASSUME NEW c, NEW s, NEW i, NEW o, NEW u, Sound(c, s, i, o, u), c.m_send_buffer = <<>>,
         c.state \in {"HANDSHAKING", "ACTIVE"}
  PROVE  Sound([c EXCEPT !.m_send_buffer = <<KeepAlive>>], s, i, o, u)
<1> DEFINE k == <<KeepAlive>>
           d == [c EXCEPT !.m_send_buffer = k]
<1>1. c \in ClientConn /\ i \in Seq(Byte) /\ s \in ServerConn /\ o \in Seq(Byte) /\ u \in BOOLEAN
  BY DEF Sound, Typed
<1>2. k \in Seq(Byte)
  BY Symbols
<1> HIDE DEF k
<1>3. /\ d \in ClientConn /\ d.state = c.state /\ d.m_parser = c.m_parser
      /\ d.m_sent_requests = c.m_sent_requests /\ d.m_send_buffer = k
  BY <1>1, <1>2 DEF ClientConn
<1> HIDE DEF d
<1>4. Typed(d, s, i, o, u)
  BY <1>1, <1>3 DEF Typed
<1>5. i \o <<>> = i
  BY <1>1, ConcatEmptySeq
<1>6. Link(c, s, i, o, u)
  BY DEF Sound
<1> DEFINE back == OutOf(o, s.m_send_buffer, s.m_resps, s.m_custom_resp_queue)
<1>7. Linked(s.custom_protocol, c.m_parser, c.m_sent_requests, back, u,
             s.m_custom_parser, s.custom_requests, i)
  BY <1>5, <1>6 DEF Link
<1>8. Linked(s.custom_protocol, c.m_parser, c.m_sent_requests, back, u,
             s.m_custom_parser, s.custom_requests, i \o k)
  <2> HIDE DEF back
  <2> QED
    BY <1>7, LinkIdle DEF k
<1>9. Link(d, s, i, o, u)
  BY <1>3, <1>8 DEF Link
<1>10. Sound(d, s, i, o, u)
  BY <1>3, <1>4, <1>9 DEF Sound
<1> QED
  BY <1>10 DEF d, k

\* A new connection.
LEMMA SoundNew == Sound(NewClientConn, NewServerConn, <<Upgrade>>, <<>>, TRUE)
<1> DEFINE none == <<>>
           u == <<Upgrade>>
           c == NewClientConn
           s == NewServerConn
<1>1. none \in Seq(Byte) /\ none \in Seq(Requests) /\ none \in Seq(Seq(Byte)) /\ u \in Seq(Byte)
  BY Symbols
<1>2. ServerParser \in Parser /\ ResponseParser \in Parser
  BY <1>1 DEF ServerParser, ResponseParser, NewParser, Parser, States
<1>3. c \in ClientConn /\ s \in ServerConn
  BY <1>1, <1>2 DEF ClientConn, ServerConn, NewClientConn, NewServerConn
<1>4. Typed(c, s, u, none, TRUE)
  BY <1>1, <1>3 DEF Typed
<1>5. c.state = "HANDSHAKING" /\ c.m_parser.state = "READING_HANDSHAKE" /\ s.m_custom_parser.state = "READING_SIZE"
  BY DEF NewClientConn, NewServerConn, ServerParser, ResponseParser, NewParser
<1>6. OutOf(none, none, none, none) = none
  <2>1. FlattenSeq(none) = none
    BY FlattenType
  <2>2. none \o none = none
    OBVIOUS
  <2> HIDE DEF none
  <2> QED
    BY <2>1, <2>2 DEF OutOf
<1>7. AnswersHeld(FALSE, ResponseParser, none, none)
  BY DEF AnswersHeld
<1>8. RequestsHeld(FALSE, ServerParser, none, u \o none, none)
  BY IdleMore DEF RequestsHeld
<1>9. Mapped(none, AnswerTo, none) /\ Mapped(none, Data, none)
  BY <1>1 DEF Mapped
<1>10. none = none \o none
  OBVIOUS
<1> HIDE DEF none, u
<1>11. LinkedBy(FALSE, ResponseParser, none, none, TRUE, ServerParser, none, u \o none, none, none, none, none)
  BY <1>1, <1>7, <1>8, <1>9, <1>10 DEF LinkedBy
<1>12. Linked(FALSE, ResponseParser, none, none, TRUE, ServerParser, none, u \o none)
  BY <1>11, LinkedIs
<1>13. Link(c, s, u, none, TRUE)
  BY <1>6, <1>12 DEF Link, NewClientConn, NewServerConn, none
<1>14. Sound(c, s, u, none, TRUE)
  BY <1>4, <1>5, <1>13 DEF Sound
<1> QED
  BY <1>14 DEF none, u

\* No connection.
LEMMA SoundNone ==
  ASSUME NEW c, NEW s, NEW i, NEW o, NEW u, Sound(c, s, i, o, u), NEW dead \in BOOLEAN, ~ dead
  PROVE  Sound(NoClientConn, s, i, o, dead)
<1> DEFINE none == <<>>
           d == NoClientConn
<1>1. none \in Seq(Byte) /\ none \in Seq(Requests)
  OBVIOUS
<1>2. ResponseParser \in Parser
  BY <1>1 DEF ResponseParser, NewParser, Parser, States
<1>3. d \in ClientConn /\ d.state = "NONE"
  BY <1>1, <1>2 DEF ClientConn, NewClientConn, NoClientConn
<1> HIDE DEF d
<1>4. Typed(d, s, i, o, dead)
  BY <1>3 DEF Sound, Typed
<1>5. Sound(d, s, i, o, dead)
  BY <1>3, <1>4 DEF Sound
<1> QED
  BY <1>5 DEF d

-------------------------------------------------------------------------------
(* The steps keep the two ends together. *)

\* What the client has sent, and what is under way and in the parsers, belong together.
LinkInv == Sound(client, server, c2s, s2c, up)

\* A lost connection, replaced or not.
LEMMA LostSound ==
  ASSUME NEW c, Sound(c, server, c2s, s2c, up), Connect \/ CannotConnect
  PROVE  LinkInv'
<1>1. CASE Connect
  BY <1>1, SoundNew DEF Connect, LinkInv
<1>2. CASE CannotConnect
  <2>1. client' = NoClientConn /\ server' = server /\ c2s' = c2s /\ s2c' = s2c /\ up' = FALSE
    BY <1>2 DEF CannotConnect, streams
  <2>2. Sound(NoClientConn, server, c2s, s2c, FALSE)
    BY SoundNone
  <2> QED
    BY <2>1, <2>2 DEF LinkInv
<1> QED
  BY <1>1, <1>2

\* Connection::performSend
LEMMA PerformSendSound ==
  ASSUME NEW c, Sound(c, server, c2s, s2c, up), PerformSend(c)
  PROVE  Sound(client', server, c2s', s2c, up)
<1> DEFINE b == c.m_send_buffer
           n == Takes(RequestRoom, c2s, b)
           w == IF n < Len(b) THEN "later" ELSE c.writable
<1>1. c \in ClientConn /\ b \in Seq(Byte) /\ c2s \in Seq(Byte)
  BY DEF Sound, Typed, ClientConn
<1>2. n \in 0 .. Len(b)
  <2> HIDE DEF b
  <2> QED
    BY <1>1, TakesPart, BinLinkAssumption
<1>3. w \in {"now", "later", "no"}
  BY <1>1 DEF ClientConn
<1>4. c2s' = c2s \o SubSeq(b, 1, n) /\ client' = [c EXCEPT !.m_send_buffer = From(@, n + 1), !.writable = w]
  BY DEF PerformSend
<1> HIDE DEF n, w
<1> QED
  BY <1>2, <1>3, <1>4, SoundSend

\* BinClientA::performSend
LEMMA SendSound ==
  ASSUME NEW c, Sound(c, server, c2s, s2c, up), PerformSendOrLose(c)
  PROVE  LinkInv'
<1>1. CASE PerformSend(c) /\ UNCHANGED <<server, s2c, up, finished>>
  BY <1>1, PerformSendSound DEF LinkInv
<1>2. CASE OnLostConnection(c.m_sent_requests, finished)
  BY <1>2, LostSound DEF OnLostConnection
<1> QED
  BY <1>1, <1>2 DEF PerformSendOrLose

\* BinClientA::onWrite
LEMMA OnWriteSound ==
  ASSUME LinkInv, PlaceInv, OnWrite
  PROVE  LinkInv'
<1> DEFINE c == [client EXCEPT !.writable = "no"]
<1>1. client \in ClientConn /\ Sound(client, server, c2s, s2c, up)
  BY DEF LinkInv, Sound, Typed
<1>2. /\ c \in ClientConn /\ c.state = client.state /\ c.m_parser = client.m_parser
      /\ c.m_sent_requests = client.m_sent_requests /\ c.m_send_buffer = client.m_send_buffer
  BY <1>1 DEF ClientConn
<1>3. \/ /\ c.state = "ACTIVE" /\ m_new_requests # <<>>
         /\ PerformSendOrLose(AddRequest(c, Head(m_new_requests)))
      \/ client' = [c EXCEPT !.free = TRUE] /\ UNCHANGED <<m_new_requests, server, streams, up, finished>>
      \/ PerformSendOrLose(c)
  BY DEF OnWrite
<1> HIDE DEF c
<1>4. Sound(c, server, c2s, s2c, up)
  BY <1>1, <1>2, SoundSame
<1>5. CASE /\ c.state = "ACTIVE" /\ m_new_requests # <<>>
           /\ PerformSendOrLose(AddRequest(c, Head(m_new_requests)))
  <2> DEFINE r == Head(m_new_requests)
             d == AddRequest(c, r)
  <2>1. r \in Requests
    BY <1>5 DEF PlaceInv, OnePlace
  <2> HIDE DEF r
  <2>2. Sound(d, server, c2s, s2c, up)
    BY <1>4, <1>5, <2>1, SoundAdd
  <2>3. PerformSendOrLose(d)
    BY <1>5 DEF r
  <2> HIDE DEF d
  <2> QED
    BY <2>2, <2>3, SendSound
<1>6. CASE client' = [c EXCEPT !.free = TRUE] /\ UNCHANGED <<m_new_requests, server, streams, up, finished>>
  <2> DEFINE d == [c EXCEPT !.free = TRUE]
  <2>1. /\ d \in ClientConn /\ d.state = c.state /\ d.m_parser = c.m_parser
        /\ d.m_sent_requests = c.m_sent_requests /\ d.m_send_buffer = c.m_send_buffer
    BY <1>2 DEF ClientConn
  <2>2. client' = d /\ server' = server /\ c2s' = c2s /\ s2c' = s2c /\ up' = up
    BY <1>6 DEF streams
  <2> HIDE DEF d
  <2>3. Sound(d, server, c2s, s2c, up)
    BY <1>4, <2>1, SoundSame
  <2> QED
    BY <2>2, <2>3 DEF LinkInv
<1>7. CASE PerformSendOrLose(c)
  BY <1>4, <1>7, SendSound
<1> QED
  BY <1>3, <1>5, <1>6, <1>7

\* putRequestsToFreeConnections
LEMMA PutSound ==
  ASSUME LinkInv, PlaceInv, PutRequestsToFreeConnections
  PROVE  LinkInv'
<1> DEFINE r == Head(m_new_requests)
           a == AddRequest(client, r)
           d == [a EXCEPT !.free = FALSE]
<1>1. /\ client.state = "ACTIVE" /\ m_new_requests # <<>>
      /\ \/ PerformSend(d) /\ UNCHANGED <<server, s2c, up>>
         \/ ~up /\ client' = [d EXCEPT !.state = "CORRUPT"] /\ UNCHANGED <<server, streams, up>>
  BY DEF PutRequestsToFreeConnections
<1>2. r \in Requests
  BY <1>1 DEF PlaceInv, OnePlace
<1> HIDE DEF r
<1>3. Sound(a, server, c2s, s2c, up)
  BY <1>1, <1>2, SoundAdd DEF LinkInv
<1>4. a \in ClientConn
  BY <1>3 DEF Sound, Typed
<1> HIDE DEF a
<1>5. /\ d \in ClientConn /\ d.state = a.state /\ d.m_parser = a.m_parser
      /\ d.m_sent_requests = a.m_sent_requests /\ d.m_send_buffer = a.m_send_buffer
  BY <1>4 DEF ClientConn
<1> HIDE DEF d
<1>6. Sound(d, server, c2s, s2c, up)
  BY <1>3, <1>5, SoundSame
<1>7. CASE PerformSend(d) /\ UNCHANGED <<server, s2c, up>>
  BY <1>6, <1>7, PerformSendSound DEF LinkInv
<1>8. CASE ~up /\ client' = [d EXCEPT !.state = "CORRUPT"] /\ UNCHANGED <<server, streams, up>>
  <2>1. client' \in ClientConn /\ client'.state = "CORRUPT"
    BY <1>5, <1>8 DEF ClientConn
  <2>2. server' = server /\ c2s' = c2s /\ s2c' = s2c /\ ~up'
    BY <1>8 DEF streams
  <2>3. Sound(client', server, c2s, s2c, up)
    BY <1>6, <1>8, <2>1 DEF Sound, Typed
  <2>4. up' = up
    BY <1>8
  <2> QED
    BY <2>2, <2>3, <2>4 DEF LinkInv
<1> QED
  BY <1>1, <1>7, <1>8

\* checkKeepAlive
LEMMA KeepAliveSound ==
  ASSUME LinkInv, CheckKeepAlive
  PROVE  LinkInv'
<1> DEFINE c == [client EXCEPT !.m_send_buffer = <<KeepAlive>>]
<1>1. /\ client.m_send_buffer = <<>> /\ client.state \in {"HANDSHAKING", "ACTIVE"}
      /\ PerformSend(c) \/ (client' = c /\ UNCHANGED c2s)
      /\ UNCHANGED <<server, s2c, up>>
  BY DEF CheckKeepAlive, AtEventLoop
<1>2. Sound(c, server, c2s, s2c, up)
  BY <1>1, SoundIdle DEF LinkInv
<1> HIDE DEF c
<1>3. CASE PerformSend(c)
  BY <1>1, <1>2, <1>3, PerformSendSound DEF LinkInv
<1>4. CASE client' = c /\ UNCHANGED c2s
  BY <1>1, <1>2, <1>4 DEF LinkInv
<1> QED
  BY <1>1, <1>3, <1>4

\* What the client reads.
LEMMA SoundRead ==
  ASSUME NEW c, NEW s, NEW i, NEW o, NEW u, Sound(c, s, i, o, u), c.state \in {"HANDSHAKING", "ACTIVE"},
         NEW n \in 1 .. Len(o)
  PROVE  /\ From(o, n + 1) \in Seq(Byte)
         /\ \E r : /\ Receive("client", ResponseLimit, c.m_parser, SubSeq(o, 1, n)) = {r}
                   /\ Answered(s.custom_protocol, c.m_sent_requests, u, s.m_custom_parser,
                               s.custom_requests, i \o c.m_send_buffer,
                               OutOf(From(o, n + 1), s.m_send_buffer, s.m_resps,
                                     s.m_custom_resp_queue), r)
<1> DEFINE b == s.m_send_buffer
           rs == s.m_resps
           qs == s.m_custom_resp_queue
           x == SubSeq(o, 1, n)
           y == From(o, n + 1)
           z == b \o (FlattenSeq(rs) \o FlattenSeq(qs))
           cs == OutOf(y, b, rs, qs)
           forth == i \o c.m_send_buffer
<1>1. o \in Seq(Byte) /\ b \in Seq(Byte) /\ rs \in Seq(Seq(Byte)) /\ qs \in Seq(Seq(Byte))
  BY DEF Sound, Typed, ServerConn
<1>2. x \in Seq(Byte) /\ y \in Seq(Byte) /\ x \o y = o /\ x # <<>>
  <2>1. n \in 0 .. Len(o) /\ n \in Nat \ {0}
    BY <1>1
  <2>2. Cut(Byte, o, n)
    BY <1>1, <2>1, FromConcat
  <2>3. x \in Seq(Byte) /\ y \in Seq(Byte) /\ x \o y = o /\ Len(x) = n
    BY <2>2 DEF Cut
  <2> QED
    BY <2>1, <2>3
<1> HIDE DEF b, rs, qs, x, y
<1>3. cs \in Seq(Byte) /\ cs = y \o z /\ OutOf(o, b, rs, qs) = o \o z
  <2>1. OutOf(y, b, rs, qs) \in Seq(Byte) /\ OutOf(y, b, rs, qs) = y \o z
    BY <1>1, <1>2, OutBytes, ZenonT(60)
  <2>2. OutOf(o, b, rs, qs) = o \o z
    BY <1>1, OutBytes
  <2> QED
    BY <2>1, <2>2
<1>4. z \in Seq(Byte)
  <2>1. FlattenSeq(rs) \o FlattenSeq(qs) \in Seq(Byte)
    <3>1. FlattenSeq(rs) \in Seq(Byte) /\ FlattenSeq(qs) \in Seq(Byte)
      BY <1>1, FlattenType
    <3> QED
      BY <3>1, ConcatElements
  <2> QED
    BY <1>1, <2>1, ConcatElements
<1> HIDE DEF z, cs, forth
<1>5. OutOf(o, b, rs, qs) = x \o cs
  <2>1. Regroups(x, y, z)
    BY <1>2, <1>4, Assoc
  <2> QED
    BY <1>2, <1>3, <2>1 DEF Regroups
<1>6. Linked(s.custom_protocol, c.m_parser, c.m_sent_requests, x \o cs, u, s.m_custom_parser,
             s.custom_requests, forth)
  BY <1>5 DEF Sound, Link, forth, b, rs, qs
<1>7. \E r : /\ Receive("client", ResponseLimit, c.m_parser, x) = {r}
             /\ Answered(s.custom_protocol, c.m_sent_requests, u, s.m_custom_parser,
                         s.custom_requests, forth, cs, r)
  <2> DEFINE custom == s.custom_protocol
             cp == c.m_parser
             sent == c.m_sent_requests
             sp == s.m_custom_parser
             queue == s.custom_requests
  <2> HIDE DEF custom, cp, sent, sp, queue
  <2>1. Linked(custom, cp, sent, x \o cs, u, sp, queue, forth)
    BY <1>6 DEF custom, cp, sent, sp, queue
  <2>2. x \in Seq(Byte) /\ cs \in Seq(Byte) /\ x # <<>>
    BY <1>2, <1>3
  <2>3. AnswersRead(custom, cp, sent, u, sp, queue, forth, x, cs)
    BY <2>1, <2>2, LinkRead
  <2> QED
    BY <2>3 DEF custom, cp, sent, sp, queue, AnswersRead
<1> QED
  BY <1>2, <1>7 DEF x, y, cs, forth, b, rs, qs

\* What the client makes of the bytes it has read.
Reads(n, run) ==
  Answered(server.custom_protocol, client.m_sent_requests, up, server.m_custom_parser,
           server.custom_requests, c2s \o client.m_send_buffer,
           OutOf(From(s2c, n + 1), server.m_send_buffer, server.m_resps,
                 server.m_custom_resp_queue), run)

\* OnRead when the parser does not throw.
OnReadTakes(run) ==
  /\ run.parser.state # "THROWN"
  /\ client' = [client EXCEPT
       !.m_parser = run.parser, !.m_sent_requests = From(client.m_sent_requests, Len(run.out) + 1),
       !.writable = IF Len(c2s) < RequestRoom THEN "now" ELSE @,
       !.state = CASE run.parser.state = "UNDEFINED" -> "UNDEFINED"
                   [] run.parser.state = "READING_HANDSHAKE" -> "HANDSHAKING"
                   [] OTHER -> "ACTIVE"]
  /\ finished' = Finish(finished, client.m_sent_requests, [i \in 1 .. Len(run.out) |-> Success(run.out[i])])
  /\ UNCHANGED <<server, c2s, up>>

\* OnRead when it does.
OnReadLoses(run) ==
  OnLostConnection(From(client.m_sent_requests, Len(run.out) + 1),
                   Finish(finished, client.m_sent_requests, [i \in 1 .. Len(run.out) |-> Success(run.out[i])]))

\* OnRead does one of these: there are never more answers than calls.
LEMMA OnReadCases ==
  ASSUME LinkInv, OnRead
  PROVE  \E n, run :
           /\ n \in 1 .. Len(s2c) /\ Reads(n, run) /\ From(s2c, n + 1) \in Seq(Byte)
           /\ \/ OnReadTakes(run) /\ s2c' = From(s2c, n + 1)
              \/ OnReadLoses(run)
<1>1. client.state \in {"HANDSHAKING", "ACTIVE"} /\ Sound(client, server, c2s, s2c, up)
  BY DEF OnRead, AtEventLoop, LinkInv
<1>2. PICK n \in 1 .. Len(s2c) :
        \E run \in Receive("client", ResponseLimit, client.m_parser, SubSeq(s2c, 1, n)) :
           \/ OnReadTakes(run) /\ s2c' = From(s2c, n + 1)
           \/ OnReadLoses(run)
           \/ Len(run.out) > Len(client.m_sent_requests)
  BY DEF OnRead, OnReadTakes, OnReadLoses
<1>3. PICK run \in Receive("client", ResponseLimit, client.m_parser, SubSeq(s2c, 1, n)) :
           \/ OnReadTakes(run) /\ s2c' = From(s2c, n + 1)
           \/ OnReadLoses(run)
           \/ Len(run.out) > Len(client.m_sent_requests)
  BY <1>2
<1>4. From(s2c, n + 1) \in Seq(Byte) /\ Reads(n, run)
  <2>1. PICK r : Receive("client", ResponseLimit, client.m_parser, SubSeq(s2c, 1, n)) = {r} /\ Reads(n, r)
    BY <1>1, SoundRead DEF Reads
  <2>2. run = r
    BY <1>3, <2>1
  <2>3. From(s2c, n + 1) \in Seq(Byte)
    BY <1>1, SoundRead
  <2> QED
    BY <2>1, <2>2, <2>3
<1>5. ~ (Len(run.out) > Len(client.m_sent_requests))
  <2>1. Len(run.out) \in 0 .. Len(client.m_sent_requests) /\ client.m_sent_requests \in Seq(Requests)
    BY <1>1, <1>4 DEF Reads, Answered, Sound, Typed, ClientConn
  <2> QED
    BY <2>1
<1> QED
  BY <1>3, <1>4, <1>5

\* Connection::performRecv
LEMMA OnReadSound ==
  ASSUME LinkInv, OnRead
  PROVE  LinkInv'
<1>1. PICK n, run :
        /\ n \in 1 .. Len(s2c) /\ Reads(n, run) /\ From(s2c, n + 1) \in Seq(Byte)
        /\ \/ OnReadTakes(run) /\ s2c' = From(s2c, n + 1)
           \/ OnReadLoses(run)
  BY OnReadCases
<1>2. Sound(client, server, c2s, s2c, up) /\ client \in ClientConn
  BY DEF LinkInv, Sound, Typed
<1>3. CASE OnReadLoses(run)
  BY <1>2, <1>3, LostSound DEF OnReadLoses, OnLostConnection
<1>4. CASE OnReadTakes(run) /\ s2c' = From(s2c, n + 1)
  <2> DEFINE left == From(client.m_sent_requests, Len(run.out) + 1)
             o == From(s2c, n + 1)
             st == CASE run.parser.state = "UNDEFINED" -> "UNDEFINED"
                     [] run.parser.state = "READING_HANDSHAKE" -> "HANDSHAKING"
                     [] OTHER -> "ACTIVE"
             w == IF Len(c2s) < RequestRoom THEN "now" ELSE client.writable
             d == [client EXCEPT !.m_parser = run.parser, !.m_sent_requests = left,
                                 !.writable = w, !.state = st]
             back == OutOf(o, server.m_send_buffer, server.m_resps, server.m_custom_resp_queue)
             forth == c2s \o client.m_send_buffer
  <2>1. client' = d /\ server' = server /\ c2s' = c2s /\ up' = up /\ s2c' = o
    BY <1>4 DEF OnReadTakes
  <2>2. /\ run.parser \in Parser /\ run.parser.state \notin {"THROWN", "UNDEFINED"}
        /\ Linked(server.custom_protocol, run.parser, left, back, up, server.m_custom_parser,
                  server.custom_requests, forth)
    BY <1>1, <1>4 DEF Reads, Answered, OnReadTakes
  <2> HIDE DEF left, back, forth
  <2>3. left \in Seq(Requests)
    BY <2>2, LinkState
  <2>4. st \in {"HANDSHAKING", "ACTIVE"} /\ (st = "HANDSHAKING" <=> run.parser.state = "READING_HANDSHAKE")
    BY <2>2
  <2>5. w \in {"now", "later", "no"}
    BY <1>2 DEF ClientConn
  <2> HIDE DEF st, w
  <2>6. /\ d \in ClientConn /\ d.state = st /\ d.m_parser = run.parser
        /\ d.m_sent_requests = left /\ d.m_send_buffer = client.m_send_buffer
    BY <1>2, <2>2, <2>3, <2>4, <2>5 DEF ClientConn
  <2> HIDE DEF d
  <2>7. Link(d, server, c2s, o, up)
    BY <2>2, <2>6 DEF Link, back, forth
  <2>8. Typed(d, server, c2s, o, up)
    BY <1>1, <1>2, <2>6 DEF Typed, Sound
  <2>9. server.m_custom_parser.state # "UNDEFINED"
    BY <1>2 DEF Sound
  <2>10. Sound(d, server, c2s, o, up)
    BY <2>4, <2>6, <2>7, <2>8, <2>9 DEF Sound
  <2> QED
    BY <2>1, <2>10 DEF LinkInv
<1> QED
  BY <1>1, <1>3, <1>4

\* Bytes move between the network, the send buffer and the queues of the server.
LEMMA SoundServer ==
  ASSUME NEW c, NEW s, NEW i, NEW o, NEW u, Sound(c, s, i, o, u),
         NEW t \in ServerConn, NEW p \in Seq(Byte),
         t.custom_protocol = s.custom_protocol, t.m_custom_parser = s.m_custom_parser,
         t.custom_requests = s.custom_requests,
         OutOf(p, t.m_send_buffer, t.m_resps, t.m_custom_resp_queue)
           = OutOf(o, s.m_send_buffer, s.m_resps, s.m_custom_resp_queue)
  PROVE  Sound(c, t, i, p, u)
BY DEF Sound, Typed, Link

\* handleWaitingRequests
LEMMA SoundHandle ==
  ASSUME NEW c, NEW s, NEW i, NEW o, NEW u, Sound(c, s, i, o, u), u
  PROVE  Sound(c, HandleWaitingRequests(s), i, o, u)
<1>1. CASE ~ (~ s.waiting_last_handling /\ s.custom_requests # <<>>)
  BY <1>1 DEF HandleWaitingRequests
<1>2. CASE ~ s.waiting_last_handling /\ s.custom_requests # <<>>
  <2> DEFINE queue == s.custom_requests
             f == Frame(Answer[Head(queue)])
             qs == s.m_custom_resp_queue
             t == HandleWaitingRequests(s)
             back == OutOf(o, s.m_send_buffer, s.m_resps, qs)
             forth == i \o c.m_send_buffer
             B == Seq(Byte)
  <2>1. c.state \in {"HANDSHAKING", "ACTIVE"} /\ Link(c, s, i, o, u) /\ Typed(c, s, i, o, u)
    BY DEF Sound
  <2>2. Linked(s.custom_protocol, c.m_parser, c.m_sent_requests, back, u, s.m_custom_parser, queue, forth)
    BY <2>1 DEF Link
  <2> HIDE DEF back, forth, queue
  <2>3. s.custom_protocol /\ queue # <<>>
    <3>1. queue # <<>>
      BY <1>2 DEF queue
    <3>2. ~ s.custom_protocol => queue = <<>>
      <4> DEFINE custom == s.custom_protocol
                 cp == c.m_parser
                 sent == c.m_sent_requests
                 sp == s.m_custom_parser
      <4> HIDE DEF custom, cp, sent, sp
      <4>1. Linked(custom, cp, sent, back, u, sp, queue, forth)
        BY <2>2 DEF custom, cp, sent, sp
      <4>2. ~ custom => queue = <<>>
        BY <4>1 DEF Linked, RequestsHeld
      <4> QED
        BY <4>2 DEF custom
    <3> QED
      BY <3>1, <3>2
  <2>4. /\ Answer[Head(queue)] \in Seq(Byte)
        /\ Linked(s.custom_protocol, c.m_parser, c.m_sent_requests, back \o f, u,
                  s.m_custom_parser, Tail(queue), forth)
    BY <2>2, <2>3, LinkHandle
  <2>5. f \in Seq(Byte)
    BY <2>4, FrameShape
  <2>6. /\ s \in ServerConn /\ o \in Seq(Byte) /\ s.m_send_buffer \in Seq(Byte) /\ s.m_resps \in Seq(B)
        /\ qs \in Seq(B) /\ queue \in Seq(B)
    BY <2>1 DEF Typed, ServerConn, queue
  <2> HIDE DEF f, qs
  <2>7. /\ OutOf(o, s.m_send_buffer, s.m_resps, Append(qs, f)) = back \o f
        /\ Append(qs, f) \in Seq(B)
    <3> DEFINE b == s.m_send_buffer
               rs == s.m_resps
    <3> HIDE DEF b, rs
    <3>1. b \in Seq(Byte) /\ rs \in Seq(Seq(Byte)) /\ qs \in Seq(Seq(Byte)) /\ o \in Seq(Byte)
      BY <2>6 DEF b, rs
    <3>2. OutGrows(o, b, rs, qs, f)
      BY <2>5, <3>1, OutAdd
    <3> QED
      BY <3>2 DEF OutGrows, back, b, rs
  <2>8. Tail(queue) \in Seq(B)
    <3> HIDE DEF B
    <3> QED
      BY <2>3, <2>6
  <2>9. t = [s EXCEPT !.custom_requests = Tail(queue), !.waiting_last_handling = TRUE,
                      !.m_custom_resp_queue = Append(qs, f)]
    BY <1>2, <2>6 DEF HandleWaitingRequests, SendCustomResponse, queue, f, qs, ServerConn
  <2>10. /\ t \in ServerConn /\ t.custom_protocol = s.custom_protocol
         /\ t.m_custom_parser = s.m_custom_parser /\ t.custom_requests = Tail(queue)
         /\ t.m_send_buffer = s.m_send_buffer /\ t.m_resps = s.m_resps
         /\ t.m_custom_resp_queue = Append(qs, f)
    <3> DEFINE a == Tail(queue)
               b == Append(qs, f)
    <3>1. a \in Seq(B) /\ b \in Seq(B)
      BY <2>7, <2>8
    <3> HIDE DEF a, b, B, t
    <3>2. t = [s EXCEPT !.custom_requests = a, !.waiting_last_handling = TRUE, !.m_custom_resp_queue = b]
      BY <2>9 DEF a, b
    <3> QED
      BY <2>6, <3>1, <3>2 DEF ServerConn, a, b, B
  <2> HIDE DEF t
  <2>11. Link(c, t, i, o, u)
    BY <2>4, <2>7, <2>10 DEF Link, forth
  <2>12. Typed(c, t, i, o, u)
    BY <2>1, <2>10 DEF Typed
  <2>13. Sound(c, t, i, o, u)
    BY <2>1, <2>10, <2>11, <2>12 DEF Sound
  <2> QED
    BY <2>13 DEF t
<1> QED
  BY <1>1, <1>2

\* performSend takes the next response.
LEMMA SoundLoaded ==
  ASSUME NEW c, NEW s, NEW i, NEW o, NEW u, Sound(c, s, i, o, u),
         s.m_send_buffer = <<>> => s.m_resps # <<>>
  PROVE  Sound(c, Loaded(s), i, o, u)
<1>1. CASE s.m_send_buffer # <<>>
  BY <1>1 DEF Loaded
<1>2. CASE s.m_send_buffer = <<>>
  <2> DEFINE B == Seq(Byte)
             h == Head(s.m_resps)
             r == Tail(s.m_resps)
             t == [s EXCEPT !.m_send_buffer = h, !.m_resps = r]
  <2>1. /\ s \in ServerConn /\ o \in Seq(Byte) /\ s.m_resps \in Seq(B) /\ s.m_resps # <<>>
        /\ s.m_custom_resp_queue \in Seq(B)
    BY <1>2 DEF Sound, Typed, ServerConn
  <2>2. Loaded(s) = t
    BY <1>2 DEF Loaded
  <2>3. h \in B /\ r \in Seq(B)
    <3> HIDE DEF B
    <3> QED
      BY <2>1
  <2>4. OutOf(o, h, r, s.m_custom_resp_queue) = OutOf(o, <<>>, s.m_resps, s.m_custom_resp_queue)
    BY <2>1, OutLoad
  <2> HIDE DEF h, r
  <2>5. /\ t \in ServerConn /\ t.custom_protocol = s.custom_protocol
        /\ t.m_custom_parser = s.m_custom_parser /\ t.custom_requests = s.custom_requests
        /\ t.m_send_buffer = h /\ t.m_resps = r /\ t.m_custom_resp_queue = s.m_custom_resp_queue
    BY <2>1, <2>3 DEF ServerConn
  <2> HIDE DEF t, B
  <2>6. Sound(c, t, i, o, u)
    BY <1>2, <2>1, <2>4, <2>5, SoundServer
  <2> QED
    BY <2>2, <2>6
<1> QED
  BY <1>1, <1>2

\* The server's socket takes n bytes.
LEMMA SoundSent ==
  ASSUME NEW c, NEW s, NEW i, NEW o, NEW u, Sound(c, s, i, o, u),
         NEW n \in 0 .. Len(s.m_send_buffer), NEW t \in ServerConn,
         t.custom_protocol = s.custom_protocol, t.m_custom_parser = s.m_custom_parser,
         t.custom_requests = s.custom_requests, t.m_resps = s.m_resps,
         t.m_custom_resp_queue = s.m_custom_resp_queue,
         t.m_send_buffer = From(s.m_send_buffer, n + 1)
  PROVE  Sound(c, t, i, o \o SubSeq(s.m_send_buffer, 1, n), u)
<1> DEFINE b == s.m_send_buffer
           rs == s.m_resps
           qs == s.m_custom_resp_queue
           p == o \o SubSeq(b, 1, n)
<1>1. b \in Seq(Byte) /\ o \in Seq(Byte) /\ n \in 0 .. Len(b)
  BY DEF Sound, Typed, ServerConn
<1> HIDE DEF b, rs, qs
<1>2. p \in Seq(Byte) /\ OutOf(p, From(b, n + 1), rs, qs) = OutOf(o, b, rs, qs)
  <2> DEFINE x == SubSeq(b, 1, n)
             y == From(b, n + 1)
  <2>1. x \in Seq(Byte) /\ y \in Seq(Byte) /\ x \o y = b
    BY <1>1, FromConcat DEF Cut
  <2> HIDE DEF x, y
  <2>2. o \o x \in Seq(Byte) /\ OutOf(o \o x, y, rs, qs) = OutOf(o, b, rs, qs)
    <3>1. Regroups(o, x, y) /\ o \o x \in Seq(Byte)
      BY <1>1, <2>1, Assoc, ConcatElements
    <3>2. (o \o x) \o y = o \o b
      BY <2>1, <3>1 DEF Regroups
    <3> QED
      BY <3>1, <3>2 DEF OutOf
  <2> QED
    BY <2>2 DEF x, y
<1> HIDE DEF p
<1>3. OutOf(p, t.m_send_buffer, t.m_resps, t.m_custom_resp_queue)
        = OutOf(o, s.m_send_buffer, s.m_resps, s.m_custom_resp_queue)
  BY <1>2 DEF b, rs, qs
<1>4. Sound(c, t, i, p, u)
  BY <1>2, <1>3, SoundServer
<1> QED
  BY <1>4 DEF p, b

\* handleResponse
LEMMA SoundResponse ==
  ASSUME NEW c, NEW s, NEW i, NEW o, NEW u, Sound(c, s, i, o, u), u,
         NEW n \in 0 .. Len(s.m_send_buffer)
  PROVE  Sound(c, HandleResponse(s, n), i, o \o SubSeq(s.m_send_buffer, 1, n), u)
<1> DEFINE b == s.m_send_buffer
           y == From(b, n + 1)
           sent == [s EXCEPT !.waiting_last_handling = FALSE, !.m_send_buffer = y]
           t == IF sent.m_send_buffer # <<>> THEN EnableEvents(sent) ELSE sent
           p == o \o SubSeq(b, 1, n)
<1>1. HandleResponse(s, n) = HandleWaitingRequests(t)
  BY DEF HandleResponse
<1>2. s \in ServerConn /\ b \in Seq(Byte)
  BY DEF Sound, Typed, ServerConn
<1>3. y \in Seq(Byte)
  <2> HIDE DEF b
  <2>1. n \in 0 .. Len(b)
    BY DEF b
  <2> QED
    BY <1>2, <2>1, FromConcat DEF Cut
<1> HIDE DEF y
<1>4. /\ sent \in ServerConn /\ sent.custom_protocol = s.custom_protocol
      /\ sent.m_custom_parser = s.m_custom_parser /\ sent.custom_requests = s.custom_requests
      /\ sent.m_resps = s.m_resps /\ sent.m_custom_resp_queue = s.m_custom_resp_queue
      /\ sent.m_send_buffer = y
  BY <1>2, <1>3 DEF ServerConn
<1> HIDE DEF sent
<1>5. /\ t \in ServerConn /\ t.custom_protocol = sent.custom_protocol
      /\ t.m_custom_parser = sent.m_custom_parser /\ t.custom_requests = sent.custom_requests
      /\ t.m_resps = sent.m_resps /\ t.m_custom_resp_queue = sent.m_custom_resp_queue
      /\ t.m_send_buffer = sent.m_send_buffer
  <2>1. {"read", "write"} \ sent.mask \in SUBSET {"read", "write"} /\ {"read", "write"} \in SUBSET {"read", "write"}
    OBVIOUS
  <2> DEFINE e == {"read", "write"} \ sent.mask
             m == {"read", "write"}
             M == SUBSET {"read", "write"}
  <2>2. EnableEvents(sent) = [sent EXCEPT !.epoll = e, !.mask = m]
    BY DEF EnableEvents
  <2>3. e \in M /\ m \in M
    BY <2>1
  <2> HIDE DEF e, m, M
  <2> QED
    BY <1>4, <2>2, <2>3 DEF ServerConn, M
<1> HIDE DEF t
<1>6. Sound(c, t, i, p, u)
  BY <1>4, <1>5, SoundSent DEF y, b
<1> HIDE DEF p
<1>7. Sound(c, HandleWaitingRequests(t), i, p, u)
  BY <1>6, SoundHandle
<1> QED
  BY <1>1, <1>7 DEF p, b

\* The server reads the Upgrade request.
LEMMA SoundUpgrade ==
  ASSUME NEW c, NEW s, NEW i, NEW o, NEW u, Sound(c, s, i, o, u), u, ~ s.custom_protocol,
         NEW n \in 1 .. Len(i)
  PROVE  Sound(c, CheckUpgrade(s), From(i, n + 1), o, u)
<1> DEFINE x == SubSeq(i, 1, n)
           y == From(i, n + 1)
           b == c.m_send_buffer
           cs == y \o b
           back == OutOf(o, s.m_send_buffer, s.m_resps, s.m_custom_resp_queue)
           t == CheckUpgrade(s)
           B == Seq(Byte)
<1>1. /\ c.state \in {"HANDSHAKING", "ACTIVE"} /\ Typed(c, s, i, o, u) /\ Link(c, s, i, o, u)
      /\ i \in Seq(Byte) /\ b \in Seq(Byte) /\ s \in ServerConn
  BY DEF Sound, Typed, ClientConn
<1>2. x \in Seq(Byte) /\ y \in Seq(Byte) /\ x \o y = i /\ x # <<>>
  <2>1. n \in 0 .. Len(i) /\ n \in Nat \ {0}
    BY <1>1
  <2>2. Cut(Byte, i, n)
    BY <1>1, <2>1, FromConcat
  <2>3. x \in Seq(Byte) /\ y \in Seq(Byte) /\ x \o y = i /\ Len(x) = n
    BY <2>2 DEF Cut
  <2> QED
    BY <2>1, <2>3
<1> HIDE DEF x, y, b
<1>3. cs \in Seq(Byte) /\ i \o b = x \o cs
  <2>1. Regroups(x, y, b) /\ cs \in Seq(Byte)
    BY <1>1, <1>2, Assoc, ConcatElements
  <2> QED
    BY <1>2, <2>1 DEF Regroups
<1> DEFINE custom == s.custom_protocol
           cp == c.m_parser
           sent == c.m_sent_requests
           sp == s.m_custom_parser
           queue == s.custom_requests
<1>4. Linked(custom, cp, sent, back, u, sp, queue, x \o cs) /\ ~ custom
  BY <1>1, <1>3 DEF Link, b
<1> HIDE DEF custom, cp, sent, sp, queue, back, cs
<1>5. back = <<>> /\ Linked(TRUE, cp, sent, Handshake, u, sp, queue, cs)
  <2>1. Upgrades(custom, cp, sent, back, u, sp, queue, x, cs, TRUE)
    BY <1>2, <1>3, LinkUpgrade
  <2> QED
    BY <1>4, <2>1 DEF Upgrades
<1>6. /\ OutOf(o, s.m_send_buffer, s.m_resps, Append(s.m_custom_resp_queue, Handshake)) = Handshake
      /\ Append(s.m_custom_resp_queue, Handshake) \in Seq(B)
  <2> DEFINE sb == s.m_send_buffer
             rs == s.m_resps
             qs == s.m_custom_resp_queue
  <2>1. o \in Seq(Byte) /\ sb \in Seq(Byte) /\ rs \in Seq(B) /\ qs \in Seq(B) /\ Handshake \in Seq(Byte)
    BY <1>1, Symbols DEF Typed, ServerConn
  <2> HIDE DEF sb, rs, qs
  <2>2. OutGrows(o, sb, rs, qs, Handshake)
    BY <2>1, OutAdd
  <2>3. <<>> \o Handshake = Handshake
    BY Symbols, ConcatEmptySeq
  <2> QED
    BY <1>5, <2>2, <2>3 DEF OutGrows, back, sb, rs, qs
<1>7. t = [s EXCEPT !.custom_protocol = TRUE, !.m_custom_resp_queue = Append(@, Handshake)]
  BY <1>1 DEF CheckUpgrade, SendCustomResponse, ServerConn
<1>8. /\ t \in ServerConn /\ t.custom_protocol = TRUE
      /\ t.m_custom_parser = sp /\ t.custom_requests = queue
      /\ t.m_send_buffer = s.m_send_buffer /\ t.m_resps = s.m_resps
      /\ t.m_custom_resp_queue = Append(s.m_custom_resp_queue, Handshake)
  <2> DEFINE q == Append(s.m_custom_resp_queue, Handshake)
  <2>1. t = [s EXCEPT !.custom_protocol = TRUE, !.m_custom_resp_queue = q] /\ q \in Seq(B)
    BY <1>6, <1>7
  <2> HIDE DEF q, t, B
  <2> QED
    BY <1>1, <2>1 DEF ServerConn, q, B, sp, queue
<1> HIDE DEF t
<1>9. Link(c, t, y, o, u)
  BY <1>5, <1>6, <1>8 DEF Link, cs, b, cp, sent
<1>10. Typed(c, t, y, o, u)
  BY <1>1, <1>2, <1>8 DEF Typed
<1>11. Sound(c, t, y, o, u)
  BY <1>1, <1>8, <1>9, <1>10 DEF Sound, sp
<1> QED
  BY <1>11 DEF t, y

\* The server reads.
LEMMA SoundServe ==
  ASSUME NEW c, NEW s, NEW i, NEW o, NEW u, Sound(c, s, i, o, u), u, s.custom_protocol,
         NEW n \in 1 .. Len(i),
         NEW r, r \in Receive("server", RequestLimit, s.m_custom_parser, SubSeq(i, 1, n)),
         NEW dead \in BOOLEAN, ~ dead
  PROVE  LET t == [s EXCEPT !.m_custom_parser = r.parser, !.custom_requests = @ \o r.out]
         IN  /\ r.parser.state = "THROWN" => Sound(c, t, From(i, n + 1), o, dead)
             /\ r.parser.state # "THROWN" => Sound(c, t, From(i, n + 1), o, u)
<1> DEFINE x == SubSeq(i, 1, n)
           y == From(i, n + 1)
           b == c.m_send_buffer
           cs == y \o b
           back == OutOf(o, s.m_send_buffer, s.m_resps, s.m_custom_resp_queue)
           more == s.custom_requests \o r.out
           t == [s EXCEPT !.m_custom_parser = r.parser, !.custom_requests = more]
           B == Seq(Byte)
<1>1. /\ c.state \in {"HANDSHAKING", "ACTIVE"} /\ Typed(c, s, i, o, u) /\ Link(c, s, i, o, u)
      /\ i \in Seq(Byte) /\ b \in Seq(Byte) /\ s \in ServerConn
  BY DEF Sound, Typed, ClientConn
<1>2. x \in Seq(Byte) /\ y \in Seq(Byte) /\ x \o y = i
  <2>1. n \in 0 .. Len(i)
    BY <1>1
  <2>2. Cut(Byte, i, n)
    BY <1>1, <2>1, FromConcat
  <2> QED
    BY <2>2 DEF Cut
<1> HIDE DEF x, y, b
<1>3. cs \in Seq(Byte) /\ i \o b = x \o cs
  <2>1. Regroups(x, y, b) /\ cs \in Seq(Byte)
    BY <1>1, <1>2, Assoc, ConcatElements
  <2> QED
    BY <1>2, <2>1 DEF Regroups
<1> DEFINE custom == s.custom_protocol
           cp == c.m_parser
           sent == c.m_sent_requests
           sp == s.m_custom_parser
           queue == s.custom_requests
<1>4. Linked(custom, cp, sent, back, u, sp, queue, x \o cs) /\ custom
  BY <1>1, <1>3 DEF Link, b
<1> HIDE DEF custom, cp, sent, sp, queue, back, cs
<1>5. Served(custom, cp, sent, back, u, queue, cs, r)
  <2>1. RequestsRead(custom, cp, sent, back, u, sp, queue, x, cs)
    BY <1>2, <1>3, <1>4, LinkServe
  <2>2. PICK q : /\ Receive("server", RequestLimit, sp, x) = {q}
                 /\ Served(custom, cp, sent, back, u, queue, cs, q)
    BY <2>1 DEF RequestsRead
  <2>3. r = q
    BY <2>2 DEF x, sp
  <2> QED
    BY <2>2, <2>3
<1>6. r.parser \in Parser /\ more \in Seq(B)
  <2>1. r.parser \in Parser /\ r.out \in Seq(B)
    BY <1>5 DEF Served
  <2>2. s.custom_requests \in Seq(B)
    BY <1>1 DEF ServerConn
  <2> HIDE DEF B
  <2> QED
    BY <2>1, <2>2, ConcatElements
<1> HIDE DEF more
<1>7. /\ t \in ServerConn /\ t.custom_protocol = custom
      /\ t.m_custom_parser = r.parser /\ t.custom_requests = more
      /\ t.m_send_buffer = s.m_send_buffer /\ t.m_resps = s.m_resps
      /\ t.m_custom_resp_queue = s.m_custom_resp_queue
  BY <1>1, <1>6 DEF ServerConn, custom
<1> HIDE DEF t
<1>8. Typed(c, t, y, o, u) /\ Typed(c, t, y, o, dead)
  BY <1>1, <1>2, <1>7 DEF Typed
<1>9. ASSUME r.parser.state = "THROWN" PROVE Sound(c, t, y, o, dead)
  <2>1. Linked(custom, cp, sent, back, dead, r.parser, more, cs)
    BY <1>4, LinkDown
  <2>2. Link(c, t, y, o, dead)
    BY <1>7, <2>1 DEF Link, cp, sent, back, cs, b
  <2> QED
    BY <1>1, <1>7, <1>8, <1>9, <2>2 DEF Sound
<1>10. ASSUME r.parser.state # "THROWN" PROVE Sound(c, t, y, o, u)
  <2>1. Linked(custom, cp, sent, back, u, r.parser, more, cs) /\ r.parser.state # "UNDEFINED"
    BY <1>5, <1>10 DEF Served, more, queue
  <2>2. Link(c, t, y, o, u)
    BY <1>7, <2>1 DEF Link, cp, sent, back, cs, b
  <2> QED
    BY <1>1, <1>7, <1>8, <2>1, <2>2 DEF Sound
<1> QED
  BY <1>9, <1>10 DEF t, y, more

\* HttpServer::performRecv
LEMMA SrvOnReadSound ==
  ASSUME LinkInv, SrvOnRead
  PROVE  LinkInv'
<1>1. up /\ Sound(client, server, c2s, s2c, up) /\ client' = client /\ s2c' = s2c
  BY DEF SrvOnRead, LinkInv
<1>2. PICK n \in 1 .. Len(c2s) :
        /\ c2s' = From(c2s, n + 1)
        /\ \/ ~ server.custom_protocol /\ server' = CheckUpgrade(server) /\ UNCHANGED up
           \/ /\ server.custom_protocol
              /\ \E run \in Receive("server", RequestLimit, server.m_custom_parser, SubSeq(c2s, 1, n)) :
                 LET s == [server EXCEPT !.m_custom_parser = run.parser,
                                         !.custom_requests = @ \o run.out]
                 IN  /\ server' = IF run.parser.state = "THROWN" THEN s ELSE HandleWaitingRequests(s)
                     /\ up' = (run.parser.state # "THROWN")
  BY DEF SrvOnRead
<1>3. CASE ~ server.custom_protocol /\ server' = CheckUpgrade(server) /\ UNCHANGED up
  <2>1. Sound(client, CheckUpgrade(server), From(c2s, n + 1), s2c, up)
    BY <1>1, <1>3, SoundUpgrade
  <2> QED
    BY <1>1, <1>2, <1>3, <2>1 DEF LinkInv
<1>4. CASE server.custom_protocol
  <2>1. PICK run \in Receive("server", RequestLimit, server.m_custom_parser, SubSeq(c2s, 1, n)) :
          LET s == [server EXCEPT !.m_custom_parser = run.parser, !.custom_requests = @ \o run.out]
          IN  /\ server' = IF run.parser.state = "THROWN" THEN s ELSE HandleWaitingRequests(s)
              /\ up' = (run.parser.state # "THROWN")
    BY <1>2, <1>4
  <2> DEFINE s == [server EXCEPT !.m_custom_parser = run.parser, !.custom_requests = @ \o run.out]
  <2>2. /\ server' = IF run.parser.state = "THROWN" THEN s ELSE HandleWaitingRequests(s)
        /\ up' = (run.parser.state # "THROWN")
    BY <2>1
  <2>3. /\ run.parser.state = "THROWN" => Sound(client, s, From(c2s, n + 1), s2c, FALSE)
        /\ run.parser.state # "THROWN" => Sound(client, s, From(c2s, n + 1), s2c, up)
    BY <1>1, <1>4, <2>1, SoundServe
  <2> HIDE DEF s
  <2>4. CASE run.parser.state = "THROWN"
    <3>1. server' = s /\ up' = FALSE
      BY <2>2, <2>4
    <3> QED
      BY <1>1, <1>2, <2>3, <2>4, <3>1 DEF LinkInv
  <2>5. CASE run.parser.state # "THROWN"
    <3>1. server' = HandleWaitingRequests(s) /\ up' = TRUE
      BY <2>2, <2>5
    <3>2. up = TRUE
      BY <1>1 DEF Sound, Typed
    <3>3. Sound(client, HandleWaitingRequests(s), From(c2s, n + 1), s2c, up)
      BY <1>1, <2>3, <2>5, SoundHandle
    <3> QED
      BY <1>1, <1>2, <3>1, <3>2, <3>3 DEF LinkInv
  <2> QED
    BY <2>4, <2>5
<1> QED
  BY <1>2, <1>3, <1>4

\* The loop of HttpServer::handleEvents.
LEMMA SrvResponsesSound ==
  ASSUME LinkInv, SrvHandleResponses
  PROVE  LinkInv'
<1> DEFINE B == Seq(Byte)
           qs == server.m_custom_resp_queue
           rs == server.m_resps
           a == Append(rs, Head(qs))
           q == Tail(qs)
           t == [server EXCEPT !.m_resps = a, !.m_custom_resp_queue = q]
           s == Loaded(t)
           n == Takes(ResponseRoom, s2c, s.m_send_buffer)
<1>1. /\ up /\ Sound(client, server, c2s, s2c, up) /\ client' = client /\ c2s' = c2s /\ up' = up
      /\ qs # <<>>
  BY DEF SrvHandleResponses, LinkInv
<1>2. s2c' = s2c \o SubSeq(s.m_send_buffer, 1, n) /\ server' = HandleResponse(s, n)
  BY DEF SrvHandleResponses
<1>3. /\ server \in ServerConn /\ s2c \in Seq(Byte) /\ server.m_send_buffer \in Seq(Byte)
      /\ rs \in Seq(B) /\ qs \in Seq(B)
  BY <1>1 DEF Sound, Typed, ServerConn
<1>4. a \in Seq(B) /\ q \in Seq(B) /\ a # <<>>
  <2> HIDE DEF B, rs, qs
  <2>1. Head(qs) \in B /\ q \in Seq(B)
    BY <1>1, <1>3
  <2> DEFINE h == Head(qs)
             j == Append(rs, h)
  <2>2. h \in B
    BY <2>1
  <2> HIDE DEF h
  <2>3. j \in Seq(B) /\ j = rs \o <<h>> /\ <<h>> \in Seq(B)
    <3>1. Appends(B, rs, h)
      BY <1>3, <2>2, AppendConcat
    <3> QED
      BY <3>1 DEF Appends
  <2>4. j # <<>>
    <3>1. Len(rs \o <<h>>) = Len(rs) + Len(<<h>>) /\ Len(<<h>>) = 1 /\ Len(rs) \in Nat
      BY <1>3, <2>3
    <3>2. Len(j) # 0 /\ Len(<<>>) = 0
      BY <2>3, <3>1
    <3> QED
      BY <3>2
  <2> QED
    BY <2>1, <2>3, <2>4 DEF h
<1>5. OutOf(s2c, server.m_send_buffer, a, q) = OutOf(s2c, server.m_send_buffer, rs, qs)
  <2> DEFINE b == server.m_send_buffer
  <2> HIDE DEF b, rs, qs
  <2>1. b \in Seq(Byte) /\ s2c \in Seq(Byte) /\ rs \in Seq(Seq(Byte)) /\ qs \in Seq(Seq(Byte)) /\ qs # <<>>
    BY <1>1, <1>3 DEF b
  <2>2. OutOf(s2c, b, Append(rs, Head(qs)), Tail(qs)) = OutOf(s2c, b, rs, qs)
    BY <2>1, OutTake
  <2> QED
    BY <2>2 DEF b
<1> HIDE DEF a, q
<1>6. /\ t \in ServerConn /\ t.custom_protocol = server.custom_protocol
      /\ t.m_custom_parser = server.m_custom_parser /\ t.custom_requests = server.custom_requests
      /\ t.m_send_buffer = server.m_send_buffer /\ t.m_resps = a /\ t.m_custom_resp_queue = q
  BY <1>3, <1>4 DEF ServerConn
<1> HIDE DEF t, B
<1>7. Sound(client, t, c2s, s2c, up)
  BY <1>1, <1>3, <1>5, <1>6, SoundServer
<1>8. Sound(client, s, c2s, s2c, up)
  BY <1>4, <1>6, <1>7, SoundLoaded
<1>9. s.m_send_buffer \in Seq(Byte)
  BY <1>8 DEF Sound, Typed, ServerConn
<1> HIDE DEF s
<1>10. n \in 0 .. Len(s.m_send_buffer)
  <2> DEFINE b == s.m_send_buffer
  <2>1. b \in Seq(Byte)
    BY <1>9
  <2> HIDE DEF b
  <2>2. Takes(ResponseRoom, s2c, b) \in 0 .. Len(b)
    BY <1>3, <2>1, TakesPart, BinLinkAssumption
  <2> QED
    BY <2>2 DEF b
<1> HIDE DEF n
<1>11. Sound(client, HandleResponse(s, n), c2s, s2c \o SubSeq(s.m_send_buffer, 1, n), up)
  BY <1>1, <1>8, <1>10, SoundResponse
<1> QED
  BY <1>1, <1>2, <1>11 DEF LinkInv

\* HttpServer::onWrite
LEMMA SrvOnWriteSound ==
  ASSUME LinkInv, SrvOnWrite
  PROVE  LinkInv'
<1> DEFINE s == Loaded(server)
           b == s.m_send_buffer
           n == Takes(ResponseRoom, s2c, b)
           y == From(b, n + 1)
           t == [s EXCEPT !.m_send_buffer = y]
<1>1. /\ Sound(client, server, c2s, s2c, up) /\ client' = client /\ c2s' = c2s /\ up' = up
      /\ server.m_send_buffer = <<>> => server.m_resps # <<>>
      /\ s2c' = s2c \o SubSeq(b, 1, n) /\ server' = t
  BY DEF SrvOnWrite, LinkInv
<1>2. Sound(client, s, c2s, s2c, up)
  BY <1>1, SoundLoaded
<1> HIDE DEF s
<1>3. s \in ServerConn /\ b \in Seq(Byte) /\ s2c \in Seq(Byte)
  BY <1>2 DEF Sound, Typed, ServerConn
<1> HIDE DEF b
<1>4. n \in 0 .. Len(b)
  BY <1>3, TakesPart, BinLinkAssumption
<1> HIDE DEF n
<1>5. y \in Seq(Byte)
  BY <1>3, <1>4, FromConcat DEF Cut
<1> HIDE DEF y
<1>6. /\ t \in ServerConn /\ t.custom_protocol = s.custom_protocol
      /\ t.m_custom_parser = s.m_custom_parser /\ t.custom_requests = s.custom_requests
      /\ t.m_resps = s.m_resps /\ t.m_custom_resp_queue = s.m_custom_resp_queue
      /\ t.m_send_buffer = y
  BY <1>3, <1>5 DEF ServerConn
<1> HIDE DEF t
<1>7. Sound(client, t, c2s, s2c \o SubSeq(b, 1, n), up)
  BY <1>2, <1>4, <1>6, SoundSent DEF b, y
<1> QED
  BY <1>1, <1>7 DEF LinkInv

\* The connection breaks.
LEMMA BreakSound ==
  ASSUME LinkInv, Break
  PROVE  LinkInv'
<1>1. /\ Sound(client, server, c2s, s2c, up)
      /\ client' = client /\ server' = server /\ c2s' = c2s /\ s2c' = s2c /\ up' = FALSE
  BY DEF LinkInv, Break, streams
<1>2. Link(client, server, c2s, s2c, up) => Link(client, server, c2s, s2c, FALSE)
  BY LinkDown DEF Link
<1>3. Sound(client, server, c2s, s2c, FALSE)
  BY <1>1, <1>2 DEF Sound, Typed
<1> QED
  BY <1>1, <1>3 DEF LinkInv

\* Every step keeps the correspondence.
LEMMA StepLink == LinkInv /\ PlaceInv /\ [Next]_vars => LinkInv'
<1> SUFFICES ASSUME LinkInv, PlaceInv, [Next]_vars PROVE LinkInv'
  OBVIOUS
<1>1. CASE (\E r \in Requests : Call(r)) \/ UNCHANGED vars
  <2>1. client' = client /\ server' = server /\ c2s' = c2s /\ s2c' = s2c /\ up' = up
    BY <1>1 DEF Call, vars, streams
  <2> QED
    BY <2>1 DEF LinkInv
<1>2. CASE OnReadEnd
  BY <1>2, LostSound DEF OnReadEnd, OnLostConnection, LinkInv
<1>3. CASE Reconnect
  BY <1>3, LostSound DEF Reconnect, LinkInv
<1> QED
  BY <1>1, <1>2, <1>3, OnWriteSound, PutSound, KeepAliveSound, OnReadSound, SrvOnReadSound,
     SrvResponsesSound, SrvOnWriteSound, BreakSound DEF Next

\* It holds of the first connection.
LEMMA InitLink == Init => LinkInv
BY SoundNew DEF Init, LinkInv

\* At any time the calls the client has sent and not seen answered are, in their order,
\* those whose answers are in the client's parser, in the network or in the server's
\* queues, and then those whose requests are on their way to the handler (LinkInv).
THEOREM LinkInvariant == Spec => []LinkInv
BY PlaceInvariant, InitLink, StepLink, PTL DEF Spec

\* No parser ever reads a length that is not a number, and onResponse never takes the
\* front of an empty queue (Defined).
THEOREM AlwaysDefined == Spec => []Defined
<1>1. ASSUME LinkInv PROVE Defined
  BY <1>1 DEF LinkInv, Sound, Defined
<1> QED
  BY LinkInvariant, <1>1, PTL

-------------------------------------------------------------------------------
(* How calls end. *)

\* The calls that have ended did so with a failure or with their own answers.
Ends(fin) ==
  \A r \in Requests : fin[r] \in {<<>>, <<Failed>>, <<Success(Answer[Data[r]])>>}

\* onFinished of the oldest of what was sent, with failures and with their own answers.
LEMMA FinishEnds ==
  ASSUME NEW made, NEW new, NEW sent, NEW fin, OnePlace(made, new, sent, fin), Ends(fin),
         NEW k \in 0 .. Len(sent), NEW o, o = [i \in 1 .. k |-> o[i]],
         \A i \in 1 .. k : o[i] \in {Failed, Success(Answer[Data[sent[i]]])}
  PROVE  Ends(Finish(fin, sent, o))
<1>1. sent \in Seq(Requests) /\ k \in Nat /\ k <= Len(sent) /\ DOMAIN sent = 1 .. Len(sent) /\ Len(sent) \in Nat
  BY DEF OnePlace
<1>2. Len(o) = k
  <2>1. o \in Seq({o[i] : i \in 1 .. k})
    BY <1>1
  <2>2. DOMAIN o = 1 .. k /\ DOMAIN o = 1 .. Len(o) /\ Len(o) \in Nat
    BY <2>1
  <2> QED
    BY <1>1, <2>2
<1> SUFFICES ASSUME NEW r \in Requests
             PROVE  Finish(fin, sent, o)[r] \in {<<>>, <<Failed>>, <<Success(Answer[Data[r]])>>}
  BY DEF Ends
<1> DEFINE mine == {i \in 1 .. k : sent[i] = r}
           j == Min(mine)
<1>3. Finish(fin, sent, o)[r] = IF mine = {} THEN fin[r] ELSE Append(fin[r], o[j])
  BY <1>2 DEF Finish
<1>4. CASE mine = {}
  BY <1>3, <1>4 DEF Ends
<1>5. CASE mine # {}
  <2>1. j \in mine
    <3>1. mine \subseteq Nat
      BY <1>1
    <3> HIDE DEF mine
    <3> QED
      BY <1>5, <3>1, NatMin
  <2>2. j \in 1 .. k /\ sent[j] = r
    BY <2>1
  <2> HIDE DEF j
  <2>3. r \in Range(sent)
    <3>1. j \in DOMAIN sent
      BY <1>1, <2>2
    <3> QED
      BY <2>2, <3>1 DEF Range
  <2>4. fin[r] = <<>>
    BY <2>3 DEF OnePlace
  <2>5. o[j] \in {Failed, Success(Answer[Data[r]])}
    BY <2>2
  <2> DEFINE x == o[j]
  <2> HIDE DEF x
  <2>6. Append(<<>>, x) = <<x>>
    OBVIOUS
  <2> QED
    BY <1>3, <1>5, <2>4, <2>5, <2>6 DEF x
<1> QED
  BY <1>4, <1>5

\* onLostConnection of a connection that had sent rs.
LEMMA LostEnds ==
  ASSUME NEW made, NEW new, NEW rs, NEW fin, OnePlace(made, new, rs, fin), Ends(fin),
         OnLostConnection(rs, fin)
  PROVE  Ends(finished')
<1> DEFINE m == Len(rs)
           o == [i \in 1 .. m |-> Failed]
<1>1. m \in 0 .. Len(rs)
  BY DEF OnePlace
<1>2. o = [i \in 1 .. m |-> o[i]] /\ \A i \in 1 .. m : o[i] \in {Failed, Success(Answer[Data[rs[i]]])}
  OBVIOUS
<1>3. finished' = Finish(fin, rs, o)
  BY DEF OnLostConnection, FailSent
<1> HIDE DEF o, m
<1> QED
  BY <1>1, <1>2, <1>3, FinishEnds

\* A connection c sends, or is lost.
LEMMA SendEnds ==
  ASSUME NEW made, NEW new, NEW c, OnePlace(made, new, c.m_sent_requests, finished), Ends(finished),
         PerformSendOrLose(c)
  PROVE  Ends(finished')
<1>1. CASE UNCHANGED finished
  BY <1>1
<1>2. CASE OnLostConnection(c.m_sent_requests, finished)
  BY <1>2, LostEnds
<1> QED
  BY <1>1, <1>2 DEF PerformSendOrLose

\* Answers come, or bytes that are none.
LEMMA OnReadEnds ==
  ASSUME PlaceInv, LinkInv, Ends(finished), OnRead
  PROVE  Ends(finished')
<1>1. PICK n, run :
        /\ n \in 1 .. Len(s2c) /\ Reads(n, run)
        /\ OnReadTakes(run) \/ OnReadLoses(run)
  BY OnReadCases
<1> DEFINE sent == client.m_sent_requests
           out == run.out
           k == Len(out)
           o == [i \in 1 .. k |-> Success(out[i])]
           left == From(sent, k + 1)
           fin == Finish(finished, sent, o)
<1>2. k \in 0 .. Len(sent) /\ \A i \in 1 .. k : out[i] = AnswerTo[sent[i]]
  BY <1>1 DEF Reads, Answered
<1>3. OnePlace(called, m_new_requests, sent, finished)
  BY DEF PlaceInv
<1>4. o = [i \in 1 .. k |-> o[i]] /\ \A i \in 1 .. k : o[i] \in {Failed, Success(Answer[Data[sent[i]]])}
  <2>1. ASSUME NEW i \in 1 .. k PROVE out[i] = Answer[Data[sent[i]]]
    <3>1. sent \in Seq(Requests) /\ i \in 1 .. Len(sent)
      BY <1>2, <1>3 DEF OnePlace
    <3>2. sent[i] \in Requests
      BY <3>1
    <3> QED
      BY <1>2, <3>2 DEF AnswerTo
  <2> QED
    BY <2>1
<1>5. (finished' = fin) \/ OnLostConnection(left, fin)
  BY <1>1 DEF OnReadTakes, OnReadLoses
<1>6. left = SubSeq(sent, k + 1, Len(sent))
  BY DEF From
<1> HIDE DEF o, sent, k, left
<1>7. Ends(fin)
  BY <1>2, <1>3, <1>4, FinishEnds
<1>8. OnePlace(called, m_new_requests, left, fin)
  BY <1>2, <1>3, <1>4, <1>6, FinishMoves
<1> HIDE DEF fin
<1> QED
  BY <1>5, <1>7, <1>8, LostEnds

\* Every step keeps to that.
LEMMA StepEnds == PlaceInv /\ LinkInv /\ Ends(finished) /\ [Next]_vars => Ends(finished')
<1> SUFFICES ASSUME PlaceInv, LinkInv, Ends(finished), [Next]_vars PROVE Ends(finished')
  OBVIOUS
<1>0. /\ OnePlace(called, m_new_requests, client.m_sent_requests, finished)
      /\ IsConn(client)
  BY DEF PlaceInv, IsConn
<1>1. CASE UNCHANGED finished
  BY <1>1
<1>2. CASE OnWrite
  <2> DEFINE c == [client EXCEPT !.writable = "no"]
  <2>1. IsConn(c) /\ c.m_sent_requests = client.m_sent_requests
    BY <1>0 DEF IsConn
  <2>2. \/ /\ m_new_requests # <<>>
           /\ PerformSendOrLose(AddRequest(c, Head(m_new_requests)))
        \/ UNCHANGED finished
        \/ PerformSendOrLose(c)
    BY <1>2 DEF OnWrite
  <2> HIDE DEF c
  <2>3. CASE m_new_requests # <<>> /\ PerformSendOrLose(AddRequest(c, Head(m_new_requests)))
    <3> DEFINE d == AddRequest(c, Head(m_new_requests))
    <3>1. d.m_sent_requests = Append(client.m_sent_requests, Head(m_new_requests))
      BY <2>1, AddRequestForm
    <3>2. OnePlace(called, Tail(m_new_requests), d.m_sent_requests, finished)
      BY <1>0, <2>3, <3>1, TakeMoves
    <3> HIDE DEF d
    <3>3. PerformSendOrLose(d)
      BY <2>3 DEF d
    <3> QED
      BY <3>2, <3>3, SendEnds
  <2>4. CASE PerformSendOrLose(c)
    BY <1>0, <2>1, <2>4, SendEnds
  <2> QED
    BY <1>1, <2>2, <2>3, <2>4
<1>3. CASE PutRequestsToFreeConnections
  BY <1>1, <1>3 DEF PutRequestsToFreeConnections
<1>4. CASE OnReadEnd
  BY <1>0, <1>4, LostEnds DEF OnReadEnd
<1>5. CASE OnRead
  BY <1>5, OnReadEnds
<1>6. CASE \/ \E r \in Requests : Call(r)
           \/ CheckKeepAlive \/ Reconnect \/ SrvOnRead \/ SrvHandleResponses \/ SrvOnWrite
           \/ Break \/ UNCHANGED vars
  <2>1. UNCHANGED finished
    BY <1>6 DEF Call, CheckKeepAlive, Reconnect, SrvOnRead, SrvHandleResponses, SrvOnWrite, Break, vars
  <2> QED
    BY <1>1, <2>1
<1> QED
  BY <1>2, <1>3, <1>4, <1>5, <1>6 DEF Next

\* A call ends at most once, and if it succeeds then with the answer to its own request,
\* although the two are paired by order alone (OwnAnswerOnce).
THEOREM OwnAnswers == Spec => []OwnAnswerOnce
<1>1. Init => OwnAnswerOnce
  BY DEF Init, OwnAnswerOnce
<1>2. PlaceInv /\ LinkInv /\ OwnAnswerOnce /\ [Next]_vars => OwnAnswerOnce'
  BY StepEnds DEF Ends, OwnAnswerOnce
<1> QED
  BY PlaceInvariant, LinkInvariant, <1>1, <1>2, PTL DEF Spec

-------------------------------------------------------------------------------
(* What is under way, frame by frame. *)

\* No message of the calls that are under way is longer than LongestMessage.
LEMMA Longest ==
  ASSUME NEW sent \in Seq(Requests), sent = client.m_sent_requests
  PROVE  /\ LongestMessage \in Nat
         /\ \A i \in 1 .. Len(sent) :
              Len(Data[sent[i]]) <= LongestMessage /\ Len(AnswerTo[sent[i]]) <= LongestMessage
<1> DEFINE n == Len(sent)
           d == [i \in 1 .. n |-> Len(Data[sent[i]])]
           a == [i \in 1 .. n |-> Len(AnswerTo[sent[i]])]
           M == {0} \cup {Len(Data[r]) : r \in Range(sent)} \cup {Len(Answer[Data[r]]) : r \in Range(sent)}
<1>1. n \in Nat /\ DOMAIN sent = 1 .. n /\ \A i \in 1 .. n : sent[i] \in Requests
  OBVIOUS
<1>2. \A r \in Requests : Len(Data[r]) \in Nat /\ AnswerTo[r] = Answer[Data[r]] /\ Len(AnswerTo[r]) \in Nat
  <2>1. \A r \in Requests : Data[r] \in Seq(Byte) /\ AnswerTo[r] \in Seq(Byte) /\ AnswerTo[r] = Answer[Data[r]]
    BY Dumps DEF AnswerTo
  <2> QED
    BY <2>1
<1>3. PICK b \in Nat : \A i \in 1 .. n : d[i] <= b
  <2>1. \A i \in 1 .. n : d[i] \in Nat
    BY <1>1, <1>2
  <2> HIDE DEF d, n
  <2> QED
    BY <1>1, <2>1, FiniteBound
<1>4. PICK c \in Nat : \A i \in 1 .. n : a[i] <= c
  <2>1. \A i \in 1 .. n : a[i] \in Nat
    BY <1>1, <1>2
  <2> HIDE DEF a, n
  <2> QED
    BY <1>1, <2>1, FiniteBound
<1> DEFINE m == b + c
<1>5. m \in Nat
  OBVIOUS
<1>6. ASSUME NEW r \in Range(sent)
      PROVE  /\ r \in Requests /\ Len(Data[r]) \in 0 .. m /\ Len(Answer[Data[r]]) \in 0 .. m
  <2>1. PICK i \in 1 .. n : r = sent[i]
    BY <1>1 DEF Range
  <2>2. r \in Requests /\ Len(Data[r]) <= b /\ Len(Answer[Data[r]]) <= c
    BY <1>1, <1>2, <1>3, <1>4, <2>1
  <2>3. Len(Data[r]) \in Nat /\ Len(Answer[Data[r]]) \in Nat
    BY <1>2, <2>2
  <2> DEFINE x == Len(Data[r])
             y == Len(Answer[Data[r]])
  <2> HIDE DEF x, y
  <2>4. x \in 0 .. m /\ y \in 0 .. m
    BY <2>2, <2>3 DEF x, y
  <2> QED
    BY <2>2, <2>4 DEF x, y
<1>7. M \subseteq 0 .. m /\ M # {}
  BY <1>5, <1>6
<1>8. LongestMessage = Max(M)
  BY DEF LongestMessage
<1>9. \A i \in 1 .. n : Len(Data[sent[i]]) \in M /\ Len(AnswerTo[sent[i]]) \in M
  <2> SUFFICES ASSUME NEW i \in 1 .. n
               PROVE  Len(Data[sent[i]]) \in M /\ Len(AnswerTo[sent[i]]) \in M
    OBVIOUS
  <2>1. sent[i] \in Range(sent) /\ sent[i] \in Requests
    BY <1>1 DEF Range
  <2> QED
    BY <1>2, <2>1
<1> HIDE DEF m, M
<1>10. Max(M) \in M /\ \A y \in M : Max(M) >= y
  BY <1>5, <1>7, BoundedMax
<1>11. LongestMessage \in Nat
  <2>1. LongestMessage \in 0 .. m
    BY <1>7, <1>8, <1>10
  <2> QED
    BY <1>5, <2>1
<1>12. \A y \in M : y <= LongestMessage
  <2>1. \A y \in M : y \in Nat
    BY <1>5, <1>7
  <2> QED
    BY <1>8, <1>10, <1>11, <2>1
<1> QED
  BY <1>9, <1>11, <1>12

\* MessagesIn is all that a parser and the bytes on their way to it hold.
LEMMA MessagesHeld ==
  ASSUME NEW end \in {"client", "server"}, NEW limit \in Nat, NEW p, NEW bs \in Seq(Byte), NEW ms,
         Waiting(p), Holds(end, p, bs, ms), ~ Long(ms, limit)
  PROVE  MessagesIn(end, limit, p, bs) = ms
<1> DEFINE B == Seq(Byte)
           none == <<>>
<1>1. none \in Seq(Byte) /\ bs \o none = bs
  BY ConcatEmptySeq
<1> HIDE DEF none
<1>2. PICK r : Receive(end, limit, p, bs) = {r} /\ Received(end, limit, none, ms, r)
  <2>1. Holds(end, p, bs \o none, ms)
    BY <1>1
  <2> QED
    BY <1>1, <2>1, ReceiveHolds
<1>3. Waiting(r.parser) /\ \E rest : Handed(ms, r.out, rest) /\ Holds(end, r.parser, none, rest)
  BY <1>2 DEF Received, Thrown, Stopped
<1>4. PICK rest : Handed(ms, r.out, rest) /\ Holds(end, r.parser, none, rest)
  BY <1>3
<1>5. rest = <<>>
  BY <1>3, <1>4, NothingHeld DEF none
<1>6. r.out \in Seq(B) /\ ms = r.out \o <<>>
  BY <1>4, <1>5 DEF Handed
<1>7. r.out \o <<>> = r.out
  <2> HIDE DEF B
  <2> QED
    BY <1>6, ConcatEmptySeq
<1> QED
  BY <1>2, <1>6, <1>7 DEF MessagesIn

\* The messages of a queue of calls are no longer than LongestMessage.
LEMMA NotLong ==
  ASSUME NEW rs \in Seq(Requests), NEW f, NEW x, Mapped(rs, f, x), NEW limit,
         \A i \in 1 .. Len(rs) : Len(f[rs[i]]) <= limit /\ Len(f[rs[i]]) \in Nat, limit \in Nat
  PROVE  ~ Long(x, limit)
<1> SUFFICES ASSUME NEW i \in 1 .. Len(x), Len(x[i]) > limit PROVE FALSE
  BY DEF Long
<1>1. i \in 1 .. Len(rs) /\ x[i] = f[rs[i]]
  BY DEF Mapped
<1> DEFINE l == Len(f[rs[i]])
<1>2. l <= limit /\ l \in Nat /\ l > limit
  BY <1>1
<1> HIDE DEF l
<1> QED
  BY <1>2

\* The answers under way, and those to the requests under way, are one for each call.
AllAnswered(custom, cp, sent, back, live, sp, queue, forth, limit) ==
  custom /\ live /\ Linked(custom, cp, sent, back, live, sp, queue, forth) =>
    LET asking == queue \o MessagesIn("server", limit, sp, forth)
    IN  MessagesIn("client", limit, cp, back) \o [i \in 1 .. Len(asking) |-> Answer[asking[i]]]
          = [i \in 1 .. Len(sent) |-> AnswerTo[sent[i]]]

\* One answer for every call sent: those on their way back, then those the server
\* has still to give.
LEMMA LinkAnswers ==
  ASSUME NEW custom, NEW cp, NEW sent, NEW back \in Seq(Byte), NEW live, NEW sp, NEW queue,
         NEW forth \in Seq(Byte), NEW limit \in Nat,
         \A i \in 1 .. Len(sent) : Len(Data[sent[i]]) <= limit /\ Len(AnswerTo[sent[i]]) <= limit
  PROVE  AllAnswered(custom, cp, sent, back, live, sp, queue, forth, limit)
<1> SUFFICES ASSUME custom, live, Linked(custom, cp, sent, back, live, sp, queue, forth)
             PROVE  LET asking == queue \o MessagesIn("server", limit, sp, forth)
                    IN  MessagesIn("client", limit, cp, back)
                          \o [i \in 1 .. Len(asking) |-> Answer[asking[i]]]
                        = [i \in 1 .. Len(sent) |-> AnswerTo[sent[i]]]
  BY DEF AllAnswered
<1>1. PICK A, Q, xs, ds : LinkedBy(custom, cp, sent, back, live, sp, queue, forth, A, Q, xs, ds)
  BY LinkedIs
<1>2. /\ A \in Seq(Requests) /\ Q \in Seq(Requests)
      /\ sent = A \o Q /\ Mapped(A, AnswerTo, xs) /\ Mapped(Q, Data, ds)
      /\ Holds("client", cp, back, xs) /\ Waiting(cp) /\ Waiting(sp)
      /\ \E ms : Handed(ds, queue, ms) /\ Holds("server", sp, forth, ms)
  BY <1>1 DEF LinkedBy, AnswersHeld, RequestsHeld
<1>3. PICK ms : Handed(ds, queue, ms) /\ Holds("server", sp, forth, ms)
  BY <1>2
<1>4. sent \in Seq(Requests) /\ Concats(sent, A, Q) /\ Len(A) \in Nat /\ Len(Q) \in Nat
  BY <1>2, ConcatElements
<1>5. /\ \A r \in Requests : Len(Data[r]) \in Nat /\ Len(AnswerTo[r]) \in Nat
      /\ Data \in [Requests -> Seq(Byte)] /\ AnswerTo \in [Requests -> Seq(Byte)]
  <2>1. \A r \in Requests : Data[r] \in Seq(Byte) /\ AnswerTo[r] \in Seq(Byte)
    BY Dumps
  <2> QED
    BY <2>1, Dumps
<1>6. ~ Long(xs, limit)
  <2>1. ASSUME NEW i \in 1 .. Len(A) PROVE Len(AnswerTo[A[i]]) <= limit /\ Len(AnswerTo[A[i]]) \in Nat
    <3>1. sent[i] = A[i] /\ i \in 1 .. Len(sent) /\ A[i] \in Requests
      BY <1>2, <1>4 DEF Concats
    <3> QED
      BY <1>5, <3>1
  <2> QED
    BY <1>2, <2>1, NotLong
<1>7. ~ Long(ds, limit)
  <2>1. ASSUME NEW i \in 1 .. Len(Q) PROVE Len(Data[Q[i]]) <= limit /\ Len(Data[Q[i]]) \in Nat
    <3>1. sent[Len(A) + i] = Q[i] /\ Len(A) + i \in 1 .. Len(sent) /\ Q[i] \in Requests
      BY <1>2, <1>4 DEF Concats
    <3>2. Len(Data[sent[Len(A) + i]]) <= limit
      BY <3>1
    <3> QED
      BY <1>5, <3>1, <3>2
  <2> QED
    BY <1>2, <2>1, NotLong
<1>8. ~ Long(ms, limit)
  <2> DEFINE B == Seq(Byte)
  <2> HIDE DEF B
  <2>1. queue \in Seq(B) /\ ms \in Seq(B) /\ ds = queue \o ms
    BY <1>3 DEF Handed, B
  <2>2. Concats(ds, queue, ms) /\ Len(queue) \in Nat /\ Len(ms) \in Nat
    BY <2>1, ConcatElements
  <2>3. ASSUME NEW i \in 1 .. Len(ms), Len(ms[i]) > limit PROVE FALSE
    <3>1. ds[Len(queue) + i] = ms[i] /\ Len(queue) + i \in 1 .. Len(ds)
      BY <2>2 DEF Concats
    <3> QED
      BY <1>7, <2>3, <3>1 DEF Long
  <2> QED
    BY <2>3 DEF Long
<1>9. MessagesIn("client", limit, cp, back) = xs /\ MessagesIn("server", limit, sp, forth) = ms
  BY <1>2, <1>3, <1>6, <1>8, MessagesHeld
<1>10. ds = queue \o ms
  BY <1>3 DEF Handed
<1> DEFINE ys == [i \in 1 .. Len(ds) |-> Answer[ds[i]]]
           zs == [i \in 1 .. Len(sent) |-> AnswerTo[sent[i]]]
           ws == [i \in 1 .. Len(Q) |-> AnswerTo[Q[i]]]
<1>11. ys = ws
  <2>1. Len(ds) = Len(Q) /\ \A i \in 1 .. Len(Q) : ds[i] = Data[Q[i]] /\ Q[i] \in Requests
    BY <1>2 DEF Mapped
  <2>2. \A i \in 1 .. Len(Q) : Answer[ds[i]] = AnswerTo[Q[i]]
    BY <2>1 DEF AnswerTo
  <2> QED
    BY <2>1, <2>2
<1>12. Mapped(Q, AnswerTo, ws) /\ Mapped(sent, AnswerTo, zs)
  BY <1>2, <1>4, <1>5, MappedIs
<1> HIDE DEF ys, zs, ws
<1>13. Mapped(sent, AnswerTo, xs \o ws)
  BY <1>2, <1>5, <1>12, MappedMore
<1>14. xs \o ys = zs
  BY <1>11, <1>12, <1>13, MappedOne
<1> QED
  BY <1>9, <1>10, <1>14 DEF ys, zs

\* While the connection is up, what is under way in both directions is one answer for
\* every call the client has sent, in its order (AnswersUnderWay).
THEOREM OneAnswerEach == Spec => []AnswersUnderWay
<1>1. ASSUME LinkInv PROVE AnswersUnderWay
  <2> SUFFICES ASSUME up, client.state = "ACTIVE"
               PROVE  MessagesIn("client", LongestMessage, client.m_parser, Answering)
                        \o [i \in 1 .. Len(Asking) |-> Answer[Asking[i]]]
                      = [i \in 1 .. Len(client.m_sent_requests) |->
                           Answer[Data[client.m_sent_requests[i]]]]
    BY DEF AnswersUnderWay
  <2> DEFINE custom == server.custom_protocol
             cp == client.m_parser
             sent == client.m_sent_requests
             sp == server.m_custom_parser
             queue == server.custom_requests
             forth == c2s \o client.m_send_buffer
             back == Answering
             limit == LongestMessage
             asking == queue \o MessagesIn("server", limit, sp, forth)
  <2>1. /\ Typed(client, server, c2s, s2c, up) /\ cp.state # "READING_HANDSHAKE"
        /\ Link(client, server, c2s, s2c, up)
    BY <1>1 DEF LinkInv, Sound
  <2>2. Answering = OutOf(s2c, server.m_send_buffer, server.m_resps, server.m_custom_resp_queue)
    BY DEF Answering, OutOf
  <2>3. back \in Seq(Byte)
    <3> DEFINE b == server.m_send_buffer
               rs == server.m_resps
               qs == server.m_custom_resp_queue
    <3>1. s2c \in Seq(Byte) /\ b \in Seq(Byte) /\ rs \in Seq(Seq(Byte)) /\ qs \in Seq(Seq(Byte))
      BY <2>1 DEF Typed, ServerConn
    <3> HIDE DEF b, rs, qs
    <3>2. OutOf(s2c, b, rs, qs) \in Seq(Byte)
      BY <3>1, OutBytes
    <3> QED
      BY <2>2, <3>2 DEF b, rs, qs
  <2>4. forth \in Seq(Byte)
    <3> DEFINE b == client.m_send_buffer
    <3>1. c2s \in Seq(Byte) /\ b \in Seq(Byte)
      BY <2>1 DEF Typed, ClientConn
    <3> HIDE DEF b
    <3>2. c2s \o b \in Seq(Byte)
      BY <3>1, ConcatElements
    <3> QED
      BY <3>2 DEF b
  <2>5. Linked(custom, cp, sent, back, up, sp, queue, forth)
    BY <2>1, <2>2 DEF Link
  <2> HIDE DEF custom, cp, sent, sp, queue, forth, back
  <2>6. custom /\ sent \in Seq(Requests)
    <3>1. ~ custom => cp.state = "READING_HANDSHAKE"
      BY <2>5 DEF Linked, AnswersHeld, ResponseParser, NewParser
    <3>2. sent \in Seq(Requests)
      BY <2>5, LinkState
    <3> QED
      BY <2>1, <3>1, <3>2 DEF cp
  <2>7. /\ limit \in Nat
        /\ \A i \in 1 .. Len(sent) : Len(Data[sent[i]]) <= limit /\ Len(AnswerTo[sent[i]]) <= limit
    BY <2>6, Longest DEF sent
  <2> HIDE DEF limit
  <2>8. MessagesIn("client", limit, cp, back) \o [i \in 1 .. Len(asking) |-> Answer[asking[i]]]
          = [i \in 1 .. Len(sent) |-> AnswerTo[sent[i]]]
    <3>1. AllAnswered(custom, cp, sent, back, up, sp, queue, forth, limit)
      BY <2>3, <2>4, <2>7, LinkAnswers
    <3> QED
      BY <2>5, <2>6, <3>1 DEF AllAnswered
  <2>9. Asking = asking
    BY DEF Asking, queue, limit, sp, forth
  <2>10. [i \in 1 .. Len(sent) |-> AnswerTo[sent[i]]] = [i \in 1 .. Len(sent) |-> Answer[Data[sent[i]]]]
    <3>1. \A i \in 1 .. Len(sent) : AnswerTo[sent[i]] = Answer[Data[sent[i]]]
      BY <2>6, SMTT(30) DEF AnswerTo
    <3> QED
      BY <3>1
  <2> HIDE DEF asking
  <2> QED
    BY <2>8, <2>9, <2>10 DEF sent, cp, back, limit
<1> QED
  BY LinkInvariant, <1>1, PTL

-------------------------------------------------------------------------------
(* Types. *)

\* The bounded counters.
Counted == breaks \in 0 .. MaxBreaks /\ keepalives \in 0 .. MaxKeepAlives

\* Every step keeps them bounded.
LEMMA StepCounted == Counted /\ [Next]_vars => Counted'
<1> SUFFICES ASSUME Counted, [Next]_vars PROVE Counted'
  OBVIOUS
<1>1. CASE UNCHANGED bounds
  BY <1>1 DEF bounds, Counted
<1>2. CASE CheckKeepAlive
  BY <1>2, BinLinkAssumption DEF CheckKeepAlive, Counted
<1>3. CASE Break
  BY <1>3, BinLinkAssumption DEF Break, Counted
<1>4. CASE UNCHANGED vars
  BY <1>1, <1>4 DEF vars
<1> QED
  BY <1>1, <1>2, <1>3, <1>4
  DEF Next, Call, OnWrite, PutRequestsToFreeConnections, OnRead, OnReadEnd, Reconnect,
      SrvOnRead, SrvHandleResponses, SrvOnWrite

\* Every variable keeps its type: the messages in the queues of both ends are
\* sequences of bytes, and no parser is in a state parse() does not know.
THEOREM TypeInvariant == Spec => []TypeOK
<1>1. Init => Counted
  BY BinLinkAssumption DEF Init, Counted
<1>2. ASSUME PlaceInv, LinkInv, OwnAnswerOnce, Counted PROVE TypeOK
  <2>1. /\ client \in ClientConn /\ server \in ServerConn /\ c2s \in Seq(Byte) /\ s2c \in Seq(Byte)
        /\ up \in BOOLEAN
    BY <1>2 DEF LinkInv, Sound, Typed
  <2>2. called \subseteq Requests /\ m_new_requests \in Seq(Requests)
        /\ finished = [r \in Requests |-> finished[r]]
    BY <1>2 DEF PlaceInv, OnePlace
  <2> DEFINE E == [succ : BOOLEAN, res : Seq(Byte)]
  <2>3. \A r \in Requests : finished[r] \in Seq(E)
    <3> SUFFICES ASSUME NEW r \in Requests PROVE finished[r] \in Seq(E)
      OBVIOUS
    <3>1. finished[r] \in {<<>>, <<Failed>>, <<Success(Answer[Data[r]])>>}
      BY <1>2 DEF OwnAnswerOnce
    <3> DEFINE a == Answer[Data[r]]
               x == Failed
               y == Success(a)
    <3>2. a \in Seq(Byte)
      BY BinLinkAssumption
    <3> HIDE DEF a
    <3>3. x \in E /\ y \in E
      BY <3>2 DEF Failed, Success
    <3> HIDE DEF E, x, y
    <3>4. <<>> \in Seq(E) /\ <<x>> \in Seq(E) /\ <<y>> \in Seq(E)
      BY <3>3
    <3> QED
      BY <3>1, <3>4 DEF x, y, a
  <2> HIDE DEF E
  <2>4. finished \in [Requests -> Seq(E)]
    BY <2>2, <2>3
  <2> QED
    BY <1>2, <2>1, <2>2, <2>4 DEF TypeOK, Counted, E
<1>3. Spec => []Counted
  BY <1>1, StepCounted, PTL DEF Spec
<1> QED
  BY PlaceInvariant, LinkInvariant, OwnAnswers, <1>2, <1>3, PTL

===============================================================================
