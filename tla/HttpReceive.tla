----------------------------- MODULE HttpReceive -----------------------------
(***************************************************************************)
(* HttpConnection as a receiver of HTTP requests (network/HttpServer/      *)
(* Connection.impl, ConnectionParsing.impl): the bytes of a stream arrive  *)
(* in receives of any size, http_parser takes them apart and its callbacks *)
(* put the requests together.                                              *)
(***************************************************************************)
EXTENDS HttpParser, Functions

CONSTANT Streams       \* what clients may send

ASSUME HttpReceiveAssumption == Streams \subseteq Seq(STRING)

VARIABLES
  rest,                \* what has still to arrive
  m_parser,            \* http_parser
  cur,                 \* m_cur_http_request, m_cur_header_field
  alive, keepalive,
  http_requests,       \* all requests pushed so far
  fed, heard, clean    \* history: the bytes received, the callbacks made for them,
                       \* and whether each receive has held one plain request

vars == <<rest, m_parser, cur, alive, keepalive, http_requests, fed, heard, clean>>

Request == [url : Seq(STRING), headers : SUBSET (Seq(STRING) \X Seq(STRING)),
            body : Seq(STRING)]

EmptyRequest == [url |-> <<>>, headers |-> {}, body |-> <<>>]

Init ==
  /\ rest \in Streams
  /\ m_parser = http_parser_init
  /\ cur = [request |-> EmptyRequest, field |-> <<>>, finished |-> FALSE]
  /\ alive = TRUE /\ keepalive = TRUE
  /\ http_requests = <<>>
  /\ fed = <<>> /\ heard = <<>> /\ clean = TRUE

-----------------------------------------------------------------------------
(* The callbacks. *)

Text(data, e) == SubSeq(data, e.from, e.to)

NUL == "NUL"

\* A std::string made from a char *: it ends before the first of these.
UpTo(text, ends) ==
  LET end == SelectInSeq(text, LAMBDA c : c \in ends)
  IN  IF end = 0 THEN text ELSE SubSeq(text, 1, end - 1)

CString(text) == UpTo(text, {NUL})

UrlAt_NoEnd(data, e) == CString(SubSeq(data, e.from, Len(data)))

\* onUrl looks for the end of the URL itself: a NUL, of which there is one behind
\* the data, and before it a space.
UrlAt(data, e) == UpTo(SubSeq(data, e.from, Len(data)), {SP, NUL})

\* std::map::insert: a name that is there already keeps its value.
Insert(headers, name, value) ==
  IF \E h \in headers : h[1] = name THEN headers ELSE headers \cup {<<name, value>>}

\* Each piece is copied and made a std::string, as far as its first NUL.
OnCallback(data, c, e) ==
  CASE e.cb = "url"              -> [c EXCEPT !.request.url = UrlAt(data, e)]
    [] e.cb = "header_field"     -> [c EXCEPT !.field = CString(Text(data, e))]
    [] e.cb = "header_value"     -> [c EXCEPT !.request.headers =
                                                Insert(@, c.field, CString(Text(data, e)))]
    [] e.cb = "body"             -> [c EXCEPT !.request.body = CString(Text(data, e))]
    [] e.cb = "message_complete" -> [c EXCEPT !.finished = TRUE]
    [] OTHER                     -> c

\* onHeadersComplete has the last word on keepalive.
KeepAlive(before, out) ==
  FoldLeft(LAMBDA k, e : IF e.cb = "headers_complete" THEN e.keep ELSE k, before, out)

\* One thing more is heard; pieces of the same thing are put together.
Put(h, cb, text) ==
  IF h # <<>> /\ Last(h)[1] = cb
  THEN Append(Front(h), <<cb, Last(h)[2] \o text>>)
  ELSE Append(h, <<cb, text>>)

\* The text of a callback, if it comes with one.
Said(data, e) == IF "from" \in DOMAIN e THEN Text(data, e) ELSE <<>>

\* The callbacks of a stretch of data, after what was heard before.
Hear(before, data, out) ==
  LET upTo[i \in 0 .. Len(out)] ==
        IF i = 0 THEN before ELSE Put(upTo[i - 1], out[i].cb, Said(data, out[i]))
  IN  upTo[Len(out)]

\* One receive that holds one whole request of HTTP 1.x, each part of it in one piece.
Plain(call) ==
  /\ m_parser.state = "s_start_req"
  /\ Len(SelectSeq(call.out, LAMBDA e : e.cb = "message_complete")) = 1
  /\ \A i \in 1 .. Len(call.out) - 1 : call.out[i].cb # call.out[i + 1].cb
  /\ Last(call.out).cb = "message_complete"
  /\ call.p.http_major > 0

Take(c) ==
  IF c.finished
  THEN /\ http_requests' = Append(http_requests, c.request)
       /\ cur' = [c EXCEPT !.request = EmptyRequest, !.finished = FALSE]
  ELSE /\ cur' = c
       /\ UNCHANGED http_requests

\* performRecv: what the socket has is parsed in one go; then at most one request
\* is pushed.
PerformRecv(n) ==
  LET data == SubSeq(rest, 1, n)
      call == http_parser_execute(m_parser, data)
      c    == FoldLeft(LAMBDA x, e : OnCallback(data, x, e), cur, call.out)
  IN  /\ alive
      /\ rest' = SubSeq(rest, n + 1, Len(rest))
      /\ m_parser' = call.p
      /\ keepalive' = KeepAlive(keepalive, call.out)
      /\ Take(c)
      /\ fed' = fed \o data
      /\ heard' = Hear(heard, data, call.out)
      /\ clean' = (clean /\ Plain(call))
      /\ UNCHANGED alive

\* performRecv when the client has closed: what it sent just before is dropped unread.
PerformRecvClosed ==
  /\ alive
  /\ alive' = FALSE
  /\ rest' = <<>>
  /\ UNCHANGED <<m_parser, cur, keepalive, http_requests, fed, heard, clean>>

Next == (\E n \in 1 .. Len(rest) : PerformRecv(n)) \/ PerformRecvClosed

Spec == Init /\ [][Next]_vars

-----------------------------------------------------------------------------
(* Properties. *)

TypeOK ==
  /\ m_parser.content_length \in 0 .. ULLONG_MAX
  /\ m_parser.nread \in 0 .. HTTP_MAX_HEADER_SIZE + 1
  /\ m_parser.http_errno \in {"OK", "ERROR", "ASSERT"}
  /\ alive \in BOOLEAN /\ keepalive \in BOOLEAN
  /\ cur.request \in Request /\ ~cur.finished
  /\ http_requests \in Seq(Request)

\* No assertion of http_parser_execute fails: a body has bytes left to read, a chunk
\* size starts with nread 1, no two marks are set at once.
AssertionsHold == m_parser.http_errno # "ASSERT"

\* http_parser is left in the same state, and reports the same things, however the
\* stream is cut.  This ends with a request to upgrade: the parser leaves the call there,
\* and performRecv drops what is left of the data.
CutsDoNotMatter ==
  LET whole == http_parser_execute(http_parser_init, fed)
  IN  ~whole.p.upgrade =>
        /\ m_parser = whole.p
        /\ m_parser.http_errno = "OK" => heard = Hear(<<>>, fed, whole.out)

Number(text) ==
  FoldLeft(LAMBDA v, c : 10 * v + unhex(c), 0, SelectSeq(text, IS_NUM))

\* The requests in what was heard, each put together from all its pieces, and all
\* headers of the last.
Collect(h) ==
  FoldLeft(LAMBDA x, e :
             CASE e[1] = "message_begin"    -> [x EXCEPT !.now = EmptyRequest, !.all = {}]
               [] e[1] = "url"              -> [x EXCEPT !.now.url = e[2]]
               [] e[1] = "header_field"     -> [x EXCEPT !.field = e[2]]
               [] e[1] = "header_value"     -> [x EXCEPT !.now.headers =
                                                           Insert(@, x.field, e[2]),
                                                         !.all = @ \cup {<<x.field, e[2]>>}]
               [] e[1] = "body"             -> [x EXCEPT !.now.body = @ \o e[2]]
               [] e[1] = "message_complete" -> [x EXCEPT !.done = Append(@, x.now)]
               [] OTHER                     -> x,
           [now |-> EmptyRequest, all |-> {}, field |-> <<>>, done |-> <<>>], h)

\* A header may go on over more lines.
GoesOn == \E i \in 2 .. Len(fed) : fed[i - 1] = LF /\ fed[i] \in {SP, TAB}

\* A length is never mistaken for another one: what is left of a body and what has
\* been heard of it make up the Content-Length (http_parser's check against overflow).
\* Of a folded value one line alone counts, and of two such headers the last.
LengthIsKept ==
  LET c == Collect(heard)
  IN  m_parser.state = "s_body_identity" =>
        \E h \in c.all :
          /\ [i \in DOMAIN h[1] |-> LOWER(h[1][i])] = CONTENT_LENGTH
          /\ \E line \in IF GoesOn THEN SubSeqs(h[2]) ELSE {h[2]} :
               m_parser.content_length + Len(c.now.body) = Number(line)

\* A request as the application gets it: values and body up to their first NUL,
\* where std::string(bf) ends (ConnectionParsing.impl:92, 127).
AsStrings(r) ==
  [r EXCEPT !.headers = {<<h[1], CString(h[2])>> : h \in @}, !.body = CString(@)]

\* A client that sends its next request after the answer, whose requests arrive in
\* one receive each, is understood: the requests pushed are those sent, in order and
\* complete, but that a value or a body is cut at a NUL in it.
PlainRequestsArrive ==
  LET sent == Collect(heard).done
  IN  clean => http_requests = [i \in DOMAIN sent |-> AsStrings(sent[i])]

\* http_parser.h says of the data callbacks that there may be many for each string:
\* the requests pushed should be those in the stream however it was cut.
RequestsArrive == http_requests = Collect(heard).done
=============================================================================
