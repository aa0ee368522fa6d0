------------------------------ MODULE BinFrames ------------------------------
(***************************************************************************)
(* The frames of the binary API and the two incremental parsers that take  *)
(* them apart: hiapi::server::Parser (network/HttpApi/BinServer/Parser.cpp)*)
(* and hiapi::client::ResponseParser (network/HttpApi/BinClient/           *)
(* Parser.cpp).                                                            *)
(*                                                                         *)
(* A message travels as its length in digits, a newline and its bytes.     *)
(* Bytes are numbers: the digits, the newline, the keepalive byte, the     *)
(* Upgrade request (one symbol for the whole HTTP request: a part of it    *)
(* only makes the server wait) and whatever the handshake is made of.  A   *)
(* message may hold any byte.  The code counts in base 10; Base is a       *)
(* parameter so that short messages have lengths of several digits.        *)
(***************************************************************************)
EXTENDS Integers, Sequences, SequencesExt, FiniteSets, FiniteSetsExt

CONSTANTS Base,            \* 10 in the code
          Handshake,       \* HIAPI_HANDSHAKE
          RequestLimit,    \* HIAPI_BINREQUEST_MAX_SIZE
          ResponseLimit    \* MESSAGE_SIZE_LIMIT

Byte      == Nat
Digit     == 0 .. Base - 1
Newline   == Base
KeepAlive == Base + 1
Upgrade   == Base + 2

ASSUME BinFramesAssumption ==
  /\ Base \in Nat \ {0, 1}
  /\ Handshake \in Seq(Byte) \ {<<>>}
  /\ RequestLimit \in Nat /\ ResponseLimit \in Nat

\* The decimal of a length, as an ostream prints it.
ToDigits[n \in Nat] ==
  IF n < Base THEN <<n>> ELSE Append(ToDigits[n \div Base], n % Base)

\* "o << data.size() << "\n" << data" of Connection::addRequest and HttpApi.
Frame(data) == ToDigits[Len(data)] \o <<Newline>> \o data

-----------------------------------------------------------------------------
(* A parser object.  "THROWN": parse() has thrown; "UNDEFINED": it has read *)
(* the uninitialised integer of string_to_uint64.                           *)

States == {"READING_HANDSHAKE", "READING_SIZE", "READING_MESSAGE", "THROWN",
           "UNDEFINED"}

Parser == [state : States, m_cur_token : Seq(Byte), m_size : Nat,
           message : Seq(Byte), got : BOOLEAN]

NewParser(start) ==
  [state |-> start, m_cur_token |-> <<>>, m_size |-> 0, message |-> <<>>,
   got |-> FALSE]

ServerParser   == NewParser("READING_SIZE")
ResponseParser == NewParser("READING_HANDSHAKE")

\* The bytes of t from the i-th on.
From(t, i) == SubSeq(t, i, Len(t))

\* The number of leading elements of t in the set S.
Leading(t, S) == Max({n \in 0 .. Len(t) : \A i \in 1 .. n : t[i] \in S})

SkipKeepAlives_OnlyAlone(p) ==
  IF p.state = "READING_SIZE" /\ p.m_cur_token = <<KeepAlive>>
  THEN [p EXCEPT !.m_cur_token = <<>>]
  ELSE p

\* The server drops keepalive bytes where a length may start.
SkipKeepAlives(p) ==
  IF p.state = "READING_SIZE"
  THEN [p EXCEPT !.m_cur_token = From(@, Leading(@, {KeepAlive}) + 1)]
  ELSE p

\* The client first reads the handshake.
ReadHandshake(p) ==
  IF p.state = "READING_HANDSHAKE" /\ Len(p.m_cur_token) >= Len(Handshake)
  THEN [p EXCEPT !.m_cur_token = From(@, Len(Handshake) + 1),
                 !.state = IF IsPrefix(Handshake, p.m_cur_token)
                           THEN "READING_SIZE" ELSE "THROWN"]
  ELSE p

\* sscanf("%llu"): the value of the leading digits of a line.
LeadingNumber(line) ==
  LET value[i \in 0 .. Len(line)] ==
        IF i = 0 THEN 0 ELSE Base * value[i - 1] + line[i]
  IN  value[Leading(line, Digit)]

\* A whole length line is taken off the token and checked against the limit.
ReadSize(p, limit) ==
  IF p.state = "READING_SIZE" /\ Newline \in Range(p.m_cur_token)
  THEN LET end  == SelectInSeq(p.m_cur_token, LAMBDA b : b = Newline)
           line == SubSeq(p.m_cur_token, 1, end - 1)
           size == LeadingNumber(line)
       IN  [p EXCEPT !.m_cur_token = From(@, end + 1),
                     !.m_size = size,
                     !.state = IF Leading(line, Digit) = 0 THEN "UNDEFINED"
                               ELSE IF size > limit THEN "THROWN"
                               ELSE "READING_MESSAGE"]
  ELSE p

\* A message is taken off the token once all of it is there.
ReadMessage(p) ==
  IF p.state = "READING_MESSAGE" /\ Len(p.m_cur_token) >= p.m_size
  THEN [p EXCEPT !.message = SubSeq(p.m_cur_token, 1, p.m_size),
                 !.got = TRUE,
                 !.m_cur_token = From(@, p.m_size + 1),
                 !.state = "READING_SIZE"]
  ELSE p

\* The parse() of either end: one pass, which stops after a message.
Parse(end, limit, p) ==
  ReadMessage(ReadSize(IF end = "server" THEN SkipKeepAlives(p) ELSE ReadHandshake(p),
                       limit))

\* execute(): the bytes are appended and parsed.
Execute(end, limit, p, bytes) ==
  Parse(end, limit, [p EXCEPT !.m_cur_token = @ \o bytes])

\* getRequest() and getResponse(): the message is handed out after another
\* parse(), and is lost if that one throws.
HandOut(run, next) ==
  [parser |-> next,
   out |-> IF next.state = "THROWN" THEN run.out ELSE Append(run.out, run.parser.message)]

Fetch(end, limit, run) ==
  IF run.parser.got
  THEN {HandOut(run, next) : next \in {Parse(end, limit, [run.parser EXCEPT !.got = FALSE])}}
  ELSE {run}

\* "execute(bytes); while (hasRequest()) ... getRequest()": the parser afterwards
\* and the messages handed out, as the one element of a set.  A frame has two
\* bytes at least, which bounds the number of rounds.
Receive(end, limit, p, bytes) ==
  LET rounds == (Len(p.m_cur_token) + Len(bytes)) \div 2 + 1
      run[n \in 0 .. rounds] ==
        IF n = 0
        THEN {[parser |-> q, out |-> <<>>] : q \in {Execute(end, limit, p, bytes)}}
        ELSE UNION {Fetch(end, limit, r) : r \in run[n - 1]}
  IN  run[rounds]

\* The messages in a stretch of bytes that a parser has still to see.
MessagesIn(end, limit, p, bytes) ==
  (CHOOSE run \in Receive(end, limit, p, bytes) : TRUE).out
=============================================================================
