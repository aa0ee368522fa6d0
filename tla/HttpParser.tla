------------------------------ MODULE HttpParser ------------------------------
(***************************************************************************)
(* The HTTP request parser of thirdparty/http-parser/http_parser.cpp, as   *)
(* HttpConnection uses it: type HTTP_REQUEST, strict mode, callbacks that  *)
(* never fail.                                                             *)
(*                                                                         *)
(* A character is a one-letter string, or "CR", "LF", "TAB", "FF", "NUL".  *)
(* What the code keeps in method, header_state and index while it matches a     *)
(* word letter by letter is here the word read so far.  The words the      *)
(* parser knows and its limits are parameters, so that instances can do    *)
(* with short ones.                                                        *)
(***************************************************************************)
EXTENDS Integers, Sequences, SequencesExt, FiniteSets

CONSTANTS Methods, CONNECT, HTTP,                       \* "HTTP" means "HTTP/"
          CONNECTION, PROXY_CONNECTION, CONTENT_LENGTH, TRANSFER_ENCODING,
          UPGRADE, CHUNKED, KEEP_ALIVE, CLOSE,          \* words in lower case
          ULLONG_MAX, HTTP_MAX_HEADER_SIZE

Capitals == <<"A", "B", "C", "D", "E", "F", "G", "H", "I", "J", "K", "L", "M",
              "N", "O", "P", "Q", "R", "S", "T", "U", "V", "W", "X", "Y", "Z">>
Letters  == <<"a", "b", "c", "d", "e", "f", "g", "h", "i", "j", "k", "l", "m",
              "n", "o", "p", "q", "r", "s", "t", "u", "v", "w", "x", "y", "z">>
Figures  == <<"0", "1", "2", "3", "4", "5", "6", "7", "8", "9">>

CR  == "CR"
LF  == "LF"
SP  == " "
TAB == "TAB"

\* Every word has two letters at least.
Word == {w \in Seq(STRING) : Len(w) > 1}

ASSUME HttpParserAssumption ==
  /\ Methods \subseteq Word /\ CONNECT \in Word /\ HTTP \in Word
  /\ {CONNECTION, PROXY_CONNECTION, CONTENT_LENGTH, TRANSFER_ENCODING, UPGRADE,
      CHUNKED, KEEP_ALIVE, CLOSE} \subseteq Word
  /\ ULLONG_MAX \in Nat /\ ULLONG_MAX > 16
  /\ HTTP_MAX_HEADER_SIZE \in Nat

IS_ALPHA(c) == c \in ToSet(Capitals) \cup ToSet(Letters)
IS_NUM(c)   == c \in ToSet(Figures)

LOWER(c) ==
  IF c \in ToSet(Capitals) THEN Letters[SelectInSeq(Capitals, LAMBDA x : x = c)] ELSE c

\* The value of a hexadecimal digit, -1 for another character.
unhex(c) ==
  SelectInSeq(Figures \o SubSeq(Letters, 1, 6), LAMBDA x : x = LOWER(c)) - 1

Separators == {"(", ")", "<", ">", "@", ",", ";", ":", "BACKSLASH", "QUOTES", "/", "[", "]",
               "?", "=", "{", "}"}
TokenMarks == {"!", "#", "$", "%", "&", "QUOTE", "*", "+", "-", ".", "^", "_", "BACKQUOTE",
               "|", "~"}

TOKEN(c)       == IS_ALPHA(c) \/ IS_NUM(c) \/ c \in TokenMarks
IS_URL_CHAR(c) == (TOKEN(c) \/ c \in Separators) /\ c \notin {"#", "?"}

IS_USERINFO_CHAR(c) ==
  \/ IS_ALPHA(c) \/ IS_NUM(c)
  \/ c \in {"-", "_", ".", "!", "~", "*", "QUOTE", "(", ")", "%", ";", ":", "&", "=",
            "+", "$", ","}

-----------------------------------------------------------------------------
(* The parser object.  content_length = ULLONG_MAX: no length was given.     *)

BodyStates == {"s_chunk_data", "s_chunk_data_almost_done", "s_chunk_data_done",
               "s_body_identity"}
UrlStates  == {"s_req_schema", "s_req_schema_slash", "s_req_schema_slash_slash",
               "s_req_server_start", "s_req_server", "s_req_server_with_at",
               "s_req_path", "s_req_query_string_start", "s_req_query_string",
               "s_req_fragment_start", "s_req_fragment"}

http_parser_init ==
  [state |-> "s_start_req", word |-> <<>>, method |-> <<>>, header |-> "general",
   flags |-> {}, content_length |-> 0, nread |-> 0, http_major |-> 0,
   http_minor |-> 0, upgrade |-> FALSE, http_errno |-> "OK"]

http_should_keep_alive(p) ==
  IF p.http_major > 0 /\ p.http_minor > 0
  THEN "CONNECTION_CLOSE" \notin p.flags
  ELSE "CONNECTION_KEEP_ALIVE" \in p.flags

NEW_MESSAGE(p) == IF http_should_keep_alive(p) THEN "s_start_req" ELSE "s_dead"

(* A call of http_parser_execute on its way: the parser, the mark that is    *)
(* set and where, the callbacks made so far, whether the call has returned.  *)

At(r, s)  == [r EXCEPT !.p.state = s]
Error(r)  == [r EXCEPT !.p.http_errno = "ERROR", !.halted = TRUE]
Asserted(r, cond) ==
  IF cond THEN r ELSE [r EXCEPT !.p.http_errno = "ASSERT", !.halted = TRUE]

\* No two marks are ever set at once, which the code asserts when it returns.
MARK(r, for, i) ==
  IF r.mark = for THEN r
  ELSE Asserted([r EXCEPT !.mark = for, !.from = i], r.mark = "none")

CALLBACK_DATA(r, for, i) ==
  IF r.mark = for
  THEN [r EXCEPT !.mark = "none",
                 !.out = Append(@, [cb |-> for, from |-> r.from, to |-> i - 1])]
  ELSE r

CALLBACK_NOTIFY(r, for) == [r EXCEPT !.out = Append(@, [cb |-> for])]

MessageComplete(r) == CALLBACK_NOTIFY(At(r, NEW_MESSAGE(r.p)), "message_complete")

-----------------------------------------------------------------------------
(* The request line. *)

StartReq(r, ch) ==
  IF ch \in {CR, LF} THEN r
  ELSE IF \A m \in Methods : m[1] # ch THEN Error(r)
  ELSE CALLBACK_NOTIFY(
         [r EXCEPT !.p.flags = {}, !.p.content_length = ULLONG_MAX,
                   !.p.word = <<ch>>, !.p.state = "s_req_method"],
         "message_begin")

ReqMethod(r, ch) ==
  IF ch = SP /\ r.p.word \in Methods
  THEN [r EXCEPT !.p.method = r.p.word, !.p.word = <<>>,
                 !.p.state = "s_req_spaces_before_url"]
  ELSE IF \E m \in Methods : IsPrefix(Append(r.p.word, ch), m)
  THEN [r EXCEPT !.p.word = Append(@, ch)]
  ELSE Error(r)

parse_url_char(s, ch) ==
  CASE ch \in {SP, CR, LF, TAB, "FF"} -> "s_dead"
    [] s = "s_req_spaces_before_url" /\ ch \in {"/", "*"} -> "s_req_path"
    [] s \in {"s_req_spaces_before_url", "s_req_schema"} /\ IS_ALPHA(ch) -> "s_req_schema"
    [] s = "s_req_schema" /\ ch = ":" -> "s_req_schema_slash"
    [] s = "s_req_schema_slash" /\ ch = "/" -> "s_req_schema_slash_slash"
    [] s = "s_req_schema_slash_slash" /\ ch = "/" -> "s_req_server_start"
    [] s \in {"s_req_server_start", "s_req_server", "s_req_server_with_at"} ->
         IF ch = "/" THEN "s_req_path"
         ELSE IF ch = "?" THEN "s_req_query_string_start"
         ELSE IF ch = "@"
         THEN IF s = "s_req_server_with_at" THEN "s_dead" ELSE "s_req_server_with_at"
         ELSE IF IS_USERINFO_CHAR(ch) \/ ch \in {"[", "]"} THEN "s_req_server"
         ELSE "s_dead"
    [] s = "s_req_path" /\ IS_URL_CHAR(ch) -> "s_req_path"
    [] s = "s_req_path" /\ ch = "?" -> "s_req_query_string_start"
    [] s \in {"s_req_query_string_start", "s_req_query_string"}
         /\ (IS_URL_CHAR(ch) \/ ch = "?") -> "s_req_query_string"
    [] s \in {"s_req_path", "s_req_query_string_start", "s_req_query_string"}
         /\ ch = "#" -> "s_req_fragment_start"
    [] s = "s_req_fragment_start" /\ ch = "#" -> "s_req_fragment_start"
    [] s \in {"s_req_fragment_start", "s_req_fragment"}
         /\ (IS_URL_CHAR(ch) \/ ch \in {"?", "#"}) -> "s_req_fragment"
    [] OTHER -> "s_dead"

UrlChar(r, s, ch) ==
  IF parse_url_char(s, ch) = "s_dead" THEN Error(r) ELSE At(r, parse_url_char(s, ch))

SpacesBeforeUrl(r, i, ch) ==
  IF ch = SP THEN r
  ELSE UrlChar(MARK(r, "url", i),
               IF r.p.method = CONNECT THEN "s_req_server_start" ELSE r.p.state, ch)

\* An URL that ends its line is a request of HTTP 0.9.
Url(r, i, ch) ==
  IF r.p.state \in {"s_req_schema", "s_req_schema_slash", "s_req_schema_slash_slash",
                    "s_req_server_start"} \/ ch \notin {SP, CR, LF}
  THEN UrlChar(r, r.p.state, ch)
  ELSE IF ch = SP THEN CALLBACK_DATA(At(r, "s_req_http_start"), "url", i)
  ELSE CALLBACK_DATA([r EXCEPT !.p.http_major = 0, !.p.http_minor = 9,
                               !.p.state = IF ch = CR THEN "s_req_line_almost_done"
                                           ELSE "s_header_field_start"],
                     "url", i)

HttpStart(r, ch) ==
  LET word == Append(r.p.word, ch)
  IN  IF ch = SP /\ r.p.word = <<>> THEN r
      ELSE IF word = HTTP
      THEN [r EXCEPT !.p.word = <<>>, !.p.state = "s_req_first_http_major"]
      ELSE IF IsPrefix(word, HTTP) THEN [r EXCEPT !.p.word = word]
      ELSE Error(r)

HttpMajor(r, ch) ==
  IF r.p.state = "s_req_http_major" /\ ch = "." THEN At(r, "s_req_first_http_minor")
  ELSE IF r.p.state = "s_req_first_http_major"
  THEN IF IS_NUM(ch) /\ ch # "0"
       THEN [r EXCEPT !.p.http_major = unhex(ch), !.p.state = "s_req_http_major"]
       ELSE Error(r)
  ELSE IF IS_NUM(ch) /\ 10 * r.p.http_major + unhex(ch) <= 999
  THEN [r EXCEPT !.p.http_major = 10 * @ + unhex(ch)]
  ELSE Error(r)

HttpMinor(r, ch) ==
  IF r.p.state = "s_req_http_minor" /\ ch \in {CR, LF}
  THEN At(r, IF ch = CR THEN "s_req_line_almost_done" ELSE "s_header_field_start")
  ELSE IF r.p.state = "s_req_first_http_minor"
  THEN IF IS_NUM(ch)
       THEN [r EXCEPT !.p.http_minor = unhex(ch), !.p.state = "s_req_http_minor"]
       ELSE Error(r)
  ELSE IF IS_NUM(ch) /\ 10 * r.p.http_minor + unhex(ch) <= 999
  THEN [r EXCEPT !.p.http_minor = 10 * @ + unhex(ch)]
  ELSE Error(r)

ReqLineAlmostDone(r, ch) ==
  IF ch = LF THEN At(r, "s_header_field_start") ELSE Error(r)

-----------------------------------------------------------------------------
(* The headers. *)

\* on_headers_complete is the one callback that asks the parser something.
\* The byte is looked at again, by s_headers_done.
HeadersDone(r) ==
  LET p == [r.p EXCEPT !.upgrade = "UPGRADE" \in r.p.flags \/ r.p.method = CONNECT,
                       !.nread = 0]
      told == [r EXCEPT !.p = p,
                        !.out = Append(@, [cb |-> "headers_complete",
                                           keep |-> http_should_keep_alive(r.p)])]
  IN  IF p.upgrade THEN [MessageComplete(told) EXCEPT !.halted = TRUE]
      ELSE IF "CHUNKED" \in p.flags THEN At(told, "s_chunk_size_start")
      ELSE IF p.content_length \in {0, ULLONG_MAX} THEN MessageComplete(told)
      ELSE At(told, "s_body_identity")

HeadersAlmostDone(r, ch) ==
  IF ch # LF THEN Error(r)
  ELSE IF "TRAILING" \in r.p.flags THEN MessageComplete(r)
  ELSE HeadersDone(r)

HeaderFieldStart(r, i, ch) ==
  IF ch = CR THEN At(r, "s_headers_almost_done")
  ELSE IF ch = LF THEN HeadersAlmostDone(r, ch)
  ELSE IF ~TOKEN(ch) THEN Error(r)
  ELSE MARK([r EXCEPT !.p.word = <<LOWER(ch)>>, !.p.header = "general",
                      !.p.state = "s_header_field"],
            "header_field", i)

HeaderOf(name) ==
  CASE name \in {CONNECTION, PROXY_CONNECTION} -> "connection"
    [] name = CONTENT_LENGTH    -> "content_length"
    [] name = TRANSFER_ENCODING -> "transfer_encoding"
    [] name = UPGRADE           -> "upgrade"
    [] OTHER                    -> "general"

HeaderField(r, i, ch) ==
  IF TOKEN(ch) THEN [r EXCEPT !.p.word = Append(@, LOWER(ch))]
  ELSE IF ch \notin {":", CR, LF} THEN Error(r)
  ELSE CALLBACK_DATA(
         [r EXCEPT !.p.header = HeaderOf(r.p.word),
                   !.p.word = <<>>,
                   !.p.state = CASE ch = ":" -> "s_header_value_start"
                                 [] ch = CR  -> "s_header_almost_done"
                                 [] ch = LF  -> "s_header_field_start"],
         "header_field", i)

\* A folded line starts here again.  What was matched on the line before is
\* forgotten then, but for a length, which starts afresh.
HeaderValueStart(r, i, ch) ==
  LET m == MARK(r, "header_value", i)
  IN  IF ch \in {SP, TAB} THEN r
      ELSE IF ch \in {CR, LF}
      THEN CALLBACK_DATA([m EXCEPT !.p.header = "general",
                                   !.p.state = IF ch = CR THEN "s_header_almost_done"
                                               ELSE "s_header_field_start"],
                         "header_value", i)
      ELSE IF r.p.header = "content_length" /\ ~IS_NUM(ch) THEN Error(m)
      ELSE [m EXCEPT
             !.p.word = <<LOWER(ch)>>,
             !.p.flags = IF r.p.header = "upgrade" THEN @ \cup {"UPGRADE"} ELSE @,
             !.p.header = IF @ = "upgrade" THEN "general" ELSE @,
             !.p.content_length =
                IF r.p.header = "content_length" THEN unhex(ch) ELSE @,
             !.p.state = "s_header_value"]

\* "Connection: close" and the like, spaces at the end apart.
ValueIs(p, word) ==
  \E n \in 0 .. Len(p.word) :
    p.word = word \o [k \in 1 .. n |-> SP]

HeaderAlmostDone(r, ch) ==
  IF ch # LF THEN Error(r)
  ELSE [r EXCEPT
         !.p.flags = @ \cup
           {f \in {"CONNECTION_KEEP_ALIVE", "CONNECTION_CLOSE", "CHUNKED"} :
              \/ r.p.header = "connection" /\ f = "CONNECTION_KEEP_ALIVE" /\ ValueIs(r.p, KEEP_ALIVE)
              \/ r.p.header = "connection" /\ f = "CONNECTION_CLOSE" /\ ValueIs(r.p, CLOSE)
              \/ r.p.header = "transfer_encoding" /\ f = "CHUNKED" /\ ValueIs(r.p, CHUNKED)},
         !.p.header = IF @ = "content_length" \/ r.p.word = <<>> THEN @ ELSE "general",
         !.p.word = <<>>,
         !.p.state = "s_header_value_lws"]

AddDigit_NoCheck(r, base, digit) ==
  [r EXCEPT !.p.content_length = (base * @ + digit) % (ULLONG_MAX + 1)]

\* A length that might not fit is refused before it wraps around.
AddDigit(r, base, digit) ==
  IF (ULLONG_MAX - base) \div base < r.p.content_length THEN Error(r)
  ELSE [r EXCEPT !.p.content_length = base * @ + digit]

HeaderValue(r, i, ch) ==
  IF ch = CR THEN CALLBACK_DATA(At(r, "s_header_almost_done"), "header_value", i)
  ELSE IF ch = LF THEN HeaderAlmostDone(CALLBACK_DATA(r, "header_value", i), ch)
  ELSE IF r.p.header # "content_length" THEN [r EXCEPT !.p.word = Append(@, LOWER(ch))]
  ELSE IF ch = SP THEN r
  ELSE IF IS_NUM(ch) THEN AddDigit(r, 10, unhex(ch))
  ELSE Error(r)

HeaderValueLws(r, i, ch) ==
  IF ch \in {SP, TAB} THEN At(r, "s_header_value_start")
  ELSE HeaderFieldStart(r, i, ch)

-----------------------------------------------------------------------------
(* Bodies, byte by byte; the code takes all it has at once. *)

BodyIdentity(r, i) ==
  LET a == Asserted(MARK(r, "body", i), r.p.content_length \notin {0, ULLONG_MAX})
      b == IF a.halted THEN a ELSE [a EXCEPT !.p.content_length = @ - 1]
  IN  IF b.halted \/ b.p.content_length > 0 THEN b
      ELSE MessageComplete(CALLBACK_DATA(b, "body", i + 1))

ChunkSizeStart(r, ch) ==
  LET a == Asserted(r, r.p.nread = 1 /\ "CHUNKED" \in r.p.flags)
  IN  IF a.halted THEN a
      ELSE IF unhex(ch) = -1 THEN Error(a)
      ELSE [a EXCEPT !.p.content_length = unhex(ch), !.p.state = "s_chunk_size"]

ChunkSize(r, ch) ==
  IF ch = CR THEN At(r, "s_chunk_size_almost_done")
  ELSE IF unhex(ch) # -1 THEN AddDigit(r, 16, unhex(ch))
  ELSE IF ch \in {";", SP} THEN At(r, "s_chunk_parameters")
  ELSE Error(r)

ChunkParameters(r, ch) == IF ch = CR THEN At(r, "s_chunk_size_almost_done") ELSE r

ChunkSizeAlmostDone_NoLast(r, ch) ==
  IF ch # LF THEN Error(r) ELSE [r EXCEPT !.p.nread = 0, !.p.state = "s_chunk_data"]

ChunkSizeAlmostDone(r, ch) ==
  IF ch # LF THEN Error(r)
  ELSE IF r.p.content_length = 0
  THEN [r EXCEPT !.p.nread = 0, !.p.flags = @ \cup {"TRAILING"},
                 !.p.state = "s_header_field_start"]
  ELSE [r EXCEPT !.p.nread = 0, !.p.state = "s_chunk_data"]

ChunkData(r, i) ==
  LET a == Asserted(MARK(r, "body", i), r.p.content_length \notin {0, ULLONG_MAX})
      b == IF a.halted THEN a ELSE [a EXCEPT !.p.content_length = @ - 1]
  IN  IF b.p.content_length = 0 /\ ~b.halted THEN At(b, "s_chunk_data_almost_done")
      ELSE b

ChunkDataAlmostDone(r, i, ch) ==
  IF ch # CR THEN Error(r) ELSE CALLBACK_DATA(At(r, "s_chunk_data_done"), "body", i)

ChunkDataDone(r, ch) ==
  IF ch # LF THEN Error(r)
  ELSE [r EXCEPT !.p.nread = 0, !.p.state = "s_chunk_size_start"]

-----------------------------------------------------------------------------
(* One byte, and one call. *)

\* What is done with a byte in each state.
Handle(r, i, ch) ==
  LET s == r.p.state
  IN  CASE s = "s_dead"                   -> IF ch \in {CR, LF} THEN r ELSE Error(r)
        [] s = "s_start_req"              -> StartReq(r, ch)
        [] s = "s_req_method"             -> ReqMethod(r, ch)
        [] s = "s_req_spaces_before_url"  -> SpacesBeforeUrl(r, i, ch)
        [] s \in UrlStates                -> Url(r, i, ch)
        [] s = "s_req_http_start"         -> HttpStart(r, ch)
        [] s \in {"s_req_first_http_major", "s_req_http_major"} -> HttpMajor(r, ch)
        [] s \in {"s_req_first_http_minor", "s_req_http_minor"} -> HttpMinor(r, ch)
        [] s = "s_req_line_almost_done"   -> ReqLineAlmostDone(r, ch)
        [] s = "s_header_field_start"     -> HeaderFieldStart(r, i, ch)
        [] s = "s_header_field"           -> HeaderField(r, i, ch)
        [] s = "s_header_value_start"     -> HeaderValueStart(r, i, ch)
        [] s = "s_header_value"           -> HeaderValue(r, i, ch)
        [] s = "s_header_almost_done"     -> HeaderAlmostDone(r, ch)
        [] s = "s_header_value_lws"       -> HeaderValueLws(r, i, ch)
        [] s = "s_headers_almost_done"    -> HeadersAlmostDone(r, ch)
        [] s = "s_body_identity"          -> BodyIdentity(r, i)
        [] s = "s_chunk_size_start"       -> ChunkSizeStart(r, ch)
        [] s = "s_chunk_size"             -> ChunkSize(r, ch)
        [] s = "s_chunk_parameters"       -> ChunkParameters(r, ch)
        [] s = "s_chunk_size_almost_done" -> ChunkSizeAlmostDone(r, ch)
        [] s = "s_chunk_data"             -> ChunkData(r, i)
        [] s = "s_chunk_data_almost_done" -> ChunkDataAlmostDone(r, i, ch)
        [] s = "s_chunk_data_done"        -> ChunkDataDone(r, ch)

Byte(r, i, ch) ==
  LET c == IF r.p.state \in BodyStates THEN r ELSE [r EXCEPT !.p.nread = @ + 1]
  IN  IF c.p.nread > HTTP_MAX_HEADER_SIZE THEN Error(c) ELSE Handle(c, i, ch)

MarkOf_NoValue(s) ==
  CASE s \in UrlStates        -> "url"
    [] s = "s_header_field"   -> "header_field"
    [] OTHER                  -> "none"

\* The mark a call starts with: the piece of a name, value or URL that goes on.
MarkOf(s) ==
  CASE s \in UrlStates        -> "url"
    [] s = "s_header_field"   -> "header_field"
    [] s = "s_header_value"   -> "header_value"
    [] OTHER                  -> "none"

\* A call begins; it takes a byte; it has seen the last byte: a piece that is not
\* finished is handed out then.
Begin(parser) ==
  [p |-> parser, mark |-> MarkOf(parser.state), from |-> 1, out |-> <<>>,
   halted |-> parser.http_errno # "OK"]

TakeByte(r, i, ch) == IF r.halted THEN r ELSE Byte(r, i, ch)

End(r, n) ==
  IF r.halted \/ r.mark = "none" THEN r ELSE CALLBACK_DATA(r, r.mark, n + 1)

\* http_parser_execute on some bytes: the parser afterwards and its callbacks.
http_parser_execute(parser, data) ==
  LET run[i \in 0 .. Len(data)] ==
        IF i = 0 THEN Begin(parser) ELSE TakeByte(run[i - 1], i, data[i])
  IN  End(run[Len(data)], Len(data))
=============================================================================
