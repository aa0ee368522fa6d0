--------------------------- MODULE HttpReceiveProofs ---------------------------
(***************************************************************************)
(* Theorems about HttpReceive, for any streams, words and limits: the      *)
(* assertions of http_parser hold, and what it reports does not depend on  *)
(* how a stream is cut.                                                    *)
(***************************************************************************)
EXTENDS HttpReceive, QueueLemmas

-------------------------------------------------------------------------------
(* Characters. *)

\* Where a character is in a list of characters.
Index(seq, c) == SelectInSeq(seq, LAMBDA x : x = c)

\* The index is the first of the character, and 0 if there is none.
LEMMA IndexFinds ==
  ASSUME NEW S, NEW seq \in Seq(S), NEW c
  PROVE  /\ Index(seq, c) \in 0 .. Len(seq)
         /\ \A i \in 1 .. Len(seq) : seq[i] = c => Index(seq, c) \in 1 .. i
<1> DEFINE I == {i \in 1 .. Len(seq) : seq[i] = c}
<1>1. Index(seq, c) = IF I # {} THEN Min(I) ELSE 0
  BY DEF Index, SelectInSeq
<1>2. I \subseteq Nat
  OBVIOUS
<1>3. CASE I = {}
  BY <1>1, <1>3
<1>4. CASE I # {}
  <2>1. Min(I) \in I /\ \A i \in I : Min(I) <= i
    <3> HIDE DEF I
    <3> QED
      BY <1>2, <1>4, NatMin
  <2>2. Index(seq, c) = Min(I)
    BY <1>1, <1>4
  <2>3. Index(seq, c) \in I /\ \A i \in I : Index(seq, c) <= i
    BY <2>1, <2>2
  <2>4. Len(seq) \in Nat
    OBVIOUS
  <2> QED
    BY <2>3, <2>4
<1> QED
  BY <1>3, <1>4

\* A figure is not a capital.
LEMMA LowerFigure == ASSUME NEW c, IS_NUM(c) PROVE LOWER(c) = c
<1>1. c \in {"0", "1", "2", "3", "4", "5", "6", "7", "8", "9"}
  BY DEF IS_NUM, ToSet, Figures
<1>2. ToSet(Capitals) = {"A", "B", "C", "D", "E", "F", "G", "H", "I", "J", "K", "L", "M",
                         "N", "O", "P", "Q", "R", "S", "T", "U", "V", "W", "X", "Y", "Z"}
  BY DEF Capitals, ToSet
<1>3. c \notin ToSet(Capitals)
  BY <1>1, <1>2
<1> QED
  BY <1>3 DEF LOWER

\* A list and the beginning of another.
LEMMA FirstOf ==
  ASSUME NEW S, NEW a \in Seq(S), NEW b \in Seq(S), NEW k \in Nat, k <= Len(b)
  PROVE  /\ a \o SubSeq(b, 1, k) \in Seq(S)
         /\ Len(a \o SubSeq(b, 1, k)) = Len(a) + k
         /\ \A i \in 1 .. Len(a) : (a \o SubSeq(b, 1, k))[i] = a[i]
<1> DEFINE m == SubSeq(b, 1, k)
<1>1. \A i \in 1 .. k : b[i] \in S
  OBVIOUS
<1>2. m \in Seq(S) /\ Len(m) = k
  BY <1>1, SubSeqProperties
<1> HIDE DEF m
<1>3. /\ a \o m \in Seq(S) /\ Len(a \o m) = Len(a) + k
      /\ \A i \in 1 .. Len(a) : (a \o m)[i] = a[i]
  BY <1>2
<1> QED
  BY <1>3 DEF m

\* The value of a digit.
LEMMA UnhexType ==
  ASSUME NEW c
  PROVE  /\ unhex(c) \in -1 .. 15
         /\ IS_NUM(c) => unhex(c) \in 0 .. 9
<1> DEFINE L == Figures \o SubSeq(Letters, 1, 6)
           S == ToSet(Figures) \cup ToSet(Letters)
<1>1. /\ Figures \in Seq(ToSet(Figures)) /\ Len(Figures) = 10
      /\ Letters \in Seq(ToSet(Letters)) /\ Len(Letters) = 26
  BY DEF Figures, Letters, ToSet
<1>2. Figures \in Seq(S) /\ Letters \in Seq(S)
  <2>1. \A q \in Seq(ToSet(Figures)) : q \in Seq(S)
    OBVIOUS
  <2>2. \A q \in Seq(ToSet(Letters)) : q \in Seq(S)
    OBVIOUS
  <2> QED
    BY <1>1, <2>1, <2>2
<1>3. L \in Seq(S) /\ Len(L) = 16 /\ \A i \in 1 .. 10 : L[i] = Figures[i]
  <2> HIDE DEF S
  <2>1. 6 \in Nat /\ 6 <= Len(Letters)
    BY <1>1
  <2>2. /\ L \in Seq(S) /\ Len(L) = Len(Figures) + 6
        /\ \A i \in 1 .. Len(Figures) : L[i] = Figures[i]
    BY <1>2, <2>1, FirstOf
  <2> HIDE DEF L
  <2> QED
    BY <1>1, <2>2
<1>4. unhex(c) = Index(L, LOWER(c)) - 1
  BY DEF unhex, Index
<1> HIDE DEF L, S
<1>5. ASSUME IS_NUM(c) PROVE Index(L, LOWER(c)) \in 1 .. 10
  <2>1. PICK i \in 1 .. 10 : Figures[i] = c
    BY <1>1, <1>5 DEF IS_NUM, ToSet
  <2>2. LOWER(c) = L[i] /\ i \in 1 .. Len(L)
    BY <1>3, <1>5, <2>1, LowerFigure
  <2>3. Index(L, LOWER(c)) \in 1 .. i
    BY <1>3, <2>2, IndexFinds
  <2> QED
    BY <2>3
<1>6. Index(L, LOWER(c)) \in 0 .. 16
  BY <1>3, IndexFinds
<1> QED
  BY <1>4, <1>5, <1>6

-------------------------------------------------------------------------------
(* A call of http_parser_execute on its way. *)

States == UrlStates \cup BodyStates \cup
  {"s_dead", "s_start_req", "s_req_method", "s_req_spaces_before_url", "s_req_http_start",
   "s_req_first_http_major", "s_req_http_major", "s_req_first_http_minor", "s_req_http_minor",
   "s_req_line_almost_done", "s_header_field_start", "s_header_field",
   "s_header_value_start", "s_header_value", "s_header_almost_done", "s_header_value_lws",
   "s_headers_almost_done", "s_chunk_size_start", "s_chunk_size", "s_chunk_parameters",
   "s_chunk_size_almost_done"}

SizeStates  == {"s_chunk_size", "s_chunk_parameters", "s_chunk_size_almost_done"}
ChunkStates == SizeStates \cup
  {"s_chunk_size_start", "s_chunk_data", "s_chunk_data_almost_done", "s_chunk_data_done"}

IsParser(p) ==
  {"state", "word", "method", "header", "flags", "content_length", "nread", "http_major",
   "http_minor", "upgrade", "http_errno"} \subseteq DOMAIN p

\* A body has bytes to come, a size may still get a digit.
Sized(p) ==
  /\ p.content_length \in 0 .. ULLONG_MAX
  /\ p.state \in {"s_chunk_data", "s_body_identity"} => p.content_length \notin {0, ULLONG_MAX}
  /\ p.state \in SizeStates => p.content_length # ULLONG_MAX

\* Chunks are read only if they were announced, and a chunk's size from its first byte on.
InChunks(p, n) ==
  /\ p.state \in ChunkStates => "CHUNKED" \in p.flags
  /\ p.state = "s_chunk_size_start" => p.nread = n

\* A parser that has met no error; n bytes of a chunk's size have been counted.
Fit(p, n) ==
  /\ IsParser(p) /\ p.http_errno = "OK" /\ p.state \in States /\ p.nread \in Nat
  /\ Sized(p) /\ InChunks(p, n)

\* The mark that may be set in a state.
Marked(m, s) ==
  \/ m = MarkOf(s)
  \/ m = "body" /\ s \in {"s_chunk_data", "s_chunk_data_almost_done", "s_body_identity"}

\* The mark of each state.
LEMMA MarkIs ==
  ASSUME NEW s
  PROVE  /\ s \in UrlStates => MarkOf(s) = "url"
         /\ s = "s_header_field" => MarkOf(s) = "header_field"
         /\ s = "s_header_value" => MarkOf(s) = "header_value"
         /\ s \notin UrlStates \cup {"s_header_field", "s_header_value"} => MarkOf(s) = "none"
BY DEF MarkOf, UrlStates

IsRun(r) == {"p", "mark", "from", "out", "halted"} \subseteq DOMAIN r

\* A call that has the parser p in hand.
Call(r, p) == IsRun(r) /\ r.p = p /\ ~ r.halted /\ Marked(r.mark, p.state)

\* What a byte does to marks and callbacks: it may set the mark o, finish the piece before
\* it or with it, and make two calls that come without data.
Silent == [cb |-> "none"]

Noted(out, a) == IF a = Silent THEN out ELSE Append(out, a)

MarkAfter(m, o, end) == IF end # "no" THEN "none" ELSE IF o = "none" THEN m ELSE o

Speaks(r, i, s, o, end, a, b) ==
  LET m == IF o = "none" THEN r.mark ELSE o
      f == IF o = "none" \/ r.mark = o THEN r.from ELSE i
      c == IF end = "no" \/ m = "none" THEN r.out
           ELSE Append(r.out, [cb |-> m, from |-> f,
                               to |-> IF end = "before" THEN i - 1 ELSE i])
  IN  /\ s.mark = MarkAfter(r.mark, o, end)
      /\ s.from = f
      /\ s.out = Noted(Noted(c, a), b)

\* The call s is r after its byte i: the parser is P, it has returned or not.
Does(s, r, i, P, h, o, end, a, b) ==
  /\ IsRun(s) /\ s.p = P /\ s.halted = h
  /\ P.http_errno = "OK" => Speaks(r, i, s, o, end, a, b)

Notes == {Silent, [cb |-> "message_begin"], [cb |-> "message_complete"]}
           \cup [cb : {"headers_complete"}, keep : BOOLEAN]

\* The state alone says which mark is set.
Certain(s) == \A m : Marked(m, s) => m = MarkOf(s)

\* It does so but in the middle of a body.
LEMMA CertainStates ==
  ASSUME NEW s, s \notin {"s_chunk_data", "s_chunk_data_almost_done", "s_body_identity"}
  PROVE  Certain(s)
BY DEF Certain, Marked

\* How a byte may move the parser.  Only a piece that is set for certain may grow without
\* being set again, and there is no piece open when a call without data is made.
Moves(p, P, h, o, end, a, b) ==
  /\ o \in {"none", "url", "header_field", "header_value", "body"}
  /\ end \in {"no", "before", "with"} /\ a \in Notes /\ b \in Notes
  /\ h \in BOOLEAN
  /\ IsParser(P)
  /\ P.upgrade => p.upgrade \/ h
  /\ \/ P.http_errno = "ERROR" /\ h
     \/ /\ P.http_errno = "OK" /\ Fit(P, 0)
        /\ h => P.upgrade
        /\ \A m : Marked(m, p.state) => Marked(MarkAfter(m, o, end), P.state)
        /\ o = "none" => end # "with" /\ (end = "no" => Certain(p.state))
        /\ o # "none" => \A m : Marked(m, p.state) => m \in {"none", o}
        /\ a # Silent \/ b # Silent => \A m : Marked(m, p.state) => MarkAfter(m, o, end) = "none"

\* A handler acts in the same way in every call that has the parser p in hand.
Acts(p, H(_, _)) ==
  \E P, h, o, end, a, b :
    /\ Moves(p, P, h, o, end, a, b)
    /\ \A r, i : Call(r, p) /\ i \in Nat \ {0} => Does(H(r, i), r, i, P, h, o, end, a, b)

\* An error.
LEMMA ErrorActs ==
  ASSUME NEW p, IsParser(p)
  PROVE  Acts(p, LAMBDA r, i : Error(r))
<1> DEFINE P == [p EXCEPT !.http_errno = "ERROR"]
<1>1. Moves(p, P, TRUE, "none", "no", Silent, Silent)
  BY DEF Moves, IsParser, Notes
<1>2. ASSUME NEW r, NEW i, Call(r, p)
      PROVE  Does(Error(r), r, i, P, TRUE, "none", "no", Silent, Silent)
  BY <1>2 DEF Does, Error, Call, IsRun, IsParser
<1> HIDE DEF P
<1> QED
  BY <1>1, <1>2 DEF Acts

\* A byte that only changes the parser.
LEMMA MoveActs ==
  ASSUME NEW p, IsParser(p), NEW P, Fit(P, 0), P.upgrade = p.upgrade,
         \A m : Marked(m, p.state) => Marked(m, P.state),
         p.state \notin {"s_chunk_data", "s_chunk_data_almost_done", "s_body_identity"}
  PROVE  Acts(p, LAMBDA r, i : [r EXCEPT !.p = P])
<1>1. Moves(p, P, FALSE, "none", "no", Silent, Silent)
  BY CertainStates DEF Moves, Fit, MarkAfter, Notes
<1>2. ASSUME NEW r, NEW i, Call(r, p)
      PROVE  Does([r EXCEPT !.p = P], r, i, P, FALSE, "none", "no", Silent, Silent)
  BY <1>2 DEF Does, Call, IsRun, Speaks, Noted, MarkAfter
<1> QED
  BY <1>1, <1>2 DEF Acts

\* A byte that changes nothing.
LEMMA StayActs ==
  ASSUME NEW p, Fit(p, 1), p.state # "s_chunk_size_start",
         p.state \notin {"s_chunk_data", "s_chunk_data_almost_done", "s_body_identity"}
  PROVE  Acts(p, LAMBDA r, i : r)
<1>1. Moves(p, p, FALSE, "none", "no", Silent, Silent)
  BY CertainStates DEF Moves, Fit, InChunks, MarkAfter, Notes
<1>2. ASSUME NEW r, NEW i, Call(r, p)
      PROVE  Does(r, r, i, p, FALSE, "none", "no", Silent, Silent)
  BY <1>2 DEF Does, Call, Speaks, Noted, MarkAfter
<1> QED
  BY <1>1, <1>2 DEF Acts

\* A byte that ends a piece and does not belong to it.
Cuts(r, P, for, i) == CALLBACK_DATA([r EXCEPT !.p = P], for, i)

LEMMA CutActs ==
  ASSUME NEW p, IsParser(p), NEW P, Fit(P, 0), P.upgrade = p.upgrade,
         NEW for \in {"url", "header_field", "header_value", "body"},
         \A m : Marked(m, p.state) => m \in {"none", for},
         Marked("none", P.state)
  PROVE  Acts(p, LAMBDA r, i : Cuts(r, P, for, i))
<1>1. Moves(p, P, FALSE, "none", "before", Silent, Silent)
  BY DEF Moves, Fit, MarkAfter, Notes
<1>2. ASSUME NEW r, NEW i, Call(r, p)
      PROVE  Does(Cuts(r, P, for, i), r, i, P, FALSE, "none", "before", Silent, Silent)
  <2>1. r.mark = "none" \/ r.mark = for
    BY <1>2 DEF Call
  <2>2. CASE r.mark = for
    BY <1>2, <2>2 DEF Does, Call, IsRun, Speaks, Noted, MarkAfter, Cuts, CALLBACK_DATA
  <2>3. CASE r.mark = "none"
    BY <1>2, <2>3 DEF Does, Call, IsRun, Speaks, Noted, MarkAfter, Cuts, CALLBACK_DATA
  <2> QED
    BY <2>1, <2>2, <2>3
<1> QED
  BY <1>1, <1>2 DEF Acts

\* A byte that begins a piece, or goes on with it.
LEMMA MarkActs ==
  ASSUME NEW p, IsParser(p), NEW P, Fit(P, 0), P.upgrade = p.upgrade,
         NEW for \in {"url", "header_field", "header_value", "body"},
         \A m : Marked(m, p.state) => m \in {"none", for},
         Marked(for, P.state)
  PROVE  Acts(p, LAMBDA r, i : [MARK(r, for, i) EXCEPT !.p = P])
<1>1. Moves(p, P, FALSE, for, "no", Silent, Silent)
  BY DEF Moves, Fit, MarkAfter, Notes
<1>2. ASSUME NEW r, NEW i, Call(r, p)
      PROVE  Does([MARK(r, for, i) EXCEPT !.p = P], r, i, P, FALSE, for, "no", Silent, Silent)
  <2>1. r.mark = "none" \/ r.mark = for
    BY <1>2 DEF Call
  <2>2. CASE r.mark = for
    BY <1>2, <2>2 DEF Does, Call, IsRun, Speaks, Noted, MarkAfter, MARK
  <2>3. CASE r.mark = "none"
    BY <1>2, <2>3 DEF Does, Call, IsRun, Speaks, Noted, MarkAfter, MARK, Asserted
  <2> QED
    BY <2>1, <2>2, <2>3
<1> QED
  BY <1>1, <1>2 DEF Acts

\* The same, field by field.
LEMMA MarkDoes ==
  ASSUME NEW p, IsParser(p), NEW P, Fit(P, 0), P.upgrade = p.upgrade,
         NEW for \in {"url", "header_field", "header_value", "body"},
         \A m : Marked(m, p.state) => m \in {"none", for},
         Marked(for, P.state)
  PROVE  /\ Moves(p, P, FALSE, for, "no", Silent, Silent)
         /\ \A r, i, s : /\ Call(r, p) /\ IsRun(s) /\ s.p = P /\ s.halted = FALSE /\ s.mark = for
                         /\ s.from = (IF r.mark = for THEN r.from ELSE i) /\ s.out = r.out
                         => Does(s, r, i, P, FALSE, for, "no", Silent, Silent)
<1>1. Moves(p, P, FALSE, for, "no", Silent, Silent)
  BY DEF Moves, Fit, MarkAfter, Notes
<1>2. ASSUME NEW r, NEW i, NEW s, Call(r, p), IsRun(s), s.p = P, s.halted = FALSE, s.mark = for,
             s.from = (IF r.mark = for THEN r.from ELSE i), s.out = r.out
      PROVE  Does(s, r, i, P, FALSE, for, "no", Silent, Silent)
  BY <1>2 DEF Does, Speaks, Noted, MarkAfter
<1> QED
  BY <1>1, <1>2

\* A byte with which the call notifies of something, and returns after an upgrade.
LEMMA NoteActs ==
  ASSUME NEW p, IsParser(p), NEW P, Fit(P, 0), NEW h \in BOOLEAN,
         P.upgrade => p.upgrade \/ h, h => P.upgrade,
         \A m : Marked(m, p.state) => Marked(m, P.state),
         p.state \in {"s_header_field_start", "s_header_value_lws", "s_headers_almost_done"},
         NEW a \in Notes, NEW b \in Notes
  PROVE  /\ Moves(p, P, h, "none", "no", a, b)
         /\ \A r, i, s : /\ IsRun(s) /\ s.p = P /\ s.halted = h /\ s.mark = r.mark /\ s.from = r.from
                         /\ s.out = Noted(Noted(r.out, a), b)
                         => Does(s, r, i, P, h, "none", "no", a, b)
<1>1. Moves(p, P, h, "none", "no", a, b)
  <2>1. Certain(p.state) /\ MarkOf(p.state) = "none"
    BY CertainStates, MarkIs DEF UrlStates
  <2> QED
    BY <2>1 DEF Moves, Fit, MarkAfter, Certain
<1>2. ASSUME NEW r, NEW i, NEW s, IsRun(s), s.p = P, s.halted = h, s.mark = r.mark, s.from = r.from,
             s.out = Noted(Noted(r.out, a), b)
      PROVE  Does(s, r, i, P, h, "none", "no", a, b)
  BY <1>2 DEF Does, Speaks, MarkAfter
<1> QED
  BY <1>1, <1>2

\* s_start_req: blank lines are skipped, the first letter of a method begins a message.
LEMMA StartReqActs ==
  ASSUME NEW p, NEW ch, Fit(p, 1), p.state = "s_start_req"
  PROVE  Acts(p, LAMBDA r, i : StartReq(r, ch))
<1>1. CASE ch \in {CR, LF}
  <2>1. Acts(p, LAMBDA r, i : r)
    BY StayActs DEF Acts
  <2>2. \A r : StartReq(r, ch) = r
    BY <1>1 DEF StartReq
  <2> QED
    BY <2>1, <2>2 DEF Acts
<1>2. CASE ch \notin {CR, LF} /\ \A m \in Methods : m[1] # ch
  <2>1. Acts(p, LAMBDA r, i : Error(r))
    BY ErrorActs DEF Fit
  <2>2. \A r : StartReq(r, ch) = Error(r)
    BY <1>2 DEF StartReq
  <2> QED
    BY <2>1, <2>2 DEF Acts
<1>3. CASE ch \notin {CR, LF} /\ \E m \in Methods : m[1] = ch
  <2> DEFINE P == [p EXCEPT !.flags = {}, !.content_length = ULLONG_MAX,
                            !.word = <<ch>>, !.state = "s_req_method"]
             a == [cb |-> "message_begin"]
  <2>0. /\ Fit(P, 0) /\ IsParser(P) /\ P.upgrade = p.upgrade /\ P.http_errno = "OK"
        /\ P.state = "s_req_method"
    BY HttpParserAssumption DEF Fit, InChunks, Sized, IsParser, States, SizeStates, ChunkStates
  <2>m. /\ Certain(p.state) /\ MarkOf(p.state) = "none" /\ MarkOf("s_req_method") = "none"
    BY CertainStates, MarkIs DEF UrlStates
  <2>1. Moves(p, P, FALSE, "none", "no", a, Silent)
    <3> HIDE DEF P
    <3> QED
      BY <2>0, <2>m DEF Moves, MarkAfter, Notes, Certain, Marked
  <2>2. ASSUME NEW r, NEW i, Call(r, p)
        PROVE  Does(StartReq(r, ch), r, i, P, FALSE, "none", "no", a, Silent)
    BY <1>3, <2>2 DEF Does, StartReq, Call, Speaks, Noted, MarkAfter, CALLBACK_NOTIFY, IsRun, Silent, Fit, IsParser
  <2> HIDE DEF P, a
  <2> QED
    BY <2>1, <2>2 DEF Acts
<1> QED
  BY <1>1, <1>2, <1>3

\* The states a URL leads to.
LEMMA UrlCharType ==
  ASSUME NEW s, NEW ch PROVE parse_url_char(s, ch) \in UrlStates \cup {"s_dead"}
BY DEF parse_url_char, UrlStates

\* The states with no mark, where only the word, the version and the state are kept.
LineStates ==
  {"s_start_req", "s_req_method", "s_req_spaces_before_url", "s_req_http_start",
   "s_req_first_http_major", "s_req_http_major", "s_req_first_http_minor", "s_req_http_minor",
   "s_req_line_almost_done", "s_header_field_start"}

\* P is in one of these states and differs from p in no other field.
OnLine(P, p) ==
  /\ IsParser(P) /\ P.state \in LineStates
  /\ \A f \in {"flags", "content_length", "nread", "upgrade", "http_errno"} : P[f] = p[f]

\* A parser in one of these states is fit, whatever word and version it has read.
LEMMA LineMoves ==
  ASSUME NEW p, Fit(p, 1), p.state \in LineStates, NEW P, OnLine(P, p)
  PROVE  Acts(p, LAMBDA r, i : [r EXCEPT !.p = P])
<1>1. /\ P.flags = p.flags /\ P.content_length = p.content_length /\ P.nread = p.nread
      /\ P.upgrade = p.upgrade /\ P.http_errno = p.http_errno /\ IsParser(P) /\ P.state \in LineStates
  BY DEF OnLine
<1>2. Fit(P, 0)
  BY <1>1 DEF Fit, Sized, InChunks, LineStates, States, SizeStates, ChunkStates
<1>3. \A m : Marked(m, p.state) => Marked(m, P.state)
  BY <1>1, MarkIs DEF Marked, LineStates, UrlStates
<1>4. IsParser(p)
  BY DEF Fit
<1>5. p.state \notin {"s_chunk_data", "s_chunk_data_almost_done", "s_body_identity"}
  BY DEF LineStates
<1> QED
  BY <1>1, <1>2, <1>3, <1>4, <1>5, MoveActs DEF Acts

\* s_req_method: the letters of a method, and the space behind it.
LEMMA ReqMethodActs ==
  ASSUME NEW p, NEW ch, Fit(p, 1), p.state = "s_req_method"
  PROVE  Acts(p, LAMBDA r, i : ReqMethod(r, ch))
<1>0. IsParser(p)
  BY DEF Fit
<1>1. CASE ch = SP /\ p.word \in Methods
  <2> DEFINE P == [p EXCEPT !.method = p.word, !.word = <<>>, !.state = "s_req_spaces_before_url"]
  <2>1. OnLine(P, p) /\ p.state \in LineStates
    BY <1>0 DEF OnLine, IsParser, LineStates
  <2>2. \A r, i : Call(r, p) => ReqMethod(r, ch) = [r EXCEPT !.p = P]
    BY <1>1 DEF ReqMethod, Call
  <2> HIDE DEF P
  <2> QED
    BY <2>1, <2>2, LineMoves DEF Acts
<1>2. CASE ~ (ch = SP /\ p.word \in Methods) /\ \E m \in Methods : IsPrefix(Append(p.word, ch), m)
  <2> DEFINE P == [p EXCEPT !.word = Append(@, ch)]
  <2>1. OnLine(P, p) /\ p.state \in LineStates
    BY <1>0 DEF OnLine, IsParser, LineStates
  <2>2. \A r, i : Call(r, p) => ReqMethod(r, ch) = [r EXCEPT !.p = P]
    BY <1>2 DEF ReqMethod, Call
  <2> HIDE DEF P
  <2> QED
    BY <2>1, <2>2, LineMoves DEF Acts
<1>3. CASE ~ (ch = SP /\ p.word \in Methods) /\ ~ \E m \in Methods : IsPrefix(Append(p.word, ch), m)
  <2>1. Acts(p, LAMBDA r, i : Error(r))
    BY <1>0, ErrorActs DEF Acts
  <2>2. \A r : Call(r, p) => ReqMethod(r, ch) = Error(r)
    BY <1>3 DEF ReqMethod, Call
  <2> QED
    BY <2>1, <2>2 DEF Acts
<1> QED
  BY <1>1, <1>2, <1>3

\* s_req_spaces_before_url: the first byte of the URL begins its piece.
LEMMA SpacesBeforeUrlActs ==
  ASSUME NEW p, NEW ch, Fit(p, 1), p.state = "s_req_spaces_before_url"
  PROVE  Acts(p, LAMBDA r, i : SpacesBeforeUrl(r, i, ch))
<1> DEFINE u == parse_url_char(IF p.method = CONNECT THEN "s_req_server_start" ELSE p.state, ch)
<1>0. IsParser(p)
  BY DEF Fit
<1>1. CASE ch = SP
  <2>1. Acts(p, LAMBDA r, i : r)
    BY StayActs DEF Acts
  <2>2. \A r, i : SpacesBeforeUrl(r, i, ch) = r
    BY <1>1 DEF SpacesBeforeUrl
  <2> QED
    BY <2>1, <2>2 DEF Acts
<1>2. CASE ch # SP /\ u = "s_dead"
  <2>1. ASSUME NEW r, NEW i, Call(r, p)
        PROVE  SpacesBeforeUrl(r, i, ch) = Error(MARK(r, "url", i))
    BY <1>2, <2>1 DEF SpacesBeforeUrl, UrlChar, Call
  <2>2. ASSUME NEW r, NEW i, Call(r, p)
        PROVE  IsRun(MARK(r, "url", i)) /\ MARK(r, "url", i).p = p
    <3>1. r.mark = "none"
      BY <2>2 DEF Call, Marked, MarkOf, UrlStates
    <3> QED
      BY <2>2, <3>1 DEF MARK, Asserted, Call, IsRun
  <2> DEFINE P == [p EXCEPT !.http_errno = "ERROR"]
  <2>3. Moves(p, P, TRUE, "none", "no", Silent, Silent)
    BY <1>0 DEF Moves, IsParser, Notes
  <2>4. ASSUME NEW r, NEW i, Call(r, p)
        PROVE  Does(SpacesBeforeUrl(r, i, ch), r, i, P, TRUE, "none", "no", Silent, Silent)
    <3> DEFINE q == MARK(r, "url", i)
    <3>1. SpacesBeforeUrl(r, i, ch) = Error(q) /\ IsRun(q) /\ q.p = p
      BY <2>1, <2>2, <2>4
    <3> HIDE DEF q
    <3> QED
      BY <1>0, <3>1 DEF Does, Error, IsRun, IsParser
  <2> HIDE DEF P
  <2> QED
    BY <2>3, <2>4 DEF Acts
<1>3. CASE ch # SP /\ u # "s_dead"
  <2> DEFINE P == [p EXCEPT !.state = u]
  <2>1. u \in UrlStates
    BY <1>3, UrlCharType
  <2>2. Acts(p, LAMBDA r, i : [MARK(r, "url", i) EXCEPT !.p = P])
    <3> HIDE DEF u
    <3>1. /\ IsParser(P) /\ P.state = u /\ P.upgrade = p.upgrade /\ P.http_errno = "OK"
          /\ P.nread = p.nread /\ P.content_length = p.content_length
      BY DEF Fit, IsParser
    <3>2. Fit(P, 0)
      <4> HIDE DEF P
      <4> QED
        BY <2>1, <3>1 DEF Fit, Sized, InChunks, States, SizeStates, ChunkStates, UrlStates
    <3>3. \A m : Marked(m, p.state) => m \in {"none", "url"}
      BY DEF Marked, MarkOf, UrlStates
    <3>4. Marked("url", P.state)
      BY <2>1, <3>1, MarkIs DEF Marked
    <3> HIDE DEF P
    <3> QED
      BY <1>0, <3>1, <3>2, <3>3, <3>4, MarkActs DEF Acts
  <2>3. ASSUME NEW r, NEW i, Call(r, p)
        PROVE  SpacesBeforeUrl(r, i, ch) = [MARK(r, "url", i) EXCEPT !.p = P]
    <3>1. r.mark = "none" /\ r.p = p /\ IsRun(r)
      BY <2>3 DEF Call, Marked, MarkOf, UrlStates
    <3>2. MARK(r, "url", i).p = p
      BY <3>1 DEF MARK, Asserted, IsRun
    <3> QED
      BY <1>3, <3>1, <3>2 DEF SpacesBeforeUrl, UrlChar, At
  <2> HIDE DEF P
  <2> QED
    BY <2>2, <2>3 DEF Acts
<1> QED
  BY <1>1, <1>2, <1>3

\* In a URL: another character of it, or the space or line end behind it.
LEMMA UrlActs ==
  ASSUME NEW p, NEW ch, Fit(p, 1), p.state \in UrlStates
  PROVE  Acts(p, LAMBDA r, i : Url(r, i, ch))
<1> DEFINE u == parse_url_char(p.state, ch)
           early == \/ p.state \in {"s_req_schema", "s_req_schema_slash",
                                    "s_req_schema_slash_slash", "s_req_server_start"}
                    \/ ch \notin {SP, CR, LF}
<1>0. IsParser(p)
  BY DEF Fit
<1>1. CASE early /\ u = "s_dead"
  <2>1. Acts(p, LAMBDA r, i : Error(r))
    BY <1>0, ErrorActs DEF Acts
  <2>2. \A r, i : Call(r, p) => Url(r, i, ch) = Error(r)
    BY <1>1 DEF Url, UrlChar, Call
  <2> QED
    BY <2>1, <2>2 DEF Acts
<1>2. CASE early /\ u # "s_dead"
  <2> DEFINE P == [p EXCEPT !.state = u]
  <2>1. u \in UrlStates
    BY <1>2, UrlCharType
  <2>2. \A r, i : Call(r, p) => Url(r, i, ch) = [r EXCEPT !.p = P]
    BY <1>2 DEF Url, UrlChar, At, Call
  <2> HIDE DEF u
  <2>3. /\ IsParser(P) /\ P.state = u /\ P.upgrade = p.upgrade /\ P.http_errno = "OK"
        /\ P.nread = p.nread /\ P.content_length = p.content_length
    BY DEF Fit, IsParser
  <2> HIDE DEF P
  <2>4. Fit(P, 0)
    BY <2>1, <2>3 DEF Fit, Sized, InChunks, States, SizeStates, ChunkStates, UrlStates
  <2>5. \A m : Marked(m, p.state) => Marked(m, P.state)
    BY <2>1, <2>3, MarkIs DEF Marked, UrlStates
  <2>6. p.state \notin {"s_chunk_data", "s_chunk_data_almost_done", "s_body_identity"}
    BY DEF UrlStates
  <2> QED
    BY <1>0, <2>2, <2>3, <2>4, <2>5, <2>6, MoveActs DEF Acts
<1>3. CASE ~ early /\ ch = SP
  <2> DEFINE P == [p EXCEPT !.state = "s_req_http_start"]
  <2>1. \A r, i : Call(r, p) => Url(r, i, ch) = Cuts(r, P, "url", i)
    BY <1>3 DEF Url, At, Call, Cuts
  <2>2. Fit(P, 0) /\ P.upgrade = p.upgrade /\ P.state = "s_req_http_start"
    BY DEF Fit, IsParser, Sized, InChunks, States, SizeStates, ChunkStates
  <2>3. \A m : Marked(m, p.state) => m \in {"none", "url"}
    BY MarkIs DEF Marked, UrlStates
  <2>4. Marked("none", P.state)
    BY <2>2, MarkIs DEF Marked, UrlStates
  <2> HIDE DEF P
  <2>5. Acts(p, LAMBDA r, i : Cuts(r, P, "url", i))
    BY <1>0, <2>2, <2>3, <2>4, CutActs DEF Acts
  <2> QED
    BY <2>1, <2>5 DEF Acts
<1>4. CASE ~ early /\ ch # SP
  <2> DEFINE t == IF ch = CR THEN "s_req_line_almost_done" ELSE "s_header_field_start"
             P == [p EXCEPT !.http_major = 0, !.http_minor = 9, !.state = t]
  <2>1. \A r, i : Call(r, p) => Url(r, i, ch) = Cuts(r, P, "url", i)
    BY <1>4 DEF Url, Call, Cuts
  <2>2. t \in {"s_req_line_almost_done", "s_header_field_start"}
    OBVIOUS
  <2> HIDE DEF t
  <2>3. Fit(P, 0) /\ P.upgrade = p.upgrade /\ P.state = t
    BY <2>2 DEF Fit, IsParser, Sized, InChunks, States, SizeStates, ChunkStates
  <2>4. \A m : Marked(m, p.state) => m \in {"none", "url"}
    BY MarkIs DEF Marked, UrlStates
  <2>5. Marked("none", P.state)
    BY <2>2, <2>3, MarkIs DEF Marked, UrlStates
  <2> HIDE DEF P
  <2>6. Acts(p, LAMBDA r, i : Cuts(r, P, "url", i))
    BY <1>0, <2>3, <2>4, <2>5, CutActs DEF Acts
  <2> QED
    BY <2>1, <2>6 DEF Acts
<1> QED
  BY <1>1, <1>2, <1>3, <1>4

\* s_req_http_start: the letters of "HTTP/".
LEMMA HttpStartActs ==
  ASSUME NEW p, NEW ch, Fit(p, 1), p.state = "s_req_http_start"
  PROVE  Acts(p, LAMBDA r, i : HttpStart(r, ch))
<1> DEFINE word == Append(p.word, ch)
           none == ch = SP /\ p.word = <<>>
<1>0. IsParser(p)
  BY DEF Fit
<1>1. CASE none
  <2>1. Acts(p, LAMBDA r, i : r)
    BY StayActs DEF Acts
  <2>2. \A r : Call(r, p) => HttpStart(r, ch) = r
    BY <1>1 DEF HttpStart, Call
  <2> QED
    BY <2>1, <2>2 DEF Acts
<1>2. CASE ~ none /\ word = HTTP
  <2> DEFINE P == [p EXCEPT !.word = <<>>, !.state = "s_req_first_http_major"]
  <2>1. OnLine(P, p) /\ p.state \in LineStates
    BY <1>0 DEF OnLine, IsParser, LineStates
  <2>2. \A r : Call(r, p) => HttpStart(r, ch) = [r EXCEPT !.p = P]
    BY <1>2 DEF HttpStart, Call
  <2> HIDE DEF P
  <2> QED
    BY <2>1, <2>2, LineMoves DEF Acts
<1>3. CASE ~ none /\ word # HTTP /\ IsPrefix(word, HTTP)
  <2> DEFINE P == [p EXCEPT !.word = word]
  <2>1. OnLine(P, p) /\ p.state \in LineStates
    BY <1>0 DEF OnLine, IsParser, LineStates
  <2>2. \A r : Call(r, p) => HttpStart(r, ch) = [r EXCEPT !.p = P]
    BY <1>3 DEF HttpStart, Call
  <2> HIDE DEF P
  <2> QED
    BY <2>1, <2>2, LineMoves DEF Acts
<1>4. CASE ~ none /\ word # HTTP /\ ~ IsPrefix(word, HTTP)
  <2>1. Acts(p, LAMBDA r, i : Error(r))
    BY <1>0, ErrorActs DEF Acts
  <2>2. \A r : Call(r, p) => HttpStart(r, ch) = Error(r)
    BY <1>4 DEF HttpStart, Call
  <2> QED
    BY <2>1, <2>2 DEF Acts
<1> QED
  BY <1>1, <1>2, <1>3, <1>4

\* The major version.
LEMMA HttpMajorActs ==
  ASSUME NEW p, NEW ch, Fit(p, 1), p.state \in {"s_req_first_http_major", "s_req_http_major"}
  PROVE  Acts(p, LAMBDA r, i : HttpMajor(r, ch))
<1> DEFINE dot == p.state = "s_req_http_major" /\ ch = "."
           first == p.state = "s_req_first_http_major" /\ IS_NUM(ch) /\ ch # "0"
           more == /\ p.state # "s_req_first_http_major"
                   /\ IS_NUM(ch) /\ 10 * p.http_major + unhex(ch) <= 999
<1>0. IsParser(p) /\ p.state \in LineStates
  BY DEF Fit, LineStates
<1>1. CASE dot
  <2> DEFINE P == [p EXCEPT !.state = "s_req_first_http_minor"]
  <2>1. OnLine(P, p)
    BY <1>0 DEF OnLine, IsParser, LineStates
  <2>2. \A r : Call(r, p) => HttpMajor(r, ch) = [r EXCEPT !.p = P]
    BY <1>1 DEF HttpMajor, At, Call
  <2> HIDE DEF P
  <2> QED
    BY <1>0, <2>1, <2>2, LineMoves DEF Acts
<1>2. CASE ~ dot /\ first
  <2> DEFINE P == [p EXCEPT !.http_major = unhex(ch), !.state = "s_req_http_major"]
  <2>1. OnLine(P, p)
    BY <1>0 DEF OnLine, IsParser, LineStates
  <2>2. \A r : Call(r, p) => HttpMajor(r, ch) = [r EXCEPT !.p = P]
    BY <1>2, ZenonT(60) DEF HttpMajor, Call
  <2> HIDE DEF P
  <2> QED
    BY <1>0, <2>1, <2>2, LineMoves DEF Acts
<1>3. CASE ~ dot /\ ~ first /\ more
  <2> DEFINE P == [p EXCEPT !.http_major = 10 * @ + unhex(ch)]
  <2>1. OnLine(P, p)
    BY <1>0 DEF OnLine, IsParser, LineStates
  <2>2. \A r : Call(r, p) => HttpMajor(r, ch) = [r EXCEPT !.p = P]
    BY <1>3 DEF HttpMajor, Call
  <2> HIDE DEF P
  <2> QED
    BY <1>0, <2>1, <2>2, LineMoves DEF Acts
<1>4. CASE ~ dot /\ ~ first /\ ~ more
  <2>1. Acts(p, LAMBDA r, i : Error(r))
    BY <1>0, ErrorActs DEF Acts
  <2>2. \A r : Call(r, p) => HttpMajor(r, ch) = Error(r)
    BY <1>4 DEF HttpMajor, Call
  <2> QED
    BY <2>1, <2>2 DEF Acts
<1> HIDE DEF dot, first, more
<1> QED
  BY <1>1, <1>2, <1>3, <1>4

\* The minor version, and the end of the line.
LEMMA HttpMinorActs ==
  ASSUME NEW p, NEW ch, Fit(p, 1), p.state \in {"s_req_first_http_minor", "s_req_http_minor"}
  PROVE  Acts(p, LAMBDA r, i : HttpMinor(r, ch))
<1> DEFINE line == p.state = "s_req_http_minor" /\ ch \in {CR, LF}
           first == p.state = "s_req_first_http_minor" /\ IS_NUM(ch)
           more == /\ p.state # "s_req_first_http_minor"
                   /\ IS_NUM(ch) /\ 10 * p.http_minor + unhex(ch) <= 999
<1>0. IsParser(p) /\ p.state \in LineStates
  BY DEF Fit, LineStates
<1>1. CASE line
  <2> DEFINE t == IF ch = CR THEN "s_req_line_almost_done" ELSE "s_header_field_start"
             P == [p EXCEPT !.state = t]
  <2>1. t \in {"s_req_line_almost_done", "s_header_field_start"}
    OBVIOUS
  <2>2. \A r : Call(r, p) => HttpMinor(r, ch) = [r EXCEPT !.p = P]
    BY <1>1 DEF HttpMinor, At, Call
  <2> HIDE DEF t
  <2>3. OnLine(P, p)
    BY <1>0, <2>1 DEF OnLine, IsParser, LineStates
  <2> HIDE DEF P
  <2> QED
    BY <1>0, <2>2, <2>3, LineMoves DEF Acts
<1>2. CASE ~ line /\ first
  <2> DEFINE P == [p EXCEPT !.http_minor = unhex(ch), !.state = "s_req_http_minor"]
  <2>1. OnLine(P, p)
    BY <1>0 DEF OnLine, IsParser, LineStates
  <2>2. \A r : Call(r, p) => HttpMinor(r, ch) = [r EXCEPT !.p = P]
    BY <1>2, ZenonT(60) DEF HttpMinor, Call
  <2> HIDE DEF P
  <2> QED
    BY <1>0, <2>1, <2>2, LineMoves DEF Acts
<1>3. CASE ~ line /\ ~ first /\ more
  <2> DEFINE P == [p EXCEPT !.http_minor = 10 * @ + unhex(ch)]
  <2>1. OnLine(P, p)
    BY <1>0 DEF OnLine, IsParser, LineStates
  <2>2. \A r : Call(r, p) => HttpMinor(r, ch) = [r EXCEPT !.p = P]
    BY <1>3 DEF HttpMinor, Call
  <2> HIDE DEF P
  <2> QED
    BY <1>0, <2>1, <2>2, LineMoves DEF Acts
<1>4. CASE ~ line /\ ~ first /\ ~ more
  <2>1. Acts(p, LAMBDA r, i : Error(r))
    BY <1>0, ErrorActs DEF Acts
  <2>2. \A r : Call(r, p) => HttpMinor(r, ch) = Error(r)
    BY <1>4 DEF HttpMinor, Call
  <2> QED
    BY <2>1, <2>2 DEF Acts
<1> HIDE DEF line, first, more
<1> QED
  BY <1>1, <1>2, <1>3, <1>4

\* The line feed of the request line.
LEMMA ReqLineAlmostDoneActs ==
  ASSUME NEW p, NEW ch, Fit(p, 1), p.state = "s_req_line_almost_done"
  PROVE  Acts(p, LAMBDA r, i : ReqLineAlmostDone(r, ch))
<1>0. IsParser(p) /\ p.state \in LineStates
  BY DEF Fit, LineStates
<1>1. CASE ch = LF
  <2> DEFINE P == [p EXCEPT !.state = "s_header_field_start"]
  <2>1. OnLine(P, p)
    BY <1>0 DEF OnLine, IsParser, LineStates
  <2>2. \A r : Call(r, p) => ReqLineAlmostDone(r, ch) = [r EXCEPT !.p = P]
    BY <1>1 DEF ReqLineAlmostDone, At, Call
  <2> HIDE DEF P
  <2> QED
    BY <1>0, <2>1, <2>2, LineMoves DEF Acts
<1>2. CASE ch # LF
  <2>1. Acts(p, LAMBDA r, i : Error(r))
    BY <1>0, ErrorActs DEF Acts
  <2>2. \A r : Call(r, p) => ReqLineAlmostDone(r, ch) = Error(r)
    BY <1>2 DEF ReqLineAlmostDone, Call
  <2> QED
    BY <2>1, <2>2 DEF Acts
<1> QED
  BY <1>1, <1>2

-------------------------------------------------------------------------------
(* The headers. *)

\* Outside bodies and chunks nothing is asked of a parser but its types.
LEMMA FitOutside ==
  ASSUME NEW P, IsParser(P), P.http_errno = "OK", P.nread \in Nat,
         P.state \in States \ (ChunkStates \cup {"s_body_identity"}),
         P.content_length \in 0 .. ULLONG_MAX, NEW n
  PROVE  Fit(P, n)
BY DEF Fit, Sized, InChunks, States, SizeStates, ChunkStates

\* After a message the parser waits for the next one or for the end.
LEMMA NextMessage ==
  ASSUME NEW p
  PROVE  /\ http_should_keep_alive(p) \in BOOLEAN
         /\ NEW_MESSAGE(p) \in {"s_start_req", "s_dead"}
<1>1. http_should_keep_alive(p) \in BOOLEAN
  <2>1. CASE p.http_major > 0 /\ p.http_minor > 0
    <3>1. http_should_keep_alive(p) = ("CONNECTION_CLOSE" \notin p.flags)
      BY <2>1 DEF http_should_keep_alive
    <3> QED
      BY Zenon, <3>1
  <2>2. CASE ~ (p.http_major > 0 /\ p.http_minor > 0)
    <3>1. http_should_keep_alive(p) = ~ ("CONNECTION_KEEP_ALIVE" \notin p.flags)
      BY <2>2 DEF http_should_keep_alive
    <3> QED
      BY Zenon, <3>1
  <2> QED
    BY <2>1, <2>2
<1>2. NEW_MESSAGE(p) \in {"s_start_req", "s_dead"}
  BY DEF NEW_MESSAGE
<1> QED
  BY <1>1, <1>2

\* What is told when the headers are complete.
Complete(p) == [cb |-> "headers_complete", keep |-> http_should_keep_alive(p)]
Over == [cb |-> "message_complete"]

\* They may be told.
LEMMA NotesAre == \A p : Complete(p) \in Notes /\ Over \in Notes /\ Complete(p) # Silent /\ Over # Silent
<1> SUFFICES ASSUME NEW p PROVE Complete(p) \in Notes /\ Over \in Notes /\ Complete(p) # Silent /\ Over # Silent
  OBVIOUS
<1>1. http_should_keep_alive(p) \in BOOLEAN
  BY NextMessage
<1>2. Complete(p) \in Notes /\ Complete(p).cb = "headers_complete"
  BY <1>1 DEF Complete, Notes
<1>3. Over \in Notes /\ Over.cb = "message_complete" /\ Silent.cb = "none"
  BY DEF Over, Notes, Silent
<1> QED
  BY <1>2, <1>3

\* The headers end: a message is over, or a body or chunks follow, or the call returns.
LEMMA HeadersDoneActs ==
  ASSUME NEW p, Fit(p, 1),
         p.state \in {"s_header_field_start", "s_header_value_lws", "s_headers_almost_done"}
  PROVE  Acts(p, LAMBDA r, i : HeadersDone(r))
<1> DEFINE up == "UPGRADE" \in p.flags \/ p.method = CONNECT
           q == [p EXCEPT !.upgrade = up, !.nread = 0]
           a == Complete(p)
           Told(r) == [r EXCEPT !.p = q, !.out = Append(@, a)]
<1>0. IsParser(p) /\ p.http_errno = "OK"
  BY DEF Fit
<1>1. /\ IsParser(q) /\ q.http_errno = "OK" /\ q.nread = 0 /\ q.upgrade = up
      /\ q.content_length = p.content_length /\ q.flags = p.flags
  BY <1>0 DEF IsParser
<1>2. \A r : Call(r, p) => HeadersDone(r) =
        IF up THEN [MessageComplete(Told(r)) EXCEPT !.halted = TRUE]
        ELSE IF "CHUNKED" \in q.flags THEN At(Told(r), "s_chunk_size_start")
        ELSE IF q.content_length \in {0, ULLONG_MAX} THEN MessageComplete(Told(r))
        ELSE At(Told(r), "s_body_identity")
  BY <1>0 DEF HeadersDone, Call, Complete, IsParser
<1>3. p.content_length \in 0 .. ULLONG_MAX
  BY DEF Fit, Sized
<1>4. \A m : Marked(m, p.state) => m = "none"
  BY MarkIs DEF Marked, UrlStates
<1>5. a \in Notes /\ Over \in Notes /\ a # Silent /\ Over # Silent /\ Silent \in Notes
  BY NotesAre DEF Notes
<1>6. \A s \in {"s_start_req", "s_dead", "s_chunk_size_start", "s_body_identity"} : Marked("none", s)
  BY MarkIs DEF Marked, UrlStates
<1> HIDE DEF q, a, up
<1>7. CASE up
  <2> DEFINE t == NEW_MESSAGE(q)
             P == [q EXCEPT !.state = t]
  <2>1. t \in {"s_start_req", "s_dead"}
    BY NextMessage
  <2>2. ASSUME NEW r, NEW i, Call(r, p)
        PROVE  LET s == HeadersDone(r)
               IN  /\ IsRun(s) /\ s.p = P /\ s.halted = TRUE /\ s.mark = r.mark /\ s.from = r.from
                   /\ s.out = Noted(Noted(r.out, a), Over)
    <3> DEFINE w == Told(r)
    <3>1. IsRun(w) /\ w.p = q /\ ~ w.halted /\ w.mark = r.mark /\ w.from = r.from
          /\ w.out = Append(r.out, a)
      BY <2>2 DEF Call, IsRun
    <3>2. HeadersDone(r) = [MessageComplete(w) EXCEPT !.halted = TRUE]
      BY <1>2, <1>7, <2>2
    <3> HIDE DEF w
    <3> QED
      BY <1>1, <1>5, <3>1, <3>2 DEF MessageComplete, CALLBACK_NOTIFY, At, IsRun, Noted, Over
  <2> HIDE DEF t
  <2>3. IsParser(P) /\ P.state = t /\ P.upgrade = up /\ P.http_errno = "OK" /\ P.nread = 0
        /\ P.content_length = p.content_length /\ P.flags = p.flags
    BY <1>1 DEF IsParser
  <2> HIDE DEF P
  <2>4. Fit(P, 0)
    BY <1>3, <2>1, <2>3, FitOutside DEF States, ChunkStates, SizeStates
  <2>5. \A m : Marked(m, p.state) => Marked(m, P.state)
    BY <1>4, <1>6, <2>1, <2>3
  <2>6. /\ Moves(p, P, TRUE, "none", "no", a, Over)
        /\ \A r, i, s : /\ IsRun(s) /\ s.p = P /\ s.halted = TRUE /\ s.mark = r.mark /\ s.from = r.from
                        /\ s.out = Noted(Noted(r.out, a), Over)
                        => Does(s, r, i, P, TRUE, "none", "no", a, Over)
    BY <1>0, <1>5, <1>7, <2>3, <2>4, <2>5, NoteActs
  <2>7. \A r, i : Call(r, p) => Does(HeadersDone(r), r, i, P, TRUE, "none", "no", a, Over)
    BY <2>2, <2>6
  <2> QED
    BY <2>6, <2>7 DEF Acts
<1>8. CASE ~ up /\ "CHUNKED" \in q.flags
  <2> DEFINE P == [q EXCEPT !.state = "s_chunk_size_start"]
  <2>2. ASSUME NEW r, NEW i, Call(r, p)
        PROVE  LET s == HeadersDone(r)
               IN  /\ IsRun(s) /\ s.p = P /\ s.halted = FALSE /\ s.mark = r.mark /\ s.from = r.from
                   /\ s.out = Noted(Noted(r.out, a), Silent)
    <3> DEFINE w == Told(r)
    <3>1. IsRun(w) /\ w.p = q /\ ~ w.halted /\ w.mark = r.mark /\ w.from = r.from
          /\ w.out = Append(r.out, a)
      BY <2>2 DEF Call, IsRun
    <3>2. HeadersDone(r) = At(w, "s_chunk_size_start")
      BY <1>2, <1>8, <2>2
    <3> HIDE DEF w
    <3> QED
      BY <1>1, <1>5, <3>1, <3>2 DEF At, IsRun, Noted
  <2>3. IsParser(P) /\ P.state = "s_chunk_size_start" /\ P.upgrade = up /\ P.http_errno = "OK" /\ P.nread = 0
        /\ P.content_length = p.content_length /\ P.flags = p.flags
    BY <1>1 DEF IsParser
  <2> HIDE DEF P
  <2>4. Fit(P, 0)
    BY <1>8, <1>1, <1>3, <2>3 DEF Fit, Sized, InChunks, States, BodyStates, ChunkStates, SizeStates
  <2>5. \A m : Marked(m, p.state) => Marked(m, P.state)
    BY <1>4, <1>6, <2>3
  <2>6. /\ Moves(p, P, FALSE, "none", "no", a, Silent)
        /\ \A r, i, s : /\ IsRun(s) /\ s.p = P /\ s.halted = FALSE /\ s.mark = r.mark /\ s.from = r.from
                        /\ s.out = Noted(Noted(r.out, a), Silent)
                        => Does(s, r, i, P, FALSE, "none", "no", a, Silent)
    BY <1>0, <1>5, <1>8, <2>3, <2>4, <2>5, NoteActs
  <2>7. \A r, i : Call(r, p) => Does(HeadersDone(r), r, i, P, FALSE, "none", "no", a, Silent)
    BY <2>2, <2>6
  <2> QED
    BY <2>6, <2>7 DEF Acts
<1>9. CASE ~ up /\ "CHUNKED" \notin q.flags /\ q.content_length \in {0, ULLONG_MAX}
  <2> DEFINE t == NEW_MESSAGE(q)
             P == [q EXCEPT !.state = t]
  <2>1. t \in {"s_start_req", "s_dead"}
    BY NextMessage
  <2>2. ASSUME NEW r, NEW i, Call(r, p)
        PROVE  LET s == HeadersDone(r)
               IN  /\ IsRun(s) /\ s.p = P /\ s.halted = FALSE /\ s.mark = r.mark /\ s.from = r.from
                   /\ s.out = Noted(Noted(r.out, a), Over)
    <3> DEFINE w == Told(r)
    <3>1. IsRun(w) /\ w.p = q /\ ~ w.halted /\ w.mark = r.mark /\ w.from = r.from
          /\ w.out = Append(r.out, a)
      BY <2>2 DEF Call, IsRun
    <3>2. HeadersDone(r) = MessageComplete(w)
      BY <1>2, <1>9, <2>2
    <3> HIDE DEF w
    <3> QED
      BY <1>1, <1>5, <3>1, <3>2 DEF MessageComplete, CALLBACK_NOTIFY, At, IsRun, Noted, Over
  <2> HIDE DEF t
  <2>3. IsParser(P) /\ P.state = t /\ P.upgrade = up /\ P.http_errno = "OK" /\ P.nread = 0
        /\ P.content_length = p.content_length /\ P.flags = p.flags
    BY <1>1 DEF IsParser
  <2> HIDE DEF P
  <2>4. Fit(P, 0)
    BY <1>3, <2>1, <2>3, FitOutside DEF States, ChunkStates, SizeStates
  <2>5. \A m : Marked(m, p.state) => Marked(m, P.state)
    BY <1>4, <1>6, <2>1, <2>3
  <2>6. /\ Moves(p, P, FALSE, "none", "no", a, Over)
        /\ \A r, i, s : /\ IsRun(s) /\ s.p = P /\ s.halted = FALSE /\ s.mark = r.mark /\ s.from = r.from
                        /\ s.out = Noted(Noted(r.out, a), Over)
                        => Does(s, r, i, P, FALSE, "none", "no", a, Over)
    BY <1>0, <1>5, <1>9, <2>3, <2>4, <2>5, NoteActs
  <2>7. \A r, i : Call(r, p) => Does(HeadersDone(r), r, i, P, FALSE, "none", "no", a, Over)
    BY <2>2, <2>6
  <2> QED
    BY <2>6, <2>7 DEF Acts
<1>10. CASE ~ up /\ "CHUNKED" \notin q.flags /\ q.content_length \notin {0, ULLONG_MAX}
  <2> DEFINE P == [q EXCEPT !.state = "s_body_identity"]
  <2>2. ASSUME NEW r, NEW i, Call(r, p)
        PROVE  LET s == HeadersDone(r)
               IN  /\ IsRun(s) /\ s.p = P /\ s.halted = FALSE /\ s.mark = r.mark /\ s.from = r.from
                   /\ s.out = Noted(Noted(r.out, a), Silent)
    <3> DEFINE w == Told(r)
    <3>1. IsRun(w) /\ w.p = q /\ ~ w.halted /\ w.mark = r.mark /\ w.from = r.from
          /\ w.out = Append(r.out, a)
      BY <2>2 DEF Call, IsRun
    <3>2. HeadersDone(r) = At(w, "s_body_identity")
      BY <1>2, <1>10, <2>2
    <3> HIDE DEF w
    <3> QED
      BY <1>1, <1>5, <3>1, <3>2 DEF At, IsRun, Noted
  <2>3. IsParser(P) /\ P.state = "s_body_identity" /\ P.upgrade = up /\ P.http_errno = "OK" /\ P.nread = 0
        /\ P.content_length = p.content_length /\ P.flags = p.flags
    BY <1>1 DEF IsParser
  <2> HIDE DEF P
  <2>4. Fit(P, 0)
    BY <1>10, <1>1, <1>3, <2>3 DEF Fit, Sized, InChunks, States, BodyStates, ChunkStates, SizeStates
  <2>5. \A m : Marked(m, p.state) => Marked(m, P.state)
    BY <1>4, <1>6, <2>3
  <2>6. /\ Moves(p, P, FALSE, "none", "no", a, Silent)
        /\ \A r, i, s : /\ IsRun(s) /\ s.p = P /\ s.halted = FALSE /\ s.mark = r.mark /\ s.from = r.from
                        /\ s.out = Noted(Noted(r.out, a), Silent)
                        => Does(s, r, i, P, FALSE, "none", "no", a, Silent)
    BY <1>0, <1>5, <1>10, <2>3, <2>4, <2>5, NoteActs
  <2>7. \A r, i : Call(r, p) => Does(HeadersDone(r), r, i, P, FALSE, "none", "no", a, Silent)
    BY <2>2, <2>6
  <2> QED
    BY <2>6, <2>7 DEF Acts
<1> QED
  BY <1>7, <1>8, <1>9, <1>10

\* The line feed after the headers or the trailer.
LEMMA HeadersAlmostDoneActs ==
  ASSUME NEW p, NEW ch, Fit(p, 1),
         p.state \in {"s_header_field_start", "s_header_value_lws", "s_headers_almost_done"}
  PROVE  Acts(p, LAMBDA r, i : HeadersAlmostDone(r, ch))
<1>0. IsParser(p)
  BY DEF Fit
<1>1. CASE ch # LF
  <2>1. Acts(p, LAMBDA r, i : Error(r))
    BY <1>0, ErrorActs DEF Acts
  <2>2. \A r : HeadersAlmostDone(r, ch) = Error(r)
    BY <1>1 DEF HeadersAlmostDone
  <2> QED
    BY <2>1, <2>2 DEF Acts
<1>2. CASE ch = LF /\ "TRAILING" \in p.flags
  <2> DEFINE t == NEW_MESSAGE(p)
             P == [p EXCEPT !.state = t]
  <2>1. t \in {"s_start_req", "s_dead"}
    BY NextMessage
  <2>2. ASSUME NEW r, NEW i, Call(r, p)
        PROVE  LET s == HeadersAlmostDone(r, ch)
               IN  /\ IsRun(s) /\ s.p = P /\ s.halted = FALSE /\ s.mark = r.mark /\ s.from = r.from
                   /\ s.out = Noted(Noted(r.out, Over), Silent)
    BY <1>2, <2>2, NotesAre
    DEF HeadersAlmostDone, Call, IsRun, MessageComplete, CALLBACK_NOTIFY, At, Noted, Over
  <2> HIDE DEF t
  <2>3. /\ IsParser(P) /\ P.state = t /\ P.upgrade = p.upgrade /\ P.http_errno = "OK"
        /\ P.nread \in Nat /\ P.content_length \in 0 .. ULLONG_MAX
    BY DEF Fit, IsParser, Sized
  <2> HIDE DEF P
  <2>4. Fit(P, 0)
    BY <2>1, <2>3, FitOutside DEF States, ChunkStates, SizeStates
  <2>5. \A m : Marked(m, p.state) => Marked(m, P.state)
    BY <2>1, <2>3, MarkIs DEF Marked, UrlStates
  <2>6. Over \in Notes /\ Silent \in Notes
    BY NotesAre DEF Notes
  <2>7. /\ Moves(p, P, FALSE, "none", "no", Over, Silent)
        /\ \A r, i, s : /\ IsRun(s) /\ s.p = P /\ s.halted = FALSE /\ s.mark = r.mark /\ s.from = r.from
                        /\ s.out = Noted(Noted(r.out, Over), Silent)
                        => Does(s, r, i, P, FALSE, "none", "no", Over, Silent)
    BY <1>0, <2>3, <2>4, <2>5, <2>6, NoteActs
  <2>8. \A r, i : Call(r, p) => Does(HeadersAlmostDone(r, ch), r, i, P, FALSE, "none", "no", Over, Silent)
    BY <2>2, <2>7
  <2> QED
    BY <2>7, <2>8 DEF Acts
<1>3. CASE ch = LF /\ "TRAILING" \notin p.flags
  <2>1. Acts(p, LAMBDA r, i : HeadersDone(r))
    BY HeadersDoneActs DEF Acts
  <2>2. \A r : Call(r, p) => HeadersAlmostDone(r, ch) = HeadersDone(r)
    BY <1>3 DEF HeadersAlmostDone, Call
  <2> QED
    BY <2>1, <2>2 DEF Acts
<1> QED
  BY <1>1, <1>2, <1>3

\* A header begins, or the headers end.
LEMMA HeaderFieldStartActs ==
  ASSUME NEW p, NEW ch, Fit(p, 1), p.state \in {"s_header_field_start", "s_header_value_lws"}
  PROVE  Acts(p, LAMBDA r, i : HeaderFieldStart(r, i, ch))
<1>0. IsParser(p) /\ p.content_length \in 0 .. ULLONG_MAX
  BY DEF Fit, Sized
<1>1. CASE ch = CR
  <2> DEFINE P == [p EXCEPT !.state = "s_headers_almost_done"]
  <2>1. \A r, i : Call(r, p) => HeaderFieldStart(r, i, ch) = [r EXCEPT !.p = P]
    BY <1>1 DEF HeaderFieldStart, At, Call
  <2>2. Fit(P, 0) /\ P.upgrade = p.upgrade /\ P.state = "s_headers_almost_done"
    BY DEF Fit, IsParser, Sized, InChunks, States, ChunkStates, SizeStates
  <2>3. \A m : Marked(m, p.state) => Marked(m, P.state)
    BY <2>2, MarkIs DEF Marked, UrlStates
  <2> HIDE DEF P
  <2> QED
    BY <1>0, <2>1, <2>2, <2>3, MoveActs DEF Acts
<1>2. CASE ch # CR /\ ch = LF
  <2>1. Acts(p, LAMBDA r, i : HeadersAlmostDone(r, ch))
    BY HeadersAlmostDoneActs DEF Acts
  <2>2. \A r, i : HeaderFieldStart(r, i, ch) = HeadersAlmostDone(r, ch)
    BY <1>2 DEF HeaderFieldStart
  <2> QED
    BY <2>1, <2>2 DEF Acts
<1>3. CASE ch \notin {CR, LF} /\ ~ TOKEN(ch)
  <2>1. Acts(p, LAMBDA r, i : Error(r))
    BY <1>0, ErrorActs DEF Acts
  <2>2. \A r, i : HeaderFieldStart(r, i, ch) = Error(r)
    BY <1>3 DEF HeaderFieldStart
  <2> QED
    BY <2>1, <2>2 DEF Acts
<1>4. CASE ch \notin {CR, LF} /\ TOKEN(ch)
  <2> DEFINE P == [p EXCEPT !.word = <<LOWER(ch)>>, !.header = "general", !.state = "s_header_field"]
  <2>1. Fit(P, 0) /\ P.upgrade = p.upgrade /\ P.state = "s_header_field"
    BY DEF Fit, IsParser, Sized, InChunks, States, ChunkStates, SizeStates
  <2>2. \A m : Marked(m, p.state) => m = "none"
    BY MarkIs DEF Marked, UrlStates
  <2>3. Marked("header_field", P.state)
    BY <2>1, MarkIs DEF Marked
  <2>4. ASSUME NEW r, NEW i, Call(r, p)
        PROVE  LET s == HeaderFieldStart(r, i, ch)
               IN  /\ IsRun(s) /\ s.p = P /\ s.halted = FALSE /\ s.mark = "header_field"
                   /\ s.from = (IF r.mark = "header_field" THEN r.from ELSE i) /\ s.out = r.out
    <3>1. r.mark = "none"
      BY <2>2, <2>4 DEF Call
    <3> QED
      BY <1>4, <2>4, <3>1 DEF HeaderFieldStart, MARK, Asserted, Call, IsRun
  <2> HIDE DEF P
  <2>5. /\ Moves(p, P, FALSE, "header_field", "no", Silent, Silent)
        /\ \A r, i, s : /\ Call(r, p) /\ IsRun(s) /\ s.p = P /\ s.halted = FALSE /\ s.mark = "header_field"
                        /\ s.from = (IF r.mark = "header_field" THEN r.from ELSE i) /\ s.out = r.out
                        => Does(s, r, i, P, FALSE, "header_field", "no", Silent, Silent)
    BY <1>0, <2>1, <2>2, <2>3, MarkDoes
  <2>6. ASSUME NEW r, NEW i, Call(r, p)
        PROVE  Does(HeaderFieldStart(r, i, ch), r, i, P, FALSE, "header_field", "no", Silent, Silent)
    <3> DEFINE s == HeaderFieldStart(r, i, ch)
    <3>1. /\ IsRun(s) /\ s.p = P /\ s.halted = FALSE /\ s.mark = "header_field"
          /\ s.from = (IF r.mark = "header_field" THEN r.from ELSE i) /\ s.out = r.out
      BY <2>4, <2>6
    <3> HIDE DEF s
    <3>2. Does(s, r, i, P, FALSE, "header_field", "no", Silent, Silent)
      BY <2>5, <2>6, <3>1
    <3> QED
      BY <3>2 DEF s
  <2> QED
    BY <2>5, <2>6 DEF Acts
<1> QED
  BY <1>1, <1>2, <1>3, <1>4

\* s_header_field: the letters of a header's name, and what ends it.
LEMMA HeaderFieldActs ==
  ASSUME NEW p, NEW ch, Fit(p, 1), p.state = "s_header_field"
  PROVE  Acts(p, LAMBDA r, i : HeaderField(r, i, ch))
<1>0. /\ IsParser(p) /\ p.content_length \in 0 .. ULLONG_MAX /\ p.http_errno = "OK"
      /\ p.nread \in Nat
  BY DEF Fit, Sized
<1>1. CASE TOKEN(ch)
  <2> DEFINE P == [p EXCEPT !.word = Append(@, LOWER(ch))]
  <2>1. \A r, i : Call(r, p) => HeaderField(r, i, ch) = [r EXCEPT !.p = P]
    BY <1>1 DEF HeaderField, Call
  <2>2. /\ IsParser(P) /\ P.upgrade = p.upgrade /\ P.state = p.state /\ P.http_errno = "OK"
        /\ P.nread = p.nread /\ P.content_length = p.content_length
    BY <1>0 DEF IsParser
  <2> HIDE DEF P
  <2>3. Fit(P, 0)
    BY <1>0, <2>2, FitOutside DEF States, ChunkStates, SizeStates
  <2> QED
    BY <1>0, <2>1, <2>2, <2>3, MoveActs DEF Acts
<1>2. CASE ~ TOKEN(ch) /\ ch \notin {":", CR, LF}
  <2>1. Acts(p, LAMBDA r, i : Error(r))
    BY <1>0, ErrorActs DEF Acts
  <2>2. \A r, i : HeaderField(r, i, ch) = Error(r)
    BY <1>2 DEF HeaderField
  <2> QED
    BY <2>1, <2>2 DEF Acts
<1>3. CASE ~ TOKEN(ch) /\ ch \in {":", CR, LF}
  <2> DEFINE t == CASE ch = ":" -> "s_header_value_start"
                    [] ch = CR  -> "s_header_almost_done"
                    [] ch = LF  -> "s_header_field_start"
             P == [p EXCEPT !.header = HeaderOf(p.word), !.word = <<>>, !.state = t]
  <2>2. t \in {"s_header_value_start", "s_header_almost_done", "s_header_field_start"}
    BY <1>3
  <2>1. ASSUME NEW r, NEW i, Call(r, p)
        PROVE  HeaderField(r, i, ch) = Cuts(r, P, "header_field", i)
    <3> DEFINE x == [r EXCEPT !.p.header = HeaderOf(r.p.word), !.p.word = <<>>, !.p.state = t]
    <3>1. HeaderField(r, i, ch) = CALLBACK_DATA(x, "header_field", i)
      BY <1>3 DEF HeaderField
    <3> HIDE DEF t
    <3>2. x = [r EXCEPT !.p = P]
      BY <2>1 DEF Call
    <3> QED
      BY <3>1, <3>2 DEF Cuts
  <2> HIDE DEF t
  <2>3. /\ IsParser(P) /\ P.upgrade = p.upgrade /\ P.state = t /\ P.http_errno = "OK"
        /\ P.nread = p.nread /\ P.content_length = p.content_length
    BY <1>0 DEF IsParser
  <2> HIDE DEF P
  <2>4. Fit(P, 0)
    BY <1>0, <2>2, <2>3, FitOutside DEF States, ChunkStates, SizeStates
  <2>5. \A m : Marked(m, p.state) => m \in {"none", "header_field"}
    BY MarkIs DEF Marked
  <2>6. Marked("none", P.state)
    BY <2>2, <2>3, MarkIs DEF Marked, UrlStates
  <2>7. Acts(p, LAMBDA r, i : Cuts(r, P, "header_field", i))
    BY <1>0, <2>3, <2>4, <2>5, <2>6, CutActs DEF Acts
  <2> QED
    BY <2>1, <2>7 DEF Acts
<1> QED
  BY <1>1, <1>2, <1>3

\* An empty value, or the first byte of one.
LEMMA HeaderValueStartActs ==
  ASSUME NEW p, NEW ch, Fit(p, 1), p.state = "s_header_value_start"
  PROVE  Acts(p, LAMBDA r, i : HeaderValueStart(r, i, ch))
<1>0. /\ IsParser(p) /\ p.content_length \in 0 .. ULLONG_MAX /\ p.http_errno = "OK"
      /\ p.nread \in Nat
  BY DEF Fit, Sized
<1>m. \A m : Marked(m, p.state) => m = "none"
  BY MarkIs DEF Marked, UrlStates
<1>r. ASSUME NEW r, NEW i, Call(r, p)
      PROVE  LET m == MARK(r, "header_value", i)
             IN  IsRun(m) /\ m.p = p /\ m.mark = "header_value" /\ m.from = i /\ m.out = r.out
                 /\ m.halted = FALSE /\ r.mark = "none"
  <2>1. r.mark = "none"
    BY <1>m, <1>r DEF Call
  <2> QED
    BY <1>r, <2>1 DEF MARK, Asserted, Call, IsRun
<1>1. CASE ch \in {SP, TAB}
  <2>1. Acts(p, LAMBDA r, i : r)
    BY StayActs DEF Acts
  <2>2. \A r, i : HeaderValueStart(r, i, ch) = r
    BY <1>1 DEF HeaderValueStart
  <2> QED
    BY <2>1, <2>2 DEF Acts
<1>2. CASE ch \notin {SP, TAB} /\ ch \in {CR, LF}
  <2> DEFINE t == IF ch = CR THEN "s_header_almost_done" ELSE "s_header_field_start"
             P == [p EXCEPT !.header = "general", !.state = t]
  <2>1. t \in {"s_header_almost_done", "s_header_field_start"}
    OBVIOUS
  <2>2. ASSUME NEW r, NEW i, Call(r, p)
        PROVE  LET s == HeaderValueStart(r, i, ch)
               IN  /\ IsRun(s) /\ s.p = P /\ s.halted = FALSE /\ s.mark = "none" /\ s.from = i
                   /\ s.out = Append(r.out, [cb |-> "header_value", from |-> i, to |-> i - 1])
                   /\ r.mark = "none"
    <3> DEFINE m == MARK(r, "header_value", i)
    <3>1. IsRun(m) /\ m.p = p /\ m.mark = "header_value" /\ m.from = i /\ m.out = r.out
          /\ m.halted = FALSE /\ r.mark = "none"
      BY <1>r, <2>2
    <3>2. HeaderValueStart(r, i, ch) =
            CALLBACK_DATA([m EXCEPT !.p.header = "general", !.p.state = t], "header_value", i)
      BY <1>2 DEF HeaderValueStart
    <3> HIDE DEF m, t
    <3> QED
      BY <1>0, <3>1, <3>2 DEF CALLBACK_DATA, IsRun, IsParser
  <2> HIDE DEF t
  <2>3. /\ IsParser(P) /\ P.upgrade = p.upgrade /\ P.state = t /\ P.http_errno = "OK"
        /\ P.nread = p.nread /\ P.content_length = p.content_length
    BY <1>0 DEF IsParser
  <2> HIDE DEF P
  <2>4. Fit(P, 0)
    BY <1>0, <2>1, <2>3, FitOutside DEF States, ChunkStates, SizeStates
  <2>5. Marked("none", P.state)
    BY <2>1, <2>3, MarkIs DEF Marked, UrlStates
  <2>6. Moves(p, P, FALSE, "header_value", "before", Silent, Silent)
    BY <1>m, <2>3, <2>4, <2>5 DEF Moves, MarkAfter, Notes
  <2>7. ASSUME NEW r, NEW i, Call(r, p)
        PROVE  Does(HeaderValueStart(r, i, ch), r, i, P, FALSE, "header_value", "before", Silent, Silent)
    <3> DEFINE s == HeaderValueStart(r, i, ch)
    <3>1. /\ IsRun(s) /\ s.p = P /\ s.halted = FALSE /\ s.mark = "none" /\ s.from = i
          /\ s.out = Append(r.out, [cb |-> "header_value", from |-> i, to |-> i - 1])
          /\ r.mark = "none"
      BY <2>2, <2>7
    <3> HIDE DEF s
    <3>2. Does(s, r, i, P, FALSE, "header_value", "before", Silent, Silent)
      BY <3>1 DEF Does, Speaks, MarkAfter, Noted
    <3> QED
      BY <3>2 DEF s
  <2> QED
    BY <2>6, <2>7 DEF Acts
<1>3. CASE ch \notin {SP, TAB} /\ ch \notin {CR, LF} /\ p.header = "content_length" /\ ~ IS_NUM(ch)
  <2> DEFINE P == [p EXCEPT !.http_errno = "ERROR"]
  <2>1. Moves(p, P, TRUE, "none", "no", Silent, Silent)
    BY <1>0 DEF Moves, IsParser, Notes
  <2>2. ASSUME NEW r, NEW i, Call(r, p)
        PROVE  Does(HeaderValueStart(r, i, ch), r, i, P, TRUE, "none", "no", Silent, Silent)
    <3> DEFINE m == MARK(r, "header_value", i)
    <3>1. IsRun(m) /\ m.p = p /\ m.mark = "header_value" /\ m.from = i /\ m.out = r.out
          /\ m.halted = FALSE /\ r.mark = "none"
      BY <1>r, <2>2
    <3>2. HeaderValueStart(r, i, ch) = Error(m)
      BY <1>3, <2>2 DEF HeaderValueStart, Call
    <3> HIDE DEF m
    <3> QED
      BY <1>0, <3>1, <3>2 DEF Does, Error, IsRun, IsParser
  <2> HIDE DEF P
  <2> QED
    BY <2>1, <2>2 DEF Acts
<1>4. CASE ch \notin {SP, TAB} /\ ch \notin {CR, LF} /\ ~ (p.header = "content_length" /\ ~ IS_NUM(ch))
  <2> DEFINE f == IF p.header = "upgrade" THEN p.flags \cup {"UPGRADE"} ELSE p.flags
             h == IF p.header = "upgrade" THEN "general" ELSE p.header
             l == IF p.header = "content_length" THEN unhex(ch) ELSE p.content_length
             P == [p EXCEPT !.word = <<LOWER(ch)>>, !.flags = f, !.header = h,
                            !.content_length = l, !.state = "s_header_value"]
  <2>1. l \in 0 .. ULLONG_MAX
    <3>1. CASE p.header = "content_length"
      BY <1>4, <3>1, UnhexType, HttpParserAssumption
    <3>2. CASE p.header # "content_length"
      BY <1>0, <3>2
    <3> QED
      BY <3>1, <3>2
  <2>2. ASSUME NEW r, NEW i, Call(r, p)
        PROVE  LET s == HeaderValueStart(r, i, ch)
               IN  /\ IsRun(s) /\ s.p = P /\ s.halted = FALSE /\ s.mark = "header_value"
                   /\ s.from = (IF r.mark = "header_value" THEN r.from ELSE i) /\ s.out = r.out
    <3> DEFINE m == MARK(r, "header_value", i)
    <3>1. IsRun(m) /\ m.p = p /\ m.mark = "header_value" /\ m.from = i /\ m.out = r.out
          /\ m.halted = FALSE /\ r.mark = "none"
      BY <1>r, <2>2
    <3>2. HeaderValueStart(r, i, ch) =
            [m EXCEPT
             !.p.word = <<LOWER(ch)>>,
             !.p.flags = IF p.header = "upgrade" THEN @ \cup {"UPGRADE"} ELSE @,
             !.p.header = IF @ = "upgrade" THEN "general" ELSE @,
             !.p.content_length =
                IF p.header = "content_length" THEN unhex(ch) ELSE @,
             !.p.state = "s_header_value"]
      BY <1>4, <2>2 DEF HeaderValueStart, Call
    <3> HIDE DEF m
    <3> QED
      BY <1>0, <3>1, <3>2 DEF IsRun, IsParser
  <2> HIDE DEF f, h, l
  <2>3. /\ IsParser(P) /\ P.upgrade = p.upgrade /\ P.state = "s_header_value" /\ P.http_errno = "OK"
        /\ P.nread = p.nread /\ P.content_length = l
    BY <1>0 DEF IsParser
  <2> HIDE DEF P
  <2>4. Fit(P, 0)
    BY <1>0, <2>1, <2>3, FitOutside DEF States, ChunkStates, SizeStates
  <2>5. Marked("header_value", P.state)
    BY <2>3, MarkIs DEF Marked
  <2>6. /\ Moves(p, P, FALSE, "header_value", "no", Silent, Silent)
        /\ \A r, i, s : /\ Call(r, p) /\ IsRun(s) /\ s.p = P /\ s.halted = FALSE /\ s.mark = "header_value"
                        /\ s.from = (IF r.mark = "header_value" THEN r.from ELSE i) /\ s.out = r.out
                        => Does(s, r, i, P, FALSE, "header_value", "no", Silent, Silent)
    BY <1>0, <1>m, <2>3, <2>4, <2>5, MarkDoes
  <2>7. ASSUME NEW r, NEW i, Call(r, p)
        PROVE  Does(HeaderValueStart(r, i, ch), r, i, P, FALSE, "header_value", "no", Silent, Silent)
    <3> DEFINE s == HeaderValueStart(r, i, ch)
    <3>1. /\ IsRun(s) /\ s.p = P /\ s.halted = FALSE /\ s.mark = "header_value"
          /\ s.from = (IF r.mark = "header_value" THEN r.from ELSE i) /\ s.out = r.out
      BY <2>2, <2>7
    <3> HIDE DEF s
    <3>2. Does(s, r, i, P, FALSE, "header_value", "no", Silent, Silent)
      BY <2>6, <2>7, <3>1
    <3> QED
      BY <3>2 DEF s
  <2> QED
    BY <2>6, <2>7 DEF Acts
<1> QED
  BY <1>1, <1>2, <1>3, <1>4

\* The parser after the line feed of a header.
AfterHeader(p) ==
  [p EXCEPT
     !.flags = @ \cup
       {f \in {"CONNECTION_KEEP_ALIVE", "CONNECTION_CLOSE", "CHUNKED"} :
          \/ p.header = "connection" /\ f = "CONNECTION_KEEP_ALIVE" /\ ValueIs(p, KEEP_ALIVE)
          \/ p.header = "connection" /\ f = "CONNECTION_CLOSE" /\ ValueIs(p, CLOSE)
          \/ p.header = "transfer_encoding" /\ f = "CHUNKED" /\ ValueIs(p, CHUNKED)},
     !.header = IF @ = "content_length" \/ p.word = <<>> THEN @ ELSE "general",
     !.word = <<>>,
     !.state = "s_header_value_lws"]

\* It is fit.
LEMMA AfterHeaderFit ==
  ASSUME NEW p, IsParser(p), p.content_length \in 0 .. ULLONG_MAX, p.http_errno = "OK", p.nread \in Nat
  PROVE  /\ Fit(AfterHeader(p), 0) /\ AfterHeader(p).upgrade = p.upgrade
         /\ AfterHeader(p).state = "s_header_value_lws"
<1> DEFINE P == AfterHeader(p)
<1>1. /\ IsParser(P) /\ P.upgrade = p.upgrade /\ P.state = "s_header_value_lws" /\ P.http_errno = "OK"
      /\ P.nread = p.nread /\ P.content_length = p.content_length
  BY DEF IsParser, AfterHeader
<1> HIDE DEF P
<1>2. Fit(P, 0)
  BY <1>1, FitOutside DEF States, ChunkStates, SizeStates
<1> QED
  BY <1>1, <1>2 DEF P

\* The line feed of a header makes it so.
LEMMA LineFeed ==
  ASSUME NEW r, IsRun(r), IsParser(r.p)
  PROVE  HeaderAlmostDone(r, LF) = [r EXCEPT !.p = AfterHeader(r.p)]
<1> DEFINE F == {f \in {"CONNECTION_KEEP_ALIVE", "CONNECTION_CLOSE", "CHUNKED"} :
                   \/ r.p.header = "connection" /\ f = "CONNECTION_KEEP_ALIVE" /\ ValueIs(r.p, KEEP_ALIVE)
                   \/ r.p.header = "connection" /\ f = "CONNECTION_CLOSE" /\ ValueIs(r.p, CLOSE)
                   \/ r.p.header = "transfer_encoding" /\ f = "CHUNKED" /\ ValueIs(r.p, CHUNKED)}
           H == IF r.p.header = "content_length" \/ r.p.word = <<>> THEN r.p.header ELSE "general"
<1>1. AfterHeader(r.p) = [r.p EXCEPT !.flags = r.p.flags \cup F, !.header = H, !.word = <<>>,
                                     !.state = "s_header_value_lws"]
  BY Zenon DEF AfterHeader
<1>2. HeaderAlmostDone(r, LF) =
        [r EXCEPT !.p.flags = @ \cup F,
                  !.p.header = IF @ = "content_length" \/ r.p.word = <<>> THEN @ ELSE "general",
                  !.p.word = <<>>, !.p.state = "s_header_value_lws"]
  BY Zenon DEF HeaderAlmostDone
<1> HIDE DEF F
<1> QED
  BY <1>1, <1>2 DEF IsRun, IsParser

\* s_header_almost_done: the line feed after a header.
LEMMA HeaderAlmostDoneActs ==
  ASSUME NEW p, NEW ch, Fit(p, 1), p.state = "s_header_almost_done"
  PROVE  Acts(p, LAMBDA r, i : HeaderAlmostDone(r, ch))
<1>0. /\ IsParser(p) /\ p.content_length \in 0 .. ULLONG_MAX /\ p.http_errno = "OK"
      /\ p.nread \in Nat
  BY DEF Fit, Sized
<1>1. CASE ch # LF
  <2>1. Acts(p, LAMBDA r, i : Error(r))
    BY <1>0, ErrorActs DEF Acts
  <2>2. \A r : HeaderAlmostDone(r, ch) = Error(r)
    BY <1>1 DEF HeaderAlmostDone
  <2> QED
    BY <2>1, <2>2 DEF Acts
<1>2. CASE ch = LF
  <2>1. \A r : Call(r, p) => HeaderAlmostDone(r, ch) = [r EXCEPT !.p = AfterHeader(p)]
    BY <1>0, <1>2, LineFeed DEF Call
  <2>2. /\ Fit(AfterHeader(p), 0) /\ AfterHeader(p).upgrade = p.upgrade
        /\ AfterHeader(p).state = "s_header_value_lws"
    BY <1>0, AfterHeaderFit
  <2>3. \A m : Marked(m, p.state) => Marked(m, AfterHeader(p).state)
    BY <2>2, MarkIs DEF Marked, UrlStates
  <2> QED
    BY <1>0, <2>1, <2>2, <2>3, MoveActs DEF Acts
<1> QED
  BY <1>1, <1>2

\* A length that takes another digit stays below ULLONG_MAX.
LEMMA DigitFits ==
  ASSUME NEW base \in {10, 16}, NEW d \in 0 .. base - 1, NEW n \in Nat,
         ~ ((ULLONG_MAX - base) \div base < n)
  PROVE  base * n + d \in 0 .. ULLONG_MAX - 1
<1> DEFINE M == ULLONG_MAX - base
           k == M \div base
<1>0. M \in Nat /\ base \in Nat \ {0, 1} /\ ULLONG_MAX \in Nat
  BY HttpParserAssumption
<1>1. M = base * k + (M % base) /\ k \in Nat /\ M % base \in 0 .. base - 1
  <2> HIDE DEF M
  <2> QED
    BY <1>0, DivMod
<1>2. n <= k
  <2>1. k \in Nat
    BY <1>1
  <2> HIDE DEF M
  <2>2. ~ (k < n)
    BY DEF M
  <2> QED
    BY <2>1, <2>2
<1>3. M % base >= 0 /\ M % base \in Int
  BY <1>1
<1> DEFINE x == M % base
<1> HIDE DEF x
<1>4. M = base * k + x /\ x >= 0 /\ x \in Int
  BY <1>1, <1>3 DEF x
<1> HIDE DEF k
<1>5. base * n + base <= ULLONG_MAX
  <2>1. CASE base = 10
    BY <1>0, <1>1, <1>2, <1>4, <2>1
  <2>2. CASE base = 16
    BY <1>0, <1>1, <1>2, <1>4, <2>2
  <2> QED
    BY <2>1, <2>2
<1> QED
  <2>1. CASE base = 10
    BY <1>0, <1>5, <2>1
  <2>2. CASE base = 16
    BY <1>0, <1>5, <2>2
  <2> QED
    BY <2>1, <2>2

\* Another digit of a length or of the size of a chunk.
LEMMA AddDigitActs ==
  ASSUME NEW p, Fit(p, 1), p.state \in {"s_header_value", "s_chunk_size"},
         NEW base \in {10, 16}, NEW d \in 0 .. base - 1
  PROVE  Acts(p, LAMBDA r, i : AddDigit(r, base, d))
<1>0. /\ IsParser(p) /\ p.content_length \in Nat /\ p.http_errno = "OK" /\ p.nread \in Nat
      /\ p.state \in ChunkStates => "CHUNKED" \in p.flags
  BY HttpParserAssumption DEF Fit, Sized, InChunks
<1>1. CASE (ULLONG_MAX - base) \div base < p.content_length
  <2>1. Acts(p, LAMBDA r, i : Error(r))
    BY <1>0, ErrorActs DEF Acts
  <2>2. \A r : Call(r, p) => AddDigit(r, base, d) = Error(r)
    BY <1>1 DEF AddDigit, Call
  <2> QED
    BY <2>1, <2>2 DEF Acts
<1>2. CASE ~ ((ULLONG_MAX - base) \div base < p.content_length)
  <2> DEFINE l == base * p.content_length + d
             P == [p EXCEPT !.content_length = l]
  <2>1. l \in 0 .. ULLONG_MAX - 1
    BY <1>0, <1>2, DigitFits
  <2>2. \A r : Call(r, p) => AddDigit(r, base, d) = [r EXCEPT !.p = P]
    BY <1>2 DEF AddDigit, Call
  <2> HIDE DEF l
  <2>3. /\ IsParser(P) /\ P.upgrade = p.upgrade /\ P.state = p.state /\ P.http_errno = "OK"
        /\ P.nread = p.nread /\ P.content_length = l /\ P.flags = p.flags
    BY <1>0 DEF IsParser
  <2> HIDE DEF P
  <2>4. l \in 0 .. ULLONG_MAX /\ l # ULLONG_MAX
    BY <2>1, HttpParserAssumption
  <2>5. Fit(P, 0)
    BY <1>0, <2>3, <2>4 DEF Fit, Sized, InChunks, States, ChunkStates, SizeStates
  <2> QED
    BY <1>0, <2>2, <2>3, <2>5, MoveActs DEF Acts
<1> QED
  BY <1>1, <1>2

\* s_header_value: the letters of a value or the digits of a length, and the end of the line.
LEMMA HeaderValueActs ==
  ASSUME NEW p, NEW ch, Fit(p, 1), p.state = "s_header_value"
  PROVE  Acts(p, LAMBDA r, i : HeaderValue(r, i, ch))
<1>0. /\ IsParser(p) /\ p.content_length \in 0 .. ULLONG_MAX /\ p.http_errno = "OK"
      /\ p.nread \in Nat
  BY DEF Fit, Sized
<1>m. \A m : Marked(m, p.state) => m \in {"none", "header_value"}
  BY MarkIs DEF Marked
<1>1. CASE ch = CR
  <2> DEFINE P == [p EXCEPT !.state = "s_header_almost_done"]
  <2>1. \A r, i : Call(r, p) => HeaderValue(r, i, ch) = Cuts(r, P, "header_value", i)
    BY <1>1 DEF HeaderValue, At, Call, Cuts
  <2>2. /\ IsParser(P) /\ P.upgrade = p.upgrade /\ P.state = "s_header_almost_done"
        /\ P.http_errno = "OK" /\ P.nread = p.nread /\ P.content_length = p.content_length
    BY <1>0 DEF IsParser
  <2> HIDE DEF P
  <2>3. Fit(P, 0)
    BY <1>0, <2>2, FitOutside DEF States, ChunkStates, SizeStates
  <2>4. Marked("none", P.state)
    BY <2>2, MarkIs DEF Marked, UrlStates
  <2>5. Acts(p, LAMBDA r, i : Cuts(r, P, "header_value", i))
    BY <1>0, <1>m, <2>2, <2>3, <2>4, CutActs DEF Acts
  <2> QED
    BY <2>1, <2>5 DEF Acts
<1>2. CASE ch # CR /\ ch = LF
  <2> DEFINE P == AfterHeader(p)
  <2>1. Fit(P, 0) /\ P.upgrade = p.upgrade /\ P.state = "s_header_value_lws"
    BY <1>0, AfterHeaderFit
  <2>2. ASSUME NEW r, NEW i, Call(r, p)
        PROVE  HeaderValue(r, i, ch) = Cuts(r, P, "header_value", i)
    <3>1. HeaderValue(r, i, ch) = HeaderAlmostDone(CALLBACK_DATA(r, "header_value", i), ch)
      BY <1>2 DEF HeaderValue
    <3>2. CASE r.mark = "header_value"
      <4> DEFINE o == Append(r.out, [cb |-> "header_value", from |-> r.from, to |-> i - 1])
                 c == [r EXCEPT !.mark = "none", !.out = o]
      <4>1. CALLBACK_DATA(r, "header_value", i) = c
        BY <3>2 DEF CALLBACK_DATA
      <4>2. Cuts(r, P, "header_value", i) = [r EXCEPT !.p = P, !.mark = "none", !.out = o]
        BY <2>2, <3>2 DEF Cuts, CALLBACK_DATA, Call, IsRun
      <4> HIDE DEF o
      <4>3. IsRun(c) /\ c.p = p
        BY <2>2 DEF Call, IsRun
      <4>4. HeaderAlmostDone(c, ch) = [c EXCEPT !.p = P]
        <5> HIDE DEF c, P
        <5> QED
          BY <1>0, <1>2, <4>3, LineFeed DEF P
      <4>5. [c EXCEPT !.p = P] = [r EXCEPT !.p = P, !.mark = "none", !.out = o]
        <5> HIDE DEF P
        <5> QED
          BY <2>2 DEF Call, IsRun
      <4> QED
        BY <3>1, <4>1, <4>2, <4>4, <4>5
    <3>3. CASE r.mark # "header_value"
      <4>1. CALLBACK_DATA(r, "header_value", i) = r
        BY <3>3 DEF CALLBACK_DATA
      <4>2. Cuts(r, P, "header_value", i) = [r EXCEPT !.p = P]
        BY <2>2, <3>3 DEF Cuts, CALLBACK_DATA, Call, IsRun
      <4>3. HeaderAlmostDone(r, ch) = [r EXCEPT !.p = P]
        BY <1>0, <1>2, <2>2, LineFeed DEF Call
      <4> QED
        BY <3>1, <4>1, <4>2, <4>3
    <3> QED
      BY <3>2, <3>3
  <2> HIDE DEF P
  <2>4. Marked("none", P.state)
    BY <2>1, MarkIs DEF Marked, UrlStates
  <2>5. Acts(p, LAMBDA r, i : Cuts(r, P, "header_value", i))
    BY <1>0, <1>m, <2>1, <2>4, CutActs DEF Acts
  <2> QED
    BY <2>2, <2>5 DEF Acts
<1>3. CASE ch \notin {CR, LF} /\ p.header # "content_length"
  <2> DEFINE P == [p EXCEPT !.word = Append(@, LOWER(ch))]
  <2>1. \A r, i : Call(r, p) => HeaderValue(r, i, ch) = [r EXCEPT !.p = P]
    BY <1>3 DEF HeaderValue, Call
  <2>2. /\ IsParser(P) /\ P.upgrade = p.upgrade /\ P.state = p.state /\ P.http_errno = "OK"
        /\ P.nread = p.nread /\ P.content_length = p.content_length
    BY <1>0 DEF IsParser
  <2> HIDE DEF P
  <2>3. Fit(P, 0)
    BY <1>0, <2>2, FitOutside DEF States, ChunkStates, SizeStates
  <2> QED
    BY <1>0, <2>1, <2>2, <2>3, MoveActs DEF Acts
<1>4. CASE ch \notin {CR, LF} /\ p.header = "content_length" /\ ch = SP
  <2>1. Acts(p, LAMBDA r, i : r)
    BY StayActs DEF Acts
  <2>2. \A r, i : Call(r, p) => HeaderValue(r, i, ch) = r
    BY <1>4 DEF HeaderValue, Call
  <2> QED
    BY <2>1, <2>2 DEF Acts
<1>5. CASE ch \notin {CR, LF} /\ p.header = "content_length" /\ ch # SP /\ IS_NUM(ch)
  <2> DEFINE d == unhex(ch)
  <2>1. d \in 0 .. 10 - 1
    BY <1>5, UnhexType
  <2>2. \A r, i : Call(r, p) => HeaderValue(r, i, ch) = AddDigit(r, 10, d)
    BY <1>5 DEF HeaderValue, Call
  <2> HIDE DEF d
  <2>3. Acts(p, LAMBDA r, i : AddDigit(r, 10, d))
    BY <2>1, AddDigitActs DEF Acts
  <2> QED
    BY <2>2, <2>3 DEF Acts
<1>6. CASE ch \notin {CR, LF} /\ p.header = "content_length" /\ ch # SP /\ ~ IS_NUM(ch)
  <2>1. Acts(p, LAMBDA r, i : Error(r))
    BY <1>0, ErrorActs DEF Acts
  <2>2. \A r, i : Call(r, p) => HeaderValue(r, i, ch) = Error(r)
    BY <1>6 DEF HeaderValue, Call
  <2> QED
    BY <2>1, <2>2 DEF Acts
<1> QED
  BY <1>1, <1>2, <1>3, <1>4, <1>5, <1>6

\* A line after a header: it goes on with the value, or it is a line of its own.
LEMMA HeaderValueLwsActs ==
  ASSUME NEW p, NEW ch, Fit(p, 1), p.state = "s_header_value_lws"
  PROVE  Acts(p, LAMBDA r, i : HeaderValueLws(r, i, ch))
<1>0. /\ IsParser(p) /\ p.content_length \in 0 .. ULLONG_MAX /\ p.http_errno = "OK"
      /\ p.nread \in Nat
  BY DEF Fit, Sized
<1>1. CASE ch \in {SP, TAB}
  <2> DEFINE P == [p EXCEPT !.state = "s_header_value_start"]
  <2>1. \A r, i : Call(r, p) => HeaderValueLws(r, i, ch) = [r EXCEPT !.p = P]
    BY <1>1 DEF HeaderValueLws, At, Call
  <2>2. /\ IsParser(P) /\ P.upgrade = p.upgrade /\ P.state = "s_header_value_start"
        /\ P.http_errno = "OK" /\ P.nread = p.nread /\ P.content_length = p.content_length
    BY <1>0 DEF IsParser
  <2> HIDE DEF P
  <2>3. Fit(P, 0)
    BY <1>0, <2>2, FitOutside DEF States, ChunkStates, SizeStates
  <2>4. \A m : Marked(m, p.state) => Marked(m, P.state)
    BY <2>2, MarkIs DEF Marked, UrlStates
  <2> QED
    BY <1>0, <2>1, <2>2, <2>3, <2>4, MoveActs DEF Acts
<1>2. CASE ch \notin {SP, TAB}
  <2>1. Acts(p, LAMBDA r, i : HeaderFieldStart(r, i, ch))
    BY HeaderFieldStartActs DEF Acts
  <2>2. \A r, i : HeaderValueLws(r, i, ch) = HeaderFieldStart(r, i, ch)
    BY <1>2 DEF HeaderValueLws
  <2> QED
    BY <2>1, <2>2 DEF Acts
<1> QED
  BY <1>1, <1>2

-------------------------------------------------------------------------------
(* Bodies. *)

\* The marks of a body.
LEMMA BodyMarks ==
  /\ \A m, s : Marked(m, s) /\ s \in {"s_chunk_data", "s_chunk_data_almost_done", "s_body_identity"}
               => m \in {"none", "body"}
  /\ \A s \in {"s_chunk_data", "s_chunk_data_almost_done", "s_body_identity"} :
       Marked("body", s) /\ Marked("none", s)
  /\ \A s \in {"s_start_req", "s_dead", "s_chunk_size_start", "s_chunk_data_done",
               "s_header_field_start"} \cup SizeStates :
       Marked("none", s) /\ \A m : Marked(m, s) => m = "none"
BY MarkIs DEF Marked, UrlStates, SizeStates

\* A byte of a body, counted.
Counted(r, i) ==
  LET a == Asserted(MARK(r, "body", i), r.p.content_length \notin {0, ULLONG_MAX})
  IN  IF a.halted THEN a ELSE [a EXCEPT !.p.content_length = @ - 1]

Opened(b, r, i, q) ==
  /\ IsRun(b) /\ b.p = q /\ b.halted = FALSE
  /\ b.mark = "body" /\ b.from = (IF r.mark = "body" THEN r.from ELSE i) /\ b.out = r.out

Fewer(p) == [p EXCEPT !.content_length = @ - 1]

LEMMA BodyByte ==
  ASSUME NEW p, Fit(p, 0), p.state \in {"s_chunk_data", "s_body_identity"},
         NEW r, Call(r, p), NEW i
  PROVE  Opened(Counted(r, i), r, i, Fewer(p))
<1> DEFINE m == MARK(r, "body", i)
<1>1. r.mark = "none" \/ r.mark = "body"
  BY BodyMarks DEF Call
<1>2. /\ IsRun(m) /\ m.p = p /\ m.halted = FALSE /\ m.mark = "body"
      /\ m.from = (IF r.mark = "body" THEN r.from ELSE i) /\ m.out = r.out
  <2>1. CASE r.mark = "body"
    BY <2>1 DEF MARK, Call, IsRun
  <2>2. CASE r.mark = "none"
    BY <2>2 DEF MARK, Asserted, Call, IsRun
  <2> QED
    BY <1>1, <2>1, <2>2
<1>3. r.p.content_length \notin {0, ULLONG_MAX} /\ IsParser(p)
  BY DEF Call, Fit, Sized
<1>4. Asserted(m, r.p.content_length \notin {0, ULLONG_MAX}) = m
  BY <1>3 DEF Asserted
<1> HIDE DEF m
<1> DEFINE b == [m EXCEPT !.p.content_length = @ - 1]
<1>5. /\ IsRun(b) /\ b.p = [p EXCEPT !.content_length = @ - 1] /\ b.halted = FALSE
      /\ b.mark = "body" /\ b.from = (IF r.mark = "body" THEN r.from ELSE i) /\ b.out = r.out
  BY <1>2 DEF IsRun
<1>6. Counted(r, i) = b
  BY <1>2, <1>4 DEF m, Counted
<1> HIDE DEF b
<1> QED
  BY <1>5, <1>6 DEF Opened, Fewer

\* What a byte of a body leaves of its length.
LEMMA BodyLeft ==
  ASSUME NEW p, Fit(p, 0), p.state \in {"s_chunk_data", "s_body_identity"}
  PROVE  LET q == Fewer(p)
         IN  /\ IsParser(q) /\ q.http_errno = "OK" /\ q.nread \in Nat /\ q.state = p.state
             /\ q.content_length \in 0 .. ULLONG_MAX /\ q.content_length # ULLONG_MAX
             /\ q.upgrade = p.upgrade /\ q.flags = p.flags
             /\ p.state = "s_chunk_data" => "CHUNKED" \in p.flags
<1> DEFINE q == Fewer(p)
<1>1. /\ p.content_length \in 0 .. ULLONG_MAX /\ p.content_length \notin {0, ULLONG_MAX}
      /\ IsParser(p) /\ p.http_errno = "OK" /\ p.nread \in Nat
      /\ p.state = "s_chunk_data" => "CHUNKED" \in p.flags
  BY DEF Fit, Sized, InChunks, ChunkStates
<1>2. p.content_length - 1 \in 0 .. ULLONG_MAX /\ p.content_length - 1 # ULLONG_MAX
  BY <1>1, HttpParserAssumption
<1>3. /\ IsParser(q) /\ q.http_errno = p.http_errno /\ q.nread = p.nread /\ q.state = p.state
      /\ q.content_length = p.content_length - 1
      /\ q.upgrade = p.upgrade /\ q.flags = p.flags
  BY <1>1 DEF IsParser, Fewer
<1> HIDE DEF q
<1>4. /\ IsParser(q) /\ q.http_errno = "OK" /\ q.nread \in Nat /\ q.state = p.state
      /\ q.content_length \in 0 .. ULLONG_MAX /\ q.content_length # ULLONG_MAX
      /\ q.upgrade = p.upgrade /\ q.flags = p.flags
      /\ p.state = "s_chunk_data" => "CHUNKED" \in p.flags
  BY <1>1, <1>2, <1>3
<1> QED
  BY <1>4 DEF q

\* s_body_identity: a byte of a body, with the last one the message is over.
LEMMA BodyIdentityActs ==
  ASSUME NEW p, Fit(p, 0), p.state = "s_body_identity"
  PROVE  Acts(p, LAMBDA r, i : BodyIdentity(r, i))
<1> DEFINE q == Fewer(p)
           t == NEW_MESSAGE(q)
<1>1. /\ IsParser(q) /\ q.http_errno = "OK" /\ q.nread \in Nat /\ q.state = p.state
      /\ q.content_length \in 0 .. ULLONG_MAX /\ q.content_length # ULLONG_MAX
      /\ q.upgrade = p.upgrade
  BY BodyLeft
<1>2. IsParser(p)
  BY DEF Fit
<1>3. ASSUME NEW r, NEW i, Call(r, p)
      PROVE  Opened(Counted(r, i), r, i, q)
  BY <1>3, BodyByte
<1>4. \A r, i : BodyIdentity(r, i) = IF Counted(r, i).halted \/ Counted(r, i).p.content_length > 0 THEN Counted(r, i)
                                     ELSE MessageComplete(CALLBACK_DATA(Counted(r, i), "body", i + 1))
  BY Zenon DEF BodyIdentity, Counted
<1>5. \A m : Marked(m, p.state) => m \in {"none", "body"}
  BY BodyMarks
<1> HIDE DEF q
<1>6. CASE q.content_length > 0
  <2>1. Fit(q, 0)
    BY <1>1, <1>6 DEF Fit, Sized, InChunks, States, BodyStates, ChunkStates, SizeStates
  <2>2. Marked("body", q.state)
    BY <1>1, BodyMarks
  <2>3. /\ Moves(p, q, FALSE, "body", "no", Silent, Silent)
        /\ \A r, i, s : /\ Call(r, p) /\ IsRun(s) /\ s.p = q /\ s.halted = FALSE /\ s.mark = "body"
                        /\ s.from = (IF r.mark = "body" THEN r.from ELSE i) /\ s.out = r.out
                        => Does(s, r, i, q, FALSE, "body", "no", Silent, Silent)
    BY <1>1, <1>2, <1>5, <2>1, <2>2, MarkDoes
  <2>6. ASSUME NEW r, NEW i, Call(r, p)
        PROVE  Does(BodyIdentity(r, i), r, i, q, FALSE, "body", "no", Silent, Silent)
    <3> DEFINE b == Counted(r, i)
    <3>1. Opened(b, r, i, q) /\ BodyIdentity(r, i) = (IF b.halted \/ b.p.content_length > 0 THEN b
                                     ELSE MessageComplete(CALLBACK_DATA(b, "body", i + 1)))
      BY <1>3, <1>4, <2>6
    <3> HIDE DEF b
    <3>2. BodyIdentity(r, i) = b
      BY <1>6, <3>1 DEF Opened
    <3> QED
      BY <2>3, <2>6, <3>1, <3>2 DEF Opened
  <2> QED
    BY <2>3, <2>6 DEF Acts
<1>7. CASE ~ (q.content_length > 0)
  <2> DEFINE P == [q EXCEPT !.state = t]
  <2>1. t \in {"s_start_req", "s_dead"}
    BY NextMessage
  <2>2. ASSUME NEW r, NEW i \in Nat \ {0}, Call(r, p)
        PROVE  Does(BodyIdentity(r, i), r, i, P, FALSE, "body", "with", Over, Silent)
    <3> DEFINE b == Counted(r, i)
               f == IF r.mark = "body" THEN r.from ELSE i
               o == Append(r.out, [cb |-> "body", from |-> f, to |-> (i + 1) - 1])
               c == CALLBACK_DATA(b, "body", i + 1)
               s == MessageComplete(c)
    <3>1. /\ IsRun(b) /\ b.p = q /\ b.halted = FALSE /\ b.mark = "body"
          /\ b.from = f /\ b.out = r.out
      <4>1. Opened(b, r, i, q)
        BY <1>3, <2>2
      <4> HIDE DEF b
      <4> QED
        BY <4>1 DEF Opened
    <3>2. BodyIdentity(r, i) = s
      BY <1>4, <1>7, <3>1
    <3> HIDE DEF b, f
    <3>3. IsRun(c) /\ c.p = q /\ c.halted = FALSE /\ c.mark = "none" /\ c.from = f /\ c.out = o
      BY <3>1 DEF CALLBACK_DATA, IsRun
    <3> HIDE DEF c, o
    <3>4. IsRun(s) /\ s.p = P /\ s.halted = FALSE /\ s.mark = "none" /\ s.from = f /\ s.out = Append(o, Over)
      BY <3>3 DEF MessageComplete, CALLBACK_NOTIFY, At, IsRun, Over
    <3> HIDE DEF s, P
    <3>5. o = Append(r.out, [cb |-> "body", from |-> f, to |-> i])
      <4>1. (i + 1) - 1 = i
        OBVIOUS
      <4> QED
        BY <4>1 DEF o
    <3>6. Noted(Noted(o, Over), Silent) = Append(o, Over)
      BY NotesAre DEF Noted
    <3>7. Does(s, r, i, P, FALSE, "body", "with", Over, Silent)
      BY <3>4, <3>5, <3>6 DEF Does, Speaks, MarkAfter, f
    <3> QED
      BY <3>2, <3>7
  <2> HIDE DEF t
  <2>3. /\ IsParser(P) /\ P.state = t /\ P.upgrade = p.upgrade /\ P.http_errno = "OK"
        /\ P.nread \in Nat /\ P.content_length \in 0 .. ULLONG_MAX
    BY <1>1 DEF IsParser
  <2> HIDE DEF P
  <2>4. Fit(P, 0)
    BY <2>1, <2>3, FitOutside DEF States, ChunkStates, SizeStates
  <2>5. Marked("none", P.state)
    BY <2>1, <2>3, BodyMarks
  <2>6. Moves(p, P, FALSE, "body", "with", Over, Silent)
    BY <1>5, <2>3, <2>4, <2>5, NotesAre DEF Moves, MarkAfter, Notes
  <2> QED
    BY <2>2, <2>6 DEF Acts
<1> QED
  BY <1>6, <1>7

\* s_chunk_size_start: the first digit of a chunk's size.
LEMMA ChunkSizeStartActs ==
  ASSUME NEW p, NEW ch, Fit(p, 1), p.state = "s_chunk_size_start"
  PROVE  Acts(p, LAMBDA r, i : ChunkSizeStart(r, ch))
<1>0. /\ IsParser(p) /\ p.http_errno = "OK" /\ p.nread \in Nat
      /\ p.nread = 1 /\ "CHUNKED" \in p.flags
  BY DEF Fit, InChunks, ChunkStates
<1>1. ASSUME NEW r, Call(r, p)
      PROVE  ChunkSizeStart(r, ch) =
               IF unhex(ch) = -1 THEN Error(r)
               ELSE [r EXCEPT !.p.content_length = unhex(ch), !.p.state = "s_chunk_size"]
  <2>1. Asserted(r, r.p.nread = 1 /\ "CHUNKED" \in r.p.flags) = r
    BY <1>0, <1>1 DEF Asserted, Call
  <2>2. ~ r.halted
    BY <1>1 DEF Call
  <2> QED
    BY <2>1, <2>2 DEF ChunkSizeStart
<1>2. CASE unhex(ch) = -1
  <2>1. Acts(p, LAMBDA r, i : Error(r))
    BY <1>0, ErrorActs DEF Acts
  <2>2. \A r : Call(r, p) => ChunkSizeStart(r, ch) = Error(r)
    BY <1>1, <1>2
  <2> QED
    BY <2>1, <2>2 DEF Acts
<1>3. CASE unhex(ch) # -1
  <2> DEFINE l == unhex(ch)
             P == [p EXCEPT !.content_length = l, !.state = "s_chunk_size"]
  <2>1. l \in 0 .. ULLONG_MAX /\ l # ULLONG_MAX
    <3>1. l \in -1 .. 15
      BY UnhexType
    <3> QED
      BY <1>3, <3>1, HttpParserAssumption
  <2>2. ASSUME NEW r, Call(r, p) PROVE ChunkSizeStart(r, ch) = [r EXCEPT !.p = P]
    <3>1. ChunkSizeStart(r, ch) = [r EXCEPT !.p.content_length = l, !.p.state = "s_chunk_size"]
      BY <1>1, <1>3, <2>2
    <3> HIDE DEF l
    <3>2. r.p = p
      BY <2>2 DEF Call
    <3> QED
      BY <3>1, <3>2
  <2> HIDE DEF l
  <2>3. /\ IsParser(P) /\ P.upgrade = p.upgrade /\ P.state = "s_chunk_size" /\ P.http_errno = "OK"
        /\ P.nread = p.nread /\ P.content_length = l /\ P.flags = p.flags
    BY <1>0 DEF IsParser
  <2> HIDE DEF P
  <2>4. Fit(P, 0)
    BY <1>0, <2>1, <2>3 DEF Fit, Sized, InChunks, States, ChunkStates, SizeStates
  <2>5. \A m : Marked(m, p.state) => Marked(m, P.state)
    BY <2>3, BodyMarks DEF SizeStates
  <2> QED
    BY <1>0, <2>2, <2>3, <2>4, <2>5, MoveActs DEF Acts
<1> QED
  BY <1>2, <1>3

\* Between the states of a chunk's size.
LEMMA SizeMoves ==
  ASSUME NEW p, Fit(p, 1), p.state \in SizeStates, NEW t \in SizeStates
  PROVE  Acts(p, LAMBDA r, i : At(r, t))
<1> DEFINE P == [p EXCEPT !.state = t]
<1>0. /\ IsParser(p) /\ p.http_errno = "OK" /\ p.nread \in Nat /\ "CHUNKED" \in p.flags
      /\ p.content_length \in 0 .. ULLONG_MAX /\ p.content_length # ULLONG_MAX
  BY DEF Fit, InChunks, ChunkStates, Sized
<1>1. \A r : Call(r, p) => At(r, t) = [r EXCEPT !.p = P]
  BY DEF Call, At
<1>2. /\ IsParser(P) /\ P.upgrade = p.upgrade /\ P.state = t /\ P.http_errno = "OK"
      /\ P.nread = p.nread /\ P.content_length = p.content_length /\ P.flags = p.flags
  BY <1>0 DEF IsParser
<1> HIDE DEF P
<1>3. Fit(P, 0)
  BY <1>0, <1>2 DEF Fit, Sized, InChunks, States, ChunkStates, SizeStates
<1>4. \A m : Marked(m, p.state) => Marked(m, P.state)
  BY <1>2, BodyMarks
<1> QED
  BY <1>0, <1>1, <1>2, <1>3, <1>4, MoveActs DEF Acts, SizeStates

\* s_chunk_size: more digits, parameters or the end of the line.
LEMMA ChunkSizeActs ==
  ASSUME NEW p, NEW ch, Fit(p, 1), p.state = "s_chunk_size"
  PROVE  Acts(p, LAMBDA r, i : ChunkSize(r, ch))
<1>0. IsParser(p) /\ p.state \in SizeStates /\ "s_chunk_size_almost_done" \in SizeStates
      /\ "s_chunk_parameters" \in SizeStates
  BY DEF Fit, SizeStates
<1>1. CASE ch = CR
  <2>1. Acts(p, LAMBDA r, i : At(r, "s_chunk_size_almost_done"))
    BY <1>0, SizeMoves DEF Acts
  <2>2. \A r : ChunkSize(r, ch) = At(r, "s_chunk_size_almost_done")
    BY <1>1 DEF ChunkSize
  <2> QED
    BY <2>1, <2>2 DEF Acts
<1>2. CASE ch # CR /\ unhex(ch) # -1
  <2> DEFINE d == unhex(ch)
  <2>1. d \in 0 .. 16 - 1
    <3>1. d \in -1 .. 15
      BY UnhexType
    <3> QED
      BY <1>2, <3>1
  <2>2. \A r : ChunkSize(r, ch) = AddDigit(r, 16, d)
    BY <1>2 DEF ChunkSize
  <2> HIDE DEF d
  <2>3. Acts(p, LAMBDA r, i : AddDigit(r, 16, d))
    BY <2>1, AddDigitActs DEF Acts
  <2> QED
    BY <2>2, <2>3 DEF Acts
<1>3. CASE ch # CR /\ unhex(ch) = -1 /\ ch \in {";", SP}
  <2>1. Acts(p, LAMBDA r, i : At(r, "s_chunk_parameters"))
    BY <1>0, SizeMoves DEF Acts
  <2>2. \A r : ChunkSize(r, ch) = At(r, "s_chunk_parameters")
    BY <1>3 DEF ChunkSize
  <2> QED
    BY <2>1, <2>2 DEF Acts
<1>4. CASE ch # CR /\ unhex(ch) = -1 /\ ch \notin {";", SP}
  <2>1. Acts(p, LAMBDA r, i : Error(r))
    BY <1>0, ErrorActs DEF Acts
  <2>2. \A r : ChunkSize(r, ch) = Error(r)
    BY <1>4 DEF ChunkSize
  <2> QED
    BY <2>1, <2>2 DEF Acts
<1> QED
  BY <1>1, <1>2, <1>3, <1>4

\* s_chunk_parameters: they are skipped.
LEMMA ChunkParametersActs ==
  ASSUME NEW p, NEW ch, Fit(p, 1), p.state = "s_chunk_parameters"
  PROVE  Acts(p, LAMBDA r, i : ChunkParameters(r, ch))
<1>0. p.state \in SizeStates /\ "s_chunk_size_almost_done" \in SizeStates
  BY DEF SizeStates
<1>1. CASE ch = CR
  <2>1. Acts(p, LAMBDA r, i : At(r, "s_chunk_size_almost_done"))
    BY <1>0, SizeMoves DEF Acts
  <2>2. \A r : ChunkParameters(r, ch) = At(r, "s_chunk_size_almost_done")
    BY <1>1 DEF ChunkParameters
  <2> QED
    BY <2>1, <2>2 DEF Acts
<1>2. CASE ch # CR
  <2>1. Acts(p, LAMBDA r, i : r)
    BY StayActs DEF Acts
  <2>2. \A r : ChunkParameters(r, ch) = r
    BY <1>2 DEF ChunkParameters
  <2> QED
    BY <2>1, <2>2 DEF Acts
<1> QED
  BY <1>1, <1>2

\* The line feed after a chunk's size: the chunk, or the trailer after the last.
LEMMA ChunkSizeAlmostDoneActs ==
  ASSUME NEW p, NEW ch, Fit(p, 1), p.state = "s_chunk_size_almost_done"
  PROVE  Acts(p, LAMBDA r, i : ChunkSizeAlmostDone(r, ch))
<1>0. /\ IsParser(p) /\ p.http_errno = "OK" /\ p.nread \in Nat /\ "CHUNKED" \in p.flags
      /\ p.content_length \in 0 .. ULLONG_MAX /\ p.content_length # ULLONG_MAX
  BY DEF Fit, InChunks, ChunkStates, SizeStates, Sized
<1>1. CASE ch # LF
  <2>1. Acts(p, LAMBDA r, i : Error(r))
    BY <1>0, ErrorActs DEF Acts
  <2>2. \A r : ChunkSizeAlmostDone(r, ch) = Error(r)
    BY <1>1 DEF ChunkSizeAlmostDone
  <2> QED
    BY <2>1, <2>2 DEF Acts
<1>2. CASE ch = LF /\ p.content_length = 0
  <2> DEFINE P == [p EXCEPT !.nread = 0, !.flags = @ \cup {"TRAILING"}, !.state = "s_header_field_start"]
  <2>1. \A r : Call(r, p) => ChunkSizeAlmostDone(r, ch) = [r EXCEPT !.p = P]
    BY <1>2 DEF ChunkSizeAlmostDone, Call
  <2>2. /\ IsParser(P) /\ P.upgrade = p.upgrade /\ P.state = "s_header_field_start" /\ P.http_errno = "OK"
        /\ P.nread = 0 /\ P.content_length = p.content_length
    BY <1>0 DEF IsParser
  <2> HIDE DEF P
  <2>3. Fit(P, 0)
    BY <1>0, <2>2, FitOutside DEF States, ChunkStates, SizeStates
  <2>4. \A m : Marked(m, p.state) => Marked(m, P.state)
    BY <2>2, BodyMarks DEF SizeStates
  <2> QED
    BY <1>0, <2>1, <2>2, <2>3, <2>4, MoveActs DEF Acts
<1>3. CASE ch = LF /\ p.content_length # 0
  <2> DEFINE P == [p EXCEPT !.nread = 0, !.state = "s_chunk_data"]
  <2>1. \A r : Call(r, p) => ChunkSizeAlmostDone(r, ch) = [r EXCEPT !.p = P]
    BY <1>3 DEF ChunkSizeAlmostDone, Call
  <2>2. /\ IsParser(P) /\ P.upgrade = p.upgrade /\ P.state = "s_chunk_data" /\ P.http_errno = "OK"
        /\ P.nread = 0 /\ P.content_length = p.content_length /\ P.flags = p.flags
    BY <1>0 DEF IsParser
  <2> HIDE DEF P
  <2>3. Fit(P, 0)
    BY <1>0, <1>3, <2>2 DEF Fit, Sized, InChunks, States, BodyStates, ChunkStates, SizeStates
  <2>4. \A m : Marked(m, p.state) => Marked(m, P.state)
    BY <2>2, BodyMarks DEF SizeStates
  <2> QED
    BY <1>0, <2>1, <2>2, <2>3, <2>4, MoveActs DEF Acts
<1> QED
  BY <1>1, <1>2, <1>3

\* s_chunk_data: a byte of a chunk.
LEMMA ChunkDataActs ==
  ASSUME NEW p, Fit(p, 0), p.state = "s_chunk_data"
  PROVE  Acts(p, LAMBDA r, i : ChunkData(r, i))
<1> DEFINE q == Fewer(p)
<1>1. /\ IsParser(q) /\ q.http_errno = "OK" /\ q.nread \in Nat /\ q.state = "s_chunk_data"
      /\ q.content_length \in 0 .. ULLONG_MAX /\ q.content_length # ULLONG_MAX
      /\ q.upgrade = p.upgrade /\ "CHUNKED" \in q.flags
  BY BodyLeft
<1>2. IsParser(p)
  BY DEF Fit
<1>3. ASSUME NEW r, NEW i, Call(r, p)
      PROVE  Opened(Counted(r, i), r, i, q)
  BY <1>3, BodyByte
<1>4. \A r, i : ChunkData(r, i) = IF Counted(r, i).p.content_length = 0 /\ ~ Counted(r, i).halted
                                  THEN At(Counted(r, i), "s_chunk_data_almost_done") ELSE Counted(r, i)
  BY Zenon DEF ChunkData, Counted
<1>5. \A m : Marked(m, p.state) => m \in {"none", "body"}
  BY BodyMarks
<1> HIDE DEF q
<1> DEFINE t == IF q.content_length = 0 THEN "s_chunk_data_almost_done" ELSE "s_chunk_data"
           P == IF q.content_length = 0 THEN [q EXCEPT !.state = t] ELSE q
<1>6. ASSUME NEW r, NEW i, Call(r, p)
      PROVE  Opened(ChunkData(r, i), r, i, P)
  <2> DEFINE b == Counted(r, i)
  <2>1. Opened(b, r, i, q) /\ ChunkData(r, i) = (IF b.p.content_length = 0 /\ ~ b.halted
                                  THEN At(b, "s_chunk_data_almost_done") ELSE b)
    BY <1>3, <1>4, <1>6
  <2> HIDE DEF b
  <2>2. CASE q.content_length = 0
    <3>1. ChunkData(r, i) = At(b, "s_chunk_data_almost_done")
      BY <2>1, <2>2 DEF Opened
    <3> QED
      BY <2>1, <2>2, <3>1 DEF Opened, At, IsRun
  <2>3. CASE q.content_length # 0
    <3>1. ChunkData(r, i) = b
      BY <2>1, <2>3 DEF Opened
    <3>2. P = q
      BY <2>3
    <3> HIDE DEF P
    <3> QED
      BY <2>1, <3>1, <3>2
  <2> QED
    BY <2>2, <2>3
<1>7. /\ t \in {"s_chunk_data_almost_done", "s_chunk_data"}
      /\ t = "s_chunk_data" <=> q.content_length # 0
  OBVIOUS
<1> HIDE DEF t
<1>8. /\ IsParser(P) /\ P.upgrade = p.upgrade /\ P.state = t /\ P.http_errno = "OK"
      /\ P.nread = q.nread /\ P.content_length = q.content_length /\ P.flags = q.flags
  BY <1>1, <1>7 DEF IsParser
<1> HIDE DEF P
<1>9. Fit(P, 0)
  BY <1>1, <1>7, <1>8 DEF Fit, Sized, InChunks, States, BodyStates, ChunkStates, SizeStates
<1>10. Marked("body", P.state)
  BY <1>7, <1>8, BodyMarks
<1>11. /\ Moves(p, P, FALSE, "body", "no", Silent, Silent)
       /\ \A r, i, s : /\ Call(r, p) /\ IsRun(s) /\ s.p = P /\ s.halted = FALSE /\ s.mark = "body"
                       /\ s.from = (IF r.mark = "body" THEN r.from ELSE i) /\ s.out = r.out
                       => Does(s, r, i, P, FALSE, "body", "no", Silent, Silent)
  BY <1>2, <1>5, <1>8, <1>9, <1>10, MarkDoes
<1>12. ASSUME NEW r, NEW i, Call(r, p)
       PROVE  Does(ChunkData(r, i), r, i, P, FALSE, "body", "no", Silent, Silent)
  <2> DEFINE b == ChunkData(r, i)
  <2>1. Opened(b, r, i, P)
    BY <1>6, <1>12
  <2> HIDE DEF b
  <2>2. Does(b, r, i, P, FALSE, "body", "no", Silent, Silent)
    BY <1>11, <1>12, <2>1 DEF Opened
  <2> QED
    BY <2>2 DEF b
<1> QED
  BY <1>11, <1>12 DEF Acts

\* The carriage return and the line feed after a chunk.
LEMMA ChunkDataAlmostDoneActs ==
  ASSUME NEW p, NEW ch, Fit(p, 0), p.state = "s_chunk_data_almost_done"
  PROVE  Acts(p, LAMBDA r, i : ChunkDataAlmostDone(r, i, ch))
<1>0. /\ IsParser(p) /\ p.http_errno = "OK" /\ p.nread \in Nat /\ "CHUNKED" \in p.flags
      /\ p.content_length \in 0 .. ULLONG_MAX
  BY DEF Fit, InChunks, ChunkStates, SizeStates, Sized
<1>1. CASE ch # CR
  <2>1. Acts(p, LAMBDA r, i : Error(r))
    BY <1>0, ErrorActs DEF Acts
  <2>2. \A r, i : ChunkDataAlmostDone(r, i, ch) = Error(r)
    BY <1>1 DEF ChunkDataAlmostDone
  <2> QED
    BY <2>1, <2>2 DEF Acts
<1>2. CASE ch = CR
  <2> DEFINE P == [p EXCEPT !.state = "s_chunk_data_done"]
  <2>1. \A r, i : Call(r, p) => ChunkDataAlmostDone(r, i, ch) = Cuts(r, P, "body", i)
    BY <1>2 DEF ChunkDataAlmostDone, At, Call, Cuts
  <2>2. /\ IsParser(P) /\ P.upgrade = p.upgrade /\ P.state = "s_chunk_data_done" /\ P.http_errno = "OK"
        /\ P.nread = p.nread /\ P.content_length = p.content_length /\ P.flags = p.flags
    BY <1>0 DEF IsParser
  <2> HIDE DEF P
  <2>3. Fit(P, 0)
    BY <1>0, <2>2 DEF Fit, Sized, InChunks, States, BodyStates, ChunkStates, SizeStates
  <2>4. \A m : Marked(m, p.state) => m \in {"none", "body"}
    BY BodyMarks
  <2>5. Marked("none", P.state)
    BY <2>2, BodyMarks
  <2>6. Acts(p, LAMBDA r, i : Cuts(r, P, "body", i))
    BY <1>0, <2>2, <2>3, <2>4, <2>5, CutActs DEF Acts
  <2> QED
    BY <2>1, <2>6 DEF Acts
<1> QED
  BY <1>1, <1>2

LEMMA ChunkDataDoneActs ==
  ASSUME NEW p, NEW ch, Fit(p, 0), p.state = "s_chunk_data_done"
  PROVE  Acts(p, LAMBDA r, i : ChunkDataDone(r, ch))
<1>0. /\ IsParser(p) /\ p.http_errno = "OK" /\ p.nread \in Nat /\ "CHUNKED" \in p.flags
      /\ p.content_length \in 0 .. ULLONG_MAX
  BY DEF Fit, InChunks, ChunkStates, SizeStates, Sized
<1>1. CASE ch # LF
  <2>1. Acts(p, LAMBDA r, i : Error(r))
    BY <1>0, ErrorActs DEF Acts
  <2>2. \A r : ChunkDataDone(r, ch) = Error(r)
    BY <1>1 DEF ChunkDataDone
  <2> QED
    BY <2>1, <2>2 DEF Acts
<1>2. CASE ch = LF
  <2> DEFINE P == [p EXCEPT !.nread = 0, !.state = "s_chunk_size_start"]
  <2>1. \A r : Call(r, p) => ChunkDataDone(r, ch) = [r EXCEPT !.p = P]
    BY <1>2 DEF ChunkDataDone, Call
  <2>2. /\ IsParser(P) /\ P.upgrade = p.upgrade /\ P.state = "s_chunk_size_start" /\ P.http_errno = "OK"
        /\ P.nread = 0 /\ P.content_length = p.content_length /\ P.flags = p.flags
    BY <1>0 DEF IsParser
  <2> HIDE DEF P
  <2>3. Fit(P, 0)
    BY <1>0, <2>2 DEF Fit, Sized, InChunks, States, BodyStates, ChunkStates, SizeStates
  <2>4. \A m : Marked(m, p.state) => Marked(m, P.state)
    BY <2>2, BodyMarks
  <2> QED
    BY <1>0, <2>1, <2>2, <2>3, <2>4, MoveActs DEF Acts
<1> QED
  BY <1>1, <1>2

\* s_dead: only line ends may follow.
LEMMA DeadActs ==
  ASSUME NEW p, NEW ch, Fit(p, 1), p.state = "s_dead"
  PROVE  Acts(p, LAMBDA r, i : IF ch \in {CR, LF} THEN r ELSE Error(r))
<1>1. CASE ch \in {CR, LF}
  <2>1. Acts(p, LAMBDA r, i : r)
    BY StayActs DEF Acts
  <2> QED
    BY <1>1, <2>1 DEF Acts
<1>2. CASE ch \notin {CR, LF}
  <2>1. Acts(p, LAMBDA r, i : Error(r))
    BY ErrorActs DEF Acts, Fit
  <2> QED
    BY <1>2, <2>1 DEF Acts
<1> QED
  BY <1>1, <1>2

-------------------------------------------------------------------------------
(* A byte, and a call. *)

\* The parser with one byte more of headers counted.
Counts(p) == IF p.state \in BodyStates THEN p ELSE [p EXCEPT !.nread = @ + 1]

\* The call with such a parser.
CountCall(r) == [r EXCEPT !.p = Counts(r.p)]

\* Outside bodies every byte acts.
LEMMA HeadActs ==
  ASSUME NEW p, NEW ch, Fit(p, 1), p.state \notin BodyStates
  PROVE  Acts(p, LAMBDA r, i : Handle(r, i, ch))
<1>0. p.state \in States
  BY DEF Fit
<1>1. CASE p.state = "s_dead"
  <2>1. Acts(p, LAMBDA r, i : IF ch \in {CR, LF} THEN r ELSE Error(r))
    BY <1>1, DeadActs DEF Acts
  <2>2. \A r, i : Call(r, p) => Handle(r, i, ch) = (IF ch \in {CR, LF} THEN r ELSE Error(r))
    BY <1>1 DEF Call, Handle, UrlStates
  <2> QED
    BY <2>1, <2>2 DEF Acts
<1>2. CASE p.state = "s_start_req"
  <2>1. Acts(p, LAMBDA r, i : StartReq(r, ch))
    BY <1>2, StartReqActs DEF Acts
  <2>2. \A r, i : Call(r, p) => Handle(r, i, ch) = StartReq(r, ch)
    BY <1>2 DEF Call, Handle, UrlStates
  <2> QED
    BY <2>1, <2>2 DEF Acts
<1>3. CASE p.state = "s_req_method"
  <2>1. Acts(p, LAMBDA r, i : ReqMethod(r, ch))
    BY <1>3, ReqMethodActs DEF Acts
  <2>2. \A r, i : Call(r, p) => Handle(r, i, ch) = ReqMethod(r, ch)
    BY <1>3 DEF Call, Handle, UrlStates
  <2> QED
    BY <2>1, <2>2 DEF Acts
<1>4. CASE p.state = "s_req_spaces_before_url"
  <2>1. Acts(p, LAMBDA r, i : SpacesBeforeUrl(r, i, ch))
    BY <1>4, SpacesBeforeUrlActs DEF Acts
  <2>2. \A r, i : Call(r, p) => Handle(r, i, ch) = SpacesBeforeUrl(r, i, ch)
    BY <1>4 DEF Call, Handle, UrlStates
  <2> QED
    BY <2>1, <2>2 DEF Acts
<1>5. CASE p.state \in UrlStates
  <2>1. Acts(p, LAMBDA r, i : Url(r, i, ch))
    BY <1>5, UrlActs DEF Acts
  <2>2. \A r, i : Call(r, p) => Handle(r, i, ch) = Url(r, i, ch)
    BY <1>5 DEF Call, Handle, UrlStates
  <2> QED
    BY <2>1, <2>2 DEF Acts
<1>6. CASE p.state = "s_req_http_start"
  <2>1. Acts(p, LAMBDA r, i : HttpStart(r, ch))
    BY <1>6, HttpStartActs DEF Acts
  <2>2. \A r, i : Call(r, p) => Handle(r, i, ch) = HttpStart(r, ch)
    BY <1>6 DEF Call, Handle, UrlStates
  <2> QED
    BY <2>1, <2>2 DEF Acts
<1>7. CASE p.state \in {"s_req_first_http_major", "s_req_http_major"}
  <2>1. Acts(p, LAMBDA r, i : HttpMajor(r, ch))
    BY <1>7, HttpMajorActs DEF Acts
  <2>2. \A r, i : Call(r, p) => Handle(r, i, ch) = HttpMajor(r, ch)
    BY <1>7 DEF Call, Handle, UrlStates
  <2> QED
    BY <2>1, <2>2 DEF Acts
<1>8. CASE p.state \in {"s_req_first_http_minor", "s_req_http_minor"}
  <2>1. Acts(p, LAMBDA r, i : HttpMinor(r, ch))
    BY <1>8, HttpMinorActs DEF Acts
  <2>2. \A r, i : Call(r, p) => Handle(r, i, ch) = HttpMinor(r, ch)
    BY <1>8 DEF Call, Handle, UrlStates
  <2> QED
    BY <2>1, <2>2 DEF Acts
<1>9. CASE p.state = "s_req_line_almost_done"
  <2>1. Acts(p, LAMBDA r, i : ReqLineAlmostDone(r, ch))
    BY <1>9, ReqLineAlmostDoneActs DEF Acts
  <2>2. \A r, i : Call(r, p) => Handle(r, i, ch) = ReqLineAlmostDone(r, ch)
    BY <1>9 DEF Call, Handle, UrlStates
  <2> QED
    BY <2>1, <2>2 DEF Acts
<1>10. CASE p.state = "s_header_field_start"
  <2>1. Acts(p, LAMBDA r, i : HeaderFieldStart(r, i, ch))
    BY <1>10, HeaderFieldStartActs DEF Acts
  <2>2. \A r, i : Call(r, p) => Handle(r, i, ch) = HeaderFieldStart(r, i, ch)
    BY <1>10 DEF Call, Handle, UrlStates
  <2> QED
    BY <2>1, <2>2 DEF Acts
<1>11. CASE p.state = "s_header_field"
  <2>1. Acts(p, LAMBDA r, i : HeaderField(r, i, ch))
    BY <1>11, HeaderFieldActs DEF Acts
  <2>2. \A r, i : Call(r, p) => Handle(r, i, ch) = HeaderField(r, i, ch)
    BY <1>11 DEF Call, Handle, UrlStates
  <2> QED
    BY <2>1, <2>2 DEF Acts
<1>12. CASE p.state = "s_header_value_start"
  <2>1. Acts(p, LAMBDA r, i : HeaderValueStart(r, i, ch))
    BY <1>12, HeaderValueStartActs DEF Acts
  <2>2. \A r, i : Call(r, p) => Handle(r, i, ch) = HeaderValueStart(r, i, ch)
    BY <1>12 DEF Call, Handle, UrlStates
  <2> QED
    BY <2>1, <2>2 DEF Acts
<1>13. CASE p.state = "s_header_value"
  <2>1. Acts(p, LAMBDA r, i : HeaderValue(r, i, ch))
    BY <1>13, HeaderValueActs DEF Acts
  <2>2. \A r, i : Call(r, p) => Handle(r, i, ch) = HeaderValue(r, i, ch)
    BY <1>13 DEF Call, Handle, UrlStates
  <2> QED
    BY <2>1, <2>2 DEF Acts
<1>14. CASE p.state = "s_header_almost_done"
  <2>1. Acts(p, LAMBDA r, i : HeaderAlmostDone(r, ch))
    BY <1>14, HeaderAlmostDoneActs DEF Acts
  <2>2. \A r, i : Call(r, p) => Handle(r, i, ch) = HeaderAlmostDone(r, ch)
    BY <1>14 DEF Call, Handle, UrlStates
  <2> QED
    BY <2>1, <2>2 DEF Acts
<1>15. CASE p.state = "s_header_value_lws"
  <2>1. Acts(p, LAMBDA r, i : HeaderValueLws(r, i, ch))
    BY <1>15, HeaderValueLwsActs DEF Acts
  <2>2. \A r, i : Call(r, p) => Handle(r, i, ch) = HeaderValueLws(r, i, ch)
    BY <1>15 DEF Call, Handle, UrlStates
  <2> QED
    BY <2>1, <2>2 DEF Acts
<1>16. CASE p.state = "s_headers_almost_done"
  <2>1. Acts(p, LAMBDA r, i : HeadersAlmostDone(r, ch))
    BY <1>16, HeadersAlmostDoneActs DEF Acts
  <2>2. \A r, i : Call(r, p) => Handle(r, i, ch) = HeadersAlmostDone(r, ch)
    BY <1>16 DEF Call, Handle, UrlStates
  <2> QED
    BY <2>1, <2>2 DEF Acts
<1>17. CASE p.state = "s_chunk_size_start"
  <2>1. Acts(p, LAMBDA r, i : ChunkSizeStart(r, ch))
    BY <1>17, ChunkSizeStartActs DEF Acts
  <2>2. \A r, i : Call(r, p) => Handle(r, i, ch) = ChunkSizeStart(r, ch)
    BY <1>17 DEF Call, Handle, UrlStates
  <2> QED
    BY <2>1, <2>2 DEF Acts
<1>18. CASE p.state = "s_chunk_size"
  <2>1. Acts(p, LAMBDA r, i : ChunkSize(r, ch))
    BY <1>18, ChunkSizeActs DEF Acts
  <2>2. \A r, i : Call(r, p) => Handle(r, i, ch) = ChunkSize(r, ch)
    BY <1>18 DEF Call, Handle, UrlStates
  <2> QED
    BY <2>1, <2>2 DEF Acts
<1>19. CASE p.state = "s_chunk_parameters"
  <2>1. Acts(p, LAMBDA r, i : ChunkParameters(r, ch))
    BY <1>19, ChunkParametersActs DEF Acts
  <2>2. \A r, i : Call(r, p) => Handle(r, i, ch) = ChunkParameters(r, ch)
    BY <1>19 DEF Call, Handle, UrlStates
  <2> QED
    BY <2>1, <2>2 DEF Acts
<1>20. CASE p.state = "s_chunk_size_almost_done"
  <2>1. Acts(p, LAMBDA r, i : ChunkSizeAlmostDone(r, ch))
    BY <1>20, ChunkSizeAlmostDoneActs DEF Acts
  <2>2. \A r, i : Call(r, p) => Handle(r, i, ch) = ChunkSizeAlmostDone(r, ch)
    BY <1>20 DEF Call, Handle, UrlStates
  <2> QED
    BY <2>1, <2>2 DEF Acts
<1> QED
  BY <1>0, <1>1, <1>2, <1>3, <1>4, <1>5, <1>6, <1>7, <1>8, <1>9, <1>10, <1>11, <1>12, <1>13, <1>14, <1>15, <1>16, <1>17, <1>18, <1>19, <1>20
     DEF States

\* In bodies too.
LEMMA BodyActs ==
  ASSUME NEW p, NEW ch, Fit(p, 0), p.state \in BodyStates
  PROVE  Acts(p, LAMBDA r, i : Handle(r, i, ch))
<1>0. p.state \in States
  BY DEF Fit
<1>1. CASE p.state = "s_body_identity"
  <2>1. Acts(p, LAMBDA r, i : BodyIdentity(r, i))
    BY <1>1, BodyIdentityActs DEF Acts
  <2>2. \A r, i : Call(r, p) => Handle(r, i, ch) = BodyIdentity(r, i)
    BY <1>1 DEF Call, Handle, UrlStates
  <2> QED
    BY <2>1, <2>2 DEF Acts
<1>2. CASE p.state = "s_chunk_data"
  <2>1. Acts(p, LAMBDA r, i : ChunkData(r, i))
    BY <1>2, ChunkDataActs DEF Acts
  <2>2. \A r, i : Call(r, p) => Handle(r, i, ch) = ChunkData(r, i)
    BY <1>2 DEF Call, Handle, UrlStates
  <2> QED
    BY <2>1, <2>2 DEF Acts
<1>3. CASE p.state = "s_chunk_data_almost_done"
  <2>1. Acts(p, LAMBDA r, i : ChunkDataAlmostDone(r, i, ch))
    BY <1>3, ChunkDataAlmostDoneActs DEF Acts
  <2>2. \A r, i : Call(r, p) => Handle(r, i, ch) = ChunkDataAlmostDone(r, i, ch)
    BY <1>3 DEF Call, Handle, UrlStates
  <2> QED
    BY <2>1, <2>2 DEF Acts
<1>4. CASE p.state = "s_chunk_data_done"
  <2>1. Acts(p, LAMBDA r, i : ChunkDataDone(r, ch))
    BY <1>4, ChunkDataDoneActs DEF Acts
  <2>2. \A r, i : Call(r, p) => Handle(r, i, ch) = ChunkDataDone(r, ch)
    BY <1>4 DEF Call, Handle, UrlStates
  <2> QED
    BY <2>1, <2>2 DEF Acts
<1> QED
  BY <1>1, <1>2, <1>3, <1>4 DEF BodyStates

\* Every byte acts in the same way in every call that has the same parser in hand.
LEMMA ByteActs ==
  ASSUME NEW p, NEW ch, Fit(p, 0)
  PROVE  Acts(p, LAMBDA r, i : Byte(r, i, ch))
<1>0. IsParser(p) /\ p.nread \in Nat
  BY DEF Fit
<1>1. CASE p.state \in BodyStates /\ p.nread > HTTP_MAX_HEADER_SIZE
  <2>1. Acts(p, LAMBDA r, i : Error(r))
    BY <1>0, ErrorActs DEF Acts
  <2>2. \A r, i : Call(r, p) => Byte(r, i, ch) = Error(r)
    BY <1>1 DEF Byte, Call
  <2> QED
    BY <2>1, <2>2 DEF Acts
<1>2. CASE p.state \in BodyStates /\ ~ (p.nread > HTTP_MAX_HEADER_SIZE)
  <2>1. Acts(p, LAMBDA r, i : Handle(r, i, ch))
    BY <1>2, BodyActs DEF Acts
  <2>2. \A r, i : Call(r, p) => Byte(r, i, ch) = Handle(r, i, ch)
    BY <1>2 DEF Byte, Call
  <2> QED
    BY <2>1, <2>2 DEF Acts
<1>3. CASE p.state \notin BodyStates
  <2> DEFINE q == Counts(p)
  <2>1. /\ IsParser(q) /\ q.state = p.state /\ q.http_errno = p.http_errno /\ q.flags = p.flags
        /\ q.content_length = p.content_length /\ q.upgrade = p.upgrade /\ q.nread = p.nread + 1
    BY <1>0, <1>3 DEF Counts, IsParser
  <2>2. Fit(q, 1)
    <3>1. /\ p.http_errno = "OK" /\ p.state \in States /\ Sized(p) /\ InChunks(p, 0)
      BY DEF Fit
    <3> HIDE DEF q
    <3>2. Sized(q)
      BY <2>1, <3>1 DEF Sized
    <3>3. InChunks(q, 1)
      BY <1>0, <2>1, <3>1 DEF InChunks
    <3> QED
      BY <1>0, <2>1, <3>1, <3>2, <3>3 DEF Fit
  <2>3. ASSUME NEW r, NEW i, Call(r, p)
        PROVE  LET c == CountCall(r)
               IN  /\ Call(c, q) /\ c.mark = r.mark /\ c.from = r.from /\ c.out = r.out
                   /\ Byte(r, i, ch) = IF q.nread > HTTP_MAX_HEADER_SIZE THEN Error(c) ELSE Handle(c, i, ch)
    <3> DEFINE c == CountCall(r)
    <3>1. c = [r EXCEPT !.p.nread = @ + 1] /\ c.p = q /\ c.mark = r.mark /\ c.from = r.from
          /\ c.out = r.out /\ IsRun(c) /\ ~ c.halted
      BY <1>3, <2>3 DEF CountCall, Counts, Call, IsRun
    <3>2. Call(c, q)
      <4> HIDE DEF c, q
      <4> QED
        BY <2>1, <2>3, <3>1 DEF Call
    <3>3. Byte(r, i, ch) = IF q.nread > HTTP_MAX_HEADER_SIZE THEN Error(c) ELSE Handle(c, i, ch)
      <4> HIDE DEF c, q
      <4> QED
        BY <1>3, <2>3, <3>1 DEF Byte, Call
    <3> QED
      BY <3>1, <3>2, <3>3
  <2>4. \A r, i, s, P, h, o, end, a, b :
          Call(r, p) /\ Does(s, CountCall(r), i, P, h, o, end, a, b) => Does(s, r, i, P, h, o, end, a, b)
    BY <2>3 DEF Does, Speaks
  <2>5. \A P, h, o, end, a, b : Moves(q, P, h, o, end, a, b) => Moves(p, P, h, o, end, a, b)
    BY <2>1 DEF Moves
  <2> HIDE DEF q
  <2>6. CASE q.nread > HTTP_MAX_HEADER_SIZE
    <3>1. Acts(q, LAMBDA r, i : Error(r))
      BY <2>1, ErrorActs DEF Acts
    <3>2. \A r, i : Call(r, p) => Byte(r, i, ch) = Error(CountCall(r)) /\ Call(CountCall(r), q)
      BY <2>3, <2>6
    <3> QED
      BY <2>4, <2>5, <3>1, <3>2 DEF Acts
  <2>7. CASE ~ (q.nread > HTTP_MAX_HEADER_SIZE)
    <3>1. Acts(q, LAMBDA r, i : Handle(r, i, ch))
      BY <1>3, <2>1, <2>2, HeadActs DEF Acts
    <3>2. \A r, i : Call(r, p) => Byte(r, i, ch) = Handle(CountCall(r), i, ch) /\ Call(CountCall(r), q)
      BY <2>3, <2>7
    <3> QED
      BY <2>4, <2>5, <3>1, <3>2 DEF Acts
  <2> QED
    BY <2>6, <2>7
<1> QED
  BY <1>1, <1>2, <1>3

-------------------------------------------------------------------------------
(* What is heard. *)

Char   == STRING
Bytes  == Seq(Char)
Marks  == {"url", "header_field", "header_value", "body"}
Labels == Marks \cup {"message_begin", "message_complete", "headers_complete"}
Items  == Labels \X Bytes
Heard  == Seq(Items)

\* The last of a sequence, and the rest.
LEMMA LastAndFront ==
  ASSUME NEW S, NEW h \in Seq(S), h # <<>>
  PROVE  Front(h) \in Seq(S) /\ Last(h) \in S /\ h = Append(Front(h), Last(h))
BY DEF Front, Last

\* What is appended is the last.
LEMMA AppendLast ==
  ASSUME NEW S, NEW h \in Seq(S), NEW e \in S
  PROVE  /\ Append(h, e) \in Seq(S) /\ Append(h, e) # <<>>
         /\ Last(Append(h, e)) = e /\ Front(Append(h, e)) = h
BY DEF Front, Last

\* The last thing heard is of the kind just put, and a piece put after it joins it.
LEMMA PutForm ==
  ASSUME NEW h \in Heard, NEW cb \in Labels, NEW a \in Bytes
  PROVE  /\ Put(h, cb, a) \in Heard /\ Put(h, cb, a) # <<>> /\ Last(Put(h, cb, a))[1] = cb
         /\ \A b \in Bytes : Put(Put(h, cb, a), cb, b) = Put(h, cb, a \o b)
         /\ h # <<>> /\ Last(h)[1] = cb => Put(h, cb, <<>>) = h
<1>b. ASSUME NEW x \in Bytes, NEW y \in Bytes, NEW z \in Bytes
      PROVE  /\ x \o y \in Bytes /\ x \o <<>> = x /\ (x \o y) \o z = x \o (y \o z)
             /\ <<>> \in Bytes
  BY DEF Bytes
<1>1. CASE h # <<>> /\ Last(h)[1] = cb
  <2> DEFINE f == Front(h)
             t == Last(h)[2]
  <2>1. f \in Seq(Items) /\ Last(h) \in Items /\ h = Append(f, Last(h))
    BY <1>1, LastAndFront DEF Heard
  <2>2. t \in Bytes /\ Last(h) = <<cb, t>>
    BY <1>1, <2>1 DEF Items
  <2>3. \A x \in Bytes : Put(h, cb, x) = Append(f, <<cb, t \o x>>)
    BY <1>1 DEF Put
  <2> HIDE DEF f, t
  <2>4. ASSUME NEW x \in Bytes
        PROVE  LET k == Append(f, <<cb, x>>)
               IN  k \in Heard /\ k # <<>> /\ Last(k) = <<cb, x>> /\ Front(k) = f
    <3>1. <<cb, x>> \in Items
      BY DEF Items
    <3> QED
      BY <2>1, <3>1, AppendLast DEF Heard
  <2>5. Put(h, cb, a) = Append(f, <<cb, t \o a>>) /\ t \o a \in Bytes
    BY <1>b, <2>2, <2>3
  <2>6. Put(h, cb, a) \in Heard /\ Put(h, cb, a) # <<>> /\ Last(Put(h, cb, a)) = <<cb, t \o a>>
        /\ Front(Put(h, cb, a)) = f
    BY <2>4, <2>5
  <2>7. ASSUME NEW b \in Bytes PROVE Put(Put(h, cb, a), cb, b) = Put(h, cb, a \o b)
    <3> DEFINE k == Put(h, cb, a)
    <3>1. Put(h, cb, a \o b) = Append(f, <<cb, t \o (a \o b)>>)
      BY <1>b, <2>3
    <3>2. k # <<>> /\ Last(k)[1] = cb /\ Last(k)[2] = t \o a /\ Front(k) = f
      BY <2>6
    <3>3. Put(k, cb, b) = Append(f, <<cb, (t \o a) \o b>>)
      <4> HIDE DEF k
      <4> QED
        BY <3>2 DEF Put
    <3>4. (t \o a) \o b = t \o (a \o b)
      BY <2>2, Assoc DEF Regroups, Bytes
    <3> QED
      BY <3>1, <3>3, <3>4
  <2>8. Put(h, cb, <<>>) = h
    <3>1. <<>> \in Bytes /\ t \o <<>> = t
      BY <1>b, <2>2
    <3>2. Put(h, cb, <<>>) = Append(f, <<cb, t>>)
      BY <2>3, <3>1
    <3> QED
      BY <2>1, <2>2, <3>2
  <2> QED
    BY <2>6, <2>7, <2>8
<1>2. CASE ~ (h # <<>> /\ Last(h)[1] = cb)
  <2>1. \A x \in Bytes : Put(h, cb, x) = Append(h, <<cb, x>>)
    BY <1>2 DEF Put
  <2>2. ASSUME NEW x \in Bytes
        PROVE  LET k == Append(h, <<cb, x>>)
               IN  k \in Heard /\ k # <<>> /\ Last(k) = <<cb, x>> /\ Front(k) = h
    <3>1. <<cb, x>> \in Items
      BY DEF Items
    <3> QED
      BY <3>1, AppendLast DEF Heard
  <2>3. Put(h, cb, a) \in Heard /\ Put(h, cb, a) # <<>> /\ Last(Put(h, cb, a)) = <<cb, a>>
        /\ Front(Put(h, cb, a)) = h
    BY <2>1, <2>2
  <2>4. ASSUME NEW b \in Bytes PROVE Put(Put(h, cb, a), cb, b) = Put(h, cb, a \o b)
    <3> DEFINE k == Put(h, cb, a)
    <3>1. Put(h, cb, a \o b) = Append(h, <<cb, a \o b>>)
      BY <1>b, <2>1
    <3>2. k # <<>> /\ Last(k)[1] = cb /\ Last(k)[2] = a /\ Front(k) = h
      BY <2>3
    <3>3. Put(k, cb, b) = Append(h, <<cb, a \o b>>)
      <4> HIDE DEF k
      <4> QED
        BY <3>2 DEF Put
    <3> QED
      BY <3>1, <3>3
  <2> QED
    BY <1>2, <2>3, <2>4
<1> QED
  BY <1>1, <1>2

\* Hear goes through the callbacks one by one.
Steps(f, before, data, out) ==
  /\ f[0] = before
  /\ \A i \in 1 .. Len(out) : f[i] = Put(f[i - 1], out[i].cb, Said(data, out[i]))

LEMMA HearSteps ==
  ASSUME NEW before, NEW data, NEW out, Len(out) \in Nat
  PROVE  \E f : Steps(f, before, data, out) /\ Hear(before, data, out) = f[Len(out)]
<1> DEFINE m == Len(out)
           next(i, x) == Put(x, out[i].cb, Said(data, out[i]))
           F == CHOOSE h : h = [i \in 0 .. m |-> IF i = 0 THEN before ELSE next(i, h[i - 1])]
           Good(n, g) == g[0] = before /\ \A i \in 1 .. n : g[i] = next(i, g[i - 1])
           U == {n \in Nat : \E g : Good(n, g)}
<1>1. Hear(before, data, out) = F[m]
  BY DEF Hear
<1>2. m \in Nat
  OBVIOUS
<1> HIDE DEF m, F, next
<1>3. 0 \in U
  <2> DEFINE g == [i \in 0 .. 0 |-> before]
  <2>1. Good(0, g)
    OBVIOUS
  <2> QED
    BY <2>1
<1>4. ASSUME NEW n \in Nat, n \in U PROVE n + 1 \in U
  <2>1. PICK g : Good(n, g)
    BY <1>4
  <2> DEFINE k == [i \in 0 .. n + 1 |-> IF i = n + 1 THEN next(n + 1, g[n]) ELSE g[i]]
  <2>2. k[n + 1] = next(n + 1, g[n]) /\ k[n] = g[n] /\ k[0] = g[0]
    OBVIOUS
  <2>3. ASSUME NEW i \in 1 .. n + 1 PROVE k[i] = next(i, k[i - 1])
    <3>1. CASE i = n + 1
      <4>1. i - 1 = n
        BY <3>1
      <4> HIDE DEF k
      <4> QED
        BY <2>2, <3>1, <4>1
    <3>2. CASE i # n + 1
      <4>1. i \in 1 .. n /\ i - 1 \in 0 .. n /\ i \in 0 .. n + 1 /\ i - 1 \in 0 .. n + 1 /\ i - 1 # n + 1
        BY <3>2
      <4>2. k[i] = g[i] /\ k[i - 1] = g[i - 1]
        BY <3>2, <4>1
      <4>3. g[i] = next(i, g[i - 1])
        BY <2>1, <4>1
      <4> HIDE DEF k
      <4> QED
        BY <4>2, <4>3
    <3> QED
      BY <3>1, <3>2
  <2> HIDE DEF k
  <2>4. Good(n + 1, k)
    BY <2>1, <2>2, <2>3
  <2> QED
    BY <2>4
<1> HIDE DEF U
<1>5. m \in U
  BY <1>2, <1>3, <1>4, SetInduction
<1>6. PICK g : Good(m, g)
  BY <1>5 DEF U
<1> DEFINE f == [i \in 0 .. m |-> g[i]]
<1>7. ASSUME NEW i \in 0 .. m PROVE f[i] = IF i = 0 THEN before ELSE next(i, f[i - 1])
  <2>1. CASE i = 0
    BY <1>2, <1>6, <2>1
  <2>2. CASE i # 0
    <3>1. i \in 1 .. m /\ i - 1 \in 0 .. m
      BY <1>2, <2>2
    <3>2. f[i] = g[i] /\ f[i - 1] = g[i - 1]
      BY <3>1
    <3> HIDE DEF f
    <3> QED
      BY <1>6, <2>2, <3>1, <3>2
  <2> QED
    BY <2>1, <2>2
<1>8. f = [i \in 0 .. m |-> IF i = 0 THEN before ELSE next(i, f[i - 1])]
  <2>1. f = [i \in 0 .. m |-> f[i]]
    OBVIOUS
  <2> HIDE DEF f
  <2> QED
    BY <1>7, <2>1
<1> HIDE DEF f
<1>9. F = [i \in 0 .. m |-> IF i = 0 THEN before ELSE next(i, F[i - 1])]
  BY <1>8 DEF F
<1>10. F[0] = before /\ \A i \in 1 .. m : F[i] = next(i, F[i - 1])
  <2>1. 0 \in 0 .. m /\ \A i \in 1 .. m : i \in 0 .. m /\ i # 0
    BY <1>2
  <2>2. \A i \in 0 .. m : F[i] = IF i = 0 THEN before ELSE next(i, F[i - 1])
    BY <1>9
  <2> QED
    BY <2>1, <2>2
<1>11. Steps(F, before, data, out)
  BY <1>10 DEF Steps, m, next
<1> QED
  BY <1>1, <1>11 DEF m

\* One callback more.
LEMMA HearAppend ==
  ASSUME NEW before, NEW data, NEW E, NEW out \in Seq(E), NEW e \in E
  PROVE  /\ Hear(before, data, <<>>) = before
         /\ Hear(before, data, Append(out, e)) = Put(Hear(before, data, out), e.cb, Said(data, e))
<1> DEFINE m == Len(out)
           q == Append(out, e)
<1>0. m \in Nat /\ Len(q) = m + 1 /\ q[m + 1] = e /\ \A i \in 1 .. m : q[i] = out[i]
  OBVIOUS
<1>1. Hear(before, data, <<>>) = before
  <2>1. Len(<<>>) = 0
    OBVIOUS
  <2>2. PICK f : Steps(f, before, data, <<>>) /\ Hear(before, data, <<>>) = f[Len(<<>>)]
    BY <2>1, HearSteps
  <2> QED
    BY <2>1, <2>2 DEF Steps
<1> HIDE DEF q
<1>2. PICK f : Steps(f, before, data, q) /\ Hear(before, data, q) = f[Len(q)]
  BY <1>0, HearSteps
<1>3. PICK g : Steps(g, before, data, out) /\ Hear(before, data, out) = g[m]
  BY <1>0, HearSteps
<1> DEFINE U == {n \in Nat : n <= m => f[n] = g[n]}
<1>4. 0 \in U
  BY <1>2, <1>3 DEF Steps
<1>5. ASSUME NEW n \in Nat, n \in U PROVE n + 1 \in U
  <2> SUFFICES ASSUME n + 1 <= m PROVE f[n + 1] = g[n + 1]
    OBVIOUS
  <2>1. n + 1 \in 1 .. m /\ n + 1 \in 1 .. Len(q) /\ (n + 1) - 1 = n /\ n <= m
    BY <1>0
  <2>2. f[n] = g[n] /\ q[n + 1] = out[n + 1]
    BY <1>0, <1>5, <2>1
  <2>3. f[n + 1] = Put(f[n], q[n + 1].cb, Said(data, q[n + 1]))
    BY <1>2, <2>1 DEF Steps
  <2>4. g[n + 1] = Put(g[n], out[n + 1].cb, Said(data, out[n + 1]))
    BY <1>3, <2>1 DEF Steps
  <2> QED
    BY <2>2, <2>3, <2>4
<1> HIDE DEF U
<1>6. m \in U
  BY <1>0, <1>4, <1>5, SetInduction
<1>7. f[m] = g[m]
  BY <1>0, <1>6 DEF U
<1>8. f[m + 1] = Put(f[m], e.cb, Said(data, e))
  <2>1. m + 1 \in 1 .. Len(q) /\ (m + 1) - 1 = m
    BY <1>0
  <2>2. f[m + 1] = Put(f[(m + 1) - 1], q[m + 1].cb, Said(data, q[m + 1]))
    BY <1>2, <2>1 DEF Steps
  <2> QED
    BY <1>0, <2>1, <2>2
<1> QED
  BY <1>0, <1>1, <1>2, <1>3, <1>7, <1>8 DEF q

\* A call takes the bytes one by one.
Runs(f, parser, data) ==
  /\ f[0] = Begin(parser)
  /\ \A i \in 1 .. Len(data) : f[i] = TakeByte(f[i - 1], i, data[i])

LEMMA RunSteps ==
  ASSUME NEW parser, NEW data, Len(data) \in Nat
  PROVE  \E f : /\ Runs(f, parser, data)
                /\ http_parser_execute(parser, data) = End(f[Len(data)], Len(data))
<1> DEFINE m == Len(data)
           base == Begin(parser)
           next(i, x) == TakeByte(x, i, data[i])
           F == CHOOSE h : h = [i \in 0 .. m |-> IF i = 0 THEN base ELSE next(i, h[i - 1])]
           Good(n, g) == g[0] = base /\ \A i \in 1 .. n : g[i] = next(i, g[i - 1])
           U == {n \in Nat : \E g : Good(n, g)}
<1>1. http_parser_execute(parser, data) = End(F[m], m)
  BY DEF http_parser_execute
<1>2. m \in Nat
  OBVIOUS
<1> HIDE DEF m, F, next, base
<1>3. 0 \in U
  <2> DEFINE g == [i \in 0 .. 0 |-> base]
  <2>1. Good(0, g)
    OBVIOUS
  <2> QED
    BY <2>1
<1>4. ASSUME NEW n \in Nat, n \in U PROVE n + 1 \in U
  <2>1. PICK g : Good(n, g)
    BY <1>4
  <2> DEFINE k == [i \in 0 .. n + 1 |-> IF i = n + 1 THEN next(n + 1, g[n]) ELSE g[i]]
  <2>2. k[n + 1] = next(n + 1, g[n]) /\ k[n] = g[n] /\ k[0] = g[0]
    OBVIOUS
  <2>3. ASSUME NEW i \in 1 .. n + 1 PROVE k[i] = next(i, k[i - 1])
    <3>1. CASE i = n + 1
      <4>1. i - 1 = n
        BY <3>1
      <4> HIDE DEF k
      <4> QED
        BY <2>2, <3>1, <4>1
    <3>2. CASE i # n + 1
      <4>1. i \in 1 .. n /\ i - 1 \in 0 .. n /\ i \in 0 .. n + 1 /\ i - 1 \in 0 .. n + 1 /\ i - 1 # n + 1
        BY <3>2
      <4>2. k[i] = g[i] /\ k[i - 1] = g[i - 1]
        BY <3>2, <4>1
      <4>3. g[i] = next(i, g[i - 1])
        BY <2>1, <4>1
      <4> HIDE DEF k
      <4> QED
        BY <4>2, <4>3
    <3> QED
      BY <3>1, <3>2
  <2> HIDE DEF k
  <2>4. Good(n + 1, k)
    BY <2>1, <2>2, <2>3
  <2> QED
    BY <2>4
<1> HIDE DEF U
<1>5. m \in U
  BY <1>2, <1>3, <1>4, SetInduction
<1>6. PICK g : Good(m, g)
  BY <1>5 DEF U
<1> DEFINE f == [i \in 0 .. m |-> g[i]]
<1>7. ASSUME NEW i \in 0 .. m PROVE f[i] = IF i = 0 THEN base ELSE next(i, f[i - 1])
  <2>1. CASE i = 0
    BY <1>2, <1>6, <2>1
  <2>2. CASE i # 0
    <3>1. i \in 1 .. m /\ i - 1 \in 0 .. m
      BY <1>2, <2>2
    <3>2. f[i] = g[i] /\ f[i - 1] = g[i - 1]
      BY <3>1
    <3> HIDE DEF f
    <3> QED
      BY <1>6, <2>2, <3>1, <3>2
  <2> QED
    BY <2>1, <2>2
<1>8. f = [i \in 0 .. m |-> IF i = 0 THEN base ELSE next(i, f[i - 1])]
  <2>1. f = [i \in 0 .. m |-> f[i]]
    OBVIOUS
  <2> HIDE DEF f
  <2> QED
    BY <1>7, <2>1
<1> HIDE DEF f
<1>9. F = [i \in 0 .. m |-> IF i = 0 THEN base ELSE next(i, F[i - 1])]
  BY <1>8 DEF F
<1>10. F[0] = base /\ \A i \in 1 .. m : F[i] = next(i, F[i - 1])
  <2>1. 0 \in 0 .. m /\ \A i \in 1 .. m : i \in 0 .. m /\ i # 0
    BY <1>2
  <2>2. \A i \in 0 .. m : F[i] = IF i = 0 THEN base ELSE next(i, F[i - 1])
    BY <1>9
  <2> QED
    BY <2>1, <2>2
<1>11. Runs(F, parser, data)
  BY <1>10 DEF Runs, m, next, base
<1> QED
  BY <1>1, <1>11 DEF m

-------------------------------------------------------------------------------
(* What a call has told so far. *)

Events == Notes \cup [cb : Marks, from : Nat, to : Nat]

\* With the piece that is open: it has come to byte i.
Told(h, data, r, i) ==
  IF r.mark = "none" THEN Hear(h, data, r.out)
  ELSE Put(Hear(h, data, r.out), r.mark, SubSeq(data, r.from, i))

\* A call that goes on, after byte i.
Sound(h, data, r, i) ==
  /\ Call(r, r.p) /\ Fit(r.p, 0)
  /\ r.out \in Seq(Events) /\ r.from \in 1 .. i + 1
  /\ Hear(h, data, r.out) \in Heard

\* What a call without data adds.
NotePut(t, a) == IF a = Silent THEN t ELSE Put(t, a.cb, <<>>)

\* What a byte adds to what was told: nothing of it depends on how the call began.
Grown(t, m, o, end, ch) ==
  IF o = "none" THEN IF end = "no" /\ m # "none" THEN Put(t, m, <<ch>>) ELSE t
  ELSE Put(t, o, IF end = "before" THEN <<>> ELSE <<ch>>)

After(t, m, o, end, a, b, ch) == NotePut(NotePut(Grown(t, m, o, end, ch), a), b)

\* The text of a callback.
LEMMA SaidIs ==
  ASSUME NEW data
  PROVE  /\ \A a \in Notes : Said(data, a) = <<>>
         /\ \A m, f, t : Said(data, [cb |-> m, from |-> f, to |-> t]) = SubSeq(data, f, t)
<1>1. ASSUME NEW a \in Notes PROVE Said(data, a) = <<>>
  <2>1. "from" \notin DOMAIN a
    BY DEF Notes, Silent
  <2> QED
    BY <2>1 DEF Said
<1>2. ASSUME NEW m, NEW f, NEW t
      PROVE  Said(data, [cb |-> m, from |-> f, to |-> t]) = SubSeq(data, f, t)
  BY DEF Said, Text
<1> QED
  BY <1>1, <1>2

\* The marks a state may have.
LEMMA MarksAre ==
  ASSUME NEW m, NEW s, Marked(m, s)
  PROVE  m \in Marks \cup {"none"}
BY MarkIs DEF Marked, Marks

\* Stretches of the data.
LEMMA Stretches ==
  ASSUME NEW data \in Bytes, NEW i \in 1 .. Len(data)
  PROVE  /\ data[i] \in Char /\ <<data[i]>> \in Bytes /\ <<>> \in Bytes
         /\ SubSeq(data, i, i) = <<data[i]>> /\ SubSeq(data, i, i - 1) = <<>>
         /\ \A f \in 1 .. i : /\ SubSeq(data, f, i - 1) \in Bytes
                              /\ SubSeq(data, f, i - 1) \o <<data[i]>> = SubSeq(data, f, i)
<1>0. i \in Nat /\ i >= 1 /\ Len(data) \in Nat /\ i <= Len(data) /\ data \in Seq(Char)
  BY DEF Bytes
<1>1. data[i] \in Char
  BY DEF Bytes
<1> DEFINE e == <<data[i]>>
<1>2. e \in Seq(Char) /\ Len(e) = 1 /\ e[1] = data[i] /\ <<>> \in Seq(Char)
  BY <1>1
<1>3. \A f \in 1 .. i + 1 : \A t \in i - 1 .. i :
        f <= t + 1 => /\ SubSeq(data, f, t) \in Seq(Char) /\ Len(SubSeq(data, f, t)) = t + 1 - f
                      /\ \A k \in 1 .. t + 1 - f : SubSeq(data, f, t)[k] = data[f + k - 1]
  <2> SUFFICES ASSUME NEW f \in 1 .. i + 1, NEW t \in i - 1 .. i, f <= t + 1
               PROVE  /\ SubSeq(data, f, t) \in Seq(Char) /\ Len(SubSeq(data, f, t)) = t + 1 - f
                      /\ \A k \in 1 .. t + 1 - f : SubSeq(data, f, t)[k] = data[f + k - 1]
    OBVIOUS
  <2>1. f \in Nat /\ t \in Nat /\ t <= Len(data) /\ f >= 1
    BY <1>0
  <2> QED
    BY <1>0, <2>1
<1> HIDE DEF e
<1>4. SubSeq(data, i, i) = e
  <2> DEFINE x == SubSeq(data, i, i)
  <2>1. x \in Seq(Char) /\ Len(x) = 1 /\ x[1] = data[i]
    BY <1>0, <1>3
  <2> HIDE DEF x
  <2>2. Len(x) = Len(e) /\ \A k \in 1 .. Len(e) : x[k] = e[k]
    BY <1>2, <2>1
  <2>3. x = e
    BY <1>2, <2>1, <2>2, SeqEqual
  <2> QED
    BY <2>3 DEF x
<1>5. SubSeq(data, i, i - 1) = <<>>
  <2>1. SubSeq(data, i, i - 1) \in Seq(Char) /\ Len(SubSeq(data, i, i - 1)) = 0
    BY <1>0, <1>3
  <2> QED
    BY <2>1
<1>6. ASSUME NEW f \in 1 .. i
      PROVE  /\ SubSeq(data, f, i - 1) \in Seq(Char)
             /\ SubSeq(data, f, i - 1) \o e = SubSeq(data, f, i)
  <2> DEFINE x == SubSeq(data, f, i - 1)
             y == SubSeq(data, f, i)
             n == i - f
  <2>1. n \in Nat /\ (i - 1) + 1 - f = n /\ i + 1 - f = n + 1 /\ f + (n + 1) - 1 = i
    BY <1>0
  <2>2. x \in Seq(Char) /\ Len(x) = n /\ \A k \in 1 .. n : x[k] = data[f + k - 1]
    BY <1>0, <1>3, <2>1
  <2>3. y \in Seq(Char) /\ Len(y) = n + 1 /\ \A k \in 1 .. n + 1 : y[k] = data[f + k - 1]
    BY <1>0, <1>3, <2>1
  <2> HIDE DEF x, y, n
  <2> DEFINE z == x \o e
  <2>4. z \in Seq(Char) /\ Len(z) = n + 1 /\ (\A k \in 1 .. n : z[k] = x[k]) /\ z[n + 1] = e[1]
    <3>1. z = Append(x, data[i])
      BY <1>1, <2>2, AppendIsConcat DEF e
    <3> HIDE DEF z
    <3> QED
      BY <1>1, <1>2, <2>1, <2>2, <3>1, SMTT(30)
  <2> HIDE DEF z
  <2>5. ASSUME NEW k \in 1 .. n + 1 PROVE z[k] = y[k]
    <3>1. CASE k \in 1 .. n
      BY <2>1, <2>2, <2>3, <2>4, <3>1
    <3>2. CASE k = n + 1
      BY <1>2, <2>1, <2>3, <2>4, <3>2
    <3> QED
      BY <2>1, <3>1, <3>2
  <2>6. z = y
    BY <2>3, <2>4, <2>5, SeqEqual
  <2> QED
    BY <2>2, <2>6 DEF x, y, z
<1> QED
  BY <1>1, <1>2, <1>4, <1>5, <1>6 DEF e, Bytes

\* Calls without data.
LEMMA NoteHeard ==
  ASSUME NEW h, NEW data, NEW c \in Seq(Events), NEW a \in Notes, Hear(h, data, c) \in Heard
  PROVE  /\ Noted(c, a) \in Seq(Events)
         /\ Hear(h, data, Noted(c, a)) = NotePut(Hear(h, data, c), a)
         /\ Hear(h, data, Noted(c, a)) \in Heard
<1>1. CASE a = Silent
  BY <1>1 DEF Noted, NotePut
<1>2. CASE a # Silent
  <2>1. a \in Events /\ a.cb \in Labels /\ <<>> \in Bytes
    BY <1>2 DEF Events, Notes, Labels, Bytes
  <2>2. Hear(h, data, Append(c, a)) = Put(Hear(h, data, c), a.cb, Said(data, a))
    BY <2>1, HearAppend
  <2>3. Said(data, a) = <<>>
    BY SaidIs
  <2>4. Put(Hear(h, data, c), a.cb, <<>>) \in Heard
    BY <2>1, PutForm
  <2>5. Append(c, a) \in Seq(Events)
    BY <2>1
  <2> QED
    BY <1>2, <2>2, <2>3, <2>4, <2>5 DEF Noted, NotePut
<1> QED
  BY <1>1, <1>2

\* A piece of the data is told.
Tells(h, data, c, m, f, t) ==
  LET e == [cb |-> m, from |-> f, to |-> t]
  IN  /\ Append(c, e) \in Seq(Events)
      /\ Hear(h, data, Append(c, e)) = Put(Hear(h, data, c), m, SubSeq(data, f, t))
      /\ Put(Hear(h, data, c), m, SubSeq(data, f, t)) \in Heard

LEMMA PieceHeard ==
  ASSUME NEW h, NEW data \in Bytes, NEW i \in 1 .. Len(data), NEW c \in Seq(Events),
         Hear(h, data, c) \in Heard, NEW m \in Marks, NEW f \in 1 .. i, NEW t \in {i - 1, i}
  PROVE  Tells(h, data, c, m, f, t)
<1> DEFINE e == [cb |-> m, from |-> f, to |-> t]
<1>1. e \in Events /\ e.cb = m
  <2>1. f \in Nat /\ t \in Nat
    OBVIOUS
  <2> QED
    BY <2>1 DEF Events
<1>2. Said(data, e) = SubSeq(data, f, t)
  BY SaidIs
<1> HIDE DEF e
<1>3. /\ Append(c, e) \in Seq(Events)
      /\ Hear(h, data, Append(c, e)) = Put(Hear(h, data, c), m, SubSeq(data, f, t))
  <2>1. Append(c, e) \in Seq(Events)
    BY <1>1
  <2>2. Hear(h, data, Append(c, e)) = Put(Hear(h, data, c), e.cb, Said(data, e))
    BY <1>1, HearAppend
  <2> QED
    BY <1>1, <1>2, <2>1, <2>2
<1>4. SubSeq(data, f, t) \in Bytes
  <2>1. SubSeq(data, f, i - 1) \in Bytes
    BY Stretches
  <2>2. SubSeq(data, f, i) \in Bytes
    <3>1. SubSeq(data, f, i - 1) \o <<data[i]>> = SubSeq(data, f, i) /\ <<data[i]>> \in Bytes
      BY Stretches
    <3>2. \A x \in Bytes, y \in Bytes : x \o y \in Bytes
      BY DEF Bytes
    <3> QED
      BY <2>1, <3>1, <3>2
  <2> QED
    BY <2>1, <2>2
<1>5. Put(Hear(h, data, c), m, SubSeq(data, f, t)) \in Heard
  <2>1. m \in Labels
    BY DEF Labels
  <2> QED
    BY <1>4, <2>1, PutForm
<1> QED
  BY <1>3, <1>5 DEF e, Tells

\* A piece that is open grows by a byte.
LEMMA PieceGrows ==
  ASSUME NEW H \in Heard, NEW data \in Bytes, NEW i \in 1 .. Len(data), NEW m \in Marks,
         NEW f \in 1 .. i
  PROVE  LET T == Put(H, m, SubSeq(data, f, i - 1))
         IN  /\ Put(H, m, SubSeq(data, f, i)) = Put(T, m, <<data[i]>>)
             /\ T = Put(T, m, <<>>)
<1> DEFINE x == SubSeq(data, f, i - 1)
           y == SubSeq(data, f, i)
           e == <<data[i]>>
<1>1. x \in Bytes /\ e \in Bytes /\ <<>> \in Bytes /\ x \o e = y
  BY Stretches
<1> HIDE DEF x, y, e
<1>2. x \o <<>> = x
  BY <1>1 DEF Bytes
<1>3. \A b \in Bytes : Put(Put(H, m, x), m, b) = Put(H, m, x \o b)
  <2>1. m \in Labels
    BY DEF Labels
  <2> QED
    BY <1>1, <2>1, PutForm
<1>4. Put(Put(H, m, x), m, e) = Put(H, m, y) /\ Put(Put(H, m, x), m, <<>>) = Put(H, m, x)
  BY <1>1, <1>2, <1>3
<1> QED
  BY <1>4 DEF x, y, e

\* The piece a byte belongs to.
Piece(r, i, o) == IF o = "none" \/ r.mark = o THEN r.from ELSE i

Pieces(r, i, o, end) ==
  LET m == IF o = "none" THEN r.mark ELSE o
  IN  IF end = "no" \/ m = "none" THEN r.out
      ELSE Append(r.out, [cb |-> m, from |-> Piece(r, i, o),
                          to |-> IF end = "before" THEN i - 1 ELSE i])

\* What is told with a byte, calls without data apart, is what was told before, grown by it.
LEMMA PieceAfter ==
  ASSUME NEW h, NEW data \in Bytes, NEW i \in 1 .. Len(data), NEW r, Sound(h, data, r, i - 1),
         NEW o \in Marks \cup {"none"}, NEW end \in {"no", "before", "with"},
         o = "none" => end # "with" /\ (end = "no" => Certain(r.p.state)),
         o # "none" => r.mark \in {"none", o}
  PROVE  LET c == Pieces(r, i, o, end)
             m == MarkAfter(r.mark, o, end)
             f == Piece(r, i, o)
             H == Hear(h, data, c)
         IN  /\ c \in Seq(Events) /\ f \in 1 .. i /\ H \in Heard
             /\ (IF m = "none" THEN H ELSE Put(H, m, SubSeq(data, f, i)))
                  = Grown(Told(h, data, r, i - 1), MarkOf(r.p.state), o, end, data[i])
<1> DEFINE c == Pieces(r, i, o, end)
           m == MarkAfter(r.mark, o, end)
           f == Piece(r, i, o)
           H == Hear(h, data, c)
           H0 == Hear(h, data, r.out)
           T0 == Told(h, data, r, i - 1)
           k == MarkOf(r.p.state)
<1> SUFFICES /\ c \in Seq(Events) /\ f \in 1 .. i /\ H \in Heard
             /\ (IF m = "none" THEN H ELSE Put(H, m, SubSeq(data, f, i)))
                  = Grown(T0, k, o, end, data[i])
  OBVIOUS
<1>1. /\ r.out \in Seq(Events) /\ r.from \in 1 .. i /\ H0 \in Heard
      /\ Marked(r.mark, r.p.state)
  <2>1. (i - 1) + 1 = i
    OBVIOUS
  <2> QED
    BY <2>1 DEF Sound, Call
<1>2. r.mark \in Marks \cup {"none"} /\ "none" \notin Marks
  BY <1>1, MarksAre DEF Marks
<1>3. f \in 1 .. i
  BY <1>1 DEF Piece
<1>4. T0 = IF r.mark = "none" THEN H0 ELSE Put(H0, r.mark, SubSeq(data, r.from, i - 1))
  BY DEF Told
<1>5. CASE o = "none" /\ end = "no"
  <2>1. c = r.out /\ m = r.mark /\ f = r.from /\ r.mark = k
    BY <1>1, <1>5 DEF Pieces, MarkAfter, Piece, Certain
  <2>2. H = H0
    BY <2>1
  <2>3. CASE r.mark = "none"
    <3>1. Grown(T0, k, o, end, data[i]) = T0
      BY <1>5, <2>1, <2>3 DEF Grown
    <3> QED
      BY <1>1, <1>3, <1>4, <2>1, <2>2, <2>3, <3>1
  <2>4. CASE r.mark # "none"
    <3>1. Grown(T0, k, o, end, data[i]) = Put(T0, r.mark, <<data[i]>>)
      BY <1>5, <2>1, <2>4 DEF Grown
    <3>2. Put(H0, r.mark, SubSeq(data, r.from, i)) = Put(T0, r.mark, <<data[i]>>)
      BY <1>1, <1>2, <1>4, <2>4, PieceGrows
    <3> QED
      BY <1>1, <1>3, <2>1, <2>2, <2>4, <3>1, <3>2
  <2> QED
    BY <2>3, <2>4
<1>6. CASE o = "none" /\ end = "before"
  <2>1. m = "none" /\ f = r.from /\ Grown(T0, k, o, end, data[i]) = T0
    BY <1>6 DEF MarkAfter, Piece, Grown
  <2>2. CASE r.mark = "none"
    <3>1. c = r.out
      BY <1>6, <2>2 DEF Pieces
    <3> QED
      BY <1>1, <1>3, <1>4, <2>1, <2>2, <3>1
  <2>3. CASE r.mark # "none"
    <3>1. c = Append(r.out, [cb |-> r.mark, from |-> r.from, to |-> i - 1])
      BY <1>6, <2>3 DEF Pieces, Piece
    <3>2. r.mark \in Marks /\ i - 1 \in {i - 1, i}
      BY <1>2, <2>3
    <3>3. /\ c \in Seq(Events) /\ H = Put(H0, r.mark, SubSeq(data, r.from, i - 1))
          /\ H \in Heard
      <4> DEFINE d == Append(r.out, [cb |-> r.mark, from |-> r.from, to |-> i - 1])
      <4>1. d \in Seq(Events) /\ Hear(h, data, d) = Put(H0, r.mark, SubSeq(data, r.from, i - 1))
            /\ Put(H0, r.mark, SubSeq(data, r.from, i - 1)) \in Heard
        <5>1. Tells(h, data, r.out, r.mark, r.from, i - 1)
          <6> HIDE DEF f
          <6> QED
            BY <1>1, <3>2, PieceHeard
        <5> QED
          BY <5>1 DEF Tells
      <4>2. c = d
        BY <3>1
      <4> HIDE DEF d, c
      <4> QED
        BY <4>1, <4>2
    <3> QED
      BY <1>3, <1>4, <2>1, <2>3, <3>3
  <2> QED
    BY <2>2, <2>3
<1>7. CASE o # "none"
  <2>0. o \in Marks
    BY <1>7
  <2>1. /\ Put(H0, o, SubSeq(data, f, i)) = Put(T0, o, <<data[i]>>)
        /\ Put(H0, o, SubSeq(data, f, i - 1)) = Put(T0, o, <<>>)
    <3>1. CASE r.mark = o
      <4>1. f = r.from /\ T0 = Put(H0, o, SubSeq(data, r.from, i - 1))
        BY <1>4, <1>7, <3>1 DEF Piece
      <4> QED
        BY <1>1, <2>0, <4>1, PieceGrows
    <3>2. CASE r.mark = "none"
      <4>1. f = i /\ T0 = H0
        BY <1>4, <1>7, <3>2 DEF Piece
      <4> QED
        BY <4>1, Stretches
    <3> QED
      BY <1>7, <3>1, <3>2
  <2>2. CASE end = "no"
    <3>1. c = r.out /\ m = o /\ Grown(T0, k, o, end, data[i]) = Put(T0, o, <<data[i]>>)
      BY <1>7, <2>2 DEF Pieces, MarkAfter, Grown
    <3> QED
      BY <1>1, <1>3, <1>7, <2>1, <3>1
  <2>3. CASE end = "with"
    <3>1. /\ c = Append(r.out, [cb |-> o, from |-> f, to |-> i]) /\ m = "none"
          /\ Grown(T0, k, o, end, data[i]) = Put(T0, o, <<data[i]>>)
      BY <1>7, <2>3 DEF Pieces, MarkAfter, Grown
    <3>2. c \in Seq(Events) /\ H = Put(H0, o, SubSeq(data, f, i)) /\ H \in Heard
      <4> DEFINE d == Append(r.out, [cb |-> o, from |-> f, to |-> i])
      <4>1. d \in Seq(Events) /\ Hear(h, data, d) = Put(H0, o, SubSeq(data, f, i))
            /\ Put(H0, o, SubSeq(data, f, i)) \in Heard
        <5>1. Tells(h, data, r.out, o, f, i)
          <6> HIDE DEF f
          <6> QED
            BY <1>1, <1>3, <2>0, PieceHeard
        <5> QED
          BY <5>1 DEF Tells
      <4>2. c = d
        BY <3>1
      <4> HIDE DEF d, c
      <4> QED
        BY <4>1, <4>2
    <3> QED
      BY <1>3, <2>1, <3>1, <3>2
  <2>4. CASE end = "before"
    <3>1. /\ c = Append(r.out, [cb |-> o, from |-> f, to |-> i - 1]) /\ m = "none"
          /\ Grown(T0, k, o, end, data[i]) = Put(T0, o, <<>>)
      BY <1>7, <2>4 DEF Pieces, MarkAfter, Grown
    <3>2. c \in Seq(Events) /\ H = Put(H0, o, SubSeq(data, f, i - 1)) /\ H \in Heard
      <4> DEFINE d == Append(r.out, [cb |-> o, from |-> f, to |-> i - 1])
      <4>1. d \in Seq(Events) /\ Hear(h, data, d) = Put(H0, o, SubSeq(data, f, i - 1))
            /\ Put(H0, o, SubSeq(data, f, i - 1)) \in Heard
        <5>1. Tells(h, data, r.out, o, f, i - 1)
          <6> HIDE DEF f
          <6> QED
            BY <1>1, <1>3, <2>0, PieceHeard
        <5> QED
          BY <5>1 DEF Tells
      <4>2. c = d
        BY <3>1
      <4> HIDE DEF d, c
      <4> QED
        BY <4>1, <4>2
    <3> QED
      BY <1>3, <2>1, <3>1, <3>2
  <2> QED
    BY <2>2, <2>3, <2>4
<1> QED
  BY <1>5, <1>6, <1>7

\* The call s has told a byte more than r.
Follows(h, data, r, s, i, o, end, a, b) ==
  /\ Sound(h, data, s, i)
  /\ Told(h, data, s, i)
       = After(Told(h, data, r, i - 1), MarkOf(r.p.state), o, end, a, b, data[i])

\* A byte that a call goes on after adds the same whatever the call began with.
LEMMA ToldAfter ==
  ASSUME NEW h, NEW data \in Bytes, NEW i \in 1 .. Len(data), NEW r, NEW s,
         Sound(h, data, r, i - 1),
         NEW P, NEW o, NEW end, NEW a, NEW b, Moves(r.p, P, FALSE, o, end, a, b),
         P.http_errno = "OK", Does(s, r, i, P, FALSE, o, end, a, b)
  PROVE  Follows(h, data, r, s, i, o, end, a, b)
<1> DEFINE c == Pieces(r, i, o, end)
           m == MarkAfter(r.mark, o, end)
           f == Piece(r, i, o)
           H == Hear(h, data, c)
           G == Grown(Told(h, data, r, i - 1), MarkOf(r.p.state), o, end, data[i])
<1>1. Marked(r.mark, r.p.state)
  BY DEF Sound, Call
<1>2. /\ o \in Marks \cup {"none"} /\ end \in {"no", "before", "with"}
      /\ a \in Notes /\ b \in Notes /\ Fit(P, 0)
      /\ o = "none" => end # "with" /\ (end = "no" => Certain(r.p.state))
      /\ o # "none" => r.mark \in {"none", o}
      /\ Marked(m, P.state)
      /\ a # Silent \/ b # Silent => m = "none"
  BY <1>1 DEF Moves, Marks
<1>3. IsRun(s) /\ s.p = P /\ ~ s.halted /\ s.mark = m /\ s.from = f /\ s.out = Noted(Noted(c, a), b)
  BY DEF Does, Speaks, Pieces, Piece
<1>4. /\ c \in Seq(Events) /\ f \in 1 .. i /\ H \in Heard
      /\ (IF m = "none" THEN H ELSE Put(H, m, SubSeq(data, f, i))) = G
  BY <1>2, PieceAfter
<1> HIDE DEF c, m, f, G
<1>5. /\ Noted(c, a) \in Seq(Events) /\ Hear(h, data, Noted(c, a)) = NotePut(H, a)
      /\ Hear(h, data, Noted(c, a)) \in Heard
  BY <1>2, <1>4, NoteHeard
<1>6. /\ s.out \in Seq(Events) /\ Hear(h, data, s.out) = NotePut(NotePut(H, a), b)
      /\ Hear(h, data, s.out) \in Heard
  BY <1>2, <1>3, <1>5, NoteHeard
<1>7. Sound(h, data, s, i)
  <2>1. s.from \in 1 .. i + 1
    BY <1>3, <1>4
  <2> QED
    BY <1>2, <1>3, <1>6, <2>1 DEF Sound, Call
<1>8. Told(h, data, s, i) = NotePut(NotePut(G, a), b)
  <2>1. CASE m = "none"
    BY <1>3, <1>4, <1>6, <2>1 DEF Told
  <2>2. CASE m # "none"
    <3>1. a = Silent /\ b = Silent
      BY <1>2, <2>2
    <3>2. \A t : NotePut(t, Silent) = t
      BY DEF NotePut
    <3>3. Hear(h, data, s.out) = H
      BY <1>6, <3>1, <3>2
    <3>4. Told(h, data, s, i) = Put(H, m, SubSeq(data, f, i))
      BY <1>3, <2>2, <3>3 DEF Told
    <3> QED
      BY <1>4, <2>2, <3>1, <3>2, <3>4
  <2> QED
    BY <2>1, <2>2
<1> QED
  BY <1>7, <1>8 DEF After, G, Follows

-------------------------------------------------------------------------------
(* No assertion fails. *)

\* A parser between two calls.
ParserOK(p) == IsParser(p) /\ p.http_errno \in {"OK", "ERROR"} /\ (p.http_errno = "OK" => Fit(p, 0))

\* A call, also when it is to return.
CallOK(r) == IsRun(r) /\ ParserOK(r.p) /\ (~ r.halted => Call(r, r.p) /\ r.p.http_errno = "OK")

LEMMA InitFit == Fit(http_parser_init, 0) /\ ~ http_parser_init.upgrade
<1>1. IsParser(http_parser_init)
  BY DEF http_parser_init, IsParser
<1>2. Sized(http_parser_init) /\ http_parser_init.nread \in Nat
  BY HttpParserAssumption DEF http_parser_init, Sized, SizeStates
<1>3. InChunks(http_parser_init, 0)
  BY DEF http_parser_init, InChunks, ChunkStates, SizeStates
<1>4. /\ http_parser_init.state \in States /\ http_parser_init.http_errno = "OK"
      /\ ~ http_parser_init.upgrade
  BY DEF http_parser_init, States
<1> QED
  BY <1>1, <1>2, <1>3, <1>4 DEF Fit

LEMMA BeginOK ==
  ASSUME NEW p, ParserOK(p)
  PROVE  CallOK(Begin(p)) /\ Begin(p).p = p
<1>1. IsRun(Begin(p)) /\ Begin(p).p = p
  BY DEF Begin, IsRun
<1>2. Begin(p).halted = (p.http_errno # "OK") /\ Begin(p).mark = MarkOf(p.state)
  BY DEF Begin
<1> HIDE DEF Begin
<1> QED
  BY <1>1, <1>2 DEF CallOK, Call, Marked

LEMMA ByteOK ==
  ASSUME NEW r, CallOK(r), NEW i \in Nat \ {0}, NEW ch
  PROVE  CallOK(TakeByte(r, i, ch))
<1>1. CASE r.halted
  BY <1>1 DEF TakeByte
<1>2. CASE ~ r.halted
  <2>1. Call(r, r.p) /\ Fit(r.p, 0)
    BY <1>2 DEF CallOK, ParserOK
  <2>2. Acts(r.p, LAMBDA x, k : Byte(x, k, ch))
    BY <2>1, ByteActs DEF Acts
  <2>3. PICK P, h, o, end, a, b :
          /\ Moves(r.p, P, h, o, end, a, b)
          /\ \A x, k : Call(x, r.p) /\ k \in Nat \ {0}
                         => Does(Byte(x, k, ch), x, k, P, h, o, end, a, b)
    BY <2>2 DEF Acts
  <2> DEFINE s == Byte(r, i, ch)
  <2>4. Does(s, r, i, P, h, o, end, a, b)
    BY <2>1, <2>3
  <2>5. TakeByte(r, i, ch) = s
    BY <1>2 DEF TakeByte
  <2> HIDE DEF s
  <2>6. IsRun(s) /\ s.p = P /\ s.halted = h
    BY <2>4 DEF Does
  <2>7. ParserOK(P) /\ (P.http_errno # "OK" => h)
    BY <2>3 DEF Moves, ParserOK, Fit
  <2>8. ASSUME ~ h PROVE Marked(s.mark, P.state)
    <3>1. P.http_errno = "OK" /\ Marked(MarkAfter(r.mark, o, end), P.state)
      BY <2>1, <2>3, <2>8 DEF Moves, Call
    <3>2. s.mark = MarkAfter(r.mark, o, end)
      BY <2>4, <3>1 DEF Does, Speaks
    <3> QED
      BY <3>1, <3>2
  <2>9. CallOK(s)
    BY <2>6, <2>7, <2>8 DEF CallOK, Call
  <2> QED
    BY <2>5, <2>9
<1> QED
  BY <1>1, <1>2

LEMMA RunOK ==
  ASSUME NEW f, NEW parser, ParserOK(parser), NEW data, Len(data) \in Nat, Runs(f, parser, data)
  PROVE  \A n \in 0 .. Len(data) : CallOK(f[n])
<1> DEFINE U == {n \in Nat : n <= Len(data) => CallOK(f[n])}
<1>1. 0 \in U
  BY BeginOK DEF Runs
<1>2. ASSUME NEW n \in Nat, n \in U PROVE n + 1 \in U
  <2> SUFFICES ASSUME n + 1 <= Len(data) PROVE CallOK(f[n + 1])
    OBVIOUS
  <2>1. n + 1 \in 1 .. Len(data) /\ (n + 1) - 1 = n /\ n <= Len(data) /\ n + 1 \in Nat \ {0}
    OBVIOUS
  <2>2. f[n + 1] = TakeByte(f[n], n + 1, data[n + 1])
    BY <2>1 DEF Runs
  <2>3. CallOK(f[n])
    BY <1>2, <2>1
  <2> QED
    BY <2>1, <2>2, <2>3, ByteOK
<1> HIDE DEF U
<1>3. \A n \in Nat : n \in U
  BY <1>1, <1>2, SetInduction
<1> QED
  BY <1>3 DEF U

\* The end of a call leaves the parser alone.
LEMMA EndParser ==
  ASSUME NEW r, IsRun(r), NEW n
  PROVE  End(r, n).p = r.p
BY DEF End, CALLBACK_DATA, IsRun

\* A call leaves the parser as it should be.
LEMMA ExecuteOK ==
  ASSUME NEW p, ParserOK(p), NEW data, Len(data) \in Nat
  PROVE  ParserOK(http_parser_execute(p, data).p)
<1>1. PICK f : /\ Runs(f, p, data)
               /\ http_parser_execute(p, data) = End(f[Len(data)], Len(data))
  BY RunSteps
<1>2. CallOK(f[Len(data)])
  BY <1>1, RunOK
<1> QED
  BY <1>1, <1>2, EndParser DEF CallOK

\* The streams are sequences of characters.
BytesInv == rest \in Bytes /\ fed \in Bytes

LEMMA CutBytes ==
  ASSUME NEW s \in Bytes, NEW n \in 1 .. Len(s)
  PROVE  /\ SubSeq(s, 1, n) \in Bytes /\ Len(SubSeq(s, 1, n)) = n
         /\ SubSeq(s, n + 1, Len(s)) \in Bytes
<1>1. s \in Seq(Char) /\ n \in Nat /\ n <= Len(s) /\ Len(s) \in Nat /\ n >= 1
  BY DEF Bytes
<1> QED
  BY <1>1 DEF Bytes

LEMMA BytesInvariant == Spec => []BytesInv
<1>1. Init => BytesInv
  <2> SUFFICES ASSUME Init PROVE BytesInv
    OBVIOUS
  <2>1. rest \in Bytes
    <3>1. rest \in Streams
      BY DEF Init
    <3>2. Streams \subseteq Bytes
      BY HttpReceiveAssumption, Zenon DEF Bytes, Char
    <3> QED
      BY <3>1, <3>2
  <2>2. fed = <<>>
    BY DEF Init
  <2> QED
    BY <2>1, <2>2 DEF BytesInv, Bytes
<1>2. BytesInv /\ [Next]_vars => BytesInv'
  <2> SUFFICES ASSUME BytesInv, [Next]_vars PROVE BytesInv'
    OBVIOUS
  <2>1. ASSUME NEW n \in 1 .. Len(rest), PerformRecv(n) PROVE BytesInv'
    <3>1. rest' = SubSeq(rest, n + 1, Len(rest)) /\ fed' = fed \o SubSeq(rest, 1, n)
      BY <2>1 DEF PerformRecv
    <3>2. SubSeq(rest, 1, n) \in Bytes /\ SubSeq(rest, n + 1, Len(rest)) \in Bytes
      BY <2>1, CutBytes DEF BytesInv
    <3>3. \A x \in Bytes, y \in Bytes : x \o y \in Bytes
      BY DEF Bytes
    <3> QED
      BY <3>1, <3>2, <3>3 DEF BytesInv
  <2>2. CASE PerformRecvClosed
    BY <2>2 DEF PerformRecvClosed, BytesInv, Bytes
  <2>3. CASE UNCHANGED vars
    BY <2>3 DEF vars, BytesInv
  <2> QED
    BY <2>1, <2>2, <2>3 DEF Next
<1> QED
  BY <1>1, <1>2, PTL DEF Spec

\* Between two receives the parser is as it should be, whatever arrives.
ParserInv == ParserOK(m_parser)

LEMMA ParserInvariant == Spec => []ParserInv
<1>1. Init => ParserInv
  BY InitFit DEF Init, ParserInv, ParserOK, Fit
<1>2. BytesInv /\ ParserInv /\ [Next]_vars => ParserInv'
  <2> SUFFICES ASSUME BytesInv, ParserInv, [Next]_vars PROVE ParserInv'
    OBVIOUS
  <2>1. ASSUME NEW n \in 1 .. Len(rest), PerformRecv(n) PROVE ParserInv'
    <3> DEFINE data == SubSeq(rest, 1, n)
    <3>1. Len(data) \in Nat
      BY <2>1, CutBytes DEF BytesInv
    <3>2. m_parser' = http_parser_execute(m_parser, data).p
      BY <2>1 DEF PerformRecv
    <3> HIDE DEF data
    <3>3. ParserOK(http_parser_execute(m_parser, data).p)
      BY <3>1, ExecuteOK DEF ParserInv
    <3> QED
      BY <3>2, <3>3 DEF ParserInv
  <2>2. CASE PerformRecvClosed
    BY <2>2 DEF PerformRecvClosed, ParserInv
  <2>3. CASE UNCHANGED vars
    BY <2>3 DEF vars, ParserInv
  <2> QED
    BY <2>1, <2>2, <2>3 DEF Next
<1> QED
  BY <1>1, <1>2, BytesInvariant, PTL DEF Spec

\* Whatever bytes arrive, in receives of any size, no assertion of http_parser_execute fails:
\* a body in hand has bytes to come, a chunk's size is read from its first byte on, in a
\* message that has said it is chunked, and no mark is set over another.
THEOREM NoAssertionFails == Spec => []AssertionsHold
<1>1. ParserInv => AssertionsHold
  BY DEF ParserInv, ParserOK, AssertionsHold
<1> QED
  BY <1>1, ParserInvariant, PTL

-------------------------------------------------------------------------------
(* Two calls in step. *)

\* Both have left at a request to upgrade, or both have met the same error, or both go on
\* with the same parser and have told the same.
Same(h1, d1, r1, i1, h2, d2, r2, i2) ==
  \/ r1.halted /\ r1.p.upgrade /\ r2.halted /\ r2.p.upgrade
  \/ /\ ~ r1.p.upgrade /\ r1.p = r2.p /\ IsRun(r1) /\ IsRun(r2)
     /\ r1.halted /\ r2.halted /\ r1.p.http_errno = "ERROR"
  \/ /\ ~ r1.p.upgrade /\ r1.p = r2.p
     /\ Sound(h1, d1, r1, i1) /\ Sound(h2, d2, r2, i2)
     /\ Told(h1, d1, r1, i1) = Told(h2, d2, r2, i2)

\* The next byte, the same for both, keeps them in step.
LEMMA SameByte ==
  ASSUME NEW h1, NEW d1 \in Bytes, NEW i1 \in 1 .. Len(d1), NEW r1,
         NEW h2, NEW d2 \in Bytes, NEW i2 \in 1 .. Len(d2), NEW r2,
         Same(h1, d1, r1, i1 - 1, h2, d2, r2, i2 - 1), d1[i1] = d2[i2]
  PROVE  Same(h1, d1, TakeByte(r1, i1, d1[i1]), i1, h2, d2, TakeByte(r2, i2, d2[i2]), i2)
<1> DEFINE ch == d1[i1]
<1>1. CASE r1.halted /\ r1.p.upgrade /\ r2.halted /\ r2.p.upgrade
  BY <1>1 DEF TakeByte, Same
<1>2. CASE /\ ~ r1.p.upgrade /\ r1.p = r2.p /\ IsRun(r1) /\ IsRun(r2)
           /\ r1.halted /\ r2.halted /\ r1.p.http_errno = "ERROR"
  BY <1>2 DEF TakeByte, Same
<1>3. CASE /\ ~ r1.p.upgrade /\ r1.p = r2.p
           /\ Sound(h1, d1, r1, i1 - 1) /\ Sound(h2, d2, r2, i2 - 1)
           /\ Told(h1, d1, r1, i1 - 1) = Told(h2, d2, r2, i2 - 1)
  <2> DEFINE p == r1.p
  <2>1. Call(r1, p) /\ Call(r2, p) /\ Fit(p, 0) /\ ~ r1.halted /\ ~ r2.halted
    BY <1>3 DEF Sound, Call
  <2>2. Acts(p, LAMBDA x, k : Byte(x, k, ch))
    BY <2>1, ByteActs DEF Acts
  <2>3. PICK P, h, o, end, a, b :
          /\ Moves(p, P, h, o, end, a, b)
          /\ \A x, k : Call(x, p) /\ k \in Nat \ {0}
                         => Does(Byte(x, k, ch), x, k, P, h, o, end, a, b)
    BY <2>2 DEF Acts
  <2> DEFINE s1 == Byte(r1, i1, ch)
             s2 == Byte(r2, i2, ch)
  <2>4. i1 \in Nat \ {0} /\ i2 \in Nat \ {0}
    OBVIOUS
  <2>5. Does(s1, r1, i1, P, h, o, end, a, b) /\ Does(s2, r2, i2, P, h, o, end, a, b)
    BY <2>1, <2>3, <2>4
  <2>6. TakeByte(r1, i1, ch) = s1 /\ TakeByte(r2, i2, ch) = s2
    BY <2>1 DEF TakeByte
  <2> HIDE DEF s1, s2, ch
  <2>7. /\ IsRun(s1) /\ s1.p = P /\ s1.halted = h
        /\ IsRun(s2) /\ s2.p = P /\ s2.halted = h
    BY <2>5 DEF Does
  <2> SUFFICES Same(h1, d1, s1, i1, h2, d2, s2, i2)
    BY <2>6 DEF ch
  <2>8. h \in BOOLEAN /\ (P.upgrade => h)
    BY <1>3, <2>3 DEF Moves
  <2>9. CASE h /\ P.upgrade
    BY <2>7, <2>9 DEF Same
  <2>10. CASE h /\ ~ P.upgrade
    <3>1. P.http_errno = "ERROR"
      BY <2>3, <2>10 DEF Moves
    <3> QED
      BY <2>7, <2>10, <3>1 DEF Same
  <2>11. CASE ~ h
    <3>1. P.http_errno = "OK" /\ ~ P.upgrade /\ h = FALSE
      BY <2>3, <2>8, <2>11 DEF Moves
    <3>2. Moves(p, P, FALSE, o, end, a, b)
      BY <2>3, <3>1
    <3>3. Does(s1, r1, i1, P, FALSE, o, end, a, b) /\ Does(s2, r2, i2, P, FALSE, o, end, a, b)
      BY <2>5, <3>1
    <3>4. /\ Sound(h1, d1, s1, i1)
          /\ Told(h1, d1, s1, i1)
               = After(Told(h1, d1, r1, i1 - 1), MarkOf(r1.p.state), o, end, a, b, d1[i1])
      <4>1. Follows(h1, d1, r1, s1, i1, o, end, a, b)
        BY <1>3, <3>1, <3>2, <3>3, ToldAfter
      <4> QED
        BY <4>1 DEF Follows
    <3>5. /\ Sound(h2, d2, s2, i2)
          /\ Told(h2, d2, s2, i2)
               = After(Told(h2, d2, r2, i2 - 1), MarkOf(r2.p.state), o, end, a, b, d2[i2])
      <4>1. Moves(r2.p, P, FALSE, o, end, a, b)
        BY <1>3, <3>2
      <4>2. Follows(h2, d2, r2, s2, i2, o, end, a, b)
        BY <1>3, <3>1, <3>3, <4>1, ToldAfter
      <4> QED
        BY <4>2 DEF Follows
    <3>6. Told(h1, d1, s1, i1) = Told(h2, d2, s2, i2)
      BY <1>3, <3>4, <3>5
    <3> QED
      BY <2>7, <3>1, <3>4, <3>5, <3>6 DEF Same
  <2> QED
    BY <2>8, <2>9, <2>10, <2>11
<1> QED
  BY <1>1, <1>2, <1>3 DEF Same

\* Two calls on the same bytes, the one k bytes ahead of the other.
LEMMA SameRuns ==
  ASSUME NEW h1, NEW d1 \in Bytes, NEW p1, NEW f, Runs(f, p1, d1),
         NEW h2, NEW d2 \in Bytes, NEW p2, NEW g, Runs(g, p2, d2),
         NEW k \in Nat, NEW m \in Nat, k + m <= Len(d1), m <= Len(d2),
         \A j \in 1 .. m : d1[k + j] = d2[j],
         Same(h1, d1, f[k], k, h2, d2, g[0], 0)
  PROVE  Same(h1, d1, f[k + m], k + m, h2, d2, g[m], m)
<1> DEFINE U == {n \in Nat : n <= m => Same(h1, d1, f[k + n], k + n, h2, d2, g[n], n)}
<1>0. Len(d1) \in Nat /\ Len(d2) \in Nat
  BY DEF Bytes
<1>1. 0 \in U
  <2>1. k + 0 = k
    OBVIOUS
  <2> QED
    BY <2>1
<1>2. ASSUME NEW n \in Nat, n \in U PROVE n + 1 \in U
  <2> SUFFICES ASSUME n + 1 <= m PROVE Same(h1, d1, f[k + (n + 1)], k + (n + 1), h2, d2, g[n + 1], n + 1)
    OBVIOUS
  <2> DEFINE i == k + (n + 1)
             j == n + 1
  <2>1. i \in 1 .. Len(d1) /\ j \in 1 .. Len(d2) /\ i - 1 = k + n /\ j - 1 = n /\ n <= m /\ j \in 1 .. m
    BY <1>0
  <2>2. d1[i] = d2[j]
    BY <2>1
  <2>3. Same(h1, d1, f[k + n], k + n, h2, d2, g[n], n)
    BY <1>2, <2>1
  <2> HIDE DEF i, j
  <2>4. Same(h1, d1, f[i - 1], i - 1, h2, d2, g[j - 1], j - 1)
    BY <2>1, <2>3
  <2>5. f[i] = TakeByte(f[i - 1], i, d1[i]) /\ g[j] = TakeByte(g[j - 1], j, d2[j])
    BY <2>1 DEF Runs
  <2>6. Same(h1, d1, TakeByte(f[i - 1], i, d1[i]), i, h2, d2, TakeByte(g[j - 1], j, d2[j]), j)
    BY <2>1, <2>2, <2>4, SameByte
  <2>7. Same(h1, d1, f[i], i, h2, d2, g[j], j)
    BY <2>5, <2>6
  <2> QED
    BY <2>7 DEF i, j
<1> HIDE DEF U
<1>3. m \in U
  BY <1>1, <1>2, SetInduction
<1> QED
  BY <1>3 DEF U

\* A call that has returned takes no more bytes.
LEMMA HaltedStays ==
  ASSUME NEW f, NEW p, NEW data, Len(data) \in Nat, Runs(f, p, data),
         NEW k \in Nat, NEW m \in Nat, k + m <= Len(data), f[k].halted
  PROVE  f[k + m] = f[k]
<1> DEFINE U == {n \in Nat : n <= m => f[k + n] = f[k]}
<1>1. 0 \in U
  OBVIOUS
<1>2. ASSUME NEW n \in Nat, n \in U PROVE n + 1 \in U
  <2> SUFFICES ASSUME n + 1 <= m PROVE f[k + (n + 1)] = f[k]
    OBVIOUS
  <2> DEFINE i == k + (n + 1)
  <2>1. i \in 1 .. Len(data) /\ i - 1 = k + n /\ n <= m
    OBVIOUS
  <2> HIDE DEF i
  <2>2. f[i] = TakeByte(f[i - 1], i, data[i])
    BY <2>1 DEF Runs
  <2>3. f[i - 1] = f[k]
    BY <1>2, <2>1
  <2>4. f[i] = f[k]
    BY <2>2, <2>3 DEF TakeByte
  <2> QED
    BY <2>4 DEF i
<1> HIDE DEF U
<1>3. m \in U
  BY <1>1, <1>2, SetInduction
<1> QED
  BY <1>3 DEF U

\* The end of a call tells the piece that is open.
LEMMA EndTells ==
  ASSUME NEW h, NEW data \in Bytes, NEW r, Sound(h, data, r, Len(data))
  PROVE  /\ Hear(h, data, End(r, Len(data)).out) = Told(h, data, r, Len(data))
         /\ Told(h, data, r, Len(data)) \in Heard
         /\ MarkOf(r.p.state) # "none" =>
              /\ Told(h, data, r, Len(data)) # <<>>
              /\ Last(Told(h, data, r, Len(data)))[1] = MarkOf(r.p.state)
<1> DEFINE n == Len(data)
           H == Hear(h, data, r.out)
           m == r.mark
           k == MarkOf(r.p.state)
<1>1. /\ IsRun(r) /\ ~ r.halted /\ Marked(m, r.p.state) /\ n \in Nat
      /\ r.out \in Seq(Events) /\ r.from \in 1 .. n + 1 /\ H \in Heard
  BY DEF Sound, Call, Bytes
<1>2. m \in Marks \cup {"none"} /\ "none" \notin Marks /\ k \in Marks \cup {"none"}
  BY <1>1, MarksAre, MarkIs DEF Marks, Marked
<1>3. k # "none" => m = k
  BY <1>1, MarkIs DEF Marked, UrlStates
<1>4. CASE m = "none"
  <2>1. End(r, n) = r /\ Told(h, data, r, n) = H
    BY <1>4 DEF End, Told
  <2> QED
    BY <1>1, <1>3, <1>4, <2>1
<1>5. CASE m # "none"
  <2> DEFINE e == [cb |-> m, from |-> r.from, to |-> (n + 1) - 1]
             x == SubSeq(data, r.from, n)
  <2>1. End(r, n).out = Append(r.out, e)
    BY <1>1, <1>5 DEF End, CALLBACK_DATA, IsRun
  <2>2. e = [cb |-> m, from |-> r.from, to |-> n]
    BY <1>1
  <2>3. e.cb = m /\ Said(data, e) = x /\ e \in Events /\ m \in Labels
    <3>1. Said(data, [cb |-> m, from |-> r.from, to |-> n]) = x
      BY SaidIs
    <3>2. r.from \in Nat /\ m \in Marks
      BY <1>1, <1>2, <1>5
    <3>3. [cb |-> m, from |-> r.from, to |-> n] \in Events /\ m \in Labels
      BY <1>1, <3>2 DEF Events, Labels
    <3> QED
      BY <2>2, <3>1, <3>3
  <2>4. x \in Bytes
    BY <1>1 DEF Bytes
  <2> HIDE DEF e, x
  <2>5. Hear(h, data, Append(r.out, e)) = Put(H, m, x)
    <3>1. Hear(h, data, Append(r.out, e)) = Put(H, e.cb, Said(data, e))
      BY <1>1, <2>3, HearAppend
    <3> QED
      BY <2>3, <3>1
  <2>6. Told(h, data, r, n) = Put(H, m, x)
    BY <1>5 DEF Told, x
  <2>7. Put(H, m, x) \in Heard /\ Put(H, m, x) # <<>> /\ Last(Put(H, m, x))[1] = m
    BY <1>1, <2>3, <2>4, PutForm
  <2> HIDE DEF H, m, k, n
  <2>8. Hear(h, data, End(r, n).out) = Told(h, data, r, n)
    BY <2>1, <2>5, <2>6
  <2> QED
    BY <1>3, <2>6, <2>7, <2>8 DEF n, k, m
<1> QED
  BY <1>4, <1>5

-------------------------------------------------------------------------------
(* How a stream is cut does not matter. *)

\* A call that begins where the last one has told the piece that goes on.
LEMMA BeginSound ==
  ASSUME NEW h \in Heard, NEW data \in Bytes, NEW p, Fit(p, 0),
         MarkOf(p.state) # "none" => h # <<>> /\ Last(h)[1] = MarkOf(p.state)
  PROVE  Sound(h, data, Begin(p), 0) /\ Told(h, data, Begin(p), 0) = h
<1> DEFINE r == Begin(p)
           k == MarkOf(p.state)
<1>1. /\ IsRun(r) /\ r.p = p /\ r.mark = k /\ r.from = 1 /\ r.out = <<>> /\ ~ r.halted
  BY DEF Begin, IsRun, Fit
<1>2. Hear(h, data, <<>>) = h
  <2>1. Silent \in Events /\ <<>> \in Seq(Events)
    BY DEF Events, Notes
  <2> QED
    BY <2>1, HearAppend
<1>3. k \in Marks \cup {"none"}
  <2>1. Marked(k, p.state)
    BY DEF Marked
  <2> QED
    BY <2>1, MarksAre
<1> HIDE DEF r
<1>4. Sound(h, data, r, 0)
  <2>1. r.from \in 1 .. 0 + 1 /\ r.out \in Seq(Events)
    BY <1>1
  <2>2. Call(r, r.p)
    BY <1>1 DEF Call, Marked
  <2> QED
    BY <1>1, <1>2, <2>1, <2>2 DEF Sound
<1>5. Told(h, data, r, 0) = h
  <2>1. CASE k = "none"
    BY <1>1, <1>2, <2>1 DEF Told
  <2>2. CASE k # "none"
    <3>1. SubSeq(data, 1, 0) = <<>>
      BY DEF Bytes
    <3>2. Told(h, data, r, 0) = Put(h, k, <<>>)
      BY <1>1, <1>2, <2>2, <3>1 DEF Told
    <3>3. k \in Labels /\ <<>> \in Bytes
      BY <1>3, <2>2 DEF Labels, Bytes
    <3>4. Put(h, k, <<>>) = h
      BY <2>2, <3>3, PutForm
    <3> QED
      BY <3>2, <3>4
  <2> QED
    BY <2>1, <2>2
<1> QED
  BY <1>4, <1>5 DEF r

\* The parser p, after the bytes all in some pieces, and what was heard.
Agrees(all, p, h) ==
  LET whole == http_parser_execute(http_parser_init, all)
  IN  ~ whole.p.upgrade =>
        /\ p = whole.p
        /\ p.http_errno = "OK" => h = Hear(<<>>, all, whole.out)

\* A call begins with an empty stream.
LEMMA InitSame ==
  ASSUME NEW d1 \in Bytes, NEW d2 \in Bytes
  PROVE  Same(<<>>, d1, Begin(http_parser_init), 0, <<>>, d2, Begin(http_parser_init), 0)
<1>1. MarkOf(http_parser_init.state) = "none"
  BY DEF http_parser_init, MarkOf, UrlStates
<1>2. <<>> \in Heard
  BY DEF Heard
<1>3. ASSUME NEW d \in Bytes
      PROVE  /\ Sound(<<>>, d, Begin(http_parser_init), 0)
             /\ Told(<<>>, d, Begin(http_parser_init), 0) = <<>>
  BY <1>1, <1>2, InitFit, BeginSound
<1>4. Begin(http_parser_init).p = http_parser_init
  BY DEF Begin
<1> HIDE DEF Begin
<1> QED
  BY <1>3, <1>4, InitFit DEF Same

\* One receive more.
LEMMA CutStep ==
  ASSUME NEW x \in Bytes, NEW data \in Bytes, NEW p, NEW h, Agrees(x, p, h)
  PROVE  Agrees(x \o data, http_parser_execute(p, data).p,
                Hear(h, data, http_parser_execute(p, data).out))
<1> DEFINE all == x \o data
           k == Len(x)
           m == Len(data)
           whole == http_parser_execute(http_parser_init, x)
           total == http_parser_execute(http_parser_init, all)
           call == http_parser_execute(p, data)
<1>1. /\ all \in Bytes /\ k \in Nat /\ m \in Nat /\ Len(all) = k + m
      /\ \A j \in 1 .. k : all[j] = x[j]
      /\ \A j \in 1 .. m : all[k + j] = data[j]
  BY DEF Bytes
<1> HIDE DEF all, k, m
<1>2. PICK f : Runs(f, http_parser_init, x) /\ whole = End(f[k], k)
  BY <1>1, RunSteps DEF k
<1>3. PICK g : Runs(g, http_parser_init, all) /\ total = End(g[k + m], k + m)
  <2>1. Len(all) \in Nat
    BY <1>1
  <2> QED
    BY <1>1, <2>1, RunSteps
<1>4. PICK c : Runs(c, p, data) /\ call = End(c[m], m)
  BY <1>1, RunSteps DEF m
<1> HIDE DEF whole, total, call
<1>5. IsRun(f[k]) /\ IsRun(g[k]) /\ IsRun(g[k + m])
  <2>1. ParserOK(http_parser_init)
    BY InitFit DEF ParserOK, Fit
  <2>2. k \in 0 .. Len(x) /\ Len(x) \in Nat /\ k \in 0 .. Len(all) /\ k + m \in 0 .. Len(all) /\ Len(all) \in Nat
    BY <1>1 DEF k
  <2>3. CallOK(f[k]) /\ CallOK(g[k]) /\ CallOK(g[k + m])
    BY <1>2, <1>3, <2>1, <2>2, RunOK
  <2> QED
    BY <2>3 DEF CallOK
<1>6. whole.p = f[k].p /\ total.p = g[k + m].p
  BY <1>2, <1>3, <1>5, EndParser
<1>7. Same(<<>>, all, g[k], k, <<>>, x, f[k], k)
  <2>1. Same(<<>>, all, g[0], 0, <<>>, x, f[0], 0)
    BY <1>1, <1>2, <1>3, InitSame DEF Runs
  <2>2. 0 + k = k /\ 0 + k <= Len(all) /\ k <= Len(x) /\ 0 \in Nat
    BY <1>1 DEF k
  <2>3. \A j \in 1 .. k : all[0 + j] = x[j]
    <3>1. \A j \in 1 .. k : 0 + j = j
      BY <1>1
    <3> QED
      BY <1>1, <3>1
  <2>4. Same(<<>>, all, g[0 + k], 0 + k, <<>>, x, f[k], k)
    BY <1>1, <1>2, <1>3, <2>1, <2>2, <2>3, SameRuns
  <2> QED
    BY <2>2, <2>4
<1>8. ASSUME Same(<<>>, all, g[k], k, h, data, c[0], 0)
      PROVE  Agrees(all, call.p, Hear(h, data, call.out))
  <2>1. Same(<<>>, all, g[k + m], k + m, h, data, c[m], m)
    <3>1. k + m <= Len(all) /\ m <= Len(data)
      BY <1>1 DEF m
    <3> QED
      BY <1>1, <1>3, <1>4, <1>8, <3>1, SameRuns
  <2>2. CASE g[k + m].p.upgrade
    BY <1>6, <2>2 DEF Agrees, total
  <2>3. CASE /\ ~ g[k + m].p.upgrade /\ g[k + m].p = c[m].p /\ IsRun(c[m])
             /\ g[k + m].p.http_errno = "ERROR"
    <3>1. call.p = c[m].p
      BY <1>4, <2>3, EndParser
    <3> QED
      BY <1>6, <2>3, <3>1 DEF Agrees, total
  <2>4. CASE /\ ~ g[k + m].p.upgrade /\ g[k + m].p = c[m].p
             /\ Sound(<<>>, all, g[k + m], k + m) /\ Sound(h, data, c[m], m)
             /\ Told(<<>>, all, g[k + m], k + m) = Told(h, data, c[m], m)
    <3>1. IsRun(c[m])
      BY <2>4 DEF Sound, Call
    <3>2. call.p = c[m].p
      BY <1>4, <3>1, EndParser
    <3>3. Hear(h, data, call.out) = Told(h, data, c[m], m)
      BY <1>4, <2>4, EndTells DEF m
    <3>4. Hear(<<>>, all, total.out) = Told(<<>>, all, g[k + m], k + m)
      <4>1. Sound(<<>>, all, g[k + m], Len(all))
        BY <1>1, <2>4
      <4>2. Hear(<<>>, all, End(g[k + m], Len(all)).out) = Told(<<>>, all, g[k + m], Len(all))
        BY <1>1, <4>1, EndTells
      <4> QED
        BY <1>1, <1>3, <4>2
    <3> QED
      BY <1>6, <2>4, <3>2, <3>3, <3>4 DEF Agrees, total
  <2> QED
    BY <2>1, <2>2, <2>3, <2>4 DEF Same
<1>9. c[0] = Begin(p)
  BY <1>4 DEF Runs
<1>10. CASE g[k].halted /\ g[k].p.upgrade
  <2>1. g[k + m] = g[k]
    <3>1. Len(all) \in Nat /\ k + m <= Len(all)
      BY <1>1
    <3> QED
      BY <1>1, <1>3, <1>10, <3>1, HaltedStays
  <2>2. total.p.upgrade
    BY <1>6, <1>10, <2>1
  <2> QED
    BY <2>2 DEF Agrees, total, all
<1>11. CASE /\ ~ g[k].p.upgrade /\ g[k].p = f[k].p
            /\ g[k].halted /\ g[k].p.http_errno = "ERROR"
  <2>1. p = g[k].p
    BY <1>6, <1>11 DEF Agrees, whole
  <2>2. Begin(p).p = p /\ Begin(p).halted /\ IsRun(Begin(p))
    BY <1>11, <2>1 DEF Begin, IsRun
  <2>3. Same(<<>>, all, g[k], k, h, data, c[0], 0)
    BY <1>5, <1>9, <1>11, <2>1, <2>2 DEF Same
  <2> QED
    BY <1>8, <2>3 DEF all, call
<1>12. CASE /\ ~ g[k].p.upgrade /\ g[k].p = f[k].p
            /\ Sound(<<>>, all, g[k], k) /\ Sound(<<>>, x, f[k], k)
            /\ Told(<<>>, all, g[k], k) = Told(<<>>, x, f[k], k)
  <2>1. p = g[k].p /\ p = f[k].p /\ Fit(p, 0)
    <3>1. p = g[k].p /\ p = f[k].p
      BY <1>6, <1>12 DEF Agrees, whole
    <3>2. Fit(f[k].p, 0)
      BY <1>12 DEF Sound
    <3> QED
      BY <3>1, <3>2
  <2>2. p.http_errno = "OK"
    BY <2>1 DEF Fit
  <2>3. h = Hear(<<>>, x, whole.out)
    BY <1>6, <1>12, <2>2 DEF Agrees, whole
  <2>4. /\ h = Told(<<>>, x, f[k], k) /\ h \in Heard
        /\ MarkOf(p.state) # "none" => h # <<>> /\ Last(h)[1] = MarkOf(p.state)
    BY <1>2, <1>12, <2>1, <2>3, EndTells DEF k
  <2>5. Sound(h, data, Begin(p), 0) /\ Told(h, data, Begin(p), 0) = h
    BY <2>1, <2>4, BeginSound
  <2>6. Begin(p).p = p
    BY DEF Begin
  <2>7. Same(<<>>, all, g[k], k, h, data, c[0], 0)
    BY <1>9, <1>12, <2>1, <2>4, <2>5, <2>6 DEF Same
  <2> QED
    BY <1>8, <2>7 DEF all, call
<1> QED
  BY <1>7, <1>10, <1>11, <1>12 DEF Same

\* http_parser is left in the same state, and its callbacks say the same, however a stream is
\* cut into receives, until a request asks for an upgrade.
THEOREM CutsNeverMatter == Spec => []CutsDoNotMatter
<1>0. CutsDoNotMatter <=> Agrees(fed, m_parser, heard)
  BY DEF CutsDoNotMatter, Agrees
<1>1. Init => Agrees(fed, m_parser, heard)
  <2> SUFFICES ASSUME Init PROVE Agrees(<<>>, http_parser_init, <<>>)
    BY DEF Init
  <2> DEFINE whole == http_parser_execute(http_parser_init, <<>>)
  <2>1. Len(<<>>) = 0
    OBVIOUS
  <2>2. PICK f : /\ Runs(f, http_parser_init, <<>>)
                 /\ whole = End(f[Len(<<>>)], Len(<<>>))
    BY <2>1, RunSteps
  <2>3. whole = End(Begin(http_parser_init), 0)
    BY <2>1, <2>2 DEF Runs
  <2>4. MarkOf(http_parser_init.state) = "none"
    BY DEF http_parser_init, MarkOf, UrlStates
  <2>5. whole.p = http_parser_init /\ whole.out = <<>>
    BY <2>3, <2>4 DEF End, Begin
  <2>6. Hear(<<>>, <<>>, <<>>) = <<>>
    <3>1. Silent \in Events /\ <<>> \in Seq(Events)
      BY DEF Events, Notes
    <3> QED
      BY <3>1, HearAppend
  <2> HIDE DEF whole
  <2> QED
    BY <2>5, <2>6 DEF Agrees, whole
<1>2. BytesInv /\ Agrees(fed, m_parser, heard) /\ [Next]_vars => Agrees(fed, m_parser, heard)'
  <2> SUFFICES ASSUME BytesInv, Agrees(fed, m_parser, heard), [Next]_vars
               PROVE  Agrees(fed', m_parser', heard')
    BY DEF Agrees
  <2>1. ASSUME NEW n \in 1 .. Len(rest), PerformRecv(n)
        PROVE  Agrees(fed', m_parser', heard')
    <3> DEFINE data == SubSeq(rest, 1, n)
    <3>1. data \in Bytes /\ fed \in Bytes
      BY <2>1, CutBytes DEF BytesInv
    <3>2. /\ fed' = fed \o data /\ m_parser' = http_parser_execute(m_parser, data).p
          /\ heard' = Hear(heard, data, http_parser_execute(m_parser, data).out)
      BY <2>1 DEF PerformRecv
    <3> HIDE DEF data
    <3>3. Agrees(fed \o data, http_parser_execute(m_parser, data).p,
                 Hear(heard, data, http_parser_execute(m_parser, data).out))
      BY <3>1, CutStep
    <3> QED
      BY <3>2, <3>3
  <2>2. CASE PerformRecvClosed
    BY <2>2 DEF PerformRecvClosed
  <2>3. CASE UNCHANGED vars
    BY <2>3 DEF vars
  <2> QED
    BY <2>1, <2>2, <2>3 DEF Next
<1> QED
  BY <1>0, <1>1, <1>2, BytesInvariant, PTL DEF Spec
================================================================================
