----------------------------- MODULE StringUtils -----------------------------
(***************************************************************************)
(* strings/string_utils.cpp, strings/RefParser.cpp and the substitution of *)
(* variables in loadconf/loadconf.cpp, as functions from texts to texts.   *)
(* A text is a sequence of bytes.  Undefined is the result of a call that  *)
(* indexes outside its bounds or throws, Endless that of an endless loop.  *)
(***************************************************************************)
EXTENDS Integers, FiniteSets, FiniteSetsExt, Sequences, SequencesExt, TLC, Utf8

NUL       == 0
TAB       == 9
LF        == 10
SPACE     == 32
DOLLAR    == 36
PERCENT   == 37
AMP       == 38
PLUS      == 43
DOT       == 46
SLASH     == 47
SEMICOLON == 59
EQ        == 61
QUESTION  == 63
CLOSE     == 125

Undefined == <<-1>>
Endless   == <<-2>>

-----------------------------------------------------------------------------
(* std::string *)

\* The first place from `from` on where sub begins in s; 0 for npos.
find(s, sub, from) ==
  LET At == {i \in from..(Len(s) - Len(sub) + 1) : SubSeq(s, i, i + Len(sub) - 1) = sub}
  IN  IF At = {} THEN 0 ELSE Min(At)

find_last_of(s, c) == Max({i \in DOMAIN s : s[i] = c} \cup {0})

Drop(s, n) == SubSeq(s, n + 1, Len(s))

\* std::string(char *): a text ends at its first NUL.
CStr(s) == LET i == find(s, <<NUL>>, 1) IN IF i = 0 THEN s ELSE SubSeq(s, 1, i - 1)

Joined(ts, glue) ==
  FlattenSeq([k \in DOMAIN ts |-> IF k = 1 THEN ts[k] ELSE glue \o ts[k]])

-----------------------------------------------------------------------------
(* split *)

Pieces(s, delim) ==
  FoldLeft(LAMBDA acc, c : IF c = delim THEN Append(acc, <<>>)
                           ELSE [acc EXCEPT ![Len(acc)] = Append(@, c)],
           << <<>> >>, s)

\* getline up to each delimiter: no piece follows a delimiter at the end.
split(s, delim) ==
  LET ps == Pieces(s, delim) IN IF Last(ps) = <<>> THEN Front(ps) ELSE ps

NonEmpty(ts) == SelectSeq(ts, LAMBDA t : t # <<>>)

splitBy_FirstOnly(s, delims) == NonEmpty(split(s, delims[1]))

\* The overload with several delimiters, one after another.
splitBy(s, delims) ==
  LET Round(ts, d) == LET ne == NonEmpty(ts)
                      IN  FlattenSeq([k \in DOMAIN ne |-> split(ne[k], d)])
  IN  NonEmpty(FoldLeft(Round, <<s>>, delims))

\* fix_utf8_string: on an unfinished sequence the text is left as it was.
fix_utf8_string(s) == LET r == replace_invalid(s) IN IF r.thrown THEN s ELSE r.out

-----------------------------------------------------------------------------
(* Functions that decode, change and encode again; each copies into a      *)
(* buffer of Len(s) + 1 zeroes and takes the result up to the first NUL.   *)
(* All but splitUtf8 swallow the exception of an invalid sequence.         *)

Groups(cps, delims) ==
  FoldLeft(LAMBDA acc, c : IF c \in delims THEN Append(acc, <<>>)
                           ELSE [acc EXCEPT ![Len(acc)] = Append(@, c)],
           << <<>> >>, cps)

\* The words of the symbols read; the last one is not pushed after a throw.
Words(r, delims) ==
  LET gs == Groups(r.cps, delims)
  IN  NonEmpty(IF r.thrown THEN Front(gs) ELSE gs)

splitUtf8(s, delims) ==
  LET Read == [r \in {Symbols(s)} |->
                 [thrown |-> r.thrown,
                  elems  |-> FoldLeft(LAMBDA es, w : Append(es, CStr(Encoded(w))), <<>>,
                                      Words(r, delims))]]
  IN  Read[Symbols(s)]

splitIntoTwoUtf8(v, delim) ==
  LET cps == Symbols(v).cps
      at  == find(cps, <<delim>>, 1)
      f   == IF at = 0 THEN cps ELSE SubSeq(cps, 1, at - 1)
      s   == IF at = 0 THEN <<>> ELSE Drop(cps, at)
  IN  <<CStr(Encoded(f)), CStr(Encoded(s))>>

isUtf8Char(c) == c \in 65..90 \cup 97..122 \cup 1040..1071 \cup 1072..1103

toLowerCharUtf8(c) == IF c \in 65..90 \cup 1040..1071 THEN c + 32 ELSE c

\* What each writes into its buffer.
eraseNonCharsWrites(s) == Encoded(SelectSeq(Symbols(s).cps, isUtf8Char))
toLowerWrites(s) ==
  LET cps == Symbols(s).cps IN Encoded([k \in DOMAIN cps |-> toLowerCharUtf8(cps[k])])
replaceCharWrites(s, what, to) ==
  LET cps == Symbols(s).cps
  IN  Encoded([k \in DOMAIN cps |-> IF cps[k] = what THEN to ELSE cps[k]])

eraseNonCharsUtf8(s) == CStr(eraseNonCharsWrites(s))
toLowerUtf8(s) == CStr(toLowerWrites(s))
replaceCharUtf8(s, what, to) == CStr(replaceCharWrites(s, what, to))

getPrefixesUtf8(s) ==
  LET cps == Symbols(s).cps
  IN  [k \in DOMAIN cps |-> CStr(Encoded(SubSeq(cps, 1, k)))]

-----------------------------------------------------------------------------
(* Spaces and delimiters *)

removeLeadingSpaces(s) ==
  LET ns == {i \in DOMAIN s : s[i] # SPACE}
  IN  IF ns = {} THEN <<>> ELSE Drop(s, Min(ns) - 1)

\* s[s.size() - 1] of an empty string; and the loop stops ON the last
\* character that is not a space, which substr then leaves out.
removeEndingSpaces(s) ==
  CASE s = <<>>          -> Undefined
    [] Last(s) # SPACE   -> s
    [] OTHER -> LET keep == Max({i \in DOMAIN s : s[i] # SPACE} \cup {1})
                IN  SubSeq(s, 1, keep - 1)

removeLeadingAndEndingSpaces(s) == removeEndingSpaces(removeLeadingSpaces(s))

isDelimeter(c) == c \in {TAB, LF}

\* erase(it) and then it++: the character after an erased one is not looked
\* at, and behind the last one the iterator has passed end().
RECURSIVE RedundantFrom(_, _, _)
RedundantFrom(s, it, prev) ==
  CASE it = Len(s) + 1 -> s
    [] it > Len(s) + 1 -> Undefined
    [] OTHER -> LET d == isDelimeter(s[it])
                IN  RedundantFrom(IF d /\ prev THEN RemoveAt(s, it) ELSE s, it + 1, d)

removeRedundantDelimeters(s) == RedundantFrom(s, 1, FALSE)

\* words.size() - 1 is unsigned: with no word the loop runs over the vector.
getBigrams(q) ==
  LET r  == splitUtf8(q, {SPACE})
      ws == r.elems
  IN  IF r.thrown THEN <<>> ELSE IF ws = <<>> THEN <<Undefined>>
      ELSE [k \in 1..(Len(ws) - 1) |-> ws[k] \o <<SPACE>> \o ws[k + 1]]

replaceSubstring(s, from, to) ==
  LET i == find(s, from, 1)
  IN  IF i = 0 THEN s ELSE SubSeq(s, 1, i - 1) \o to \o Drop(s, i + Len(from) - 1)

\* Each round searches again from the start; Fuel rounds are more than a
\* text of the model can need unless it grows for ever.
Fuel == 12

RECURSIVE ReplaceRounds(_, _, _, _)
ReplaceRounds(s, what, to, n) ==
  IF find(s, what, 1) = 0 THEN s
  ELSE IF n = 0 THEN Endless ELSE ReplaceRounds(replaceSubstring(s, what, to), what, to, n - 1)

replaceString(s, what, to) == ReplaceRounds(s, what, to, Fuel)

-----------------------------------------------------------------------------
(* URLs, cookies, names *)

Hex(c) == IF c \in 48..57 THEN c - 48 ELSE IF c \in 65..70 THEN c - 55
          ELSE IF c \in 97..102 THEN c - 87 ELSE -1

\* curl_easy_unescape: %XX is a byte, everything else stands for itself.
RECURSIVE Unescaped(_)
Unescaped(s) ==
  CASE s = <<>> -> <<>>
    [] Len(s) >= 3 /\ s[1] = PERCENT /\ Hex(s[2]) >= 0 /\ Hex(s[3]) >= 0 ->
         <<Hex(s[2]) * 16 + Hex(s[3])>> \o Unescaped(Drop(s, 3))
    [] OTHER -> <<s[1]>> \o Unescaped(Tail(s))

unescapeUrl(s) == CStr(Unescaped(s))

\* A key and a value of a query, trimmed first.
getPairGET(s) ==
  LET i     == find(s, <<EQ>>, 1)
      key   == removeLeadingAndEndingSpaces(SubSeq(s, 1, i - 1))
      value == removeLeadingAndEndingSpaces(Drop(s, i))
  IN  CASE i = 0 -> <<>>
        [] Undefined \in {key, value} -> <<Undefined, Undefined>>
        [] OTHER -> <<unescapeUrl(key), unescapeUrl(value)>>

\* One character of parseGET's loop: sbeg is where the current word begins,
\* which is the separator itself when that is the last character.
GetStep(s, st, i) ==
  LET sbeg == IF i < Len(s) THEN i + 1 ELSE i
      word == SubSeq(s, st.sbeg, i - 1)
  IN  CASE s[i] = QUESTION -> [st EXCEPT !.state = "KEY", !.sbeg = sbeg]
        [] s[i] = EQ  -> [st EXCEPT !.state = "VALUE", !.key = word, !.sbeg = sbeg]
        [] s[i] = AMP -> [st EXCEPT !.state = "KEY", !.sbeg = sbeg,
                                    !.values = (st.key :> unescapeUrl(unescapeUrl(word))) @@ @]
        [] OTHER -> st

GetEnd_Forgets(s, st) == st.values

GetEnd(s, st) ==
  LET rest  == Drop(s, st.sbeg - 1)
      key   == IF st.state = "KEY" THEN rest ELSE st.key
      value == IF st.state = "VALUE" THEN rest ELSE <<>>
  IN  (key :> unescapeUrl(unescapeUrl(value))) @@ st.values

parseGET(s) ==
  GetEnd(s, FoldLeft(LAMBDA st, i : GetStep(s, st, i),
                     [state |-> "OUTSIDE", key |-> <<>>, sbeg |-> 1, values |-> <<>>],
                     [i \in DOMAIN s |-> i]))

getUrlPath(url) ==
  LET q == find(url, <<QUESTION>>, 1) IN IF q = 0 THEN url ELSE SubSeq(url, 1, q - 1)

\* One leading space of a cookie is dropped; the last of a name wins.
parseCookies(header) ==
  LET cs == SelectSeq(splitBy(header, <<SEMICOLON>>), LAMBDA e : find(e, <<EQ>>, 1) # 0)
      Name(e) == SubSeq(e, IF e[1] = SPACE THEN 2 ELSE 1, find(e, <<EQ>>, 1) - 1)
  IN  FoldLeft(LAMBDA acc, e : (Name(e) :> Drop(e, find(e, <<EQ>>, 1))) @@ acc, <<>>, cs)

removeFilenameExt_AnyDot(s) ==
  LET dot == find_last_of(s, DOT) IN IF dot = 0 THEN s ELSE SubSeq(s, 1, dot - 1)

removeFilenameExt(s) ==
  LET dot == find_last_of(s, DOT)
  IN  IF dot = 0 \/ find_last_of(s, SLASH) > dot THEN s ELSE SubSeq(s, 1, dot - 1)

\* It looks for the last slash too, and does not use it.
changeFilenameExt(s, ext) ==
  LET dot == find_last_of(s, DOT)
  IN  (IF dot = 0 THEN s ELSE SubSeq(s, 1, dot - 1)) \o <<DOT>> \o ext

\* The labels from last to first, each but the first label of the domain
\* followed by a dot.
invertDomain(domain) ==
  LET ts == split(domain, DOT)
      Part(i) == CASE ts[i] = <<>> -> <<>> [] i = 1 -> ts[i] [] OTHER -> ts[i] \o <<DOT>>
  IN  FlattenSeq([k \in DOMAIN ts |-> Part(Len(ts) + 1 - k)])

\* RefParser: the words a visitor searched for, <<>> if this is not the
\* engine or the parameter is missing.
QueryWord(rest) ==
  LET e == find(rest, <<AMP>>, 1) IN IF e = 0 THEN rest ELSE SubSeq(rest, 1, e - 1)

parseEngineReferer(ref, engine, param) ==
  LET b    == find(ref, param, 1)
      word == unescapeUrl(QueryWord(Drop(ref, b + Len(param) - 1)))
  IN  IF find(ref, engine, 1) = 0 \/ b = 0 THEN <<>>
      ELSE replaceCharUtf8(toLowerUtf8(word), PLUS, SPACE)

\* The first engine of the table that the unescaped referer is from.
ParseReferer(ref, engines) ==
  LET r    == unescapeUrl(ref)
      Mine == {k \in DOMAIN engines : /\ find(r, engines[k][1], 1) # 0
                                      /\ find(r, engines[k][2], 1) # 0}
  IN  IF Mine = {} THEN <<>>
      ELSE parseEngineReferer(r, engines[Min(Mine)][1], engines[Min(Mine)][2])

\* The name between "${" and "}"; with nothing between them, all that follows.
EnvName(s, d, c) == IF c = d + 1 THEN Drop(s, c) ELSE SubSeq(s, d + 2, c - 1)

\* LoadConf::replaceEnvParams.  A '$' takes with it the character after it
\* and all to the next '}'; of what follows the last one, the last character
\* is left out.  An unset variable or a missing '}' is thrown.
RECURSIVE EnvFrom(_, _, _, _)
EnvFrom(s, env, from, out) ==
  LET d == find(s, <<DOLLAR>>, from)
      c == IF d = 0 THEN 0 ELSE find(s, <<CLOSE>>, d)
      v == EnvName(s, d, c)
  IN  CASE d = 0 -> out \o SubSeq(s, from, IF from > Len(s) THEN Len(s) ELSE Len(s) - 1)
        [] c = 0 \/ v \notin DOMAIN env -> Undefined
        [] OTHER -> EnvFrom(s, env, c + 1, out \o SubSeq(s, from, d - 1) \o env[v])

replaceEnvParams(s, env) == EnvFrom(s, env, 1, <<>>)
=============================================================================
