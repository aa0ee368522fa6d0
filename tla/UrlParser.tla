----------------------------- MODULE UrlParser -----------------------------
(***************************************************************************)
(* thirdparty/url-parser: ParsedUrl.  isUrlChar refuses '@' and '[', so    *)
(* the branches for a user, a password and an IPv6 address are never       *)
(* taken and are left out; a text of the model has no NUL.                 *)
(***************************************************************************)
EXTENDS StringUtils

COLON == 58
HASH  == 35

IsAlpha(c) == c \in 65..90 \cup 97..122

isUrlChar(c) == IsAlpha(c) \/ c \in 48..57
                  \/ c \in {COLON, DOT, SLASH, 45, 95, AMP, QUESTION, PERCENT, EQ, HASH}

is_scheme_char(c) == IsAlpha(c) \/ c \in {PLUS, 45, DOT}

\* The longest beginning of s without a character of stops, and the rest.
UntilAny(s, stops) ==
  LET At == {i \in DOMAIN s : s[i] \in stops}
      n  == IF At = {} THEN Len(s) ELSE Min(At) - 1
  IN  <<SubSeq(s, 1, n), Drop(s, n)>>

\* An optional part that begins with `mark`: it ends before one of stops.
Marked(s, mark, stops) ==
  IF s # <<>> /\ s[1] = mark THEN UntilAny(Tail(s), stops) ELSE <<<<>>, s>>

NoUrl == [ok |-> FALSE]

doParsing(url) ==
  LET sc == UntilAny(url, {COLON})
      ho == UntilAny(Drop(sc[2], 3), {COLON, SLASH})
      po == Marked(ho[2], COLON, {SLASH})
      pa == Marked(po[2], SLASH, {HASH, QUESTION})
      qu == Marked(pa[2], QUESTION, {HASH})
      fr == Marked(qu[2], HASH, {})
  IN  IF \/ \E i \in DOMAIN url : ~isUrlChar(url[i])
         \/ \E i \in DOMAIN sc[1] : ~is_scheme_char(sc[1][i])
         \/ ~IsPrefix(<<COLON, SLASH, SLASH>>, sc[2])
         \/ ho[1] = <<>>
      THEN NoUrl
      ELSE [ok |-> TRUE, scheme |-> toLowerUtf8(sc[1]), host |-> ho[1], port |-> po[1],
            path |-> pa[1], query |-> qu[1], fragment |-> fr[1]]

Schemed(u, host) == u.scheme \o <<COLON, SLASH, SLASH>> \o host

Optional(mark, part) == IF part = <<>> THEN <<>> ELSE <<mark>> \o part

\* Neither writes the port.
withoutParams(u) == Schemed(u, u.host) \o <<SLASH>> \o u.path
normalize(u) == withoutParams(u) \o Optional(QUESTION, u.query)

getInverted(u) ==
  Schemed(u, invertDomain(u.host)) \o Optional(COLON, u.port) \o Optional(SLASH, u.path)
    \o Optional(QUESTION, u.query)
=============================================================================
