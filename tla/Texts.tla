------------------------------- MODULE Texts -------------------------------
(***************************************************************************)
(* The library's functions on texts, each against a reference definition,  *)
(* on every text up to a bound.  A text grows by one part at a time: one   *)
(* byte, one pair of a query or a cookie, one piece of a configuration.    *)
(***************************************************************************)
EXTENDS UrlParser, AhoCorasick, Base64, Functions

CONSTANTS Parts,      \* for each kind of text, the parts it is made of
          MaxParts,   \* and how many of them it has at most
          Dicts,      \* dictionaries of AhoCorasick
          Env         \* the environment's variables

ASSUME DOMAIN MaxParts = DOMAIN Parts

VARIABLES kind, parts

vars == <<kind, parts>>

Init == kind \in DOMAIN Parts /\ parts = <<>>

Grow == /\ Len(parts) < MaxParts[kind]
        /\ \E p \in Parts[kind] : parts' = Append(parts, p)
        /\ UNCHANGED kind

Spec == Init /\ [][Grow]_vars

Holds(s, sub) == find(s, sub, 1) # 0

-----------------------------------------------------------------------------
(* UTF-8.  The well-formed sequences, as the table of the Unicode standard *)
(* gives them: ranges of the first, the second and the further bytes.      *)

WellFormed ==
  { <<0..127>>, <<194..223, 128..191>>,
    <<{224}, 160..191, 128..191>>, <<(225..239) \ {237}, 128..191, 128..191>>,
    <<{237}, 128..159, 128..191>>,
    <<{240}, 144..191, 128..191, 128..191>>, <<241..243, 128..191, 128..191, 128..191>>,
    <<{244}, 128..143, 128..191, 128..191>> }

Fits(s, ranges) == Len(s) >= Len(ranges) /\ \A i \in DOMAIN ranges : s[i] \in ranges[i]

\* The text ends inside a sequence: the bytes from some place on are the
\* beginning of a longer one.
Unfinished(s) ==
  \E i \in DOMAIN s : /\ sequence_length(s[i]) > Len(s) - i + 1
                      /\ \A j \in (i + 1)..Len(s) : is_trail(s[j])

\* utf8::next accepts exactly the well-formed sequences, with their length,
\* and append gives back the bytes next has read, so that no two texts are
\* read as the same symbols (validate_next, append).
NextIsUnicode ==
  kind = "utf8" /\ parts # <<>> =>
    LET n == validate_next(parts, 1)
        F == {r \in WellFormed : Fits(parts, r)}
    IN  /\ (n.err = "UTF8_OK") <=> (F # {})
        /\ F # {} => \A r \in F : n.it = Len(r) + 1
        /\ is_valid(parts) => Encoded(Symbols(parts).cps) = parts

\* fix_utf8_string makes every text valid, but for one that ends inside a
\* sequence, which it returns as it was; a valid text is not changed, and a
\* sequence spoilt as a whole gives one marker.
FixedTextIsValid ==
  kind = "utf8" =>
    LET f == fix_utf8_string(parts)
    IN  /\ is_valid(f) \/ (Unfinished(parts) /\ f = parts)
        /\ is_valid(parts) => f = parts
        /\ (Len(parts) > 1 /\ ~is_valid(parts) /\ sequence_length(parts[1]) = Len(parts)
              /\ \A i \in 2..Len(parts) : is_trail(parts[i])) => f = append(65533)

\* What the decoding functions write fits into the Len(s) + 1 bytes they
\* have allocated; replaceCharUtf8 only if the new symbol is no longer than
\* the old one.  It makes no difference whether a text without NUL is lowered
\* or freed of what is no letter first (eraseNonCharsUtf8, toLowerUtf8).
BuffersSuffice ==
  kind = "utf8" =>
    /\ Len(eraseNonCharsWrites(parts)) <= Len(parts)
    /\ Len(toLowerWrites(parts)) <= Len(parts)
    /\ \A what, to \in {65, 128, 1040, 65533} :
         Len(append(to)) <= Len(append(what)) => Len(replaceCharWrites(parts, what, to)) <= Len(parts)
    /\ \A two \in {splitIntoTwoUtf8(parts, 65)} : Len(two[1]) + Len(two[2]) <= Len(parts)
    /\ \A letters \in {eraseNonCharsUtf8(parts)}, low \in {toLowerUtf8(parts)} :
         CStr(parts) = parts => toLowerUtf8(letters) = eraseNonCharsUtf8(low)
    /\ \A ps \in {getPrefixesUtf8(parts)} : \A i, j \in DOMAIN ps : i < j => IsPrefix(ps[i], ps[j])

\* utf8cpp and the functions of string_utils that decode with it: exactly
\* Unicode is accepted, a spoilt text is repaired unless it is cut off at its
\* end, and no buffer is left (utf8::next, fix_utf8_string, toLowerUtf8).
Utf8IsRead == NextIsUnicode /\ FixedTextIsValid /\ BuffersSuffice

-----------------------------------------------------------------------------
(* Words *)

\* The longest stretches without a delimiter, from left to right.
Runs(s, delims) ==
  LET Free(i, j) == \A k \in i..j : s[k] \notin delims
      Whole(i, j) == /\ Free(i, j)
                     /\ i = 1 \/ s[i - 1] \in delims
                     /\ j = Len(s) \/ s[j + 1] \in delims
      ends == {p \in (DOMAIN s) \X (DOMAIN s) : p[1] <= p[2] /\ Whole(p[1], p[2])}
      ps   == SetToSortSeq(ends, LAMBDA p, q : p[1] < q[1])
  IN  [k \in DOMAIN ps |-> SubSeq(s, ps[k][1], ps[k][2])]

\* Both ways to split give the words between the delimiters, in their order,
\* whatever the order in which split applies its delimiters.
WordsAreSplit ==
  kind = "words" =>
    LET ws == Runs(parts, {SPACE, LF})
    IN  /\ splitBy(parts, <<SPACE, LF>>) = ws
        /\ splitBy(parts, <<LF, SPACE>>) = ws
        /\ splitUtf8(parts, {SPACE, LF}) = [thrown |-> FALSE, elems |-> ws]

\* removeRedundantDelimeters keeps every character that is no delimiter, and
\* lets its iterator pass end() only for a text that ends with a delimiter; a
\* text whose runs of delimiters all have an odd length is safe, and its words
\* stay apart.  After a run of even length the loop leaves out a character, so
\* that two words may become one (string_utils.cpp:320).
DelimitersKept ==
  kind = "words" =>
    LET r          == removeRedundantDelimeters(parts)
        Letters(t) == SelectSeq(t, LAMBDA c : ~isDelimeter(c))
        runs       == Runs(parts, {SPACE, 97})
        even       == \E k \in DOMAIN runs : Len(runs[k]) % 2 = 0
    IN  /\ r = Undefined => even /\ isDelimeter(Last(parts))
        /\ r # Undefined => Letters(r) = Letters(parts)
        /\ ~even => Runs(r, {LF}) = Runs(parts, {LF})

\* The functions that index a string or a vector without looking at its size
\* leave it exactly for the texts without a word.  The others lose no word to
\* trimming if they end without a space; what is trimmed at the end is taken
\* off the end alone (removeEndingSpaces takes a character too many there,
\* string_utils.cpp:224).
TrimmedWords ==
  kind = "words" =>
    \A ns      \in {{i \in DOMAIN parts : parts[i] # SPACE}},
       t       \in {removeLeadingAndEndingSpaces(parts)},
       bigrams \in {getBigrams(parts)},
       query   \in {<<SPACE, 97, EQ>> \o parts} :
    LET inner == SubSeq(parts, Min(ns), Max(ns))
        pair  == getPairGET(query)
    IN  IF ns = {} THEN bigrams = <<Undefined>> /\ t = Undefined /\ Undefined \in Range(pair)
        ELSE /\ pair = << <<97>>, t >>
             /\ Len(bigrams) = Len(Runs(parts, {SPACE})) - 1
             /\ IsPrefix(t, inner)
             /\ Last(parts) # SPACE => t = inner

\* replaceString ends, and leaves none of what it replaces, if the new text
\* is another one and not longer; it never ends if the new text holds the old.
ReplacementEnds ==
  kind = "words" =>
    \A what \in {<<97>>, <<97, LF>>, <<97, 97>>} :
      \A to \in {<<>>, <<97>>, <<LF>>, <<LF, 97>>, <<97, 97>>} :
        LET r == replaceString(parts, what, to)
        IN  /\ Len(to) <= Len(what) /\ to # what => r # Endless /\ ~Holds(r, what)
            /\ Holds(parts, what) /\ Holds(to, what) => r = Endless

\* Splitting keeps the words of every text; trimming those of a text that ends
\* without a space; thinning out delimiters the letters of every text and the
\* words of one without even runs; and replacing ends as said.  The texts for
\* which an iterator or an index goes astray, or a loop never ends, are among
\* those named (split, removeEndingSpaces, removeRedundantDelimeters,
\* getBigrams, replaceString).
WordsAreKept ==
  WordsAreSplit /\ DelimitersKept /\ TrimmedWords /\ ReplacementEnds

-----------------------------------------------------------------------------
(* Queries, cookies, referers *)

\* What curl_easy_escape makes of a byte.
Digit(d) == IF d < 10 THEN 48 + d ELSE 55 + d

Escape(v) ==
  FlattenSeq([k \in DOMAIN v |->
    IF IsAlpha(v[k]) \/ v[k] \in 48..57 THEN <<v[k]>>
    ELSE <<PERCENT, Digit(v[k] \div 16), Digit(v[k] % 16)>>])

\* The value a receiver should have for each name: the last one sent.
Sent(pairs) ==
  [n \in {pairs[k][1] : k \in DOMAIN pairs} |->
     pairs[Max({k \in DOMAIN pairs : pairs[k][1] = n})][2]]

QueryText(pairs) ==
  <<QUESTION>> \o Joined([k \in DOMAIN pairs |-> pairs[k][1] \o <<EQ>> \o Escape(pairs[k][2])], <<AMP>>)

\* parseGET gives the values that were escaped once into a query; not so a
\* value that unescaping changes, since it unescapes twice, and not an empty
\* one at the end of the query, which it reads as "=".
QueryIsRead ==
  kind = "query" /\ parts # <<>> =>
    \/ \E k \in DOMAIN parts : unescapeUrl(parts[k][2]) # parts[k][2]
    \/ Last(parts)[2] = <<>>
    \/ /\ parseGET(QueryText(parts)) = Sent(parts)
       /\ parseGET(<<SLASH>> \o QueryText(parts)) = Sent(parts)
       /\ getUrlPath(<<SLASH>> \o QueryText(parts)) = <<SLASH>>

\* A search engine's parameter is found wherever it stands in the referer,
\* lowered and with spaces for '+', unless the name of an earlier parameter
\* ends with it (RefParser's "!!! etext") or a value, which is unescaped twice,
\* holds a separator or a name of another engine.
RefererIsRead ==
  kind = "query" /\ parts # <<>> =>
    LET engines == << << <<SPACE>>, <<97>> >>, << <<SLASH>>, <<98, EQ>> >> >>
        mine    == {k \in DOMAIN parts : parts[k][1] = <<98>>}
        word    == parts[Min(mine)][2]
    IN  \/ mine = {}
        \/ \E k \in 1..(Min(mine) - 1) : Last(parts[k][1]) = 98
        \/ \E k \in DOMAIN parts : unescapeUrl(parts[k][2]) # parts[k][2] \/ Holds(parts[k][2], <<AMP>>)
                                     \/ Holds(parts[k][2], <<SPACE>>)
        \/ ParseReferer(<<SLASH>> \o QueryText(parts), engines)
             = [k \in DOMAIN word |-> IF word[k] = PLUS THEN SPACE ELSE toLowerCharUtf8(word[k])]

\* A Cookie header as browsers write it is read back: every name has the
\* last value given to it, a value may hold '=' (parseCookies).
CookiesAreRead ==
  kind = "cookies" =>
    parseCookies(Joined([k \in DOMAIN parts |-> parts[k][1] \o <<EQ>> \o parts[k][2]],
                        <<SEMICOLON, SPACE>>)) = Sent(parts)

\* What a browser puts into a query, a referer or a cookie is what parseGET,
\* RefParser and parseCookies read, but for what is unescaped twice and an
\* empty value at the end.
QueriesAreRead == QueryIsRead /\ RefererIsRead /\ CookiesAreRead

-----------------------------------------------------------------------------
(* Names *)

FileOf(s) == Drop(s, find_last_of(s, SLASH))

\* A file's directory survives a change of its extension only if the last dot
\* is in the file's own name (changeFilenameExt does not look at the slash it
\* has searched for); and inverting a domain twice gives its labels.
FileNamesAreKept ==
  kind = "path" =>
    LET dir == SubSeq(parts, 1, find_last_of(parts, SLASH))
        r   == removeFilenameExt(parts)
        ext == Drop(parts, Len(r))
        c   == changeFilenameExt(parts, <<98>>)
    IN  /\ IsPrefix(dir, r) /\ IsPrefix(r, parts)
        /\ ext = <<>> => ~Holds(FileOf(parts), <<DOT>>)
        /\ ext # <<>> => ext[1] = DOT /\ ~Holds(Tail(ext), <<DOT>>)
        /\ Holds(dir, <<DOT>>) => Holds(FileOf(parts), <<DOT>>) \/ ~IsPrefix(dir, c)
        /\ IsPrefix(dir, c) => c = r \o <<DOT, 98>>
        /\ (\A i \in DOMAIN Pieces(parts, DOT) : Pieces(parts, DOT)[i] # <<>>)
             => invertDomain(invertDomain(parts)) = parts

\* The parts of a URL put together again are the same URL; normalize loses
\* the port and the fragment and nothing else; getInverted twice gives the
\* URL back if it has a path before its query (ParsedUrl).
UrlIsRead ==
  kind = "url" =>
    LET Free(part, marks) == Range(part) \cap marks = {}
        Reads(text, u) == \A t \in {text} : doParsing(t) = u
        Whole(u) == Schemed(u, u.host) \o Optional(COLON, u.port) \o <<SLASH>> \o u.path
                      \o Optional(QUESTION, u.query) \o Optional(HASH, u.fragment)
    IN  \A text \in {<<65, COLON, SLASH, SLASH>> \o parts} : \A u \in {doParsing(text)} :
        u.ok =>
          /\ Free(u.host, {COLON, SLASH}) /\ Free(u.port, {SLASH})
          /\ Free(u.path, {QUESTION, HASH}) /\ Free(u.query, {HASH})
          /\ Reads(Whole(u), u)
          /\ Reads(normalize(u), [u EXCEPT !.port = <<>>, !.fragment = <<>>])
          /\ (\A i \in DOMAIN Pieces(u.host, DOT) : Pieces(u.host, DOT)[i] # <<>>)
               /\ (u.path = <<>> => u.query = <<>>)
             => Reads(getInverted(u), [u EXCEPT !.fragment = <<>>, !.host = invertDomain(@)])

\* Names of files, domains and URLs can be taken apart, changed and put
\* together again (removeFilenameExt, invertDomain, ParsedUrl).
NamesAreKept == FileNamesAreKept /\ UrlIsRead

-----------------------------------------------------------------------------
(* base64, AhoCorasick, loadconf *)

\* Decoding gives back what was encoded, with or without the padding; an
\* encoded text broken off anywhere gives a beginning of it.
Base64RoundTrip ==
  kind = "bytes" =>
    LET e == base64_encode(parts)
    IN  /\ base64_decode(e) = parts
        /\ Len(e) = 4 * ((Len(parts) + 2) \div 3)
        /\ \A n \in 0..Len(e) : /\ IsPrefix(base64_decode(SubSeq(e, 1, n)), parts)
                                /\ SubSeq(e, n + 1, Len(e)) = <<Pad>> =>
                                     base64_decode(SubSeq(e, 1, n) \o <<Other>> \o e) = parts

Automata == [d \in Dicts |-> Automaton(d)]

\* findMatches reports every occurrence of every word of the dictionary, each
\* as often as the dictionary holds the word, and nothing else.
MatchesAreExact ==
  kind = "search" =>
    \A d \in Dicts :
      LET found == findMatches(Automata[d], parts)
          At(w, i) == i + Len(w) - 1 <= Len(parts) /\ SubSeq(parts, i, i + Len(w) - 1) = w
      IN  \A w \in Range(d), i \in DOMAIN parts :
            Len(SelectSeq(found, LAMBDA m : m = <<w, i>>)) = IF At(w, i) THEN Len(Ending(d, w)) ELSE 0

\* A configuration that ends with a newline has its variables substituted and
\* loses that newline; one that does not loses its last character.
EnvIsSubstituted ==
  kind = "config" =>
    LET vals == [k \in DOMAIN parts |->
                   IF parts[k][1] = DOLLAR THEN Env[SubSeq(parts[k], 3, Len(parts[k]) - 1)] ELSE parts[k]]
    IN  /\ replaceEnvParams(FlattenSeq(parts) \o <<LF>>, Env) = FlattenSeq(vals)
        /\ parts # <<>> /\ Last(parts)[1] # DOLLAR
             => replaceEnvParams(FlattenSeq(parts), Env) = Front(FlattenSeq(vals))

\* Base64 is undone by its decoder, the automaton finds exactly the words of
\* its dictionary through its fail links, and a configuration has the values
\* of its variables (base64_decode, findMatches, replaceEnvParams).
CodesAreExact == Base64RoundTrip /\ MatchesAreExact /\ EnvIsSubstituted
=============================================================================
