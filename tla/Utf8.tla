-------------------------------- MODULE Utf8 --------------------------------
(***************************************************************************)
(* The part of the vendored utf8cpp library that strings/string_utils.cpp  *)
(* calls: utf8::next, utf8::append and utf8::replace_invalid.  A byte is a *)
(* number in 0..255, a text a sequence of bytes, an iterator an index into *)
(* it.  Shifts and masks are written with \div and %.                      *)
(***************************************************************************)
LOCAL INSTANCE Integers
LOCAL INSTANCE Sequences
LOCAL INSTANCE FiniteSets
LOCAL INSTANCE SequencesExt

is_trail(oc) == oc \div 64 = 2

is_surrogate(cp) == cp \in 55296..57343

is_code_point_valid(cp) == cp <= 1114111 /\ ~is_surrogate(cp)

\* How many bytes the first one announces; 0 if it cannot be a first byte.
sequence_length(lead) ==
  CASE lead < 128        -> 1
    [] lead \div 32 = 6  -> 2
    [] lead \div 16 = 14 -> 3
    [] lead \div 8 = 30  -> 4
    [] OTHER             -> 0

is_overlong_sequence_TwoOnly(cp, length) == cp < 128 /\ length # 1

is_overlong_sequence(cp, length) ==
  CASE cp < 128   -> length # 1
    [] cp < 2048  -> length # 2
    [] cp < 65536 -> length # 3
    [] OTHER      -> FALSE

increase_safely(s, it) ==
  IF it + 1 > Len(s) THEN "NOT_ENOUGH_ROOM"
  ELSE IF ~is_trail(s[it + 1]) THEN "INCOMPLETE_SEQUENCE" ELSE "UTF8_OK"

\* get_sequence_1 to get_sequence_4: the error of the first step that fails.
SequenceError(s, it, n) ==
  LET errs == SelectSeq([k \in 1..(n - 1) |-> increase_safely(s, it + k - 1)],
                        LAMBDA e : e # "UTF8_OK")
  IN  IF errs = <<>> THEN "UTF8_OK" ELSE errs[1]

\* The code point they put together.
SequenceValue(s, it, n) ==
  CASE n = 1 -> s[it]
    [] n = 2 -> ((s[it] * 64) % 2048) + (s[it + 1] % 64)
    [] n = 3 -> ((s[it] * 4096) % 65536) + ((s[it + 1] * 64) % 4096) + (s[it + 2] % 64)
    [] n = 4 -> ((s[it] * 262144) % 2097152) + ((s[it + 1] * 4096) % 262144)
                  + ((s[it + 2] * 64) % 4096) + (s[it + 3] % 64)

\* The error, and if there is none the code point and where the next begins.
validate_next(s, it) ==
  LET n   == sequence_length(s[it])
      seq == IF n = 0 THEN "INVALID_LEAD" ELSE SequenceError(s, it, n)
      cp  == SequenceValue(s, it, n)
      err == CASE seq # "UTF8_OK"              -> seq
               [] ~is_code_point_valid(cp)     -> "INVALID_CODE_POINT"
               [] is_overlong_sequence(cp, n)  -> "OVERLONG_SEQUENCE"
               [] OTHER                        -> "UTF8_OK"
  IN  IF err = "UTF8_OK" THEN [err |-> err, cp |-> cp, it |-> it + n]
                         ELSE [err |-> err, it |-> it]

\* The bytes of one code point; the callers give it valid ones only.
append(cp) ==
  LET Trail(d) == 128 + ((cp \div d) % 64)
  IN  CASE cp < 128   -> <<cp>>
        [] cp < 2048  -> <<192 + (cp \div 64), Trail(1)>>
        [] cp < 65536 -> <<224 + (cp \div 4096), Trail(64), Trail(1)>>
        [] OTHER      -> <<240 + (cp \div 262144), Trail(4096), Trail(64), Trail(1)>>

Encoded(cps) == FlattenSeq([k \in DOMAIN cps |-> append(cps[k])])

\* A loop of next() over a whole text: the symbols read, and whether it ended
\* with the text or with an exception.
RECURSIVE SymbolsFrom(_, _, _)
SymbolsFrom(s, it, cps) ==
  IF it > Len(s) THEN [cps |-> cps, thrown |-> FALSE]
  ELSE LET n == validate_next(s, it)
       IN  IF n.err = "UTF8_OK" THEN SymbolsFrom(s, n.it, Append(cps, n.cp))
                                ELSE [cps |-> cps, thrown |-> TRUE]

Symbols(s) == SymbolsFrom(s, 1, <<>>)

is_valid(s) == ~Symbols(s).thrown

\* The first index from it on that is not a continuation byte.
RECURSIVE SkipTrails(_, _)
SkipTrails(s, it) ==
  IF it <= Len(s) /\ is_trail(s[it]) THEN SkipTrails(s, it + 1) ELSE it

\* replace_invalid with its default marker, U+FFFD.
RECURSIVE ReplaceFrom(_, _, _)
ReplaceFrom(s, it, out) ==
  IF it > Len(s) THEN [out |-> out, thrown |-> FALSE]
  ELSE LET n == validate_next(s, it)
       IN  CASE n.err = "UTF8_OK" -> ReplaceFrom(s, n.it, out \o SubSeq(s, it, n.it - 1))
             [] n.err = "NOT_ENOUGH_ROOM" -> [out |-> out, thrown |-> TRUE]
             [] n.err = "INVALID_LEAD" -> ReplaceFrom(s, it + 1, out \o append(65533))
             [] OTHER -> ReplaceFrom(s, SkipTrails(s, it + 1), out \o append(65533))

replace_invalid(s) == ReplaceFrom(s, 1, <<>>)
=============================================================================
