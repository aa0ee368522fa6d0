------------------------------- MODULE Base64 -------------------------------
(***************************************************************************)
(* crypt/base64.cpp.  A byte is a number in 0..255; a character of the     *)
(* encoded text is its place 0..63 in base64_chars, Pad for '=', Other for *)
(* a character that is_base64 refuses.                                     *)
(***************************************************************************)
LOCAL INSTANCE Integers
LOCAL INSTANCE Sequences
LOCAL INSTANCE SequencesExt

Pad   == 64
Other == 65
NotFound == 255          \* base64_chars.find of a character it does not hold

is_base64(c) == c \in 0..63

\* The four characters of three bytes.
Quad(b) == << b[1] \div 4,
              (b[1] % 4) * 16 + b[2] \div 16,
              (b[2] % 16) * 4 + b[3] \div 64,
              b[3] % 64 >>

\* The three bytes of four characters; an unsigned char keeps eight bits.
Triple(c) == << (c[1] * 4 + (c[2] % 64) \div 16) % 256,
                ((c[2] % 16) * 16 + (c[3] % 64) \div 4) % 256,
                ((c[3] % 4) * 64 + c[4]) % 256 >>

Filled(s, n, x) == s \o [k \in 1..(n - Len(s)) |-> x]

\* The i-th group of n elements, the last one possibly shorter.
Group(s, n, i) == SubSeq(s, n * (i - 1) + 1, IF n * i > Len(s) THEN Len(s) ELSE n * i)

base64_encode(bytes) ==
  LET Chars(i) == LET g == Group(bytes, 3, i)
                  IN  Filled(SubSeq(Quad(Filled(g, 3, 0)), 1, Len(g) + 1), 4, Pad)
  IN  FlattenSeq([i \in 1..((Len(bytes) + 2) \div 3) |-> Chars(i)])

\* The characters the decoder's loop reads: it stops at the first that is not one.
RECURSIVE Read(_)
Read(s) == IF s # <<>> /\ is_base64(s[1]) THEN <<s[1]>> \o Read(Tail(s)) ELSE <<>>

\* base64_decode and base64_decode_vec.  A last group of i characters gives
\* i - 1 bytes; what fills it up was never found in base64_chars.
base64_decode(s) ==
  LET cs == Read(s)
      Bytes(i) == LET g == Group(cs, 4, i)
                  IN  SubSeq(Triple(Filled(g, 4, NotFound)), 1, Len(g) - 1)
  IN  FlattenSeq([i \in 1..((Len(cs) + 3) \div 4) |-> Bytes(i)])
=============================================================================
