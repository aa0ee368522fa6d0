------------------------------ MODULE QueueLemmas ------------------------------
(***************************************************************************)
(* Facts about sequences used as queues, which the proofs about the        *)
(* launcher, the pool and the dispatcher share: push, pop and the set of   *)
(* what is queued.  And facts about concatenation, for the byte streams.   *)
(* SetInduction and Iteration are induction and recursion over the         *)
(* naturals, stated for a set and a function because the provers cannot    *)
(* instantiate the library's schemes, which take an operator.              *)
(***************************************************************************)
EXTENDS Integers, Sequences, SequencesExt, SequenceTheorems, WellFoundedInduction, TLAPS

\* No element of K is in the queue q twice.
NoRepeat(q, K) == \A i, j \in DOMAIN q : q[i] = q[j] /\ q[i] \in K => i = j

\* front() and pop() of a queue.
LEMMA QueuePop ==
  ASSUME NEW S, NEW q \in Seq(S), q # <<>>
  PROVE  /\ Head(q) \in S
         /\ Tail(q) \in Seq(S)
         /\ Len(q) \in Nat \ {0}
         /\ Head(q) = q[1]
         /\ Len(Tail(q)) = Len(q) - 1
         /\ \A i \in 1 .. Len(Tail(q)) : Tail(q)[i] = q[i + 1]
OBVIOUS

\* What is queued.
LEMMA QueueElement ==
  ASSUME NEW S, NEW q \in Seq(S), NEW i \in DOMAIN q
  PROVE  q[i] \in S
OBVIOUS

\* push() of a queue.
LEMMA QueuePush ==
  ASSUME NEW S, NEW q \in Seq(S), NEW e \in S
  PROVE  /\ Append(q, e) \in Seq(S)
         /\ Len(q) \in Nat
         /\ Len(Append(q, e)) = Len(q) + 1
         /\ Append(q, e)[Len(q) + 1] = e
         /\ \A i \in 1 .. Len(q) : Append(q, e)[i] = q[i]
OBVIOUS

\* push() adds the element to what is queued.
LEMMA PushSet ==
  ASSUME NEW S, NEW q \in Seq(S), NEW e \in S
  PROVE  ToSet(Append(q, e)) = ToSet(q) \cup {e}
<1> DEFINE n == Len(q)
           p == Append(q, e)
<1>1. /\ n \in Nat /\ DOMAIN q = 1 .. n /\ DOMAIN p = 1 .. n + 1
      /\ p[n + 1] = e
      /\ \A i \in 1 .. n : p[i] = q[i]
  OBVIOUS
<1> HIDE DEF n, p
<1>2. ASSUME NEW x \in ToSet(p) PROVE x \in ToSet(q) \cup {e}
  BY <1>1, <1>2 DEF ToSet
<1>3. ASSUME NEW x \in ToSet(q) \cup {e} PROVE x \in ToSet(p)
  <2>1. n + 1 \in DOMAIN p
    BY <1>1
  <2>2. DOMAIN q \subseteq DOMAIN p
    BY <1>1
  <2> QED
    BY <1>1, <1>3, <2>1, <2>2 DEF ToSet
<1> QED
  BY <1>2, <1>3 DEF p

\* push() of something that is not queued repeats nothing.
LEMMA PushOnce ==
  ASSUME NEW S, NEW q \in Seq(S), NEW e \in S, NEW K,
         NoRepeat(q, K), e \in K => e \notin ToSet(q)
  PROVE  NoRepeat(Append(q, e), K)
<1> DEFINE n == Len(q)
           p == Append(q, e)
<1>1. /\ n \in Nat /\ DOMAIN q = 1 .. n /\ DOMAIN p = 1 .. n + 1
      /\ p[n + 1] = e
      /\ \A i \in 1 .. n : p[i] = q[i]
  OBVIOUS
<1> HIDE DEF n, p
<1>2. e \in K => \A i \in 1 .. n : q[i] # e
  BY <1>1 DEF ToSet
<1>3. SUFFICES ASSUME NEW i \in 1 .. n + 1, NEW j \in 1 .. n + 1, p[i] = p[j], p[i] \in K
               PROVE  i = j
  BY <1>1 DEF NoRepeat, p
<1>4. (i \in 1 .. n \/ i = n + 1) /\ (j \in 1 .. n \/ j = n + 1)
  BY <1>1
<1> QED
  BY <1>1, <1>2, <1>3, <1>4 DEF NoRepeat

\* What is queued is the first element and what pop() leaves; pop() leaves nothing of
\* one element.
LEMMA PopSet ==
  ASSUME NEW S, NEW q \in Seq(S), q # <<>>
  PROVE  /\ ToSet(q) = ToSet(Tail(q)) \cup {Head(q)}
         /\ Len(q) <= 1 => ToSet(Tail(q)) = {}
<1> DEFINE n == Len(q)
           p == Tail(q)
           h == Head(q)
<1>1. /\ n \in Nat \ {0} /\ DOMAIN q = 1 .. n /\ DOMAIN p = 1 .. n - 1
      /\ h = q[1]
      /\ \A i \in 1 .. n - 1 : p[i] = q[i + 1]
  <2>1. p \in Seq(S) /\ Len(p) = n - 1
    BY QueuePop
  <2> QED
    BY <2>1, QueuePop
<1>2. \A i \in 2 .. n : i - 1 \in DOMAIN p /\ p[i - 1] = q[i]
  BY <1>1
<1> HIDE DEF n, p, h
<1>3. ASSUME NEW x \in ToSet(q) PROVE x \in ToSet(p) \cup {h}
  <2>1. PICK i \in 1 .. n : x = q[i]
    BY <1>1, <1>3 DEF ToSet
  <2>2. i = 1 \/ i \in 2 .. n
    BY <1>1
  <2> QED
    BY <1>1, <1>2, <2>1, <2>2 DEF ToSet
<1>4. ASSUME NEW x \in ToSet(p) \cup {h} PROVE x \in ToSet(q)
  BY <1>1, <1>4 DEF ToSet
<1>5. n <= 1 => ToSet(p) = {}
  BY <1>1 DEF ToSet
<1> QED
  BY <1>3, <1>4, <1>5 DEF n, p, h

\* pop() leaves no copy of what was queued once.
LEMMA PopOnce ==
  ASSUME NEW S, NEW q \in Seq(S), q # <<>>, NEW K, NoRepeat(q, K)
  PROVE  NoRepeat(Tail(q), K) /\ (Head(q) \in K => Head(q) \notin ToSet(Tail(q)))
<1> DEFINE n == Len(q)
           p == Tail(q)
           h == Head(q)
<1>1. /\ n \in Nat \ {0} /\ DOMAIN q = 1 .. n /\ DOMAIN p = 1 .. n - 1
      /\ h = q[1]
      /\ \A i \in 1 .. n - 1 : p[i] = q[i + 1]
  <2>1. p \in Seq(S) /\ Len(p) = n - 1
    BY QueuePop
  <2> QED
    BY <2>1, QueuePop
<1> HIDE DEF n, p, h
<1>2. NoRepeat(p, K)
  <2> SUFFICES ASSUME NEW i \in 1 .. n - 1, NEW j \in 1 .. n - 1, p[i] = p[j], p[i] \in K
               PROVE  i = j
    BY <1>1 DEF NoRepeat
  <2>1. i + 1 \in 1 .. n /\ j + 1 \in 1 .. n
    BY <1>1
  <2>2. q[i + 1] = q[j + 1] /\ q[i + 1] \in K
    BY <1>1
  <2>3. i + 1 = j + 1
    BY <1>1, <2>1, <2>2 DEF NoRepeat
  <2> QED
    BY <2>3
<1>3. h \in K => h \notin ToSet(p)
  BY <1>1 DEF ToSet, NoRepeat
<1> QED
  BY <1>2, <1>3 DEF p, h

\* Several push() in a row.
LEMMA ConcatQueue ==
  ASSUME NEW S, NEW q \in Seq(S), NEW r \in Seq(S)
  PROVE  /\ q \o r \in Seq(S)
         /\ ToSet(q \o r) = ToSet(q) \cup ToSet(r)
         /\ \A K : NoRepeat(q, K) /\ NoRepeat(r, K) /\ ToSet(q) \cap ToSet(r) \cap K = {}
                     => NoRepeat(q \o r, K)
<1> DEFINE n == Len(q)
           m == Len(r)
           p == q \o r
<1>1. /\ n \in Nat /\ m \in Nat /\ DOMAIN q = 1 .. n /\ DOMAIN r = 1 .. m
      /\ p \in Seq(S) /\ DOMAIN p = 1 .. n + m
      /\ \A i \in 1 .. n : p[i] = q[i]
      /\ \A i \in n + 1 .. n + m : p[i] = r[i - n]
  OBVIOUS
<1> HIDE DEF n, m, p
<1>2. /\ \A i \in 1 .. n + m : i \in 1 .. n \/ (i \in n + 1 .. n + m /\ i - n \in 1 .. m)
      /\ \A i \in 1 .. m : i + n \in n + 1 .. n + m /\ (i + n) - n = i
  BY <1>1
<1>3. ToSet(p) = ToSet(q) \cup ToSet(r)
  <2>1. ASSUME NEW x \in ToSet(p) PROVE x \in ToSet(q) \cup ToSet(r)
    <3>1. PICK i \in 1 .. n + m : x = p[i]
      BY <1>1, <2>1 DEF ToSet
    <3> QED
      BY <1>1, <1>2, <3>1 DEF ToSet
  <2>2. ASSUME NEW x \in ToSet(q) PROVE x \in ToSet(p)
    BY <1>1, <2>2, SMTT(30) DEF ToSet
  <2>3. ASSUME NEW x \in ToSet(r) PROVE x \in ToSet(p)
    <3>1. PICK i \in 1 .. m : x = r[i]
      BY <1>1, <2>3 DEF ToSet
    <3>2. i + n \in DOMAIN p /\ p[i + n] = x
      BY <1>1, <1>2, <3>1
    <3> QED
      BY <3>2 DEF ToSet
  <2> QED
    BY <2>1, <2>2, <2>3
<1>4. ASSUME NEW K, NoRepeat(q, K), NoRepeat(r, K), ToSet(q) \cap ToSet(r) \cap K = {}
      PROVE  NoRepeat(p, K)
  <2>1. SUFFICES ASSUME NEW i \in 1 .. n + m, NEW j \in 1 .. n + m, p[i] = p[j], p[i] \in K
                 PROVE  i = j
    BY <1>1 DEF NoRepeat
  <2>2. \A k \in 1 .. n, l \in 1 .. m : q[k] = r[l] => q[k] \notin K
    BY <1>1, <1>4 DEF ToSet
  <2>3. CASE i \in 1 .. n /\ j \in 1 .. n
    BY <1>1, <1>4, <2>1, <2>3 DEF NoRepeat
  <2>4. CASE i \in n + 1 .. n + m /\ j \in n + 1 .. n + m
    <3>1. i - n \in 1 .. m /\ j - n \in 1 .. m
      BY <1>1, <2>4
    <3>2. r[i - n] = r[j - n] /\ r[i - n] \in K
      BY <1>1, <2>1, <2>4
    <3>3. i - n = j - n
      BY <1>1, <1>4, <3>1, <3>2 DEF NoRepeat
    <3> QED
      BY <1>1, <3>3, <2>4
  <2>5. CASE i \in 1 .. n /\ j \in n + 1 .. n + m
    <3>1. j - n \in 1 .. m
      BY <1>1, <2>5
    <3>2. q[i] = r[j - n] /\ q[i] \in K
      BY <1>1, <2>1, <2>5
    <3> QED
      BY <2>2, <2>5, <3>1, <3>2
  <2>6. CASE i \in n + 1 .. n + m /\ j \in 1 .. n
    <3>1. i - n \in 1 .. m
      BY <1>1, <2>6
    <3>2. q[j] = r[i - n] /\ q[j] \in K
      BY <1>1, <2>1, <2>6
    <3> QED
      BY <2>2, <2>6, <3>1, <3>2
  <2> QED
    BY <1>2, <2>3, <2>4, <2>5, <2>6
<1> QED
  BY <1>1, <1>3, <1>4 DEF p

-------------------------------------------------------------------------------
(* Induction and sequences of sequences. *)

\* Induction over the naturals, for a set.
LEMMA SetInduction ==
  ASSUME NEW S, 0 \in S, \A n \in Nat : n \in S => n + 1 \in S
  PROVE  \A n \in Nat : n \in S
<1> DEFINE R == OpToRel(<, Nat)
           T == Nat \ S
<1> SUFFICES ASSUME T # {} PROVE FALSE
  OBVIOUS
<1>1. IsWellFoundedOn(R, Nat)
  BY NatLessThanWellFounded
<1>2. T \subseteq Nat
  OBVIOUS
<1> HIDE DEF R
<1>3. PICK m \in T : \A n \in T : <<n, m>> \notin R
  <2> HIDE DEF T
  <2> QED
    BY <1>1, <1>2, WFMin
<1>4. m \in Nat \ {0}
  OBVIOUS
<1>5. m - 1 \in Nat /\ m - 1 < m /\ (m - 1) + 1 = m
  BY <1>4
<1>6. m - 1 \in T
  BY <1>5
<1>7. <<m - 1, m>> \in R
  BY <1>4, <1>5 DEF R, OpToRel
<1> QED
  BY <1>3, <1>6, <1>7

\* f[n] is what the first n steps make of base.
Iterates(f, S, base, step) ==
  /\ f \in [Nat -> S] /\ f[0] = base
  /\ \A n \in Nat : f[n + 1] = step[n][f[n]]

\* Such an f exists: a definition by recursion over the naturals has a solution.
LEMMA Iteration ==
  ASSUME NEW S, NEW base \in S, NEW step \in [Nat -> [S -> S]]
  PROVE  \E f : Iterates(f, S, base, step)
<1> DEFINE Good(n, g) == /\ g \in [0 .. n -> S] /\ g[0] = base
                         /\ \A i \in 0 .. n - 1 : g[i + 1] = step[i][g[i]]
<1>1. \A n \in Nat : \E g : Good(n, g)
  <2> DEFINE T == {n \in Nat : \E g : Good(n, g)}
  <2>1. 0 \in T
    <3>1. Good(0, [i \in 0 .. 0 |-> base])
      OBVIOUS
    <3> QED
      BY <3>1
  <2>2. ASSUME NEW n \in Nat, n \in T PROVE n + 1 \in T
    <3>1. PICK g : Good(n, g)
      BY <2>2
    <3> DEFINE h == [i \in 0 .. n + 1 |-> IF i = n + 1 THEN step[n][g[n]] ELSE g[i]]
    <3>2. g[n] \in S /\ step[n][g[n]] \in S
      BY <3>1
    <3>3. h \in [0 .. n + 1 -> S] /\ h[0] = base
      BY <3>1, <3>2
    <3>4. ASSUME NEW i \in 0 .. n PROVE h[i + 1] = step[i][h[i]]
      <4>1. CASE i = n
        BY <4>1
      <4>2. CASE i \in 0 .. n - 1
        BY <4>2, <3>1
      <4> QED
        BY <4>1, <4>2
    <3>5. Good(n + 1, h)
      <4> HIDE DEF h
      <4>1. 0 .. (n + 1) - 1 = 0 .. n
        OBVIOUS
      <4> QED
        BY <3>3, <3>4, <4>1
    <3> HIDE DEF Good, h
    <3> QED
      BY <3>5
  <2> HIDE DEF T
  <2>3. \A n \in Nat : n \in T
    BY <2>1, <2>2, SetInduction
  <2> QED
    BY <2>3 DEF T
<1>2. ASSUME NEW n \in Nat, NEW m \in Nat, NEW g, NEW h, Good(n, g), Good(m, h)
      PROVE  \A i \in Nat : i <= n /\ i <= m => g[i] = h[i]
  <2> DEFINE T == {i \in Nat : i <= n /\ i <= m => g[i] = h[i]}
  <2>1. 0 \in T
    BY <1>2
  <2>2. ASSUME NEW i \in Nat, i \in T PROVE i + 1 \in T
    <3> SUFFICES ASSUME i + 1 <= n, i + 1 <= m PROVE g[i + 1] = h[i + 1]
      OBVIOUS
    <3>1. i \in 0 .. n - 1 /\ i \in 0 .. m - 1 /\ i <= n /\ i <= m
      OBVIOUS
    <3>2. g[i] = h[i]
      BY <2>2, <3>1
    <3> QED
      BY <1>2, <3>1, <3>2
  <2> HIDE DEF T
  <2>3. \A i \in Nat : i \in T
    BY <2>1, <2>2, SetInduction
  <2> QED
    BY <2>3 DEF T
<1> DEFINE G == [n \in Nat |-> CHOOSE g : Good(n, g)]
           f == [n \in Nat |-> G[n][n]]
<1> HIDE DEF Good
<1>3. \A n \in Nat : Good(n, G[n])
  BY <1>1
<1> HIDE DEF G
<1>4. f \in [Nat -> S] /\ f[0] = base
  BY <1>3 DEF Good
<1>5. ASSUME NEW n \in Nat PROVE f[n + 1] = step[n][f[n]]
  <2>1. G[n + 1][n] = G[n][n]
    <3>1. Good(n, G[n]) /\ Good(n + 1, G[n + 1]) /\ n + 1 \in Nat
      BY <1>3
    <3>2. \A i \in Nat : i <= n + 1 /\ i <= n => G[n + 1][i] = G[n][i]
      BY <1>2, <3>1
    <3> QED
      BY <3>2
  <2>2. n \in 0 .. (n + 1) - 1
    OBVIOUS
  <2>3. G[n + 1][n + 1] = step[n][G[n + 1][n]]
    BY <1>3, <2>2 DEF Good
  <2> QED
    BY <2>1, <2>3
<1>6. Iterates(f, S, base, step)
  <2> HIDE DEF f
  <2> QED
    BY <1>4, <1>5 DEF Iterates
<1> QED
  BY <1>6

\* Where the brackets of a concatenation stand does not matter.
Regroups(s, t, u) == (s \o t) \o u = s \o (t \o u)

\* Concatenation is associative.
LEMMA Assoc ==
  ASSUME NEW S, NEW s \in Seq(S), NEW t \in Seq(S), NEW u \in Seq(S)
  PROVE  Regroups(s, t, u)
BY ConcatAssociative DEF Regroups

\* FlattenSeq satisfies its own equation: what the first i sequences make.
LEMMA FlattenPrefixes ==
  ASSUME NEW S, NEW ps \in Seq(Seq(S)), ps # <<>>
  PROVE  \E f \in [1 .. Len(ps) -> Seq(S)] :
           /\ f[1] = ps[1]
           /\ \A i \in 2 .. Len(ps) : f[i] = f[i - 1] \o ps[i]
           /\ FlattenSeq(ps) = f[Len(ps)]
<1> DEFINE m == Len(ps)
           T == Seq(S)
           next(n, s) == IF n + 2 \in 1 .. m THEN s \o ps[n + 2] ELSE s
           step == [n \in Nat |-> [s \in T |-> next(n, s)]]
           F == CHOOSE h : h = [i \in 1 .. m |-> IF i = 1 THEN ps[i] ELSE h[i - 1] \o ps[i]]
<1>1. m \in Nat \ {0} /\ (\A i \in 1 .. m : ps[i] \in T) /\ \A s, t \in T : s \o t \in T
  OBVIOUS
<1>2. FlattenSeq(ps) = F[m]
  BY <1>1 DEF FlattenSeq
<1> HIDE DEF m, T, F
<1>3. \A n \in Nat, s \in T : next(n, s) \in T
  BY <1>1
<1> HIDE DEF next
<1>4. step \in [Nat -> [T -> T]]
  BY <1>3
<1>5. PICK g \in [Nat -> T] : g[0] = ps[1] /\ \A n \in Nat : g[n + 1] = step[n][g[n]]
  <2> DEFINE b == ps[1]
  <2>1. b \in T
    BY <1>1
  <2> HIDE DEF step, b
  <2>2. \E g : Iterates(g, T, b, step)
    BY <1>4, <2>1, Iteration
  <2> QED
    BY <2>2 DEF b, Iterates
<1>6. \A n \in Nat : g[n + 1] = next(n, g[n])
  BY <1>5
<1> HIDE DEF step
<1> DEFINE f == [i \in 1 .. m |-> g[i - 1]]
<1>7. f \in [1 .. m -> T]
  BY <1>1, <1>5
<1>8. f[1] = ps[1]
  <2>1. 1 \in 1 .. m /\ 1 - 1 = 0
    BY <1>1
  <2>2. f[1] = g[1 - 1]
    BY <2>1
  <2> QED
    BY <1>5, <2>1, <2>2
<1>9. ASSUME NEW i \in 2 .. m PROVE f[i] = f[i - 1] \o ps[i]
  <2>1. i - 2 \in Nat /\ (i - 2) + 1 = i - 1 /\ (i - 2) + 2 = i /\ i \in 1 .. m /\ i - 1 \in 1 .. m
        /\ (i - 1) - 1 = i - 2
    BY <1>1
  <2>2. g[i - 1] = next(i - 2, g[i - 2])
    BY <1>6, <2>1
  <2>3. next(i - 2, g[i - 2]) = g[i - 2] \o ps[i]
    BY <2>1 DEF next
  <2>4. f[i] = g[i - 1] /\ f[i - 1] = g[i - 2]
    BY <2>1
  <2> HIDE DEF f
  <2> QED
    BY <2>2, <2>3, <2>4
<1> HIDE DEF f
<1>10. f = [i \in 1 .. m |-> IF i = 1 THEN ps[i] ELSE f[i - 1] \o ps[i]]
  <2>1. ASSUME NEW i \in 1 .. m PROVE f[i] = IF i = 1 THEN ps[i] ELSE f[i - 1] \o ps[i]
    <3>1. i = 1 \/ i \in 2 .. m
      BY <1>1
    <3> QED
      BY <3>1, <1>8, <1>9
  <2> QED
    BY <1>7, <2>1
<1>11. F = [i \in 1 .. m |-> IF i = 1 THEN ps[i] ELSE F[i - 1] \o ps[i]]
  BY <1>10 DEF F
<1>12. F[1] = ps[1] /\ \A i \in 2 .. m : F[i] = F[i - 1] \o ps[i]
  <2>1. 1 \in 1 .. m /\ \A i \in 2 .. m : i \in 1 .. m /\ i # 1
    BY <1>1
  <2>2. \A i \in 1 .. m : F[i] = IF i = 1 THEN ps[i] ELSE F[i - 1] \o ps[i]
    BY <1>11
  <2> QED
    BY <2>1, <2>2
<1>13. \A n \in Nat : n + 1 \in 1 .. m => F[n + 1] \in T
  <2> DEFINE U == {n \in Nat : n + 1 \in 1 .. m => F[n + 1] \in T}
  <2>1. 0 \in U
    BY <1>1, <1>12
  <2>2. ASSUME NEW n \in Nat, n \in U PROVE n + 1 \in U
    <3>1. SUFFICES ASSUME (n + 1) + 1 \in 1 .. m PROVE F[(n + 1) + 1] \in T
      OBVIOUS
    <3>2. n + 1 \in 1 .. m /\ (n + 1) + 1 \in 2 .. m /\ ((n + 1) + 1) - 1 = n + 1
      BY <1>1, <3>1
    <3>3. F[n + 1] \in T /\ ps[(n + 1) + 1] \in T
      BY <1>1, <2>2, <3>1, <3>2
    <3>4. F[(n + 1) + 1] = F[n + 1] \o ps[(n + 1) + 1]
      BY <1>12, <3>2
    <3> QED
      BY <1>1, <3>3, <3>4
  <2> HIDE DEF U
  <2>3. \A n \in Nat : n \in U
    BY <2>1, <2>2, SetInduction
  <2> QED
    BY <2>3 DEF U
<1>14. F \in [1 .. m -> T]
  <2>1. ASSUME NEW i \in 1 .. m PROVE F[i] \in T
    <3>1. i - 1 \in Nat /\ (i - 1) + 1 = i
      BY <1>1
    <3> QED
      BY <1>13, <3>1
  <2>2. F = [i \in 1 .. m |-> F[i]]
    BY <1>11
  <2> QED
    BY <2>1, <2>2
<1> QED
  BY <1>2, <1>12, <1>14 DEF m, T

\* FlattenSeq of no sequence, and its type.
LEMMA FlattenType ==
  ASSUME NEW S
  PROVE  FlattenSeq(<<>>) = <<>> /\ \A ps \in Seq(Seq(S)) : FlattenSeq(ps) \in Seq(S)
<1>1. FlattenSeq(<<>>) = <<>>
  BY DEF FlattenSeq
<1>2. ASSUME NEW ps \in Seq(Seq(S)), ps # <<>> PROVE FlattenSeq(ps) \in Seq(S)
  <2>1. PICK f \in [1 .. Len(ps) -> Seq(S)] : FlattenSeq(ps) = f[Len(ps)]
    BY <1>2, FlattenPrefixes
  <2>2. Len(ps) \in 1 .. Len(ps)
    BY <1>2
  <2> QED
    BY <2>1, <2>2
<1> QED
  BY <1>1, <1>2

\* One more sequence at the end.
LEMMA FlattenAppend ==
  ASSUME NEW S, NEW ps \in Seq(Seq(S)), NEW p \in Seq(S)
  PROVE  FlattenSeq(Append(ps, p)) = FlattenSeq(ps) \o p
<1> DEFINE qs == Append(ps, p)
           m == Len(ps)
           T == Seq(S)
<1>1. /\ qs \in Seq(Seq(S)) /\ qs # <<>> /\ Len(qs) = m + 1 /\ qs[m + 1] = p /\ m \in Nat
      /\ \A i \in 1 .. m : qs[i] = ps[i]
  <2> HIDE DEF T
  <2>1. ps \in Seq(T) /\ p \in T
    BY DEF T
  <2>2. qs \in Seq(T) /\ qs # <<>> /\ Len(qs) = m + 1 /\ qs[m + 1] = p /\ m \in Nat
    BY <2>1
  <2>3. \A i \in 1 .. m : qs[i] = ps[i]
    BY <2>1
  <2> QED
    BY <2>2, <2>3 DEF T
<1>2. PICK f \in [1 .. m + 1 -> T] : f[1] = qs[1] /\ (\A i \in 2 .. m + 1 : f[i] = f[i - 1] \o qs[i])
                                     /\ FlattenSeq(qs) = f[m + 1]
  <2> HIDE DEF qs
  <2>1. PICK f \in [1 .. Len(qs) -> Seq(S)] :
           /\ f[1] = qs[1]
           /\ \A i \in 2 .. Len(qs) : f[i] = f[i - 1] \o qs[i]
           /\ FlattenSeq(qs) = f[Len(qs)]
    BY <1>1, FlattenPrefixes
  <2> QED
    BY <1>1, <2>1
<1> HIDE DEF qs
<1>3. CASE ps = <<>>
  <2>1. m = 0 /\ FlattenSeq(ps) = <<>>
    BY <1>3, FlattenType
  <2>2. f[m + 1] = p
    BY <1>1, <1>2, <2>1
  <2>3. <<>> \o p = p
    BY ConcatEmptySeq
  <2> QED
    BY <1>2, <2>1, <2>2, <2>3 DEF qs
<1>4. CASE ps # <<>>
  <2>1. m \in Nat \ {0}
    BY <1>1, <1>4
  <2>2. PICK g \in [1 .. m -> T] : g[1] = ps[1] /\ (\A i \in 2 .. m : g[i] = g[i - 1] \o ps[i])
                                   /\ FlattenSeq(ps) = g[m]
    BY <1>4, FlattenPrefixes
  <2> HIDE DEF m
  <2>3. \A n \in Nat : n + 1 \in 1 .. m => f[n + 1] = g[n + 1]
    <3> DEFINE U == {n \in Nat : n + 1 \in 1 .. m => f[n + 1] = g[n + 1]}
    <3>1. 0 \in U
      BY <1>1, <1>2, <2>1, <2>2
    <3>2. ASSUME NEW n \in Nat, n \in U PROVE n + 1 \in U
      <4>1. SUFFICES ASSUME (n + 1) + 1 \in 1 .. m PROVE f[(n + 1) + 1] = g[(n + 1) + 1]
        OBVIOUS
      <4>2. /\ n + 1 \in 1 .. m /\ (n + 1) + 1 \in 2 .. m /\ (n + 1) + 1 \in 2 .. m + 1
            /\ ((n + 1) + 1) - 1 = n + 1
        BY <1>1, <4>1
      <4>3. f[n + 1] = g[n + 1] /\ qs[(n + 1) + 1] = ps[(n + 1) + 1]
        BY <1>1, <3>2, <4>1, <4>2
      <4>4. f[(n + 1) + 1] = f[n + 1] \o qs[(n + 1) + 1]
        BY <1>2, <4>2
      <4>5. g[(n + 1) + 1] = g[n + 1] \o ps[(n + 1) + 1]
        BY <2>2, <4>2
      <4> QED
        BY <4>3, <4>4, <4>5
    <3> HIDE DEF U
    <3>3. \A n \in Nat : n \in U
      BY <3>1, <3>2, SetInduction
    <3> QED
      BY <3>3 DEF U
  <2>4. m - 1 \in Nat /\ (m - 1) + 1 = m /\ m \in 1 .. m /\ m + 1 \in 2 .. m + 1 /\ (m + 1) - 1 = m
    BY <2>1
  <2>5. f[m] = g[m]
    BY <2>3, <2>4
  <2>6. f[m + 1] = f[m] \o qs[m + 1]
    BY <1>2, <2>4
  <2> QED
    BY <1>1, <1>2, <2>2, <2>5, <2>6 DEF qs
<1> QED
  BY <1>3, <1>4

\* The first sequence comes first.
LEMMA FlattenHead ==
  ASSUME NEW S, NEW ps \in Seq(Seq(S)), ps # <<>>
  PROVE  FlattenSeq(ps) = Head(ps) \o FlattenSeq(Tail(ps))
<1> DEFINE Good(n) == \A qs \in Seq(Seq(S)) :
                        Len(qs) = n + 1 => FlattenSeq(qs) = Head(qs) \o FlattenSeq(Tail(qs))
           U == {n \in Nat : Good(n)}
<1>1. ASSUME NEW n \in Nat, n = 0 \/ n - 1 \in U, NEW qs \in Seq(Seq(S)), Len(qs) = n + 1
      PROVE  FlattenSeq(qs) = Head(qs) \o FlattenSeq(Tail(qs))
  <2>1. qs # <<>>
    BY <1>1
  <2>2. PICK rs \in Seq(Seq(S)), p \in Seq(S) : qs = Append(rs, p)
    <3> DEFINE T == Seq(S)
    <3> HIDE DEF T
    <3>1. qs \in Seq(T)
      BY DEF T
    <3> QED
      BY <2>1, <3>1, SequenceEmptyOrAppend DEF T
  <2>3. Len(rs) = n
    BY <1>1, <2>2
  <2>4. FlattenSeq(qs) = FlattenSeq(rs) \o p
    BY <2>2, FlattenAppend
  <2>5. /\ Head(qs) = IF rs = <<>> THEN p ELSE Head(rs)
        /\ Tail(qs) = IF rs = <<>> THEN <<>> ELSE Append(Tail(rs), p)
    <3> DEFINE T == Seq(S)
    <3> HIDE DEF T
    <3>1. rs \in Seq(T)
      BY DEF T
    <3> QED
      BY <2>2, <3>1, HeadTailAppend
  <2>6. CASE rs = <<>>
    <3>1. FlattenSeq(rs) = <<>> /\ FlattenSeq(Tail(qs)) = <<>>
      BY <2>5, <2>6, FlattenType
    <3>2. <<>> \o p = p /\ p \o <<>> = p
      BY ConcatEmptySeq
    <3>3. Head(qs) = p
      BY <2>5, <2>6
    <3> QED
      BY <2>4, <3>1, <3>2, <3>3
  <2>7. CASE rs # <<>>
    <3>1. n # 0 /\ n - 1 \in U /\ (n - 1) + 1 = n
      BY <1>1, <2>3, <2>7, SMTT(30)
    <3>2. FlattenSeq(rs) = Head(rs) \o FlattenSeq(Tail(rs))
      BY <2>3, <3>1
    <3>3. Tail(rs) \in Seq(Seq(S)) /\ Head(rs) \in Seq(S)
      BY <2>7
    <3>4. FlattenSeq(Append(Tail(rs), p)) = FlattenSeq(Tail(rs)) \o p
      BY <3>3, FlattenAppend
    <3>5. FlattenSeq(Tail(rs)) \in Seq(S)
      BY <3>3, FlattenType
    <3>6. (Head(rs) \o FlattenSeq(Tail(rs))) \o p = Head(rs) \o (FlattenSeq(Tail(rs)) \o p)
      <4>1. Regroups(Head(rs), FlattenSeq(Tail(rs)), p)
        BY <3>3, <3>5, Assoc
      <4> QED
        BY <4>1 DEF Regroups
    <3> QED
      BY <2>4, <2>5, <2>7, <3>2, <3>4, <3>6
  <2> QED
    BY <2>6, <2>7
<1>2. 0 \in U
  BY <1>1
<1>3. ASSUME NEW n \in Nat, n \in U PROVE n + 1 \in U
  <2>1. n + 1 \in Nat /\ (n + 1) - 1 \in U
    BY <1>3
  <2> QED
    BY <1>1, <2>1
<1> HIDE DEF U
<1>4. \A n \in Nat : n \in U
  BY <1>2, <1>3, SetInduction
<1>5. Len(ps) - 1 \in Nat /\ (Len(ps) - 1) + 1 = Len(ps)
  OBVIOUS
<1>6. Good(Len(ps) - 1)
  BY <1>4, <1>5 DEF U
<1> QED
  BY <1>5, <1>6

\* Quotient and remainder of a natural, for a base of at least two.
LEMMA DivMod ==
  ASSUME NEW n \in Nat, NEW b \in Nat \ {0, 1}
  PROVE  /\ n \div b \in Nat /\ n % b \in 0 .. b - 1
         /\ n = b * (n \div b) + (n % b)
         /\ n # 0 => n \div b < n
<1>1. n \div b \in Nat
  OBVIOUS
<1>2. n % b \in 0 .. b - 1
  OBVIOUS
<1>3. n = b * (n \div b) + (n % b)
  OBVIOUS
<1>4. n # 0 => n \div b < n
  OBVIOUS
<1> QED
  BY <1>1, <1>2, <1>3, <1>4

\* Every round takes two off a number: enough rounds for it to run out.
LEMMA Halves ==
  ASSUME NEW n \in Nat
  PROVE  n \div 2 + 1 \in Nat /\ n - 2 * (n \div 2 + 1) < 0
<1>1. n \div 2 \in Nat /\ n = 2 * (n \div 2) + (n % 2) /\ n % 2 \in 0 .. 1
  OBVIOUS
<1> DEFINE h == n \div 2
           k == n % 2
<1>2. h \in Nat /\ k \in 0 .. 1 /\ n = 2 * h + k
  BY <1>1
<1> HIDE DEF h, k
<1>3. h + 1 \in Nat /\ n - 2 * (h + 1) < 0
  BY <1>2
<1> QED
  BY <1>3 DEF h

\* Max of a bounded set of naturals.
LEMMA BoundedMax ==
  ASSUME NEW m \in Nat, NEW A, A \subseteq 0 .. m, A # {}
  PROVE  Max(A) \in A /\ \A y \in A : Max(A) >= y
<1> DEFINE Good(n) == \A B : B \subseteq 0 .. n /\ B # {} => \E x \in B : \A y \in B : x >= y
           U == {n \in Nat : Good(n)}
<1>1. 0 \in U
  <2>1. ASSUME NEW B, B \subseteq 0 .. 0, B # {} PROVE \E x \in B : \A y \in B : x >= y
    <3>1. PICK x \in B : TRUE
      BY <2>1
    <3>2. \A y \in B : y = 0
      BY <2>1
    <3>3. \A y \in B : x >= y
      BY <3>2
    <3> QED
      BY <3>3
  <2> QED
    BY <2>1
<1>2. ASSUME NEW n \in Nat, n \in U PROVE n + 1 \in U
  <2>1. ASSUME NEW B, B \subseteq 0 .. n + 1, B # {} PROVE \E x \in B : \A y \in B : x >= y
    <3>1. CASE n + 1 \in B
      BY <2>1, <3>1
    <3>2. CASE n + 1 \notin B
      <4>1. B \subseteq 0 .. n
        BY <2>1, <3>2
      <4> QED
        BY <1>2, <2>1, <4>1
    <3> QED
      BY <3>1, <3>2
  <2> QED
    BY <2>1
<1> HIDE DEF U
<1>3. \A n \in Nat : n \in U
  BY <1>1, <1>2, SetInduction
<1>4. Good(m)
  BY <1>3 DEF U
<1>5. \E x \in A : \A y \in A : x >= y
  BY <1>4
<1> QED
  BY <1>5 DEF Max

\* Min of a set of naturals.
LEMMA NatMin ==
  ASSUME NEW A, A \subseteq Nat, A # {}
  PROVE  Min(A) \in A /\ \A y \in A : Min(A) =< y
<1> DEFINE R == OpToRel(<, Nat)
<1>1. IsWellFoundedOn(R, Nat)
  BY NatLessThanWellFounded
<1> HIDE DEF R
<1>2. PICK x \in A : \A y \in A : <<y, x>> \notin R
  BY <1>1, WFMin
<1>3. ASSUME NEW y \in A PROVE x =< y
  <2>1. x \in Nat /\ y \in Nat /\ <<y, x>> \notin R
    BY <1>2
  <2>2. ~ (y < x)
    BY <2>1 DEF R, OpToRel
  <2> QED
    BY <2>1, <2>2
<1> QED
  BY <1>3 DEF Min

\* Finitely many numbers are bounded.
LEMMA FiniteBound ==
  ASSUME NEW n \in Nat, NEW g, \A i \in 1 .. n : g[i] \in Nat
  PROVE  \E b \in Nat : \A i \in 1 .. n : g[i] <= b
<1> DEFINE Good(k) == \E b \in Nat : \A i \in 1 .. k : g[i] <= b
           T == {k \in Nat : k <= n => Good(k)}
<1>1. 0 \in T
  BY DEF T
<1>2. ASSUME NEW k \in Nat, k \in T PROVE k + 1 \in T
  <2> SUFFICES ASSUME k + 1 <= n PROVE Good(k + 1)
    OBVIOUS
  <2>1. PICK b \in Nat : \A i \in 1 .. k : g[i] <= b
    BY <1>2
  <2>2. g[k + 1] \in Nat
    OBVIOUS
  <2> DEFINE x == g[k + 1]
             c == b + x
  <2>3. \A i \in 1 .. k + 1 : i \in 1 .. k \/ i = k + 1
    OBVIOUS
  <2>4. \A i \in 1 .. k : g[i] \in Nat
    OBVIOUS
  <2>5. c \in Nat /\ b <= c /\ x <= c
    BY <2>2
  <2>6. ASSUME NEW i \in 1 .. k + 1 PROVE g[i] <= c
    <3>1. CASE i = k + 1
      BY <2>5, <3>1
    <3>2. CASE i \in 1 .. k
      BY <2>1, <2>4, <2>5, <3>2
    <3> QED
      BY <2>3, <3>1, <3>2
  <2> QED
    BY <2>5, <2>6
<1> HIDE DEF T
<1>3. \A k \in Nat : k \in T
  BY <1>1, <1>2, SetInduction
<1>4. n \in T /\ n <= n
  BY <1>3
<1> QED
  BY <1>4 DEF T

\* The elements of x are those of a and then those of b.
Concats(x, a, b) ==
  /\ Len(x) = Len(a) + Len(b)
  /\ \A i \in 1 .. Len(a) : x[i] = a[i]
  /\ \A i \in 1 .. Len(b) : x[Len(a) + i] = b[i]

\* The elements of a concatenation.
LEMMA ConcatElements ==
  ASSUME NEW S, NEW a \in Seq(S), NEW b \in Seq(S)
  PROVE  a \o b \in Seq(S) /\ Concats(a \o b, a, b)
<1>1. Len(a) \in Nat /\ Len(b) \in Nat
  OBVIOUS
<1>2. \A i \in 1 .. Len(a) : (a \o b)[i] = a[i]
  OBVIOUS
<1>3. ASSUME NEW i \in 1 .. Len(b) PROVE (a \o b)[Len(a) + i] = b[i]
  <2>1. Len(a) + i \in 1 .. Len(a) + Len(b) /\ ~ (Len(a) + i <= Len(a)) /\ (Len(a) + i) - Len(a) = i
    BY <1>1
  <2>2. (a \o b)[Len(a) + i] = b[(Len(a) + i) - Len(a)]
    BY <2>1
  <2> QED
    BY <2>1, <2>2
<1> QED
  BY <1>2, <1>3 DEF Concats

\* a followed by b is c followed by d.
Joined(a, b, c, d) == a \o b = c \o d

\* More bytes behind b are more bytes behind d.
LEMMA JoinedMore ==
  ASSUME NEW S, NEW a \in Seq(S), NEW b \in Seq(S), NEW c \in Seq(S), NEW d \in Seq(S),
         Joined(a, b, c, d), NEW x \in Seq(S)
  PROVE  Joined(a, b \o x, c, d \o x)
<1>1. Regroups(a, b, x) /\ Regroups(c, d, x)
  BY Assoc
<1> QED
  BY <1>1 DEF Regroups, Joined

\* The first of b may be moved to the end of a.
LEMMA HeadMoves ==
  ASSUME NEW S, NEW a \in Seq(S), NEW b \in Seq(S), b # <<>>
  PROVE  Joined(Append(a, Head(b)), Tail(b), a, b)
<1> DEFINE h == <<Head(b)>>
           t == Tail(b)
<1>1. h \in Seq(S) /\ t \in Seq(S) /\ Append(a, Head(b)) = a \o h /\ b = h \o t
  <2>1. Head(b) \in S
    OBVIOUS
  <2>2. h \in Seq(S) /\ t \in Seq(S)
    BY <2>1
  <2>3. Append(a, Head(b)) = a \o h
    BY <2>1
  <2>4. b = h \o t
    OBVIOUS
  <2> QED
    BY <2>2, <2>3, <2>4
<1> HIDE DEF h, t
<1>2. Regroups(a, h, t)
  BY <1>1, Assoc
<1>3. (a \o h) \o t = a \o b
  BY <1>1, <1>2 DEF Regroups
<1> QED
  BY <1>1, <1>3 DEF Joined, t

\* The last of what comes before b is its first instead.
LEMMA LastMoves ==
  ASSUME NEW S, NEW a \in Seq(S), NEW m \in S, NEW b \in Seq(S)
  PROVE  <<m>> \o b \in Seq(S) /\ Joined(Append(a, m), b, a, <<m>> \o b)
<1> DEFINE h == <<m>>
<1>1. h \in Seq(S) /\ Append(a, m) = a \o h
  OBVIOUS
<1> HIDE DEF h
<1>2. Regroups(a, h, b) /\ h \o b \in Seq(S)
  BY <1>1, Assoc, ConcatElements
<1> QED
  BY <1>1, <1>2 DEF Regroups, Joined, h

\* Append, as a concatenation.
Appends(S, s, d) ==
  Append(s, d) = s \o <<d>> /\ Append(s, d) \in Seq(S) /\ <<d>> \in Seq(S)

\* Append is the concatenation of one element.
LEMMA AppendConcat ==
  ASSUME NEW S, NEW s \in Seq(S), NEW d \in S
  PROVE  Appends(S, s, d)
BY DEF Appends

\* Four sequences in a row.
Four(a, b, c, d) == a \o b \o c \o d = a \o (b \o (c \o d))

\* The brackets around four sequences.
LEMMA FourRegroup ==
  ASSUME NEW S, NEW a \in Seq(S), NEW b \in Seq(S), NEW c \in Seq(S), NEW d \in Seq(S)
  PROVE  Four(a, b, c, d) /\ a \o b \o c \o d \in Seq(S)
<1> DEFINE ab == a \o b
           cd == c \o d
           abc == ab \o c
<1>1. ab \in Seq(S) /\ cd \in Seq(S)
  BY ConcatElements
<1>2. Regroups(a, b, cd)
  BY <1>1, Assoc
<1> HIDE DEF ab
<1>3. Regroups(ab, c, d) /\ abc \in Seq(S)
  BY <1>1, Assoc, ConcatElements
<1> HIDE DEF abc
<1>4. abc \o d \in Seq(S)
  BY <1>3, ConcatElements
<1> QED
  BY <1>2, <1>3, <1>4 DEF Four, Regroups, ab, cd, abc

===============================================================================
