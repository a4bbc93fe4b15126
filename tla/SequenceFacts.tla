---------------------------- MODULE SequenceFacts ----------------------------
(***************************************************************************)
(* What the operations on slices (append, cut off the head, concatenate,   *)
(* split) do to the elements of a sequence and to their being distinct,    *)
(* and induction over numbers, for what is defined by recursion on them.   *)
(***************************************************************************)
EXTENDS Integers, SequencesExt, Functions, WellFoundedInduction, SequenceTheorems, TLAPS

(* append(s, x) adds x to the elements, and keeps them distinct if x is new. *)
LEMMA AppendFacts ==
    ASSUME NEW S, NEW s \in Seq(S), NEW x \in S
    PROVE  /\ Append(s, x) \in Seq(S)
           /\ Range(Append(s, x)) = Range(s) \cup {x}
           /\ IsInjective(s) /\ x \notin Range(s) => IsInjective(Append(s, x))
<1>1. Append(s, x) \in Seq(S) /\ Len(Append(s, x)) = Len(s) + 1
  OBVIOUS
<1>2. \A i \in 1 .. Len(s) : Append(s, x)[i] = s[i]
  OBVIOUS
<1>3. Append(s, x)[Len(s) + 1] = x
  OBVIOUS
<1>4. DOMAIN s = 1 .. Len(s) /\ DOMAIN Append(s, x) = 1 .. Len(s) + 1
  BY <1>1
<1>5. Range(Append(s, x)) = Range(s) \cup {x}
  BY <1>1, <1>2, <1>3, <1>4 DEF Range
<1>6. IsInjective(s) /\ x \notin Range(s) => IsInjective(Append(s, x))
  BY <1>1, <1>2, <1>3, <1>4 DEF Range, IsInjective
<1> QED
  BY <1>1, <1>5, <1>6

(* Cutting off the head of a sequence of distinct elements removes it. *)
LEMMA TailFacts ==
    ASSUME NEW S, NEW s \in Seq(S), s /= <<>>
    PROVE  /\ Head(s) \in S /\ Tail(s) \in Seq(S)
           /\ Head(s) \in Range(s)
           /\ Range(s) = {Head(s)} \cup Range(Tail(s))
           /\ IsInjective(s) => IsInjective(Tail(s)) /\ Head(s) \notin Range(Tail(s))
<1>1. Head(s) = s[1] /\ Head(s) \in S /\ Tail(s) \in Seq(S) /\ Len(s) \in Nat \ {0}
  OBVIOUS
<1>2. Len(Tail(s)) = Len(s) - 1 /\ \A i \in 1 .. Len(s) - 1 : Tail(s)[i] = s[i + 1]
  OBVIOUS
<1>3. DOMAIN s = 1 .. Len(s) /\ DOMAIN Tail(s) = 1 .. Len(s) - 1
  BY <1>1, <1>2
<1>4. Head(s) \in Range(s)
  BY <1>1, <1>3 DEF Range
<1>5. Range(s) = {Head(s)} \cup Range(Tail(s))
  <2>1. ASSUME NEW i \in 1 .. Len(s)
        PROVE  s[i] \in {Head(s)} \cup Range(Tail(s))
    <3>1. CASE i = 1
      BY <3>1, <1>1
    <3>2. CASE i /= 1
      <4>1. i - 1 \in 1 .. Len(s) - 1 /\ Tail(s)[i - 1] = s[i]
        BY <3>2, <1>1, <1>2
      <4> QED
        BY <4>1, <1>3 DEF Range
    <3> QED
      BY <3>1, <3>2
  <2>2. ASSUME NEW i \in 1 .. Len(s) - 1
        PROVE  Tail(s)[i] \in Range(s)
    <3>1. i + 1 \in 1 .. Len(s)
      BY <1>1
    <3> QED
      BY <3>1, <1>2, <1>3 DEF Range
  <2> QED
    BY <2>1, <2>2, <1>3, <1>4 DEF Range
<1>6. IsInjective(s) => IsInjective(Tail(s)) /\ Head(s) \notin Range(Tail(s))
  BY <1>1, <1>2, <1>3 DEF Range, IsInjective
<1> QED
  BY <1>1, <1>4, <1>5, <1>6

(* The elements of a concatenation by their index (tasks of getToProcessTasks). *)
LEMMA ConcatIndex ==
    ASSUME NEW S, NEW s \in Seq(S), NEW u \in Seq(S)
    PROVE  /\ Len(s \o u) = Len(s) + Len(u)
           /\ \A i \in 1 .. Len(s) : (s \o u)[i] = s[i]
           /\ \A i \in Len(s) + 1 .. Len(s) + Len(u) : (s \o u)[i] = u[i - Len(s)]
<1>1. Len(s \o u) = Len(s) + Len(u)
  OBVIOUS
<1>2. \A i \in 1 .. Len(s) : (s \o u)[i] = s[i]
  OBVIOUS
<1>3. \A i \in 1 .. Len(u) : (s \o u)[Len(s) + i] = u[i]
  OBVIOUS
<1>4. ASSUME NEW i \in Len(s) + 1 .. Len(s) + Len(u)
      PROVE  (s \o u)[i] = u[i - Len(s)]
  <2>1. i - Len(s) \in 1 .. Len(u) /\ Len(s) + (i - Len(s)) = i
    OBVIOUS
  <2> QED
    BY <1>3, <2>1
<1> QED
  BY <1>1, <1>2, <1>4

(* Concatenating two sequences joins their elements. *)
LEMMA ConcatFacts ==
    ASSUME NEW S, NEW s \in Seq(S), NEW u \in Seq(S)
    PROVE  /\ s \o u \in Seq(S)
           /\ Range(s \o u) = Range(s) \cup Range(u)
           /\ IsInjective(s) /\ IsInjective(u) /\ Range(s) \cap Range(u) = {}
                => IsInjective(s \o u)
<1>1. s \o u \in Seq(S) /\ Len(s \o u) = Len(s) + Len(u)
  OBVIOUS
<1>2. \A i \in 1 .. Len(s) : (s \o u)[i] = s[i]
  OBVIOUS
<1>3. \A i \in 1 .. Len(u) : (s \o u)[Len(s) + i] = u[i]
  OBVIOUS
<1>4. \A i \in 1 .. Len(s) + Len(u) :
         i \in 1 .. Len(s) \/ i - Len(s) \in 1 .. Len(u)
  OBVIOUS
<1>5. /\ DOMAIN s = 1 .. Len(s) /\ DOMAIN u = 1 .. Len(u)
      /\ DOMAIN (s \o u) = 1 .. Len(s) + Len(u)
  BY <1>1
<1>6. \A i \in 1 .. Len(s) + Len(u) :
         i - Len(s) \in 1 .. Len(u) => (s \o u)[i] = u[i - Len(s)]
  BY <1>3
<1>7. Range(s \o u) \subseteq Range(s) \cup Range(u)
  BY <1>2, <1>4, <1>5, <1>6 DEF Range
<1>8. Range(s) \subseteq Range(s \o u)
  BY <1>2, <1>5 DEF Range
<1>9. Range(u) \subseteq Range(s \o u)
  <2> SUFFICES ASSUME NEW i \in 1 .. Len(u)
               PROVE  u[i] \in Range(s \o u)
    BY <1>5 DEF Range
  <2>1. Len(s) + i \in 1 .. Len(s) + Len(u)
    OBVIOUS
  <2> QED
    BY <2>1, <1>3, <1>5 DEF Range
<1>10. ASSUME IsInjective(s), IsInjective(u), Range(s) \cap Range(u) = {}
       PROVE  IsInjective(s \o u)
  <2> DEFINE c == s \o u
  <2>1. SUFFICES ASSUME NEW i \in 1 .. Len(s) + Len(u), NEW j \in 1 .. Len(s) + Len(u),
                        c[i] = c[j]
                 PROVE  i = j
    BY <1>5 DEF IsInjective
  <2>2. \A k \in 1 .. Len(s), l \in 1 .. Len(u) : s[k] /= u[l]
    BY <1>5, <1>10 DEF Range
  <2>3. CASE i \in 1 .. Len(s) /\ j \in 1 .. Len(s)
    BY <2>1, <2>3, <1>2, <1>5, <1>10 DEF IsInjective
  <2>4. CASE i - Len(s) \in 1 .. Len(u) /\ j - Len(s) \in 1 .. Len(u)
    <3>1. u[i - Len(s)] = u[j - Len(s)]
      BY <2>1, <2>4, <1>6
    <3>2. i - Len(s) = j - Len(s)
      BY <3>1, <2>4, <1>5, <1>10 DEF IsInjective
    <3> QED
      BY <3>2
  <2>5. CASE i \in 1 .. Len(s) /\ j - Len(s) \in 1 .. Len(u)
    BY <2>1, <2>2, <2>5, <1>2, <1>6
  <2>6. CASE i - Len(s) \in 1 .. Len(u) /\ j \in 1 .. Len(s)
    BY <2>1, <2>2, <2>6, <1>2, <1>6
  <2> QED
    BY <2>3, <2>4, <2>5, <2>6, <1>4
<1> QED
  BY <1>1, <1>7, <1>8, <1>9, <1>10

(* Splitting a sequence after n elements splits its elements, and distinct *)
(* elements stay distinct.                                                 *)
LEMMA SplitFacts ==
    ASSUME NEW S, NEW s \in Seq(S), NEW n \in 0 .. Len(s)
    PROVE  LET front == SubSeq(s, 1, n)
               rest == SubSeq(s, n + 1, Len(s))
           IN  /\ front \in Seq(S) /\ rest \in Seq(S)
               /\ Len(front) = n /\ Len(rest) = Len(s) - n
               /\ \A i \in 1 .. n : front[i] = s[i]
               /\ \A i \in 1 .. Len(rest) : rest[i] = s[i + n]
               /\ Range(s) = Range(front) \cup Range(rest)
               /\ IsInjective(s) =>
                     /\ IsInjective(front) /\ IsInjective(rest)
                     /\ Range(front) \cap Range(rest) = {}
<1> DEFINE front == SubSeq(s, 1, n)
           rest == SubSeq(s, n + 1, Len(s))
<1>1. front \in Seq(S) /\ rest \in Seq(S) /\ Len(front) = n /\ Len(rest) = Len(s) - n
  OBVIOUS
<1>2. \A i \in 1 .. n : front[i] = s[i]
  OBVIOUS
<1>3. \A i \in 1 .. Len(s) - n : rest[i] = s[i + n]
  OBVIOUS
<1>4. /\ DOMAIN s = 1 .. Len(s) /\ DOMAIN front = 1 .. n
      /\ DOMAIN rest = 1 .. Len(s) - n
  BY <1>1
<1> HIDE DEF front, rest
<1>5. Range(front) \subseteq Range(s)
  BY <1>2, <1>4 DEF Range
<1>6. Range(rest) \subseteq Range(s)
  <2> SUFFICES ASSUME NEW i \in 1 .. Len(s) - n
               PROVE  rest[i] \in Range(s)
    BY <1>4 DEF Range
  <2>1. i + n \in 1 .. Len(s)
    OBVIOUS
  <2> QED
    BY <2>1, <1>3, <1>4 DEF Range
<1>7. Range(s) \subseteq Range(front) \cup Range(rest)
  <2> SUFFICES ASSUME NEW i \in 1 .. Len(s)
               PROVE  s[i] \in Range(front) \cup Range(rest)
    BY <1>4 DEF Range
  <2>1. CASE i <= n
    BY <2>1, <1>2, <1>4 DEF Range
  <2>2. CASE i > n
    <3>1. i - n \in 1 .. Len(s) - n /\ rest[i - n] = s[i]
      BY <2>2, <1>3
    <3> QED
      BY <3>1, <1>4 DEF Range
  <2> QED
    BY <2>1, <2>2
<1>8. ASSUME IsInjective(s)
      PROVE  IsInjective(front) /\ IsInjective(rest) /\ Range(front) \cap Range(rest) = {}
  <2>1. \A i, j \in 1 .. Len(s) : s[i] = s[j] => i = j
    BY <1>4, <1>8 DEF IsInjective
  <2>2. IsInjective(front)
    BY <2>1, <1>2, <1>4 DEF IsInjective
  <2>3. IsInjective(rest)
    <3> SUFFICES ASSUME NEW i \in 1 .. Len(s) - n, NEW j \in 1 .. Len(s) - n,
                        rest[i] = rest[j]
                 PROVE  i = j
      BY <1>4 DEF IsInjective
    <3>1. i + n \in 1 .. Len(s) /\ j + n \in 1 .. Len(s) /\ s[i + n] = s[j + n]
      BY <1>3
    <3>2. i + n = j + n
      BY <3>1, <2>1
    <3> QED
      BY <3>2
  <2>4. ASSUME NEW i \in 1 .. n, NEW j \in 1 .. Len(s) - n
        PROVE  front[i] /= rest[j]
    <3>1. i \in 1 .. Len(s) /\ j + n \in 1 .. Len(s) /\ i /= j + n
      OBVIOUS
    <3> QED
      BY <3>1, <2>1, <1>2, <1>3
  <2>5. Range(front) \cap Range(rest) = {}
    BY <2>4, <1>4 DEF Range
  <2> QED
    BY <2>2, <2>3, <2>5
<1> QED
  BY <1>1, <1>2, <1>3, <1>5, <1>6, <1>7, <1>8 DEF front, rest

(* What is cut off and what remains are what there was. *)
LEMMA SplitJoins ==
  ASSUME NEW S, NEW s \in Seq(S), NEW n \in 0 .. Len(s)
  PROVE  SubSeq(s, 1, n) \o SubSeq(s, n + 1, Len(s)) = s
<1> DEFINE f == SubSeq(s, 1, n)
           r == SubSeq(s, n + 1, Len(s))
<1>1. /\ f \in Seq(S) /\ r \in Seq(S) /\ Len(f) = n /\ Len(r) = Len(s) - n
      /\ \A i \in 1 .. n : f[i] = s[i]
      /\ \A i \in 1 .. Len(r) : r[i] = s[i + n]
  BY SplitFacts
<1> HIDE DEF f, r
<1>2. f \o r \in Seq(S) /\ Len(f \o r) = Len(s) /\ Len(s) \in Nat /\ n \in Nat
  <2>1. f \o r \in Seq(S) /\ Len(f \o r) = Len(f) + Len(r)
    BY ONLY <1>1, ConcatProperties
  <2>2. Len(s) \in Nat /\ n \in Nat
    OBVIOUS
  <2>3. n + (Len(s) - n) = Len(s)
    BY ONLY <2>2
  <2> QED
    BY ONLY <1>1, <2>1, <2>2, <2>3
<1>3. ASSUME NEW i \in 1 .. Len(s) PROVE (f \o r)[i] = s[i]
  <2>1. CASE i <= n
    <3>1. (f \o r)[i] = f[i]
      BY <2>1, <1>1
    <3> QED
      BY <2>1, <3>1, <1>1
  <2>2. CASE i > n
    <3>1. (f \o r)[i] = r[i - n] /\ i - n \in 1 .. Len(r) /\ (i - n) + n = i
      BY <2>2, <1>1
    <3>2. r[i - n] = s[(i - n) + n]
      BY ONLY <3>1, <1>1
    <3> QED
      BY <3>1, <3>2
  <2> QED
    BY <1>2, <2>1, <2>2
<1>4. f \o r = s
  BY <1>2, <1>3, SeqEqual
<1> QED
  BY <1>4 DEF f, r

-----------------------------------------------------------------------------
(* Induction, by the least counterexample.                                 *)

LEMMA LeastElement ==
  \A T \in SUBSET Nat : T # {} => \E x \in T : \A y \in T : x <= y
<1> SUFFICES ASSUME NEW T \in SUBSET Nat, T # {} PROVE \E x \in T : \A y \in T : x <= y
  OBVIOUS
<1>1. IsWellFoundedOn(OpToRel(<, Nat), Nat)
  BY NatLessThanWellFounded
<1>2. PICK x \in T : \A y \in T : ~ (<<y, x>> \in OpToRel(<, Nat))
  BY <1>1, WFMin
<1>3. \A y \in T : ~ (y < x)
  BY <1>2 DEF OpToRel
<1> QED
  BY <1>3

\* Whatever holds of 0 and is passed on up to n holds up to n.
LEMMA UpTo ==
  ASSUME NEW n \in Nat, NEW T, 0 \in T, \A t \in 1 .. n : t - 1 \in T => t \in T
  PROVE  \A t \in 0 .. n : t \in T
<1> SUFFICES ASSUME (0 .. n) \ T # {} PROVE FALSE
  OBVIOUS
<1> DEFINE U == (0 .. n) \ T
<1>1. PICK x \in U : \A y \in U : x <= y
  <2>1. U \in SUBSET Nat /\ U # {}
    OBVIOUS
  <2> HIDE DEF U
  <2> QED
    BY <2>1, LeastElement
<1>2. x \in 1 .. n /\ x - 1 \in T
  BY <1>1
<1> QED
  BY <1>2, <1>1

\* step takes the value of a function at t - 1 to its value at t.
Closed(step, n, S) == \A t \in 1 .. n : \A x \in S : step[t][x] \in S
Solves(g, step, n, b) == g[0] = b /\ \A t \in 1 .. n : g[t] = step[t][g[t - 1]]

\* A function defined by recursion exists and stays in the set its steps stay in.
LEMMA RecursionExists ==
  ASSUME NEW n \in Nat, NEW S, NEW b \in S, NEW step, Closed(step, n, S)
  PROVE  \E g \in [0 .. n -> S] : Solves(g, step, n, b)
<1> USE DEF Closed
<1> DEFINE Up(g, m) == g \in [0 .. m -> S] /\ g[0] = b /\ \A t \in 1 .. m : g[t] = step[t][g[t - 1]]
           T == {m \in 0 .. n : \E g : Up(g, m)}
<1>1. 0 \in T
  <2> DEFINE k == [t \in 0 .. 0 |-> b]
  <2>1. k \in [0 .. 0 -> S] /\ k[0] = b
    OBVIOUS
  <2>2. \A t \in 1 .. 0 : FALSE
    OBVIOUS
  <2> HIDE DEF k
  <2>3. Up(k, 0)
    BY <2>1, <2>2
  <2> QED
    BY <2>3
<1>2. ASSUME NEW m \in 1 .. n, m - 1 \in T PROVE m \in T
  <2>1. PICK g : Up(g, m - 1)
    BY <1>2
  <2> DEFINE h == [t \in 0 .. m |-> IF t = m THEN step[m][g[m - 1]] ELSE g[t]]
  <2>2. h \in [0 .. m -> S]
    BY <2>1
  <2>3. h[0] = b
    BY <2>1
  <2>4. ASSUME NEW t \in 1 .. m PROVE h[t] = step[t][h[t - 1]]
    <3>1. CASE t = m
      BY <3>1
    <3>2. CASE t # m
      BY <2>1, <3>2
    <3> QED
      BY <3>1, <3>2
  <2> HIDE DEF h
  <2>5. Up(h, m)
    BY <2>2, <2>3, <2>4
  <2> QED
    BY <2>5
<1>3. n \in T
  <2> HIDE DEF T
  <2> QED
    BY <1>1, <1>2, UpTo
<1> QED
  BY <1>3 DEF Solves
-----------------------------------------------------------------------------
(* FlattenSeq: the rows made of a batch, one after the other.              *)

\* What it appends in t steps.
Partial(F, seqs) == /\ F[0] = <<>>
                    /\ \A t \in 1 .. Len(seqs) : F[t] = F[t - 1] \o seqs[t]

LEMMA FlattenSteps ==
  ASSUME NEW S, NEW seqs \in Seq(Seq(S))
  PROVE  \E F \in [0 .. Len(seqs) -> Seq(S)] : Partial(F, seqs) /\ FlattenSeq(seqs) = F[Len(seqs)]
<1> DEFINE n == Len(seqs)
           step == [t \in 1 .. n |-> [x \in Seq(S) |-> x \o seqs[t]]]
<1>1. n \in Nat /\ \A t \in 1 .. n : seqs[t] \in Seq(S)
  OBVIOUS
<1>2. \A t \in 1 .. n : \A x \in Seq(S) : step[t][x] = x \o seqs[t] /\ step[t][x] \in Seq(S)
  BY <1>1
<1> HIDE DEF n, step
<1>3. PICK F \in [0 .. n -> Seq(S)] : Solves(F, step, n, <<>>)
  <2>1. Closed(step, n, Seq(S)) /\ <<>> \in Seq(S)
    BY <1>2 DEF Closed
  <2> QED
    BY ONLY <2>1, <1>1, RecursionExists
<1>4. F[0] = <<>> /\ \A t \in 1 .. n : F[t] = F[t - 1] \o seqs[t] /\ F[t - 1] \in Seq(S) /\ F[t] \in Seq(S)
  <2>1. ASSUME NEW t \in 1 .. n PROVE F[t - 1] \in Seq(S) /\ F[t] \in Seq(S)
    BY <1>1
  <2> QED
    BY <1>2, <1>3, <2>1 DEF Solves
<1>5. Partial(F, seqs)
  BY <1>4 DEF Partial, n
<1>7. 1 \in 1 .. n => F[1] = seqs[1]
  <2> HAVE 1 \in 1 .. n
  <2>1. F[1] = F[1 - 1] \o seqs[1] /\ seqs[1] \in Seq(S)
    BY <1>4, <1>1
  <2>2. 1 - 1 = 0
    OBVIOUS
  <2>3. F[1] = <<>> \o seqs[1]
    BY ONLY <2>1, <2>2, <1>4, Zenon
  <2>4. <<>> \o seqs[1] = seqs[1]
    BY <2>1
  <2> QED
    BY ONLY <2>3, <2>4, Zenon
<1>6. FlattenSeq(seqs) = F[n]
  <2>1. CASE n = 0
    BY <2>1, <1>4 DEF FlattenSeq, n
  <2>2. CASE n # 0
    <3> DEFINE g == [t \in 1 .. n |-> F[t]]
               Equation(f) == f = [t \in 1 .. n |-> IF t = 1 THEN seqs[t] ELSE f[t - 1] \o seqs[t]]
               flatten[t \in 1 .. n] == IF t = 1 THEN seqs[t] ELSE flatten[t - 1] \o seqs[t]
    <3>1. ASSUME NEW t \in 1 .. n PROVE g[t] = IF t = 1 THEN seqs[t] ELSE g[t - 1] \o seqs[t]
      <4>1. CASE t = 1
        BY <4>1, <1>7
      <4>2. CASE t # 1
        <5>1. t - 1 \in 1 .. n
          BY <4>2, <1>1
        <5>3. F[t] = F[t - 1] \o seqs[t]
          BY ONLY <1>4, Zenon
        <5>2. g[t] = F[t] /\ g[t - 1] = F[t - 1]
          BY <5>1
        <5> QED
          BY ONLY <4>2, <5>3, <5>2, Zenon
      <4> QED
        BY <4>1, <4>2
    <3>2. Equation(g)
      BY <3>1
    <3>3. Equation(flatten)
      BY <3>2
    <3> HIDE DEF flatten
    <3> DEFINE T == {t \in 0 .. n : t # 0 => flatten[t] = F[t]}
    <3>4. \A t \in 1 .. n : flatten[t] = IF t = 1 THEN seqs[t] ELSE flatten[t - 1] \o seqs[t]
      BY <3>3
    <3>5. ASSUME NEW t \in 1 .. n, t - 1 \in T PROVE t \in T
      <4>1. CASE t = 1
        BY <4>1, <1>7, <3>4
      <4>2. CASE t # 1
        <5>1. flatten[t - 1] = F[t - 1]
          BY <4>2, <3>5
        <5>2. F[t] = F[t - 1] \o seqs[t] /\ flatten[t] = flatten[t - 1] \o seqs[t]
          BY ONLY <4>2, <1>4, <3>4, Zenon
        <5>3. flatten[t] = F[t]
          BY ONLY <5>1, <5>2, Zenon
        <5> QED
          BY <5>3
      <4> QED
        BY <4>1, <4>2
    <3>6. \A t \in 0 .. n : t \in T
      <4>1. 0 \in T
        BY <1>1
      <4> HIDE DEF T
      <4> QED
        BY ONLY <4>1, <3>5, <1>1, UpTo
    <3>7. flatten[n] = F[n]
      BY <3>6, <2>2, <1>1
    <3> QED
      BY <3>7, <2>2 DEF FlattenSeq, flatten, n
  <2> QED
    BY <2>1, <2>2
<1> QED
  BY <1>5, <1>6 DEF n

LEMMA FlattenType ==
  ASSUME NEW S, NEW seqs \in Seq(Seq(S))
  PROVE  FlattenSeq(seqs) \in Seq(S)
<1>1. PICK F \in [0 .. Len(seqs) -> Seq(S)] : FlattenSeq(seqs) = F[Len(seqs)]
  BY FlattenSteps
<1>2. Len(seqs) \in 0 .. Len(seqs)
  OBVIOUS
<1> QED
  BY <1>1, <1>2

LEMMA FlattenConcat ==
  ASSUME NEW S, NEW s \in Seq(Seq(S)), NEW u \in Seq(Seq(S))
  PROVE  FlattenSeq(s \o u) = FlattenSeq(s) \o FlattenSeq(u)
<1> DEFINE c == s \o u
           m == Len(s)
           n == Len(u)
<1>1. m \in Nat /\ n \in Nat /\ c \in Seq(Seq(S)) /\ Len(c) = m + n
  OBVIOUS
<1>2. /\ \A t \in 1 .. m : c[t] = s[t] /\ s[t] \in Seq(S)
      /\ \A t \in 1 .. n : c[m + t] = u[t] /\ u[t] \in Seq(S)
  OBVIOUS
<1> HIDE DEF c
<1>3. PICK F \in [0 .. m -> Seq(S)] : Partial(F, s) /\ FlattenSeq(s) = F[m]
  BY FlattenSteps
<1>4. PICK G \in [0 .. n -> Seq(S)] : Partial(G, u) /\ FlattenSeq(u) = G[n]
  BY FlattenSteps
<1>5. PICK H \in [0 .. m + n -> Seq(S)] : Partial(H, c) /\ FlattenSeq(c) = H[m + n]
  BY <1>1, FlattenSteps
<1> HIDE DEF m, n
<1>6. /\ F[0] = <<>> /\ G[0] = <<>> /\ H[0] = <<>>
      /\ \A t \in 1 .. m : F[t] = F[t - 1] \o s[t]
      /\ \A t \in 1 .. n : G[t] = G[t - 1] \o u[t]
      /\ \A t \in 1 .. m + n : H[t] = H[t - 1] \o c[t]
  BY <1>1, <1>3, <1>4, <1>5 DEF Partial, m, n
<1>7. \A t \in 0 .. m : H[t] = F[t]
  <2> DEFINE T == {t \in 0 .. m : H[t] = F[t]}
  <2>1. 0 \in T
    BY <1>1, <1>6
  <2>2. ASSUME NEW t \in 1 .. m, t - 1 \in T PROVE t \in T
    <3>1. t \in 1 .. m + n /\ c[t] = s[t]
      BY <1>1, <1>2
    <3>2. H[t] = H[t - 1] \o s[t] /\ F[t] = F[t - 1] \o s[t] /\ H[t - 1] = F[t - 1]
      BY ONLY <2>2, <3>1, <1>6, Zenon
    <3>3. H[t] = F[t]
      BY ONLY <3>2, Zenon
    <3> QED
      BY <3>3
  <2> HIDE DEF T
  <2>3. \A t \in 0 .. m : t \in T
    BY ONLY <2>1, <2>2, <1>1, UpTo
  <2> QED
    BY <2>3 DEF T
<1>8. \A t \in 0 .. n : H[m + t] = F[m] \o G[t]
  <2> DEFINE T == {t \in 0 .. n : H[m + t] = F[m] \o G[t]}
  <2>0. F[m] \in Seq(S)
    BY <1>1
  <2>1. 0 \in T
    <3>1. H[m] = F[m] /\ m + 0 = m
      BY <1>1, <1>7
    <3>2. F[m] \o <<>> = F[m]
      BY <2>0
    <3>3. H[m + 0] = F[m] \o G[0]
      BY ONLY <3>1, <3>2, <1>6, Zenon
    <3> QED
      BY <3>3, <1>1
  <2>2. ASSUME NEW t \in 1 .. n, t - 1 \in T PROVE t \in T
    <3>1. m + t \in 1 .. m + n /\ (m + t) - 1 = m + (t - 1) /\ c[m + t] = u[t]
      BY <1>1, <1>2
    <3>2. H[m + t] = H[(m + t) - 1] \o c[m + t]
      BY ONLY <3>1, <1>6, Zenon
    <3>3. H[m + (t - 1)] = F[m] \o G[t - 1]
      BY <2>2
    <3>4. H[m + t] = (F[m] \o G[t - 1]) \o u[t]
      BY ONLY <3>1, <3>2, <3>3, Zenon
    <3>5. G[t - 1] \in Seq(S) /\ u[t] \in Seq(S)
      <4>1. t - 1 \in 0 .. n
        BY <1>1
      <4> QED
        BY <4>1, <1>2
    <3>6. (F[m] \o G[t - 1]) \o u[t] = F[m] \o (G[t - 1] \o u[t])
      <4>1. \A x, y, z \in Seq(S) : (x \o y) \o z = x \o (y \o z)
        <5> TAKE x, y, z \in Seq(S)
        <5> QED
          BY ONLY x \in Seq(S), y \in Seq(S), z \in Seq(S), ConcatAssociative, SMTT(60)
      <4> QED
        BY ONLY <2>0, <3>5, <4>1, Zenon
    <3>7. G[t] = G[t - 1] \o u[t]
      BY ONLY <1>6, Zenon
    <3>8. H[m + t] = F[m] \o G[t]
      BY ONLY <3>4, <3>6, <3>7, Zenon
    <3> QED
      <4>1. t \in 0 .. n
        BY <1>1
      <4> QED
        BY <4>1, <3>8
  <2> HIDE DEF T
  <2>3. \A t \in 0 .. n : t \in T
    BY ONLY <2>1, <2>2, <1>1, UpTo
  <2> QED
    BY <2>3 DEF T
<1>9. n \in 0 .. n
  BY <1>1
<1> QED
  BY ONLY <1>3, <1>4, <1>5, <1>8, <1>9, Zenon DEF c

LEMMA FlattenNothing ==
  ASSUME NEW n \in Nat
  PROVE  FlattenSeq([i \in 1 .. n |-> <<>>]) = <<>>
<1> DEFINE s == [i \in 1 .. n |-> <<>>]
<1>1. s \in Seq(Seq({})) /\ Len(s) = n
  <2>1. <<>> \in Seq({})
    OBVIOUS
  <2> QED
    BY <2>1
<1> HIDE DEF s
<1>2. FlattenSeq(s) \in Seq({})
  BY <1>1, FlattenType
<1>3. \A u \in Seq({}) : u = <<>>
  OBVIOUS
<1> QED
  BY ONLY <1>2, <1>3, Zenon DEF s

(* What is flattened has the elements of its parts. *)
LEMMA FlattenRange ==
  ASSUME NEW S, NEW seqs \in Seq(Seq(S)), NEW x
  PROVE  x \in Range(FlattenSeq(seqs)) <=> \E t \in 1 .. Len(seqs) : x \in Range(seqs[t])
<1> DEFINE n == Len(seqs)
<1>1. n \in Nat /\ \A t \in 1 .. n : seqs[t] \in Seq(S)
  OBVIOUS
<1>2. PICK F \in [0 .. n -> Seq(S)] : Partial(F, seqs) /\ FlattenSeq(seqs) = F[n]
  BY FlattenSteps
<1> HIDE DEF n
<1> DEFINE T == {k \in 0 .. n : x \in Range(F[k]) <=> \E t \in 1 .. k : x \in Range(seqs[t])}
<1>3. 0 \in T
  <2>1. F[0] = <<>> /\ 0 \in 0 .. n
    BY <1>1, <1>2 DEF Partial
  <2>2. x \notin Range(<<>>)
    BY DEF Range
  <2> QED
    BY <2>1, <2>2
<1>4. ASSUME NEW k \in 1 .. n, k - 1 \in T PROVE k \in T
  <2>1. k - 1 \in 0 .. n /\ F[k - 1] \in Seq(S) /\ seqs[k] \in Seq(S)
    BY <1>1, <1>2
  <2>2. F[k] = F[k - 1] \o seqs[k]
    BY <1>2 DEF Partial, n
  <2>3. Range(F[k]) = Range(F[k - 1]) \cup Range(seqs[k])
    BY <2>1, <2>2, ConcatFacts
  <2>4. \A t \in 1 .. k : t \in 1 .. k - 1 \/ t = k
    BY <1>1
  <2>5. k \in 1 .. k /\ k \in 0 .. n /\ \A t \in 1 .. k - 1 : t \in 1 .. k
    BY <1>1
  <2> QED
    BY <1>4, <2>3, <2>4, <2>5
<1>5. n \in T
  <2> HIDE DEF T
  <2>1. \A k \in 0 .. n : k \in T
    BY <1>1, <1>3, <1>4, UpTo
  <2> QED
    BY <1>1, <2>1
<1> QED
  BY <1>2, <1>5 DEF n

\* What f makes of each element of s, in order.
Mapped(f, s) == [i \in DOMAIN s |-> f[s[i]]]
Maps(f, S, T) == \A x \in S : f[x] \in T

LEMMA MapConcat ==
  ASSUME NEW S, NEW T, NEW f, Maps(f, S, T), NEW s \in Seq(S), NEW u \in Seq(S)
  PROVE  /\ Mapped(f, s) \in Seq(T) /\ Mapped(f, u) \in Seq(T)
         /\ Mapped(f, s \o u) = Mapped(f, s) \o Mapped(f, u)
<1> DEFINE c == s \o u
           fs == [i \in DOMAIN s |-> f[s[i]]]
           fu == [i \in DOMAIN u |-> f[u[i]]]
           fc == [i \in DOMAIN c |-> f[c[i]]]
<1>1. fs \in Seq(T) /\ Len(fs) = Len(s) /\ fu \in Seq(T) /\ Len(fu) = Len(u)
  BY DEF Maps
<1>2. c \in Seq(S) /\ Len(c) = Len(s) + Len(u)
  OBVIOUS
<1>3. fc \in Seq(T) /\ Len(fc) = Len(s) + Len(u)
  <2> HIDE DEF c
  <2> QED
    BY <1>2 DEF Maps
<1>4. (fs \o fu) \in Seq(T) /\ Len(fs \o fu) = Len(s) + Len(u)
  <2> HIDE DEF fs, fu
  <2> QED
    BY <1>1
<1>5. ASSUME NEW i \in 1 .. Len(s) + Len(u) PROVE fc[i] = (fs \o fu)[i]
  <2>1. CASE i <= Len(s)
    <3>1. c[i] = s[i] /\ i \in DOMAIN s /\ i \in DOMAIN c
      BY <2>1
    <3>2. (fs \o fu)[i] = fs[i]
      <4> HIDE DEF fs, fu
      <4> QED
        BY <2>1, <1>1
    <3> HIDE DEF c
    <3> QED
      BY <3>1, <3>2
  <2>2. CASE i > Len(s)
    <3>1. c[i] = u[i - Len(s)] /\ i - Len(s) \in DOMAIN u /\ i \in DOMAIN c
      BY <2>2
    <3>2. (fs \o fu)[i] = fu[i - Len(s)]
      <4> HIDE DEF fs, fu
      <4> QED
        BY <2>2, <1>1
    <3> HIDE DEF c
    <3> QED
      BY <3>1, <3>2
  <2> QED
    BY <2>1, <2>2
<1>6. fc = fs \o fu
  <2> HIDE DEF fc, fs, fu
  <2> QED
    BY <1>3, <1>4, <1>5, SeqEqual
<1> QED
  BY <1>1, <1>6 DEF Mapped

-----------------------------------------------------------------------------
\* The elements of s that are not gone, in order.
LeftOver(s, gone) == FlattenSeq([i \in DOMAIN s |-> IF s[i] \in gone THEN <<>> ELSE <<s[i]>>])

LEMMA LeftOverFacts ==
  ASSUME NEW S, NEW s \in Seq(S), NEW gone
  PROVE  /\ LeftOver(s, gone) \in Seq(S)
         /\ Range(LeftOver(s, gone)) \subseteq Range(s) \ gone
         /\ IsInjective(s) => IsInjective(LeftOver(s, gone))
<1> DEFINE seqs == [i \in DOMAIN s |-> IF s[i] \in gone THEN <<>> ELSE <<s[i]>>]
           n == Len(s)
<1>1. s \in [1 .. n -> S] /\ n \in Nat
  OBVIOUS
<1>2. seqs \in Seq(Seq(S)) /\ Len(seqs) = n
  <2>1. <<>> \in Seq(S) /\ \A x \in S : <<x>> \in Seq(S)
    OBVIOUS
  <2>2. seqs \in [1 .. n -> Seq(S)]
    BY <1>1, <2>1
  <2> HIDE DEF seqs
  <2> QED
    BY <1>1, <2>2
<1>3. \A i \in 1 .. n : seqs[i] = IF s[i] \in gone THEN <<>> ELSE <<s[i]>>
  BY <1>1
<1> HIDE DEF seqs, n
<1>4. PICK F \in [0 .. n -> Seq(S)] : Partial(F, seqs) /\ FlattenSeq(seqs) = F[n]
  BY <1>2, FlattenSteps
<1> DEFINE Good(t) == /\ Range(F[t]) \subseteq {s[i] : i \in 1 .. t} \ gone
                      /\ IsInjective(s) => IsInjective(F[t])
           T == {t \in 0 .. n : Good(t)}
<1>5. 0 \in T
  <2>1. F[0] = <<>>
    BY <1>4 DEF Partial
  <2> QED
    BY <1>1, <2>1 DEF Range, IsInjective
<1>6. ASSUME NEW t \in 1 .. n, t - 1 \in T PROVE t \in T
  <2>1. t - 1 \in 0 .. n /\ t \in 0 .. n
    BY <1>1
  <2>2. PICK u \in Seq(S) : u = F[t - 1]
    BY <2>1, <1>4
  <2>3. F[t] = u \o seqs[t]
    BY <1>2, <1>4, <2>2 DEF Partial
  <2>4. /\ Range(u) \subseteq {s[i] : i \in 1 .. t - 1} \ gone
        /\ IsInjective(s) => IsInjective(u)
    BY <1>6, <2>2
  <2>5. {s[i] : i \in 1 .. t - 1} \subseteq {s[i] : i \in 1 .. t}
    BY <1>1
  <2>6. CASE s[t] \in gone
    <3>1. F[t] = u
      <4>1. u \o <<>> = u
        BY ConcatEmptySeq
      <4> QED
        BY <1>3, <2>3, <2>6, <4>1
    <3> QED
      BY <2>1, <2>4, <2>5, <3>1
  <2>7. CASE s[t] \notin gone
    <3>1. PICK x \in S : x = s[t]
      BY <1>1
    <3>2. F[t] = Append(u, x)
      <4>1. u \o <<x>> = Append(u, x)
        OBVIOUS
      <4> QED
        BY <1>3, <2>3, <2>7, <3>1, <4>1
    <3>3. Range(F[t]) = Range(u) \cup {x} /\ (IsInjective(u) /\ x \notin Range(u) => IsInjective(F[t]))
      BY <3>2, AppendFacts
    <3>4. Range(F[t]) \subseteq {s[i] : i \in 1 .. t} \ gone
      BY <2>4, <2>5, <2>7, <3>1, <3>3
    <3>5. IsInjective(s) => x \notin Range(u)
      <4>1. SUFFICES ASSUME IsInjective(s), x \in Range(u) PROVE FALSE
        OBVIOUS
      <4>2. PICK i \in 1 .. t - 1 : s[i] = s[t]
        BY <4>1, <2>4, <3>1
      <4>3. i \in 1 .. n /\ t \in 1 .. n /\ i # t
        BY <1>1
      <4> QED
        BY <4>1, <4>2, <4>3, <1>1 DEF IsInjective
    <3> QED
      BY <2>1, <2>4, <3>3, <3>4, <3>5
  <2> QED
    BY <2>6, <2>7
<1>7. n \in T
  <2> HIDE DEF T
  <2>1. \A t \in 0 .. n : t \in T
    BY <1>1, <1>5, <1>6, UpTo
  <2> QED
    BY <1>1, <2>1
<1>8. {s[i] : i \in 1 .. n} = Range(s)
  BY <1>1 DEF Range
<1>9. F[n] = LeftOver(s, gone)
  BY <1>4 DEF LeftOver, seqs
<1>10. F[n] \in Seq(S)
  BY <1>1
<1> QED
  BY <1>7, <1>8, <1>9, <1>10
-----------------------------------------------------------------------------
(* Where the elements of a flattened sequence are from, and paths.         *)

\* Of the first t of several sequences, F says what was appended, blk and pos where
\* each element is from: every place is met once, and those of a block in order.
Places(F, ss, t, blk, pos) ==
  /\ blk \in [1 .. Len(F) -> 1 .. t] /\ pos \in [1 .. Len(F) -> Nat]
  /\ \A i \in 1 .. Len(F) : pos[i] \in 1 .. Len(ss[blk[i]]) /\ F[i] = ss[blk[i]][pos[i]]
  /\ \A i, j \in 1 .. Len(F) : blk[i] = blk[j] /\ pos[i] = pos[j] => i = j
  /\ \A b \in 1 .. t : \A q \in 1 .. Len(ss[b]) : \E i \in 1 .. Len(F) : blk[i] = b /\ pos[i] = q
  /\ \A i \in 1 .. Len(F) : \A q \in 1 .. pos[i] - 1 :
       \E j \in 1 .. i - 1 : blk[j] = blk[i] /\ pos[j] = q

\* One more block is behind the others.
LEMMA PlacesGrow ==
  ASSUME NEW S, NEW ss \in Seq(Seq(S)), NEW t \in 1 .. Len(ss), NEW F \in Seq(S),
         NEW blk, NEW pos, Places(F, ss, t - 1, blk, pos)
  PROVE  \E b2, p2 : Places(F \o ss[t], ss, t, b2, p2)
<1> DEFINE l == Len(F)
          m == Len(ss[t])
          G == F \o ss[t]
          b2 == [i \in 1 .. l + m |-> IF i <= l THEN blk[i] ELSE t]
          p2 == [i \in 1 .. l + m |-> IF i <= l THEN pos[i] ELSE i - l]
<1>1. /\ l \in Nat /\ m \in Nat /\ t \in Nat /\ Len(G) = l + m /\ ss[t] \in Seq(S)
      /\ \A i \in 1 .. l : G[i] = F[i]
      /\ \A i \in 1 .. m : G[l + i] = ss[t][i]
  BY ConcatIndex
<1>2. /\ blk \in [1 .. l -> 1 .. t - 1] /\ pos \in [1 .. l -> Nat]
      /\ \A i \in 1 .. l : pos[i] \in 1 .. Len(ss[blk[i]]) /\ F[i] = ss[blk[i]][pos[i]]
      /\ \A i, j \in 1 .. l : blk[i] = blk[j] /\ pos[i] = pos[j] => i = j
      /\ \A b \in 1 .. t - 1 : \A q \in 1 .. Len(ss[b]) : \E i \in 1 .. l : blk[i] = b /\ pos[i] = q
      /\ \A i \in 1 .. l : \A q \in 1 .. pos[i] - 1 : \E j \in 1 .. i - 1 : blk[j] = blk[i] /\ pos[j] = q
  BY DEF Places
<1> HIDE DEF l, m, G
<1>3. /\ \A i \in 1 .. l : i \in 1 .. l + m /\ b2[i] = blk[i] /\ p2[i] = pos[i] /\ b2[i] \in 1 .. t - 1
      /\ \A i \in 1 .. m : l + i \in 1 .. l + m /\ b2[l + i] = t /\ p2[l + i] = i
      /\ \A i \in 1 .. l + m : i \in 1 .. l \/ (i - l \in 1 .. m /\ l + (i - l) = i)
      /\ t \notin 1 .. t - 1
  BY <1>1, <1>2
<1>4. b2 \in [1 .. l + m -> 1 .. t] /\ p2 \in [1 .. l + m -> Nat]
  <2>1. ASSUME NEW i \in 1 .. l + m
        PROVE  (IF i <= l THEN blk[i] ELSE t) \in 1 .. t /\ (IF i <= l THEN pos[i] ELSE i - l) \in Nat
    <3>1. CASE i <= l
      <4>1. i \in 1 .. l
        BY <1>1, <3>1
      <4>2. blk[i] \in 1 .. t - 1 /\ pos[i] \in Nat
        BY <1>2, <4>1
      <4> QED
        BY <1>1, <3>1, <4>2
    <3>2. CASE ~(i <= l)
      <4>1. i - l \in Nat /\ t \in 1 .. t
        BY <1>1, <3>2
      <4> QED
        BY <3>2, <4>1
    <3> QED
      BY <3>1, <3>2
  <2> QED
    BY <2>1
<1> HIDE DEF b2, p2
<1>5. ASSUME NEW i \in 1 .. l + m
      PROVE  p2[i] \in 1 .. Len(ss[b2[i]]) /\ G[i] = ss[b2[i]][p2[i]]
  <2>1. CASE i \in 1 .. l
    BY ONLY <1>1, <1>2, <1>3, <2>1, Zenon
  <2>2. CASE i - l \in 1 .. m /\ l + (i - l) = i
    <3> DEFINE k == i - l
    <3>1. k \in 1 .. m /\ l + k = i
      BY <2>2
    <3> HIDE DEF k
    <3>2. G[i] = ss[t][k] /\ b2[i] = t /\ p2[i] = k
      BY ONLY <1>1, <1>3, <3>1, Zenon
    <3> QED
      BY <3>1, <3>2 DEF m
  <2> QED
    BY <1>3, <2>1, <2>2
<1>6. ASSUME NEW i \in 1 .. l + m, NEW j \in 1 .. l + m, b2[i] = b2[j], p2[i] = p2[j]
      PROVE  i = j
  <2>1. CASE i \in 1 .. l /\ j \in 1 .. l
    <3>1. b2[i] = blk[i] /\ p2[i] = pos[i] /\ b2[j] = blk[j] /\ p2[j] = pos[j]
      BY <1>3, <2>1
    <3>2. blk[i] = blk[j] /\ pos[i] = pos[j]
      BY ONLY <1>6, <3>1, Zenon
    <3> QED
      BY <1>2, <2>1, <3>2
  <2>2. CASE i \in 1 .. l /\ j \notin 1 .. l
    BY <1>3, <1>6, <2>2
  <2>3. CASE i \notin 1 .. l /\ j \in 1 .. l
    BY <1>3, <1>6, <2>3
  <2>4. CASE i \notin 1 .. l /\ j \notin 1 .. l
    <3>1. p2[i] = i - l /\ p2[j] = j - l
      BY <1>3, <2>4
    <3>2. i - l = j - l /\ i \in Int /\ j \in Int
      <4>1. i - l = j - l
        BY ONLY <1>6, <3>1, Zenon
      <4> QED
        BY <4>1
    <3> QED
      BY <1>1, <3>2
  <2> QED
    BY <2>1, <2>2, <2>3, <2>4
<1>7. ASSUME NEW b \in 1 .. t, NEW q \in 1 .. Len(ss[b])
      PROVE  \E i \in 1 .. l + m : b2[i] = b /\ p2[i] = q
  <2>1. CASE b = t
    <3>1. q \in 1 .. m
      BY <2>1 DEF m
    <3> QED
      BY <1>3, <2>1, <3>1
  <2>2. CASE b # t
    <3>1. b \in 1 .. t - 1
      BY <1>1, <2>2
    <3>2. PICK i \in 1 .. l : blk[i] = b /\ pos[i] = q
      BY <1>2, <3>1
    <3> QED
      BY <1>3, <3>2
  <2> QED
    BY <2>1, <2>2
<1>8. ASSUME NEW i \in 1 .. l + m, NEW q \in 1 .. p2[i] - 1
      PROVE  \E j \in 1 .. i - 1 : b2[j] = b2[i] /\ p2[j] = q
  <2>1. CASE i \in 1 .. l
    <3>1. q \in 1 .. pos[i] - 1
      BY <1>3, <2>1
    <3>2. PICK j \in 1 .. i - 1 : blk[j] = blk[i] /\ pos[j] = q
      BY <1>2, <2>1, <3>1
    <3>3. j \in 1 .. l
      BY <1>1, <2>1
    <3> QED
      BY <1>3, <2>1, <3>2, <3>3
  <2>2. CASE i - l \in 1 .. m /\ l + (i - l) = i
    <3>1. p2[i] = i - l /\ b2[i] = t
      BY <1>3, <2>2
    <3>2. q \in 1 .. m /\ l + q \in 1 .. i - 1
      BY <1>1, <2>2, <3>1
    <3>3. b2[l + q] = t /\ p2[l + q] = q
      BY <1>3, <3>2
    <3> QED
      BY <3>1, <3>2, <3>3
  <2> QED
    BY <1>3, <2>1, <2>2
<1>9. Places(G, ss, t, b2, p2)
  BY ONLY <1>1, <1>4, <1>5, <1>6, <1>7, <1>8 DEF Places
<1> QED
  BY <1>9 DEF G

\* Every element of a flattened sequence is from one place of one block.
LEMMA FlattenPlaces ==
  ASSUME NEW S, NEW ss \in Seq(Seq(S))
  PROVE  \E blk, pos : Places(FlattenSeq(ss), ss, Len(ss), blk, pos)
<1>1. PICK F \in [0 .. Len(ss) -> Seq(S)] : Partial(F, ss) /\ FlattenSeq(ss) = F[Len(ss)]
  BY FlattenSteps
<1> DEFINE n == Len(ss)
          T == {t \in 0 .. n : \E blk, pos : Places(F[t], ss, t, blk, pos)}
<1>2. n \in Nat
  OBVIOUS
<1>3. 0 \in T
  <2>1. F[0] = <<>>
    BY <1>1 DEF Partial
  <2> DEFINE e == [i \in 1 .. 0 |-> 0]
  <2>2. e \in [1 .. 0 -> 1 .. 0] /\ e \in [1 .. 0 -> Nat] /\ Len(<<>>) = 0 /\ 1 .. 0 = {}
    OBVIOUS
  <2> HIDE DEF e
  <2>3. Places(<<>>, ss, 0, e, e)
    BY ONLY <2>2 DEF Places
  <2> QED
    BY <1>2, <2>1, <2>3
<1>4. ASSUME NEW t \in 1 .. n, t - 1 \in T PROVE t \in T
  <2>1. PICK blk, pos : Places(F[t - 1], ss, t - 1, blk, pos)
    BY <1>4
  <2>2. F[t - 1] \in Seq(S) /\ F[t] = F[t - 1] \o ss[t]
    <3>1. t - 1 \in 0 .. n
      BY <1>2
    <3>2. F[t] = F[t - 1] \o ss[t]
      BY <1>1 DEF Partial
    <3> QED
      BY <3>1, <3>2
  <2>3. \E b2, p2 : Places(F[t - 1] \o ss[t], ss, t, b2, p2)
    BY <2>1, <2>2, PlacesGrow
  <2>4. \E b2, p2 : Places(F[t], ss, t, b2, p2)
    BY ONLY <2>2, <2>3, Zenon
  <2>5. t \in 0 .. n
    BY <1>2
  <2> QED
    BY ONLY <2>4, <2>5, Zenon
<1>5. \A t \in 0 .. n : t \in T
  <2> HIDE DEF T, n
  <2> QED
    BY ONLY <1>2, <1>3, <1>4, UpTo
<1>6. n \in T
  BY <1>2, <1>5
<1> QED
  BY <1>1, <1>6

\* A path with one more step in front.
LEMMA PrefixFacts ==
  ASSUME NEW x \in Nat, NEW p \in Seq(Nat)
  PROVE  /\ <<x>> \o p \in Seq(Nat) /\ <<x>> \o p # <<>> /\ (<<x>> \o p)[1] = x
         /\ Tail(<<x>> \o p) = p
         /\ p = <<>> => Front(<<x>> \o p) = <<>>
         /\ p # <<>> => Front(<<x>> \o p) = <<x>> \o Front(p)
<1> DEFINE s == <<x>> \o p
          n == Len(p)
<1>1. /\ s \in Seq(Nat) /\ n \in Nat /\ Len(s) = n + 1 /\ s[1] = x /\ DOMAIN p = 1 .. n
      /\ \A i \in 1 .. n : s[i + 1] = p[i]
  <2>1. <<x>> \in Seq(Nat) /\ Len(<<x>>) = 1 /\ <<x>>[1] = x
    OBVIOUS
  <2>2. ASSUME NEW i \in 1 .. n PROVE s[1 + i] = p[i] /\ i + 1 = 1 + i
    OBVIOUS
  <2> QED
    BY <2>1, <2>2
<1> HIDE DEF s, n
<1>2. s # <<>>
  BY <1>1
<1>3. Tail(s) = p
  <2>1. /\ Tail(s) \in Seq(Nat) /\ Len(Tail(s)) = n
        /\ \A i \in 1 .. n : Tail(s)[i] = s[i + 1]
    BY <1>1, <1>2
  <2>2. p \in Seq(Nat) /\ Len(p) = n
    BY DEF n
  <2> DEFINE w == Tail(s)
  <2>3. /\ w \in Seq(Nat) /\ p \in Seq(Nat) /\ Len(w) = n /\ Len(p) = n
        /\ \A i \in 1 .. n : w[i] = p[i]
    BY <1>1, <2>1, <2>2
  <2> HIDE DEF w
  <2>4. w = p
    BY ONLY <2>3
  <2> QED
    BY <2>4 DEF w
<1>4. /\ Front(s) \in Seq(Nat) /\ Len(Front(s)) = n
      /\ \A i \in 1 .. n : Front(s)[i] = s[i]
  BY <1>1 DEF Front
<1>5. p = <<>> => Front(s) = <<>>
  BY <1>1, <1>4 DEF n
<1>6. ASSUME p # <<>> PROVE Front(s) = <<x>> \o Front(p)
  <2>1. n \in Nat \ {0} /\ n = Len(p)
    BY <1>6, <1>1 DEF n
  <2>2. /\ Front(p) \in Seq(Nat) /\ Len(Front(p)) = n - 1
        /\ \A i \in 1 .. n - 1 : Front(p)[i] = p[i]
    BY <2>1 DEF Front
  <2> DEFINE u == <<x>> \o Front(p)
  <2>3. /\ u \in Seq(Nat) /\ Len(u) = n /\ u[1] = x
        /\ \A i \in 1 .. n - 1 : u[1 + i] = Front(p)[i]
    <3>1. <<x>> \in Seq(Nat) /\ Len(<<x>>) = 1 /\ <<x>>[1] = x
      OBVIOUS
    <3> QED
      BY <2>1, <2>2, <3>1
  <2> HIDE DEF u
  <2>4. ASSUME NEW i \in 1 .. n PROVE Front(s)[i] = u[i]
    <3>1. CASE i = 1
      BY <1>1, <1>4, <2>3, <3>1
    <3>2. CASE i # 1
      <4> DEFINE j == i - 1
      <4>1. j \in 1 .. n - 1 /\ j \in 1 .. n /\ i = j + 1 /\ i = 1 + j
        BY <2>1, <3>2
      <4> HIDE DEF j
      <4>2. Front(s)[i] = s[j + 1] /\ s[j + 1] = p[j]
        BY <1>1, <1>4, <4>1
      <4>3. u[i] = p[j]
        BY <2>2, <2>3, <4>1
      <4> QED
        BY <4>2, <4>3
    <3> QED
      BY <3>1, <3>2
  <2>5. Front(s) = u
    <3> DEFINE w == Front(s)
    <3>1. /\ w \in Seq(Nat) /\ u \in Seq(Nat) /\ Len(w) = n /\ Len(u) = n
          /\ \A i \in 1 .. n : w[i] = u[i]
      BY <1>4, <2>3, <2>4
    <3> HIDE DEF w
    <3>2. w = u
      BY ONLY <3>1
    <3> QED
      BY <3>2 DEF w
  <2> QED
    BY <2>5 DEF u
<1> QED
  BY <1>1, <1>2, <1>3, <1>5, <1>6 DEF s
=============================================================================
