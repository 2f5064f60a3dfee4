----------------------------- MODULE Foundations -----------------------------
(***************************************************************************)
(* What the proofs of several components rest on: least and greatest       *)
(* elements of sets of naturals (the community modules' Min and Max), and  *)
(* recursive definitions and concatenations reasoned about through them.   *)
(***************************************************************************)
EXTENDS Integers, Sequences, SequencesExt, FiniteSetsExt, FiniteSetTheorems,
        SequenceTheorems, WellFoundedInduction, TLAPS

-----------------------------------------------------------------------------
(* Least and greatest elements *)

\* A nonempty set of naturals has a least element.  The library's induction
\* principles take an operator; strict inclusion between the finite sets 0..x
\* is a well-founded relation that does not.
LEMMA NatHasLeast ==
  ASSUME NEW S \in SUBSET Nat, S # {}
  PROVE  \E x \in S : \A y \in S : x <= y
<1> DEFINE Below == {0..x : x \in S}
<1>1. Below \subseteq FiniteSubsetsOf(Nat) /\ Below # {}
  <2>1. \A x \in S : 0..x \subseteq Nat /\ IsFiniteSet(0..x)
    BY FS_Interval
  <2> QED BY <2>1 DEF FiniteSubsetsOf
<1>2. \E t \in Below : \A u \in Below : ~(<<u, t>> \in StrictSubsetOrdering(Nat))
  BY <1>1, FS_StrictSubsetOrderingWellFounded, WFMin
<1>3. PICK x \in S : \A y \in S : ~(<<0..y, 0..x>> \in StrictSubsetOrdering(Nat))
  BY <1>2
<1>4. ASSUME NEW y \in S, y < x
      PROVE  FALSE
  <2>1. 0..y \in SUBSET Nat /\ 0..x \in SUBSET Nat /\ 0..y \subseteq 0..x
    BY <1>4
  <2>2. 0..y # 0..x
    <3>1. x \in 0..x /\ x \notin 0..y
      BY <1>4
    <3> QED BY <3>1
  <2> QED BY <1>3, <2>1, <2>2 DEF StrictSubsetOrdering
<1> QED BY <1>4

\* Min is such an element (the first acknowledged place in the queue,
\* sender.go:351).
LEMMA MinNat ==
  ASSUME NEW S \in SUBSET Nat, S # {}
  PROVE  Min(S) \in S /\ \A y \in S : Min(S) <= y
BY NatHasLeast DEF Min

\* A nonempty, bounded set of naturals has a greatest element, and Max is it
\* (the newest state a receiver holds).
LEMMA MaxNat ==
  ASSUME NEW S \in SUBSET Nat, S # {}, NEW b \in Nat, \A x \in S : x <= b
  PROVE  Max(S) \in S /\ \A y \in S : Max(S) >= y
<1> DEFINE U == {u \in Nat : \A x \in S : x <= u}
<1>1. PICK u \in U : \A v \in U : u <= v
  BY NatHasLeast, U # {}
<1>2. u \in S
  <2> SUFFICES ASSUME u \notin S PROVE FALSE
    OBVIOUS
  <2>1. PICK x \in S : TRUE
    OBVIOUS
  <2>2. u - 1 \in U
    BY <2>1
  <2> QED BY <1>1, <2>2
<1> QED BY <1>1, <1>2 DEF Max

-----------------------------------------------------------------------------
(* Recursive definitions *)

\* g is what k steps make of the first value.
IsIteration(g, T, first, step, k) ==
    /\ g \in [0..k -> T]
    /\ g[0] = first /\ \A n \in 0..k - 1 : g[n + 1] = step[<<n, g[n]>>]

\* A step can be taken any number of times.
LEMMA Iterates ==
  ASSUME NEW T, NEW first \in T, NEW step \in [Nat \X T -> T], NEW k \in Nat
  PROVE  \E g : IsIteration(g, T, first, step, k)
<1> USE DEF IsIteration
<1> DEFINE Runs(g, j) == IsIteration(g, T, first, step, j)
           Bad == {j \in Nat : ~\E g : Runs(g, j)}
<1> SUFFICES ASSUME Bad # {} PROVE FALSE
  OBVIOUS
<1>1. Bad \in SUBSET Nat
  OBVIOUS
<1>2. PICK j \in Bad : \A i \in Bad : j <= i
  BY <1>1, NatHasLeast
<1>3. CASE j = 0
  <2>1. Runs([i \in 0..0 |-> first], 0)
    OBVIOUS
  <2> HIDE DEF Runs
  <2> QED BY <1>2, <1>3, <2>1
<1>4. CASE j # 0
  <2>1. j - 1 \in Nat /\ ~(j <= j - 1) /\ j \in Nat
    BY <1>4
  <2>2. PICK g : Runs(g, j - 1)
    BY <1>2, <2>1
  <2> DEFINE h == [i \in 0..j |-> IF i = j THEN step[<<j - 1, g[j - 1]>>] ELSE g[i]]
  <2>3. g[j - 1] \in T /\ step[<<j - 1, g[j - 1]>>] \in T
    BY <2>1, <2>2
  <2>4. h \in [0..j -> T]
    BY <2>1, <2>2, <2>3
  <2>5. h[0] = first
    BY <1>4, <2>1, <2>2
  <2>6. ASSUME NEW n \in 0..j - 1
        PROVE  h[n + 1] = step[<<n, h[n]>>]
    <3>1. h[n] = g[n] /\ n + 1 \in 0..j
      BY <2>1
    <3>2. CASE n = j - 1
      <4>1. h[n + 1] = step[<<j - 1, g[j - 1]>>]
        BY <2>1, <3>2
      <4> HIDE DEF h
      <4> QED BY <3>1, <3>2, <4>1
    <3>3. CASE n # j - 1
      <4>1. n \in 0..j - 1 - 1 /\ n + 1 # j
        BY <2>1, <3>3
      <4>2. h[n + 1] = g[n + 1] /\ g[n + 1] = step[<<n, g[n]>>]
        BY <2>2, <3>1, <4>1
      <4> HIDE DEF h
      <4> QED BY <3>1, <4>2
    <3> QED BY <3>2, <3>3
  <2> HIDE DEF h
  <2>7. Runs(h, j)
    BY <2>4, <2>5, <2>6
  <2> HIDE DEF Runs
  <2> QED BY <1>2, <2>7
<1> QED BY <1>3, <1>4

\* Concatenations may be regrouped.
Regroups(a, b, c) == (a \o b) \o c = a \o (b \o c)

\* Sequences concatenate either way round; named, so that a proof may use the
\* fact without the provers' own rules on sequences getting in its way.
LEMMA ConcatRegroups ==
  ASSUME NEW B, NEW a \in Seq(B), NEW b \in Seq(B), NEW c \in Seq(B)
  PROVE  Regroups(a, b, c)
BY SMTT(30) DEF Regroups

\* Concatenating from the left gives FlattenSeq.
LEMMA FlattenRun ==
  ASSUME NEW B, NEW s \in Seq(Seq(B)), NEW G \in [0..Len(s) -> Seq(B)],
         G[0] = << >>, \A i \in 1..Len(s) : G[i] = G[i - 1] \o s[i]
  PROVE  FlattenSeq(s) = G[Len(s)]
<1> DEFINE k == Len(s)
           g == [i \in 1..k |-> G[i]]
           Eq(f) == f = [i \in 1..k |-> IF i = 1 THEN s[i] ELSE f[i - 1] \o s[i]]
           F == CHOOSE f : Eq(f)
<1>1. k \in Nat /\ \A i \in 1..k : s[i] \in Seq(B) /\ i \in 0..k /\ i - 1 \in 0..k
  BY LenProperties, ElementOfSeq
<1>2. CASE k = 0
  <2>1. s = << >>
    BY <1>2, EmptySeq
  <2> QED BY <1>2, <2>1 DEF FlattenSeq
<1>3. CASE k # 0
  <2>1. \A i \in 1..k : g[i] = IF i = 1 THEN s[i] ELSE g[i - 1] \o s[i]
    <3> TAKE i \in 1..k
    <3>1. g[i] = G[i - 1] \o s[i] /\ s[i] \in Seq(B)
      BY <1>1
    <3>2. CASE i = 1
      <4>1. G[i - 1] = << >>
        BY <3>2
      <4>2. << >> \o s[i] = s[i]
        BY <3>1, ConcatEmptySeq
      <4> QED BY <3>1, <3>2, <4>1, <4>2
    <3>3. CASE i # 1
      <4>1. i - 1 \in 1..k
        BY <1>1, <3>3
      <4> QED BY <3>1, <3>3, <4>1
    <3> QED BY <3>2, <3>3
  <2>2. g = [i \in 1..k |-> g[i]]
    OBVIOUS
  <2>3. Eq(g)
    <3> HIDE DEF g
    <3> QED BY <2>1, <2>2
  <2>4. Eq(F)
    <3> HIDE DEF Eq
    <3> QED BY <2>3
  <2>5. FlattenSeq(s) = F[k]
    BY <1>3 DEF FlattenSeq
  <2>6. \A i \in 1..k : F[i] = IF i = 1 THEN s[i] ELSE F[i - 1] \o s[i]
    <3> HIDE DEF F, k
    <3> QED BY <2>4
  <2> HIDE DEF F
  <2>7. \A i \in 1..k : F[i] = g[i]
    <3> DEFINE Bad == {i \in 1..k : F[i] # g[i]}
    <3> SUFFICES ASSUME Bad # {} PROVE FALSE
      OBVIOUS
    <3>1. Bad \in SUBSET Nat
      BY <1>1
    <3>2. PICK i \in Bad : \A j \in Bad : i <= j
      BY <3>1, NatHasLeast
    <3> HIDE DEF g
    <3>3. CASE i = 1
      BY <2>1, <2>6, <3>2, <3>3
    <3>4. CASE i # 1
      <4>1. i - 1 \in 1..k /\ ~(i <= i - 1) /\ i \in 1..k
        BY <1>1, <3>2, <3>4
      <4>2. F[i - 1] = g[i - 1]
        BY <3>2, <4>1
      <4> QED BY <2>1, <2>6, <3>2, <3>4, <4>1, <4>2
    <3> QED BY <3>3, <3>4
  <2>8. k \in 1..k
    BY <1>1, <1>3
  <2> QED BY <2>5, <2>7, <2>8
<1> QED BY <1>2, <1>3

\* One more sequence goes to the end.
LEMMA FlattenAppend ==
  ASSUME NEW B, NEW s \in Seq(Seq(B)), NEW x \in Seq(B)
  PROVE  /\ FlattenSeq(s) \in Seq(B)
         /\ FlattenSeq(Append(s, x)) = FlattenSeq(s) \o x
<1> DEFINE k == Len(s)
           T == Seq(B)
           step == [a \in Nat \X T |-> IF a[1] + 1 \in 1..k THEN a[2] \o s[a[1] + 1] ELSE a[2]]
<1>1. k \in Nat /\ \A i \in 1..k : s[i] \in T
  BY LenProperties, ElementOfSeq
<1>2. step \in [Nat \X T -> T]
  <2> SUFFICES ASSUME NEW a \in Nat \X T
               PROVE  (IF a[1] + 1 \in 1..k THEN a[2] \o s[a[1] + 1] ELSE a[2]) \in T
    OBVIOUS
  <2>1. a[2] \in T
    OBVIOUS
  <2>2. CASE a[1] + 1 \in 1..k
    <3>1. s[a[1] + 1] \in T
      BY <1>1, <2>2
    <3> QED BY <2>1, <2>2, <3>1, ConcatProperties
  <2> QED BY <2>1, <2>2
<1>3. << >> \in T
  BY EmptySeq
<1> HIDE DEF T
<1>4. \E g : IsIteration(g, T, << >>, step, k)
  <2>1. k \in Nat
    BY <1>1
  <2> HIDE DEF step, k
  <2> QED BY <1>2, <1>3, <2>1, Iterates
<1>5. PICK g \in [0..k -> T] : g[0] = << >> /\ \A n \in 0..k - 1 : g[n + 1] = step[<<n, g[n]>>]
  BY <1>4 DEF IsIteration
<1>6. ASSUME NEW i \in 1..k
      PROVE  g[i] = g[i - 1] \o s[i]
  <2>1. i - 1 \in 0..k - 1 /\ i - 1 + 1 = i /\ i - 1 \in Nat /\ i - 1 \in 0..k
    BY <1>1
  <2>2. g[i - 1] \in T /\ <<i - 1, g[i - 1]>> \in Nat \X T
    BY <2>1
  <2>3. g[i] = step[<<i - 1, g[i - 1]>>]
    BY <1>5, <2>1
  <2>4. step[<<i - 1, g[i - 1]>>] = g[i - 1] \o s[i]
    BY <2>1, <2>2
  <2> QED BY <2>3, <2>4
<1> HIDE DEF step
<1>7. FlattenSeq(s) = g[k] /\ g[k] \in T
  <2>1. g[k] \in T
    BY <1>1
  <2> QED BY <1>5, <1>6, <2>1, FlattenRun DEF T
<1> DEFINE s2 == Append(s, x)
           h == [i \in 0..k + 1 |-> IF i = k + 1 THEN g[k] \o x ELSE g[i]]
<1>8. s2 \in Seq(Seq(B)) /\ Len(s2) = k + 1 /\ s2[k + 1] = x /\ \A i \in 1..k : s2[i] = s[i]
  BY AppendProperties DEF T
<1>9. g[k] \o x \in Seq(B)
  BY <1>7, ConcatProperties DEF T
<1>10. h \in [0..k + 1 -> Seq(B)]
  BY <1>1, <1>9 DEF T
<1>11. h[0] = << >>
  BY <1>1, <1>5
<1>12. ASSUME NEW i \in 1..k + 1
       PROVE  h[i] = h[i - 1] \o s2[i]
  <2>1. h[i - 1] = g[i - 1]
    BY <1>1
  <2>2. CASE i = k + 1
    <3>1. h[i] = g[k] \o x /\ i - 1 = k
      BY <1>1, <2>2
    <3> HIDE DEF h, s2
    <3> QED BY <1>8, <2>1, <2>2, <3>1
  <2>3. CASE i # k + 1
    <3>1. i \in 1..k /\ h[i] = g[i]
      BY <1>1, <2>3
    <3> HIDE DEF h, s2
    <3> QED BY <1>6, <1>8, <2>1, <3>1
  <2> QED BY <2>2, <2>3
<1>13. h[k + 1] = g[k] \o x
  BY <1>1
<1>14. FlattenSeq(s2) = h[k + 1]
  <2> HIDE DEF h, s2
  <2> QED BY <1>8, <1>10, <1>11, <1>12, FlattenRun
<1> QED BY <1>7, <1>13, <1>14 DEF T

\* x[k] is the concatenation of the pieces met on the way down from k.
IsDescent(x, B, n, piece, next) ==
    /\ x \in [0..n -> Seq(B)]
    /\ x[0] = << >> /\ \A k \in 1..n : x[k] = piece[k] \o x[next[k]]

\* Every way that only leads down can be followed.
LEMMA Descends ==
  ASSUME NEW B, NEW n \in Nat, NEW piece, NEW next,
         \A k \in 1..n : piece[k] \in Seq(B) /\ next[k] \in 0..k - 1
  PROVE  \E x : IsDescent(x, B, n, piece, next)
<1> DEFINE Good(x, j) == IsDescent(x, B, j, piece, next)
           Bad == {j \in 0..n : ~\E x : Good(x, j)}
<1> SUFFICES ASSUME Bad # {} PROVE FALSE
  <2>1. n \in 0..n
    OBVIOUS
  <2> QED BY <2>1
<1>1. Bad \in SUBSET Nat
  OBVIOUS
<1>2. PICK j \in Bad : \A i \in Bad : j <= i
  BY <1>1, NatHasLeast
<1>3. j \in 0..n /\ ~\E x : Good(x, j)
  BY <1>2
<1>4. CASE j = 0
  <2>1. << >> \in Seq(B)
    BY EmptySeq
  <2>2. Good([i \in 0..0 |-> << >>], 0)
    BY <2>1 DEF IsDescent
  <2> HIDE DEF Good
  <2> QED BY <1>3, <1>4, <2>2
<1>5. CASE j # 0
  <2>1. j - 1 \in 0..n /\ j \in 1..n /\ ~(j <= j - 1)
    BY <1>3, <1>5
  <2>2. PICK x : Good(x, j - 1)
    <3>1. j - 1 \notin Bad
      <4> HIDE DEF Bad
      <4> QED BY <1>2, <2>1
    <3> HIDE DEF Good
    <3> QED BY <2>1, <3>1
  <2> DEFINE v == piece[j] \o x[next[j]]
             y == [i \in 0..j |-> IF i = j THEN v ELSE x[i]]
  <2>3. v \in Seq(B) /\ next[j] \in 0..j - 1
    <3>1. piece[j] \in Seq(B) /\ next[j] \in 0..j - 1
      BY <2>1
    <3>2. x[next[j]] \in Seq(B)
      BY <2>2, <3>1 DEF IsDescent
    <3> QED BY <3>1, <3>2, ConcatProperties
  <2>4. x \in [0..j - 1 -> Seq(B)] /\ x[0] = << >>
        /\ \A k \in 1..j - 1 : x[k] = piece[k] \o x[next[k]]
    BY <2>2 DEF IsDescent
  <2>5. \A i \in 0..j - 1 : y[i] = x[i]
    BY <2>1
  <2>6. y[j] = v
    <3>1. j \in 0..j
      BY <2>1
    <3> HIDE DEF v
    <3> QED BY <3>1
  <2>7. y \in [0..j -> Seq(B)]
    <3> HIDE DEF v
    <3>1. \A i \in 0..j : i # j => i \in 0..j - 1
      BY <2>1
    <3> QED BY <2>3, <2>4, <3>1
  <2> HIDE DEF y
  <2>8. y[0] = << >>
    BY <2>1, <2>4, <2>5
  <2>9. ASSUME NEW k \in 1..j
        PROVE  y[k] = piece[k] \o y[next[k]]
    <3>1. CASE k = j
      BY <2>3, <2>5, <2>6, <3>1
    <3>2. CASE k # j
      <4>1. k \in 1..j - 1 /\ k \in 0..j - 1 /\ k \in 1..n
        BY <2>1, <3>2
      <4>2. next[k] \in 0..k - 1
        BY <4>1
      <4>3. next[k] \in 0..j - 1
        BY <2>1, <4>1, <4>2
      <4> QED BY <2>4, <2>5, <4>1, <4>3
    <3> QED BY <3>1, <3>2
  <2>10. Good(y, j)
    BY <2>7, <2>8, <2>9 DEF IsDescent
  <2> HIDE DEF Good
  <2> QED BY <1>3, <2>10
<1> QED BY <1>4, <1>5

\* A sequence over a set is one over a larger set.
LEMMA SeqWiden ==
  ASSUME NEW A, NEW B, A \subseteq B, NEW s \in Seq(A)
  PROVE  s \in Seq(B)
<1>1. Len(s) \in Nat /\ s = [i \in 1..Len(s) |-> s[i]] /\ \A i \in 1..Len(s) : s[i] \in A
  BY LenProperties, ElementOfSeq
<1>2. \A i \in 1..Len(s) : s[i] \in B
  BY <1>1
<1> DEFINE k == Len(s)
<1>3. [i \in 1..k |-> s[i]] \in Seq(B)
  <2>1. k \in Nat /\ \A i \in 1..k : s[i] \in B
    BY <1>1, <1>2
  <2> HIDE DEF k
  <2> QED BY <2>1
<1> QED BY <1>1, <1>3

-----------------------------------------------------------------------------
(* Prefixes *)

\* A prefix stays one.
LEMMA PrefixGrows ==
  ASSUME NEW B, NEW s \in Seq(B), NEW t \in Seq(B), NEW u \in Seq(B), IsPrefix(s, t)
  PROVE  IsPrefix(s, t \o u) /\ IsPrefix(s, s)
<1>1. Len(t \o u) = Len(t) + Len(u) /\ Len(s) \in Nat /\ Len(t) \in Nat /\ Len(u) \in Nat
      /\ \A i \in 1..Len(t) : (t \o u)[i] = t[i]
  BY LenProperties, ConcatProperties
<1>2. Len(s) <= Len(t) /\ SubSeq(s, 1, Len(s)) = SubSeq(t, 1, Len(s))
  BY DEF IsPrefix
<1>3. 1 \in 1..Len(t) + 1 /\ Len(s) \in 1 - 1..Len(t)
  BY <1>1, <1>2
<1>4. SubSeq(t \o u, 1, Len(s)) = SubSeq(t, 1, Len(s))
  BY <1>3, SubSeqOfConcat1
<1>5. SubSeq(t \o u, 1, Len(s)) = SubSeq(t, 1, Len(s)) /\ Len(s) <= Len(t \o u)
  BY <1>1, <1>2, <1>4
<1> QED BY <1>1, <1>2, <1>5 DEF IsPrefix

\* A prefix grows by one element.
LEMMA PrefixGrowsByOne ==
  ASSUME NEW B, NEW s \in Seq(B), NEW b \in Seq(B), NEW i \in 1..Len(b)
  PROVE  s \o SubSeq(b, 1, i) = Append(s \o SubSeq(b, 1, i - 1), b[i])
<1> DEFINE c == SubSeq(b, 1, i - 1)
           x == b[i]
           d == <<x>>
<1>1. Len(b) \in Nat /\ \A j \in 1..Len(b) : b[j] \in B
  BY LenProperties, ElementOfSeq
<1>2. c \in Seq(B)
  <2>1. 1 \in Int /\ i - 1 \in Int /\ \A j \in 1..i - 1 : b[j] \in B
    BY <1>1
  <2> QED BY <2>1, SubSeqProperties
<1>3. x \in B
  BY <1>1
<1>4. SubSeq(b, 1, i) = Append(c, x)
  BY <1>1
<1> HIDE DEF c, x
<1>5. d \in Seq(B) /\ s \o c \in Seq(B)
  BY <1>2, <1>3, ConcatProperties
<1>6. Append(c, x) = c \o d /\ Append(s \o c, x) = (s \o c) \o d
  BY <1>2, <1>3, <1>5, AppendIsConcat
<1> HIDE DEF d
<1>7. (s \o c) \o d = s \o (c \o d)
  <2>1. Regroups(s, c, d)
    BY <1>2, <1>5, ConcatRegroups
  <2> QED BY <2>1 DEF Regroups
<1> QED BY <1>4, <1>6, <1>7 DEF c, x

\* One element, cut out.
LEMMA CutOne ==
  ASSUME NEW B, NEW s \in Seq(B), NEW q \in 1..Len(s)
  PROVE  SubSeq(s, q, q) = <<s[q]>>
<1> DEFINE a == SubSeq(s, q, q)
           d == <<s[q]>>
<1>1. Len(s) \in Nat /\ \A i \in 1..Len(s) : s[i] \in B
  BY LenProperties, ElementOfSeq
<1>2. q \in Int /\ s[q] \in B /\ \A i \in q..q : s[i] \in B
  BY <1>1
<1>3. a \in Seq(B) /\ Len(a) = 1 /\ a[1] = s[q]
  <2>1. a \in Seq(B) /\ Len(a) = (IF q <= q THEN q - q + 1 ELSE 0)
        /\ \A i \in 1..q - q + 1 : a[i] = s[q + i - 1]
    BY <1>2, SubSeqProperties
  <2> HIDE DEF a
  <2>2. 1 \in 1..q - q + 1 /\ q + 1 - 1 = q /\ q <= q /\ q - q + 1 = 1
    BY <1>2
  <2> QED BY <2>1, <2>2
<1>4. d \in Seq(B) /\ Len(d) = 1 /\ d[1] = s[q]
  BY <1>2
<1> HIDE DEF a, d
<1>5. \A i \in 1..Len(a) : a[i] = d[i]
  BY <1>3, <1>4
<1>6. a = d
  BY <1>3, <1>4, <1>5, SeqEqual
<1> QED BY <1>6 DEF a, d

\* One element more, cut out.
LEMMA CutMore ==
  ASSUME NEW B, NEW s \in Seq(B), NEW q \in 1..Len(s), NEW k \in q..Len(s)
  PROVE  SubSeq(s, q, k) = Append(SubSeq(s, q, k - 1), s[k])
OBVIOUS

=============================================================================
