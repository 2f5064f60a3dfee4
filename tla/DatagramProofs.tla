--------------------------- MODULE DatagramProofs ----------------------------
(***************************************************************************)
(* What a datagram is made of, from the inside out: the diff of the user   *)
(* stream, the bytes of the instruction that carries it, its fragments,    *)
(* and the timestamps of their packets. Every invariant holds for all      *)
(* values of the constants and any loss, duplication and reordering.       *)
(*                                                                         *)
(* Stream: what was acknowledged and what is left are all the user did,    *)
(* and the snapshot is a prefix of what is left; so a diff cut by length   *)
(* alone is right, and coalescing is followed one event at a time.         *)
(*                                                                         *)
(* Codec: a varint is followed one byte at a time, a message one field at  *)
(* a time; that a field takes at least a byte is what lets the loop of the *)
(* decoder be followed to its end on any bytes.                            *)
(*                                                                         *)
(* Fragments: an id stands for one payload cut in one way, and every       *)
(* fragment on the wire or in the assembly is the one that its id and its  *)
(* number name. Recursive definitions are met on the way; for each a       *)
(* solution is exhibited or shown to exist, and a claim about all its      *)
(* values is proved from the least place where it could fail.              *)
(*                                                                         *)
(* Packet: times are compared by Cong, equality up to wrapping. A stamp is *)
(* congruent to the time its sender read, a reply to that time advanced by *)
(* how long it was held, and the differences are the steps over the        *)
(* sentinel.                                                               *)
(***************************************************************************)
EXTENDS StreamHistory, Wire, Fragments, Packet, Foundations, SequenceTheorems, TLAPS

-----------------------------------------------------------------------------
(***** The user stream                                                    *****)

(* The diff of the user stream *)

\* The elements of a UserMessage.
Instruction == {in \in [resize : BOOLEAN, size : Size \cup {"none"}, keys : Seq(Key)] :
                    in.resize => in.size \in Size}

\* A cut stream grows back together.
LEMMA Rejoins ==
  ASSUME NEW B, NEW s \in Seq(B), NEW t \in Seq(B), IsPrefix(s, t)
  PROVE  /\ SubSeq(t, Len(s) + 1, Len(t)) \in Seq(B)
         /\ s \o SubSeq(t, Len(s) + 1, Len(t)) = t
<1> DEFINE m == Len(s)
           n == Len(t)
           r == SubSeq(t, m + 1, n)
<1>1. m \in Nat /\ n \in Nat /\ \A p \in 1..n : t[p] \in B
  BY LenProperties, ElementOfSeq
<1>2. m <= n /\ \A p \in 1..m : s[p] = t[p]
  <2>1. m <= n /\ SubSeq(s, 1, m) = SubSeq(t, 1, m)
    BY DEF IsPrefix
  <2>2. \A p \in 1..m : SubSeq(s, 1, m)[p] = s[p] /\ SubSeq(t, 1, m)[p] = t[p]
    BY <1>1, <2>1
  <2> QED BY <2>1, <2>2
<1>3. r \in Seq(B) /\ Len(r) = n - m /\ \A p \in 1..n - m : r[p] = t[m + p]
  <2>1. r \in Seq(B)
    <3>1. \A p \in m + 1..n : t[p] \in B
      BY <1>1
    <3> QED BY <1>1, <3>1, SubSeqProperties
  <2> QED BY <1>1, <1>2, <2>1
<1> HIDE DEF r
<1>4. s \o r \in Seq(B) /\ Len(s \o r) = n
  BY <1>1, <1>3, ConcatProperties
<1>5. \A p \in 1..n : (s \o r)[p] = t[p]
  <2> TAKE p \in 1..n
  <2>1. (s \o r)[p] = IF p <= m THEN s[p] ELSE r[p - m]
    BY <1>1, <1>3, ConcatProperties
  <2>2. CASE p <= m
    BY <1>1, <1>2, <2>1, <2>2
  <2>3. CASE ~(p <= m)
    <3>1. p - m \in 1..n - m /\ m + (p - m) = p
      BY <1>1, <2>3
    <3> QED BY <1>3, <2>1, <2>3, <3>1
  <2> QED BY <2>2, <2>3
<1>6. s \o r = t
  BY <1>4, <1>5, SeqEqual
<1> QED BY <1>3, <1>6 DEF r

\* An instruction's events are events.
LEMMA EventsOfType ==
  ASSUME NEW in \in Instruction
  PROVE  EventsOf(in) \in Seq(Event)
<1>1. CASE in.resize
  BY <1>1 DEF EventsOf, Instruction, Event
<1>2. CASE ~in.resize
  <2>1. in.keys \in Seq(Key) /\ EventsOf(in) = in.keys
    BY <1>2 DEF EventsOf, Instruction
  <2> QED BY <2>1, LenProperties, ElementOfSeq, IsASeq DEF Event
<1> QED BY <1>1, <1>2

\* One more instruction adds its events at the end.
LEMMA ExpandAppend ==
  ASSUME NEW msg \in Seq(Instruction), NEW in \in Instruction
  PROVE  /\ Expand(msg) \in Seq(Event)
         /\ Expand(Append(msg, in)) = Expand(msg) \o EventsOf(in)
<1> DEFINE k == Len(msg)
           s == [i \in 1..k |-> EventsOf(msg[i])]
           m2 == Append(msg, in)
           s2 == [i \in 1..Len(m2) |-> EventsOf(m2[i])]
           x == EventsOf(in)
<1>1. k \in Nat /\ \A i \in 1..k : msg[i] \in Instruction
  BY LenProperties, ElementOfSeq
<1>2. x \in Seq(Event) /\ \A i \in 1..k : EventsOf(msg[i]) \in Seq(Event)
  BY <1>1, EventsOfType
<1>3. s \in Seq(Seq(Event)) /\ Len(s) = k
  <2> HIDE DEF k
  <2> QED BY <1>1, <1>2, IsASeq
<1>4. Len(m2) = k + 1 /\ m2[k + 1] = in /\ \A i \in 1..k : m2[i] = msg[i]
  BY AppendProperties
<1>5. s2 = Append(s, x)
  <2>1. Append(s, x) \in Seq(Seq(Event)) /\ Len(Append(s, x)) = k + 1
        /\ Append(s, x)[k + 1] = x /\ \A i \in 1..k : Append(s, x)[i] = s[i]
    <3> HIDE DEF s, x, k
    <3> QED BY <1>2, <1>3, AppendProperties
  <2>2. \A i \in 1..k + 1 : s2[i] = Append(s, x)[i]
    <3> TAKE i \in 1..k + 1
    <3>1. CASE i = k + 1
      BY <1>1, <1>4, <2>1, <3>1
    <3>2. CASE i # k + 1
      <4>1. i \in 1..k
        BY <1>1, <3>2
      <4>2. s2[i] = EventsOf(msg[i]) /\ s[i] = EventsOf(msg[i])
        BY <1>1, <1>4, <4>1
      <4> HIDE DEF s, s2, x
      <4> QED BY <2>1, <4>1, <4>2
    <3> QED BY <3>1, <3>2
  <2>3. s2 \in Seq(Seq(Event)) /\ Len(s2) = k + 1
    <3>1. \A i \in 1..k + 1 : EventsOf(m2[i]) \in Seq(Event)
      <4> TAKE i \in 1..k + 1
      <4>1. i = k + 1 \/ i \in 1..k
        BY <1>1
      <4> HIDE DEF m2
      <4> QED BY <1>2, <1>4, <4>1
    <3> HIDE DEF m2, k
    <3> QED BY <1>1, <1>4, <3>1, IsASeq
  <2> HIDE DEF s, s2, x
  <2> QED BY <2>1, <2>2, <2>3, SeqEqual
<1>6. FlattenSeq(s) \in Seq(Event) /\ FlattenSeq(Append(s, x)) = FlattenSeq(s) \o x
  <2> HIDE DEF s, x
  <2> QED BY <1>2, <1>3, FlattenAppend
<1>7. Expand(msg) = FlattenSeq(s) /\ Expand(m2) = FlattenSeq(s2)
  BY DEF Expand
<1> QED BY <1>5, <1>6, <1>7

\* No two keystroke runs are adjacent.
Coalesced(msg) == \A i \in 1..(Len(msg) - 1) : msg[i].resize \/ msg[i + 1].resize

\* A message is its front and its last instruction.
LEMMA FrontAndLast ==
  ASSUME NEW msg \in Seq(Instruction), msg # << >>
  PROVE  /\ Front(msg) \in Seq(Instruction) /\ Last(msg) \in Instruction
         /\ Len(msg) \in Nat \ {0} /\ Len(Front(msg)) = Len(msg) - 1
         /\ \A i \in 1..Len(msg) - 1 : Front(msg)[i] = msg[i]
         /\ Last(msg) = msg[Len(msg)]
         /\ msg = Append(Front(msg), Last(msg))
<1> DEFINE k == Len(msg)
           f == Front(msg)
           l == Last(msg)
<1>1. k \in Nat \ {0} /\ \A i \in 1..k : msg[i] \in Instruction
  BY LenProperties, ElementOfSeq, EmptySeq
<1>2. l = msg[k] /\ l \in Instruction
  BY <1>1 DEF Last
<1>3. f \in Seq(Instruction) /\ Len(f) = k - 1 /\ \A i \in 1..k - 1 : f[i] = msg[i]
  <2>1. \A i \in 1..k - 1 : msg[i] \in Instruction
    BY <1>1
  <2>2. f = SubSeq(msg, 1, k - 1)
    BY DEF Front
  <2>3. f \in Seq(Instruction)
    <3>1. 1 \in Int /\ k - 1 \in Int
      BY <1>1
    <3> HIDE DEF f, k
    <3> QED BY <2>1, <2>2, <3>1, SubSeqProperties
  <2>4. Len(f) = k - 1 /\ \A i \in 1..k - 1 : f[i] = msg[i]
    <3>1. k = 1 => Len(<< >>) = k - 1
      OBVIOUS
    <3>2. CASE k = 1
      <4>1. f = << >>
        BY <2>2, <3>2, SubSeqEmpty
      <4> QED BY <3>1, <3>2, <4>1
    <3>3. CASE k # 1
      <4> DEFINE b == k - 1
      <4>1. 1 <= b /\ b - 1 + 1 = b /\ 1 \in Int /\ b \in Int
            /\ \A i \in 1..b : 1 + i - 1 = i
        <5>1. k \in Nat /\ k # 0 /\ k # 1
          BY <1>1, <3>3
        <5> HIDE DEF k
        <5> QED BY <5>1
      <4> HIDE DEF f, b
      <4>2. /\ Len(SubSeq(msg, 1, b)) = IF 1 <= b THEN b - 1 + 1 ELSE 0
            /\ \A i \in 1..b - 1 + 1 : SubSeq(msg, 1, b)[i] = msg[1 + i - 1]
        BY <2>1, <4>1, SubSeqProperties DEF b
      <4>3. f = SubSeq(msg, 1, b)
        BY <2>2 DEF b
      <4>4. Len(f) = b /\ \A i \in 1..b : f[i] = msg[i]
        BY <4>1, <4>2, <4>3
      <4> QED BY <4>4 DEF b
    <3> QED BY <3>2, <3>3
  <2> QED BY <2>3, <2>4
<1>4. msg = Append(f, l)
  <2> HIDE DEF f, l
  <2>1. Append(f, l) \in Seq(Instruction) /\ Len(Append(f, l)) = k
        /\ Append(f, l)[k] = l /\ \A i \in 1..k - 1 : Append(f, l)[i] = f[i]
    <3>1. Len(f) + 1 = k
      BY <1>1, <1>3
    <3> QED BY <1>2, <1>3, <3>1, AppendProperties
  <2>2. \A i \in 1..k : msg[i] = Append(f, l)[i]
    <3> TAKE i \in 1..k
    <3>1. i = k \/ i \in 1..k - 1
      BY <1>1
    <3> QED BY <1>2, <1>3, <2>1, <3>1
  <2> QED BY <2>1, <2>2, SeqEqual
<1> QED BY <1>1, <1>2, <1>3, <1>4

\* An instruction that is a resize, or follows one or nothing, keeps a message
\* coalesced.
LEMMA CoalescedAppend ==
  ASSUME NEW msg \in Seq(Instruction), NEW in \in Instruction, Coalesced(msg),
         in.resize \/ msg = << >> \/ msg[Len(msg)].resize
  PROVE  Coalesced(Append(msg, in))
<1> DEFINE k == Len(msg)
           m2 == Append(msg, in)
<1>1. k \in Nat /\ (msg = << >> => k = 0)
  BY LenProperties
<1>2. Len(m2) = k + 1 /\ m2[k + 1] = in /\ \A i \in 1..k : m2[i] = msg[i]
  BY AppendProperties
<1> SUFFICES ASSUME NEW i \in 1..k
             PROVE  m2[i].resize \/ m2[i + 1].resize
  BY <1>1, <1>2 DEF Coalesced
<1>3. CASE i = k
  BY <1>1, <1>2, <1>3
<1>4. CASE i # k
  <2>1. i \in 1..k - 1 /\ i + 1 \in 1..k
    BY <1>1, <1>4
  <2> QED BY <1>2, <2>1 DEF Coalesced
<1> QED BY <1>3, <1>4

\* The body of DiffFrom's loop adds exactly the event, and begins a new run only
\* where one must begin.
LEMMA CoalesceOneAdds ==
  ASSUME NEW msg \in Seq(Instruction), NEW e \in Event, Coalesced(msg)
  PROVE  /\ CoalesceOne(msg, e) \in Seq(Instruction)
         /\ Expand(CoalesceOne(msg, e)) = Append(Expand(msg), e)
         /\ Coalesced(CoalesceOne(msg, e))
<1>1. Expand(msg) \in Seq(Event)
  <2>1. KeysInstruction(<< >>) \in Instruction
    BY DEF KeysInstruction, Instruction
  <2> QED BY <2>1, ExpandAppend
<1>2. Append(Expand(msg), e) = Expand(msg) \o <<e>>
  BY <1>1, AppendIsConcat
<1>3. CASE e \in Size
  <2> DEFINE in == ResizeInstruction(e)
  <2>1. in \in Instruction /\ EventsOf(in) = <<e>> /\ in.resize
    BY <1>3 DEF ResizeInstruction, Instruction, EventsOf
  <2>2. CoalesceOne(msg, e) = Append(msg, in)
    BY <1>3 DEF CoalesceOne
  <2> HIDE DEF in
  <2> QED BY <1>2, <2>1, <2>2, ExpandAppend, CoalescedAppend, AppendProperties
<1>4. CASE e \notin Size /\ msg # << >> /\ ~Last(msg).resize
  <2> DEFINE f == Front(msg)
             l == Last(msg)
             ks == l.keys
             in == KeysInstruction(Append(ks, e))
             x == Expand(f)
  <2>1. /\ f \in Seq(Instruction) /\ l \in Instruction /\ msg = Append(f, l)
        /\ Len(msg) \in Nat \ {0} /\ Len(f) = Len(msg) - 1 /\ l = msg[Len(msg)]
        /\ \A i \in 1..Len(msg) - 1 : f[i] = msg[i]
    BY <1>4, FrontAndLast
  <2>2. e \in Key /\ ks \in Seq(Key) /\ EventsOf(l) = ks
    BY <1>4, <2>1 DEF Event, Instruction, EventsOf
  <2>3. in \in Instruction /\ EventsOf(in) = Append(ks, e)
    <3>1. Append(ks, e) \in Seq(Key)
      BY <2>2, AppendProperties
    <3> HIDE DEF ks
    <3> QED BY <3>1 DEF KeysInstruction, Instruction, EventsOf
  <2>4. ks \in Seq(Event)
    BY <2>1, <2>2, EventsOfType
  <2>5. CoalesceOne(msg, e) = f \o <<in>>
    BY <1>4 DEF CoalesceOne
  <2> HIDE DEF f, l, ks, in
  <2>6. f \o <<in>> = Append(f, in)
    BY <2>1, <2>3, AppendIsConcat
  <2>7. x \in Seq(Event) /\ Expand(msg) = x \o ks /\ Expand(Append(f, in)) = x \o Append(ks, e)
    BY <2>1, <2>2, <2>3, ExpandAppend
  <2> HIDE DEF x
  <2>8. x \o Append(ks, e) = Append(x \o ks, e)
    <3> DEFINE d == <<e>>
    <3>1. Append(ks, e) = ks \o d /\ x \o ks \in Seq(Event) /\ d \in Seq(Event)
      BY <2>4, <2>7, AppendIsConcat, ConcatProperties
    <3>2. Append(x \o ks, e) = (x \o ks) \o d
      BY <3>1, AppendIsConcat
    <3> HIDE DEF d
    <3>3. (x \o ks) \o d = x \o (ks \o d)
      <4>1. Regroups(x, ks, d)
        BY <2>4, <2>7, <3>1, ConcatRegroups
      <4> QED BY <4>1 DEF Regroups
    <3> QED BY <3>1, <3>2, <3>3
  <2>9. Coalesced(Append(f, in))
    <3>1. Coalesced(f)
      <4> SUFFICES ASSUME NEW i \in 1..Len(f) - 1
                   PROVE  f[i].resize \/ f[i + 1].resize
        BY DEF Coalesced
      <4>1. i \in 1..Len(msg) - 1 /\ i + 1 \in 1..Len(msg) - 1
        BY <2>1
      <4>2. msg[i].resize \/ msg[i + 1].resize
        BY <4>1 DEF Coalesced
      <4> QED BY <2>1, <4>1, <4>2
    <3>2. f = << >> \/ f[Len(f)].resize
      <4>1. CASE Len(f) = 0
        BY <2>1, <4>1, EmptySeq
      <4>2. CASE Len(f) # 0
        <5>1. Len(f) \in 1..Len(msg) - 1 /\ Len(f) + 1 = Len(msg)
          BY <2>1, <4>2
        <5>2. msg[Len(f)].resize \/ msg[Len(f) + 1].resize
          BY <5>1 DEF Coalesced
        <5>3. ~msg[Len(msg)].resize
          BY <1>4, <2>1 DEF l
        <5> QED BY <2>1, <5>1, <5>2, <5>3
      <4> QED BY <4>1, <4>2
    <3> QED BY <2>1, <2>3, <3>1, <3>2, CoalescedAppend
  <2>10. Append(f, in) \in Seq(Instruction)
    BY <2>1, <2>3, AppendProperties
  <2> QED BY <2>5, <2>6, <2>7, <2>8, <2>9, <2>10
<1>5. CASE e \notin Size /\ ~(msg # << >> /\ ~Last(msg).resize)
  <2> DEFINE in == KeysInstruction(<<e>>)
  <2>1. in \in Instruction /\ EventsOf(in) = <<e>>
    BY <1>5 DEF KeysInstruction, Instruction, EventsOf, Event
  <2>2. CoalesceOne(msg, e) = Append(msg, in)
    BY <1>5 DEF CoalesceOne
  <2>3. msg = << >> \/ msg[Len(msg)].resize
    BY <1>5, FrontAndLast
  <2> HIDE DEF in
  <2> QED BY <1>2, <2>1, <2>2, <2>3, ExpandAppend, CoalescedAppend, AppendProperties
<1> QED BY <1>3, <1>4, <1>5

\* The recursive definition in DiffFrom has one value.
LEMMA DiffRun ==
  ASSUME NEW s \in Seq(Event), NEW f \in Seq(Event), NEW g,
         g = [i \in 0..Len(Suffix(s, f)) |-> g[i]], g[0] = << >>,
         \A i \in 1..Len(Suffix(s, f)) : g[i] = CoalesceOne(g[i - 1], Suffix(s, f)[i]),
         Len(Suffix(s, f)) \in Nat
  PROVE  DiffFrom(s, f) = g[Len(Suffix(s, f))]
<1> DEFINE r == Suffix(s, f)
           k == Len(r)
           Eq(h) == h = [i \in 0..k |-> IF i = 0 THEN << >> ELSE CoalesceOne(h[i - 1], r[i])]
           F == CHOOSE h : Eq(h)
<1>1. k \in Nat /\ k \in 0..k
  OBVIOUS
<1>2. \A i \in 0..k : g[i] = IF i = 0 THEN << >> ELSE CoalesceOne(g[i - 1], r[i])
  <2> TAKE i \in 0..k
  <2>1. i # 0 => i \in 1..k
    BY <1>1
  <2> QED BY <2>1
<1>3. Eq(g)
  <2>1. g = [i \in 0..k |-> g[i]]
    OBVIOUS
  <2> HIDE DEF k, r
  <2> QED BY <1>2, <2>1
<1>4. Eq(F)
  <2> HIDE DEF Eq
  <2> QED BY <1>3
<1>5. DiffFrom(s, f) = F[k]
  BY DEF DiffFrom
<1>6. \A i \in 0..k : F[i] = IF i = 0 THEN << >> ELSE CoalesceOne(F[i - 1], r[i])
  <2> HIDE DEF F, k, r
  <2> QED BY <1>4
<1> HIDE DEF F, r
<1>7. \A i \in 0..k : F[i] = g[i]
  <2> DEFINE Bad == {i \in 0..k : F[i] # g[i]}
  <2> SUFFICES ASSUME Bad # {} PROVE FALSE
    OBVIOUS
  <2>1. Bad \in SUBSET Nat
    BY <1>1
  <2>2. PICK i \in Bad : \A j \in Bad : i <= j
    BY <2>1, NatHasLeast
  <2>3. i \in 0..k /\ F[i] # g[i]
    BY <2>2
  <2>4. CASE i = 0
    BY <1>2, <1>6, <2>3, <2>4
  <2>5. CASE i # 0
    <3>1. i - 1 \in 0..k /\ ~(i <= i - 1)
      BY <1>1, <2>3, <2>5
    <3>2. F[i - 1] = g[i - 1]
      BY <2>2, <3>1
    <3>3. F[i] = CoalesceOne(F[i - 1], r[i]) /\ g[i] = CoalesceOne(g[i - 1], r[i])
      BY <1>2, <1>6, <2>3, <2>5
    <3> QED BY <2>3, <3>2, <3>3
  <2> QED BY <2>4, <2>5
<1>8. F[k] = g[k]
  BY <1>1, <1>7
<1> QED BY <1>5, <1>8 DEF r

\* The diff expands to the events the peer lacks, and is coalesced.
LEMMA DiffExpands ==
  ASSUME NEW s \in Seq(Event), NEW f \in Seq(Event), Suffix(s, f) \in Seq(Event)
  PROVE  Expand(DiffFrom(s, f)) = Suffix(s, f) /\ Coalesced(DiffFrom(s, f))
<1> DEFINE r == Suffix(s, f)
           k == Len(r)
           T == {msg \in Seq(Instruction) : Coalesced(msg)}
           step == [a \in Nat \X T |-> IF a[1] + 1 \in 1..k THEN CoalesceOne(a[2], r[a[1] + 1])
                                       ELSE a[2]]
<1>1. k \in Nat /\ \A i \in 1..k : r[i] \in Event
  BY LenProperties, ElementOfSeq
<1>2. step \in [Nat \X T -> T]
  <2> SUFFICES ASSUME NEW a \in Nat \X T
               PROVE  (IF a[1] + 1 \in 1..k THEN CoalesceOne(a[2], r[a[1] + 1]) ELSE a[2]) \in T
    OBVIOUS
  <2>1. a[2] \in T
    OBVIOUS
  <2>2. CASE a[1] + 1 \in 1..k
    <3>1. r[a[1] + 1] \in Event
      BY <1>1, <2>2
    <3> HIDE DEF r, k
    <3> QED BY <2>1, <2>2, <3>1, CoalesceOneAdds
  <2> QED BY <2>1, <2>2
<1>3. << >> \in T
  BY EmptySeq DEF Coalesced
<1>4. \E g : IsIteration(g, T, << >>, step, k)
  <2>1. k \in Nat
    BY <1>1
  <2> HIDE DEF step, k, T
  <2> QED BY <1>2, <1>3, <2>1, Iterates
<1> HIDE DEF r
<1>5. PICK g \in [0..k -> T] : g[0] = << >> /\ \A n \in 0..k - 1 : g[n + 1] = step[<<n, g[n]>>]
  BY <1>4 DEF IsIteration
<1>6. ASSUME NEW i \in 1..k
      PROVE  g[i] = CoalesceOne(g[i - 1], r[i]) /\ g[i - 1] \in T /\ i - 1 \in 0..k
  <2>1. i - 1 \in 0..k - 1 /\ i - 1 + 1 = i /\ i - 1 \in Nat /\ i - 1 \in 0..k
    BY <1>1
  <2> HIDE DEF T
  <2>2. g[i - 1] \in T /\ <<i - 1, g[i - 1]>> \in Nat \X T
    BY <2>1
  <2>3. g[i] = step[<<i - 1, g[i - 1]>>]
    BY <1>5, <2>1
  <2>4. step[<<i - 1, g[i - 1]>>] = CoalesceOne(g[i - 1], r[i])
    BY <2>1, <2>2
  <2> QED BY <2>1, <2>2, <2>3, <2>4
<1> HIDE DEF step
<1>7. DiffFrom(s, f) = g[k]
  <2>1. g = [i \in 0..k |-> g[i]]
    OBVIOUS
  <2> QED BY <1>1, <1>5, <1>6, <2>1, DiffRun DEF r
<1>8. \A i \in 0..k : Expand(g[i]) = SubSeq(r, 1, i)
  <2> DEFINE Bad == {i \in 0..k : Expand(g[i]) # SubSeq(r, 1, i)}
  <2> SUFFICES ASSUME Bad # {} PROVE FALSE
    OBVIOUS
  <2>1. Bad \in SUBSET Nat
    BY <1>1
  <2>2. PICK i \in Bad : \A j \in Bad : i <= j
    BY <2>1, NatHasLeast
  <2>3. i \in 0..k /\ Expand(g[i]) # SubSeq(r, 1, i)
    BY <2>2
  <2>4. CASE i = 0
    <3>1. SubSeq(r, 1, 0) = << >>
      BY SubSeqEmpty
    <3>2. Expand(<< >>) = << >>
      <4> DEFINE z == [j \in 1..Len(<< >>) |-> EventsOf(<< >>[j])]
      <4>1. z = << >>
        OBVIOUS
      <4>2. FlattenSeq(<< >>) = << >>
        BY DEF FlattenSeq
      <4>3. Expand(<< >>) = FlattenSeq(z)
        BY DEF Expand
      <4> QED BY <4>1, <4>2, <4>3
    <3> QED BY <1>5, <2>3, <2>4, <3>1, <3>2
  <2>5. CASE i # 0
    <3>1. i \in 1..k /\ i - 1 \in 0..k /\ ~(i <= i - 1)
      BY <1>1, <2>3, <2>5
    <3>2. Expand(g[i - 1]) = SubSeq(r, 1, i - 1)
      BY <2>2, <3>1
    <3>3. Expand(g[i]) = Append(Expand(g[i - 1]), r[i])
      BY <1>1, <1>6, <3>1, CoalesceOneAdds
    <3>4. SubSeq(r, 1, i) = Append(SubSeq(r, 1, i - 1), r[i])
      BY <1>1, <3>1 DEF r
    <3> QED BY <2>3, <3>2, <3>3, <3>4
  <2> QED BY <2>4, <2>5
<1>9. SubSeq(r, 1, k) = r /\ k \in 0..k
  BY <1>1 DEF r
<1>10. Expand(g[k]) = r /\ g[k] \in T
  BY <1>8, <1>9
<1> QED BY <1>7, <1>10 DEF r

-----------------------------------------------------------------------------
(* The history of the stream *)

\* What was acknowledged and what is left are all the user did, and the
\* snapshot is a prefix of what is left.
StreamInv ==
    /\ u \in Seq(Event) /\ existing \in Seq(Event) /\ acked \in Seq(Event)
    /\ pushed = acked \o u
    /\ IsPrefix(existing, u)

\* The invariant makes the suffix, which is cut by length alone, the events the
\* peer lacks.
LEMMA StreamInvSuffices == StreamInv => DiffRebuildsStream
<1> SUFFICES ASSUME StreamInv PROVE DiffRebuildsStream
  OBVIOUS
<1> DEFINE m == Len(existing)
           n == Len(u)
<1>1. m \in Nat /\ n \in Nat /\ m <= n
  BY LenProperties DEF StreamInv, IsPrefix
<1>2. SubSeq(u, m + 1, n) \in Seq(Event) /\ existing \o SubSeq(u, m + 1, n) = u
  BY Rejoins DEF StreamInv
<1>3. Suffix(u, existing) = SubSeq(u, m + 1, n)
  <2>1. CASE m >= n
    <3>1. SubSeq(u, m + 1, n) = << >>
      BY <1>1, <2>1, SubSeqEmpty
    <3> QED BY <2>1, <3>1 DEF Suffix
  <2>2. CASE ~(m >= n)
    BY <2>2 DEF Suffix
  <2> QED BY <2>1, <2>2
<1>4. Expand(DiffFrom(u, existing)) = Suffix(u, existing) /\ Coalesced(DiffFrom(u, existing))
  <2> HIDE DEF m, n
  <2> QED BY <1>2, <1>3, DiffExpands DEF StreamInv
<1> QED BY <1>2, <1>3, <1>4 DEF DiffRebuildsStream, StreamInv, Coalesced

\* Pushing extends both the stream and its history.
LEMMA StreamInvPush ==
  ASSUME StreamInv, NEW es \in Seq(Event), Push(es)
  PROVE  StreamInv'
<1>1. u' = u \o es /\ pushed' = pushed \o es /\ existing' = existing /\ acked' = acked
  BY DEF Push
<1>2. u \o es \in Seq(Event) /\ IsPrefix(existing, u \o es)
  BY ConcatProperties, PrefixGrows DEF StreamInv
<1>3. (acked \o u) \o es = acked \o (u \o es)
  <2>1. Regroups(acked, u, es)
    BY ConcatRegroups DEF StreamInv
  <2> QED BY <2>1 DEF Regroups
<1> QED BY <1>1, <1>2, <1>3 DEF StreamInv

\* Subtracting moves the snapshot from the stream to what is acknowledged.
LEMMA StreamInvSubtract ==
  ASSUME StreamInv, SubtractExisting
  PROVE  StreamInv'
<1> DEFINE m == Len(existing)
           n == Len(u)
           r == SubSeq(u, m + 1, n)
<1>1. m \in Nat /\ n \in Nat /\ m <= n
  BY LenProperties DEF StreamInv, IsPrefix
<1>2. r \in Seq(Event) /\ existing \o r = u
  BY Rejoins DEF StreamInv
<1>3. u' = r
  <2>1. (IF m > n THEN n ELSE m) = m /\ 1 + m = m + 1
    BY <1>1
  <2>2. u' = SubSeq(u, 1 + (IF m > n THEN n ELSE m), n)
    BY DEF SubtractExisting, Subtract
  <2> HIDE DEF m, n
  <2> QED BY <2>1, <2>2
<1>4. existing' = << >>
  <2>1. existing' = SubSeq(existing, 1 + m, m)
    BY <1>1 DEF SubtractExisting, Subtract
  <2>2. SubSeq(existing, 1 + m, m) = << >>
    BY <1>1, SubSeqEmpty
  <2> QED BY <2>1, <2>2
<1>5. acked' = acked \o existing /\ pushed' = pushed
  BY DEF SubtractExisting
<1> HIDE DEF r
<1>6. (acked \o existing) \o r = acked \o u /\ acked \o existing \in Seq(Event)
  <2>1. acked \in Seq(Event) /\ existing \in Seq(Event)
    BY DEF StreamInv
  <2>2. Regroups(acked, existing, r) /\ acked \o existing \in Seq(Event)
    BY <1>2, <2>1, ConcatRegroups, ConcatProperties
  <2> QED BY <1>2, <2>2 DEF Regroups
<1>7. IsPrefix(<< >>, r)
  BY <1>2, LenProperties, SubSeqEmpty DEF IsPrefix
<1> QED BY <1>2, <1>3, <1>4, <1>5, <1>6, <1>7 DEF StreamInv

\* Every step preserves the invariant.
LEMMA StreamInvNext == StreamInv /\ [StreamNext]_streamVars => StreamInv'
<1> SUFFICES ASSUME StreamInv, [StreamNext]_streamVars PROVE StreamInv'
  OBVIOUS
<1>1. ASSUME PushKeys PROVE StreamInv'
  <2>1. PICK n \in 1..MaxRead : \E b \in [1..n -> Key] : Push(b)
    BY <1>1 DEF PushKeys
  <2>2. PICK b \in [1..n -> Key] : Push(b)
    BY <2>1
  <2>3. b \in Seq(Event)
    <3>1. n \in Nat
      BY <2>1, BoundAssumption
    <3> QED BY <3>1 DEF Event
  <2> QED BY <2>2, <2>3, StreamInvPush
<1>2. ASSUME PushResize PROVE StreamInv'
  <2>1. PICK s \in Size : Push(<<s>>)
    BY <1>2 DEF PushResize
  <2>2. <<s>> \in Seq(Event)
    BY DEF Event
  <2> QED BY <2>1, <2>2, StreamInvPush
<1>3. ASSUME CloneState PROVE StreamInv'
  <2>1. IsPrefix(u, u)
    BY LenProperties DEF StreamInv, IsPrefix
  <2> QED BY <1>3, <2>1 DEF CloneState, StreamInv
<1>4. ASSUME SubtractExisting PROVE StreamInv'
  BY <1>4, StreamInvSubtract
<1>5. ASSUME UNCHANGED streamVars PROVE StreamInv'
  BY <1>5 DEF streamVars, StreamInv
<1> QED BY <1>1, <1>2, <1>3, <1>4, <1>5 DEF StreamNext

\* The stream starts empty on both sides.
LEMMA StreamInvInit == StreamInit => StreamInv
<1> SUFFICES ASSUME StreamInit PROVE StreamInv
  OBVIOUS
<1>1. << >> \in Seq(Event) /\ << >> \o << >> = << >> /\ IsPrefix(<< >>, << >>)
  BY EmptySeq, ConcatEmptySeq, LenProperties DEF IsPrefix
<1> QED BY <1>1 DEF StreamInit, StreamInv

\* A peer that holds the snapshot and applies DiffFrom's message holds the stream,
\* whatever was typed, resized and subtracted before: coalescing keystrokes
\* neither drops a byte nor moves one past a resize.
THEOREM DiffAlwaysRebuildsStream == StreamSpec => []DiffRebuildsStream
<1>1. StreamInit => StreamInv
  BY StreamInvInit
<1>2. StreamInv /\ [StreamNext]_streamVars => StreamInv'
  BY StreamInvNext
<1> QED BY <1>1, <1>2, StreamInvSuffices, PTL DEF StreamSpec

-----------------------------------------------------------------------------
(***** The codec                                                          *****)

(* Varints *)

Byte == 0..255

\* g gives the integer in the last k of the first n bytes.
IsValue(g, b, n) ==
    /\ g \in [0..n -> Nat] /\ g[0] = 0
    /\ \A k \in 1..n : g[k] = (b[n - k + 1] % 128) + 128 * g[k - 1]

\* What is computed from the end is the value.
LEMMA ValueRun ==
  ASSUME NEW b, NEW n \in Nat, NEW g, IsValue(g, b, n)
  PROVE  VarintValue(b, n) = g[n] /\ g[n] \in Nat
<1> DEFINE Eq(f) == f = [k \in 0..n |-> IF k = 0 THEN 0 ELSE (b[n - k + 1] % 128) + 128 * f[k - 1]]
           F == CHOOSE f : Eq(f)
<1>1. g \in [0..n -> Nat] /\ g[0] = 0
      /\ \A k \in 1..n : g[k] = (b[n - k + 1] % 128) + 128 * g[k - 1]
  BY DEF IsValue
<1>2. Eq(g)
  <2>1. \A k \in 0..n : k # 0 => k \in 1..n
    OBVIOUS
  <2>2. \A k \in 0..n : g[k] = IF k = 0 THEN 0 ELSE (b[n - k + 1] % 128) + 128 * g[k - 1]
    BY <1>1, <2>1
  <2>3. g = [k \in 0..n |-> g[k]]
    BY <1>1
  <2> QED BY <2>2, <2>3
<1>3. Eq(F)
  <2> HIDE DEF Eq
  <2> QED BY <1>2
<1>4. VarintValue(b, n) = F[n]
  BY DEF VarintValue
<1>5. \A k \in 0..n : F[k] = IF k = 0 THEN 0 ELSE (b[n - k + 1] % 128) + 128 * F[k - 1]
  <2> HIDE DEF F
  <2> QED BY <1>3
<1> HIDE DEF F
<1>6. \A k \in 0..n : F[k] = g[k]
  <2> DEFINE Bad == {k \in 0..n : F[k] # g[k]}
  <2> SUFFICES ASSUME Bad # {} PROVE FALSE
    OBVIOUS
  <2>1. Bad \in SUBSET Nat
    OBVIOUS
  <2>2. PICK k \in Bad : \A j \in Bad : k <= j
    BY <2>1, NatHasLeast
  <2>3. k \in 0..n /\ F[k] # g[k]
    BY <2>2
  <2>4. k # 0
    BY <1>1, <1>5, <2>3
  <2>5. k - 1 \in 0..n /\ ~(k <= k - 1) /\ k \in 1..n
    BY <2>3, <2>4
  <2>6. F[k - 1] = g[k - 1]
    BY <2>2, <2>5
  <2>7. F[k] = (b[n - k + 1] % 128) + 128 * F[k - 1]
    BY <1>5, <2>3, <2>4
  <2>8. g[k] = (b[n - k + 1] % 128) + 128 * g[k - 1]
    BY <1>1, <2>5
  <2> QED BY <2>3, <2>6, <2>7, <2>8
<1> QED BY <1>1, <1>4, <1>6

\* It can be computed.
LEMMA ValueExists ==
  ASSUME NEW b \in Seq(Byte), NEW n \in 0..Len(b)
  PROVE  \E g : IsValue(g, b, n)
<1> DEFINE at == [k \in Nat |-> IF k \in 0..n - 1 THEN b[n - k] % 128 ELSE 0]
           step == [a \in Nat \X Nat |-> at[a[1]] + 128 * a[2]]
<1>1. Len(b) \in Nat /\ \A i \in 1..Len(b) : b[i] \in Byte
  BY LenProperties, ElementOfSeq
<1>2. n \in Nat /\ \A k \in 0..n - 1 : n - k \in 1..Len(b)
  BY <1>1
<1>3. at \in [Nat -> Nat]
  <2> SUFFICES ASSUME NEW k \in 0..n - 1 PROVE b[n - k] % 128 \in Nat
    OBVIOUS
  <2>1. b[n - k] \in Byte
    BY <1>1, <1>2
  <2>2. \A c \in Byte : c % 128 \in Nat
    BY DEF Byte
  <2> QED BY <2>1, <2>2
<1>4. \A k \in 0..n - 1 : at[k] = b[n - k] % 128
  BY <1>2
<1> HIDE DEF at
<1>5. step \in [Nat \X Nat -> Nat] /\ \A k, x \in Nat : step[<<k, x>>] = at[k] + 128 * x
  <2>1. \A a \in Nat \X Nat : a[1] \in Nat /\ a[2] \in Nat
    OBVIOUS
  <2>2. ASSUME NEW a \in Nat \X Nat PROVE at[a[1]] + 128 * a[2] \in Nat
    <3>1. PICK x \in Nat, y \in Nat : x = a[1] /\ y = a[2]
      BY <2>1
    <3>2. PICK z \in Nat : z = at[x]
      BY <1>3
    <3>3. z + 128 * y \in Nat
      OBVIOUS
    <3> QED BY <3>1, <3>2, <3>3
  <2>3. step \in [Nat \X Nat -> Nat]
    BY <2>2
  <2>4. ASSUME NEW k \in Nat, NEW x \in Nat PROVE step[<<k, x>>] = at[k] + 128 * x
    <3>1. <<k, x>> \in Nat \X Nat /\ <<k, x>>[1] = k /\ <<k, x>>[2] = x
      OBVIOUS
    <3> QED BY <3>1
  <2> QED BY <2>3, <2>4
<1> HIDE DEF step
<1>6. PICK g : IsIteration(g, Nat, 0, step, n)
  BY <1>2, <1>5, Iterates
<1>7. g \in [0..n -> Nat] /\ g[0] = 0 /\ \A k \in 0..n - 1 : g[k + 1] = step[<<k, g[k]>>]
  BY <1>6 DEF IsIteration
<1>8. ASSUME NEW k \in 1..n PROVE g[k] = (b[n - k + 1] % 128) + 128 * g[k - 1]
  <2>1. PICK j \in 0..n - 1 : j = k - 1 /\ j + 1 = k /\ n - j = n - k + 1 /\ j \in Nat /\ j \in 0..n
    BY <1>2
  <2>2. g[j + 1] = at[j] + 128 * g[j]
    BY <1>5, <1>7, <2>1
  <2> QED BY <1>4, <2>1, <2>2
<1> QED BY <1>7, <1>8 DEF IsValue

\* The value of one byte more in front.
LEMMA ValueCons ==
  ASSUME NEW s \in Seq(Byte), NEW c \in Byte, NEW t \in Seq(Byte), Len(t) = Len(s) + 1,
         t[1] = c, \A i \in 1..Len(s) : t[i + 1] = s[i]
  PROVE  VarintValue(t, Len(t)) = (c % 128) + 128 * VarintValue(s, Len(s)) /\ VarintValue(s, Len(s)) \in Nat
<1>1. PICK n \in Nat : n = Len(s) /\ Len(t) = n + 1 /\ n \in 0..Len(s)
  BY LenProperties
<1>2. PICK g : IsValue(g, s, n)
  BY <1>1, ValueExists
<1>3. g \in [0..n -> Nat] /\ g[0] = 0
      /\ \A k \in 1..n : g[k] = (s[n - k + 1] % 128) + 128 * g[k - 1]
  BY <1>2 DEF IsValue
<1>4. VarintValue(s, n) = g[n] /\ g[n] \in Nat
  BY <1>2, ValueRun
<1>5. PICK y \in Nat : y = (c % 128) + 128 * g[n]
  BY <1>4 DEF Byte
<1> DEFINE h == [k \in 0..n + 1 |-> IF k = n + 1 THEN y ELSE g[k]]
<1>6. h \in [0..n + 1 -> Nat]
  BY <1>3
<1>7. h[n + 1] = y /\ \A k \in 0..n : h[k] = g[k]
  OBVIOUS
<1> HIDE DEF h
<1>8. ASSUME NEW k \in 1..n + 1 PROVE h[k] = (t[n + 1 - k + 1] % 128) + 128 * h[k - 1]
  <2>1. CASE k = n + 1
    <3>1. n + 1 - k + 1 = 1 /\ k - 1 = n /\ n \in 0..n
      BY <2>1
    <3> QED BY <1>5, <1>7, <2>1, <3>1
  <2>2. CASE k # n + 1
    <3>1. PICK i \in 1..n : i = n - k + 1 /\ n + 1 - k + 1 = i + 1 /\ k \in 1..n /\ k \in 0..n /\ k - 1 \in 0..n
      BY <2>2
    <3>2. t[i + 1] = s[i]
      BY <1>1, <3>1
    <3>3. g[k] = (s[i] % 128) + 128 * g[k - 1]
      BY <1>3, <3>1
    <3>4. h[k] = g[k] /\ h[k - 1] = g[k - 1]
      BY <1>7, <3>1
    <3>5. t[n + 1 - k + 1] = s[i]
      BY <3>1, <3>2
    <3> QED BY <3>3, <3>4, <3>5
  <2> QED BY <2>1, <2>2
<1>9. IsValue(h, t, n + 1)
  BY <1>3, <1>6, <1>7, <1>8 DEF IsValue
<1>10. VarintValue(t, n + 1) = y
  BY <1>7, <1>9, ValueRun
<1> QED BY <1>1, <1>4, <1>5, <1>10

\* What follows a varint does not matter.
LEMMA ValueOfStart ==
  ASSUME NEW s \in Seq(Byte), NEW t, \A i \in 1..Len(s) : t[i] = s[i]
  PROVE  VarintValue(t, Len(s)) = VarintValue(s, Len(s))
<1>1. PICK n \in Nat : n = Len(s) /\ n \in 0..Len(s)
  BY LenProperties
<1>2. PICK g : IsValue(g, s, n)
  BY <1>1, ValueExists
<1>3. g \in [0..n -> Nat] /\ g[0] = 0
      /\ \A k \in 1..n : g[k] = (s[n - k + 1] % 128) + 128 * g[k - 1]
  BY <1>2 DEF IsValue
<1>4. \A k \in 1..n : n - k + 1 \in 1..n
  OBVIOUS
<1>5. IsValue(g, t, n)
  BY <1>1, <1>3, <1>4 DEF IsValue
<1> QED BY <1>1, <1>2, <1>5, ValueRun

\* How many integers there are for a length.
LEMMA EncodableIs ==
  ASSUME NEW n \in Nat
  PROVE  Encodable(n) \in Nat /\ Encodable(0) = 1 /\ Encodable(n + 1) = 128 * Encodable(n)
<1> DEFINE step == [a \in Nat \X Nat |-> 128 * a[2]]
           Pow(g, m) == g \in [0..m -> Nat] /\ g[0] = 1 /\ \A k \in 1..m : g[k] = 128 * g[k - 1]
<1>1. step \in [Nat \X Nat -> Nat] /\ \A k, x \in Nat : step[<<k, x>>] = 128 * x
  OBVIOUS
<1> HIDE DEF step
<1>2. ASSUME NEW m \in Nat, NEW g, Pow(g, m) PROVE Encodable(m) = g[m] /\ g[m] \in Nat
  <2> DEFINE Eq(f) == f = [k \in 0..m |-> IF k = 0 THEN 1 ELSE 128 * f[k - 1]]
             F == CHOOSE f : Eq(f)
  <2>1. Eq(g)
    <3>1. \A k \in 0..m : k # 0 => k \in 1..m
      OBVIOUS
    <3>2. \A k \in 0..m : g[k] = IF k = 0 THEN 1 ELSE 128 * g[k - 1]
      BY <1>2, <3>1
    <3>3. g = [k \in 0..m |-> g[k]]
      BY <1>2
    <3> QED BY <3>2, <3>3
  <2>2. Eq(F)
    <3> HIDE DEF Eq
    <3> QED BY <2>1
  <2>3. Encodable(m) = F[m]
    BY DEF Encodable
  <2>4. \A k \in 0..m : F[k] = IF k = 0 THEN 1 ELSE 128 * F[k - 1]
    <3> HIDE DEF F
    <3> QED BY <2>2
  <2> HIDE DEF F
  <2>5. \A k \in 0..m : F[k] = g[k]
    <3> DEFINE Bad == {k \in 0..m : F[k] # g[k]}
    <3> SUFFICES ASSUME Bad # {} PROVE FALSE
      OBVIOUS
    <3>1. Bad \in SUBSET Nat
      OBVIOUS
    <3>2. PICK k \in Bad : \A j \in Bad : k <= j
      BY <3>1, NatHasLeast
    <3>3. k \in 0..m /\ F[k] # g[k]
      BY <3>2
    <3>4. k # 0
      BY <1>2, <2>4, <3>3
    <3>5. k - 1 \in 0..m /\ ~(k <= k - 1) /\ k \in 1..m
      BY <3>3, <3>4
    <3>6. F[k - 1] = g[k - 1]
      BY <3>2, <3>5
    <3>7. F[k] = 128 * F[k - 1]
      BY <2>4, <3>3, <3>4
    <3>8. g[k] = 128 * g[k - 1]
      BY <1>2, <3>5
    <3> QED BY <3>3, <3>6, <3>7, <3>8
  <2> QED BY <1>2, <2>3, <2>5
<1>10. PICK l \in Nat : l = n + 1 /\ l - 1 = n
  OBVIOUS
<1>3. PICK g : IsIteration(g, Nat, 1, step, l)
  <2>1. 1 \in Nat
    OBVIOUS
  <2> QED BY <1>1, <2>1, Iterates
<1>4. g \in [0..n + 1 -> Nat] /\ g[0] = 1 /\ \A k \in 0..n : g[k + 1] = step[<<k, g[k]>>]
  BY <1>10, <1>3 DEF IsIteration
<1>5. ASSUME NEW k \in 0..n PROVE g[k + 1] = 128 * g[k]
  <2>1. k \in Nat /\ k \in 0..n + 1
    OBVIOUS
  <2>2. g[k] \in Nat
    BY <1>4, <2>1
  <2>3. step[<<k, g[k]>>] = 128 * g[k]
    BY <1>1, <2>1, <2>2
  <2> QED BY <1>4, <2>3
<1>6. ASSUME NEW m \in 0..n + 1 PROVE Encodable(m) = g[m] /\ g[m] \in Nat
  <2> DEFINE h == [k \in 0..m |-> g[k]]
  <2>1. h \in [0..m -> Nat] /\ h[0] = 1 /\ h[m] = g[m]
    BY <1>4
  <2>2. ASSUME NEW k \in 1..m PROVE h[k] = 128 * h[k - 1]
    <3>1. PICK j \in 0..n : j = k - 1 /\ j + 1 = k /\ k \in 0..m /\ j \in 0..m
      OBVIOUS
    <3> QED BY <1>5, <3>1
  <2> HIDE DEF h
  <2>3. Pow(h, m)
    BY <2>1, <2>2
  <2>4. m \in Nat
    OBVIOUS
  <2> HIDE DEF Pow
  <2> QED BY <1>2, <2>1, <2>3, <2>4
<1>7. 0 \in 0..n + 1 /\ n \in 0..n + 1 /\ n + 1 \in 0..n + 1 /\ n \in 0..n
  OBVIOUS
<1> QED BY <1>4, <1>5, <1>6, <1>7

\* f encodes the integers up to v.
IsCode(f, v) ==
    /\ f \in [0..v -> Seq(Byte)]
    /\ \A x \in 0..v : f[x] = IF x >= 128 THEN <<128 + (x % 128)>> \o f[x \div 128] ELSE <<x>>

\* The arithmetic of a step.
LEMMA VarintStep ==
  ASSUME NEW x \in Nat
  PROVE  /\ x % 128 \in 0..127 /\ x = (x % 128) + 128 * (x \div 128) /\ x \div 128 \in 0..x
         /\ x >= 128 => x \div 128 < x
         /\ (128 + (x % 128)) % 128 = x % 128
OBVIOUS

\* What is computed for all of them is what appendVarint appends for each.
LEMMA VarintRun ==
  ASSUME NEW v \in Nat, NEW f, IsCode(f, v), NEW w \in 0..v
  PROVE  Varint(w) = f[w]
<1> DEFINE P(x) == <<128 + (x % 128)>>
           g == [x \in 0..w |-> f[x]]
           Eq(h) == h = [x \in 0..w |-> IF x >= 128 THEN P(x) \o h[x \div 128] ELSE <<x>>]
           F == CHOOSE h : Eq(h)
<1>1. \A x \in 0..v : f[x] = IF x >= 128 THEN P(x) \o f[x \div 128] ELSE <<x>>
  BY DEF IsCode
<1>2. \A x \in 0..w : x \in 0..v /\ x \in Nat /\ x \div 128 \in 0..w /\ (x >= 128 => ~(x <= x \div 128))
  <2> TAKE x \in 0..w
  <2>1. x \in Nat /\ x \in 0..v
    OBVIOUS
  <2>2. PICK d \in 0..x : d = x \div 128 /\ (x >= 128 => d < x)
    BY <2>1, VarintStep
  <2> QED BY <2>1, <2>2
<1>3. Varint(w) = F[w]
  BY DEF Varint
<1> HIDE DEF P
<1>4. \A x \in 0..w : g[x] = IF x >= 128 THEN P(x) \o g[x \div 128] ELSE <<x>>
  <2> TAKE x \in 0..w
  <2>1. g[x] = f[x] /\ g[x \div 128] = f[x \div 128]
    BY <1>2
  <2> HIDE DEF g
  <2> QED BY <1>1, <1>2, <2>1
<1>5. Eq(g)
  <2>1. g = [x \in 0..w |-> g[x]]
    OBVIOUS
  <2> HIDE DEF g
  <2> QED BY <1>4, <2>1
<1>6. Eq(F)
  <2> HIDE DEF Eq
  <2> QED BY <1>5
<1>7. \A x \in 0..w : F[x] = IF x >= 128 THEN P(x) \o F[x \div 128] ELSE <<x>>
  <2> HIDE DEF F
  <2> QED BY <1>6
<1>8. g[w] = f[w] /\ w \in 0..w
  OBVIOUS
<1> HIDE DEF F, g
<1>9. \A x \in 0..w : F[x] = g[x]
  <2> DEFINE Bad == {x \in 0..w : F[x] # g[x]}
  <2> SUFFICES ASSUME Bad # {} PROVE FALSE
    OBVIOUS
  <2>1. Bad \in SUBSET Nat
    OBVIOUS
  <2>2. PICK x \in Bad : \A j \in Bad : x <= j
    BY <2>1, NatHasLeast
  <2>3. x \in 0..w /\ F[x] # g[x]
    BY <2>2
  <2>4. x >= 128
    BY <1>4, <1>7, <2>3
  <2>5. PICK d \in 0..w : d = x \div 128 /\ ~(x <= d)
    BY <1>2, <2>3, <2>4
  <2>6. F[d] = g[d]
    BY <2>2, <2>5
  <2>7. F[x] = P(x) \o F[d]
    BY <1>7, <2>3, <2>4, <2>5
  <2>8. g[x] = P(x) \o g[d]
    BY <1>4, <2>3, <2>4, <2>5
  <2> QED BY <2>3, <2>6, <2>7, <2>8
<1> QED BY <1>3, <1>8, <1>9

\* There is such an encoding.
LEMMA CodeExists ==
  ASSUME NEW v \in Nat
  PROVE  \E f : IsCode(f, v)
<1> DEFINE n == v + 1
           piece == [k \in 1..n |-> IF k - 1 >= 128 THEN <<128 + ((k - 1) % 128)>> ELSE <<k - 1>>]
           next == [k \in 1..n |-> IF k - 1 >= 128 THEN (k - 1) \div 128 + 1 ELSE 0]
<1>1. n \in Nat
  OBVIOUS
<1>2. \A k \in 1..n : piece[k] \in Seq(Byte) /\ next[k] \in 0..k - 1
  <2> SUFFICES ASSUME NEW k \in 1..n PROVE piece[k] \in Seq(Byte) /\ next[k] \in 0..k - 1
    OBVIOUS
  <2>1. PICK x \in Nat : x = k - 1
    OBVIOUS
  <2>2. PICK m \in 0..127 : m = x % 128
    BY VarintStep
  <2>3. PICK d \in 0..x : d = x \div 128 /\ (x >= 128 => d < x)
    BY VarintStep
  <2>4. piece[k] = (IF x >= 128 THEN <<128 + m>> ELSE <<x>>)
        /\ next[k] = (IF x >= 128 THEN d + 1 ELSE 0)
    BY <2>1, <2>2, <2>3
  <2>5. CASE x >= 128
    <3>1. 128 + m \in Byte /\ d + 1 \in 0..k - 1
      BY <2>1, <2>3, <2>5 DEF Byte
    <3>2. <<128 + m>> \in Seq(Byte)
      BY <3>1
    <3> QED BY <2>4, <2>5, <3>1, <3>2
  <2>6. CASE ~(x >= 128)
    <3>1. x \in Byte /\ 0 \in 0..k - 1
      BY <2>1, <2>6 DEF Byte
    <3>2. <<x>> \in Seq(Byte)
      BY <3>1
    <3> QED BY <2>4, <2>6, <3>1, <3>2
  <2> QED BY <2>5, <2>6
<1>3. /\ \A x \in 0..v : x >= 128 => piece[x + 1] = <<128 + (x % 128)>> /\ next[x + 1] = x \div 128 + 1
      /\ \A x \in 0..v : ~(x >= 128) => piece[x + 1] = <<x>> /\ next[x + 1] = 0
  <2> SUFFICES ASSUME NEW x \in 0..v
               PROVE  /\ x >= 128 => piece[x + 1] = <<128 + (x % 128)>> /\ next[x + 1] = x \div 128 + 1
                      /\ ~(x >= 128) => piece[x + 1] = <<x>> /\ next[x + 1] = 0
    OBVIOUS
  <2>1. PICK k \in 1..n : k = x + 1 /\ k - 1 = x
    OBVIOUS
  <2> QED BY <2>1
<1> HIDE DEF piece, next
<1>4. PICK X : IsDescent(X, Byte, n, piece, next)
  <2> HIDE DEF n
  <2> QED BY <1>1, <1>2, Descends
<1>5. X \in [0..n -> Seq(Byte)] /\ X[0] = << >> /\ \A k \in 1..n : X[k] = piece[k] \o X[next[k]]
  BY <1>4 DEF IsDescent
<1> DEFINE f == [x \in 0..v |-> X[x + 1]]
<1>6. f \in [0..v -> Seq(Byte)]
  <2>1. \A x \in 0..v : x + 1 \in 0..n
    OBVIOUS
  <2> HIDE DEF n
  <2> QED BY <1>5, <2>1
<1>7. ASSUME NEW x \in 0..v
      PROVE  f[x] = IF x >= 128 THEN <<128 + (x % 128)>> \o f[x \div 128] ELSE <<x>>
  <2>1. PICK k \in 1..n : k = x + 1
    OBVIOUS
  <2>2. f[x] = piece[k] \o X[next[k]]
    BY <1>5, <2>1
  <2>3. CASE x >= 128
    <3>1. PICK d \in 0..v : d = x \div 128
      <4>1. x \in Nat
        OBVIOUS
      <4>2. x \div 128 \in 0..x
        BY <4>1, VarintStep
      <4> QED BY <4>2
    <3>2. f[d] = X[d + 1]
      OBVIOUS
    <3>3. piece[k] = <<128 + (x % 128)>> /\ next[k] = d + 1
      BY <1>3, <2>1, <2>3, <3>1
    <3> HIDE DEF f
    <3> QED BY <2>2, <2>3, <3>1, <3>2, <3>3
  <2>4. CASE ~(x >= 128)
    <3>1. piece[k] = <<x>> /\ next[k] = 0
      BY <1>3, <2>1, <2>4
    <3>2. x \in Byte
      BY <2>4 DEF Byte
    <3>3. <<x>> \in Seq(Byte)
      BY <3>2
    <3>4. <<x>> \o << >> = <<x>>
      BY <3>3, ConcatEmptySeq
    <3> HIDE DEF f
    <3> QED BY <1>5, <2>2, <2>4, <3>1, <3>4
  <2> QED BY <2>3, <2>4
<1> HIDE DEF f
<1> QED BY <1>6, <1>7 DEF IsCode

\* appendVarint, one byte at a time.
LEMMA VarintIs ==
  ASSUME NEW v \in Nat
  PROVE  /\ Varint(v) \in Seq(Byte)
         /\ v >= 128 => Varint(v) = <<128 + (v % 128)>> \o Varint(v \div 128)
         /\ ~(v >= 128) => Varint(v) = <<v>>
<1>1. PICK f : IsCode(f, v)
  BY CodeExists
<1>2. PICK d \in 0..v : d = v \div 128
  BY VarintStep
<1>3. v \in 0..v
  OBVIOUS
<1>4. Varint(v) = f[v] /\ Varint(d) = f[d]
  BY <1>1, <1>3, VarintRun
<1>5. f \in [0..v -> Seq(Byte)]
      /\ f[v] = IF v >= 128 THEN <<128 + (v % 128)>> \o f[v \div 128] ELSE <<v>>
  BY <1>1, <1>3 DEF IsCode
<1> QED BY <1>2, <1>3, <1>4, <1>5

-----------------------------------------------------------------------------
(* Fields *)

\* What is left after n bytes.
LEMMA DropIs ==
  ASSUME NEW B, NEW b \in Seq(B), NEW n \in 0..Len(b)
  PROVE  /\ Drop(b, n) \in Seq(B) /\ Len(Drop(b, n)) = Len(b) - n
         /\ \A i \in 1..Len(b) - n : Drop(b, n)[i] = b[n + i]
BY DEF Drop

\* The same bytes, counted from the front or from an end that has them.
LEMMA DropTwice ==
  ASSUME NEW B, NEW b \in Seq(B), NEW n \in 0..Len(b), NEW m \in 0..Len(b) - n
  PROVE  Drop(Drop(b, n), m) = Drop(b, n + m)
<1>1. PICK l \in Nat : l = Len(b)
  BY LenProperties
<1>2. PICK c \in Seq(B) : c = Drop(b, n)
  BY DropIs
<1>3. Len(c) = l - n /\ \A i \in 1..l - n : c[i] = b[n + i]
  BY <1>1, <1>2, DropIs
<1>4. PICK d \in Seq(B) : d = Drop(c, m)
  BY <1>1, <1>3, DropIs
<1>5. Len(d) = l - n - m /\ \A i \in 1..l - n - m : d[i] = c[m + i]
  <2>3. PICK k \in Nat : k = Len(c)
    BY LenProperties
  <2>4. k = l - n /\ m \in 0..l - n
    BY <1>1, <1>3, <2>3
  <2>5. m \in 0..k /\ k - m = l - n - m
    BY <2>4
  <2>1. k = Len(c) /\ k = l - n /\ m \in 0..Len(c) /\ k - m = l - n - m
    BY <2>3, <2>4, <2>5
  <2>2. Len(d) = Len(c) - m /\ \A i \in 1..Len(c) - m : d[i] = c[m + i]
    BY <1>4, <2>1, DropIs
  <2> QED BY <2>1, <2>2
<1>6. n + m \in 0..Len(b)
  BY <1>1
<1>7. PICK e \in Seq(B) : e = Drop(b, n + m)
  BY <1>6, DropIs
<1>8. Len(e) = l - (n + m) /\ \A i \in 1..l - (n + m) : e[i] = b[n + m + i]
  BY <1>1, <1>6, <1>7, DropIs
<1>9. ASSUME NEW i \in 1..Len(e) PROVE d[i] = e[i]
  <2>1. PICK j \in 1..l - n : j = m + i /\ n + j = n + m + i /\ i \in 1..l - n - m /\ i \in 1..l - (n + m)
    BY <1>1, <1>8
  <2>2. d[i] = c[j]
    BY <1>5, <2>1
  <2>3. c[j] = b[n + j]
    BY <1>3, <2>1
  <2>4. e[i] = b[n + m + i]
    BY <1>8, <2>1
  <2> QED BY <2>1, <2>2, <2>3, <2>4
<1>10. Len(d) = Len(e)
  BY <1>1, <1>5, <1>8
<1>11. d = e
  BY <1>9, <1>10, SeqEqual
<1> QED BY <1>2, <1>4, <1>7, <1>11

\* A varint that is read is there.
VarintRead(r, b) ==
    /\ r.ok \in BOOLEAN
    /\ r.ok => r.n \in 1..Len(b) /\ r.v \in 0..Width - 1

\* readVarint never reports more bytes than there are.
LEMMA ReadVarintBounds ==
  ASSUME NEW b \in Seq(Byte)
  PROVE  VarintRead(ReadVarint(b), b)
<1>1. PICK l \in Nat : l = Len(b)
  BY LenProperties
<1>2. CASE \A i \in 1..Len(b) : b[i] >= 128
  BY <1>2 DEF ReadVarint, Malformed, VarintRead
<1>3. CASE ~\A i \in 1..Len(b) : b[i] >= 128
  <2> DEFINE S == {i \in 1..Len(b) : b[i] < 128}
  <2>1. S \in SUBSET Nat /\ S \subseteq 1..Len(b)
    BY <1>1
  <2>2. \A i \in 1..Len(b) : b[i] \in Byte
    BY ElementOfSeq
  <2>3. S # {}
    <3>1. PICK i \in 1..Len(b) : ~(b[i] >= 128)
      BY <1>3
    <3>2. \A c \in Byte : c >= 128 \/ c < 128
      BY DEF Byte
    <3>3. b[i] < 128
      BY <2>2, <3>1, <3>2
    <3> QED BY <3>3
  <2>4. PICK n \in 1..Len(b) : n = Min(S)
    <3> HIDE DEF S
    <3> QED BY <2>1, <2>3, MinNat
  <2>5. ReadVarint(b) = VarintOf(b, n)
    BY <1>3, <2>4 DEF ReadVarint
  <2>6. PICK g : IsValue(g, b, n)
    <3>1. n \in 0..Len(b)
      BY <1>1
    <3> QED BY <3>1, ValueExists
  <2>7. PICK w \in Nat : w = VarintValue(b, n)
    <3>1. n \in Nat
      BY <1>1
    <3> QED BY <2>6, <3>1, ValueRun
  <2>8. w % Width \in 0..Width - 1
    BY WireAssumption
  <2>9. CASE Overflows(n)
    BY <2>5, <2>9 DEF VarintOf, Malformed, VarintRead
  <2>10. CASE ~Overflows(n)
    <3>1. VarintOf(b, n) = [ok |-> TRUE, n |-> n, v |-> w % Width]
      BY <2>7, <2>10 DEF VarintOf
    <3>2. PICK r : r = ReadVarint(b) /\ r.ok = TRUE /\ r.n = n /\ r.v \in 0..Width - 1
      BY <2>5, <2>8, <3>1
    <3> QED BY <3>2 DEF VarintRead
  <2> QED BY <2>9, <2>10
<1> QED BY <1>2, <1>3

\* A value that is read leaves some end of what it was read from.
ValueRead(f, b) ==
    /\ f.ok \in BOOLEAN
    /\ f.ok => \E m \in 0..Len(b) : f.rest = Drop(b, m)

\* Neither does the part of parseFields that takes so many bytes,
LEMMA BytesBounds ==
  ASSUME NEW b \in Seq(Byte), NEW l \in Nat, NEW kept
  PROVE  ValueRead(Bytes(b, l, kept), b)
<1>1. PICK k \in Nat : k = Len(b)
  BY LenProperties
<1>2. CASE l > k
  BY <1>1, <1>2 DEF Bytes, Malformed, ValueRead
<1>3. CASE ~(l > k)
  <2>1. l \in 0..Len(b)
    BY <1>1, <1>3
  <2>2. PICK f : f = Bytes(b, l, kept)
    OBVIOUS
  <2>3. f.ok = TRUE /\ f.rest = Drop(b, l)
    BY <1>1, <1>3, <2>2 DEF Bytes
  <2> QED BY <2>1, <2>2, <2>3 DEF ValueRead
<1> QED BY <1>2, <1>3

\* nor the part that takes a value of any type.
LEMMA FieldValueBounds ==
  ASSUME NEW b \in Seq(Byte), NEW typ \in 0..7
  PROVE  ValueRead(FieldValue(typ, b), b)
<1> USE DEF wireVarint, wireBytes, wireI64, wireI32
<1>1. PICK k \in Nat : k = Len(b)
  BY LenProperties
<1>2. CASE typ \in {wireVarint, wireBytes}
  <2>1. PICK r : r = ReadVarint(b)
    OBVIOUS
  <2>2. VarintRead(r, b)
    BY <2>1, ReadVarintBounds
  <2>7. ASSUME typ = 0 PROVE FieldValue(typ, b) = AfterVarint(typ, r, b)
    BY <2>1, <2>7 DEF FieldValue
  <2>8. ASSUME typ = 2 PROVE FieldValue(typ, b) = AfterVarint(typ, r, b)
    BY <2>1, <2>8 DEF FieldValue
  <2>3. FieldValue(typ, b) = AfterVarint(typ, r, b)
    BY <1>2, <2>7, <2>8
  <2>4. CASE ~r.ok
    <3>1. AfterVarint(typ, r, b) = r /\ r.ok \in BOOLEAN
      BY <2>2, <2>4 DEF AfterVarint, VarintRead
    <3> QED BY <2>3, <2>4, <3>1 DEF ValueRead
  <2>5. CASE r.ok
    <3>1. r.n \in 1..k /\ r.v \in Nat
      BY <1>1, <2>2, <2>5 DEF VarintRead
    <3>2. PICK n \in 0..Len(b) : n = r.n
      BY <1>1, <3>1
    <3>3. CASE typ = wireBytes
      <4>1. AfterVarint(typ, r, b) = Bytes(Drop(b, n), r.v, TRUE)
        BY <2>5, <3>2, <3>3 DEF AfterVarint
      <4>2. Drop(b, n) \in Seq(Byte) /\ Len(Drop(b, n)) = k - n
        BY <1>1, DropIs
      <4>3. PICK f : f = Bytes(Drop(b, n), r.v, TRUE)
        OBVIOUS
      <4>4. ValueRead(f, Drop(b, n))
        BY <3>1, <4>2, <4>3, BytesBounds
      <4>5. f.ok \in BOOLEAN /\ (f.ok => \E m \in 0..k - n : f.rest = Drop(Drop(b, n), m))
        BY <4>2, <4>4 DEF ValueRead
      <4>6. ASSUME f.ok PROVE \E m \in 0..k : f.rest = Drop(b, m)
        <5>1. PICK m \in 0..k - n : f.rest = Drop(Drop(b, n), m)
          BY <4>5, <4>6
        <5>2. f.rest = Drop(b, n + m)
          BY <1>1, <5>1, DropTwice
        <5>3. n + m \in 0..k
          BY <1>1
        <5> QED BY <5>2, <5>3
      <4> QED BY <1>1, <2>3, <4>1, <4>3, <4>5, <4>6 DEF ValueRead
    <3>4. CASE typ # wireBytes
      <4>1. PICK f : f = AfterVarint(typ, r, b)
        OBVIOUS
      <4>2. f.ok = TRUE /\ f.rest = Drop(b, n)
        BY <2>5, <3>2, <3>4, <4>1 DEF AfterVarint
      <4> QED BY <2>3, <4>1, <4>2 DEF ValueRead
    <3> QED BY <3>3, <3>4
  <2>6. r.ok \in BOOLEAN
    BY <2>2 DEF VarintRead
  <2> QED BY <2>4, <2>5
<1>3. CASE typ = wireI64
  <2>1. FieldValue(typ, b) = Bytes(b, 8, FALSE)
    BY <1>3 DEF FieldValue
  <2> QED BY <2>1, BytesBounds
<1>4. CASE typ = wireI32
  <2>1. FieldValue(typ, b) = Bytes(b, 4, FALSE)
    BY <1>4 DEF FieldValue
  <2> QED BY <2>1, BytesBounds
<1>5. CASE typ \notin {wireVarint, wireBytes, wireI64, wireI32}
  <2>1. FieldValue(typ, b) = Malformed
    BY <1>5 DEF FieldValue
  <2> QED BY <2>1 DEF Malformed, ValueRead
<1> QED BY <1>2, <1>3, <1>4, <1>5

\* The field at the front of b.
FirstField(b) == ReadField(ReadVarint(b), b)

\* A field takes at least one byte.
LEMMA ReadFieldBounds ==
  ASSUME NEW b \in Seq(Byte)
  PROVE  /\ FirstField(b).ok \in BOOLEAN
         /\ FirstField(b).ok => \E m \in 1..Len(b) : FirstField(b).rest = Drop(b, m)
<1>1. PICK k \in Nat : k = Len(b)
  BY LenProperties
<1>2. PICK r : r = ReadVarint(b)
  OBVIOUS
<1>3. VarintRead(r, b)
  BY <1>2, ReadVarintBounds
<1>4. PICK f : f = FirstField(b) /\ f = ReadField(r, b)
  BY <1>2 DEF FirstField
<1>5. CASE ~r.ok \/ r.v < 8
  <2>1. f = Malformed
    BY <1>4, <1>5 DEF ReadField
  <2> QED BY <1>4, <2>1 DEF Malformed
<1>6. CASE ~(~r.ok \/ r.v < 8)
  <2>1. r.n \in 1..k /\ r.v \in 0..Width - 1
    BY <1>1, <1>3, <1>6 DEF VarintRead
  <2>2. PICK n \in 0..Len(b) : n = r.n /\ n \in 1..k
    BY <1>1, <2>1
  <2>3. r.v % 8 \in 0..7
    BY <2>1
  <2>4. Drop(b, n) \in Seq(Byte) /\ Len(Drop(b, n)) = k - n
    BY <1>1, DropIs
  <2>5. PICK v : v = FieldValue(r.v % 8, Drop(b, n))
    OBVIOUS
  <2>6. ValueRead(v, Drop(b, n))
    BY <2>3, <2>4, <2>5, FieldValueBounds
  <2>7. f = Keyed(r, v)
    BY <1>4, <1>6, <2>2, <2>5 DEF ReadField
  <2>8. v.ok \in BOOLEAN /\ (v.ok => \E m \in 0..k - n : v.rest = Drop(Drop(b, n), m))
    BY <2>4, <2>6 DEF ValueRead
  <2>9. CASE ~v.ok
    <3>1. f = v
      BY <2>7, <2>9 DEF Keyed
    <3> QED BY <1>4, <2>8, <2>9, <3>1
  <2>10. CASE v.ok
    <3>1. f.ok = TRUE /\ f.rest = v.rest
      BY <2>7, <2>10 DEF Keyed
    <3>2. PICK m \in 0..k - n : v.rest = Drop(Drop(b, n), m)
      BY <2>8, <2>10
    <3>3. v.rest = Drop(b, n + m)
      BY <1>1, <3>2, DropTwice
    <3>4. n + m \in 1..k
      BY <2>2
    <3> QED BY <1>1, <1>4, <3>1, <3>3, <3>4
  <2> QED BY <2>8, <2>9, <2>10
<1> QED BY <1>5, <1>6

\* The last n bytes, and how many are left after the field they begin with.
LastBytes(b, n) == Drop(b, Len(b) - n)
Left(b, n) == IF FirstField(LastBytes(b, n)).ok THEN Len(FirstField(LastBytes(b, n)).rest) ELSE 0

\* A turn of the loop leaves less than there was.
LEMMA LeftIsLess ==
  ASSUME NEW b \in Seq(Byte), NEW n \in 1..Len(b)
  PROVE  Left(b, n) \in 0..n - 1
<1>1. PICK k \in Nat : k = Len(b) /\ k - n \in 0..Len(b) /\ k - (k - n) = n
  BY LenProperties
<1>2. PICK e \in Seq(Byte) : e = LastBytes(b, n) /\ Len(e) = n
  BY <1>1, DropIs DEF LastBytes
<1>3. CASE ~FirstField(e).ok
  BY <1>2, <1>3 DEF Left
<1>4. CASE FirstField(e).ok
  <2>1. PICK m \in 1..n : FirstField(e).rest = Drop(e, m)
    BY <1>2, <1>4, ReadFieldBounds
  <2>2. m \in 0..Len(e)
    BY <1>2
  <2>3. Len(Drop(e, m)) = n - m
    BY <1>2, <2>2, DropIs
  <2>4. Left(b, n) = n - m
    BY <1>2, <1>4, <2>1, <2>3 DEF Left
  <2> QED BY <2>4
<1> QED BY <1>2, <1>3, <1>4, ReadFieldBounds

\* g gives the fields of every end of b.
IsFields(g, b) ==
    /\ g = [n \in 0..Len(b) |-> g[n]] /\ g[0] = << >>
    /\ \A n \in 1..Len(b) : g[n] = <<FirstField(LastBytes(b, n))>> \o g[Left(b, n)]

\* What is computed for all of them is what parseFields visits.
LEMMA FieldsRun ==
  ASSUME NEW b \in Seq(Byte), NEW g, IsFields(g, b)
  PROVE  FieldsOf(b) = g[Len(b)]
<1>0. PICK k \in Nat : k = Len(b)
  BY LenProperties
<1> DEFINE Eq(f) == f = [n \in 0..Len(b) |-> IF n = 0 THEN << >> ELSE <<FirstField(LastBytes(b, n))>> \o f[Left(b, n)]]
           F == CHOOSE f : Eq(f)
<1>1. FieldsOf(b) = F[Len(b)]
  BY DEF FieldsOf, FirstField, LastBytes, Left
<1>2. g = [n \in 0..k |-> g[n]] /\ g[0] = << >>
      /\ \A n \in 1..k : g[n] = <<FirstField(LastBytes(b, n))>> \o g[Left(b, n)]
  BY <1>0 DEF IsFields
<1>3. Eq(g)
  <2>1. \A n \in 0..k : n # 0 => n \in 1..k
    OBVIOUS
  <2>2. \A n \in 0..k : g[n] = IF n = 0 THEN << >> ELSE <<FirstField(LastBytes(b, n))>> \o g[Left(b, n)]
    BY <1>2, <2>1
  <2> QED BY <1>0, <1>2, <2>2
<1>4. Eq(F)
  <2> HIDE DEF Eq
  <2> QED BY <1>3
<1>5. \A n \in 0..k : F[n] = IF n = 0 THEN << >> ELSE <<FirstField(LastBytes(b, n))>> \o F[Left(b, n)]
  <2> HIDE DEF F
  <2> QED BY <1>0, <1>4
<1> HIDE DEF F, Eq
<1>6. \A n \in 0..k : F[n] = g[n]
  <2> DEFINE Bad == {n \in 0..k : F[n] # g[n]}
  <2> SUFFICES ASSUME Bad # {} PROVE FALSE
    OBVIOUS
  <2>1. Bad \in SUBSET Nat
    OBVIOUS
  <2>2. PICK n \in Bad : \A j \in Bad : n <= j
    BY <2>1, NatHasLeast
  <2>3. n \in 0..k /\ F[n] # g[n]
    BY <2>2
  <2>4. n # 0
    BY <1>2, <1>5, <2>3
  <2>5. n \in 1..k
    BY <2>3, <2>4
  <2>6. PICK j \in 0..n - 1 : j = Left(b, n)
    BY <1>0, <2>5, LeftIsLess
  <2>7. j \in 0..k /\ ~(n <= j)
    BY <2>5
  <2>8. F[j] = g[j]
    BY <2>2, <2>7
  <2>9. F[n] = <<FirstField(LastBytes(b, n))>> \o F[j]
    BY <1>5, <2>3, <2>4, <2>6
  <2>10. g[n] = <<FirstField(LastBytes(b, n))>> \o g[j]
    BY <1>2, <2>5, <2>6
  <2> QED BY <2>3, <2>8, <2>9, <2>10
<1>7. k \in 0..k
  OBVIOUS
<1> QED BY <1>0, <1>1, <1>6, <1>7

\* They can be computed.
LEMMA FieldsExist ==
  ASSUME NEW b \in Seq(Byte)
  PROVE  \E g : IsFields(g, b)
<1>0. PICK k \in Nat : k = Len(b)
  BY LenProperties
<1> DEFINE B == {FirstField(LastBytes(b, n)) : n \in 1..k}
           piece == [n \in 1..k |-> <<FirstField(LastBytes(b, n))>>]
           next == [n \in 1..k |-> Left(b, n)]
<1>1. ASSUME NEW n \in 1..k PROVE piece[n] \in Seq(B) /\ next[n] \in 0..n - 1
  <2>1. FirstField(LastBytes(b, n)) \in B
    OBVIOUS
  <2>2. piece[n] = <<FirstField(LastBytes(b, n))>> /\ next[n] = Left(b, n)
    OBVIOUS
  <2> HIDE DEF B, piece, next
  <2>3. <<FirstField(LastBytes(b, n))>> \in Seq(B)
    BY <2>1
  <2> QED BY <1>0, <2>2, <2>3, LeftIsLess
<1>2. \A n \in 1..k : piece[n] = <<FirstField(LastBytes(b, n))>> /\ next[n] = Left(b, n)
  OBVIOUS
<1> HIDE DEF B, piece, next
<1>3. PICK g : IsDescent(g, B, k, piece, next)
  BY <1>1, Descends
<1>4. g \in [0..k -> Seq(B)] /\ g[0] = << >> /\ \A n \in 1..k : g[n] = piece[n] \o g[next[n]]
  BY <1>3 DEF IsDescent
<1>5. g = [n \in 0..k |-> g[n]]
  BY <1>4
<1> QED BY <1>0, <1>2, <1>4, <1>5 DEF IsFields

\* A turn of the loop.
LEMMA FieldsStep ==
  ASSUME NEW b \in Seq(Byte), Len(b) # 0, FirstField(b).ok
  PROVE  FieldsOf(b) = <<FirstField(b)>> \o FieldsOf(FirstField(b).rest)
<1>0. PICK k \in Nat : k = Len(b) /\ k \in 1..k /\ k \in 1..Len(b)
  BY LenProperties
<1>1. PICK g : IsFields(g, b)
  BY FieldsExist
<1>2. FieldsOf(b) = g[k]
  BY <1>0, <1>1, FieldsRun
<1>3. g = [n \in 0..k |-> g[n]] /\ g[0] = << >>
      /\ \A n \in 1..k : g[n] = <<FirstField(LastBytes(b, n))>> \o g[Left(b, n)]
  BY <1>0, <1>1 DEF IsFields
<1>4. LastBytes(b, k) = b
  <2>1. k - k = 0 /\ 0 \in 0..Len(b)
    BY <1>0
  <2>2. Drop(b, 0) = b
    BY DEF Drop
  <2> QED BY <1>0, <2>1, <2>2 DEF LastBytes
<1>5. PICK m \in 1..k : FirstField(b).rest = Drop(b, m)
  BY <1>0, ReadFieldBounds
<1>6. PICK c \in Seq(Byte) : c = Drop(b, m) /\ Len(c) = k - m
  <2>1. m \in 0..Len(b)
    BY <1>0
  <2> QED BY <1>0, <2>1, DropIs
<1>7. PICK l \in 0..k - 1 : l = k - m /\ l = Len(c)
  BY <1>0, <1>6
<1>8. Left(b, k) = l
  BY <1>4, <1>5, <1>6, <1>7 DEF Left
<1>9. ASSUME NEW n \in 1..l PROVE LastBytes(c, n) = LastBytes(b, n)
  <2>1. m \in 0..Len(b) /\ l - n \in 0..Len(b) - m /\ m + (l - n) = k - n
    BY <1>0, <1>7
  <2>2. Drop(Drop(b, m), l - n) = Drop(b, m + (l - n))
    BY <2>1, DropTwice
  <2> QED BY <1>0, <1>6, <1>7, <2>1, <2>2 DEF LastBytes
<1> DEFINE h == [n \in 0..l |-> g[n]]
<1>10. IsFields(h, c)
  <2>1. h[0] = << >> /\ h = [n \in 0..l |-> h[n]]
    BY <1>3
  <2>2. ASSUME NEW n \in 1..l PROVE h[n] = <<FirstField(LastBytes(c, n))>> \o h[Left(c, n)]
    <3>1. n \in 1..Len(b) /\ n \in 1..k /\ n \in 0..l
      BY <1>0
    <3>2. PICK j \in 0..n - 1 : j = Left(b, n)
      BY <3>1, LeftIsLess
    <3>3. Left(c, n) = j
      BY <1>9, <3>2 DEF Left
    <3>4. h[n] = g[n] /\ h[j] = g[j]
      BY <3>1
    <3>5. g[n] = <<FirstField(LastBytes(b, n))>> \o g[j]
      BY <1>3, <3>1, <3>2
    <3> HIDE DEF h
    <3> QED BY <1>9, <3>3, <3>4, <3>5
  <2> HIDE DEF h
  <2> QED BY <1>7, <2>1, <2>2 DEF IsFields
<1>11. h[l] = g[l]
  OBVIOUS
<1> HIDE DEF h
<1>12. FieldsOf(c) = g[l]
  BY <1>7, <1>10, <1>11, FieldsRun
<1> QED BY <1>0, <1>2, <1>3, <1>4, <1>5, <1>6, <1>8, <1>12

\* The end of the loop.
LEMMA NoFields == FieldsOf(<< >>) = << >>
<1>1. << >> \in Seq(Byte) /\ Len(<< >>) = 0
  OBVIOUS
<1>2. PICK g : IsFields(g, << >>)
  BY <1>1, FieldsExist
<1> QED BY <1>1, <1>2, FieldsRun DEF IsFields

-----------------------------------------------------------------------------
(* What is encoded is read back *)

\* s is a varint of v: all bytes but the last say that another follows.
IsVarint(s, v) ==
    /\ s \in Seq(Byte) /\ Len(s) \in Nat \ {0}
    /\ \A i \in 1..Len(s) - 1 : s[i] >= 128
    /\ s[Len(s)] < 128
    /\ VarintValue(s, Len(s)) = v

\* A byte in front.
LEMMA ConsBytes ==
  ASSUME NEW c \in Byte, NEW s \in Seq(Byte)
  PROVE  /\ <<c>> \o s \in Seq(Byte) /\ Len(<<c>> \o s) = Len(s) + 1
         /\ (<<c>> \o s)[1] = c /\ \A i \in 1..Len(s) : (<<c>> \o s)[i + 1] = s[i]
<1>1. <<c>> \in Seq(Byte) /\ Len(<<c>>) = 1 /\ <<c>>[1] = c
  OBVIOUS
<1> QED BY <1>1

\* appendVarint appends a varint of its argument.
LEMMA VarintGood ==
  ASSUME NEW v \in Nat
  PROVE  IsVarint(Varint(v), v)
<1> DEFINE Bad == {x \in Nat : ~IsVarint(Varint(x), x)}
<1> SUFFICES ASSUME Bad # {} PROVE FALSE
  OBVIOUS
<1>1. Bad \in SUBSET Nat
  OBVIOUS
<1>2. PICK x \in Bad : \A j \in Bad : x <= j
  BY <1>1, NatHasLeast
<1>3. x \in Nat /\ ~IsVarint(Varint(x), x)
  BY <1>2
<1>4. PICK s \in Seq(Byte) : s = Varint(x)
  BY <1>3, VarintIs
<1>5. CASE ~(x >= 128)
  <2>9. x \in Byte /\ x % 128 = x
    BY <1>3, <1>5 DEF Byte
  <2>1. s = <<x>> /\ x \in Byte /\ x % 128 = x
    BY <1>3, <1>4, <1>5, <2>9, VarintIs
  <2>8. << >> \in Seq(Byte) /\ Len(<< >>) = 0
    OBVIOUS
  <2>2. PICK e \in Seq(Byte) : e = << >> /\ Len(e) = 0
    BY <2>8
  <2>3. VarintValue(e, 0) = 0
    <3> DEFINE g == [k \in 0..0 |-> 0]
    <3>1. IsValue(g, e, 0)
      BY DEF IsValue
    <3>2. g[0] = 0
      OBVIOUS
    <3> HIDE DEF g
    <3> QED BY <3>1, <3>2, ValueRun
  <2>4. Len(s) = Len(e) + 1 /\ s[1] = x /\ Len(s) = 1 /\ \A i \in 1..Len(e) : s[i + 1] = e[i]
    BY <2>1, <2>2
  <2>5. VarintValue(s, Len(s)) = (x % 128) + 128 * VarintValue(e, Len(e))
    BY <2>1, <2>4, ValueCons
  <2>6. VarintValue(s, 1) = x
    BY <1>3, <2>1, <2>2, <2>3, <2>4, <2>5
  <2>7. IsVarint(s, x)
    BY <1>3, <1>5, <2>4, <2>6 DEF IsVarint
  <2> QED BY <1>3, <1>4, <2>7
<1>6. CASE x >= 128
  <2>1. PICK d \in Nat : d = x \div 128 /\ ~(x <= d) /\ x = (x % 128) + 128 * d
    BY <1>3, <1>6, VarintStep
  <2>2. PICK m \in 0..127 : m = x % 128
    BY <1>3, VarintStep
  <2>3. PICK c \in Byte : c = 128 + m /\ c >= 128 /\ c % 128 = m
    BY <2>2 DEF Byte
  <2>4. IsVarint(Varint(d), d)
    BY <1>2, <2>1
  <2>5. PICK t \in Seq(Byte) : t = Varint(d)
    BY <2>1, VarintIs
  <2>6. PICK n \in Nat : n = Len(t) /\ n # 0
    BY <2>4, <2>5 DEF IsVarint
  <2>7. (\A i \in 1..n - 1 : t[i] >= 128) /\ t[n] < 128 /\ VarintValue(t, Len(t)) = d
    BY <2>4, <2>5, <2>6 DEF IsVarint
  <2>8. s = <<c>> \o t
    BY <1>3, <1>4, <1>6, <2>1, <2>2, <2>3, <2>5, VarintIs
  <2>9. Len(s) = n + 1 /\ s[1] = c /\ \A i \in 1..n : s[i + 1] = t[i]
    BY <2>6, <2>8, ConsBytes
  <2>10. VarintValue(s, Len(s)) = (c % 128) + 128 * VarintValue(t, Len(t))
    BY <2>6, <2>9, ValueCons
  <2>11. VarintValue(s, Len(s)) = x
    BY <1>3, <2>1, <2>2, <2>3, <2>7, <2>10
  <2>12. ASSUME NEW i \in 1..n PROVE s[i] >= 128
    <3>1. CASE i = 1
      BY <2>3, <2>9, <3>1
    <3>2. CASE i # 1
      <4>1. PICK j \in 1..n - 1 : i = j + 1 /\ j \in 1..n
        BY <3>2
      <4> QED BY <2>7, <2>9, <4>1
    <3> QED BY <3>1, <3>2
  <2>13. s[n + 1] < 128
    <3>1. n \in 1..n
      BY <2>6
    <3> QED BY <2>7, <2>9, <3>1
  <2>14. PICK l \in Nat : l = Len(s) /\ l = n + 1 /\ l - 1 = n /\ l # 0
    BY <2>9
  <2>15. IsVarint(s, x)
    BY <2>11, <2>12, <2>13, <2>14 DEF IsVarint
  <2> QED BY <1>3, <1>4, <2>15
<1> QED BY <1>5, <1>6

\* A small integer has a short varint.
LEMMA VarintShort ==
  ASSUME NEW n \in Nat, NEW v \in Nat, v < Encodable(n + 1)
  PROVE  Len(Varint(v)) <= n + 1
<1> DEFINE Long(m, x) == x < Encodable(m + 1) /\ ~(Len(Varint(x)) <= m + 1)
           Bad == {m \in Nat : \E x \in Nat : Long(m, x)}
<1> SUFFICES ASSUME Bad # {} PROVE FALSE
  OBVIOUS
<1>1. Bad \in SUBSET Nat
  OBVIOUS
<1>2. PICK m \in Bad : \A j \in Bad : m <= j
  BY <1>1, NatHasLeast
<1>3. m \in Nat
  BY <1>2
<1>4. PICK x \in Nat : x < Encodable(m + 1) /\ ~(Len(Varint(x)) <= m + 1)
  BY <1>2
<1>5. CASE ~(x >= 128)
  <2>1. Varint(x) = <<x>>
    BY <1>5, VarintIs
  <2>2. Len(<<x>>) = 1
    OBVIOUS
  <2> QED BY <1>3, <1>4, <2>1, <2>2
<1>6. CASE x >= 128
  <2>1. PICK e \in Nat : e = Encodable(m) /\ Encodable(m + 1) = 128 * e
    BY <1>3, EncodableIs
  <2>2. PICK d \in Nat : d = x \div 128 /\ x = (x % 128) + 128 * d
    BY VarintStep
  <2>3. PICK r \in 0..127 : r = x % 128
    BY VarintStep
  <2>4. d < e
    BY <1>4, <2>1, <2>2, <2>3
  <2>5. m # 0
    <3>1. SUFFICES ASSUME m = 0 PROVE FALSE
      OBVIOUS
    <3>2. e = 1
      BY <1>3, <2>1, <3>1, EncodableIs
    <3> QED BY <1>4, <1>6, <2>1, <3>2
  <2>6. PICK j \in Nat : j + 1 = m /\ ~(m <= j)
    BY <1>3, <2>5
  <2>7. ~\E y \in Nat : Long(j, y)
    BY <1>2, <2>6
  <2>8. Len(Varint(d)) <= m
    BY <2>1, <2>4, <2>6, <2>7
  <2>9. PICK c \in Byte : c = 128 + (x % 128)
    BY <2>3 DEF Byte
  <2>10. Varint(x) = <<c>> \o Varint(d)
    BY <1>6, <2>2, <2>9, VarintIs
  <2>11. Varint(d) \in Seq(Byte) /\ Len(Varint(d)) \in Nat
    BY VarintIs, LenProperties
  <2>12. Len(Varint(x)) = Len(Varint(d)) + 1
    BY <2>10, <2>11, ConsBytes
  <2> QED BY <1>3, <1>4, <2>8, <2>11, <2>12
<1> QED BY <1>5, <1>6

\* readVarint gives back what appendVarint appended, and its length.
LEMMA ReadVarintIs ==
  ASSUME NEW v \in 0..Width - 1, NEW rest \in Seq(Byte)
  PROVE  /\ Varint(v) \in Seq(Byte) /\ Len(Varint(v)) \in Nat \ {0}
         /\ ReadVarint(Varint(v) \o rest) = [ok |-> TRUE, n |-> Len(Varint(v)), v |-> v]
<1>0. v \in Nat /\ Width \in Nat /\ v < Width
  BY WireAssumption
<1>1. PICK s \in Seq(Byte) : s = Varint(v)
  BY <1>0, VarintIs
<1>2. PICK n \in Nat : n = Len(s) /\ n # 0
  BY <1>0, <1>1, VarintGood DEF IsVarint
<1>3. (\A i \in 1..n - 1 : s[i] >= 128) /\ s[n] < 128 /\ VarintValue(s, n) = v
  BY <1>0, <1>1, <1>2, VarintGood DEF IsVarint
<1>4. PICK b \in Seq(Byte) : b = s \o rest
  BY ConcatProperties
<1>5. n \in 1..Len(b) /\ \A i \in 1..n : b[i] = s[i]
  BY <1>2, <1>4, ConcatProperties, LenProperties
<1> DEFINE S == {i \in 1..Len(b) : b[i] < 128}
<1>6. n \in S
  <2>1. n \in 1..n
    BY <1>2
  <2> QED BY <1>3, <1>5, <2>1
<1>7. ASSUME NEW i \in S PROVE n <= i
  <2>1. i \in 1..Len(b) /\ b[i] < 128 /\ Len(b) \in Nat
    BY LenProperties
  <2>2. SUFFICES ASSUME ~(n <= i) PROVE FALSE
    OBVIOUS
  <2>3. i \in 1..n - 1 /\ i \in 1..n
    BY <2>1, <2>2
  <2>4. b[i] >= 128
    BY <1>3, <1>5, <2>3
  <2>5. b[i] \in Byte
    BY <2>1, ElementOfSeq
  <2>6. \A c \in Byte : c < 128 => ~(c >= 128)
    BY DEF Byte
  <2> QED BY <2>1, <2>4, <2>5, <2>6
<1>8. Min(S) = n
  <2>1. S \in SUBSET Nat /\ S # {}
    BY <1>6
  <2> HIDE DEF S
  <2>2. Min(S) \in S /\ Min(S) <= n
    BY <1>6, <2>1, MinNat
  <2>3. Min(S) \in Nat /\ n <= Min(S)
    BY <1>7, <2>1, <2>2
  <2> QED BY <2>2, <2>3
<1>9. ~\A i \in 1..Len(b) : b[i] >= 128
  <2>1. n \in 1..Len(b) /\ b[n] < 128
    BY <1>6
  <2>2. b[n] \in Byte
    BY <2>1, ElementOfSeq
  <2>4. \A c \in Byte : c < 128 => ~(c >= 128)
    BY DEF Byte
  <2>3. ~(b[n] >= 128)
    BY <2>1, <2>2, <2>4
  <2> QED BY <2>1, <2>3
<1>10. ReadVarint(b) = VarintOf(b, n)
  BY <1>8, <1>9 DEF ReadVarint
<1>11. VarintValue(b, n) = v
  BY <1>2, <1>3, <1>5, ValueOfStart
<1>12. ~Overflows(n)
  <2>1. PICK m \in Nat : m = MaxBytes - 1 /\ MaxBytes = m + 1
    BY WireAssumption
  <2>2. Encodable(m + 1) \in Nat /\ Width < Encodable(m + 1)
    BY <2>1, EncodableIs, WireAssumption
  <2>3. v < Encodable(m + 1)
    BY <1>0, <2>2
  <2>4. n <= m + 1
    BY <1>0, <1>1, <1>2, <2>3, VarintShort
  <2> QED BY <1>2, <2>1, <2>4 DEF Overflows
<1>13. v % Width = v
  BY <1>0
<1> QED BY <1>1, <1>2, <1>4, <1>10, <1>11, <1>12, <1>13 DEF VarintOf

\* What follows a part is left when the part is dropped.
LEMMA DropStart ==
  ASSUME NEW B, NEW s \in Seq(B), NEW r \in Seq(B)
  PROVE  s \o r \in Seq(B) /\ Drop(s \o r, Len(s)) = r
<1>1. PICK k \in Nat, l \in Nat : k = Len(s) /\ l = Len(r)
  BY LenProperties
<1>2. PICK t \in Seq(B) : t = s \o r
  BY ConcatProperties
<1>3. Len(t) = k + l /\ k \in 0..Len(t)
  BY <1>1, <1>2, ConcatProperties
<1>4. \A i \in 1..l : t[k + i] = r[i]
  <2> TAKE i \in 1..l
  <2>1. k + i \in 1..Len(t) /\ ~(k + i <= k) /\ k + i - k = i
    BY <1>1, <1>3
  <2> QED BY <1>1, <1>2, <1>3, <2>1, ConcatProperties
<1>5. PICK d \in Seq(B) : d = Drop(t, k)
  BY <1>3, DropIs
<1>6. Len(d) = Len(t) - k /\ \A i \in 1..Len(t) - k : d[i] = t[k + i]
  BY <1>3, <1>5, DropIs
<1>7. Len(t) - k = l
  BY <1>3
<1>8. Len(d) = Len(r) /\ \A i \in 1..Len(d) : d[i] = r[i]
  BY <1>1, <1>4, <1>6, <1>7
<1>9. d = r
  BY <1>8, SeqEqual
<1> QED BY <1>1, <1>2, <1>5, <1>9

\* Integers are wide enough for the key of every field.
LEMMA KeysFit == Width > 128
<1> DEFINE Bad == {m \in Nat : ~(Encodable(m) >= 1)}
<1>1. Bad = {}
  <2> SUFFICES ASSUME Bad # {} PROVE FALSE
    OBVIOUS
  <2>1. Bad \in SUBSET Nat
    OBVIOUS
  <2>2. PICK m \in Bad : \A j \in Bad : m <= j
    BY <2>1, NatHasLeast
  <2>3. m \in Nat /\ ~(Encodable(m) >= 1)
    BY <2>2
  <2>4. m # 0
    BY <2>3, EncodableIs
  <2>5. PICK j \in Nat : j + 1 = m /\ ~(m <= j)
    BY <2>3, <2>4
  <2>6. Encodable(j) >= 1
    BY <2>2, <2>5
  <2>7. PICK e \in Nat : e = Encodable(j) /\ Encodable(m) = 128 * e
    BY <2>5, EncodableIs
  <2> QED BY <2>3, <2>6, <2>7
<1>2. PICK m \in Nat : MaxBytes - 1 = m + 1
  <2>1. MaxBytes - 2 \in Nat /\ MaxBytes - 1 = MaxBytes - 2 + 1
    BY WireAssumption
  <2> QED BY <2>1
<1>3. PICK e \in Nat : e = Encodable(m) /\ Encodable(m + 1) = 128 * e
  BY EncodableIs
<1>4. e >= 1
  BY <1>1, <1>3
<1>5. 128 * e < Width /\ Width \in Nat
  BY <1>2, <1>3, WireAssumption
<1> QED BY <1>4, <1>5

\* A key is read back, and what follows it is left.
LEMMA KeyIs ==
  ASSUME NEW num \in 1..8, NEW typ \in {0, 2}, NEW rest \in Seq(Byte)
  PROVE  /\ Tag(num, typ) \in Seq(Byte) /\ Len(Tag(num, typ)) \in Nat \ {0}
         /\ FirstField(Tag(num, typ) \o rest)
              = Keyed([ok |-> TRUE, n |-> Len(Tag(num, typ)), v |-> num * 8 + typ], FieldValue(typ, rest))
         /\ (num * 8 + typ) \div 8 = num /\ (num * 8 + typ) % 8 = typ
<1>1. PICK x \in Nat : x = num * 8 + typ /\ x < 128 /\ ~(x < 8) /\ x \div 8 = num /\ x % 8 = typ
  OBVIOUS
<1>2. x \in 0..Width - 1
  BY <1>1, KeysFit, WireAssumption
<1>3. PICK s : s = Tag(num, typ) /\ s = Varint(x)
  BY <1>1 DEF Tag
<1>4. s \in Seq(Byte) /\ Len(s) \in Nat \ {0}
      /\ ReadVarint(s \o rest) = [ok |-> TRUE, n |-> Len(s), v |-> x]
  BY <1>2, <1>3, ReadVarintIs
<1>9. PICK key : key = [ok |-> TRUE, n |-> Len(s), v |-> x]
  OBVIOUS
<1>5. key = [ok |-> TRUE, n |-> Len(s), v |-> x] /\ key.ok = TRUE /\ key.n = Len(s) /\ key.v = x
  BY <1>9
<1>6. Drop(s \o rest, Len(s)) = rest
  BY <1>4, DropStart
<1>7. ReadField(key, s \o rest) = Keyed(key, FieldValue(typ, rest))
  BY <1>1, <1>5, <1>6 DEF ReadField
<1>8. FirstField(s \o rest) = ReadField(key, s \o rest)
  BY <1>4, <1>5 DEF FirstField
<1> QED BY <1>1, <1>3, <1>4, <1>5, <1>7, <1>8

\* The field that is read for an integer and for bytes.
IntegerField(num, v, rest) ==
    [ok |-> TRUE, num |-> num, typ |-> 0, varix |-> v, data |-> << >>, rest |-> rest]
DataField(num, v, rest) ==
    [ok |-> TRUE, num |-> num, typ |-> 2, varix |-> 0, data |-> v, rest |-> rest]

\* The message b begins with field f, and rest follows.
BeginsWith(b, f, rest) ==
    /\ b \in Seq(Byte) /\ Len(b) # 0 /\ FirstField(b) = f /\ f.ok = TRUE /\ f.rest = rest

\* So it does if b is the encoded field s in front of the rest.
Reads(s, rest, f) ==
    s \in Seq(Byte) /\ s \o rest \in Seq(Byte) /\ BeginsWith(s \o rest, f, rest)

\* appendUint64Field appends a field that parseFields reads back,
LEMMA IntegerFieldRead ==
  ASSUME NEW num \in 1..8, NEW v \in 0..Width - 1, NEW rest \in Seq(Byte)
  PROVE  Reads(Uint64Field(num, v), rest, IntegerField(num, v, rest))
<1> DEFINE s == Varint(v)
           t == Tag(num, 0)
           x == num * 8 + 0
<1>1. s \in Seq(Byte) /\ Len(s) \in Nat \ {0} /\ ReadVarint(s \o rest) = [ok |-> TRUE, n |-> Len(s), v |-> v]
  BY ReadVarintIs
<1>2. s \o rest \in Seq(Byte) /\ Drop(s \o rest, Len(s)) = rest
  BY <1>1, DropStart
<1>3. t \in Seq(Byte) /\ Len(t) \in Nat \ {0} /\ x \div 8 = num /\ x % 8 = 0
      /\ FirstField(t \o (s \o rest)) = Keyed([ok |-> TRUE, n |-> Len(t), v |-> x], FieldValue(0, s \o rest))
  BY <1>2, KeyIs
<1>4. Uint64Field(num, v) = t \o s
  BY DEF Uint64Field, wireVarint
<1> HIDE DEF s, t, x
<1>5. (t \o s) \o rest = t \o (s \o rest) /\ t \o s \in Seq(Byte)
  <2>1. Regroups(t, s, rest)
    BY <1>1, <1>3, ConcatRegroups
  <2>2. t \o s \in Seq(Byte)
    BY <1>1, <1>3, ConcatProperties
  <2> QED BY <2>1, <2>2 DEF Regroups
<1>6. t \o (s \o rest) \in Seq(Byte) /\ Len(t \o (s \o rest)) # 0
  <2>1. Len(t \o (s \o rest)) = Len(t) + Len(s \o rest) /\ Len(s \o rest) \in Nat
    BY <1>2, <1>3, ConcatProperties, LenProperties
  <2> QED BY <1>2, <1>3, <2>1, ConcatProperties
<1>15. PICK key : key = [ok |-> TRUE, n |-> Len(t), v |-> x]
  OBVIOUS
<1>7. key = [ok |-> TRUE, n |-> Len(t), v |-> x] /\ key.v = x
  BY <1>15
<1>8. PICK r : r = ReadVarint(s \o rest) /\ r.ok = TRUE /\ r.n = Len(s) /\ r.v = v
  BY <1>1
<1>9. FieldValue(0, s \o rest) = AfterVarint(0, r, s \o rest)
  BY <1>8 DEF FieldValue, wireVarint, wireBytes, wireI64, wireI32
<1>10. AfterVarint(0, r, s \o rest) = [ok |-> TRUE, varix |-> v, data |-> << >>, rest |-> rest]
  BY <1>2, <1>8 DEF AfterVarint, wireBytes
<1>11. PICK val : val = FieldValue(0, s \o rest) /\ val.ok = TRUE /\ val.varix = v /\ val.data = << >>
                  /\ val.rest = rest
  BY <1>9, <1>10
<1>12. Keyed(key, val) = IntegerField(num, v, rest)
  BY <1>3, <1>7, <1>11 DEF Keyed, IntegerField
<1>13. FirstField(t \o (s \o rest)) = IntegerField(num, v, rest)
  BY <1>3, <1>7, <1>11, <1>12
<1>14. IntegerField(num, v, rest).ok = TRUE /\ IntegerField(num, v, rest).rest = rest
  BY DEF IntegerField
<1> QED BY <1>4, <1>5, <1>6, <1>13, <1>14 DEF BeginsWith, Reads

\* and so does appendBytesField.
LEMMA DataFieldRead ==
  ASSUME NEW num \in 1..8, NEW v \in Seq(Byte), Len(v) < Width, NEW rest \in Seq(Byte)
  PROVE  Reads(BytesField(num, v), rest, DataField(num, v, rest))
<1> DEFINE s == Varint(Len(v))
           t == Tag(num, 2)
           x == num * 8 + 2
           w == v \o rest
<1>0. Len(v) \in 0..Width - 1
  BY LenProperties, WireAssumption
<1>1. w \in Seq(Byte) /\ Drop(w, Len(v)) = rest /\ SubSeq(w, 1, Len(v)) = v /\ ~(Len(v) > Len(w))
  <2>1. Len(v) \in Nat /\ Len(rest) \in Nat /\ Len(w) = Len(v) + Len(rest)
    BY LenProperties, ConcatProperties
  <2>2. SubSeq(w, 1, Len(v)) = v
    BY <2>1
  <2> QED BY <2>1, <2>2, DropStart
<1>2. s \in Seq(Byte) /\ Len(s) \in Nat \ {0} /\ ReadVarint(s \o w) = [ok |-> TRUE, n |-> Len(s), v |-> Len(v)]
  BY <1>0, <1>1, ReadVarintIs
<1>3. s \o w \in Seq(Byte) /\ Drop(s \o w, Len(s)) = w
  BY <1>1, <1>2, DropStart
<1>4. t \in Seq(Byte) /\ Len(t) \in Nat \ {0} /\ x \div 8 = num /\ x % 8 = 2
      /\ FirstField(t \o (s \o w)) = Keyed([ok |-> TRUE, n |-> Len(t), v |-> x], FieldValue(2, s \o w))
  BY <1>3, KeyIs
<1>5. BytesField(num, v) = (t \o s) \o v
  BY DEF BytesField, wireBytes
<1> HIDE DEF s, t, x
<1>6. t \o s \in Seq(Byte) /\ (t \o s) \o v \in Seq(Byte)
  BY <1>2, <1>4, ConcatProperties
<1>7. ((t \o s) \o v) \o rest = t \o (s \o w)
  <2>1. Regroups(t \o s, v, rest)
    BY <1>6, ConcatRegroups
  <2>3. v \o rest = w
    OBVIOUS
  <2> HIDE DEF w
  <2>2. Regroups(t, s, w)
    BY <1>1, <1>2, <1>4, ConcatRegroups
  <2> QED BY <2>1, <2>2, <2>3 DEF Regroups
<1> HIDE DEF w
<1>8. t \o (s \o w) \in Seq(Byte) /\ Len(t \o (s \o w)) # 0
  <2>1. Len(t \o (s \o w)) = Len(t) + Len(s \o w) /\ Len(s \o w) \in Nat
    BY <1>3, <1>4, ConcatProperties, LenProperties
  <2> QED BY <1>3, <1>4, <2>1, ConcatProperties
<1>18. PICK key : key = [ok |-> TRUE, n |-> Len(t), v |-> x]
  OBVIOUS
<1>9. key = [ok |-> TRUE, n |-> Len(t), v |-> x] /\ key.v = x
  BY <1>18
<1>10. PICK r : r = ReadVarint(s \o w) /\ r.ok = TRUE /\ r.n = Len(s) /\ r.v = Len(v)
  BY <1>2
<1>11. FieldValue(2, s \o w) = AfterVarint(2, r, s \o w)
  BY <1>10 DEF FieldValue, wireVarint, wireBytes, wireI64, wireI32
<1>12. AfterVarint(2, r, s \o w) = Bytes(w, Len(v), TRUE)
  BY <1>3, <1>10 DEF AfterVarint, wireBytes
<1>13. Bytes(w, Len(v), TRUE) = [ok |-> TRUE, varix |-> 0, data |-> v, rest |-> rest]
  BY <1>1 DEF Bytes
<1>19. PICK val : val = FieldValue(2, s \o w)
  OBVIOUS
<1>20. val = [ok |-> TRUE, varix |-> 0, data |-> v, rest |-> rest]
  BY <1>11, <1>12, <1>13, <1>19
<1>14. val = FieldValue(2, s \o w) /\ val.ok = TRUE /\ val.varix = 0 /\ val.data = v
       /\ val.rest = rest
  BY <1>19, <1>20
<1>15. Keyed(key, val) = DataField(num, v, rest)
  BY <1>4, <1>9, <1>14 DEF Keyed, DataField
<1>16. FirstField(t \o (s \o w)) = DataField(num, v, rest)
  BY <1>4, <1>9, <1>14, <1>15
<1>17. DataField(num, v, rest).ok = TRUE /\ DataField(num, v, rest).rest = rest
  BY DEF DataField
<1> QED BY <1>5, <1>6, <1>7, <1>8, <1>16, <1>17 DEF BeginsWith, Reads

-----------------------------------------------------------------------------
(* Instructions *)

\* The payloads and the instructions that can be encoded.
Fitting == {d \in Seq(Byte) : Len(d) < Width}
Encoded == [version : 0..MaxVersion, old : 0..Width - 1, new : 0..Width - 1, ack : 0..Width - 1,
            throwaway : 0..Width - 1, diff : Fitting, chaff : Fitting]

\* Seven parts, put together from the front or from the end.
InOrder(a, b, c, d, e, f, g) ==
    a \o b \o c \o d \o e \o f \o g = a \o (b \o (c \o (d \o (e \o (f \o (g \o << >>))))))

\* It comes to the same.
LEMMA SevenParts ==
  ASSUME NEW B, NEW a \in Seq(B), NEW b \in Seq(B), NEW c \in Seq(B), NEW d \in Seq(B),
         NEW e \in Seq(B), NEW f \in Seq(B), NEW g \in Seq(B)
  PROVE  InOrder(a, b, c, d, e, f, g)
<1>1. g \o << >> = g
  BY ConcatEmptySeq
<1>2. PICK q6 \in Seq(B) : q6 = f \o g
  BY ConcatProperties
<1>3. PICK q5 \in Seq(B) : q5 = e \o q6
  BY ConcatProperties
<1>4. PICK q4 \in Seq(B) : q4 = d \o q5
  BY ConcatProperties
<1>5. PICK q3 \in Seq(B) : q3 = c \o q4
  BY ConcatProperties
<1>6. PICK p2 \in Seq(B) : p2 = a \o b
  BY ConcatProperties
<1>7. PICK p3 \in Seq(B) : p3 = p2 \o c
  BY ConcatProperties
<1>8. PICK p4 \in Seq(B) : p4 = p3 \o d
  BY ConcatProperties
<1>9. PICK p5 \in Seq(B) : p5 = p4 \o e
  BY ConcatProperties
<1>10. Regroups(p5, f, g) /\ Regroups(p4, e, q6) /\ Regroups(p3, d, q5) /\ Regroups(p2, c, q4)
       /\ Regroups(a, b, q3)
  BY ConcatRegroups
<1>11. (p5 \o f) \o g = p5 \o q6 /\ p5 \o q6 = p4 \o q5 /\ p4 \o q5 = p3 \o q4 /\ p3 \o q4 = p2 \o q3
       /\ p2 \o q3 = a \o (b \o q3)
  BY <1>2, <1>3, <1>4, <1>5, <1>6, <1>7, <1>8, <1>9, <1>10 DEF Regroups
<1> QED BY <1>1, <1>2, <1>3, <1>4, <1>5, <1>6, <1>7, <1>8, <1>9, <1>11 DEF InOrder

\* A message's fields, when it begins with a field f and that of the rest is known.
LEMMA FieldsCons ==
  ASSUME NEW b, NEW f, NEW rest, BeginsWith(b, f, rest)
  PROVE  FieldsOf(b) = <<f>> \o FieldsOf(rest)
<1>1. b \in Seq(Byte) /\ Len(b) # 0 /\ FirstField(b) = f /\ f.ok = TRUE /\ f.rest = rest
  BY DEF BeginsWith
<1>2. FirstField(b).ok
  BY <1>1
<1> QED BY <1>1, <1>2, FieldsStep

\* t is s with x in front.
IsCons(t, x, s, B) ==
    /\ t = <<x>> \o s /\ t \in Seq(B) /\ Len(t) = Len(s) + 1
    /\ t[1] = x /\ \A i \in 1..Len(s) : t[i + 1] = s[i]

\* There is such a sequence.
LEMMA ConsIs ==
  ASSUME NEW B, NEW x \in B, NEW s \in Seq(B)
  PROVE  \E t : IsCons(t, x, s, B)
<1>1. <<x>> \in Seq(B) /\ Len(<<x>>) = 1 /\ <<x>>[1] = x
  OBVIOUS
<1>2. /\ <<x>> \o s \in Seq(B) /\ Len(<<x>> \o s) = Len(s) + 1
      /\ (<<x>> \o s)[1] = x /\ \A i \in 1..Len(s) : (<<x>> \o s)[i + 1] = s[i]
  BY <1>1
<1>3. PICK t : t = <<x>> \o s
  OBVIOUS
<1>4. IsCons(t, x, s, B)
  BY <1>2, <1>3 DEF IsCons
<1> QED BY <1>4

\* The fields of an instruction: one of each number, in order.
LEMMA SevenFields ==
  ASSUME NEW a, NEW b, NEW c, NEW d, NEW e, NEW f, NEW g, NEW s,
         s = <<a>> \o (<<b>> \o (<<c>> \o (<<d>> \o (<<e>> \o (<<f>> \o (<<g>> \o << >>))))))
  PROVE  /\ Len(s) = 7 /\ DOMAIN s = 1..7
         /\ s[1] = a /\ s[2] = b /\ s[3] = c /\ s[4] = d /\ s[5] = e /\ s[6] = f /\ s[7] = g
<1> DEFINE B == {a, b, c, d, e, f, g}
<1>1. a \in B /\ b \in B /\ c \in B /\ d \in B /\ e \in B /\ f \in B /\ g \in B
  OBVIOUS
<1> HIDE DEF B
<1>2. << >> \in Seq(B) /\ Len(<< >>) = 0
  OBVIOUS
<1>3. PICK t8 \in Seq(B) : t8 = << >> /\ Len(t8) = 0
  BY <1>2
<1>4. PICK t7 : t7 = <<g>> \o t8 /\ t7 \in Seq(B) /\ Len(t7) = 1 /\ t7[1] = g
  <2>1. PICK t : IsCons(t, g, t8, B)
    BY <1>1, <1>3, ConsIs
  <2>2. t = <<g>> \o t8 /\ t \in Seq(B) /\ Len(t) = 1 /\ t[1] = g
        /\ \A i \in 1..0 : t[i + 1] = t8[i]
    BY <1>3, <2>1 DEF IsCons
  <2> QED BY <2>2
<1>5. PICK t6 : t6 = <<f>> \o t7 /\ t6 \in Seq(B) /\ Len(t6) = 2 /\ t6[1] = f /\ t6[2] = g
  <2>1. PICK t : IsCons(t, f, t7, B)
    BY <1>1, <1>4, ConsIs
  <2>2. t = <<f>> \o t7 /\ t \in Seq(B) /\ Len(t) = 2 /\ t[1] = f
        /\ \A i \in 1..1 : t[i + 1] = t7[i]
    BY <1>4, <2>1 DEF IsCons
  <2>3. t[2] = g
    BY <1>4, <2>2
  <2> QED BY <2>2, <2>3
<1>6. PICK t5 : t5 = <<e>> \o t6 /\ t5 \in Seq(B) /\ Len(t5) = 3 /\ t5[1] = e /\ t5[2] = f /\ t5[3] = g
  <2>1. PICK t : IsCons(t, e, t6, B)
    BY <1>1, <1>5, ConsIs
  <2>2. t = <<e>> \o t6 /\ t \in Seq(B) /\ Len(t) = 3 /\ t[1] = e
        /\ \A i \in 1..2 : t[i + 1] = t6[i]
    BY <1>5, <2>1 DEF IsCons
  <2>3. t[2] = f /\ t[3] = g
    BY <1>5, <2>2
  <2> QED BY <2>2, <2>3
<1>7. PICK t4 : t4 = <<d>> \o t5 /\ t4 \in Seq(B) /\ Len(t4) = 4 /\ t4[1] = d /\ t4[2] = e /\ t4[3] = f /\ t4[4] = g
  <2>1. PICK t : IsCons(t, d, t5, B)
    BY <1>1, <1>6, ConsIs
  <2>2. t = <<d>> \o t5 /\ t \in Seq(B) /\ Len(t) = 4 /\ t[1] = d
        /\ \A i \in 1..3 : t[i + 1] = t5[i]
    BY <1>6, <2>1 DEF IsCons
  <2>3. t[2] = e /\ t[3] = f /\ t[4] = g
    BY <1>6, <2>2
  <2> QED BY <2>2, <2>3
<1>8. PICK t3 : t3 = <<c>> \o t4 /\ t3 \in Seq(B) /\ Len(t3) = 5 /\ t3[1] = c /\ t3[2] = d /\ t3[3] = e /\ t3[4] = f /\ t3[5] = g
  <2>1. PICK t : IsCons(t, c, t4, B)
    BY <1>1, <1>7, ConsIs
  <2>2. t = <<c>> \o t4 /\ t \in Seq(B) /\ Len(t) = 5 /\ t[1] = c
        /\ \A i \in 1..4 : t[i + 1] = t4[i]
    BY <1>7, <2>1 DEF IsCons
  <2>3. t[2] = d /\ t[3] = e /\ t[4] = f /\ t[5] = g
    BY <1>7, <2>2
  <2> QED BY <2>2, <2>3
<1>9. PICK t2 : t2 = <<b>> \o t3 /\ t2 \in Seq(B) /\ Len(t2) = 6 /\ t2[1] = b /\ t2[2] = c /\ t2[3] = d /\ t2[4] = e /\ t2[5] = f /\ t2[6] = g
  <2>1. PICK t : IsCons(t, b, t3, B)
    BY <1>1, <1>8, ConsIs
  <2>2. t = <<b>> \o t3 /\ t \in Seq(B) /\ Len(t) = 6 /\ t[1] = b
        /\ \A i \in 1..5 : t[i + 1] = t3[i]
    BY <1>8, <2>1 DEF IsCons
  <2>3. t[2] = c /\ t[3] = d /\ t[4] = e /\ t[5] = f /\ t[6] = g
    BY <1>8, <2>2
  <2> QED BY <2>2, <2>3
<1>10. PICK t1 : t1 = <<a>> \o t2 /\ t1 \in Seq(B) /\ Len(t1) = 7 /\ t1[1] = a /\ t1[2] = b /\ t1[3] = c /\ t1[4] = d /\ t1[5] = e /\ t1[6] = f /\ t1[7] = g
  <2>1. PICK t : IsCons(t, a, t2, B)
    BY <1>1, <1>9, ConsIs
  <2>2. t = <<a>> \o t2 /\ t \in Seq(B) /\ Len(t) = 7 /\ t[1] = a
        /\ \A i \in 1..6 : t[i + 1] = t2[i]
    BY <1>9, <2>1 DEF IsCons
  <2>3. t[2] = b /\ t[3] = c /\ t[4] = d /\ t[5] = e /\ t[6] = f /\ t[7] = g
    BY <1>9, <2>2
  <2> QED BY <2>2, <2>3
<1>11. s = t1
  BY <1>3, <1>4, <1>5, <1>6, <1>7, <1>8, <1>9, <1>10
<1>12. DOMAIN s = 1..7
  BY <1>10, <1>11
<1> QED BY <1>10, <1>11, <1>12

\* Where there is one field of each number, it is the last of its number.
LEMMA LastIsOnly ==
  ASSUME NEW fields, Len(fields) = 7, \A i \in 1..7 : fields[i].num = i, NEW num \in 1..7, NEW absent
  PROVE  LastOf(fields, num, absent) = fields[num]
<1> DEFINE S == {i \in 1..7 : fields[i].num = num}
<1>1. S = {num}
  OBVIOUS
<1>2. Max(S) = num
  <2>1. S \in SUBSET Nat /\ S # {} /\ \A x \in S : x <= 7
    BY <1>1
  <2> HIDE DEF S
  <2>2. Max(S) \in S
    BY <2>1, MaxNat
  <2> QED BY <1>1, <2>2
<1>3. LastOf(fields, num, absent) = IF S = {} THEN absent ELSE fields[Max(S)]
  BY DEF LastOf
<1> HIDE DEF S
<1> QED BY <1>1, <1>2, <1>3

\* The peer reads the instruction that was sent, whatever is in it, for every
\* width of the integers and every version and payload that fit:
\* UnmarshalInstruction undoes MarshalInstruction.
THEOREM InstructionRoundTrips ==
  ASSUME NEW in \in Encoded
  PROVE  UnmarshalInstruction(MarshalInstruction(in)) = [ok |-> TRUE, in |-> in]
<1>1. /\ in.version \in 0..MaxVersion /\ in.old \in 0..Width - 1 /\ in.new \in 0..Width - 1
      /\ in.ack \in 0..Width - 1 /\ in.throwaway \in 0..Width - 1
      /\ in.diff \in Seq(Byte) /\ Len(in.diff) < Width /\ in.chaff \in Seq(Byte) /\ Len(in.chaff) < Width
  BY DEF Encoded, Fitting
<1>2. in.version \in 0..Width - 1 /\ ~(in.version > MaxVersion)
  BY <1>1, WireAssumption
<1>3. PICK r8 \in Seq(Byte) : r8 = << >>
  <2>1. << >> \in Seq(Byte)
    OBVIOUS
  <2> QED BY <2>1
<1> DEFINE b7 == BytesField(7, in.chaff)
           b6 == BytesField(6, in.diff)
           b5 == Uint64Field(5, in.throwaway)
           b4 == Uint64Field(4, in.ack)
           b3 == Uint64Field(3, in.new)
           b2 == Uint64Field(2, in.old)
           b1 == Uint64Field(1, in.version)
<1> HIDE DEF b1, b2, b3, b4, b5, b6, b7
<1>4. PICK r7 \in Seq(Byte) : r7 = b7 \o r8 /\ BeginsWith(r7, DataField(7, in.chaff, r8), r8) /\ b7 \in Seq(Byte)
  <2>1. PICK v \in Seq(Byte) : v = in.chaff /\ Len(v) < Width
    BY <1>1
  <2>2. 7 \in 1..8
    OBVIOUS
  <2>3. Reads(BytesField(7, v), r8, DataField(7, v, r8))
    BY <2>1, <2>2, DataFieldRead
  <2>4. b7 = BytesField(7, v)
    BY <2>1 DEF b7
  <2> QED BY <2>1, <2>3, <2>4 DEF Reads
<1>5. PICK r6 \in Seq(Byte) : r6 = b6 \o r7 /\ BeginsWith(r6, DataField(6, in.diff, r7), r7) /\ b6 \in Seq(Byte)
  <2>1. PICK v \in Seq(Byte) : v = in.diff /\ Len(v) < Width
    BY <1>1
  <2>2. 6 \in 1..8
    OBVIOUS
  <2>3. Reads(BytesField(6, v), r7, DataField(6, v, r7))
    BY <2>1, <2>2, DataFieldRead
  <2>4. b6 = BytesField(6, v)
    BY <2>1 DEF b6
  <2> QED BY <2>1, <2>3, <2>4 DEF Reads
<1>6. PICK r5 \in Seq(Byte) : r5 = b5 \o r6 /\ BeginsWith(r5, IntegerField(5, in.throwaway, r6), r6) /\ b5 \in Seq(Byte)
  <2>1. PICK v \in 0..Width - 1 : v = in.throwaway
    BY <1>1
  <2>2. 5 \in 1..8
    OBVIOUS
  <2>3. Reads(Uint64Field(5, v), r6, IntegerField(5, v, r6))
    BY <2>1, <2>2, IntegerFieldRead
  <2>4. b5 = Uint64Field(5, v)
    BY <2>1 DEF b5
  <2> QED BY <2>1, <2>3, <2>4 DEF Reads
<1>7. PICK r4 \in Seq(Byte) : r4 = b4 \o r5 /\ BeginsWith(r4, IntegerField(4, in.ack, r5), r5) /\ b4 \in Seq(Byte)
  <2>1. PICK v \in 0..Width - 1 : v = in.ack
    BY <1>1
  <2>2. 4 \in 1..8
    OBVIOUS
  <2>3. Reads(Uint64Field(4, v), r5, IntegerField(4, v, r5))
    BY <2>1, <2>2, IntegerFieldRead
  <2>4. b4 = Uint64Field(4, v)
    BY <2>1 DEF b4
  <2> QED BY <2>1, <2>3, <2>4 DEF Reads
<1>8. PICK r3 \in Seq(Byte) : r3 = b3 \o r4 /\ BeginsWith(r3, IntegerField(3, in.new, r4), r4) /\ b3 \in Seq(Byte)
  <2>1. PICK v \in 0..Width - 1 : v = in.new
    BY <1>1
  <2>2. 3 \in 1..8
    OBVIOUS
  <2>3. Reads(Uint64Field(3, v), r4, IntegerField(3, v, r4))
    BY <2>1, <2>2, IntegerFieldRead
  <2>4. b3 = Uint64Field(3, v)
    BY <2>1 DEF b3
  <2> QED BY <2>1, <2>3, <2>4 DEF Reads
<1>9. PICK r2 \in Seq(Byte) : r2 = b2 \o r3 /\ BeginsWith(r2, IntegerField(2, in.old, r3), r3) /\ b2 \in Seq(Byte)
  <2>1. PICK v \in 0..Width - 1 : v = in.old
    BY <1>1
  <2>2. 2 \in 1..8
    OBVIOUS
  <2>3. Reads(Uint64Field(2, v), r3, IntegerField(2, v, r3))
    BY <2>1, <2>2, IntegerFieldRead
  <2>4. b2 = Uint64Field(2, v)
    BY <2>1 DEF b2
  <2> QED BY <2>1, <2>3, <2>4 DEF Reads
<1>10. PICK r1 \in Seq(Byte) : r1 = b1 \o r2 /\ BeginsWith(r1, IntegerField(1, in.version, r2), r2) /\ b1 \in Seq(Byte)
  <2>1. PICK v \in 0..Width - 1 : v = in.version
    BY <1>2
  <2>2. 1 \in 1..8
    OBVIOUS
  <2>3. Reads(Uint64Field(1, v), r2, IntegerField(1, v, r2))
    BY <2>1, <2>2, IntegerFieldRead
  <2>4. b1 = Uint64Field(1, v)
    BY <2>1 DEF b1
  <2> QED BY <2>1, <2>3, <2>4 DEF Reads
<1>11. MarshalInstruction(in) = b1 \o b2 \o b3 \o b4 \o b5 \o b6 \o b7
  BY DEF MarshalInstruction, b1, b2, b3, b4, b5, b6, b7
<1>12. MarshalInstruction(in) = r1
  <2>1. InOrder(b1, b2, b3, b4, b5, b6, b7)
    BY <1>4, <1>5, <1>6, <1>7, <1>8, <1>9, <1>10, SevenParts
  <2> QED BY <1>3, <1>4, <1>5, <1>6, <1>7, <1>8, <1>9, <1>10, <1>11, <2>1 DEF InOrder
<1>13. PICK f1, f2, f3, f4, f5, f6, f7 :
          /\ f1 = IntegerField(1, in.version, r2) /\ f2 = IntegerField(2, in.old, r3)
          /\ f3 = IntegerField(3, in.new, r4) /\ f4 = IntegerField(4, in.ack, r5)
          /\ f5 = IntegerField(5, in.throwaway, r6) /\ f6 = DataField(6, in.diff, r7)
          /\ f7 = DataField(7, in.chaff, r8)
  OBVIOUS
<1>14. FieldsOf(r1) = <<f1>> \o (<<f2>> \o (<<f3>> \o (<<f4>> \o (<<f5>> \o (<<f6>> \o (<<f7>> \o << >>))))))
  <2>1. FieldsOf(r1) = <<f1>> \o FieldsOf(r2)
    BY <1>10, <1>13, FieldsCons
  <2>2. FieldsOf(r2) = <<f2>> \o FieldsOf(r3)
    BY <1>9, <1>13, FieldsCons
  <2>3. FieldsOf(r3) = <<f3>> \o FieldsOf(r4)
    BY <1>8, <1>13, FieldsCons
  <2>4. FieldsOf(r4) = <<f4>> \o FieldsOf(r5)
    BY <1>7, <1>13, FieldsCons
  <2>5. FieldsOf(r5) = <<f5>> \o FieldsOf(r6)
    BY <1>6, <1>13, FieldsCons
  <2>6. FieldsOf(r6) = <<f6>> \o FieldsOf(r7)
    BY <1>5, <1>13, FieldsCons
  <2>7. FieldsOf(r7) = <<f7>> \o FieldsOf(r8)
    BY <1>4, <1>13, FieldsCons
  <2>8. FieldsOf(r8) = << >>
    BY <1>3, NoFields
  <2> QED BY <2>1, <2>2, <2>3, <2>4, <2>5, <2>6, <2>7, <2>8
<1>16. PICK fields : fields = FieldsOf(r1)
  OBVIOUS
<1>17. /\ Len(fields) = 7 /\ DOMAIN fields = 1..7
       /\ fields[1] = f1 /\ fields[2] = f2 /\ fields[3] = f3 /\ fields[4] = f4
       /\ fields[5] = f5 /\ fields[6] = f6 /\ fields[7] = f7
  BY <1>14, <1>16, SevenFields
<1>18. /\ f1.num = 1 /\ f2.num = 2 /\ f3.num = 3 /\ f4.num = 4 /\ f5.num = 5 /\ f6.num = 6 /\ f7.num = 7
       /\ f1.ok = TRUE /\ f2.ok = TRUE /\ f3.ok = TRUE /\ f4.ok = TRUE /\ f5.ok = TRUE /\ f6.ok = TRUE
       /\ f7.ok = TRUE
       /\ f1.varix = in.version /\ f2.varix = in.old /\ f3.varix = in.new /\ f4.varix = in.ack
       /\ f5.varix = in.throwaway /\ f6.data = in.diff /\ f7.data = in.chaff
  BY <1>13 DEF IntegerField, DataField
<1>19. \A i \in 1..7 : i = 1 \/ i = 2 \/ i = 3 \/ i = 4 \/ i = 5 \/ i = 6 \/ i = 7
  OBVIOUS
<1>20. \A i \in 1..7 : fields[i].num = i /\ fields[i].ok = TRUE
  BY <1>17, <1>18, <1>19
<1>21. PICK none : none = [varix |-> 0, data |-> << >>]
  OBVIOUS
<1>22. \A num \in 1..7 : LastOf(fields, num, none) = fields[num]
  BY <1>17, <1>20, LastIsOnly
<1>23. PICK r : r = Parsed(fields)
  OBVIOUS
<1>24. r.ok = TRUE /\ r.fields = fields
  BY <1>17, <1>20, <1>23 DEF Parsed
<1>25. ~\E i \in DOMAIN fields : fields[i].num = 1 /\ fields[i].varix > MaxVersion
  <2> SUFFICES ASSUME NEW i \in 1..7, fields[i].num = 1, fields[i].varix > MaxVersion PROVE FALSE
    BY <1>17
  <2>1. i = 1
    BY <1>20
  <2> QED BY <1>2, <1>17, <1>18, <2>1
<1>26. InstructionOf(r) = [ok |-> TRUE,
              in |-> [version |-> fields[1].varix, old |-> fields[2].varix, new |-> fields[3].varix,
                      ack |-> fields[4].varix, throwaway |-> fields[5].varix,
                      diff |-> fields[6].data, chaff |-> fields[7].data]]
  <2>1. 1 \in 1..7 /\ 2 \in 1..7 /\ 3 \in 1..7 /\ 4 \in 1..7 /\ 5 \in 1..7 /\ 6 \in 1..7 /\ 7 \in 1..7
    OBVIOUS
  <2>2. /\ LastOf(r.fields, 1, none) = fields[1] /\ LastOf(r.fields, 2, none) = fields[2]
        /\ LastOf(r.fields, 3, none) = fields[3] /\ LastOf(r.fields, 4, none) = fields[4]
        /\ LastOf(r.fields, 5, none) = fields[5] /\ LastOf(r.fields, 6, none) = fields[6]
        /\ LastOf(r.fields, 7, none) = fields[7]
    BY <1>22, <1>24, <2>1
  <2>3. ~(~r.ok \/ \E i \in DOMAIN r.fields : r.fields[i].num = 1 /\ r.fields[i].varix > MaxVersion)
    BY <1>24, <1>25
  <2> QED BY <1>21, <2>2, <2>3, Zenon DEF InstructionOf
<1>27. in = [version |-> in.version, old |-> in.old, new |-> in.new, ack |-> in.ack,
             throwaway |-> in.throwaway, diff |-> in.diff, chaff |-> in.chaff]
  BY DEF Encoded
<1>28. InstructionOf(r) = [ok |-> TRUE, in |-> in]
  BY <1>17, <1>18, <1>26, <1>27
<1> QED BY <1>12, <1>16, <1>23, <1>28 DEF UnmarshalInstruction, ParseFields

-----------------------------------------------------------------------------
(***** Fragments                                                          *****)

(* Cutting and putting together *)

\* Where fragment n ends.
EndOf(p, c, n) == IF c * (n + 1) < Len(p) THEN c * (n + 1) ELSE Len(p)

\* k fragments of capacity c hold p and none of them is empty.
Fits(p, c, k) == c * (k - 1) < Len(p) /\ Len(p) <= c * k

\* A product does not decrease with its factor.
LEMMA Times ==
  ASSUME NEW c \in Nat, NEW a \in Nat, NEW b \in Nat
  PROVE  /\ c * a \in Nat
         /\ a <= b => c * a <= c * b
         /\ c * (a + 1) = c * a + c
OBVIOUS

\* The number of fragments is the only one that fits.
LEMMA CountFits ==
  ASSUME NEW p, Len(p) \in Nat, Len(p) > 0, NEW c \in Nat \ {0}
  PROVE  LET k == FragCount(p, c) IN k \in Nat /\ k >= 1 /\ Fits(p, c, k)
<1> DEFINE x == Len(p) + c - 1
           k == x \div c
<1>1. x \in Nat /\ x >= c
  OBVIOUS
<1> HIDE DEF x
<1>2. k \in Int /\ c * k <= x /\ x < c * k + c
  BY <1>1
<1>3. k >= 1
  <2> SUFFICES ASSUME k <= 0 PROVE FALSE
    BY <1>2
  <2>1. c * k <= 0
    BY <1>2
  <2> QED BY <1>1, <1>2, <2>1
<1>4. c * (k - 1) = c * k - c
  BY <1>2
<1> HIDE DEF k
<1>5. c * (k - 1) < Len(p) /\ Len(p) <= c * k
  <2> DEFINE y == c * k
  <2>1. y \in Int /\ y <= x /\ x < y + c /\ c * (k - 1) = y - c
    BY <1>2, <1>4
  <2> HIDE DEF y
  <2>2. y - c < Len(p) /\ Len(p) <= y
    BY <2>1 DEF x
  <2> QED BY <2>1, <2>2 DEF y
<1>6. FragCount(p, c) = k
  BY DEF FragCount, k, x
<1> QED BY <1>2, <1>3, <1>5, <1>6 DEF Fits

\* Of the k fragments of p, fragment n is final just if it is the last.
FinalIfLast(p, c, k, n) == (Len(p) <= c * (n + 1)) <=> (n = k - 1)

\* Only the last fragment is final.
LEMMA FinalIsLast ==
  ASSUME NEW p, Len(p) \in Nat, NEW c \in Nat \ {0}, NEW k \in Nat, k >= 1, Fits(p, c, k),
         NEW n \in 0..k - 1
  PROVE  FinalIfLast(p, c, k, n)
<1> USE DEF FinalIfLast
<1>1. CASE n = k - 1
  <2>1. n + 1 = k
    BY <1>1
  <2> QED BY <1>1, <2>1 DEF Fits
<1>2. CASE n # k - 1
  <2>1. n + 1 \in Nat /\ k - 1 \in Nat /\ n + 1 <= k - 1
    BY <1>2
  <2>2. c * (n + 1) <= c * (k - 1) /\ c * (n + 1) \in Nat /\ c * (k - 1) \in Nat
    BY <2>1, Times
  <2>3. c * (k - 1) < Len(p)
    BY DEF Fits
  <2> DEFINE y == c * (n + 1)
             z == c * (k - 1)
  <2>4. y \in Nat /\ z \in Nat /\ y <= z /\ z < Len(p)
    BY <2>2, <2>3
  <2> HIDE DEF y, z
  <2>5. ~(Len(p) <= y)
    BY <2>4
  <2> QED BY <1>2, <2>5 DEF y
<1> QED BY <1>1, <1>2

\* The contents of the fragments of p in order make p again.
LEMMA PiecesMakeWhole ==
  ASSUME NEW U, NEW p \in Seq(U), NEW c \in Nat \ {0}, NEW k \in Nat, k >= 1, Fits(p, c, k), NEW id,
         NEW s, s = [i \in 1..k |-> Fragment(id, p, c, i - 1).contents]
  PROVE  FlattenSeq(s) = p
<1> DEFINE e(i) == EndOf(p, c, i - 1)
           L == Len(p)
           g == [i \in 1..k |-> SubSeq(p, 1, e(i))]
           Eq(f) == f = [i \in 1..Len(s) |-> IF i = 1 THEN s[i] ELSE f[i - 1] \o s[i]]
           F == CHOOSE f : Eq(f)
<1>1. L \in Nat /\ L > 0
  <2>1. L \in Nat /\ c * (k - 1) < L /\ k - 1 \in Nat
    BY LenProperties DEF Fits
  <2>2. c * (k - 1) \in Nat
    BY <2>1, Times
  <2> QED BY <2>1, <2>2
<1>2. Len(s) = k
  <2>1. DOMAIN s = 1..k
    OBVIOUS
  <2> DEFINE S == {s[i] : i \in 1..k}
  <2>2. s \in [1..k -> S]
    OBVIOUS
  <2> HIDE DEF S
  <2>3. s \in Seq(S)
    BY <2>2, SeqDef
  <2> QED BY <2>1, <2>3, LenProperties
<1>3. \A i \in 1..k : s[i] = SubSeq(p, c * (i - 1) + 1, e(i))
  <2> TAKE i \in 1..k
  <2>1. c * (i - 1 + 1) = c * ((i - 1) + 1)
    OBVIOUS
  <2> QED BY <2>1 DEF Fragment, EndOf
<1>4. \A i \in 1..k : e(i) \in 0..L
  <2> TAKE i \in 1..k
  <2>1. c * (i - 1 + 1) \in Nat
    BY Times
  <2> QED BY <1>1, <2>1 DEF EndOf
<1>5. ASSUME NEW i \in 2..k
      PROVE  /\ e(i - 1) = c * (i - 1) /\ c * (i - 1) <= e(i) /\ i - 1 \in 1..k
             /\ SubSeq(p, 1, e(i - 1)) \o s[i] = SubSeq(p, 1, e(i))
  <2>1. i - 1 \in Nat /\ k - 1 \in Nat /\ i - 1 <= k - 1 /\ i \in Nat /\ i - 1 <= i /\ i \in 1..k
        /\ i - 1 \in 1..k /\ i - 1 - 1 + 1 = i - 1 /\ i - 1 + 1 = i
    OBVIOUS
  <2>2. c * (i - 1) \in Nat /\ c * i \in Nat /\ c * (k - 1) \in Nat
        /\ c * (i - 1) <= c * (k - 1) /\ c * (i - 1) <= c * i
    BY <2>1, Times
  <2>3. c * (k - 1) < L
    BY DEF Fits
  <2>4. e(i - 1) = IF c * (i - 1) < L THEN c * (i - 1) ELSE L
    BY <2>1 DEF EndOf
  <2>5. e(i) = IF c * i < L THEN c * i ELSE L
    BY <2>1 DEF EndOf
  <2> DEFINE x == c * (i - 1)
             y == c * i
             z == c * (k - 1)
  <2>6. x \in Nat /\ y \in Nat /\ z \in Nat /\ x <= z /\ x <= y /\ z < L
        /\ e(i - 1) = (IF x < L THEN x ELSE L) /\ e(i) = (IF y < L THEN y ELSE L)
    BY <2>2, <2>3, <2>4, <2>5
  <2> HIDE DEF x, y, z
  <2>7. e(i - 1) = x /\ x <= e(i) /\ x \in 0..L /\ e(i) \in x..L
    BY <1>1, <2>6
  <2>8. s[i] = SubSeq(p, x + 1, e(i))
    BY <1>3, <2>1 DEF x
  <2>9. 1 \in 1..L + 1 /\ x \in 1 - 1..L /\ e(i) \in x..L
    BY <1>1, <2>7
  <2>10. SubSeq(p, 1, x) \o SubSeq(p, x + 1, e(i)) = SubSeq(p, 1, e(i))
    BY <2>9, ConcatAdjacentSubSeq
  <2> QED BY <2>1, <2>7, <2>8, <2>10 DEF x
<1>6. s[1] = SubSeq(p, 1, e(1))
  <2>1. 1 \in 1..k /\ c * (1 - 1) + 1 = 1
    OBVIOUS
  <2> QED BY <1>3, <2>1
<1> HIDE DEF e, L
<1>7. Eq(g)
  <2>1. ASSUME NEW i \in 1..k
        PROVE  g[i] = IF i = 1 THEN s[i] ELSE g[i - 1] \o s[i]
    <3>1. CASE i = 1
      BY <1>6, <3>1
    <3>2. CASE i # 1
      <4>1. i \in 2..k
        BY <3>2
      <4>2. g[i - 1] = SubSeq(p, 1, e(i - 1))
        BY <4>1, <1>5
      <4> QED BY <3>2, <4>1, <4>2, <1>5
    <3> QED BY <3>1, <3>2
  <2>2. g = [i \in 1..k |-> g[i]]
    OBVIOUS
  <2> HIDE DEF g
  <2>3. g = [i \in 1..k |-> IF i = 1 THEN s[i] ELSE g[i - 1] \o s[i]]
    BY <2>1, <2>2
  <2> QED BY <1>2, <2>3
<1>8. Eq(F)
  <2> HIDE DEF Eq
  <2> QED BY <1>7
<1>9. FlattenSeq(s) = F[Len(s)]
  BY <1>1, <1>2 DEF FlattenSeq
<1>10. \A i \in 1..k : F[i] = IF i = 1 THEN s[i] ELSE F[i - 1] \o s[i]
  <2> HIDE DEF F
  <2> QED BY <1>2, <1>8
<1> HIDE DEF F, g
<1>11. \A i \in 1..k : F[i] = SubSeq(p, 1, e(i))
  <2> DEFINE Bad == {i \in 1..k : F[i] # SubSeq(p, 1, e(i))}
  <2> SUFFICES ASSUME Bad # {} PROVE FALSE
    OBVIOUS
  <2>1. Bad \in SUBSET Nat
    OBVIOUS
  <2>2. PICK i \in Bad : \A j \in Bad : i <= j
    BY <2>1, NatHasLeast
  <2>3. CASE i = 1
    BY <1>6, <1>10, <2>3
  <2>4. CASE i # 1
    <3>1. i \in 2..k /\ i - 1 \in 1..k /\ ~(i <= i - 1)
      BY <2>4
    <3>2. F[i - 1] = SubSeq(p, 1, e(i - 1))
      BY <2>2, <3>1
    <3> QED BY <1>5, <1>10, <2>4, <3>1, <3>2
  <2> QED BY <2>3, <2>4
<1>12. e(k) = L
  <2>1. k - 1 + 1 = k /\ L <= c * k
    BY DEF Fits, L
  <2>2. c * k \in Nat
    BY Times
  <2> QED BY <1>1, <2>1, <2>2 DEF e, EndOf, L
<1>13. k \in 1..k
  OBVIOUS
<1> QED BY <1>2, <1>9, <1>11, <1>12, <1>13, SubSeqFull DEF L

-----------------------------------------------------------------------------
(* The header *)

\* parseFragment gives back what marshal was given, as long as the number
\* leaves the mark alone.
LEMMA ParseMarshal ==
  ASSUME NEW id, NEW p, NEW c, NEW n \in Nat, FinalBit \in Nat \ {0}, n < FinalBit
  PROVE  ParseFragment(Marshal(Fragment(id, p, c, n))) = Fragment(id, p, c, n)
<1>1. n % FinalBit = n /\ ~(n >= FinalBit)
  OBVIOUS
<1>2. (n + FinalBit) % FinalBit = n /\ n + FinalBit >= FinalBit
  OBVIOUS
<1> DEFINE f == Fragment(id, p, c, n)
<1>3. f.num = n /\ f.final \in BOOLEAN
      /\ f = [id |-> f.id, num |-> f.num, final |-> f.final, contents |-> f.contents]
  BY DEF Fragment
<1> HIDE DEF f
<1>4. Marshal(f).combined = IF f.final THEN n + FinalBit ELSE n
  BY <1>3 DEF Marshal
<1>5. ParseFragment(Marshal(f)) = f
  BY <1>1, <1>2, <1>3, <1>4 DEF ParseFragment, Marshal
<1> QED BY <1>5 DEF f

-----------------------------------------------------------------------------
(* The invariant *)

\* Fragment n of the transmission with this id, and how many it has.
Piece(id, n) == Fragment(id, made[id].payload, made[id].chunk, n)
Pieces(id) == FragCount(made[id].payload, made[id].chunk)

\* The ids in use are those the fragmenter has assigned, the newest to the
\* instruction it remembers.
IdsAssigned ==
    /\ made \in Seq([payload : Payload, chunk : Chunk]) /\ nextID = Len(made)
    /\ nextID = 0 => lastPayload = << >>
    /\ nextID > 0 => made[nextID] = [payload |-> lastPayload, chunk |-> lastChunk]

\* Whatever the network holds is a fragment of what its id stands for.
WireGenuine ==
    \A w \in wire : \E id \in 1..Len(made) : \E n \in 0..Pieces(id) - 1 : w = Marshal(Piece(id, n))

\* Whatever was received, each fragment in the table is counted once and the
\* total, if known, is within its length.
Counted(a) ==
    /\ a.size \in Nat /\ a.total \in Int /\ a.total <= a.size
    /\ DOMAIN a.frags \subseteq 0..a.size - 1
    /\ a.arrived = Cardinality(DOMAIN a.frags)

\* Nothing stands in the place of a fragment of transmission id, and its end is
\* where it should be or is still to be put there.
Clean(a, id) ==
    /\ a.currentID = id
    /\ \A n \in DOMAIN a.frags : n < Pieces(id) => a.frags[n] = Piece(id, n)
    /\ a.total \in {-1, Pieces(id)} \/ (a.total > Pieces(id) /\ Pieces(id) - 1 \notin DOMAIN a.frags)

\* A partial instruction has nothing else either.
Partial(a) ==
    /\ a.currentID \in 1..Len(made)
    /\ Clean(a, a.currentID)
    /\ a.size <= Pieces(a.currentID)

\* What was returned last is the instruction of its id.
Returned(a, out) ==
    out # << >> => a.currentID \in 1..Len(made) /\ out = made[a.currentID].payload

FragmentsInv ==
    /\ IdsAssigned /\ WireGenuine /\ injected \in Nat
    /\ assembly.haveID => Counted(assembly)
    /\ injected = 0 => (assembly.haveID => Partial(assembly)) /\ Returned(assembly, output)

-----------------------------------------------------------------------------
(* A genuine fragment *)

\* An instruction that was sent has at least one fragment and no more than the
\* number field can hold; the last one alone is final.
LEMMA PieceFacts ==
  ASSUME IdsAssigned, NEW id \in 1..Len(made)
  PROVE  /\ made[id].payload \in Payload /\ made[id].chunk \in Nat \ {0}
         /\ Pieces(id) \in Nat /\ Pieces(id) >= 1
         /\ Fits(made[id].payload, made[id].chunk, Pieces(id))
         /\ \A n \in 0..Pieces(id) - 1 :
                /\ n \in Nat /\ n < FinalBit
                /\ Piece(id, n).id = id /\ Piece(id, n).num = n
                /\ Piece(id, n).final <=> n = Pieces(id) - 1
<1> DEFINE p == made[id].payload
           c == made[id].chunk
           K == Pieces(id)
<1>1. p \in Payload /\ c \in Chunk
  <2>1. made[id] \in [payload : Payload, chunk : Chunk]
    BY ElementOfSeq DEF IdsAssigned
  <2> QED BY <2>1
<1>2. c \in Nat \ {0} /\ Len(p) \in Nat /\ Len(p) > 0 /\ FinalBit \in Nat /\ Len(p) <= c * FinalBit
  <2>1. p \in Seq(ToSet(p)) /\ Len(p) > 0 /\ c \in Nat \ {0} /\ FinalBit \in Nat
        /\ Len(p) <= c * FinalBit
    BY <1>1, FragmentsAssumption
  <2> QED BY <2>1, LenProperties
<1> HIDE DEF p, c
<1>3. K = FragCount(p, c)
  BY DEF Pieces, p, c
<1>4. K \in Nat /\ K >= 1 /\ Fits(p, c, K)
  BY <1>2, <1>3, CountFits
<1> HIDE DEF K
<1>5. K - 1 < FinalBit
  <2> SUFFICES ASSUME FinalBit <= K - 1 PROVE FALSE
    BY <1>2, <1>4
  <2>1. K - 1 \in Nat /\ c * FinalBit <= c * (K - 1) /\ c * (K - 1) \in Nat /\ c * FinalBit \in Nat
    BY <1>2, <1>4, Times
  <2>2. c * (K - 1) < Len(p)
    BY <1>4 DEF Fits
  <2> DEFINE x == c * FinalBit
             y == c * (K - 1)
  <2>3. x \in Nat /\ y \in Nat /\ x <= y /\ y < Len(p) /\ Len(p) <= x
    BY <1>2, <2>1, <2>2
  <2> HIDE DEF x, y
  <2> QED BY <1>2, <2>3
<1>6. ASSUME NEW n \in 0..K - 1
      PROVE  /\ n \in Nat /\ n < FinalBit
             /\ Piece(id, n).id = id /\ Piece(id, n).num = n
             /\ Piece(id, n).final <=> n = K - 1
  <2>1. n \in Nat /\ n < FinalBit
    BY <1>2, <1>4, <1>5
  <2>2. (Len(p) <= c * (n + 1)) <=> (n = K - 1)
    <3>1. FinalIfLast(p, c, K, n)
      BY <1>2, <1>4, FinalIsLast
    <3> QED BY <3>1 DEF FinalIfLast
  <2>3. Piece(id, n).id = id /\ Piece(id, n).num = n /\ Piece(id, n).final = (Len(p) <= c * (n + 1))
    BY DEF Piece, Fragment, p, c
  <2> QED BY <2>1, <2>2, <2>3
<1> QED BY <1>1, <1>2, <1>4, <1>6 DEF p, c, K

\* The fragments of an instruction, in order, make the instruction.
LEMMA WholeIsPayload ==
  ASSUME IdsAssigned, NEW id \in 1..Len(made), NEW table,
         \A n \in 0..Pieces(id) - 1 : table[n] = Piece(id, n)
  PROVE  FlattenSeq([i \in 1..Pieces(id) |-> table[i - 1].contents]) = made[id].payload
<1> DEFINE p == made[id].payload
           c == made[id].chunk
           K == Pieces(id)
           s == [i \in 1..K |-> table[i - 1].contents]
<1>1. p \in Payload /\ c \in Nat \ {0} /\ K \in Nat /\ K >= 1 /\ Fits(p, c, K)
  BY PieceFacts
<1>2. p \in Seq(ToSet(p))
  BY <1>1, FragmentsAssumption
<1>3. \A i \in 1..K : table[i - 1] = Fragment(id, p, c, i - 1)
  <2> TAKE i \in 1..K
  <2>1. i - 1 \in 0..K - 1
    BY <1>1
  <2> QED BY <2>1 DEF Piece
<1> HIDE DEF p, c, K
<1>4. s = [i \in 1..K |-> Fragment(id, p, c, i - 1).contents]
  BY <1>3
<1> HIDE DEF s
<1>5. FlattenSeq(s) = p
  <2> DEFINE U == ToSet(p)
  <2>1. p \in Seq(U)
    BY <1>2
  <2> HIDE DEF U
  <2>2. c \in Nat \ {0} /\ K \in Nat /\ K >= 1 /\ Fits(p, c, K)
    BY <1>1
  <2> QED BY <1>4, <2>1, <2>2, PiecesMakeWhole
<1> QED BY <1>5 DEF s, p, K

\* The places below k.
LEMMA BelowCounted ==
  ASSUME NEW k \in Nat
  PROVE  Cardinality(0..k - 1) = k /\ \A S : S \subseteq 0..k - 1 => IsFiniteSet(S)
<1>1. PICK x : x = k - 1
  OBVIOUS
<1>2. x \in Int /\ (IF 0 > x THEN 0 ELSE x - 0 + 1) = k
  BY <1>1
<1>3. IsFiniteSet(0..x) /\ Cardinality(0..x) = IF 0 > x THEN 0 ELSE x - 0 + 1
  BY <1>2, FS_Interval
<1>4. \A S : S \subseteq 0..x => IsFiniteSet(S)
  BY <1>3, FS_Subset
<1> QED BY <1>1, <1>2, <1>3, <1>4

\* What is in the table before a fragment is stored, and the total after it.
Before(a, f) == IF Fresh(a, f) THEN {} ELSE DOMAIN a.frags
Total(a, f) == IF f.final THEN f.num + 1 ELSE IF Fresh(a, f) THEN -1 ELSE a.total

\* What add makes of the assembly.
Added(a, f, r) ==
    LET b == r.assembly
    IN  /\ Counted(b) /\ b.currentID = f.id /\ b.total = Total(a, f)
        /\ b.size = IF Fresh(a, f) \/ f.final THEN f.num + 1 ELSE Longer(a.size, f.num + 1)
        /\ DOMAIN b.frags = {m \in Before(a, f) \cup {f.num} : f.final => m <= f.num}
        /\ \A m \in DOMAIN b.frags : b.frags[m] = IF m \in Before(a, f) THEN a.frags[m] ELSE f
        /\ b.haveID <=> ~(b.total # -1 /\ b.arrived = b.total /\ DOMAIN b.frags = 0..b.size - 1)
        /\ b.haveID => r.output = << >>
        /\ ~b.haveID => r.output = FlattenSeq([i \in 1..b.size |-> b.frags[i - 1].contents])

\* add, given any fragment: a final one pins the total, cuts what is beyond it
\* and counts anew, any other is counted if it is new.
LEMMA AddResult ==
  ASSUME NEW f, f.num \in Nat, f.final \in BOOLEAN, NEW a, ~Fresh(a, f) => Counted(a),
         NEW r, r = Add(a, f)
  PROVE  Added(a, f, r)
<1> DEFINE fresh  == Fresh(a, f)
           table  == IF fresh THEN << >> ELSE a.frags
           stored == IF f.num \in DOMAIN table THEN table ELSE Store(table, f)
           count  == IF fresh THEN 1 ELSE ArrivedAfter(table, a.arrived, f)
           len    == IF fresh THEN f.num + 1 ELSE Longer(a.size, f.num + 1)
           pinned == IF f.final THEN f.num + 1 ELSE IF fresh THEN -1 ELSE a.total
           cut    == f.final /\ len > pinned
           kept   == IF cut THEN [m \in {x \in DOMAIN stored : x < pinned} |-> stored[m]] ELSE stored
           inTab  == IF cut THEN pinned ELSE len
           have   == Have(kept, count, cut)
           whole  == pinned # -1 /\ have = pinned /\ DOMAIN kept = 0..(inTab - 1)
           after  == [haveID |-> ~whole, currentID |-> f.id, frags |-> kept, size |-> inTab,
                      arrived |-> have, total |-> pinned]
           out    == IF whole THEN FlattenSeq([i \in 1..inTab |-> kept[i - 1].contents]) ELSE << >>
           D      == Before(a, f)
<1>1. /\ DOMAIN table = D
      /\ \A m \in D : table[m] = a.frags[m]
      /\ ~fresh => a.size \in Nat /\ a.total \in Int /\ a.total <= a.size /\ D \subseteq 0..a.size - 1
                   /\ a.arrived = Cardinality(D)
      /\ fresh => D = {}
  <2>1. CASE fresh
    <3>1. DOMAIN << >> = {}
      OBVIOUS
    <3> QED BY <2>1, <3>1 DEF Before
  <2>2. CASE ~fresh
    BY <2>2 DEF Before, Counted
  <2> QED BY <2>1, <2>2
<1>2. /\ DOMAIN stored = D \cup {f.num}
      /\ \A m \in DOMAIN stored : stored[m] = IF m \in D THEN a.frags[m] ELSE f
  <2> HIDE DEF table, D
  <2>1. CASE f.num \in D
    BY <1>1, <2>1
  <2>2. CASE f.num \notin D
    <3>1. stored = [m \in D \cup {f.num} |-> IF m = f.num THEN f ELSE table[m]]
      BY <1>1, <2>2 DEF Store
    <3> QED BY <1>1, <2>2, <3>1
  <2> QED BY <2>1, <2>2
<1> HIDE DEF table, stored, D
<1>3. /\ len \in Nat /\ f.num + 1 <= len /\ D \subseteq 0..len - 1 /\ DOMAIN stored \subseteq 0..len - 1
      /\ pinned \in Int /\ (f.final \/ pinned <= len)
  <2>1. CASE fresh
    BY <1>1, <1>2, <2>1
  <2>2. CASE ~fresh
    <3>1. len \in Nat /\ f.num + 1 <= len /\ a.size <= len
      BY <1>1, <2>2 DEF Longer
    <3> HIDE DEF len
    <3> QED BY <1>1, <1>2, <2>2, <3>1
  <2> QED BY <2>1, <2>2
<1>4. count = Cardinality(DOMAIN stored)
  <2>1. IsFiniteSet(D)
    BY <1>3, BelowCounted
  <2>2. Cardinality(D \cup {f.num}) = IF f.num \in D THEN Cardinality(D) ELSE Cardinality(D) + 1
    BY <2>1, FS_AddElement
  <2>3. CASE fresh
    <3>1. D = {} /\ Cardinality(D) = 0 /\ f.num \notin D
      BY <1>1, <2>3, FS_EmptySet
    <3> QED BY <1>2, <2>2, <2>3, <3>1
  <2>4. CASE ~fresh
    <3>1. a.arrived = Cardinality(D)
      BY <1>1, <2>4
    <3>2. count = IF f.num \in D THEN Cardinality(D) ELSE Cardinality(D) + 1
      BY <1>1, <2>4, <3>1 DEF ArrivedAfter
    <3> QED BY <1>2, <2>2, <3>2
  <2> QED BY <2>3, <2>4
<1>5. f.final => pinned = f.num + 1
  OBVIOUS
<1>6. /\ DOMAIN kept = {m \in D \cup {f.num} : f.final => m <= f.num}
      /\ \A m \in DOMAIN kept : kept[m] = IF m \in D THEN a.frags[m] ELSE f
      /\ inTab = IF fresh \/ f.final THEN f.num + 1 ELSE Longer(a.size, f.num + 1)
      /\ DOMAIN kept \subseteq 0..inTab - 1 /\ inTab \in Nat /\ pinned <= inTab
      /\ have = Cardinality(DOMAIN kept)
  <2>1. CASE cut
    <3>1. DOMAIN kept = {x \in DOMAIN stored : x < pinned} /\ inTab = pinned /\ pinned = f.num + 1 /\ f.final
          /\ \A m \in DOMAIN kept : kept[m] = stored[m]
      BY <2>1
    <3>2. have = Cardinality(DOMAIN kept)
      BY <2>1 DEF Have
    <3> HIDE DEF kept, inTab, have, pinned, len
    <3>3. \A x \in DOMAIN stored : x \in Nat /\ (x < f.num + 1 <=> x <= f.num)
      BY <1>3
    <3>4. DOMAIN kept = {m \in D \cup {f.num} : f.final => m <= f.num} /\ f.num \in Nat
      BY <1>2, <3>1, <3>3
    <3>5. \A m \in DOMAIN kept : m \in DOMAIN stored /\ m \in 0..inTab - 1
      BY <1>3, <3>1, <3>3, <3>4
    <3>6. \A m \in DOMAIN kept : kept[m] = IF m \in D THEN a.frags[m] ELSE f
      BY <1>2, <3>1, <3>5
    <3>7. /\ inTab \in Nat /\ pinned <= inTab
          /\ inTab = IF fresh \/ f.final THEN f.num + 1 ELSE Longer(a.size, f.num + 1)
      BY <3>1
    <3>8. DOMAIN kept \subseteq 0..inTab - 1
      BY <3>5
    <3> QED BY <3>2, <3>4, <3>6, <3>7, <3>8
  <2>2. CASE ~cut
    <3>1. kept = stored /\ inTab = len /\ have = count
      BY <2>2 DEF Have
    <3>2. f.final => len = f.num + 1
      BY <1>3, <1>5, <2>2
    <3>3. len = IF fresh \/ f.final THEN f.num + 1 ELSE Longer(a.size, f.num + 1)
      BY <3>2
    <3> HIDE DEF kept, inTab, have, len, count
    <3>4. pinned <= len
      BY <1>3, <1>5, <3>2
    <3> HIDE DEF pinned
    <3>5. f.final => \A m \in D \cup {f.num} : m <= f.num
      BY <1>3, <3>2
    <3>6. DOMAIN stored = {m \in D \cup {f.num} : f.final => m <= f.num}
      BY <1>2, <3>5
    <3> QED BY <1>2, <1>3, <1>4, <3>1, <3>3, <3>4, <3>6
  <2> QED BY <2>1, <2>2
<1>7. r.assembly = after /\ r.output = out
  BY DEF Add, len, stored, pinned, table, count
<1>8. Total(a, f) = pinned
  BY DEF Total
<1> HIDE DEF kept, inTab, have, len, count, pinned
<1>9. after.haveID = ~whole /\ after.currentID = f.id /\ after.frags = kept /\ after.size = inTab
      /\ after.total = pinned /\ after.arrived = have
  OBVIOUS
<1>10. /\ whole => out = FlattenSeq([i \in 1..inTab |-> kept[i - 1].contents])
       /\ ~whole => out = << >>
  OBVIOUS
<1> HIDE DEF after, out
<1>11. Counted(after)
  BY <1>3, <1>6, <1>9 DEF Counted
<1>12. PICK b : b = r.assembly
  OBVIOUS
<1>13. /\ Counted(b) /\ b.currentID = f.id /\ b.total = Total(a, f)
       /\ b.size = IF Fresh(a, f) \/ f.final THEN f.num + 1 ELSE Longer(a.size, f.num + 1)
       /\ DOMAIN b.frags = {m \in Before(a, f) \cup {f.num} : f.final => m <= f.num}
       /\ \A m \in DOMAIN b.frags : b.frags[m] = IF m \in Before(a, f) THEN a.frags[m] ELSE f
  BY <1>6, <1>7, <1>8, <1>9, <1>11, <1>12 DEF D
<1>14. b.haveID <=> ~(b.total # -1 /\ b.arrived = b.total /\ DOMAIN b.frags = 0..b.size - 1)
  BY <1>7, <1>9, <1>12
<1>15. /\ b.haveID => r.output = << >>
       /\ ~b.haveID => r.output = FlattenSeq([i \in 1..b.size |-> b.frags[i - 1].contents])
  BY <1>7, <1>9, <1>10, <1>12
<1> QED BY <1>12, <1>13, <1>14, <1>15 DEF Added

\* add, given fragment n of a transmission, leaves its assembly clean with that
\* fragment in it, whatever was beyond the final one, and returns the instruction
\* of the id just when it is complete.
LEMMA AddGenuine ==
  ASSUME IdsAssigned, NEW id \in 1..Len(made), NEW n \in 0..Pieces(id) - 1, NEW f, f = Piece(id, n),
         NEW a, ~Fresh(a, f) => Counted(a) /\ Clean(a, id), NEW r, r = Add(a, f)
  PROVE  /\ Counted(r.assembly) /\ Clean(r.assembly, id)
         /\ Fresh(a, f) \/ a.size <= Pieces(id) => r.assembly.size <= Pieces(id)
         /\ \A m \in 0..Pieces(id) - 1 : m \in Before(a, f) \cup {n} => m \in DOMAIN r.assembly.frags
         /\ r.assembly.haveID => r.output = << >>
         /\ ~r.assembly.haveID => r.output = made[id].payload
         /\ n = Pieces(id) - 1 /\ 0..Pieces(id) - 1 \subseteq DOMAIN r.assembly.frags
            => ~r.assembly.haveID
<1>0. PICK K : K = Pieces(id)
  OBVIOUS
<1>1. K \in Nat /\ K >= 1 /\ n \in 0..K - 1 /\ f.id = id /\ f.num = n /\ (f.final <=> n = K - 1)
  BY <1>0, PieceFacts
<1>2. f.final \in BOOLEAN
  BY DEF Piece, Fragment
<1>3. PICK b : b = r.assembly
  OBVIOUS
<1>4. PICK D : D = Before(a, f)
  OBVIOUS
<1>5. Added(a, f, r)
  BY <1>1, <1>2, AddResult
<1>6. /\ Counted(b) /\ b.currentID = id /\ b.total = Total(a, f)
      /\ b.size = IF Fresh(a, f) \/ f.final THEN n + 1 ELSE Longer(a.size, n + 1)
      /\ DOMAIN b.frags = {m \in D \cup {n} : f.final => m <= n}
      /\ \A m \in DOMAIN b.frags : b.frags[m] = IF m \in D THEN a.frags[m] ELSE f
  BY <1>1, <1>3, <1>4, <1>5 DEF Added
<1>7. b.haveID <=> ~(b.total # -1 /\ b.arrived = b.total /\ DOMAIN b.frags = 0..b.size - 1)
  BY <1>3, <1>5 DEF Added
<1>8. /\ ~Fresh(a, f) => /\ D = DOMAIN a.frags /\ a.size \in Nat
                         /\ \A m \in D : m < K => a.frags[m] = Piece(id, m)
                         /\ a.total \in {-1, K} \/ (a.total > K /\ K - 1 \notin D)
      /\ Fresh(a, f) => D = {}
  BY <1>0, <1>4 DEF Before, Counted, Clean
<1>9. \A m \in DOMAIN b.frags : m < K => b.frags[m] = Piece(id, m)
  <2> TAKE m \in DOMAIN b.frags
  <2> HAVE m < K
  <2>1. CASE m \in D
    BY <1>6, <1>8, <2>1
  <2>2. CASE m \notin D
    BY <1>6, <2>2
  <2> QED BY <2>1, <2>2
<1>10. \A m \in 0..K - 1 : m \in D \cup {n} => m \in DOMAIN b.frags
  BY <1>1, <1>6
<1>11. b.total \in {-1, K} \/ (b.total > K /\ K - 1 \notin DOMAIN b.frags)
  <2>1. CASE f.final
    BY <1>1, <1>6, <2>1 DEF Total
  <2>2. CASE ~f.final /\ Fresh(a, f)
    BY <1>6, <2>2 DEF Total
  <2>3. CASE ~f.final /\ ~Fresh(a, f)
    <3>1. b.total = a.total /\ n # K - 1
      BY <1>1, <1>6, <2>3 DEF Total
    <3> QED BY <1>6, <1>8, <2>3, <3>1
  <2> QED BY <2>1, <2>2, <2>3
<1>12. Fresh(a, f) \/ a.size <= K => b.size <= K
  BY <1>1, <1>6, <1>8 DEF Longer
<1>13. b.size \in Nat /\ b.total \in Int /\ b.total <= b.size /\ DOMAIN b.frags \subseteq 0..b.size - 1
       /\ b.arrived = Cardinality(DOMAIN b.frags)
  BY <1>6 DEF Counted
<1>14. ~b.haveID => b.size = K /\ DOMAIN b.frags = 0..K - 1
  <2> SUFFICES ASSUME ~b.haveID PROVE b.size = K /\ DOMAIN b.frags = 0..K - 1
    OBVIOUS
  <2>1. b.total # -1 /\ b.arrived = b.total /\ DOMAIN b.frags = 0..b.size - 1
    BY <1>7
  <2>2. Cardinality(0..b.size - 1) = b.size
    BY <1>13, BelowCounted
  <2>3. b.total = b.size
    BY <1>13, <2>1, <2>2
  <2>4. ~(b.total > K)
    <3> SUFFICES ASSUME b.total > K PROVE FALSE
      OBVIOUS
    <3>1. K - 1 \in 0..b.size - 1
      BY <1>1, <1>13, <2>3
    <3> QED BY <1>1, <1>11, <2>1, <3>1
  <2> QED BY <1>11, <2>1, <2>3, <2>4
<1>15. ~b.haveID => r.output = made[id].payload
  <2> SUFFICES ASSUME ~b.haveID PROVE r.output = made[id].payload
    OBVIOUS
  <2>1. r.output = FlattenSeq([i \in 1..K |-> b.frags[i - 1].contents])
    BY <1>3, <1>5, <1>14 DEF Added
  <2>2. \A m \in 0..Pieces(id) - 1 : b.frags[m] = Piece(id, m)
    BY <1>0, <1>1, <1>9, <1>14
  <2>3. PICK table : table = b.frags
    OBVIOUS
  <2>4. FlattenSeq([i \in 1..Pieces(id) |-> table[i - 1].contents]) = made[id].payload
    BY <2>2, <2>3, WholeIsPayload
  <2> QED BY <1>0, <2>1, <2>3, <2>4
<1>16. n = K - 1 /\ 0..K - 1 \subseteq DOMAIN b.frags => ~b.haveID
  <2> SUFFICES ASSUME n = K - 1, 0..K - 1 \subseteq DOMAIN b.frags PROVE ~b.haveID
    OBVIOUS
  <2>1. b.total = K /\ b.size = K
    BY <1>1, <1>6 DEF Total
  <2>2. DOMAIN b.frags = 0..K - 1
    BY <1>13, <2>1
  <2>3. Cardinality(0..K - 1) = K
    BY <1>1, BelowCounted
  <2> QED BY <1>1, <1>7, <1>13, <2>1, <2>2, <2>3
<1>17. b.haveID => r.output = << >>
  BY <1>3, <1>5 DEF Added
<1>18. Clean(b, id)
  BY <1>0, <1>6, <1>9, <1>11 DEF Clean
<1> QED BY <1>0, <1>3, <1>4, <1>6, <1>10, <1>12, <1>15, <1>16, <1>17, <1>18

-----------------------------------------------------------------------------
(* The steps *)

\* What an id stands for does not change when later ids are assigned.
LEMMA GrownTable ==
  ASSUME NEW e, made' = Append(made, e), made \in Seq([payload : Payload, chunk : Chunk]),
         NEW id \in 1..Len(made)
  PROVE  id \in 1..Len(made') /\ made'[id] = made[id]
BY AppendProperties

\* makeFragments and sendInFragments: a fresh id is assigned to a new entry, an
\* old one is used for what it already stands for.
LEMMA SendInFragmentsStep ==
  ASSUME FragmentsInv, NEW p \in Payload, NEW c \in Chunk, NEW n \in 0..FragCount(p, c),
         SendInFragments(p, c, n)
  PROVE  FragmentsInv'
<1>0. PICK id : id = IF NeedsFreshID(p, c) THEN nextID + 1 ELSE nextID
  OBVIOUS
<1> DEFINE e == [payload |-> p, chunk |-> c]
<1>1. /\ IdsAssigned /\ WireGenuine /\ nextID' = id /\ lastPayload' = p /\ lastChunk' = c
      /\ wire' = wire \cup {Marshal(Fragment(id, p, c, i)) : i \in 0..(n - 1)}
      /\ made' = (IF id > Len(made) THEN Append(made, e) ELSE made)
      /\ UNCHANGED <<assembly, output, injected>>
  BY <1>0 DEF SendInFragments, FragmentsInv
<1>2. made \in Seq([payload : Payload, chunk : Chunk]) /\ nextID = Len(made) /\ Len(made) \in Nat
      /\ e \in [payload : Payload, chunk : Chunk]
  BY <1>1, LenProperties DEF IdsAssigned
<1>3. /\ made' \in Seq([payload : Payload, chunk : Chunk]) /\ Len(made') = id /\ id >= 1
      /\ made'[id] = e
      /\ \A x \in 1..Len(made) : x \in 1..Len(made') /\ made'[x] = made[x]
  <2>1. CASE NeedsFreshID(p, c)
    <3>1. id = Len(made) + 1 /\ made' = Append(made, e)
      BY <1>0, <1>1, <1>2, <2>1
    <3>2. made' \in Seq([payload : Payload, chunk : Chunk]) /\ Len(made') = Len(made) + 1
          /\ made'[Len(made) + 1] = e
      BY <1>2, <3>1, AppendProperties
    <3>3. \A x \in 1..Len(made) : x \in 1..Len(made') /\ made'[x] = made[x]
      BY <1>2, <3>1, GrownTable
    <3> HIDE DEF e
    <3> QED BY <1>2, <3>1, <3>2, <3>3
  <2>2. CASE ~NeedsFreshID(p, c)
    <3>1. id = Len(made) /\ made' = made /\ p = lastPayload /\ c = lastChunk
      BY <1>0, <1>1, <1>2, <2>2 DEF NeedsFreshID
    <3>2. nextID # 0
      <4>1. p # << >>
        BY FragmentsAssumption, EmptySeq
      <4> QED BY <1>1, <3>1, <4>1 DEF IdsAssigned
    <3>3. made[nextID] = e
      BY <1>1, <1>2, <3>1, <3>2 DEF IdsAssigned
    <3> QED BY <1>2, <3>1, <3>2, <3>3
  <2> QED BY <2>1, <2>2
<1>4. IdsAssigned'
  BY <1>1, <1>3 DEF IdsAssigned
<1>5. \A x \in 1..Len(made) : Pieces(x)' = Pieces(x) /\ \A m : Piece(x, m)' = Piece(x, m)
  BY <1>3 DEF Pieces, Piece
<1>6. Pieces(id)' = FragCount(p, c) /\ \A m : Piece(id, m)' = Fragment(id, p, c, m)
  BY <1>3 DEF Pieces, Piece
<1>7. WireGenuine'
  <2> SUFFICES ASSUME NEW w \in wire'
               PROVE  \E x \in 1..Len(made') : \E m \in 0..(Pieces(x)' - 1) : w = Marshal(Piece(x, m)')
    BY DEF WireGenuine, Marshal
  <2>1. CASE w \in wire
    <3>1. PICK x \in 1..Len(made) : \E m \in 0..Pieces(x) - 1 : w = Marshal(Piece(x, m))
      BY <1>1, <2>1 DEF WireGenuine
    <3>2. PICK m \in 0..Pieces(x) - 1 : w = Marshal(Piece(x, m))
      BY <3>1
    <3> QED BY <1>3, <1>5, <3>2
  <2>2. CASE w \notin wire
    <3>1. PICK m \in 0..(n - 1) : w = Marshal(Fragment(id, p, c, m))
      BY <1>1, <2>2
    <3>2. FragCount(p, c) \in Nat
      <4>1. p \in Seq(ToSet(p)) /\ Len(p) > 0 /\ c \in Nat \ {0}
        BY FragmentsAssumption
      <4>2. Len(p) \in Nat
        BY <4>1, LenProperties
      <4> QED BY <4>1, <4>2, CountFits
    <3>3. m \in 0..(FragCount(p, c) - 1)
      BY <3>2
    <3>4. id \in 1..Len(made')
      BY <1>0, <1>2, <1>3
    <3> QED BY <1>6, <3>1, <3>3, <3>4
  <2> QED BY <2>1, <2>2
<1>8. Partial(assembly) => Partial(assembly)'
  <2> SUFFICES ASSUME Partial(assembly) PROVE Partial(assembly)'
    OBVIOUS
  <2>1. assembly' = assembly /\ assembly.currentID \in 1..Len(made)
    BY <1>1 DEF Partial
  <2>2. Pieces(assembly.currentID)' = Pieces(assembly.currentID)
        /\ \A m : Piece(assembly.currentID, m)' = Piece(assembly.currentID, m)
    BY <1>5, <2>1
  <2> QED BY <1>3, <2>1, <2>2 DEF Partial, Clean
<1>9. Returned(assembly, output) => Returned(assembly, output)'
  BY <1>1, <1>3 DEF Returned
<1>10. (assembly.haveID => Counted(assembly))'
  BY <1>1 DEF FragmentsInv, Counted
<1> QED BY <1>1, <1>4, <1>7, <1>8, <1>9, <1>10 DEF FragmentsInv

\* Receiving changes nothing that was sent.
LEMMA SentUnchanged ==
  ASSUME IdsAssigned, WireGenuine, UNCHANGED <<nextID, lastPayload, lastChunk, wire, made>>
  PROVE  IdsAssigned' /\ WireGenuine'
<1>1. nextID' = nextID /\ lastPayload' = lastPayload /\ lastChunk' = lastChunk /\ wire' = wire
      /\ made' = made
  OBVIOUS
<1>2. IdsAssigned'
  BY <1>1 DEF IdsAssigned
<1>3. \A id : Pieces(id)' = Pieces(id) /\ \A n : Marshal(Piece(id, n))' = Marshal(Piece(id, n))
  BY <1>1 DEF Pieces, Piece, Marshal, Fragment
<1>4. WireGenuine'
  BY <1>1, <1>3 DEF WireGenuine
<1> QED BY <1>2, <1>4

\* Whatever add is given, it counts what is in the table.
LEMMA AddCounts ==
  ASSUME assembly.haveID => Counted(assembly), NEW f, f.num \in Nat, f.final \in BOOLEAN,
         assembly' = Add(assembly, f).assembly
  PROVE  Counted(assembly)'
<1>1. PICK r : r = Add(assembly, f)
  OBVIOUS
<1>2. ~Fresh(assembly, f) => Counted(assembly)
  BY DEF Fresh
<1>3. Counted(r.assembly)
  BY <1>1, <1>2, AddResult DEF Added
<1> QED BY <1>1, <1>3 DEF Counted

\* A fragment from the network, in any order and any number of times.
LEMMA ReceiveStep ==
  ASSUME FragmentsInv, NEW w \in wire, Receive(w)
  PROVE  FragmentsInv'
<1>1. UNCHANGED <<nextID, lastPayload, lastChunk, wire, made, injected>> /\ Ingest(ParseFragment(w))
  BY DEF Receive, fragmenterVars
<1>0. PICK id \in 1..Len(made) : \E n \in 0..Pieces(id) - 1 : w = Marshal(Piece(id, n))
  BY DEF FragmentsInv, WireGenuine
<1>2. PICK n \in 0..Pieces(id) - 1 : w = Marshal(Piece(id, n))
  BY <1>0
<1>3. IdsAssigned
  BY DEF FragmentsInv
<1> DEFINE f == ParseFragment(w)
<1>4. f = Piece(id, n)
  <2>1. n \in Nat /\ n < FinalBit /\ FinalBit \in Nat \ {0}
    BY <1>3, PieceFacts, FragmentsAssumption
  <2> QED BY <1>2, <2>1, ParseMarshal DEF Piece
<1>5. assembly' = Add(assembly, f).assembly /\ output' = Add(assembly, f).output
  BY <1>1 DEF Ingest
<1> HIDE DEF f
<1>8. assembly.haveID => Counted(assembly)
  BY DEF FragmentsInv
<1>6. ASSUME injected' = 0
      PROVE  (assembly.haveID => Partial(assembly))' /\ Returned(assembly, output)'
  <2> DEFINE a == Add(assembly, f).assembly
             o == Add(assembly, f).output
  <2>1. assembly.haveID => Partial(assembly)
    BY <1>1, <1>6 DEF FragmentsInv
  <2>2. (a.haveID => Partial(a)) /\ Returned(a, o)
    <3>1. ~Fresh(assembly, f) => /\ assembly.currentID = id /\ Counted(assembly)
                                 /\ Clean(assembly, id) /\ assembly.size <= Pieces(id)
      <4>1. f.id = id
        BY <1>4 DEF Piece, Fragment
      <4> QED BY <1>8, <2>1, <4>1 DEF Fresh, Partial
    <3>2. PICK r : r = Add(assembly, f)
      OBVIOUS
    <3>3. /\ Clean(r.assembly, id) /\ r.assembly.size <= Pieces(id)
          /\ r.assembly.haveID => r.output = << >>
          /\ ~r.assembly.haveID => r.output = made[id].payload
      BY <1>3, <1>4, <3>1, <3>2, AddGenuine
    <3>4. r.assembly.currentID = id
      BY <3>3 DEF Clean
    <3>5. a = r.assembly /\ o = r.output
      BY <3>2
    <3> HIDE DEF a, o
    <3> QED BY <3>3, <3>4, <3>5 DEF Returned, Partial
  <2> HIDE DEF a, o
  <2>3. assembly' = a /\ output' = o /\ made' = made
    BY <1>1, <1>5 DEF a, o
  <2>4. Partial(a) => Partial(assembly)'
    BY <2>3 DEF Partial, Clean, Pieces, Piece
  <2>5. Returned(assembly, output)'
    BY <2>2, <2>3 DEF Returned
  <2> QED BY <2>2, <2>3, <2>4, <2>5
<1>7. IdsAssigned' /\ WireGenuine' /\ injected' \in Nat
  BY <1>1, SentUnchanged DEF FragmentsInv
<1>9. Counted(assembly)'
  <2>1. f.num \in Nat /\ f.final \in BOOLEAN
    BY <1>3, <1>4, PieceFacts DEF Piece, Fragment
  <2> QED BY <1>5, <1>8, <2>1, AddCounts
<1> QED BY <1>6, <1>7, <1>9 DEF FragmentsInv

\* A fragment of no fragmenter: from then on only the counting is said to be right.
LEMMA ReceiveGarbageStep ==
  ASSUME FragmentsInv, ReceiveGarbage
  PROVE  FragmentsInv'
<1>1. UNCHANGED <<nextID, lastPayload, lastChunk, wire, made>> /\ injected' = injected + 1
  BY DEF ReceiveGarbage, fragmenterVars
<1>2. injected' \in Nat /\ injected' # 0
  BY <1>1 DEF FragmentsInv
<1>3. IdsAssigned' /\ WireGenuine'
  BY <1>1, SentUnchanged DEF FragmentsInv
<1>4. PICK f : f.num \in Nat /\ f.final \in BOOLEAN /\ Ingest(f)
  <2>1. PICK id \in 1..MaxID, n \in 0..FinalBit - 1, last \in BOOLEAN :
             Ingest([id |-> id, num |-> n, final |-> last, contents |-> <<"garbage">>])
    BY DEF ReceiveGarbage
  <2>2. n \in Nat
    BY FragmentsAssumption
  <2> QED BY <2>1, <2>2
<1>5. Counted(assembly)'
  BY <1>4, AddCounts DEF Ingest, FragmentsInv
<1> QED BY <1>2, <1>3, <1>5 DEF FragmentsInv

\* The inductive invariant: every fragment in the network belongs to what its
\* id stands for, and so does every one in a partial instruction.
THEOREM FragmentsHold == Spec => []FragmentsInv
<1>1. Init => FragmentsInv
  <2> SUFFICES ASSUME Init PROVE FragmentsInv
    OBVIOUS
  <2>1. made = << >> /\ Len(made) = 0 /\ made \in Seq([payload : Payload, chunk : Chunk])
    BY EmptySeq DEF Init
  <2>2. assembly.haveID = FALSE /\ output = << >>
    BY DEF Init
  <2> QED BY <2>1, <2>2 DEF Init, FragmentsInv, IdsAssigned, WireGenuine, Returned
<1>2. FragmentsInv /\ [Next]_vars => FragmentsInv'
  <2> SUFFICES ASSUME FragmentsInv, [Next]_vars PROVE FragmentsInv'
    OBVIOUS
  <2>1. ASSUME NEW p \in Payload, NEW c \in Chunk, NEW n \in 0..FragCount(p, c), SendInFragments(p, c, n)
        PROVE  FragmentsInv'
    BY <2>1, SendInFragmentsStep
  <2>2. ASSUME NEW w \in wire, Receive(w) PROVE FragmentsInv'
    BY <2>2, ReceiveStep
  <2>3. CASE ReceiveGarbage
    BY <2>3, ReceiveGarbageStep
  <2>4. CASE UNCHANGED vars
    <3>1. UNCHANGED <<nextID, lastPayload, lastChunk, wire, made>> /\ injected' = injected
          /\ assembly' = assembly /\ output' = output
      BY <2>4 DEF vars, fragmenterVars
    <3>2. IdsAssigned' /\ WireGenuine'
      BY <3>1, SentUnchanged DEF FragmentsInv
    <3>3. /\ Partial(assembly) => Partial(assembly)'
          /\ Counted(assembly) => Counted(assembly)'
      BY <3>1 DEF Partial, Clean, Pieces, Piece, Counted
    <3>4. Returned(assembly, output) => Returned(assembly, output)'
      BY <3>1 DEF Returned
    <3> QED BY <3>1, <3>2, <3>3, <3>4 DEF FragmentsInv
  <2> QED BY <2>1, <2>2, <2>3, <2>4 DEF Next
<1> QED BY <1>1, <1>2, PTL DEF Spec

\* What add returns is one instruction that was sent, whole (fragment.go:124-170),
\* for every fragment capacity and every number of transmissions, however the
\* network drops, repeats and reorders the fragments.
THEOREM NeverMixes == Spec => []NoMixing
<1>1. FragmentsInv => NoMixing
  <2> SUFFICES ASSUME FragmentsInv, injected = 0, output # << >>
               PROVE  assembly.currentID <= Len(made) /\ output = made[assembly.currentID].payload
    BY DEF NoMixing
  <2>1. Len(made) \in Nat
    BY LenProperties DEF FragmentsInv, IdsAssigned
  <2> QED BY <2>1 DEF FragmentsInv, Returned
<1> QED BY <1>1, FragmentsHold, PTL

-----------------------------------------------------------------------------
(* A transmission that comes through whole *)

\* The assembly before the first fragment, and what each one makes of it.
BeforeFirst == [assembly |-> assembly, outputs |-> {}]
IsRun(run, id, k) == run = [i \in 0..k |-> IF i = 0 THEN BeforeFirst ELSE Taking(run[i - 1], id, i - 1)]

\* The recursive definition in Delivered has a solution.
LEMMA RunExists ==
  ASSUME NEW id, NEW k \in Nat
  PROVE  \E run : IsRun(run, id, k)
<1> DEFINE Bad == {j \in Nat : ~\E run : IsRun(run, id, j)}
<1> SUFFICES ASSUME Bad # {} PROVE FALSE
  OBVIOUS
<1>1. Bad \in SUBSET Nat
  OBVIOUS
<1>2. PICK j \in Bad : \A i \in Bad : j <= i
  BY <1>1, NatHasLeast
<1>3. CASE j = 0
  <2> DEFINE g == [i \in 0..0 |-> BeforeFirst]
  <2>1. \A i \in 0..0 : i = 0
    OBVIOUS
  <2>2. g = [i \in 0..0 |-> IF i = 0 THEN BeforeFirst ELSE Taking(g[i - 1], id, i - 1)]
    BY <2>1
  <2>3. IsRun(g, id, 0)
    BY <2>2 DEF IsRun
  <2> QED BY <1>2, <1>3, <2>3
<1>4. CASE j # 0
  <2>1. j - 1 \in Nat /\ ~(j <= j - 1)
    BY <1>4
  <2>2. PICK g : IsRun(g, id, j - 1)
    BY <1>2, <2>1
  <2> DEFINE h == [i \in 0..j |-> IF i = j THEN Taking(g[j - 1], id, j - 1) ELSE g[i]]
  <2>3. \A i \in 0..j - 1 : g[i] = IF i = 0 THEN BeforeFirst ELSE Taking(g[i - 1], id, i - 1)
    BY <2>2 DEF IsRun
  <2>4. \A i \in 0..j - 1 : i \in 0..j /\ i # j /\ h[i] = g[i]
    BY <2>1
  <2>5. ASSUME NEW i \in 0..j
        PROVE  h[i] = IF i = 0 THEN BeforeFirst ELSE Taking(h[i - 1], id, i - 1)
    <3>1. CASE i = j
      <4>1. j - 1 \in 0..j - 1
        BY <2>1
      <4>2. h[j - 1] = g[j - 1]
        BY <2>4, <4>1
      <4>3. h[i] = Taking(g[j - 1], id, j - 1)
        BY <3>1
      <4> HIDE DEF h
      <4> QED BY <1>4, <3>1, <4>2, <4>3
    <3>2. CASE i # j
      <4>1. i \in 0..j - 1 /\ (i # 0 => i - 1 \in 0..j - 1)
        BY <3>2
      <4>2. h[i] = g[i] /\ (i # 0 => h[i - 1] = g[i - 1])
        BY <2>4, <4>1
      <4> HIDE DEF h
      <4> QED BY <2>3, <4>1, <4>2
    <3> QED BY <3>1, <3>2
  <2>6. h = [i \in 0..j |-> h[i]]
    OBVIOUS
  <2> HIDE DEF h
  <2>7. h = [i \in 0..j |-> IF i = 0 THEN BeforeFirst ELSE Taking(h[i - 1], id, i - 1)]
    BY <2>5, <2>6
  <2>8. IsRun(h, id, j)
    BY <2>7 DEF IsRun
  <2> QED BY <1>2, <2>8
<1> QED BY <1>3, <1>4

\* While the instruction has not been returned, the fragments taken so far are
\* in the assembly.
Going(a, id, i) ==
    /\ a.haveID /\ a.currentID = id => Counted(a) /\ Clean(a, id)
    /\ i > 0 => a.haveID /\ a.currentID = id /\ 0..i - 1 \subseteq DOMAIN a.frags

\* One more fragment returns the instruction or is in the assembly too; the last
\* one returns it.
LEMMA TakingStep ==
  ASSUME IdsAssigned, NEW id \in 1..Len(made), NEW n \in 0..Pieces(id) - 1,
         NEW r, Going(r.assembly, id, n), NEW t, t = Taking(r, id, n)
  PROVE  /\ r.outputs \subseteq t.outputs
         /\ made[id].payload \in t.outputs \/ Going(t.assembly, id, n + 1)
         /\ n = Pieces(id) - 1 => made[id].payload \in t.outputs
<1>1. PICK f : f = Piece(id, n)
  OBVIOUS
<1>2. PICK a : a = r.assembly
  OBVIOUS
<1>3. PICK s : s = Add(a, f)
  OBVIOUS
<1>4. n \in Nat /\ n < FinalBit /\ f.id = id /\ Pieces(id) \in Nat
  BY <1>1, PieceFacts
<1>5. t.assembly = s.assembly /\ t.outputs = r.outputs \cup {s.output}
  <2>1. FinalBit \in Nat \ {0}
    BY FragmentsAssumption
  <2>2. ParseFragment(Marshal(Fragment(id, made[id].payload, made[id].chunk, n))) = f
    BY <1>1, <1>4, <2>1, ParseMarshal DEF Piece
  <2> QED BY <1>2, <1>3, <2>2 DEF Taking
<1>6. ~Fresh(a, f) => Counted(a) /\ Clean(a, id)
  BY <1>2, <1>4 DEF Fresh, Going
<1>7. /\ Counted(s.assembly) /\ Clean(s.assembly, id) /\ s.assembly.currentID = id
      /\ \A m \in 0..Pieces(id) - 1 : m \in Before(a, f) \cup {n} => m \in DOMAIN s.assembly.frags
      /\ ~s.assembly.haveID => s.output = made[id].payload
      /\ n = Pieces(id) - 1 /\ 0..Pieces(id) - 1 \subseteq DOMAIN s.assembly.frags
         => ~s.assembly.haveID
  BY <1>1, <1>3, <1>6, AddGenuine DEF Clean
<1>8. 0..n \subseteq DOMAIN s.assembly.frags
  <2>1. CASE n = 0
    BY <1>4, <1>7, <2>1
  <2>2. CASE n # 0
    <3>1. a.haveID /\ a.currentID = id /\ 0..n - 1 \subseteq DOMAIN a.frags
      BY <1>2, <1>4, <2>2 DEF Going
    <3>2. ~Fresh(a, f)
      BY <1>4, <3>1 DEF Fresh
    <3>3. \A m \in 0..n : m \in 0..Pieces(id) - 1 /\ (m = n \/ m \in 0..n - 1)
      BY <1>4
    <3> QED BY <1>7, <3>1, <3>2, <3>3 DEF Before
  <2> QED BY <2>1, <2>2
<1>9. CASE ~s.assembly.haveID
  BY <1>5, <1>7, <1>9
<1>10. CASE s.assembly.haveID
  <2>1. n + 1 - 1 = n
    BY <1>4
  <2>2. Going(t.assembly, id, n + 1)
    BY <1>5, <1>7, <1>8, <1>10, <2>1 DEF Going
  <2>3. n # Pieces(id) - 1
    <3> SUFFICES ASSUME n = Pieces(id) - 1 PROVE FALSE
      OBVIOUS
    <3> QED BY <1>7, <1>8, <1>10
  <2> QED BY <1>5, <2>2, <2>3
<1> QED BY <1>9, <1>10

\* "Leave the rest for the next retransmission" (sender.go:337): a transmission
\* all of whose fragments arrive delivers its instruction, for every fragment
\* capacity, number of fragments and history.  Whatever genuine fragments the
\* assembly holds, and whatever garbage of other ids or of this one beyond its
\* final fragment, which cuts it and counts anew (fragment.go:143-155); only
\* garbage in the place of a genuine fragment, or that moves the end once the
\* final fragment has arrived, is excepted (Unspoilt).
THEOREM RetransmissionAlwaysCompletes == Spec => []RetransmissionCompletes
<1>1. FragmentsInv => RetransmissionCompletes
  <2> SUFFICES ASSUME FragmentsInv, NEW id \in 1..Len(made),
                      injected = 0 \/ ~assembly.haveID \/ assembly.currentID # id \/ Unspoilt(id)
               PROVE  made[id].payload \in Delivered(id)
    BY DEF RetransmissionCompletes
  <2> DEFINE K == Pieces(id)
             run == CHOOSE f : IsRun(f, id, K)
             P == made[id].payload
  <2>1. IdsAssigned /\ K \in Nat /\ K >= 1
    BY PieceFacts DEF FragmentsInv
  <2>2. IsRun(run, id, K)
    BY <2>1, RunExists
  <2>3. Delivered(id) = run[K].outputs
    BY DEF Delivered, IsRun, Pieces, BeforeFirst
  <2> HIDE DEF run, K
  <2>4. run[0] = BeforeFirst /\ \A i \in 1..K : run[i] = Taking(run[i - 1], id, i - 1)
    BY <2>1, <2>2 DEF IsRun
  <2> DEFINE Good(i) == P \in run[i].outputs \/ Going(run[i].assembly, id, i)
             Bad == {i \in 0..K : ~Good(i)}
  <2>5. Good(0)
    <3>1. assembly.haveID /\ assembly.currentID = id => Counted(assembly) /\ Clean(assembly, id)
      <4>1. Unspoilt(id) /\ assembly.currentID = id => Clean(assembly, id)
        BY DEF Unspoilt, Clean, Pieces, Piece
      <4> QED BY <4>1 DEF FragmentsInv, Partial
    <3>2. Going(assembly, id, 0)
      BY <3>1 DEF Going
    <3> QED BY <2>4, <3>2 DEF BeforeFirst
  <2>6. ASSUME NEW i \in 1..K, Good(i - 1)
        PROVE  Good(i) /\ (i = K => P \in run[i].outputs)
    <3>1. i - 1 \in 0..Pieces(id) - 1 /\ i - 1 + 1 = i /\ (i = K => i - 1 = Pieces(id) - 1)
      BY <2>1 DEF K
    <3>2. run[i] = Taking(run[i - 1], id, i - 1)
      BY <2>4
    <3>3. CASE P \in run[i - 1].outputs
      <4>1. run[i - 1].outputs \subseteq run[i].outputs
        BY <3>2 DEF Taking
      <4> QED BY <3>3, <4>1
    <3>4. CASE Going(run[i - 1].assembly, id, i - 1)
      <4>1. /\ P \in run[i].outputs \/ Going(run[i].assembly, id, i - 1 + 1)
            /\ i - 1 = Pieces(id) - 1 => P \in run[i].outputs
        BY <2>1, <3>1, <3>2, <3>4, TakingStep
      <4> QED BY <3>1, <4>1
    <3> QED BY <2>6, <3>3, <3>4
  <2>7. Bad = {}
    <3> SUFFICES ASSUME Bad # {} PROVE FALSE
      OBVIOUS
    <3>1. PICK i \in Bad : \A j \in Bad : i <= j
      <4>1. Bad \in SUBSET Nat
        OBVIOUS
      <4> HIDE DEF Bad
      <4> QED BY <4>1, NatHasLeast
    <3>2. i # 0
      BY <2>5
    <3>3. i \in 1..K /\ i - 1 \in 0..K /\ ~(i <= i - 1)
      BY <2>1, <3>2
    <3>4. Good(i - 1)
      BY <3>1, <3>3
    <3> QED BY <2>6, <3>3, <3>4
  <2>8. K \in 1..K /\ K - 1 \in 0..K
    BY <2>1
  <2> QED BY <2>3, <2>6, <2>7, <2>8
<1> QED BY <1>1, FragmentsHold, PTL

-----------------------------------------------------------------------------
(***** The packet                                                         *****)

(* Arithmetic of the wrapped clock *)

\* Two times that a wrapped timestamp cannot tell apart.
Cong(a, b) == \E k \in Int : a = b + k * TsMod

\* There are at least two timestamps, one of them the sentinel.
LEMMA TwoTimestamps == TsMod \in Nat /\ TsMod >= 2 /\ tsMissing \in Nat
BY PacketAssumption DEF tsMissing

\* Wrapping keeps the class, and a wrapped value is a timestamp.
LEMMA CongWrap ==
  ASSUME NEW a \in Int
  PROVE  a % TsMod \in 0..TsMod - 1 /\ Cong(a % TsMod, a)
<1> DEFINE q == a \div TsMod
<1>1. q \in Int /\ a % TsMod \in 0..TsMod - 1 /\ a = TsMod * q + (a % TsMod)
  BY TwoTimestamps
<1>2. -q \in Int /\ (-q) * TsMod = -(TsMod * q)
  BY <1>1, TwoTimestamps
<1>3. TsMod * q \in Int
  BY <1>1, TwoTimestamps
<1> DEFINE y == TsMod * q
           r == a % TsMod
<1>4. r = a + (-q) * TsMod
  <2>1. y \in Int /\ r \in Int /\ a = y + r /\ (-q) * TsMod = -y
    BY <1>1, <1>2, <1>3
  <2> HIDE DEF y, r
  <2> QED BY <2>1
<1> QED BY <1>1, <1>2, <1>4 DEF Cong

\* The multiples of TsMod add up.
LEMMA CongMultiples ==
  ASSUME NEW k \in Int, NEW j \in Int
  PROVE  /\ k + j \in Int /\ k - j \in Int
         /\ k * TsMod \in Int /\ j * TsMod \in Int
         /\ (k + j) * TsMod = k * TsMod + j * TsMod
         /\ (k - j) * TsMod = k * TsMod - j * TsMod
BY TwoTimestamps

\* Congruent times stay congruent when the same is added to both.
LEMMA CongAdd ==
  ASSUME NEW a \in Int, NEW b \in Int, NEW c \in Int, Cong(a, b)
  PROVE  Cong(a + c, b + c)
<1>1. PICK k \in Int : a = b + k * TsMod
  BY DEF Cong
<1> DEFINE x == k * TsMod
<1>2. x \in Int /\ a = b + x
  BY <1>1, CongMultiples
<1>3. a + c = b + c + x
  <2> HIDE DEF x
  <2> QED BY <1>2
<1> QED BY <1>1, <1>3 DEF Cong

\* Congruence is transitive.
LEMMA CongTrans ==
  ASSUME NEW a \in Int, NEW b \in Int, NEW c \in Int, Cong(a, b), Cong(b, c)
  PROVE  Cong(a, c)
<1>1. PICK k \in Int : a = b + k * TsMod
  BY DEF Cong
<1>2. PICK j \in Int : b = c + j * TsMod
  BY DEF Cong
<1> DEFINE x == k * TsMod
           y == j * TsMod
<1>3. /\ x \in Int /\ a = b + x /\ y \in Int /\ b = c + y
      /\ (k + j) * TsMod = x + y /\ k + j \in Int
  BY <1>1, <1>2, CongMultiples
<1>4. a = c + (x + y)
  <2> HIDE DEF x, y
  <2> QED BY <1>3
<1> QED BY <1>3, <1>4 DEF Cong

\* The differences of congruent times are congruent.
LEMMA CongSub ==
  ASSUME NEW a \in Int, NEW b \in Int, NEW c \in Int, NEW d \in Int, Cong(a, b), Cong(c, d)
  PROVE  Cong(a - c, b - d)
<1>1. PICK k \in Int : a = b + k * TsMod
  BY DEF Cong
<1>2. PICK j \in Int : c = d + j * TsMod
  BY DEF Cong
<1> DEFINE x == k * TsMod
           y == j * TsMod
<1>3. /\ x \in Int /\ a = b + x /\ y \in Int /\ c = d + y
      /\ (k - j) * TsMod = x - y /\ k - j \in Int
  BY <1>1, <1>2, CongMultiples
<1>4. a - c = (b - d) + (x - y)
  <2> HIDE DEF x, y
  <2> QED BY <1>3
<1> QED BY <1>3, <1>4 DEF Cong

\* A timestamp is the only one in its class.
LEMMA CongUnique ==
  ASSUME NEW a \in Int, NEW b \in 0..TsMod - 1, Cong(a, b)
  PROVE  a % TsMod = b
<1>1. PICK k \in Int : a = b + k * TsMod
  BY DEF Cong
<1> DEFINE q == a \div TsMod
           r == a % TsMod
<1>2. q \in Int /\ r \in 0..TsMod - 1 /\ a = TsMod * q + r
  BY TwoTimestamps
<1>3. k - q \in Int /\ (k - q) * TsMod = k * TsMod - TsMod * q
  BY <1>1, <1>2, TwoTimestamps
<1>4. r - b = (k - q) * TsMod
  <2> DEFINE x == k * TsMod
             y == TsMod * q
  <2>1. x \in Int /\ y \in Int /\ a = b + x /\ a = y + r /\ (k - q) * TsMod = x - y
    BY <1>1, <1>2, <1>3, TwoTimestamps
  <2> HIDE DEF x, y, q, r
  <2> QED BY <2>1, <1>2, TwoTimestamps
<1> DEFINE n == k - q
<1>5. n \in Int /\ r - b = n * TsMod
  BY <1>3, <1>4
<1>6. n = 0
  <2> HIDE DEF n, r
  <2>1. CASE n >= 1
    <3>1. n * TsMod >= TsMod
      BY <2>1, <1>5, TwoTimestamps
    <3> DEFINE z == n * TsMod
    <3>2. z \in Int /\ z >= TsMod /\ r - b = z
      BY <3>1, <1>5, TwoTimestamps
    <3> HIDE DEF z
    <3> QED BY <3>2, <1>2, TwoTimestamps
  <2>2. CASE n <= -1
    <3>1. n * TsMod <= -TsMod
      BY <2>2, <1>5, TwoTimestamps
    <3> DEFINE z == n * TsMod
    <3>2. z \in Int /\ z <= -TsMod /\ r - b = z
      BY <3>1, <1>5, TwoTimestamps
    <3> HIDE DEF z
    <3> QED BY <3>2, <1>2, TwoTimestamps
  <2> QED BY <2>1, <2>2, <1>5
<1>7. r - b = 0
  BY <1>5, <1>6, TwoTimestamps
<1> QED BY <1>7, <1>2, TwoTimestamps

\* Stepping over the sentinel costs at most one (timestamp16, Reply).
LEMMA StepOver ==
  ASSUME NEW a \in Int
  PROVE  LET w == a % TsMod
             v == IF w = tsMissing THEN (w + 1) % TsMod ELSE w
         IN  /\ v \in 0..TsMod - 1
             /\ v # tsMissing
             /\ \E d \in 0..1 : Cong(v, a + d)
<1> DEFINE w == a % TsMod
           v == IF w = tsMissing THEN (w + 1) % TsMod ELSE w
<1>1. w \in 0..TsMod - 1 /\ Cong(w, a)
  BY CongWrap
<1>2. w \in Int
  BY <1>1, TwoTimestamps
<1>3. CASE w = tsMissing
  <2>1. w + 1 = TsMod
    BY <1>3, TwoTimestamps DEF tsMissing
  <2>2. TsMod \in Int /\ TsMod % TsMod = 0
    BY TwoTimestamps
  <2>3. v = TsMod % TsMod
    BY <1>3, <2>1
  <2>4. v = 0 /\ v \in Int /\ v \in 0..TsMod - 1 /\ v # tsMissing
    BY <2>2, <2>3, TwoTimestamps DEF tsMissing
  <2>5. Cong(v, TsMod)
    BY <2>2, <2>3, CongWrap
  <2>6. Cong(TsMod, a + 1)
    BY <1>1, <1>2, <2>1, CongAdd
  <2>7. Cong(v, a + 1)
    BY <2>2, <2>4, <2>5, <2>6, CongTrans
  <2> QED BY <2>4, <2>7
<1>4. CASE w # tsMissing
  <2>1. v = w /\ a + 0 = a /\ 0 \in 0..1
    BY <1>4
  <2>2. Cong(v, a + 0)
    BY <1>1, <2>1
  <2> QED BY <1>1, <1>4, <2>1, <2>2
<1> QED BY <1>3, <1>4

\* What timestamp16 gives is never the sentinel and is at most one ahead.
LEMMA TimestampClass ==
  ASSUME NEW t \in Int
  PROVE  /\ timestamp16(t) \in 0..TsMod - 1
         /\ timestamp16(t) # tsMissing
         /\ \E d \in 0..1 : Cong(timestamp16(t), t + d)
BY StepOver DEF timestamp16

-----------------------------------------------------------------------------
(* The invariant *)

Origin == [nonce : Nat, read : Nat, sealed : Nat, from : End]
Echo == [nonce : Nat, read : Nat, sealed : Nat, held : Int]
Sealed == [nonce : Nat, ts : 0..TsMod - 1, reply : 0..TsMod - 1, from : End,
           read : Nat, sealed : Nat, echo : {NoPacket} \cup Echo]

PacketTypeOK ==
    /\ clock \in Nat
    /\ readAt \in [End -> Int] /\ \A e \in End : readAt[e] = NoTime \/ readAt[e] \in Nat
    /\ nextSeq \in [End -> Nat] /\ expectedSeq \in [End -> Nat]
    /\ saved \in [End -> [have : BOOLEAN, ts : 0..TsMod - 1, at : Nat, of : {NoPacket} \cup Origin]]
    /\ net \subseteq Sealed
    /\ measured \in [value : Int, exact : Int]

\* The direction in the nonce of a packet names its sender.
NetDirected == \A p \in net : DirectionOf(p.nonce) = p.from

\* The reply field says whether there is an echo.
ReplyIffEcho == \A p \in net : (p.reply = tsMissing) = (p.echo = NoPacket)

\* What an end holds came from its peer, and everything up to it is expected no more.
SavedFromPeer ==
    \A e \in End :
        /\ saved[e].have => saved[e].of # NoPacket
        /\ saved[e].of # NoPacket =>
               saved[e].of.from # e /\ SeqOfNonce(saved[e].of.nonce) < expectedSeq[e]

\* The same of what it echoed.
EchoSeen ==
    \A p \in net : p.echo # NoPacket => SeqOfNonce(p.echo.nonce) < expectedSeq[p.from]

\* What is held to be echoed has not been echoed yet.
NotYetEchoed ==
    \A e \in End : saved[e].have =>
        \A p \in net : p.from = e /\ p.echo # NoPacket => p.echo.nonce # saved[e].of.nonce

\* A packet is echoed once.
EchoedOnce ==
    \A p, q \in net :
        p.from = q.from /\ p.echo # NoPacket /\ p.echo.nonce = q.echo.nonce => p = q

EchoInv ==
    /\ PacketTypeOK /\ NetDirected /\ ReplyIffEcho /\ SavedFromPeer
    /\ EchoSeen /\ NotYetEchoed /\ EchoedOnce

\* No packet is NoPacket.
LEMMA NoPacketApart ==
  /\ \A o \in Origin : o # NoPacket
  /\ \A o \in Echo : o # NoPacket
  /\ \A o \in {NoPacket} \cup Echo : o = NoPacket => o.nonce = -1
BY DEF Origin, Echo, NoPacket

\* The invariant implies the property.
LEMMA EchoInvSuffices == EchoInv => EchoFaithful
BY DEF EchoInv, EchoFaithful, ReplyIffEcho, EchoedOnce, SavedFromPeer

\* A nonce keeps the direction and is a natural (toMessage, packetFromMessage).
LEMMA NonceDirection ==
  ASSUME NEW e \in End, NEW n \in Nat
  PROVE  NonceVal(e, n) \in Nat /\ DirectionOf(NonceVal(e, n)) = e
<1>1. SeqNums \in Nat /\ SeqNums > 0 /\ n % SeqNums \in 0..SeqNums - 1
  BY PacketAssumption
<1> DEFINE r == n % SeqNums
<1>2. r \in Nat /\ r < SeqNums
  BY <1>1
<1> HIDE DEF r
<1>3. CASE e = 0
  <2>1. e * SeqNums + r = r
    BY <1>1, <1>2, <1>3
  <2> QED BY <1>1, <1>2, <1>3, <2>1 DEF NonceVal, DirectionOf, ToClient, ToServer, r
<1>4. CASE e = 1
  <2>1. e * SeqNums + r = SeqNums + r
    BY <1>1, <1>2, <1>4
  <2> QED BY <1>1, <1>2, <1>4, <2>1 DEF NonceVal, DirectionOf, ToClient, ToServer, r
<1> QED BY <1>3, <1>4 DEF End, ToClient, ToServer

\* A sequence number is a natural.
LEMMA SeqNat == \A n \in Nat : SeqOfNonce(n) \in Nat
BY PacketAssumption DEF SeqOfNonce

\* The reply is a timestamp, not the sentinel, and its class is that of the one
\* held, advanced by the hold time, or one more.
LEMMA ReplyClass ==
  ASSUME NEW e \in End, PacketTypeOK, readAt[e] # NoTime
  PROVE  /\ Reply(e) \in 0..TsMod - 1
         /\ Reply(e) # tsMissing
         /\ \E d \in 0..1 : Cong(Reply(e), saved[e].ts + (readAt[e] - saved[e].at) + d)
<1> DEFINE a == saved[e].ts + (readAt[e] - saved[e].at)
<1>1. saved[e].ts \in Int /\ saved[e].at \in Int /\ readAt[e] \in Int
  BY TwoTimestamps DEF PacketTypeOK
<1>2. a \in Int
  BY <1>1
<1> QED BY <1>2, StepOver DEF Reply

\* Nothing was sent and nothing is held.
LEMMA EchoInvInit == PacketInit => EchoInv
BY PacketAssumption, TwoTimestamps DEF PacketInit, EchoInv, PacketTypeOK, NetDirected, ReplyIffEcho, SavedFromPeer,
   EchoSeen, NotYetEchoed, EchoedOnce, NoTime

\* Reading the clock before a send disturbs none of it.
LEMMA EchoInvSendStart ==
  ASSUME EchoInv, NEW e \in End, SendStart(e)
  PROVE  EchoInv'
BY DEF SendStart, EchoInv, PacketTypeOK, NetDirected, ReplyIffEcho, SavedFromPeer,
   EchoSeen, NotYetEchoed, EchoedOnce

\* Nor does time.
LEMMA EchoInvTick ==
  ASSUME EchoInv, Tick
  PROVE  EchoInv'
BY DEF Tick, EchoInv, PacketTypeOK, NetDirected, ReplyIffEcho, SavedFromPeer,
   EchoSeen, NotYetEchoed, EchoedOnce

\* What Seal puts on the net.
Packed(e) ==
    [nonce  |-> NonceVal(e, nextSeq[e]),
     ts     |-> timestamp16(readAt[e]),
     reply  |-> IF Echoes(e) THEN Reply(e) ELSE tsMissing,
     from   |-> e, read |-> readAt[e], sealed |-> clock,
     echo   |-> IF Echoes(e)
                THEN [nonce |-> saved[e].of.nonce, read |-> saved[e].of.read,
                      sealed |-> saved[e].of.sealed, held |-> clock - saved[e].at]
                ELSE NoPacket]

\* It is a packet, and it echoes what its sender holds.
LEMMA PackedType ==
  ASSUME EchoInv, NEW e \in End, readAt[e] # NoTime
  PROVE  /\ Packed(e) \in Sealed
         /\ Packed(e).from = e /\ DirectionOf(Packed(e).nonce) = e
         /\ (Packed(e).reply = tsMissing) = (Packed(e).echo = NoPacket)
         /\ Packed(e).echo # NoPacket =>
                /\ Echoes(e) /\ saved[e].have /\ saved[e].of \in Origin
                /\ Packed(e).echo.nonce = saved[e].of.nonce
<1>1. readAt[e] \in Nat /\ nextSeq[e] \in Nat /\ clock \in Nat /\ saved[e].at \in Nat
  BY DEF EchoInv, PacketTypeOK
<1>2. NonceVal(e, nextSeq[e]) \in Nat /\ DirectionOf(NonceVal(e, nextSeq[e])) = e
  BY <1>1, NonceDirection
<1>3. timestamp16(readAt[e]) \in 0..TsMod - 1
  BY <1>1, TimestampClass
<1>4. Reply(e) \in 0..TsMod - 1 /\ Reply(e) # tsMissing
  BY ReplyClass DEF EchoInv
<1>5. tsMissing \in 0..TsMod - 1
  BY TwoTimestamps DEF tsMissing
<1>6. CASE Echoes(e)
  <2>1. saved[e].have /\ saved[e].of \in Origin
    BY <1>6 DEF Echoes, EchoInv, PacketTypeOK, SavedFromPeer
  <2> DEFINE o == [nonce |-> saved[e].of.nonce, read |-> saved[e].of.read,
                   sealed |-> saved[e].of.sealed, held |-> clock - saved[e].at]
  <2>2. o \in Echo /\ o.nonce = saved[e].of.nonce
    BY <2>1, <1>1 DEF Origin, Echo
  <2>3. o # NoPacket
    BY <2>2, NoPacketApart
  <2>4. Packed(e) = [nonce |-> NonceVal(e, nextSeq[e]), ts |-> timestamp16(readAt[e]),
                     reply |-> Reply(e), from |-> e, read |-> readAt[e], sealed |-> clock,
                     echo |-> o]
    BY <1>6 DEF Packed
  <2> HIDE DEF o
  <2> QED BY <1>1, <1>2, <1>3, <1>4, <1>6, <2>1, <2>2, <2>3, <2>4 DEF Sealed
<1>7. CASE ~Echoes(e)
  <2>1. Packed(e) = [nonce |-> NonceVal(e, nextSeq[e]), ts |-> timestamp16(readAt[e]),
                     reply |-> tsMissing, from |-> e, read |-> readAt[e], sealed |-> clock,
                     echo |-> NoPacket]
    BY <1>7 DEF Packed
  <2> QED BY <1>1, <1>2, <1>3, <1>5, <2>1 DEF Sealed
<1> QED BY <1>6, <1>7

\* A sealed packet echoes what was held, which is then held no more.
LEMMA EchoInvSeal ==
  ASSUME EchoInv, NEW e \in End, Seal(e)
  PROVE  EchoInv'
<1> DEFINE r == Packed(e)
<1>1. readAt[e] # NoTime /\ net' = net \cup {r}
  BY DEF Seal, Packed
<1>2. /\ r \in Sealed /\ r.from = e /\ DirectionOf(r.nonce) = e
      /\ (r.reply = tsMissing) = (r.echo = NoPacket)
      /\ r.echo # NoPacket => /\ Echoes(e) /\ saved[e].have /\ saved[e].of \in Origin
                              /\ r.echo.nonce = saved[e].of.nonce
  BY <1>1, PackedType
<1>3. /\ saved \in [End -> [have : BOOLEAN, ts : 0..TsMod - 1, at : Nat, of : {NoPacket} \cup Origin]]
      /\ net \subseteq Sealed /\ expectedSeq' = expectedSeq
      /\ saved' = [saved EXCEPT ![e].have = KeepsSaved(e)]
  BY DEF EchoInv, PacketTypeOK, Seal
<1> HIDE DEF r
<1>4. /\ saved' \in [End -> [have : BOOLEAN, ts : 0..TsMod - 1, at : Nat, of : {NoPacket} \cup Origin]]
      /\ \A f \in End : saved'[f].of = saved[f].of /\ (saved'[f].have => saved[f].have)
      /\ saved'[e].have => ~Echoes(e)
  BY <1>3 DEF KeepsSaved
<1>5. PacketTypeOK'
  <2>1. readAt' \in [End -> Int] /\ \A f \in End : readAt'[f] = NoTime \/ readAt'[f] \in Nat
    BY DEF EchoInv, PacketTypeOK, Seal, NoTime
  <2>2. nextSeq' \in [End -> Nat] /\ clock' \in Nat /\ expectedSeq' \in [End -> Nat]
        /\ measured' \in [value : Int, exact : Int]
    BY DEF EchoInv, PacketTypeOK, Seal
  <2> QED BY <2>1, <2>2, <1>1, <1>2, <1>3, <1>4 DEF PacketTypeOK
<1>6. NetDirected' /\ ReplyIffEcho'
  BY <1>1, <1>2 DEF EchoInv, NetDirected, ReplyIffEcho
<1>7. SavedFromPeer'
  BY <1>3, <1>4 DEF EchoInv, SavedFromPeer
<1>8. EchoSeen'
  BY <1>1, <1>2, <1>3, NoPacketApart DEF EchoInv, EchoSeen, SavedFromPeer
<1>9. NotYetEchoed'
  BY <1>1, <1>2, <1>4 DEF EchoInv, NotYetEchoed
<1>10. EchoedOnce'
  <2> SUFFICES ASSUME NEW p \in net', NEW q \in net', p.from = q.from, p.echo # NoPacket,
                      p.echo.nonce = q.echo.nonce, p # q
               PROVE  FALSE
    BY DEF EchoedOnce
  <2>1. p \in Sealed /\ q \in Sealed /\ p.echo \in Echo /\ p.echo.nonce \in Nat
    BY <1>1, <1>2, <1>3 DEF Sealed, Echo
  <2>2. q.echo # NoPacket
    BY <2>1 DEF NoPacket, Sealed
  <2>3. ~(p \in net /\ q \in net)
    BY <2>2 DEF EchoInv, EchoedOnce
  <2>4. CASE p = r /\ q \in net
    BY <2>4, <2>2, <1>2 DEF EchoInv, NotYetEchoed
  <2>5. CASE q = r /\ p \in net
    BY <2>5, <2>2, <1>2 DEF EchoInv, NotYetEchoed
  <2> QED BY <2>3, <2>4, <2>5, <1>1
<1> QED BY <1>5, <1>6, <1>7, <1>8, <1>9, <1>10 DEF EchoInv

\* Only a packet newer than all before it is held, so it was never echoed.
LEMMA EchoInvRecv ==
  ASSUME EchoInv, NEW e \in End, NEW p \in net, Recv(e, p)
  PROVE  EchoInv'
<1> DEFINE o == [nonce |-> p.nonce, read |-> p.read, sealed |-> p.sealed, from |-> p.from]
           s == [have |-> TRUE, ts |-> p.ts, at |-> clock, of |-> o]
<1>1. p \in Sealed /\ p.nonce \in Nat /\ p.reply \in Int /\ clock \in Nat
  BY TwoTimestamps DEF EchoInv, PacketTypeOK, Sealed
<1>2. o \in Origin /\ o.nonce = p.nonce /\ o.from = p.from
  BY <1>1 DEF Sealed, Origin
<1>3. s \in [have : BOOLEAN, ts : 0..TsMod - 1, at : Nat, of : {NoPacket} \cup Origin] /\ s.of = o
  BY <1>1, <1>2 DEF Sealed
<1>4. /\ saved' = [saved EXCEPT ![e] = s]
      /\ expectedSeq' = [expectedSeq EXCEPT ![e] = SeqOfNonce(p.nonce) + 1]
      /\ SeqOfNonce(p.nonce) >= expectedSeq[e] /\ SeqOfNonce(p.nonce) \in Nat
      /\ net' = net /\ nextSeq' = nextSeq /\ readAt' = readAt /\ clock' = clock
      /\ DirectionOf(p.nonce) # e
  BY <1>1, SeqNat DEF Recv, FromPeer
<1> HIDE DEF s, o
<1>5. /\ saved \in [End -> [have : BOOLEAN, ts : 0..TsMod - 1, at : Nat, of : {NoPacket} \cup Origin]]
      /\ expectedSeq \in [End -> Nat]
  BY DEF EchoInv, PacketTypeOK
<1>6. /\ saved'[e] = s /\ \A f \in End : f # e => saved'[f] = saved[f]
      /\ expectedSeq' \in [End -> Nat] /\ expectedSeq'[e] = SeqOfNonce(p.nonce) + 1
      /\ \A f \in End : expectedSeq'[f] >= expectedSeq[f]
  BY <1>4, <1>5
<1>7. PacketTypeOK'
  <2>1. measured' \in [value : Int, exact : Int]
    <3>1. CASE p.reply = tsMissing
      BY <3>1 DEF Recv, EchoInv, PacketTypeOK
    <3>2. CASE p.reply # tsMissing
      <4>1. p.echo \in Echo
        BY <1>1, <3>2 DEF EchoInv, ReplyIffEcho, Sealed
      <4>2. Exact(p) \in Int
        BY <1>1, <4>1 DEF Exact, Sealed, Echo
      <4>3. timestamp16(clock) \in Int
        BY <1>1, TimestampClass, TwoTimestamps
      <4>4. timestampDiff(timestamp16(clock), p.reply) \in Int
        BY <1>1, <4>3, TwoTimestamps DEF timestampDiff
      <4> QED BY <3>2, <4>2, <4>4 DEF Recv
    <3> QED BY <3>1, <3>2
  <2>2. saved' \in [End -> [have : BOOLEAN, ts : 0..TsMod - 1, at : Nat, of : {NoPacket} \cup Origin]]
    BY <1>3, <1>4, <1>5
  <2> QED BY <1>4, <1>6, <2>1, <2>2 DEF EchoInv, PacketTypeOK
<1>8. NetDirected' /\ ReplyIffEcho' /\ EchoedOnce'
  BY <1>4 DEF EchoInv, NetDirected, ReplyIffEcho, EchoedOnce
<1>9. SavedFromPeer'
  <2> SUFFICES ASSUME NEW f \in End
               PROVE  /\ saved'[f].have => saved'[f].of # NoPacket
                      /\ saved'[f].of # NoPacket =>
                             saved'[f].of.from # f /\ SeqOfNonce(saved'[f].of.nonce) < expectedSeq'[f]
    BY DEF SavedFromPeer
  <2>1. CASE f = e
    BY <2>1, <1>2, <1>3, <1>4, <1>6, NoPacketApart DEF EchoInv, NetDirected
  <2>2. CASE f # e
    BY <2>2, <1>4, <1>5, <1>6 DEF EchoInv, SavedFromPeer
  <2> QED BY <2>1, <2>2
<1>10. EchoSeen'
  <2> SUFFICES ASSUME NEW q \in net, q.echo # NoPacket
               PROVE  SeqOfNonce(q.echo.nonce) < expectedSeq'[q.from]
    BY <1>4 DEF EchoSeen
  <2>1. q.from \in End /\ q.echo.nonce \in Nat
    BY DEF EchoInv, PacketTypeOK, Sealed, Echo
  <2>2. SeqOfNonce(q.echo.nonce) < expectedSeq[q.from] /\ SeqOfNonce(q.echo.nonce) \in Nat
    BY <2>1, SeqNat DEF EchoInv, EchoSeen
  <2> QED BY <2>1, <2>2, <1>5, <1>6
<1>11. NotYetEchoed'
  <2> SUFFICES ASSUME NEW f \in End, saved'[f].have, NEW q \in net, q.from = f, q.echo # NoPacket
               PROVE  q.echo.nonce # saved'[f].of.nonce
    BY <1>4 DEF NotYetEchoed
  <2>1. CASE f = e
    <3>1. SeqOfNonce(q.echo.nonce) < expectedSeq[e]
      BY <2>1 DEF EchoInv, EchoSeen
    <3>2. q.echo.nonce \in Nat
      BY DEF EchoInv, PacketTypeOK, Sealed, Echo
    <3>3. SeqOfNonce(q.echo.nonce) # SeqOfNonce(p.nonce)
      BY <3>1, <3>2, <1>4, <1>5, SeqNat
    <3> QED BY <2>1, <3>3, <1>2, <1>3, <1>6
  <2>2. CASE f # e
    BY <2>2, <1>6 DEF EchoInv, NotYetEchoed
  <2> QED BY <2>1, <2>2
<1> QED BY <1>7, <1>8, <1>9, <1>10, <1>11 DEF EchoInv

\* An end echoes only timestamps its peer sent, each at most once, and "none" exactly
\* when it holds none (Send's reply and Recv's savedTimestamp), for any clock
\* width, loss, reordering and duplication.
THEOREM EchoAlwaysFaithful == PacketSpec => []EchoFaithful
<1>1. PacketInit => EchoInv
  BY EchoInvInit
<1>2. EchoInv /\ [PacketNext]_packetVars => EchoInv'
  <2> SUFFICES ASSUME EchoInv, [PacketNext]_packetVars PROVE EchoInv'
    OBVIOUS
  <2>1. CASE PacketNext
    BY <2>1, EchoInvSendStart, EchoInvSeal, EchoInvRecv, EchoInvTick DEF PacketNext
  <2>2. CASE UNCHANGED packetVars
    BY <2>2 DEF packetVars, EchoInv, PacketTypeOK, NetDirected, ReplyIffEcho, SavedFromPeer,
       EchoSeen, NotYetEchoed, EchoedOnce
  <2> QED BY <2>1, <2>2
<1> QED BY <1>1, <1>2, EchoInvSuffices, PTL DEF PacketSpec

-----------------------------------------------------------------------------
(* Measurements *)

\* A packet's timestamp, and the one an end holds, are those of the time its
\* sender read.
StampTrue == \A p \in net : \E d \in 0..1 : Cong(p.ts, p.read + d)
HeldTrue ==
    \A e \in End : saved[e].have => \E d \in 0..1 : Cong(saved[e].ts, saved[e].of.read + d)

\* A reply is the time the echoed packet's sender read, advanced by the time
\* from its receipt, p.sealed - p.echo.held, to the reading before the reply.
ReplyTrue ==
    \A p \in net : p.echo # NoPacket =>
        \E d \in 0..2 : Cong(p.reply, p.echo.read + (p.read - (p.sealed - p.echo.held)) + d)

\* What was measured last is exact but for the steps over the sentinel.
MeasureTrue == \E d \in -2..1 : Cong(measured.value, measured.exact + d)

RttInv == EchoInv /\ StampTrue /\ HeldTrue /\ ReplyTrue /\ MeasureTrue

\* Congruence modulo TsMod as % sees it.
LEMMA RttInvSuffices == RttInv => RttAccurate
<1> SUFFICES ASSUME RttInv PROVE RttAccurate
  OBVIOUS
<1>1. PICK d \in -2..1 : Cong(measured.value, measured.exact + d)
  BY DEF RttInv, MeasureTrue
<1> DEFINE v == measured.value
           x == measured.exact
<1>2. v \in Int /\ x \in Int
  BY DEF RttInv, EchoInv, PacketTypeOK
<1>3. Cong(v, x + d)
  BY <1>1
<1> HIDE DEF v, x
<1>4. x + d \in Int /\ -x \in Int /\ v + (-x) = v - x /\ (x + d) + (-x) = d /\ v - x \in Int /\ d \in Int
  BY <1>1, <1>2
<1>5. Cong(v - x, d)
  BY <1>2, <1>3, <1>4, CongAdd
<1>6. CASE d >= 0
  <2>1. d \in 0..TsMod - 1 /\ d \in {0, 1}
    BY <1>6, TwoTimestamps
  <2>2. (v - x) % TsMod = d
    BY <1>4, <1>5, <2>1, CongUnique
  <2> QED BY <2>1, <2>2 DEF RttAccurate, v, x
<1>7. CASE d < 0
  <2>1. d + TsMod \in 0..TsMod - 1 /\ d + TsMod \in {TsMod - 1, TsMod - 2} /\ d + TsMod \in Int
    BY <1>7, TwoTimestamps
  <2>2. d = (d + TsMod) + (-1) * TsMod
    BY TwoTimestamps
  <2>3. Cong(d, d + TsMod)
    BY <2>2 DEF Cong
  <2>4. Cong(v - x, d + TsMod)
    BY <1>4, <1>5, <2>1, <2>3, CongTrans
  <2>5. (v - x) % TsMod = d + TsMod
    BY <1>4, <2>1, <2>4, CongUnique
  <2> QED BY <2>1, <2>5 DEF RttAccurate, v, x
<1> QED BY <1>4, <1>6, <1>7

\* No packet was sent and nothing was measured.
LEMMA RttInvInit == PacketInit => RttInv
<1> SUFFICES ASSUME PacketInit PROVE RttInv
  OBVIOUS
<1>1. StampTrue /\ HeldTrue /\ ReplyTrue
  BY DEF PacketInit, StampTrue, HeldTrue, ReplyTrue
<1>2. measured.value = 0 /\ measured.exact = 0
  BY DEF PacketInit
<1>3. 0 = (0 + 0) + 0 * TsMod /\ 0 \in -2..1 /\ 0 \in Int
  BY TwoTimestamps
<1>4. Cong(0, 0 + 0)
  BY <1>3 DEF Cong
<1>5. MeasureTrue
  BY <1>2, <1>3, <1>4 DEF MeasureTrue
<1> QED BY <1>1, <1>5, EchoInvInit DEF RttInv

\* Reading the clock before a send changes no stamp.
LEMMA RttInvSendStart ==
  ASSUME RttInv, NEW e \in End, SendStart(e)
  PROVE  RttInv'
<1>1. EchoInv'
  BY EchoInvSendStart DEF RttInv
<1>2. saved' = saved /\ net' = net /\ measured' = measured
  BY DEF SendStart
<1> QED BY <1>1, <1>2 DEF RttInv, StampTrue, HeldTrue, ReplyTrue, MeasureTrue

\* Nor does time.
LEMMA RttInvTick ==
  ASSUME RttInv, Tick
  PROVE  RttInv'
<1>1. EchoInv'
  BY EchoInvTick DEF RttInv
<1>2. saved' = saved /\ net' = net /\ measured' = measured
  BY DEF Tick
<1> QED BY <1>1, <1>2 DEF RttInv, StampTrue, HeldTrue, ReplyTrue, MeasureTrue

\* The stamp and the reply of a sealed packet are true: the reply is advanced by as
\* long as the timestamp was held.
LEMMA RttInvSeal ==
  ASSUME RttInv, NEW e \in End, Seal(e)
  PROVE  RttInv'
<1> DEFINE r == Packed(e)
<1>1. EchoInv' /\ EchoInv /\ PacketTypeOK
  BY EchoInvSeal DEF RttInv, EchoInv
<1>2. readAt[e] # NoTime /\ net' = net \cup {r} /\ measured' = measured
  BY DEF Seal, Packed
<1>3. readAt[e] \in Nat /\ clock \in Nat /\ saved[e].at \in Nat /\ saved[e].ts \in Int
  BY <1>1, <1>2, TwoTimestamps DEF PacketTypeOK
<1>4. r.ts = timestamp16(readAt[e]) /\ r.read = readAt[e] /\ r.sealed = clock
  BY DEF Packed
<1>5. StampTrue'
  <2>1. \E d \in 0..1 : Cong(r.ts, r.read + d)
    BY <1>3, <1>4, TimestampClass
  <2> HIDE DEF r
  <2> QED BY <1>2, <2>1 DEF RttInv, StampTrue
<1>6. HeldTrue'
  <2>1. \A f \in End : /\ saved'[f].of = saved[f].of /\ saved'[f].ts = saved[f].ts
                       /\ saved'[f].have => saved[f].have
    BY <1>1 DEF PacketTypeOK, Seal, KeepsSaved
  <2> QED BY <2>1 DEF RttInv, HeldTrue
<1>7. ASSUME r.echo # NoPacket
      PROVE  \E d \in 0..2 : Cong(r.reply, r.echo.read + (r.read - (r.sealed - r.echo.held)) + d)
  <2>1. Echoes(e) /\ saved[e].have /\ saved[e].of \in Origin
    BY <1>1, <1>2, <1>7, PackedType
  <2>2. r.reply = Reply(e) /\ r.echo.read = saved[e].of.read /\ r.echo.held = clock - saved[e].at
    BY <2>1 DEF Packed
  <2>3. PICK d1 \in 0..1 : Cong(saved[e].ts, saved[e].of.read + d1)
    BY <2>1 DEF RttInv, HeldTrue
  <2>4. PICK d2 \in 0..1 : Cong(Reply(e), saved[e].ts + (readAt[e] - saved[e].at) + d2)
    BY <1>1, <1>2, ReplyClass
  <2> DEFINE t == saved[e].ts
             o == saved[e].of.read
             h == readAt[e] - saved[e].at
             y == Reply(e)
  <2>5. t \in Int /\ o \in Int /\ h \in Int /\ y \in Int /\ d1 \in Int /\ d2 \in Int
    BY <1>1, <1>2, <1>3, <2>1, ReplyClass, TwoTimestamps DEF Origin
  <2>6. Cong(t, o + d1) /\ Cong(y, t + h + d2)
    BY <2>3, <2>4
  <2>7. r.echo.read + (r.read - (r.sealed - r.echo.held)) = o + h
    BY <1>3, <1>4, <2>2, <2>5
  <2> HIDE DEF t, o, h, y
  <2>8. h + d2 \in Int /\ o + d1 \in Int /\ t + (h + d2) = t + h + d2 /\ t + h + d2 \in Int
        /\ (o + d1) + (h + d2) = o + h + (d1 + d2) /\ o + h + (d1 + d2) \in Int /\ d1 + d2 \in 0..2
    BY <2>5
  <2>9. Cong(t + h + d2, o + h + (d1 + d2))
    BY <2>5, <2>6, <2>8, CongAdd
  <2>10. Cong(y, o + h + (d1 + d2))
    BY <2>5, <2>6, <2>8, <2>9, CongTrans
  <2>11. r.reply = y
    BY <2>2 DEF y
  <2> HIDE DEF r
  <2> QED BY <2>7, <2>8, <2>10, <2>11
<1>8. ReplyTrue'
  <2> HIDE DEF r
  <2> QED BY <1>2, <1>7 DEF RttInv, ReplyTrue
<1>9. MeasureTrue'
  BY <1>2 DEF RttInv, MeasureTrue
<1> QED BY <1>1, <1>5, <1>6, <1>8, <1>9 DEF RttInv

\* A reply taken at the clock gives the time under way, but for the steps over
\* the sentinel: one in this end's timestamp, two in the reply.
LEMMA MeasureClass ==
  ASSUME RttInv, NEW p \in net, p.reply # tsMissing
  PROVE  \E d \in -2..1 : Cong(timestampDiff(timestamp16(clock), p.reply), Exact(p) + d)
<1>1. clock \in Int /\ p \in Sealed /\ p.reply \in Int
  BY TwoTimestamps DEF RttInv, EchoInv, PacketTypeOK, Sealed
<1>2. p.echo # NoPacket /\ p.echo \in Echo
  BY <1>1 DEF RttInv, EchoInv, ReplyIffEcho, Sealed
<1> DEFINE s == timestamp16(clock)
           a == p.echo.read + (p.read - (p.sealed - p.echo.held))
           y == p.reply
<1>3. s \in Int
  BY <1>1, TimestampClass, TwoTimestamps
<1>4. a \in Int /\ Exact(p) = clock - a /\ Exact(p) \in Int
  BY <1>1, <1>2 DEF Sealed, Echo, Exact
<1>5. PICK d1 \in 0..1 : Cong(s, clock + d1)
  BY <1>1, TimestampClass
<1>6. PICK d2 \in 0..2 : Cong(y, a + d2)
  BY <1>2 DEF RttInv, ReplyTrue
<1>7. timestampDiff(s, y) = (s - y) % TsMod
  BY DEF timestampDiff
<1>8. y \in Int
  BY <1>1
<1> HIDE DEF s, a, y
<1>9. clock + d1 \in Int /\ a + d2 \in Int /\ s - y \in Int /\ d1 - d2 \in -2..1
      /\ (clock + d1) - (a + d2) = Exact(p) + (d1 - d2) /\ Exact(p) + (d1 - d2) \in Int
  BY <1>1, <1>3, <1>4, <1>5, <1>6, <1>8
<1>10. Cong(s - y, Exact(p) + (d1 - d2))
  BY <1>3, <1>5, <1>6, <1>8, <1>9, CongSub
<1>11. Cong((s - y) % TsMod, s - y) /\ (s - y) % TsMod \in Int
  BY <1>9, CongWrap, TwoTimestamps
<1>12. Cong((s - y) % TsMod, Exact(p) + (d1 - d2))
  BY <1>9, <1>10, <1>11, CongTrans
<1> QED BY <1>7, <1>9, <1>12 DEF s, y

\* What is measured against a true reply, and what is held of a true stamp, is true.
LEMMA RttInvRecv ==
  ASSUME RttInv, NEW e \in End, NEW p \in net, Recv(e, p)
  PROVE  RttInv'
<1>1. EchoInv' /\ PacketTypeOK
  BY EchoInvRecv DEF RttInv, EchoInv
<1>2. StampTrue' /\ ReplyTrue'
  BY DEF Recv, RttInv, StampTrue, ReplyTrue
<1>3. HeldTrue'
  <2>1. saved'[e].ts = p.ts /\ saved'[e].of.read = p.read
        /\ \A f \in End : f # e => saved'[f] = saved[f]
    BY <1>1 DEF Recv, PacketTypeOK
  <2> QED BY <2>1 DEF RttInv, StampTrue, HeldTrue
<1>4. MeasureTrue'
  <2>1. CASE p.reply = tsMissing
    BY <2>1 DEF Recv, RttInv, MeasureTrue
  <2>2. CASE p.reply # tsMissing
    <3>1. measured'.value = timestampDiff(timestamp16(clock), p.reply)
          /\ measured'.exact = Exact(p)
      BY <2>2 DEF Recv
    <3>2. PICK d \in -2..1 : Cong(timestampDiff(timestamp16(clock), p.reply), Exact(p) + d)
      BY <2>2, MeasureClass
    <3> QED BY <3>1, <3>2 DEF MeasureTrue
  <2> QED BY <2>1, <2>2
<1> QED BY <1>1, <1>2, <1>3, <1>4 DEF RttInv

\* A round-trip time that is measured is the real one, less the time the peer held
\* the timestamp, up to the steps over the sentinel (Recv's timestampDiff against
\* now), wherever the 16-bit clock wraps.
THEOREM RttAlwaysAccurate == PacketSpec => []RttAccurate
<1>1. PacketInit => RttInv
  BY RttInvInit
<1>2. RttInv /\ [PacketNext]_packetVars => RttInv'
  <2> SUFFICES ASSUME RttInv, [PacketNext]_packetVars PROVE RttInv'
    OBVIOUS
  <2>1. CASE PacketNext
    BY <2>1, RttInvSendStart, RttInvSeal, RttInvRecv, RttInvTick DEF PacketNext
  <2>2. CASE UNCHANGED packetVars
    BY <2>2 DEF packetVars, RttInv, EchoInv, PacketTypeOK, NetDirected, ReplyIffEcho,
       SavedFromPeer, EchoSeen, NotYetEchoed, EchoedOnce, StampTrue, HeldTrue, ReplyTrue, MeasureTrue
  <2> QED BY <2>1, <2>2
<1> QED BY <1>1, <1>2, RttInvSuffices, PTL DEF PacketSpec

=============================================================================
