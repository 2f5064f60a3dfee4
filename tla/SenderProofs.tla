---------------------------- MODULE SenderProofs -----------------------------
(***************************************************************************)
(* What every operation of Sender preserves, for every value of the        *)
(* constants.                                                              *)
(*                                                                         *)
(* The heart is QueueOK, a predicate on the queue and the current state    *)
(* rather than on the variables, so that it can be stated of the           *)
(* rationalized queue in the middle of a Tick: every snapshot is a prefix  *)
(* of the current state, snapshots only get longer, numbers only grow, and *)
(* before a shutdown a number is at most the empty acks sent plus the      *)
(* events its snapshot covers.  The last part is what keeps a fresh number *)
(* below ShutdownNum.                                                      *)
(***************************************************************************)
EXTENDS Sender, Foundations, SequenceTheorems, TLAPS

\* A sent state: its number and its snapshot of the stream.
Entry == [num : Nat, state : Seq(Event)]

\* s is a prefix of t, position by position.
Agrees(s, t) == Len(s) <= Len(t) /\ \A p \in 1..Len(s) : s[p] = t[p]

\* The queue is never empty and never longer than the limit.
Typed(sent, cur) ==
    /\ sent \in Seq(Entry) /\ Len(sent) \in 1..MaxSentStates
    /\ cur \in Seq(Event)

\* Every snapshot was taken of a stream that has only grown since.
Snapshots(sent, cur) == \A i \in 1..Len(sent) : Agrees(sent[i].state, cur)

\* A later snapshot covers an earlier one.
Growing(sent) ==
    \A i, j \in 1..Len(sent) : i <= j => Len(sent[i].state) <= Len(sent[j].state)

\* Numbers grow along the queue; only the shutdown number is repeated.
Sorted(sent) ==
    \A i, j \in 1..Len(sent) : i < j =>
        \/ sent[i].num < sent[j].num
        \/ sent[i].num = ShutdownNum /\ sent[j].num = ShutdownNum

\* Numbers are scarce: each was minted by an empty ack or by a new event.
Counted(sent, cur, hist, empties, shut) ==
    \A i \in 1..Len(sent) :
        /\ sent[i].num <= ShutdownNum
        /\ ~shut => sent[i].num <= empties + (hist - Len(cur)) + Len(sent[i].state)

\* What every queue the sender builds satisfies.
QueueOK(sent, cur, hist, empties, shut) ==
    /\ Typed(sent, cur) /\ Len(cur) <= hist
    /\ Snapshots(sent, cur) /\ Growing(sent) /\ Sorted(sent)
    /\ Counted(sent, cur, hist, empties, shut)

\* The parts of a sent state (sender.go:38-45 timestampedState).
LEMMA EntryFields ==
  ASSUME NEW sent \in Seq(Entry), NEW i \in 1..Len(sent)
  PROVE  /\ sent[i] \in Entry /\ sent[i].num \in Nat /\ sent[i].state \in Seq(Event)
         /\ Len(sent[i].state) \in Nat
<1>1. sent[i] \in Entry
  BY ElementOfSeq
<1>2. sent[i].num \in Nat /\ sent[i].state \in Seq(Event)
  BY <1>1 DEF Entry
<1> QED BY <1>1, <1>2, LenProperties

\* A function on 1..m is a sequence of length m.
LEMMA FunctionIsSeq ==
  ASSUME NEW S, NEW m \in Nat, NEW g \in [1..m -> S]
  PROVE  g \in Seq(S) /\ Len(g) = m
<1>1. g \in Seq(S)
  BY SeqDef
<1>2. Len(g) \in Nat /\ DOMAIN g = 1..Len(g) /\ DOMAIN g = 1..m
  BY <1>1, LenProperties
<1> QED BY <1>1, <1>2

\* SubSeq within the bounds of a sequence (Go: s[m-1 : n]).
LEMMA SubSeqFacts ==
  ASSUME NEW S, NEW s \in Seq(S), NEW m \in Nat, NEW n \in Nat,
         1 <= m, m <= n + 1, n <= Len(s)
  PROVE  /\ SubSeq(s, m, n) \in Seq(S)
         /\ Len(SubSeq(s, m, n)) = n - m + 1
         /\ \A i \in 1..n - m + 1 : SubSeq(s, m, n)[i] = s[m + i - 1]
<1>1. Len(s) \in Nat /\ \A i \in 1..Len(s) : s[i] \in S
  BY LenProperties, ElementOfSeq
<1>2. \A i \in m..n : i \in 1..Len(s)
  BY <1>1
<1>3. \A i \in m..n : s[i] \in S
  BY <1>1, <1>2
<1> DEFINE t == SubSeq(s, m, n)
<1>4. /\ t \in Seq(S) /\ Len(t) = IF m <= n THEN n - m + 1 ELSE 0
      /\ \A i \in 1..n - m + 1 : t[i] = s[m + i - 1]
  BY <1>3, SubSeqProperties
<1> HIDE DEF t
<1>5. Len(t) = n - m + 1
  BY <1>4
<1> QED BY <1>4, <1>5 DEF t

\* RemoveAt, element by element (Go: append(s[:x], s[x+1:]...)).
LEMMA RemoveAtFacts ==
  ASSUME NEW S, NEW s \in Seq(S), NEW x \in 1..Len(s)
  PROVE  /\ RemoveAt(s, x) \in Seq(S) /\ Len(RemoveAt(s, x)) = Len(s) - 1
         /\ \A i \in 1..Len(s) - 1 : RemoveAt(s, x)[i] = s[IF i >= x THEN i + 1 ELSE i]
<1> DEFINE r == RemoveAt(s, x)
           n == Len(s)
           a == SubSeq(s, 1, x - 1)
           b == SubSeq(s, x + 1, n)
<1>1. n \in Nat /\ x \in Nat /\ 1 <= x /\ x <= n /\ x - 1 \in Nat /\ x + 1 \in Nat
  BY LenProperties
<1>2. /\ a \in Seq(S) /\ Len(a) = x - 1 - 1 + 1
      /\ \A i \in 1..x - 1 - 1 + 1 : a[i] = s[1 + i - 1]
  <2>1. 1 <= 1 /\ 1 <= x - 1 + 1 /\ x - 1 <= Len(s) /\ 1 \in Nat
    BY <1>1
  <2> QED BY <1>1, <2>1, SubSeqFacts
<1>3. /\ b \in Seq(S) /\ Len(b) = n - (x + 1) + 1
      /\ \A i \in 1..n - (x + 1) + 1 : b[i] = s[(x + 1) + i - 1]
  <2>1. 1 <= x + 1 /\ x + 1 <= n + 1 /\ n <= Len(s)
    BY <1>1
  <2> QED BY <1>1, <2>1, SubSeqFacts
<1>4. r = a \o b
  BY DEF RemoveAt
<1> HIDE DEF a, b, n, r
<1>5. Len(a) = x - 1 /\ Len(b) = n - x /\ Len(a) + Len(b) = n - 1
  BY <1>1, <1>2, <1>3
<1>6. /\ r \in Seq(S) /\ Len(r) = Len(a) + Len(b)
      /\ \A i \in 1..Len(a) + Len(b) : r[i] = IF i <= Len(a) THEN a[i] ELSE b[i - Len(a)]
  <2>1. a \in Seq(S) /\ b \in Seq(S)
    BY <1>2, <1>3
  <2>2. /\ a \o b \in Seq(S) /\ Len(a \o b) = Len(a) + Len(b)
        /\ \A i \in 1..Len(a) + Len(b) :
               (a \o b)[i] = IF i <= Len(a) THEN a[i] ELSE b[i - Len(a)]
    BY <2>1, ConcatProperties
  <2> QED BY <1>4, <2>2
<1>7. ASSUME NEW i \in 1..n - 1
      PROVE  r[i] = s[IF i >= x THEN i + 1 ELSE i]
  <2>1. r[i] = IF i <= Len(a) THEN a[i] ELSE b[i - Len(a)]
    BY <1>5, <1>6
  <2>2. CASE i < x
    <3>1. i <= Len(a) /\ i \in 1..x - 1 - 1 + 1 /\ 1 + i - 1 = i /\ ~(i >= x)
      BY <1>1, <1>5, <2>2
    <3>2. a[i] = s[i]
      BY <3>1, <1>2
    <3> QED BY <2>1, <3>1, <3>2
  <2>3. CASE i >= x
    <3>1. ~(i <= Len(a)) /\ i - Len(a) \in 1..n - (x + 1) + 1 /\ (x + 1) + (i - Len(a)) - 1 = i + 1
      BY <1>1, <1>5, <2>3
    <3>2. b[i - Len(a)] = s[i + 1]
      BY <3>1, <1>3
    <3> QED BY <2>1, <2>3, <3>1, <3>2
  <2> QED BY <2>2, <2>3, <1>1
<1> QED BY <1>5, <1>6, <1>7 DEF n, r

\* Subtract (userstream.go:54) of a stream no longer than the other.
LEMMA SubtractFacts ==
  ASSUME NEW u \in Seq(Event), NEW f \in Seq(Event), Len(f) <= Len(u)
  PROVE  /\ Subtract(u, f) \in Seq(Event)
         /\ Len(Subtract(u, f)) = Len(u) - Len(f)
         /\ \A p \in 1..Len(u) - Len(f) : Subtract(u, f)[p] = u[Len(f) + p]
<1>1. Len(f) \in Nat /\ Len(u) \in Nat
  BY LenProperties
<1> DEFINE d == SubSeq(u, Len(f) + 1, Len(u))
<1>2. Subtract(u, f) = d
  <2>1. 1 + (IF Len(f) > Len(u) THEN Len(u) ELSE Len(f)) = Len(f) + 1
    BY <1>1
  <2> QED BY <2>1 DEF Subtract
<1>3. /\ d \in Seq(Event) /\ Len(d) = Len(u) - (Len(f) + 1) + 1
      /\ \A p \in 1..Len(u) - (Len(f) + 1) + 1 : d[p] = u[Len(f) + 1 + p - 1]
  BY <1>1, SubSeqFacts
<1> HIDE DEF d
<1>4. Len(d) = Len(u) - Len(f) /\ \A p \in 1..Len(u) - Len(f) : d[p] = u[Len(f) + p]
  BY <1>1, <1>3
<1> QED BY <1>2, <1>3, <1>4

\* A diff consists of events (userstream.go:64 DiffFrom).
LEMMA SuffixType ==
  ASSUME NEW u \in Seq(Event), NEW f \in Seq(Event)
  PROVE  Suffix(u, f) \in Seq(Event)
<1>1. Len(u) \in Nat /\ Len(f) \in Nat /\ \A p \in Len(f) + 1..Len(u) : u[p] \in Event
  BY LenProperties, ElementOfSeq
<1>2. SubSeq(u, Len(f) + 1, Len(u)) \in Seq(Event)
  BY <1>1, SubSeqProperties
<1> QED BY <1>2, EmptySeq DEF Suffix

\* rationalizeStates (sender.go:149) keeps the queue well formed: the same
\* events are cut from every snapshot and from the current state, and the
\* numbers stay.
LEMMA RationalizedFacts ==
  ASSUME NEW hist \in Nat, NEW empties \in Nat, NEW shut \in BOOLEAN,
         QueueOK(sentStates, currentState, hist, empties, shut)
  PROVE  /\ QueueOK(Rationalized(sentStates), RationalizedCurrent, hist, empties, shut)
         /\ Len(Rationalized(sentStates)) = Len(sentStates)
         /\ \A i \in 1..Len(sentStates) : Rationalized(sentStates)[i].num = sentStates[i].num
<1> DEFINE sent == sentStates
           cur  == currentState
           f    == sent[1].state
           r    == Rationalized(sent)
           rc   == RationalizedCurrent
<1>1. /\ sent \in Seq(Entry) /\ Len(sent) \in Nat /\ 1 \in 1..Len(sent) /\ cur \in Seq(Event)
      /\ f \in Seq(Event) /\ Len(f) \in Nat /\ Len(cur) \in Nat /\ Len(f) <= Len(cur)
  BY EntryFields, LenProperties DEF QueueOK, Typed, Snapshots, Agrees
<1>2. \A i \in 1..Len(sent) :
         /\ sent[i] \in Entry /\ sent[i].num \in Nat /\ sent[i].state \in Seq(Event)
         /\ Len(sent[i].state) \in Nat /\ Len(f) <= Len(sent[i].state)
         /\ Len(sent[i].state) <= Len(cur)
         /\ \A p \in 1..Len(sent[i].state) : sent[i].state[p] = cur[p]
  BY <1>1, EntryFields DEF QueueOK, Snapshots, Growing, Agrees
<1>3. \A i \in 1..Len(sent) :
         /\ Subtract(sent[i].state, f) \in Seq(Event)
         /\ Len(Subtract(sent[i].state, f)) = Len(sent[i].state) - Len(f)
         /\ \A p \in 1..Len(sent[i].state) - Len(f) :
                Subtract(sent[i].state, f)[p] = sent[i].state[Len(f) + p]
  BY <1>1, <1>2, SubtractFacts
<1>4. /\ rc \in Seq(Event) /\ Len(rc) = Len(cur) - Len(f)
      /\ \A p \in 1..Len(cur) - Len(f) : rc[p] = cur[Len(f) + p]
  BY <1>1, SubtractFacts DEF RationalizedCurrent
<1>5. \A i \in 1..Len(sent) :
         /\ [sent[i] EXCEPT !.state = Subtract(sent[i].state, f)] \in Entry
         /\ [sent[i] EXCEPT !.state = Subtract(sent[i].state, f)].num = sent[i].num
         /\ [sent[i] EXCEPT !.state = Subtract(sent[i].state, f)].state = Subtract(sent[i].state, f)
  BY <1>2, <1>3 DEF Entry
<1>6. r = [i \in 1..Len(sent) |-> [sent[i] EXCEPT !.state = Subtract(sent[i].state, f)]]
  BY DEF Rationalized
<1>7. /\ r \in [1..Len(sent) -> Entry]
      /\ \A i \in 1..Len(sent) : r[i].num = sent[i].num /\ r[i].state = Subtract(sent[i].state, f)
  BY <1>5, <1>6
<1> HIDE DEF r, rc, f
<1>8. r \in Seq(Entry) /\ Len(r) = Len(sent)
  BY <1>1, <1>7, FunctionIsSeq, Zenon
<1>9. Typed(r, rc) /\ Len(rc) <= hist
  BY <1>1, <1>4, <1>8 DEF QueueOK, Typed
<1>10. Snapshots(r, rc)
  <2> SUFFICES ASSUME NEW i \in 1..Len(sent)
               PROVE  Agrees(r[i].state, rc)
    BY <1>8 DEF Snapshots
  <2>0. /\ Len(r[i].state) = Len(sent[i].state) - Len(f)
        /\ Len(sent[i].state) \in Nat /\ Len(sent[i].state) <= Len(cur)
        /\ Len(cur) \in Nat /\ Len(f) \in Nat /\ Len(rc) = Len(cur) - Len(f)
    BY <1>1, <1>2, <1>3, <1>4, <1>7
  <2>1. Len(r[i].state) <= Len(rc)
    BY <2>0
  <2>2. ASSUME NEW p \in 1..Len(r[i].state)
        PROVE  r[i].state[p] = rc[p]
    <3>1. p \in 1..Len(sent[i].state) - Len(f) /\ Len(f) + p \in 1..Len(sent[i].state)
      BY <2>0
    <3>2. p \in 1..Len(cur) - Len(f)
      BY <2>0
    <3>3. r[i].state[p] = sent[i].state[Len(f) + p]
      BY <3>1, <1>3, <1>7
    <3>4. sent[i].state[Len(f) + p] = cur[Len(f) + p]
      BY <3>1, <1>2
    <3>5. rc[p] = cur[Len(f) + p]
      BY <3>2, <1>4
    <3> QED BY <3>3, <3>4, <3>5
  <2> QED BY <2>1, <2>2 DEF Agrees
<1>11. Growing(r)
  BY <1>1, <1>2, <1>3, <1>7, <1>8 DEF QueueOK, Growing
<1>12. Sorted(r)
  BY <1>7, <1>8 DEF QueueOK, Sorted
<1>13. Counted(r, rc, hist, empties, shut)
  <2> SUFFICES ASSUME NEW i \in 1..Len(sent)
               PROVE  /\ r[i].num <= ShutdownNum
                      /\ ~shut => r[i].num <= empties + (hist - Len(rc)) + Len(r[i].state)
    BY <1>8 DEF Counted
  <2>1. /\ sent[i].num <= ShutdownNum
        /\ ~shut => sent[i].num <= empties + (hist - Len(cur)) + Len(sent[i].state)
    BY DEF QueueOK, Counted
  <2>2. r[i].num = sent[i].num /\ Len(r[i].state) = Len(sent[i].state) - Len(f)
    BY <1>3, <1>7
  <2>3. Len(rc) = Len(cur) - Len(f) /\ Len(sent[i].state) \in Nat
    BY <1>2, <1>4
  <2>4. Len(f) \in Nat /\ Len(cur) \in Nat /\ sent[i].num \in Nat
    BY <1>1, <1>2
  <2>5. empties + (hist - Len(rc)) + Len(r[i].state)
           = empties + (hist - Len(cur)) + Len(sent[i].state)
    <3> DEFINE a == Len(rc)
               b == Len(r[i].state)
               c == Len(cur)
               d == Len(sent[i].state)
               e == Len(f)
    <3>1. a = c - e /\ b = d - e /\ c \in Nat /\ d \in Nat /\ e \in Nat
      BY <2>2, <2>3, <2>4
    <3> HIDE DEF a, b, c, d, e
    <3>2. empties + (hist - a) + b = empties + (hist - c) + d
      BY <3>1
    <3> QED BY <3>2 DEF a, b, c, d, e
  <2> QED BY <2>1, <2>2, <2>5, Zenon
<1> QED BY <1>7, <1>8, <1>9, <1>10, <1>11, <1>12, <1>13 DEF QueueOK, r, rc

\* Where the element at position i of a queue with one element added came from.
Origin(len, i) ==
    IF len + 1 > MaxSentStates /\ i >= EraseIdx(len + 1) THEN i + 1 ELSE i

\* addSentState (sender.go:261) keeps the front and ends with the new state;
\* every other element is one of the old ones, in the old order.
LEMMA AddSentStateFacts ==
  ASSUME NEW sent \in Seq(Entry), Len(sent) \in 1..MaxSentStates, NEW e \in Entry
  PROVE  /\ AddSentState(sent, e) \in Seq(Entry)
         /\ Len(AddSentState(sent, e)) \in Len(sent)..MaxSentStates
         /\ AddSentState(sent, e)[1] = sent[1]
         /\ AddSentState(sent, e)[Len(AddSentState(sent, e))] = e
         /\ \A i \in 1..Len(AddSentState(sent, e)) - 1 :
               /\ Origin(Len(sent), i) \in 1..Len(sent)
               /\ AddSentState(sent, e)[i] = sent[Origin(Len(sent), i)]
<1> DEFINE n == Len(sent)
           longer == Append(sent, e)
           x == EraseIdx(n + 1)
           r == AddSentState(sent, e)
<1>1. /\ n \in Nat /\ n >= 1 /\ n <= MaxSentStates
      /\ longer \in Seq(Entry) /\ Len(longer) = n + 1
      /\ \A i \in 1..n : longer[i] = sent[i]
      /\ longer[n + 1] = e
  BY AppendProperties, LenProperties
<1>2. CASE n + 1 > MaxSentStates
  <2>1. n = MaxSentStates /\ x \in 2..n
    BY <1>1, <1>2, SenderAssumption DEF EraseIdx
  <2>2. r = RemoveAt(longer, x)
    BY <1>1, <1>2 DEF AddSentState
  <2> HIDE DEF x, longer, n, r
  <2>3. x \in 1..Len(longer)
    BY <1>1, <2>1
  <2>4. /\ r \in Seq(Entry) /\ Len(r) = Len(longer) - 1
        /\ \A i \in 1..Len(longer) - 1 : r[i] = longer[IF i >= x THEN i + 1 ELSE i]
    <3>1. longer \in Seq(Entry)
      BY <1>1
    <3>2. /\ RemoveAt(longer, x) \in Seq(Entry) /\ Len(RemoveAt(longer, x)) = Len(longer) - 1
          /\ \A i \in 1..Len(longer) - 1 :
                RemoveAt(longer, x)[i] = longer[IF i >= x THEN i + 1 ELSE i]
      BY <3>1, <2>3, RemoveAtFacts
    <3> QED BY <2>2, <3>2
  <2>5. Len(r) = n
    BY <1>1, <2>4
  <2>6. r[1] = sent[1] /\ r[n] = e
    <3>1. r[1] = longer[1]
      BY <1>1, <2>1, <2>4
    <3>2. r[n] = longer[n + 1]
      BY <1>1, <2>1, <2>4
    <3> QED BY <1>1, <3>1, <3>2
  <2>7. ASSUME NEW i \in 1..n - 1
        PROVE  Origin(n, i) \in 1..n /\ r[i] = sent[Origin(n, i)]
    <3>1. Origin(n, i) = IF i >= x THEN i + 1 ELSE i
      BY <1>2 DEF Origin, x
    <3>2. r[i] = longer[Origin(n, i)]
      BY <1>1, <2>4, <3>1
    <3>3. Origin(n, i) \in 1..n
      BY <1>1, <2>1, <3>1
    <3> QED BY <1>1, <3>2, <3>3
  <2> QED BY <1>1, <2>1, <2>4, <2>5, <2>6, <2>7 DEF n, r
<1>3. CASE ~(n + 1 > MaxSentStates)
  <2>1. r = longer
    BY <1>1, <1>3 DEF AddSentState
  <2>2. \A i \in 1..n : Origin(n, i) = i
    BY <1>3 DEF Origin
  <2> HIDE DEF longer, r
  <2>3. r \in Seq(Entry) /\ Len(r) = n + 1 /\ Len(r) - 1 = n /\ Len(r) \in n..MaxSentStates
    BY <1>1, <1>3, <2>1, SenderAssumption
  <2> QED BY <1>1, <2>1, <2>2, <2>3 DEF r
<1> QED BY <1>2, <1>3

\* Committing the current state under a fresh number, or the shutdown number,
\* keeps the queue well formed (sender.go:261).
LEMMA AddKeepsQueue ==
  ASSUME NEW sent, NEW cur, NEW hist \in Nat, NEW empties \in Nat, NEW empties2 \in Nat,
         NEW shut \in BOOLEAN, NEW num \in Nat,
         QueueOK(sent, cur, hist, empties, shut), empties <= empties2,
         num <= ShutdownNum,
         sent[Len(sent)].num < num \/ num = ShutdownNum,
         ~shut => num <= empties2 + hist
  PROVE  /\ QueueOK(AddSentState(sent, [num |-> num, state |-> cur]), cur, hist, empties2, shut)
         /\ AddSentState(sent, [num |-> num, state |-> cur])[1] = sent[1]
         /\ Len(AddSentState(sent, [num |-> num, state |-> cur])) \in Len(sent)..MaxSentStates
<1> DEFINE e == [num |-> num, state |-> cur]
           r == AddSentState(sent, e)
           n == Len(sent)
           o(i) == Origin(n, i)
<1>1. /\ sent \in Seq(Entry) /\ n \in 1..MaxSentStates /\ n \in Nat /\ n >= 1
      /\ cur \in Seq(Event) /\ Len(cur) \in Nat /\ Len(cur) <= hist
  BY LenProperties DEF QueueOK, Typed
<1>2. e \in Entry /\ e.num = num /\ e.state = cur
  BY <1>1 DEF Entry
<1>3. /\ r \in Seq(Entry) /\ Len(r) \in n..MaxSentStates
      /\ r[1] = sent[1] /\ r[Len(r)] = e
      /\ \A i \in 1..Len(r) - 1 : o(i) \in 1..n /\ r[i] = sent[o(i)]
  <2>2. sent \in Seq(Entry) /\ Len(sent) \in 1..MaxSentStates /\ e \in Entry
    BY <1>1, <1>2
  <2> HIDE DEF e
  <2> DEFINE q == AddSentState(sent, e)
  <2>3. /\ q \in Seq(Entry) /\ Len(q) \in Len(sent)..MaxSentStates
        /\ q[1] = sent[1] /\ q[Len(q)] = e
        /\ \A i \in 1..Len(q) - 1 : /\ Origin(Len(sent), i) \in 1..Len(sent)
                                    /\ q[i] = sent[Origin(Len(sent), i)]
    BY <2>2, AddSentStateFacts, Zenon
  <2> QED BY <2>3, Zenon
<1>4. Len(r) \in Nat /\ Len(r) >= 1 /\ Len(r) \in 1..MaxSentStates
  BY <1>1, <1>3
<1>5. ASSUME NEW i \in 1..Len(r), NEW j \in 1..Len(r), i < j
      PROVE  i \in 1..Len(r) - 1 /\ (j \in 1..Len(r) - 1 => o(i) < o(j))
  <2>1. i \in 1..Len(r) - 1
    BY <1>4, <1>5
  <2>2. i < j => o(i) < o(j)
    BY <1>4, <1>1, SenderAssumption DEF Origin, EraseIdx
  <2> QED BY <1>5, <2>1, <2>2
<1>6. \A i \in 1..n : /\ sent[i].num \in Nat /\ Len(sent[i].state) \in Nat
                      /\ sent[i].num <= ShutdownNum
                      /\ Agrees(sent[i].state, cur)
                      /\ Len(sent[i].state) <= Len(cur)
  BY <1>1, EntryFields DEF QueueOK, Counted, Snapshots, Agrees
<1>7. \A i \in 1..Len(r) : i \in 1..Len(r) - 1 \/ i = Len(r)
  BY <1>4
<1> HIDE DEF e, o, n, r
<1>8. Typed(r, cur)
  BY <1>1, <1>3, <1>4 DEF Typed
<1>9. Snapshots(r, cur)
  <2>1. Agrees(cur, cur)
    BY <1>1 DEF Agrees
  <2> QED BY <1>2, <1>3, <1>6, <1>7, <2>1 DEF Snapshots
<1>10. Growing(r)
  <2> SUFFICES ASSUME NEW i \in 1..Len(r), NEW j \in 1..Len(r), i <= j
               PROVE  Len(r[i].state) <= Len(r[j].state)
    BY DEF Growing
  <2>1. CASE i = j
    <3>1. Len(r[i].state) \in Nat
      BY <1>3, EntryFields
    <3> QED BY <2>1, <3>1
  <2>2. CASE i < j /\ j = Len(r)
    <3>1. i \in 1..Len(r) - 1
      BY <2>2, <1>5
    <3> QED BY <3>1, <2>2, <1>2, <1>3, <1>6
  <2>3. CASE i < j /\ j \in 1..Len(r) - 1
    <3>1. i \in 1..Len(r) - 1 /\ o(i) < o(j)
      BY <2>3, <1>5
    <3>2. o(i) \in 1..n /\ o(j) \in 1..n /\ r[i] = sent[o(i)] /\ r[j] = sent[o(j)]
      BY <3>1, <2>3, <1>3
    <3>3. o(i) <= o(j)
      BY <3>1, <3>2, <1>1
    <3> QED BY <3>2, <3>3 DEF QueueOK, Growing, n
  <2> QED BY <2>1, <2>2, <2>3, <1>4, <1>7
<1>11. Sorted(r)
  <2> SUFFICES ASSUME NEW i \in 1..Len(r), NEW j \in 1..Len(r), i < j
               PROVE  \/ r[i].num < r[j].num
                      \/ r[i].num = ShutdownNum /\ r[j].num = ShutdownNum
    BY DEF Sorted
  <2>1. i \in 1..Len(r) - 1 /\ o(i) \in 1..n /\ r[i] = sent[o(i)]
    BY <1>3, <1>5
  <2>2. CASE j = Len(r)
    <3>1. sent[o(i)].num <= sent[n].num
      <4>1. CASE o(i) = n
        BY <4>1, <2>1, <1>6
      <4>2. CASE o(i) # n
        <5>1. o(i) < n /\ n \in 1..n
          BY <4>2, <2>1, <1>1
        <5>2. \/ sent[o(i)].num < sent[n].num
              \/ sent[o(i)].num = ShutdownNum /\ sent[n].num = ShutdownNum
          BY <5>1, <2>1 DEF QueueOK, Sorted, n
        <5> DEFINE a == sent[o(i)].num
                   b == sent[n].num
        <5>3. a \in Nat
          BY <2>1, <1>6
        <5>4. b \in Nat
          BY <5>1, <1>6
        <5>5. a < b \/ (a = ShutdownNum /\ b = ShutdownNum)
          BY <5>2
        <5> HIDE DEF a, b
        <5>6. a <= b
          BY <5>3, <5>4, <5>5, SenderAssumption
        <5> QED BY <5>6 DEF a, b
      <4> QED BY <4>1, <4>2
    <3>2. r[j].num = num /\ n \in 1..n
      BY <2>2, <1>1, <1>2, <1>3
    <3>3. sent[n].num \in Nat /\ sent[o(i)].num \in Nat /\ sent[o(i)].num <= ShutdownNum
      BY <2>1, <3>2, <1>6
    <3>4. sent[n].num < num \/ num = ShutdownNum
      BY DEF n
    <3> DEFINE a == sent[o(i)].num
               b == sent[n].num
    <3>5. a \in Nat /\ b \in Nat /\ a <= b /\ a <= ShutdownNum /\ (b < num \/ num = ShutdownNum)
      BY <3>1, <3>3, <3>4
    <3> HIDE DEF a, b
    <3>6. a < num \/ (a = ShutdownNum /\ num = ShutdownNum)
      BY <3>5, SenderAssumption
    <3> QED BY <3>6, <3>2, <2>1 DEF a
  <2>3. CASE j \in 1..Len(r) - 1
    <3>1. o(j) \in 1..n /\ r[j] = sent[o(j)] /\ o(i) < o(j)
      BY <2>3, <1>3, <1>5
    <3> QED BY <2>1, <3>1 DEF QueueOK, Sorted, n
  <2> QED BY <2>2, <2>3, <1>7
<1>12. Counted(r, cur, hist, empties2, shut)
  <2> SUFFICES ASSUME NEW i \in 1..Len(r)
               PROVE  /\ r[i].num <= ShutdownNum
                      /\ ~shut => r[i].num <= empties2 + (hist - Len(cur)) + Len(r[i].state)
    BY DEF Counted
  <2>1. CASE i = Len(r)
    <3>1. r[i].num = num /\ r[i].state = cur
      BY <2>1, <1>2, <1>3
    <3>2. empties2 + (hist - Len(cur)) + Len(cur) = empties2 + hist
      BY <1>1
    <3> QED BY <3>1, <3>2, Zenon
  <2>2. CASE i \in 1..Len(r) - 1
    <3>1. o(i) \in 1..n /\ r[i] = sent[o(i)]
      BY <2>2, <1>3
    <3>2. /\ sent[o(i)].num <= ShutdownNum
          /\ ~shut => sent[o(i)].num <= empties + (hist - Len(cur)) + Len(sent[o(i)].state)
      BY <3>1 DEF QueueOK, Counted, n
    <3>3. sent[o(i)].num <= empties + (hist - Len(cur)) + Len(sent[o(i)].state)
            => sent[o(i)].num <= empties2 + (hist - Len(cur)) + Len(sent[o(i)].state)
      <4> DEFINE a == sent[o(i)].num
                 b == Len(sent[o(i)].state)
                 c == Len(cur)
      <4>1. a \in Nat /\ b \in Nat /\ c \in Nat
        BY <3>1, <1>1, <1>6
      <4> HIDE DEF a, b, c
      <4>2. a <= empties + (hist - c) + b => a <= empties2 + (hist - c) + b
        BY <4>1
      <4> QED BY <4>2 DEF a, b, c
    <3> QED BY <3>1, <3>2, <3>3, Zenon
  <2> QED BY <2>1, <2>2, <1>7
<1> QED BY <1>1, <1>2, <1>3, <1>8, <1>9, <1>10, <1>11, <1>12 DEF QueueOK, n, r, e

\* Dropping the states before an acknowledged one keeps the queue well formed
\* (sender.go:353).
LEMMA CutKeepsQueue ==
  ASSUME NEW sent, NEW cur, NEW hist \in Nat, NEW empties \in Nat, NEW shut \in BOOLEAN,
         NEW k \in 1..Len(sent), QueueOK(sent, cur, hist, empties, shut)
  PROVE  /\ QueueOK(SubSeq(sent, k, Len(sent)), cur, hist, empties, shut)
         /\ SubSeq(sent, k, Len(sent))[1] = sent[k]
<1> DEFINE n == Len(sent)
           r == SubSeq(sent, k, n)
<1>1. /\ sent \in Seq(Entry) /\ n \in Nat /\ n <= MaxSentStates /\ k \in Nat /\ 1 <= k /\ k <= n
      /\ cur \in Seq(Event)
  BY LenProperties DEF QueueOK, Typed
<1>2. /\ r \in Seq(Entry) /\ Len(r) = n - k + 1
      /\ \A i \in 1..n - k + 1 : r[i] = sent[k + i - 1]
  <2>1. 1 <= k /\ k <= n + 1 /\ n <= Len(sent) /\ k \in Nat /\ n \in Nat /\ sent \in Seq(Entry)
    BY <1>1
  <2> HIDE DEF n
  <2>2. /\ SubSeq(sent, k, n) \in Seq(Entry)
        /\ Len(SubSeq(sent, k, n)) = n - k + 1
        /\ \A i \in 1..n - k + 1 : SubSeq(sent, k, n)[i] = sent[k + i - 1]
    BY <2>1, SubSeqFacts, Zenon
  <2> QED BY <2>2
<1> HIDE DEF r, n
<1>3. \A i \in 1..Len(r) : k + i - 1 \in 1..n /\ r[i] = sent[k + i - 1]
  BY <1>1, <1>2
<1>4. Typed(r, cur)
  BY <1>1, <1>2, SenderAssumption DEF Typed
<1>5. Snapshots(r, cur)
  BY <1>3 DEF QueueOK, Snapshots, n
<1>6. \A i, j \in 1..Len(r) : /\ i <= j => k + i - 1 <= k + j - 1
                              /\ i < j => k + i - 1 < k + j - 1
  BY <1>1, <1>2
<1>7. Growing(r)
  <2> SUFFICES ASSUME NEW i \in 1..Len(r), NEW j \in 1..Len(r), i <= j
               PROVE  Len(r[i].state) <= Len(r[j].state)
    BY DEF Growing
  <2>1. \A a, b \in 1..n : a <= b => Len(sent[a].state) <= Len(sent[b].state)
    BY DEF QueueOK, Growing, n
  <2>2. Len(sent[k + i - 1].state) <= Len(sent[k + j - 1].state)
    BY <1>3, <1>6, <2>1
  <2> QED BY <1>3, <2>2
<1>8. Sorted(r)
  <2> SUFFICES ASSUME NEW i \in 1..Len(r), NEW j \in 1..Len(r), i < j
               PROVE  \/ r[i].num < r[j].num
                      \/ r[i].num = ShutdownNum /\ r[j].num = ShutdownNum
    BY DEF Sorted
  <2>1. \A a, b \in 1..n : a < b =>
          \/ sent[a].num < sent[b].num
          \/ sent[a].num = ShutdownNum /\ sent[b].num = ShutdownNum
    BY DEF QueueOK, Sorted, n
  <2>2. \/ sent[k + i - 1].num < sent[k + j - 1].num
        \/ sent[k + i - 1].num = ShutdownNum /\ sent[k + j - 1].num = ShutdownNum
    BY <1>3, <1>6, <2>1
  <2> QED BY <1>3, <2>2
<1>9. Counted(r, cur, hist, empties, shut)
  <2> SUFFICES ASSUME NEW i \in 1..Len(r)
               PROVE  /\ r[i].num <= ShutdownNum
                      /\ ~shut => r[i].num <= empties + (hist - Len(cur)) + Len(r[i].state)
    BY DEF Counted
  <2>1. k + i - 1 \in 1..n /\ r[i] = sent[k + i - 1]
    BY <1>3
  <2> QED BY <2>1, Zenon DEF QueueOK, Counted, n
<1>10. r[1] = sent[k]
  BY <1>1, <1>2
<1> QED BY <1>4, <1>5, <1>7, <1>8, <1>9, <1>10 DEF QueueOK, r, n

\* An event appended to the current state keeps the queue well formed
\* (userstream.go:18-29).
LEMMA PushKeepsQueue ==
  ASSUME NEW sent, NEW cur, NEW hist \in Nat, NEW empties \in Nat, NEW shut \in BOOLEAN,
         QueueOK(sent, cur, hist, empties, shut), NEW e \in Event
  PROVE  QueueOK(sent, Append(cur, e), hist + 1, empties, shut)
<1> DEFINE c == Append(cur, e)
<1>1. sent \in Seq(Entry) /\ cur \in Seq(Event) /\ Len(cur) \in Nat /\ Len(cur) <= hist
  BY LenProperties DEF QueueOK, Typed
<1>2. /\ c \in Seq(Event) /\ Len(c) = Len(cur) + 1
      /\ \A p \in 1..Len(cur) : c[p] = cur[p]
  BY <1>1, AppendProperties
<1> HIDE DEF c
<1>3. Typed(sent, c) /\ Len(c) <= hist + 1
  BY <1>1, <1>2 DEF QueueOK, Typed
<1>4. Snapshots(sent, c)
  <2> SUFFICES ASSUME NEW i \in 1..Len(sent) PROVE Agrees(sent[i].state, c)
    BY DEF Snapshots
  <2>1. Len(sent[i].state) \in Nat
    BY <1>1, EntryFields
  <2>2. /\ Len(sent[i].state) <= Len(cur)
        /\ \A p \in 1..Len(sent[i].state) : sent[i].state[p] = cur[p]
    BY DEF QueueOK, Snapshots, Agrees
  <2>3. \A p \in 1..Len(sent[i].state) : p \in 1..Len(cur)
    BY <1>1, <2>1, <2>2
  <2> QED BY <1>1, <1>2, <2>1, <2>2, <2>3 DEF Agrees
<1>5. Counted(sent, c, hist + 1, empties, shut)
  <2>1. (hist + 1) - Len(c) = hist - Len(cur)
    BY <1>1, <1>2
  <2> QED BY <2>1, Zenon DEF QueueOK, Counted
<1> QED BY <1>3, <1>4, <1>5 DEF QueueOK, c

-----------------------------------------------------------------------------

\* The invariant of the sender's own state.
SenderInv ==
    /\ history \in Seq(Event) /\ Len(history) <= MaxEvents
    /\ QueueOK(sentStates, currentState, Len(history), emptyAcks, shutdownInProgress)
    /\ assumedReceiverStateIdx \in 1..Len(sentStates)
    /\ shutdownInProgress \in BOOLEAN
    /\ shutdownTries \in 0..shutdownRetries
    /\ ~shutdownInProgress => shutdownTries = 0
    /\ emptyAcks \in 0..MaxEmptyAcks
    /\ quitLen \in -1..MaxEvents
    /\ \A m \in wire : /\ m.old \in 0..ShutdownNum /\ m.new \in 0..ShutdownNum
                       /\ m.throwaway \in 0..sentStates[1].num
                       /\ m.diff \in Seq(Event)

\* newSender (sender.go:81) establishes the invariant.
LEMMA SenderInitInv ==
  ASSUME SenderInit
  PROVE  SenderInv
<1> USE DEF SenderInit
<1>1. << >> \in Seq(Event) /\ Len(<< >>) = 0
  BY EmptySeq
<1> DEFINE e == [num |-> 0, state |-> << >>]
<1>2. e \in Entry /\ e.num = 0 /\ e.state = << >>
  BY <1>1 DEF Entry
<1>3. sentStates = <<e>>
  OBVIOUS
<1> HIDE DEF e
<1>4. sentStates \in Seq(Entry) /\ Len(sentStates) = 1 /\ sentStates[1] = e
  BY <1>2, <1>3
<1>5. Typed(sentStates, currentState)
  BY <1>1, <1>4, SenderAssumption DEF Typed
<1>6. Snapshots(sentStates, currentState) /\ Growing(sentStates) /\ Sorted(sentStates)
  BY <1>1, <1>2, <1>4 DEF Snapshots, Growing, Sorted, Agrees
<1>7. Counted(sentStates, currentState, Len(history), emptyAcks, shutdownInProgress)
  BY <1>1, <1>2, <1>4, SenderAssumption DEF Counted
<1>8. QueueOK(sentStates, currentState, Len(history), emptyAcks, shutdownInProgress)
  BY <1>1, <1>5, <1>6, <1>7 DEF QueueOK
<1>9. /\ 0 \in 0..shutdownRetries /\ 0 \in 0..MaxEmptyAcks /\ -1 \in -1..MaxEvents
      /\ 0 <= MaxEvents /\ 1 \in 1..1
  BY SenderAssumption
<1> QED BY <1>1, <1>4, <1>8, <1>9 DEF SenderInv

\* What the other lemmas need of SenderInv, in the form they need it.
LEMMA SenderBasics ==
  ASSUME SenderInv
  PROVE  /\ Len(history) \in Nat /\ emptyAcks \in Nat /\ shutdownInProgress \in BOOLEAN
         /\ sentStates \in Seq(Entry) /\ Len(sentStates) \in Nat /\ 1 \in 1..Len(sentStates)
         /\ sentStates[1].num \in 0..ShutdownNum
         /\ QueueOK(sentStates, currentState, Len(history), emptyAcks, shutdownInProgress)
<1>1. Len(history) \in Nat /\ emptyAcks \in Nat
  BY LenProperties, SenderAssumption DEF SenderInv
<1>2. sentStates \in Seq(Entry) /\ Len(sentStates) \in Nat /\ 1 \in 1..Len(sentStates)
  BY LenProperties, SenderAssumption DEF SenderInv, QueueOK, Typed
<1>3. sentStates[1].num \in Nat
  BY <1>2, EntryFields
<1>4. sentStates[1].num <= ShutdownNum
  BY <1>2 DEF SenderInv, QueueOK, Counted
<1> QED BY <1>1, <1>2, <1>3, <1>4, SenderAssumption DEF SenderInv

\* A step elsewhere preserves the invariant.
LEMMA SenderUnchanged ==
  ASSUME SenderInv, UNCHANGED senderVars
  PROVE  SenderInv'
BY DEF SenderInv, senderVars, QueueOK, Typed, Snapshots, Growing, Sorted, Counted

\* PushKeys and PushResize preserve the invariant and the front.
LEMMA PushInv ==
  ASSUME SenderInv, NEW e \in Event, Push(e)
  PROVE  SenderInv' /\ sentStates'[1] = sentStates[1]
<1>1. /\ history' \in Seq(Event) /\ Len(history') = Len(history) + 1 /\ Len(history') <= MaxEvents
  BY AppendProperties, LenProperties, SenderAssumption DEF SenderInv, Push
<1>2. QueueOK(sentStates, Append(currentState, e), Len(history) + 1, emptyAcks, shutdownInProgress)
  BY SenderBasics, PushKeepsQueue, Zenon
<1>3. QueueOK(sentStates, currentState, Len(history), emptyAcks, shutdownInProgress)'
  BY <1>1, <1>2 DEF Push
<1> QED BY <1>1, <1>3 DEF SenderInv, Push

\* WaitTime and an idle Tick preserve the invariant and the front.
LEMMA CalculateTimersInv ==
  ASSUME SenderInv, NEW k, CalculateTimers(k)
  PROVE  SenderInv' /\ sentStates'[1].num = sentStates[1].num
<1>1. /\ QueueOK(Rationalized(sentStates), RationalizedCurrent, Len(history), emptyAcks, shutdownInProgress)
      /\ Len(Rationalized(sentStates)) = Len(sentStates)
      /\ \A i \in 1..Len(sentStates) : Rationalized(sentStates)[i].num = sentStates[i].num
  BY SenderBasics, RationalizedFacts, Zenon
<1>2. sentStates'[1].num = sentStates[1].num /\ Len(sentStates') = Len(sentStates)
  BY <1>1, SenderBasics DEF CalculateTimers
<1>3. QueueOK(sentStates, currentState, Len(history), emptyAcks, shutdownInProgress)'
  BY <1>1 DEF CalculateTimers
<1> QED BY <1>2, <1>3 DEF SenderInv, CalculateTimers

\* StartShutdown preserves the invariant and the front.
LEMMA StartShutdownInv ==
  ASSUME SenderInv, StartShutdown
  PROVE  SenderInv' /\ sentStates'[1] = sentStates[1]
<1>1. QueueOK(sentStates, currentState, Len(history), emptyAcks, TRUE)
  BY SenderBasics DEF QueueOK, Counted
<1>2. QueueOK(sentStates, currentState, Len(history), emptyAcks, shutdownInProgress)'
  BY <1>1 DEF StartShutdown
<1>3. quitLen' \in -1..MaxEvents
  BY SenderBasics, SenderAssumption DEF SenderInv, StartShutdown
<1> QED BY <1>2, <1>3 DEF SenderInv, StartShutdown

\* ProcessAcknowledgmentThrough (sender.go:349) preserves the invariant; the
\* acknowledged state becomes the front.
LEMMA ProcessAckInv ==
  ASSUME SenderInv, NEW n, ProcessAcknowledgmentThrough(n)
  PROVE  /\ SenderInv' /\ sentStates'[1].num = n
         /\ \E k \in 1..Len(sentStates) : sentStates[k].num = n
<1> DEFINE k == Min(AckedIdx(n))
<1>1. AckedIdx(n) \in SUBSET Nat /\ AckedIdx(n) # {} /\ AckedIdx(n) \subseteq 1..Len(sentStates)
  BY SenderBasics DEF AckedIdx, ProcessAcknowledgmentThrough
<1>2. k \in AckedIdx(n)
  BY <1>1, MinNat
<1>3. k \in 1..Len(sentStates) /\ sentStates[k].num = n
  BY <1>2 DEF AckedIdx
<1>4. sentStates' = SubSeq(sentStates, k, Len(sentStates))
  BY DEF ProcessAcknowledgmentThrough
<1> HIDE DEF k
<1>5. /\ QueueOK(SubSeq(sentStates, k, Len(sentStates)), currentState, Len(history), emptyAcks,
                 shutdownInProgress)
      /\ SubSeq(sentStates, k, Len(sentStates))[1] = sentStates[k]
  <2>1. /\ Len(history) \in Nat /\ emptyAcks \in Nat /\ shutdownInProgress \in BOOLEAN
        /\ QueueOK(sentStates, currentState, Len(history), emptyAcks, shutdownInProgress)
    BY SenderBasics
  <2>2. k \in 1..Len(sentStates)
    BY <1>3
  <2> QED BY <2>1, <2>2, CutKeepsQueue
<1>6. sentStates'[1].num = n
  BY <1>3, <1>4, <1>5
<1>7. QueueOK(sentStates, currentState, Len(history), emptyAcks, shutdownInProgress)'
  BY <1>4, <1>5 DEF ProcessAcknowledgmentThrough
<1>8. 1 \in 1..Len(sentStates')
  BY <1>7, SenderAssumption DEF QueueOK, Typed
<1>9. sentStates[1].num <= n
  <2>1. CASE k = 1
    BY <2>1, <1>3, SenderBasics
  <2>2. CASE k # 1
    <3>1. 1 < k
      BY <2>2, <1>3, SenderBasics
    <3>2. \/ sentStates[1].num < sentStates[k].num
          \/ sentStates[1].num = ShutdownNum /\ sentStates[k].num = ShutdownNum
      BY <3>1, <1>3, SenderBasics DEF QueueOK, Sorted
    <3>3. sentStates[k].num \in Nat
      BY <1>3, SenderBasics, EntryFields
    <3> QED BY <3>2, <3>3, <1>3, SenderBasics, SenderAssumption
  <2> QED BY <2>1, <2>2
<1>10. n \in Nat
  BY <1>3, SenderBasics, EntryFields
<1>11. \A m \in wire : m.throwaway \in 0..sentStates[1].num => m.throwaway \in 0..n
  BY <1>9, <1>10, SenderBasics
<1>12. SenderInv'
  BY <1>6, <1>7, <1>8, <1>11 DEF SenderInv, ProcessAcknowledgmentThrough
<1> QED BY <1>3, <1>6, <1>12

\* Below the shutdown number, back.num + 1 does not wrap around.
LEMMA NextNumFacts ==
  ASSUME NEW n \in Nat, n < ShutdownNum
  PROVE  NextNum(n) = n + 1
<1>1. n + 1 \in 0..ShutdownNum /\ ShutdownNum + 1 \in Nat \ {0}
  BY SenderAssumption
<1> QED BY <1>1, SenderAssumption DEF NextNum

\* The newest number, in terms of what has been sent.
LEMMA LastFacts ==
  ASSUME NEW sent, NEW cur, NEW hist \in Nat, NEW empties \in Nat, NEW shut \in BOOLEAN,
         QueueOK(sent, cur, hist, empties, shut)
  PROVE  /\ Last(sent).num \in 0..ShutdownNum /\ Last(sent) = sent[Len(sent)]
         /\ ~shut => Last(sent).num <= empties + hist
         /\ ~shut /\ cur # Last(sent).state => Last(sent).num + 1 <= empties + hist
<1> DEFINE n == Len(sent)
           a == sent[n].num
           b == Len(sent[n].state)
           c == Len(cur)
<1>1. sent \in Seq(Entry) /\ n \in 1..Len(sent) /\ cur \in Seq(Event) /\ c \in Nat /\ c <= hist
  BY LenProperties DEF QueueOK, Typed
<1>2. a \in Nat /\ b \in Nat /\ sent[n].state \in Seq(Event)
  BY <1>1, EntryFields
<1>3. b <= c /\ \A p \in 1..b : sent[n].state[p] = cur[p]
  BY <1>1 DEF QueueOK, Snapshots, Agrees
<1>4. a <= ShutdownNum /\ (~shut => a <= empties + (hist - c) + b)
  BY <1>1 DEF QueueOK, Counted
<1>5. Last(sent) = sent[n]
  BY DEF Last
<1>6. cur # sent[n].state => b < c
  <2> SUFFICES ASSUME ~(b < c) PROVE cur = sent[n].state
    OBVIOUS
  <2>1. b = c
    BY <1>1, <1>2, <1>3
  <2> QED BY <1>1, <1>2, <1>3, <2>1, SeqEqual
<1> HIDE DEF a, b, c
<1>7. a <= empties + (hist - c) + b => a <= empties + hist
  BY <1>1, <1>2, <1>3
<1>8. a <= empties + (hist - c) + b /\ b < c => a + 1 <= empties + hist
  BY <1>1, <1>2, <1>3
<1>9. a \in 0..ShutdownNum
  BY <1>2, <1>4, SenderAssumption
<1> QED BY <1>4, <1>5, <1>6, <1>7, <1>8, <1>9, Zenon DEF a

\* One more message, of the queue before or after this step.
LEMMA WireGrows ==
  ASSUME SenderInv, NEW sent, NEW k, NEW num \in 0..ShutdownNum, NEW diff \in Seq(Event),
         sent[k].num \in 0..ShutdownNum, sent[1].num = sentStates[1].num,
         wire' = wire \cup {Instruction(sent, k, num, diff)}
  PROVE  \A m \in wire' : /\ m.old \in 0..ShutdownNum /\ m.new \in 0..ShutdownNum
                          /\ m.throwaway \in 0..sentStates[1].num
                          /\ m.diff \in Seq(Event)
<1> DEFINE i == Instruction(sent, k, num, diff)
<1>1. i.old = sent[k].num /\ i.new = num /\ i.throwaway = sent[1].num /\ i.diff = diff
  BY DEF Instruction
<1>2. sentStates[1].num \in 0..sentStates[1].num
  BY SenderBasics, SenderAssumption
<1> HIDE DEF i
<1>3. \A m \in wire' : m \in wire \/ m = i
  BY DEF i
<1> QED BY <1>1, <1>2, <1>3 DEF SenderInv

\* The rationalized queue of this step, as the two sends need it.
LEMMA SentFacts ==
  ASSUME SenderInv, NEW k \in 1..Len(sentStates)
  PROVE  LET sent == Rationalized(sentStates)
         IN  /\ QueueOK(sent, RationalizedCurrent, Len(history), emptyAcks, shutdownInProgress)
             /\ Len(sent) = Len(sentStates) /\ sent[1].num = sentStates[1].num
             /\ sent \in Seq(Entry) /\ sent[k].num \in 0..ShutdownNum
             /\ sent[k].state \in Seq(Event) /\ RationalizedCurrent \in Seq(Event)
<1> DEFINE sent == Rationalized(sentStates)
<1>1. /\ QueueOK(sent, RationalizedCurrent, Len(history), emptyAcks, shutdownInProgress)
      /\ Len(sent) = Len(sentStates)
      /\ \A i \in 1..Len(sentStates) : sent[i].num = sentStates[i].num
  BY SenderBasics, RationalizedFacts, Zenon
<1> HIDE DEF sent
<1>2. sent \in Seq(Entry) /\ RationalizedCurrent \in Seq(Event)
  BY <1>1 DEF QueueOK, Typed
<1>3. sent[1].num = sentStates[1].num
  BY <1>1, SenderBasics
<1>4. sent[k].num \in Nat /\ sent[k].state \in Seq(Event)
  BY <1>1, <1>2, EntryFields
<1>5. sent[k].num <= ShutdownNum
  BY <1>1 DEF QueueOK, Counted
<1>6. sent[k].num \in 0..ShutdownNum
  BY <1>4, <1>5, SenderAssumption
<1> QED BY <1>1, <1>2, <1>3, <1>4, <1>6 DEF sent

\* An attempt at the shutdown state is counted, and only during a shutdown.
LEMMA CountTryFacts ==
  ASSUME SenderInv, ~ShutdownAckTimedOut, NEW num, CountTry(num),
         shutdownInProgress \/ num # ShutdownNum
  PROVE  shutdownTries' \in 0..shutdownRetries /\ (~shutdownInProgress => shutdownTries' = 0)
BY SenderAssumption DEF SenderInv, ShutdownAckTimedOut, CountTry

\* sendEmptyAck (sender.go:240) preserves the invariant and the front, whether
\* or not the network takes the datagram.
LEMMA SendEmptyAckInv ==
  ASSUME SenderInv, ~ShutdownAckTimedOut, NEW k, NEW ok, SendEmptyAck(k, ok)
  PROVE  SenderInv' /\ sentStates'[1].num = sentStates[1].num
<1> DEFINE sent == Rationalized(sentStates)
           cur  == RationalizedCurrent
           num  == EmptyAckNum(sent)
<1>1. k \in 1..Len(sentStates)
  BY DEF SendEmptyAck
<1>2. /\ QueueOK(sent, cur, Len(history), emptyAcks, shutdownInProgress)
      /\ Len(sent) = Len(sentStates) /\ sent[1].num = sentStates[1].num
      /\ sent \in Seq(Entry) /\ sent[k].num \in 0..ShutdownNum
  BY <1>1, SentFacts
<1>3. /\ currentState' = cur /\ CountTry(num)
      /\ emptyAcks < MaxEmptyAcks \/ shutdownInProgress
      /\ UNCHANGED <<shutdownInProgress, history, quitLen>>
      /\ \/ /\ wire' = wire \cup {Instruction(sent, k, num, << >>)}
            /\ sentStates' = AddSentState(sent, [num |-> num, state |-> cur])
            /\ assumedReceiverStateIdx' = AssumedAfterAdd(k, Len(sent))
            /\ emptyAcks' = IF shutdownInProgress THEN emptyAcks ELSE emptyAcks + 1
         \/ /\ sentStates' = sent /\ assumedReceiverStateIdx' = k
            /\ UNCHANGED <<wire, emptyAcks>>
  BY DEF SendEmptyAck
<1>4. /\ num \in 0..ShutdownNum /\ num \in Nat
      /\ sent[Len(sent)].num < num \/ num = ShutdownNum
      /\ shutdownInProgress \/ num # ShutdownNum
      /\ ~shutdownInProgress => num <= (emptyAcks + 1) + Len(history)
  <2>1. /\ Last(sent).num \in 0..ShutdownNum /\ Last(sent) = sent[Len(sent)]
        /\ ~shutdownInProgress => Last(sent).num <= emptyAcks + Len(history)
    BY <1>2, SenderBasics, LastFacts
  <2>2. CASE shutdownInProgress
    BY <2>1, <2>2, SenderAssumption DEF EmptyAckNum
  <2>3. CASE ~shutdownInProgress
    <3> DEFINE l == Last(sent).num
    <3>1. l \in Nat /\ l + 1 <= (emptyAcks + 1) + Len(history) /\ l + 1 < ShutdownNum
      BY <2>1, <2>3, <1>3, SenderBasics, SenderAssumption DEF SenderInv
    <3>2. num = l + 1
      BY <2>3, <3>1, NextNumFacts, SenderAssumption DEF EmptyAckNum
    <3> HIDE DEF l, num
    <3> QED BY <2>1, <2>3, <3>1, <3>2, SenderAssumption DEF l
  <2> QED BY <2>2, <2>3
<1> HIDE DEF num
<1>5. shutdownTries' \in 0..shutdownRetries /\ (~shutdownInProgress' => shutdownTries' = 0)
  BY <1>3, <1>4, CountTryFacts
<1>6. CASE /\ wire' = wire \cup {Instruction(sent, k, num, << >>)}
           /\ sentStates' = AddSentState(sent, [num |-> num, state |-> cur])
           /\ assumedReceiverStateIdx' = AssumedAfterAdd(k, Len(sent))
           /\ emptyAcks' = IF shutdownInProgress THEN emptyAcks ELSE emptyAcks + 1
  <2>1. emptyAcks' \in 0..MaxEmptyAcks /\ emptyAcks' \in Nat /\ emptyAcks <= emptyAcks'
    BY <1>3, <1>6, SenderBasics, SenderAssumption DEF SenderInv
  <2>2. ~shutdownInProgress => num <= emptyAcks' + Len(history)
    BY <1>4, <1>6
  <2> HIDE DEF sent, cur
  <2>3. /\ QueueOK(sentStates', cur, Len(history), emptyAcks', shutdownInProgress)
        /\ sentStates'[1] = sent[1] /\ Len(sentStates') \in Len(sent)..MaxSentStates
    <3>1. num <= ShutdownNum
      BY <1>4, SenderAssumption
    <3>2. /\ Len(history) \in Nat /\ emptyAcks \in Nat /\ shutdownInProgress \in BOOLEAN
      BY SenderBasics
    <3>3. sentStates' = AddSentState(sent, [num |-> num, state |-> cur])
      BY <1>6
    <3> QED BY <1>2, <1>4, <2>1, <2>2, <3>1, <3>2, <3>3, AddKeepsQueue
  <2>4. assumedReceiverStateIdx' \in 1..Len(sentStates')
    BY <1>1, <1>2, <1>6, <2>3, SenderBasics, SenderAssumption DEF AssumedAfterAdd
  <2>5. \A m \in wire' : /\ m.old \in 0..ShutdownNum /\ m.new \in 0..ShutdownNum
                         /\ m.throwaway \in 0..sentStates[1].num
                         /\ m.diff \in Seq(Event)
    BY <1>2, <1>4, <1>6, WireGrows, EmptySeq
  <2>6. sentStates'[1].num = sentStates[1].num
    BY <1>2, <2>3
  <2>7. QueueOK(sentStates, currentState, Len(history), emptyAcks, shutdownInProgress)'
    BY <1>3, <2>3
  <2> QED BY <1>3, <1>5, <2>1, <2>4, <2>5, <2>6, <2>7 DEF SenderInv
<1>7. CASE sentStates' = sent /\ assumedReceiverStateIdx' = k /\ UNCHANGED <<wire, emptyAcks>>
  <2>1. QueueOK(sentStates, currentState, Len(history), emptyAcks, shutdownInProgress)'
    BY <1>2, <1>3, <1>7
  <2>2. sentStates'[1].num = sentStates[1].num /\ assumedReceiverStateIdx' \in 1..Len(sentStates')
    BY <1>1, <1>2, <1>7
  <2> HIDE DEF sent, cur
  <2> QED BY <1>3, <1>5, <1>7, <2>1, <2>2 DEF SenderInv
<1> QED BY <1>3, <1>6, <1>7

\* sendToReceiver (sender.go:278) preserves the invariant and the front, whether
\* it mints a number, repeats one, or fails.
LEMMA SendToReceiverInv ==
  ASSUME SenderInv, ~ShutdownAckTimedOut, NEW k, NEW ok, SendToReceiver(k, ok)
  PROVE  SenderInv' /\ sentStates'[1].num = sentStates[1].num
<1> DEFINE sent == Rationalized(sentStates)
           cur  == RationalizedCurrent
           diff == Suffix(cur, sent[k].state)
           num  == NewNum(sent, cur)
<1>1. k \in 1..Len(sentStates)
  BY DEF SendToReceiver
<1>2. /\ QueueOK(sent, cur, Len(history), emptyAcks, shutdownInProgress)
      /\ Len(sent) = Len(sentStates) /\ sent[1].num = sentStates[1].num
      /\ sent \in Seq(Entry) /\ sent[k].num \in 0..ShutdownNum
      /\ diff \in Seq(Event)
  BY <1>1, SentFacts, SuffixType
<1>3. /\ currentState' = cur /\ CountTry(num)
      /\ UNCHANGED <<shutdownInProgress, history, emptyAcks, quitLen>>
      /\ \/ /\ wire' = wire \cup {Instruction(sent, k, num, diff)}
            /\ sentStates' = IF num = Last(sent).num THEN sent
                             ELSE AddSentState(sent, [num |-> num, state |-> cur])
            /\ assumedReceiverStateIdx' = Len(sentStates')
         \/ /\ sentStates' = sent /\ assumedReceiverStateIdx' = k
            /\ UNCHANGED wire
  BY DEF SendToReceiver
<1>4. /\ num \in 0..ShutdownNum /\ num \in Nat
      /\ num = Last(sent).num \/ sent[Len(sent)].num < num \/ num = ShutdownNum
      /\ shutdownInProgress \/ num # ShutdownNum
      /\ ~shutdownInProgress => num <= emptyAcks + Len(history)
  <2>1. /\ Last(sent).num \in 0..ShutdownNum /\ Last(sent) = sent[Len(sent)]
        /\ ~shutdownInProgress => Last(sent).num <= emptyAcks + Len(history)
        /\ ~shutdownInProgress /\ cur # Last(sent).state
              => Last(sent).num + 1 <= emptyAcks + Len(history)
    BY <1>2, SenderBasics, LastFacts
  <2>2. emptyAcks + Len(history) < ShutdownNum
    BY SenderBasics, SenderAssumption DEF SenderInv
  <2>3. CASE shutdownInProgress
    BY <2>1, <2>3, SenderAssumption DEF NewNum
  <2>4. CASE ~shutdownInProgress /\ cur = Last(sent).state
    <3>1. num = Last(sent).num
      BY <2>4 DEF NewNum
    <3> HIDE DEF num, sent, cur
    <3> QED BY <2>1, <2>2, <2>4, <3>1, SenderBasics, SenderAssumption
  <2>5. CASE ~shutdownInProgress /\ cur # Last(sent).state
    <3> DEFINE l == Last(sent).num
    <3>1. l \in Nat /\ l + 1 <= emptyAcks + Len(history) /\ l + 1 < ShutdownNum
      BY <2>1, <2>2, <2>5, SenderBasics, SenderAssumption
    <3>2. num = l + 1
      <4>1. num = NextNum(l)
        BY <2>5 DEF NewNum
      <4> HIDE DEF num, l
      <4> QED BY <3>1, <4>1, NextNumFacts, SenderAssumption
    <3> HIDE DEF l, num
    <3> QED BY <2>1, <2>5, <3>1, <3>2, SenderAssumption DEF l
  <2> QED BY <2>3, <2>4, <2>5
<1> HIDE DEF num, diff
<1>5. shutdownTries' \in 0..shutdownRetries /\ (~shutdownInProgress' => shutdownTries' = 0)
  BY <1>3, <1>4, CountTryFacts
<1> HIDE DEF sent, cur
<1>6. CASE /\ wire' = wire \cup {Instruction(sent, k, num, diff)}
           /\ sentStates' = IF num = Last(sent).num THEN sent
                            ELSE AddSentState(sent, [num |-> num, state |-> cur])
           /\ assumedReceiverStateIdx' = Len(sentStates')
  <2>1. /\ Len(history) \in Nat /\ emptyAcks \in Nat /\ shutdownInProgress \in BOOLEAN
        /\ num <= ShutdownNum /\ emptyAcks <= emptyAcks
    BY <1>4, SenderBasics, SenderAssumption
  <2>2. /\ QueueOK(sentStates', cur, Len(history), emptyAcks, shutdownInProgress)
        /\ sentStates'[1] = sent[1]
    <3>1. CASE num = Last(sent).num
      BY <3>1, <1>2, <1>6
    <3>2. CASE num # Last(sent).num
      <4>1. sentStates' = AddSentState(sent, [num |-> num, state |-> cur])
        BY <3>2, <1>6
      <4>2. sent[Len(sent)].num < num \/ num = ShutdownNum
        BY <3>2, <1>4
      <4>3. ~shutdownInProgress => num <= emptyAcks + Len(history)
        BY <1>4
      <4>4. QueueOK(sent, cur, Len(history), emptyAcks, shutdownInProgress) /\ num \in Nat
        BY <1>2, <1>4
      <4> DEFINE q == AddSentState(sent, [num |-> num, state |-> cur])
      <4>5. QueueOK(q, cur, Len(history), emptyAcks, shutdownInProgress) /\ q[1] = sent[1]
        BY <2>1, <4>2, <4>3, <4>4, AddKeepsQueue
      <4> QED BY <4>1, <4>5
    <3> QED BY <3>1, <3>2
  <2>3. assumedReceiverStateIdx' \in 1..Len(sentStates')
    BY <1>6, <2>2, SenderAssumption DEF QueueOK, Typed
  <2>4. \A m \in wire' : /\ m.old \in 0..ShutdownNum /\ m.new \in 0..ShutdownNum
                         /\ m.throwaway \in 0..sentStates[1].num
                         /\ m.diff \in Seq(Event)
    BY <1>2, <1>4, <1>6, WireGrows
  <2>5. sentStates'[1].num = sentStates[1].num
    BY <1>2, <2>2
  <2>6. QueueOK(sentStates, currentState, Len(history), emptyAcks, shutdownInProgress)'
    BY <1>3, <2>2
  <2> QED BY <1>3, <1>5, <2>3, <2>4, <2>5, <2>6 DEF SenderInv
<1>7. CASE sentStates' = sent /\ assumedReceiverStateIdx' = k /\ UNCHANGED wire
  <2>1. QueueOK(sentStates, currentState, Len(history), emptyAcks, shutdownInProgress)'
    BY <1>2, <1>3, <1>7
  <2>2. sentStates'[1].num = sentStates[1].num /\ assumedReceiverStateIdx' \in 1..Len(sentStates')
    BY <1>1, <1>2, <1>7
  <2> QED BY <1>3, <1>5, <1>7, <2>1, <2>2 DEF SenderInv
<1> QED BY <1>3, <1>6, <1>7

-----------------------------------------------------------------------------
(***************************************************************************)
(* What the numbers of the sender stand for: the queue and every           *)
(* instruction ever handed to the network mean the same by a number.       *)
(*                                                                         *)
(* The model has no variable that says how much of the history a number    *)
(* covers, because the code has none: rationalizeStates cuts the snapshots *)
(* and ProcessAcknowledgmentThrough drops them.  So the invariant says     *)
(* that SOME table of lengths L explains all of them at once, and the      *)
(* lemmas say that every operation keeps the table or extends it by the    *)
(* number it mints.  The shutdown number is not in the table: it is used   *)
(* again while the user can still type.                                    *)
(***************************************************************************)

\* How many events of the history a sent state covers, the subtracted included.
Covers(hist, cur, e) == Len(hist) - Len(cur) + Len(e.state)

\* How many events a receiver has that applied the instruction m.
Reach(L, m) == L[m.old] + Len(m.diff)

\* s is the first n events of the history.
First(s, hist, n) == Len(s) = n /\ n <= Len(hist) /\ \A p \in 1..n : s[p] = hist[p]

\* The table gives each number minted so far a length, later numbers no less.
Table(L, t, hist) ==
    /\ t \in Nat /\ t < ShutdownNum /\ L \in [0..t -> 0..Len(hist)]
    /\ \A a, b \in 0..t : a <= b => L[a] <= L[b]

\* What is left of the current state are the newest events of the history.
CurrentIsTail(hist, cur) ==
    Len(cur) <= Len(hist) /\ \A p \in 1..Len(cur) : cur[p] = hist[Len(hist) - Len(cur) + p]

\* The queue agrees with the table.
QueueExplained(L, t, hist, sent, cur) ==
    \A i \in 1..Len(sent) : sent[i].num # ShutdownNum =>
        sent[i].num <= t /\ L[sent[i].num] = Covers(hist, cur, sent[i])

\* A diff is the piece of the history between the lengths of its two numbers.
WireExplained(L, t, hist, msgs) ==
    \A m \in msgs : m.old # ShutdownNum =>
        /\ m.old \in 0..t /\ Len(m.diff) \in Nat /\ Reach(L, m) <= Len(hist)
        /\ \A p \in 1..Len(m.diff) : m.diff[p] = hist[L[m.old] + p]
        /\ m.new # ShutdownNum => m.new \in 0..t /\ Reach(L, m) = L[m.new]

\* An instruction that announces the shutdown is sent during one, leaves its
\* number at the back of the queue, and takes a receiver at least as far as the
\* quit, as every numbered state, and as every entry recorded under that number.
QuitExplained(L, t, hist, sent, cur, msgs, shut, quit) ==
    \A m \in msgs :
        /\ m.old = ShutdownNum => m.new = ShutdownNum
        /\ m.new = ShutdownNum => shut /\ sent[Len(sent)].num = ShutdownNum
        /\ m.new = ShutdownNum /\ m.old # ShutdownNum =>
              /\ Reach(L, m) >= quit /\ Reach(L, m) >= L[t]
              /\ \A i \in 1..Len(sent) : sent[i].num = ShutdownNum =>
                     Covers(hist, cur, sent[i]) <= Reach(L, m)

\* The table explains the queue and the wire.
Content(L, t, hist, sent, cur, msgs, shut, quit) ==
    /\ Table(L, t, hist) /\ quit \in Int /\ quit <= Len(hist)
    /\ ~shut => t = sent[Len(sent)].num
    /\ CurrentIsTail(hist, cur)
    /\ QueueExplained(L, t, hist, sent, cur)
    /\ WireExplained(L, t, hist, msgs)
    /\ QuitExplained(L, t, hist, sent, cur, msgs, shut, quit)

\* L2 is L with later numbers added.
Extends(L, t, L2, t2) == t2 >= t /\ \A a \in 0..t : L2[a] = L[a]

-----------------------------------------------------------------------------
(* The operations, on arguments rather than on the variables *)

\* Typing an event (client.go:231) moves no length: the history and the current
\* state grow by the same event.
LEMMA PushContent ==
  ASSUME NEW hist \in Seq(Event), NEW sent, NEW cur \in Seq(Event), NEW msgs, NEW shut, NEW quit,
         NEW L, NEW t, Content(L, t, hist, sent, cur, msgs, shut, quit), NEW e \in Event
  PROVE  Content(L, t, Append(hist, e), sent, Append(cur, e), msgs, shut, quit)
<1> DEFINE h == Append(hist, e)
           c == Append(cur, e)
           n == Len(hist)
           l == Len(cur)
<1>1. /\ Len(h) = n + 1 /\ n \in Nat /\ h[n + 1] = e /\ \A p \in 1..n : h[p] = hist[p]
  BY AppendProperties, LenProperties
<1>2. /\ Len(c) = l + 1 /\ l \in Nat /\ c[l + 1] = e /\ \A p \in 1..l : c[p] = cur[p]
  BY AppendProperties, LenProperties
<1> HIDE DEF h, c
<1>3. Table(L, t, h) /\ quit \in Int /\ quit <= Len(h)
  <2>1. Table(L, t, hist) /\ quit \in Int /\ quit <= n
    BY DEF Content
  <2>2. 0..n \subseteq 0..n + 1
    BY <1>1
  <2> QED BY <1>1, <2>1, <2>2 DEF Table
<1>4. CurrentIsTail(h, c)
  <2>1. l <= n /\ \A p \in 1..l : cur[p] = hist[n - l + p]
    BY DEF Content, CurrentIsTail
  <2>2. ASSUME NEW p \in 1..l + 1 PROVE c[p] = h[(n + 1) - (l + 1) + p]
    <3>1. CASE p = l + 1
      BY <3>1, <1>1, <1>2, <2>1
    <3>2. CASE p # l + 1
      <4>1. p \in 1..l /\ n - l + p \in 1..n /\ (n + 1) - (l + 1) + p = n - l + p
        BY <3>2, <2>1, <1>1, <1>2
      <4> QED BY <4>1, <2>1, <1>1, <1>2
    <3> QED BY <3>1, <3>2
  <2> QED BY <1>1, <1>2, <2>1, <2>2 DEF CurrentIsTail
<1>5. \A x : Covers(h, c, x) = Covers(hist, cur, x)
  <2>1. (n + 1) - (l + 1) = n - l
    BY <1>1, <1>2
  <2> QED BY <1>1, <1>2, <2>1 DEF Covers
<1>6. QueueExplained(L, t, h, sent, c)
  BY <1>5 DEF Content, QueueExplained
<1>7. WireExplained(L, t, h, msgs)
  <2> SUFFICES ASSUME NEW m \in msgs, m.old # ShutdownNum
               PROVE  /\ m.old \in 0..t /\ Len(m.diff) \in Nat /\ Reach(L, m) <= Len(h)
                      /\ \A p \in 1..Len(m.diff) : m.diff[p] = h[L[m.old] + p]
                      /\ m.new # ShutdownNum => m.new \in 0..t /\ Reach(L, m) = L[m.new]
    BY DEF WireExplained
  <2> DEFINE a == L[m.old]
             d == Len(m.diff)
  <2>1. /\ m.old \in 0..t /\ d \in Nat /\ a + d <= n
        /\ \A p \in 1..d : m.diff[p] = hist[a + p]
        /\ m.new # ShutdownNum => m.new \in 0..t /\ Reach(L, m) = L[m.new]
    BY DEF Content, WireExplained, Reach
  <2>2. a \in Nat
    BY <2>1, <1>1 DEF Content, Table
  <2> HIDE DEF a, d
  <2>3. \A p \in 1..d : a + p \in 1..n
    BY <2>1, <2>2, <1>1
  <2>4. \A p \in 1..d : m.diff[p] = h[a + p]
    BY <2>1, <2>3, <1>1
  <2>5. a + d <= n + 1
    BY <2>1, <2>2, <1>1
  <2> QED BY <2>1, <2>4, <2>5, <1>1 DEF a, d, Reach
<1>8. QuitExplained(L, t, h, sent, c, msgs, shut, quit)
  BY <1>5 DEF Content, QuitExplained
<1> QED BY <1>3, <1>4, <1>6, <1>7, <1>8 DEF Content, h, c

\* Cutting the queue (sender.go:352) leaves lengths, wire and back as they are.
LEMMA CutContent ==
  ASSUME NEW hist, NEW sent \in Seq(Entry), NEW cur, NEW msgs, NEW shut, NEW quit,
         NEW L, NEW t, Content(L, t, hist, sent, cur, msgs, shut, quit), NEW k \in 1..Len(sent)
  PROVE  Content(L, t, hist, SubSeq(sent, k, Len(sent)), cur, msgs, shut, quit)
<1> DEFINE r == SubSeq(sent, k, Len(sent))
           n == Len(sent)
<1>1. n \in Nat /\ k \in Nat /\ 1 <= k /\ k <= n
  BY LenProperties
<1>2. Len(r) = n - k + 1 /\ \A i \in 1..n - k + 1 : r[i] = sent[k + i - 1]
  <2>1. 1 <= k /\ k <= n + 1 /\ n <= Len(sent) /\ k \in Nat /\ n \in Nat /\ sent \in Seq(Entry)
    BY <1>1
  <2> QED BY <2>1, SubSeqFacts
<1> HIDE DEF r
<1>3. \A i \in 1..Len(r) : k + i - 1 \in 1..n /\ r[i] = sent[k + i - 1]
  BY <1>1, <1>2
<1>4. r[Len(r)] = sent[n]
  <2>1. Len(r) \in 1..Len(r) /\ k + Len(r) - 1 = n
    BY <1>1, <1>2
  <2> QED BY <1>3, <2>1
<1> HIDE DEF n
<1>5. QueueExplained(L, t, hist, r, cur)
  <2> SUFFICES ASSUME NEW i \in 1..Len(r), r[i].num # ShutdownNum
               PROVE  r[i].num <= t /\ L[r[i].num] = Covers(hist, cur, r[i])
    BY DEF QueueExplained
  <2>1. PICK j \in 1..n : r[i] = sent[j]
    BY <1>3
  <2> QED BY <2>1 DEF Content, QueueExplained, n
<1>6. QuitExplained(L, t, hist, r, cur, msgs, shut, quit)
  <2>1. \A i \in 1..Len(r) : \E j \in 1..Len(sent) : r[i] = sent[j]
    BY <1>3 DEF n
  <2>2. r[Len(r)] = sent[Len(sent)]
    BY <1>4 DEF n
  <2>3. QuitExplained(L, t, hist, sent, cur, msgs, shut, quit)
    BY DEF Content
  <2> QED BY <2>1, <2>2, <2>3 DEF QuitExplained
<1> QED BY <1>4, <1>5, <1>6 DEF Content, r, n

\* rationalizeStates (sender.go:149) cuts as much from the current state as from
\* every snapshot, so no sent state covers more or less than before.
LEMMA RationalizedContent ==
  ASSUME NEW hist \in Seq(Event), NEW msgs, NEW shut \in BOOLEAN, NEW quit, NEW empties \in Nat,
         QueueOK(sentStates, currentState, Len(hist), empties, shut),
         NEW L, NEW t, Content(L, t, hist, sentStates, currentState, msgs, shut, quit)
  PROVE  Content(L, t, hist, Rationalized(sentStates), RationalizedCurrent, msgs, shut, quit)
<1> DEFINE sent == sentStates
           cur  == currentState
           f    == sent[1].state
           r    == Rationalized(sent)
           rc   == RationalizedCurrent
           n    == Len(hist)
           l    == Len(cur)
           g    == Len(f)
<1>1. /\ sent \in Seq(Entry) /\ Len(sent) \in Nat /\ 1 \in 1..Len(sent) /\ cur \in Seq(Event)
      /\ f \in Seq(Event) /\ g \in Nat /\ l \in Nat /\ g <= l /\ n \in Nat
  <2>1. sent \in Seq(Entry) /\ Len(sent) \in Nat /\ 1 \in 1..Len(sent) /\ cur \in Seq(Event)
    BY LenProperties DEF QueueOK, Typed
  <2>2. f \in Seq(Event) /\ g \in Nat
    BY <2>1, EntryFields
  <2>3. l \in Nat /\ n \in Nat
    BY <2>1, LenProperties
  <2>4. g <= l
    BY <2>1 DEF QueueOK, Snapshots, Agrees
  <2> QED BY <2>1, <2>2, <2>3, <2>4
<1>2. \A i \in 1..Len(sent) : /\ sent[i] \in Entry /\ sent[i].state \in Seq(Event)
                              /\ Len(sent[i].state) \in Nat /\ g <= Len(sent[i].state)
  BY <1>1, EntryFields DEF QueueOK, Growing
<1>3. \A i \in 1..Len(sent) : Len(Subtract(sent[i].state, f)) = Len(sent[i].state) - g
  BY <1>1, <1>2, SubtractFacts
<1>4. /\ Len(rc) = l - g /\ \A p \in 1..l - g : rc[p] = cur[g + p]
  BY <1>1, SubtractFacts DEF RationalizedCurrent
<1>5. Len(r) = Len(sent) /\ \A i \in 1..Len(sent) : r[i].num = sent[i].num
  <2>1. Len(hist) \in Nat
    BY <1>1
  <2> QED BY <2>1, RationalizedFacts
<1>6. \A i \in 1..Len(sent) : r[i].state = Subtract(sent[i].state, f)
  BY <1>2 DEF Rationalized, Entry
<1>7. \A i \in 1..Len(sent) : Len(r[i].state) = Len(sent[i].state) - g
  BY <1>3, <1>6
<1> HIDE DEF r, rc, f, g
<1>8. \A i \in 1..Len(sent) : Covers(hist, rc, r[i]) = Covers(hist, cur, sent[i])
  <2> SUFFICES ASSUME NEW i \in 1..Len(sent)
               PROVE  n - Len(rc) + Len(r[i].state) = n - l + Len(sent[i].state)
    BY DEF Covers
  <2> DEFINE x == Len(sent[i].state)
             y == Len(r[i].state)
             z == Len(rc)
  <2>1. x \in Nat /\ y = x - g /\ z = l - g /\ n \in Nat /\ l \in Nat /\ g \in Nat
    BY <1>1, <1>2, <1>4, <1>7
  <2> HIDE DEF x, y, z, n, l
  <2>2. n - z + y = n - l + x
    BY <2>1
  <2> QED BY <2>2 DEF x, y, z, n, l
<1>9. CurrentIsTail(hist, rc)
  <2>1. l <= n /\ \A p \in 1..l : cur[p] = hist[n - l + p]
    BY DEF Content, CurrentIsTail
  <2>2. Len(rc) <= n /\ n - Len(rc) = n - l + g
    BY <2>1, <1>1, <1>4
  <2>3. ASSUME NEW p \in 1..Len(rc) PROVE rc[p] = hist[n - Len(rc) + p]
    <3>1. p \in 1..l - g /\ g + p \in 1..l /\ n - l + (g + p) = n - Len(rc) + p
      BY <1>1, <1>4, <2>1
    <3>2. rc[p] = cur[g + p] /\ cur[g + p] = hist[n - l + (g + p)]
      BY <3>1, <1>4, <2>1
    <3> QED BY <3>1, <3>2
  <2> QED BY <2>2, <2>3 DEF CurrentIsTail
<1>10. QueueExplained(L, t, hist, r, rc)
  BY <1>5, <1>8 DEF Content, QueueExplained
<1>11. QuitExplained(L, t, hist, r, rc, msgs, shut, quit)
  <2>1. r[Len(r)].num = sent[Len(sent)].num
    BY <1>1, <1>5
  <2>2. QuitExplained(L, t, hist, sent, cur, msgs, shut, quit)
    BY DEF Content
  <2> QED BY <1>5, <1>8, <2>1, <2>2 DEF QuitExplained
<1>12. r[Len(r)].num = sent[Len(sent)].num
  BY <1>1, <1>5
<1> QED BY <1>9, <1>10, <1>11, <1>12 DEF Content, r, rc

\* How a send leaves the queue: with the announced number at the back, and with
\* no entry that was not there before, except the current state under that
\* number; and a second entry for the shutdown covers no more than the first.
QueueAfterSend(sent, cur, num, after) ==
    /\ Len(after) \in Nat \ {0} /\ after[Len(after)].num = num
    /\ \A j \in 1..Len(after) :
           \/ \E i \in 1..Len(sent) : after[j] = sent[i]
           \/ /\ after[j].num = num /\ Len(after[j].state) = Len(cur)
              /\ sent[Len(sent)].num = ShutdownNum => Len(sent[Len(sent)].state) = Len(cur)

\* Which number a send announces: the back's again, the next, or the shutdown's.
NumberOfSend(sent, cur, num, shut) ==
    \/ ~shut /\ num = sent[Len(sent)].num /\ Len(sent[Len(sent)].state) = Len(cur)
    \/ ~shut /\ num = sent[Len(sent)].num + 1 /\ num < ShutdownNum
    \/ shut /\ num = ShutdownNum

\* The diff from the k-th entry to the current state.
DiffOfSend(sent, cur, k, diff) ==
    /\ Len(diff) = Len(cur) - Len(sent[k].state)
    /\ \A p \in 1..Len(diff) : diff[p] = cur[Len(sent[k].state) + p]

\* A send of the k-th entry's diff in a queue and under a table that are sound.
IsSend(L, t, hist, sent, cur, msgs, shut, quit, empties, num, after, k, diff) ==
    /\ hist \in Seq(Event) /\ shut \in BOOLEAN /\ empties \in Nat /\ num \in Nat
    /\ QueueOK(sent, cur, Len(hist), empties, shut)
    /\ Content(L, t, hist, sent, cur, msgs, shut, quit)
    /\ NumberOfSend(sent, cur, num, shut)
    /\ QueueAfterSend(sent, cur, num, after)
    /\ k \in 1..Len(sent) /\ DiffOfSend(sent, cur, k, diff)

\* The table after a send: a fresh number gets the length of the history.
LEMMA TableAfterSend ==
  ASSUME NEW L, NEW t, NEW hist, NEW sent, NEW cur, NEW msgs, NEW shut, NEW quit, NEW empties,
         NEW num, NEW after, NEW k, NEW diff,
         IsSend(L, t, hist, sent, cur, msgs, shut, quit, empties, num, after, k, diff)
  PROVE  \E L2, t2 :
            /\ Extends(L, t, L2, t2) /\ Table(L2, t2, hist)
            /\ ~shut => t2 = num
            /\ shut => L2 = L /\ t2 = t
            /\ num # ShutdownNum => num <= t2 /\ L2[num] = Len(hist)
            /\ t2 # t => t2 = num /\ ~shut
<1> DEFINE n == Len(hist)
           b == sent[Len(sent)]
<1>0. /\ hist \in Seq(Event) /\ shut \in BOOLEAN /\ empties \in Nat /\ num \in Nat
      /\ QueueOK(sent, cur, Len(hist), empties, shut)
      /\ Content(L, t, hist, sent, cur, msgs, shut, quit)
      /\ NumberOfSend(sent, cur, num, shut)
  BY DEF IsSend
<1> USE <1>0
<1>1. /\ n \in Nat /\ t \in Nat /\ t < ShutdownNum /\ L \in [0..t -> 0..n] /\ ShutdownNum \in Nat
      /\ \A x, y \in 0..t : x <= y => L[x] <= L[y]
  BY LenProperties, SenderAssumption DEF Content, Table
<1>2. Len(cur) \in Nat /\ Len(sent) \in 1..Len(sent)
  BY LenProperties DEF QueueOK, Typed
<1>3. ~shut => t = b.num
  BY DEF Content
<1>4. CASE ~shut /\ num = b.num /\ Len(b.state) = Len(cur)
  <2>1. L[b.num] = n
    <3>1. t = b.num
      BY <1>3, <1>4
    <3>2. b.num # ShutdownNum
      BY <3>1, <1>1
    <3>3. L[b.num] = Covers(hist, cur, b)
      BY <1>2, <3>2 DEF Content, QueueExplained
    <3>4. Covers(hist, cur, b) = n
      BY <1>1, <1>2, <1>4 DEF Covers
    <3> QED BY <3>3, <3>4
  <2>2. Extends(L, t, L, t) /\ Table(L, t, hist)
    BY <1>1 DEF Extends, Content
  <2> QED BY <1>1, <1>3, <1>4, <2>1, <2>2
<1>5. CASE ~shut /\ num = b.num + 1 /\ num < ShutdownNum
  <2> DEFINE M == [a \in 0..t + 1 |-> IF a = t + 1 THEN n ELSE L[a]]
  <2>1. num = t + 1
    BY <1>3, <1>5
  <2>2. /\ M \in [0..t + 1 -> 0..n] /\ M[t + 1] = n /\ \A a \in 0..t : M[a] = L[a]
    BY <1>1
  <2> HIDE DEF M
  <2>3. ASSUME NEW x \in 0..t + 1, NEW y \in 0..t + 1, x <= y PROVE M[x] <= M[y]
    <3>1. CASE y = t + 1
      BY <3>1, <2>2, <1>1
    <3>2. CASE y # t + 1
      <4>1. x \in 0..t /\ y \in 0..t
        BY <3>2, <2>3, <1>1
      <4> QED BY <4>1, <2>2, <2>3, <1>1
    <3> QED BY <3>1, <3>2
  <2>4. Table(M, num, hist) /\ Extends(L, t, M, num)
    BY <1>1, <1>5, <2>1, <2>2, <2>3 DEF Table, Extends
  <2>5. M[num] = n /\ num <= num
    BY <2>1, <2>2, <1>1
  <2> QED BY <1>5, <2>4, <2>5
<1>6. CASE shut /\ num = ShutdownNum
  BY <1>1, <1>6 DEF Extends, Content
<1> QED BY <1>4, <1>5, <1>6 DEF NumberOfSend

\* A send (sender.go:240, 278) keeps the table or extends it by the number it
\* mints; the instruction takes its receiver to the end of the history.
LEMMA SendContent ==
  ASSUME NEW L, NEW t, NEW hist, NEW sent, NEW cur, NEW msgs, NEW shut, NEW quit, NEW empties,
         NEW num, NEW after, NEW k, NEW diff,
         IsSend(L, t, hist, sent, cur, msgs, shut, quit, empties, num, after, k, diff)
  PROVE  \E L2, t2 :
            /\ Extends(L, t, L2, t2)
            /\ Content(L2, t2, hist, after, cur, msgs \cup {Instruction(sent, k, num, diff)}, shut, quit)
<1> DEFINE n == Len(hist)
           l == Len(cur)
           b == sent[Len(sent)]
           I == Instruction(sent, k, num, diff)
           s == Len(sent[k].state)
           d == Len(diff)
<1>1. PICK L2, t2 : /\ Extends(L, t, L2, t2) /\ Table(L2, t2, hist)
                    /\ ~shut => t2 = num
                    /\ shut => L2 = L /\ t2 = t
                    /\ num # ShutdownNum => num <= t2 /\ L2[num] = Len(hist)
                    /\ t2 # t => t2 = num /\ ~shut
  BY TableAfterSend
<1>0. /\ hist \in Seq(Event) /\ shut \in BOOLEAN /\ empties \in Nat /\ num \in Nat
      /\ QueueOK(sent, cur, Len(hist), empties, shut)
      /\ Content(L, t, hist, sent, cur, msgs, shut, quit)
      /\ NumberOfSend(sent, cur, num, shut)
      /\ QueueAfterSend(sent, cur, num, after)
      /\ k \in 1..Len(sent) /\ DiffOfSend(sent, cur, k, diff)
  BY DEF IsSend
<1>2. /\ n \in Nat /\ t \in Nat /\ t < ShutdownNum /\ L \in [0..t -> 0..n] /\ ShutdownNum \in Nat
      /\ t2 \in Nat /\ t2 < ShutdownNum /\ L2 \in [0..t2 -> 0..n] /\ t2 >= t
      /\ \A a \in 0..t : L2[a] = L[a]
  BY <1>0, <1>1, LenProperties, SenderAssumption DEF Content, Table, Extends
<1>3. /\ l \in Nat /\ l <= n /\ Len(sent) \in 1..Len(sent) /\ s \in Nat /\ s <= l
      /\ \A i \in 1..Len(sent) : sent[i].num \in Nat /\ Len(sent[i].state) \in Nat
  BY <1>0, EntryFields, LenProperties DEF QueueOK, Typed, Snapshots, Agrees
<1>4. /\ I.old = sent[k].num /\ I.new = num /\ I.diff = diff
  BY DEF Instruction
<1>5. d = l - s /\ \A p \in 1..d : diff[p] = cur[s + p]
  BY <1>0 DEF DiffOfSend
<1> HIDE DEF I, n, l, s, d, b
<1>5a. d \in Nat
  BY <1>3, <1>5
<1>6. QueueExplained(L2, t2, hist, after, cur)
  <2> SUFFICES ASSUME NEW j \in 1..Len(after), after[j].num # ShutdownNum
               PROVE  after[j].num <= t2 /\ L2[after[j].num] = Covers(hist, cur, after[j])
    BY DEF QueueExplained
  <2>1. CASE \E i \in 1..Len(sent) : after[j] = sent[i]
    <3>1. PICK i \in 1..Len(sent) : after[j] = sent[i]
      BY <2>1
    <3>2. sent[i].num <= t /\ L[sent[i].num] = Covers(hist, cur, sent[i]) /\ sent[i].num \in Nat
      BY <1>0, <3>1, <1>3 DEF Content, QueueExplained
    <3>3. sent[i].num <= t2 /\ sent[i].num \in 0..t
      BY <3>2, <1>2
    <3> QED BY <3>1, <3>2, <3>3, <1>2
  <2>2. CASE after[j].num = num /\ Len(after[j].state) = l
    <3>1. Covers(hist, cur, after[j]) = n
      BY <2>2, <1>2, <1>3 DEF Covers, n, l
    <3> QED BY <3>1, <2>2, <1>1 DEF n
  <2> QED BY <1>0, <2>1, <2>2 DEF QueueAfterSend, l
<1>7. ASSUME I.old # ShutdownNum
      PROVE  /\ I.old \in 0..t /\ L2[I.old] = n - l + s /\ Reach(L2, I) = n
             /\ \A p \in 1..d : diff[p] = hist[L2[I.old] + p]
  <2>1. sent[k].num <= t /\ L[sent[k].num] = n - l + s /\ sent[k].num \in Nat
    BY <1>0, <1>4, <1>7, <1>3 DEF Content, QueueExplained, Covers, n, l, s
  <2>2. I.old \in 0..t /\ L2[I.old] = n - l + s
    BY <2>1, <1>2, <1>4
  <2>3. Reach(L2, I) = n
    BY <2>2, <1>2, <1>3, <1>4, <1>5, <1>5a DEF Reach, d
  <2>4. \A p \in 1..l : cur[p] = hist[n - l + p]
    BY <1>0 DEF Content, CurrentIsTail, n, l
  <2>5. ASSUME NEW p \in 1..d PROVE diff[p] = hist[L2[I.old] + p]
    <3>1. s + p \in 1..l /\ n - l + (s + p) = n - l + s + p
      BY <1>2, <1>3, <1>5, <1>5a
    <3> QED BY <3>1, <2>2, <2>4, <1>5, <1>5a
  <2> QED BY <2>2, <2>3, <2>5
<1>8. \A m \in msgs : m.old # ShutdownNum => m.old \in 0..t /\ Reach(L2, m) = Reach(L, m)
  BY <1>0, <1>2 DEF Content, WireExplained, Reach
<1>9. WireExplained(L2, t2, hist, msgs \cup {I})
  <2> SUFFICES ASSUME NEW m \in msgs \cup {I}, m.old # ShutdownNum
               PROVE  /\ m.old \in 0..t2 /\ Len(m.diff) \in Nat /\ Reach(L2, m) <= n
                      /\ \A p \in 1..Len(m.diff) : m.diff[p] = hist[L2[m.old] + p]
                      /\ m.new # ShutdownNum => m.new \in 0..t2 /\ Reach(L2, m) = L2[m.new]
    BY DEF WireExplained, n
  <2>1. CASE m \in msgs
    <3>1. /\ m.old \in 0..t /\ Len(m.diff) \in Nat /\ Reach(L, m) <= n
          /\ \A p \in 1..Len(m.diff) : m.diff[p] = hist[L[m.old] + p]
          /\ m.new # ShutdownNum => m.new \in 0..t /\ Reach(L, m) = L[m.new]
      BY <1>0, <2>1 DEF Content, WireExplained, n
    <3>2. m.old \in 0..t2 /\ (m.new \in 0..t => m.new \in 0..t2 /\ L2[m.new] = L[m.new])
      BY <3>1, <1>2
    <3>3. L2[m.old] = L[m.old] /\ Reach(L2, m) = Reach(L, m)
      BY <3>1, <1>2, <1>8, <2>1
    <3> QED BY <3>1, <3>2, <3>3
  <2>2. CASE m = I
    <3>1. I.old \in 0..t2
      BY <2>2, <1>7, <1>2
    <3>2. num # ShutdownNum => num \in 0..t2 /\ L2[num] = n
      BY <1>1, <1>2 DEF n
    <3> QED BY <2>2, <3>1, <3>2, <1>2, <1>4, <1>5, <1>5a, <1>7 DEF d
  <2> QED BY <2>1, <2>2
<1>10. QuitExplained(L2, t2, hist, after, cur, msgs \cup {I}, shut, quit)
  <2>1. ASSUME NEW m \in msgs
        PROVE  /\ m.old = ShutdownNum => m.new = ShutdownNum
               /\ m.new = ShutdownNum => shut /\ after[Len(after)].num = ShutdownNum
               /\ m.new = ShutdownNum /\ m.old # ShutdownNum =>
                     /\ Reach(L2, m) >= quit /\ Reach(L2, m) >= L2[t2]
                     /\ \A j \in 1..Len(after) : after[j].num = ShutdownNum =>
                            Covers(hist, cur, after[j]) <= Reach(L2, m)
    <3>1. /\ m.old = ShutdownNum => m.new = ShutdownNum
          /\ m.new = ShutdownNum => shut /\ sent[Len(sent)].num = ShutdownNum
          /\ m.new = ShutdownNum /\ m.old # ShutdownNum =>
                /\ Reach(L, m) >= quit /\ Reach(L, m) >= L[t]
                /\ \A i \in 1..Len(sent) : sent[i].num = ShutdownNum =>
                       Covers(hist, cur, sent[i]) <= Reach(L, m)
      BY <1>0, <2>1 DEF Content, QuitExplained
    <3>2. shut => num = ShutdownNum
      BY <1>0 DEF NumberOfSend
    <3>3. m.new = ShutdownNum => after[Len(after)].num = ShutdownNum
      BY <1>0, <3>1, <3>2 DEF QueueAfterSend
    <3>4. ASSUME m.new = ShutdownNum, m.old # ShutdownNum
          PROVE  /\ Reach(L2, m) >= quit /\ Reach(L2, m) >= L2[t2]
                 /\ \A j \in 1..Len(after) : after[j].num = ShutdownNum =>
                        Covers(hist, cur, after[j]) <= Reach(L2, m)
      <4>1. L2 = L /\ t2 = t
        BY <3>1, <3>4, <1>1
      <4>2. ASSUME NEW j \in 1..Len(after), after[j].num = ShutdownNum
            PROVE  Covers(hist, cur, after[j]) <= Reach(L, m)
        <5>1. CASE \E i \in 1..Len(sent) : after[j] = sent[i]
          BY <5>1, <4>2, <3>1, <3>4
        <5>2. CASE Len(after[j].state) = Len(cur) /\ (b.num = ShutdownNum => Len(b.state) = Len(cur))
          <6>1. Covers(hist, cur, after[j]) = Covers(hist, cur, b)
            BY <5>2, <3>1, <3>4 DEF Covers, b
          <6> QED BY <6>1, <3>1, <3>4, <1>3 DEF b
        <5> QED BY <1>0, <5>1, <5>2 DEF QueueAfterSend, b
      <4> QED BY <4>1, <4>2, <3>1, <3>4
    <3> QED BY <3>1, <3>3, <3>4
  <2>2. /\ I.old = ShutdownNum => I.new = ShutdownNum
        /\ I.new = ShutdownNum => shut /\ after[Len(after)].num = ShutdownNum
    <3>1. ~shut => num < ShutdownNum /\ t = b.num
      <4>1. ~shut => t = b.num
        BY <1>0 DEF Content, b
      <4> QED BY <1>0, <4>1, <1>2 DEF NumberOfSend, b
    <3>2. ~shut => sent[k].num # ShutdownNum
      <4> SUFFICES ASSUME ~shut, sent[k].num = ShutdownNum PROVE FALSE
        OBVIOUS
      <4>1. b.num < ShutdownNum
        BY <3>1, <1>2
      <4>2. k = Len(sent) \/ k < Len(sent)
        BY <1>0, <1>3
      <4>3. Sorted(sent)
        BY <1>0 DEF QueueOK
      <4>4. CASE k = Len(sent)
        BY <4>1, <4>4, <1>2 DEF b
      <4>5. CASE k < Len(sent)
        <5>1. \/ sent[k].num < sent[Len(sent)].num
              \/ sent[k].num = ShutdownNum /\ sent[Len(sent)].num = ShutdownNum
          BY <1>0, <4>3, <4>5, <1>3 DEF Sorted
        <5>2. sent[Len(sent)].num \in Nat
          BY <1>3
        <5> QED BY <5>1, <5>2, <4>1, <1>2 DEF b
      <4> QED BY <4>2, <4>4, <4>5
    <3>3. shut => num = ShutdownNum
      BY <1>0 DEF NumberOfSend
    <3> QED BY <1>0, <3>1, <3>2, <3>3, <1>2, <1>4 DEF QueueAfterSend
  <2>3. ASSUME I.new = ShutdownNum, I.old # ShutdownNum
        PROVE  /\ Reach(L2, I) >= quit /\ Reach(L2, I) >= L2[t2]
               /\ \A j \in 1..Len(after) : after[j].num = ShutdownNum =>
                      Covers(hist, cur, after[j]) <= Reach(L2, I)
    <3>1. Reach(L2, I) = n
      BY <2>3, <1>7
    <3>2. quit \in Int /\ quit <= n /\ L2[t2] \in 0..n
      BY <1>0, <1>2 DEF Content, n
    <3>3. ASSUME NEW j \in 1..Len(after) PROVE Covers(hist, cur, after[j]) <= n
      <4>1. CASE \E i \in 1..Len(sent) : after[j] = sent[i]
        <5>1. PICK i \in 1..Len(sent) : after[j] = sent[i]
          BY <4>1
        <5>2. Len(sent[i].state) \in Nat /\ Len(sent[i].state) <= l
          BY <1>0, <1>3 DEF QueueOK, Snapshots, Agrees, l
        <5> QED BY <5>1, <5>2, <1>2, <1>3 DEF Covers, n, l
      <4>2. CASE Len(after[j].state) = l
        BY <4>2, <1>2, <1>3 DEF Covers, n, l
      <4> QED BY <1>0, <4>1, <4>2 DEF QueueAfterSend, l
    <3> QED BY <3>1, <3>2, <3>3, <1>2
  <2> QED BY <2>1, <2>2, <2>3 DEF QuitExplained
<1>11. Content(L2, t2, hist, after, cur, msgs \cup {I}, shut, quit)
  <2>1. ~shut => t2 = after[Len(after)].num
    BY <1>0, <1>1 DEF QueueAfterSend
  <2>2. CurrentIsTail(hist, cur) /\ quit \in Int /\ quit <= Len(hist)
    BY <1>0 DEF Content
  <2> QED BY <1>0, <1>1, <1>6, <1>9, <1>10, <2>1, <2>2 DEF Content
<1> QED BY <1>1, <1>11 DEF I

-----------------------------------------------------------------------------
(* The operations, on the variables *)

\* The table explains the sender's state.
Explains(L, t) ==
    Content(L, t, history, sentStates, currentState, wire, shutdownInProgress, quitLen)

\* A step of the sender that loses no meaning: the table is kept or extended,
\* nothing leaves the wire, and the history only grows.
Carried(L, t) ==
    /\ \E L2, t2 : Extends(L, t, L2, t2) /\ Explains(L2, t2)'
    /\ wire \subseteq wire'
    /\ Len(history) <= Len(history') /\ \A p \in 1..Len(history) : history'[p] = history[p]

\* The diff DiffFrom sends (userstream.go:64), event by event.
LEMMA SuffixFacts ==
  ASSUME NEW u \in Seq(Event), NEW f \in Seq(Event), Len(f) <= Len(u)
  PROVE  /\ Len(Suffix(u, f)) = Len(u) - Len(f)
         /\ \A p \in 1..Len(u) - Len(f) : Suffix(u, f)[p] = u[Len(f) + p]
<1>1. Len(f) \in Nat /\ Len(u) \in Nat
  BY LenProperties
<1>2. CASE Len(f) = Len(u)
  <2>1. Suffix(u, f) = << >> /\ Len(u) - Len(f) = 0
    BY <1>1, <1>2 DEF Suffix
  <2> QED BY <2>1, EmptySeq
<1>3. CASE Len(f) < Len(u)
  <2> DEFINE d == SubSeq(u, Len(f) + 1, Len(u))
  <2>1. Suffix(u, f) = d
    BY <1>1, <1>3 DEF Suffix
  <2>2. /\ Len(d) = Len(u) - (Len(f) + 1) + 1
        /\ \A p \in 1..Len(u) - (Len(f) + 1) + 1 : d[p] = u[Len(f) + 1 + p - 1]
    BY <1>1, <1>3, SubSeqFacts
  <2> HIDE DEF d
  <2>3. Len(d) = Len(u) - Len(f) /\ \A p \in 1..Len(u) - Len(f) : d[p] = u[Len(f) + p]
    BY <1>1, <2>2
  <2> QED BY <2>1, <2>3
<1> QED BY <1>1, <1>2, <1>3

\* The queue after addSentState (sender.go:261) of the current state.
LEMMA AddIsSend ==
  ASSUME NEW sent, NEW cur, NEW hist \in Nat, NEW empties \in Nat, NEW shut \in BOOLEAN,
         QueueOK(sent, cur, hist, empties, shut), NEW num \in Nat,
         sent[Len(sent)].num = ShutdownNum => Len(sent[Len(sent)].state) = Len(cur)
  PROVE  QueueAfterSend(sent, cur, num, AddSentState(sent, [num |-> num, state |-> cur]))
<1> DEFINE e == [num |-> num, state |-> cur]
           q == AddSentState(sent, e)
<1>1. /\ sent \in Seq(Entry) /\ Len(sent) \in 1..MaxSentStates /\ Len(sent) \in Nat
      /\ e \in Entry /\ e.num = num /\ e.state = cur
  BY LenProperties DEF QueueOK, Typed, Entry
<1> HIDE DEF e
<1>2. /\ q \in Seq(Entry) /\ Len(q) \in Len(sent)..MaxSentStates
      /\ q[Len(q)] = e
      /\ \A i \in 1..Len(q) - 1 : /\ Origin(Len(sent), i) \in 1..Len(sent)
                                  /\ q[i] = sent[Origin(Len(sent), i)]
  BY <1>1, AddSentStateFacts
<1> HIDE DEF q
<1>3. Len(q) \in Nat \ {0}
  BY <1>1, <1>2, LenProperties
<1>4. \A j \in 1..Len(q) : j \in 1..Len(q) - 1 \/ j = Len(q)
  BY <1>3
<1>5. QueueAfterSend(sent, cur, num, q)
  BY <1>1, <1>2, <1>3, <1>4 DEF QueueAfterSend
<1> QED BY <1>5 DEF q, e

\* A fresh sender (sender.go:81): number 0 is the empty stream.
LEMMA InitContent ==
  ASSUME SenderInit
  PROVE  Explains([a \in 0..0 |-> 0], 0)
<1> DEFINE L == [a \in 0..0 |-> 0]
<1>1. /\ currentState = << >> /\ history = << >> /\ wire = {} /\ quitLen = -1
      /\ sentStates = <<[num |-> 0, state |-> << >>]>> /\ shutdownInProgress = FALSE
  BY DEF SenderInit
<1>2. Len(<< >>) = 0 /\ Len(sentStates) = 1 /\ sentStates[1].num = 0 /\ sentStates[1].state = << >>
  BY <1>1, EmptySeq
<1>3. L[0] = 0 /\ L \in [0..0 -> 0..0] /\ \A a \in 0..0 : a = 0
  OBVIOUS
<1> HIDE DEF L
<1>4. Table(L, 0, history)
  BY <1>1, <1>2, <1>3, SenderAssumption DEF Table
<1>5. CurrentIsTail(history, currentState)
  BY <1>1, <1>2 DEF CurrentIsTail
<1>6. QueueExplained(L, 0, history, sentStates, currentState)
  BY <1>1, <1>2, <1>3 DEF QueueExplained, Covers
<1>7. /\ WireExplained(L, 0, history, wire)
      /\ QuitExplained(L, 0, history, sentStates, currentState, wire, shutdownInProgress, quitLen)
  BY <1>1 DEF WireExplained, QuitExplained
<1>8. quitLen \in Int /\ quitLen <= Len(history) /\ sentStates[Len(sentStates)].num = 0
  BY <1>1, <1>2
<1>9. Explains(L, 0)
  BY <1>4, <1>5, <1>6, <1>7, <1>8 DEF Explains, Content
<1> QED BY <1>9 DEF L

\* Push, a Tick with nothing due, an acknowledgment and the start of a shutdown
\* keep the table.
LEMMA QuietContent ==
  ASSUME SenderInv, NEW L, NEW t, Explains(L, t),
         \/ \E e \in Event : Push(e)
         \/ \E k : CalculateTimers(k)
         \/ \E n : ProcessAcknowledgmentThrough(n)
         \/ StartShutdown
         \/ UNCHANGED senderVars
  PROVE  Carried(L, t)
<1> USE DEF Explains
<1>1. /\ history \in Seq(Event) /\ currentState \in Seq(Event) /\ Len(history) \in Nat
      /\ sentStates \in Seq(Entry) /\ emptyAcks \in Nat /\ shutdownInProgress \in BOOLEAN
      /\ QueueOK(sentStates, currentState, Len(history), emptyAcks, shutdownInProgress)
  BY SenderBasics DEF SenderInv, QueueOK, Typed
<1>2. t \in Nat
  BY DEF Content, Table
<1>3. Extends(L, t, L, t)
  BY <1>2 DEF Extends
<1>4. ASSUME Explains(L, t)', wire' = wire, history' = history
      PROVE  Carried(L, t)
  BY <1>1, <1>3, <1>4 DEF Carried
<1>5. ASSUME NEW e \in Event, Push(e) PROVE Carried(L, t)
  <2>1. /\ history' = Append(history, e) /\ currentState' = Append(currentState, e)
        /\ UNCHANGED <<sentStates, wire, shutdownInProgress, quitLen>>
    BY <1>5 DEF Push
  <2>2. Content(L, t, Append(history, e), sentStates, Append(currentState, e), wire,
                shutdownInProgress, quitLen)
    BY <1>1, PushContent
  <2>3. Explains(L, t)'
    BY <2>1, <2>2
  <2>4. Len(history) <= Len(history') /\ \A p \in 1..Len(history) : history'[p] = history[p]
    BY <1>1, <2>1, AppendProperties
  <2> QED BY <1>3, <2>1, <2>3, <2>4 DEF Carried
<1>6. ASSUME NEW k, CalculateTimers(k) PROVE Carried(L, t)
  <2>1. Content(L, t, history, Rationalized(sentStates), RationalizedCurrent, wire,
                shutdownInProgress, quitLen)
    BY <1>1, RationalizedContent
  <2>2. Explains(L, t)' /\ wire' = wire /\ history' = history
    BY <1>6, <2>1 DEF CalculateTimers
  <2> QED BY <1>4, <2>2
<1>7. ASSUME NEW n, ProcessAcknowledgmentThrough(n) PROVE Carried(L, t)
  <2>1. AckedIdx(n) \in SUBSET Nat /\ AckedIdx(n) # {} /\ AckedIdx(n) \subseteq 1..Len(sentStates)
    BY <1>7, SenderBasics DEF ProcessAcknowledgmentThrough, AckedIdx
  <2> DEFINE k == Min(AckedIdx(n))
  <2>2. k \in 1..Len(sentStates)
    BY <2>1, MinNat
  <2> HIDE DEF k
  <2>3. Content(L, t, history, SubSeq(sentStates, k, Len(sentStates)), currentState, wire,
                shutdownInProgress, quitLen)
    BY <1>1, <2>2, CutContent
  <2>4. Explains(L, t)' /\ wire' = wire /\ history' = history
    BY <1>7, <2>3 DEF ProcessAcknowledgmentThrough, k
  <2> QED BY <1>4, <2>4
<1>8. CASE StartShutdown
  <2>1. /\ ~shutdownInProgress /\ shutdownInProgress' = TRUE /\ quitLen' = Len(history)
        /\ UNCHANGED <<currentState, sentStates, wire, history>>
    BY <1>8 DEF StartShutdown
  <2>2. \A m \in wire : m.new # ShutdownNum /\ m.old # ShutdownNum
    BY <2>1 DEF Content, QuitExplained
  <2>3. QuitExplained(L, t, history, sentStates, currentState, wire, TRUE, Len(history))
    BY <2>2 DEF QuitExplained
  <2>4. Content(L, t, history, sentStates, currentState, wire, TRUE, Len(history))
    <3>1. /\ Table(L, t, history) /\ CurrentIsTail(history, currentState)
          /\ QueueExplained(L, t, history, sentStates, currentState)
          /\ WireExplained(L, t, history, wire)
      BY DEF Content
    <3>2. Len(history) \in Int /\ Len(history) <= Len(history)
      BY <1>1
    <3> QED BY <2>3, <3>1, <3>2, Zenon DEF Content
  <2>5. Explains(L, t)'
    BY <2>1, <2>4
  <2> QED BY <1>4, <2>1, <2>5
<1>9. CASE UNCHANGED senderVars
  <2>1. UNCHANGED <<currentState, sentStates, wire, history, shutdownInProgress, quitLen>>
    BY <1>9 DEF senderVars
  <2> QED BY <1>4, <2>1
<1> QED BY <1>5, <1>6, <1>7, <1>8, <1>9

\* A Tick that sends, whichever number it announces, keeps the table or extends
\* it; one whose datagram the network refuses leaves queue and wire alone.
LEMMA SendEmptyAckContent ==
  ASSUME SenderInv, NEW L, NEW t, Explains(L, t), NEW k, NEW ok, SendEmptyAck(k, ok)
  PROVE  Carried(L, t)
<1> DEFINE sent == Rationalized(sentStates)
           cur  == RationalizedCurrent
           num  == EmptyAckNum(sent)
<1>1. k \in 1..Len(sentStates)
  BY DEF SendEmptyAck
<1>2. /\ QueueOK(sent, cur, Len(history), emptyAcks, shutdownInProgress)
      /\ Len(sent) = Len(sentStates)
      /\ sent \in Seq(Entry) /\ sent[k].state \in Seq(Event) /\ cur \in Seq(Event)
  BY <1>1, SentFacts
<1>3. /\ history \in Seq(Event) /\ Len(history) \in Nat /\ emptyAcks \in Nat
      /\ shutdownInProgress \in BOOLEAN /\ k \in 1..Len(sent)
  BY <1>1, <1>2, SenderBasics DEF SenderInv
<1>4. Content(L, t, history, sent, cur, wire, shutdownInProgress, quitLen)
  BY <1>3, SenderBasics, RationalizedContent DEF Explains
<1>5. /\ currentState' = cur /\ Suffix(cur, sent[k].state) = << >>
      /\ emptyAcks < MaxEmptyAcks \/ shutdownInProgress
      /\ UNCHANGED <<shutdownInProgress, history, quitLen>>
      /\ \/ /\ wire' = wire \cup {Instruction(sent, k, num, << >>)}
            /\ sentStates' = AddSentState(sent, [num |-> num, state |-> cur])
         \/ sentStates' = sent /\ wire' = wire
  BY DEF SendEmptyAck, NothingToSend
<1>6. num \in Nat /\ NumberOfSend(sent, cur, num, shutdownInProgress)
  <2>1. /\ Last(sent).num \in 0..ShutdownNum /\ Last(sent) = sent[Len(sent)]
        /\ ~shutdownInProgress => Last(sent).num <= emptyAcks + Len(history)
    BY <1>2, <1>3, LastFacts
  <2>2. CASE shutdownInProgress
    BY <2>1, <2>2, SenderAssumption DEF EmptyAckNum, NumberOfSend
  <2>3. CASE ~shutdownInProgress
    <3> DEFINE l == Last(sent).num
    <3>1. l \in Nat /\ l + 1 < ShutdownNum
      BY <2>1, <2>3, <1>3, <1>5, SenderAssumption DEF SenderInv
    <3>2. num = l + 1
      BY <2>3, <3>1, NextNumFacts, SenderAssumption DEF EmptyAckNum
    <3> HIDE DEF l, num
    <3> QED BY <2>1, <2>3, <3>1, <3>2 DEF l, NumberOfSend
  <2> QED BY <2>2, <2>3
<1> HIDE DEF num
<1>7. Len(sent[k].state) = Len(cur) /\ DiffOfSend(sent, cur, k, << >>)
  <2>1. Len(sent[k].state) \in Nat /\ Len(cur) \in Nat /\ Len(sent[k].state) <= Len(cur)
    BY <1>2, <1>3, LenProperties DEF QueueOK, Snapshots, Agrees
  <2> HIDE DEF sent, cur
  <2>2. Len(Suffix(cur, sent[k].state)) = Len(cur) - Len(sent[k].state)
    BY <1>2, <2>1, SuffixFacts
  <2>3. Len(<< >>) = 0
    BY EmptySeq
  <2>4. Len(cur) - Len(sent[k].state) = 0 /\ Len(sent[k].state) = Len(cur)
    BY <1>5, <2>1, <2>2, <2>3
  <2> QED BY <2>3, <2>4 DEF DiffOfSend
<1> HIDE DEF sent, cur
<1>8. Len(sent[Len(sent)].state) = Len(cur)
  <2>1. Len(sent) \in 1..Len(sent) /\ k <= Len(sent) /\ Len(cur) \in Nat
    BY <1>2, <1>3, LenProperties DEF QueueOK, Typed
  <2>2. Len(sent[Len(sent)].state) \in Nat
    BY <1>2, <2>1, EntryFields
  <2>3. Len(sent[k].state) <= Len(sent[Len(sent)].state) /\ Len(sent[Len(sent)].state) <= Len(cur)
    BY <1>2, <1>3, <2>1 DEF QueueOK, Growing, Snapshots, Agrees
  <2> QED BY <1>7, <2>1, <2>2, <2>3
<1>9. t \in Nat /\ Extends(L, t, L, t)
  BY DEF Explains, Content, Table, Extends
<1>10. Len(history) <= Len(history') /\ \A p \in 1..Len(history) : history'[p] = history[p]
  BY <1>3, <1>5
<1>11. CASE /\ wire' = wire \cup {Instruction(sent, k, num, << >>)}
            /\ sentStates' = AddSentState(sent, [num |-> num, state |-> cur])
  <2>1. QueueAfterSend(sent, cur, num, sentStates')
    BY <1>2, <1>3, <1>6, <1>8, <1>11, AddIsSend
  <2>2. \E L2, t2 : /\ Extends(L, t, L2, t2)
                    /\ Content(L2, t2, history, sentStates', cur, wire', shutdownInProgress, quitLen)
    <3> DEFINE after == sentStates'
    <3>1. IsSend(L, t, history, sent, cur, wire, shutdownInProgress, quitLen, emptyAcks, num, after,
                 k, << >>)
      BY <1>2, <1>3, <1>4, <1>6, <1>7, <2>1 DEF IsSend
    <3> HIDE DEF after
    <3>2. \E L2, t2 :
             /\ Extends(L, t, L2, t2)
             /\ Content(L2, t2, history, after, cur, wire \cup {Instruction(sent, k, num, << >>)},
                        shutdownInProgress, quitLen)
      BY <3>1, SendContent
    <3> QED BY <1>11, <3>2 DEF after
  <2>3. \E L2, t2 : Extends(L, t, L2, t2) /\ Explains(L2, t2)'
    BY <1>5, <2>2 DEF Explains
  <2> QED BY <1>10, <1>11, <2>3 DEF Carried
<1>12. CASE sentStates' = sent /\ wire' = wire
  <2>1. Explains(L, t)'
    BY <1>4, <1>5, <1>12 DEF Explains
  <2> QED BY <1>9, <1>10, <1>12, <2>1 DEF Carried
<1> QED BY <1>5, <1>11, <1>12

\* A diff to the current state: what it covers is the whole history
\* (sendToReceiver), under a number of its own or that of a retransmission.
LEMMA SendToReceiverContent ==
  ASSUME SenderInv, NEW L, NEW t, Explains(L, t), NEW k, NEW ok, SendToReceiver(k, ok)
  PROVE  Carried(L, t)
<1> DEFINE sent == Rationalized(sentStates)
           cur  == RationalizedCurrent
           diff == Suffix(cur, sent[k].state)
           num  == NewNum(sent, cur)
<1>1. k \in 1..Len(sentStates)
  BY DEF SendToReceiver
<1>2. /\ QueueOK(sent, cur, Len(history), emptyAcks, shutdownInProgress)
      /\ Len(sent) = Len(sentStates)
      /\ sent \in Seq(Entry) /\ sent[k].state \in Seq(Event) /\ cur \in Seq(Event)
  BY <1>1, SentFacts
<1>3. /\ history \in Seq(Event) /\ Len(history) \in Nat /\ emptyAcks \in Nat
      /\ shutdownInProgress \in BOOLEAN /\ k \in 1..Len(sent)
  BY <1>1, <1>2, SenderBasics DEF SenderInv
<1>4. Content(L, t, history, sent, cur, wire, shutdownInProgress, quitLen)
  BY <1>3, SenderBasics, RationalizedContent DEF Explains
<1>5. /\ currentState' = cur
      /\ UNCHANGED <<shutdownInProgress, history, quitLen>>
      /\ \/ /\ wire' = wire \cup {Instruction(sent, k, num, diff)}
            /\ sentStates' = IF num = Last(sent).num THEN sent
                             ELSE AddSentState(sent, [num |-> num, state |-> cur])
         \/ sentStates' = sent /\ wire' = wire
  BY DEF SendToReceiver
<1>6. /\ Last(sent) = sent[Len(sent)] /\ num \in Nat
      /\ NumberOfSend(sent, cur, num, shutdownInProgress)
      /\ sent[Len(sent)].num = ShutdownNum => num = ShutdownNum
  <2>1. /\ Last(sent).num \in 0..ShutdownNum /\ Last(sent) = sent[Len(sent)]
        /\ ~shutdownInProgress => Last(sent).num <= emptyAcks + Len(history)
        /\ ~shutdownInProgress /\ cur # Last(sent).state
              => Last(sent).num + 1 <= emptyAcks + Len(history)
    BY <1>2, <1>3, LastFacts
  <2>2. emptyAcks + Len(history) < ShutdownNum
    BY <1>3, SenderAssumption DEF SenderInv
  <2>3. CASE shutdownInProgress
    BY <2>1, <2>3, SenderAssumption DEF NewNum, NumberOfSend
  <2>4. CASE ~shutdownInProgress /\ cur = Last(sent).state
    <3>1. num = Last(sent).num
      BY <2>4 DEF NewNum
    <3> HIDE DEF num, sent, cur
    <3> QED BY <2>1, <2>4, <3>1, SenderAssumption DEF NumberOfSend
  <2>5. CASE ~shutdownInProgress /\ cur # Last(sent).state
    <3> DEFINE l == Last(sent).num
    <3>1. l \in Nat /\ l + 1 < ShutdownNum
      BY <2>1, <2>2, <2>5, <1>3, SenderAssumption
    <3>2. num = l + 1
      <4>1. num = NextNum(l)
        BY <2>5 DEF NewNum
      <4> HIDE DEF num, l
      <4> QED BY <3>1, <4>1, NextNumFacts, SenderAssumption
    <3> HIDE DEF l, num, sent, cur
    <3> QED BY <2>1, <2>5, <3>1, <3>2, SenderAssumption DEF l, NumberOfSend
  <2> QED BY <2>3, <2>4, <2>5
<1> HIDE DEF num
<1>7. DiffOfSend(sent, cur, k, diff)
  <2>1. Len(sent[k].state) <= Len(cur)
    BY <1>2, <1>3 DEF QueueOK, Snapshots, Agrees
  <2> HIDE DEF sent, cur
  <2>2. /\ Len(diff) = Len(cur) - Len(sent[k].state)
        /\ \A p \in 1..Len(cur) - Len(sent[k].state) : diff[p] = cur[Len(sent[k].state) + p]
    BY <1>2, <2>1, SuffixFacts
  <2> HIDE DEF diff
  <2> QED BY <2>2 DEF DiffOfSend
<1> HIDE DEF sent, cur, diff
<1>8. t \in Nat /\ Extends(L, t, L, t)
  BY DEF Explains, Content, Table, Extends
<1>9. Len(history) <= Len(history') /\ \A p \in 1..Len(history) : history'[p] = history[p]
  BY <1>3, <1>5
<1>10. CASE /\ wire' = wire \cup {Instruction(sent, k, num, diff)}
            /\ sentStates' = IF num = Last(sent).num THEN sent
                             ELSE AddSentState(sent, [num |-> num, state |-> cur])
  <2>1. QueueAfterSend(sent, cur, num, sentStates')
    <3>1. CASE num = Last(sent).num
      <4>1. sentStates' = sent /\ sent[Len(sent)].num = num
        BY <3>1, <1>6, <1>10
      <4>2. Len(sent) \in Nat \ {0}
        BY <1>2, <1>3, LenProperties
      <4> QED BY <4>1, <4>2 DEF QueueAfterSend
    <3>2. CASE num # Last(sent).num
      <4>1. sent[Len(sent)].num # ShutdownNum
        BY <3>2, <1>6
      <4>2. QueueAfterSend(sent, cur, num, AddSentState(sent, [num |-> num, state |-> cur]))
        BY <4>1, <1>2, <1>3, <1>6, AddIsSend
      <4> QED BY <3>2, <4>2, <1>10
    <3> QED BY <3>1, <3>2
  <2>2. \E L2, t2 : /\ Extends(L, t, L2, t2)
                    /\ Content(L2, t2, history, sentStates', cur, wire', shutdownInProgress, quitLen)
    <3> DEFINE after == sentStates'
    <3>1. IsSend(L, t, history, sent, cur, wire, shutdownInProgress, quitLen, emptyAcks, num, after,
                 k, diff)
      BY <1>2, <1>3, <1>4, <1>6, <1>7, <2>1 DEF IsSend
    <3> HIDE DEF after
    <3>2. \E L2, t2 :
             /\ Extends(L, t, L2, t2)
             /\ Content(L2, t2, history, after, cur, wire \cup {Instruction(sent, k, num, diff)},
                        shutdownInProgress, quitLen)
      BY <3>1, SendContent
    <3> QED BY <1>10, <3>2 DEF after
  <2>3. \E L2, t2 : Extends(L, t, L2, t2) /\ Explains(L2, t2)'
    BY <1>5, <2>2 DEF Explains
  <2> QED BY <1>9, <1>10, <2>3 DEF Carried
<1>11. CASE sentStates' = sent /\ wire' = wire
  <2>1. Explains(L, t)'
    BY <1>4, <1>5, <1>11 DEF Explains
  <2> QED BY <1>8, <1>9, <1>11, <2>1 DEF Carried
<1> QED BY <1>5, <1>10, <1>11

-----------------------------------------------------------------------------
(* What a receiver of the instructions has *)

\* The stream s is what number n stands for: under the table, or, for the
\* shutdown number, as far as some instruction announcing it reaches.
Means(L, t, hist, msgs, n, s) ==
    /\ n # ShutdownNum => n \in 0..t /\ First(s, hist, L[n])
    /\ n = ShutdownNum =>
          \E m \in msgs : /\ m.new = ShutdownNum /\ m.old # ShutdownNum
                          /\ First(s, hist, Reach(L, m))

\* A stream that is the beginning of another is its SubSeq.
LEMMA FirstIsSubSeq ==
  ASSUME NEW s \in Seq(Event), NEW h \in Seq(Event), NEW n, First(s, h, n)
  PROVE  s = SubSeq(h, 1, n) /\ n \in 0..Len(h) /\ Len(s) = n
<1>1. n \in Nat /\ n <= Len(h) /\ Len(h) \in Nat /\ Len(s) = n
  BY LenProperties DEF First
<1> DEFINE r == SubSeq(h, 1, n)
<1>2. r \in Seq(Event) /\ Len(r) = n - 1 + 1 /\ \A i \in 1..n - 1 + 1 : r[i] = h[1 + i - 1]
  <2>1. 1 \in Nat /\ 1 <= 1 /\ 1 <= n + 1
    BY <1>1
  <2> QED BY <1>1, <2>1, SubSeqFacts
<1> HIDE DEF r
<1>3. Len(r) = n /\ \A i \in 1..n : r[i] = h[i]
  BY <1>1, <1>2
<1>4. Len(s) = Len(r) /\ \A i \in 1..Len(s) : s[i] = r[i]
  BY <1>1, <1>3 DEF First
<1>5. s = r
  BY <1>2, <1>4, SeqEqual
<1> QED BY <1>1, <1>5 DEF r

\* A step of the sender takes nothing from what a receiver's states mean.
LEMMA MeaningCarried ==
  ASSUME NEW L, NEW t, Explains(L, t), Carried(L, t),
         history \in Seq(Event), history' \in Seq(Event)
  PROVE  \E L2, t2 : /\ Explains(L2, t2)'
                     /\ \A n, s : Means(L, t, history, wire, n, s) => Means(L2, t2, history', wire', n, s)
<1>1. PICK L2, t2 : Extends(L, t, L2, t2) /\ Explains(L2, t2)'
  BY DEF Carried
<1>2. /\ wire \subseteq wire' /\ Len(history) \in Nat /\ Len(history') \in Nat
      /\ Len(history) <= Len(history') /\ \A p \in 1..Len(history) : history'[p] = history[p]
  BY LenProperties DEF Carried
<1>3. t \in Nat /\ t2 \in Nat /\ t <= t2 /\ \A a \in 0..t : L2[a] = L[a]
  BY <1>1 DEF Extends, Explains, Content, Table
<1>4. ASSUME NEW s, NEW n \in Nat, First(s, history, n) PROVE First(s, history', n)
  BY <1>2, <1>4 DEF First
<1>5. \A a \in 0..t : L[a] \in Nat
  BY <1>2 DEF Explains, Content, Table
<1>6. ASSUME NEW n, NEW s, Means(L, t, history, wire, n, s)
      PROVE  Means(L2, t2, history', wire', n, s)
  <2>1. CASE n # ShutdownNum
    <3>1. n \in 0..t /\ First(s, history, L[n])
      BY <1>6, <2>1 DEF Means
    <3>2. n \in 0..t2 /\ L2[n] = L[n] /\ L[n] \in Nat
      BY <3>1, <1>3, <1>5
    <3> QED BY <2>1, <3>1, <3>2, <1>4 DEF Means
  <2>2. CASE n = ShutdownNum
    <3>1. PICK m \in wire : /\ m.new = ShutdownNum /\ m.old # ShutdownNum
                            /\ First(s, history, Reach(L, m))
      BY <1>6, <2>2 DEF Means
    <3>2. m.old \in 0..t /\ Len(m.diff) \in Nat
      BY <3>1 DEF Explains, Content, WireExplained
    <3>3. Reach(L2, m) = Reach(L, m) /\ Reach(L, m) \in Nat
      BY <3>2, <1>3, <1>5 DEF Reach
    <3> QED BY <2>2, <3>1, <3>3, <1>2, <1>4 DEF Means
  <2> QED BY <2>1, <2>2
<1> QED BY <1>1, <1>6

\* Applying a diff to the state it is from gives the state it is to
\* (transport.go:84, sender.go:301): nothing is missing or doubled at the seam.
LEMMA ApplyDiff ==
  ASSUME NEW L, NEW t, Explains(L, t), NEW m \in wire, m.old # ShutdownNum, m.diff \in Seq(Event),
         history \in Seq(Event), NEW s \in Seq(Event), Means(L, t, history, wire, m.old, s)
  PROVE  /\ Means(L, t, history, wire, m.new, s \o m.diff)
         /\ First(s \o m.diff, history, Reach(L, m)) /\ Len(s) <= Reach(L, m)
<1> DEFINE a == L[m.old]
           d == Len(m.diff)
           r == s \o m.diff
<1>1. m.old \in 0..t /\ First(s, history, a)
  BY DEF Means
<1>2. Len(history) \in Nat
  BY LenProperties
<1>3. /\ d \in Nat /\ a + d <= Len(history) /\ \A p \in 1..d : m.diff[p] = history[a + p]
      /\ m.new # ShutdownNum => m.new \in 0..t /\ a + d = L[m.new]
  BY DEF Explains, Content, WireExplained, Reach
<1>4. Len(s) = a /\ a \in Nat /\ \A p \in 1..a : s[p] = history[p]
  BY <1>1, LenProperties DEF First
<1>5. Len(r) = Len(s) + d /\ \A i \in 1..Len(s) + d : r[i] = IF i <= Len(s) THEN s[i] ELSE m.diff[i - Len(s)]
  BY ConcatProperties
<1> HIDE DEF a, d, r
<1>6. ASSUME NEW p \in 1..a + d PROVE r[p] = history[p]
  <2>1. CASE p <= a
    BY <2>1, <1>3, <1>4, <1>5
  <2>2. CASE ~(p <= a)
    <3>1. p - a \in 1..d /\ a + (p - a) = p
      BY <2>2, <1>3, <1>4
    <3>2. r[p] = m.diff[p - a]
      BY <2>2, <1>3, <1>4, <1>5
    <3> QED BY <3>1, <3>2, <1>3
  <2> QED BY <2>1, <2>2
<1>7. First(r, history, a + d)
  BY <1>3, <1>4, <1>5, <1>6 DEF First
<1>8. Len(s) <= a + d
  BY <1>3, <1>4
<1>9. Reach(L, m) = a + d
  BY DEF Reach, a, d
<1>10. Means(L, t, history, wire, m.new, r)
  <2>1. CASE m.new # ShutdownNum
    BY <2>1, <1>3, <1>7 DEF Means
  <2>2. CASE m.new = ShutdownNum
    BY <2>2, <1>7, <1>9 DEF Means
  <2> QED BY <2>1, <2>2
<1> QED BY <1>7, <1>8, <1>9, <1>10 DEF r

=============================================================================
