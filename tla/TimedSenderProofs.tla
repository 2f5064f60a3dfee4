-------------------------- MODULE TimedSenderProofs --------------------------
(***************************************************************************)
(* The timing promises of TimedSender, proved for every choice of the      *)
(* intervals, with one relation between them: the keepalive period is not  *)
(* shorter than the send interval (3 s against at most 250 ms).            *)
(*                                                                         *)
(* The loop sleeps until wakeAt, so each promise becomes a bound on wakeAt *)
(* that GoToSleep establishes and nothing disturbs while the loop sleeps.  *)
(* The bound follows from the timers, and these from when the newest state *)
(* was sent: the invariant relates that time to the last attempt and to    *)
(* when the oldest untransmitted event and the oldest unacknowledged data  *)
(* came.                                                                   *)
(***************************************************************************)
EXTENDS TimedSender, Foundations, SequenceTheorems, TLAPS

-----------------------------------------------------------------------------
(* Two-element extrema *)

\* The later of two times (sender.go:171-174).
LEMMA MaxPair ==
  ASSUME NEW a \in Int, NEW b \in Int
  PROVE  /\ Max({a, b}) \in {a, b} /\ Max({a, b}) >= a /\ Max({a, b}) >= b
<1>1. \E x \in {a, b} : \A y \in {a, b} : x >= y
  <2>1. CASE a >= b
    BY <2>1
  <2>2. CASE b >= a
    BY <2>2
  <2> QED BY <2>1, <2>2
<1> QED BY <1>1 DEF Max

\* The earlier of two times.
LEMMA MinPair ==
  ASSUME NEW a \in Int, NEW b \in Int
  PROVE  /\ Min({a, b}) \in {a, b} /\ Min({a, b}) <= a /\ Min({a, b}) <= b
<1>1. \E x \in {a, b} : \A y \in {a, b} : x <= y
  <2>1. CASE a <= b
    BY <2>1
  <2>2. CASE b <= a
    BY <2>2
  <2> QED BY <2>1, <2>2
<1> QED BY <1>1 DEF Min

\* What the intervals are.
LEMMA Intervals ==
  /\ sendInterval \in Nat /\ sendInterval >= 1 /\ sendMindelay \in Nat
  /\ ackDelay \in Nat /\ ackDelay >= 1 /\ ackInterval \in Nat /\ ackInterval >= sendInterval
  /\ Timeout \in Nat /\ Timeout >= 1 /\ LoopMax \in Nat /\ LoopMax >= 1
<1> DEFINE Positive == Nat \ {0}
<1>1. /\ sendInterval \in Positive /\ ackDelay \in Positive /\ ackInterval \in Positive
      /\ Timeout \in Positive /\ LoopMax \in Positive
      /\ sendInterval <= ackInterval /\ sendMindelay \in Nat
  BY TimedAssumption, Zenon
<1>2. \A n \in Positive : n \in Nat /\ n >= 1
  OBVIOUS
<1> QED BY <1>1, <1>2

-----------------------------------------------------------------------------
(* The queue of sent states *)

Entry == [num : Nat, len : Nat, sentAt : Nat]

\* Sent states, oldest first, none from the future and none beyond the current.
Queue(s, now, length) ==
    /\ now \in Nat /\ length \in Nat
    /\ s \in Seq(Entry) /\ Len(s) > 0
    /\ \A i \in 1..Len(s) : s[i].sentAt <= now /\ s[i].len <= length
    /\ \A i, j \in 1..Len(s) : i <= j => s[i].sentAt <= s[j].sentAt /\ s[i].len <= s[j].len

\* The fields are numbers, and the newest state is the last and longest.
LEMMA QueueFacts ==
  ASSUME NEW s, NEW now, NEW length, Queue(s, now, length)
  PROVE  /\ Len(s) \in Nat /\ Len(s) \in 1..Len(s) /\ 1 \in 1..Len(s)
         /\ Last(s) = s[Len(s)] /\ Last(s) \in Entry
         /\ Last(s).sentAt \in Nat /\ Last(s).len \in Nat /\ Last(s).num \in Nat
         /\ Last(s).sentAt <= now /\ Last(s).len <= length
         /\ \A i \in 1..Len(s) : /\ s[i] \in Entry /\ s[i].sentAt \in Nat /\ s[i].len \in Nat
                                 /\ s[i].sentAt <= Last(s).sentAt /\ s[i].len <= Last(s).len
                                 /\ s[1].len <= s[i].len
<1>1. s \in Seq(Entry) /\ Len(s) \in Nat /\ Len(s) > 0
  BY LenProperties DEF Queue
<1>2. Len(s) \in 1..Len(s) /\ 1 \in 1..Len(s) /\ \A i \in 1..Len(s) : 1 <= i /\ i <= Len(s)
  BY <1>1
<1>3. \A i \in 1..Len(s) : s[i] \in Entry
  BY <1>1, ElementOfSeq
<1>4. \A i \in 1..Len(s) : s[i].sentAt \in Nat /\ s[i].len \in Nat /\ s[i].num \in Nat
  BY <1>3 DEF Entry
<1>5. Last(s) = s[Len(s)]
  BY DEF Last
<1> QED BY <1>1, <1>2, <1>3, <1>4, <1>5 DEF Queue

\* Time passes and the user types.
LEMMA QueueLater ==
  ASSUME NEW s, NEW now, NEW length, Queue(s, now, length),
         NEW n \in Nat, n >= now, NEW l \in Nat, l >= length
  PROVE  Queue(s, n, l)
<1>1. ASSUME NEW i \in 1..Len(s) PROVE s[i].sentAt <= n /\ s[i].len <= l
  <2>1. s[i].sentAt \in Nat /\ s[i].len \in Nat /\ s[i].sentAt <= now /\ s[i].len <= length
        /\ now \in Nat /\ length \in Nat
    BY QueueFacts DEF Queue
  <2> DEFINE x == s[i].sentAt
             y == s[i].len
  <2>2. x \in Nat /\ y \in Nat /\ x <= now /\ y <= length /\ now \in Nat /\ length \in Nat
    BY <2>1
  <2> HIDE DEF x, y
  <2>3. x <= n /\ y <= l
    BY <2>2
  <2> QED BY <2>3 DEF x, y
<1> QED BY <1>1 DEF Queue

\* addSentState with the current state and time.  Erasing from a full queue is
\* left to Sender.
LEMMA QueueAppend ==
  ASSUME NEW s, NEW now, NEW length, Queue(s, now, length), NEW k \in Nat
  PROVE  LET e == [num |-> k, len |-> length, sentAt |-> now]
             q == Append(s, e)
         IN  Queue(q, now, length) /\ Last(q) = e /\ q[1] = s[1]
<1> DEFINE e == [num |-> k, len |-> length, sentAt |-> now]
           q == Append(s, e)
           l == Len(s)
<1>1. s \in Seq(Entry) /\ l \in Nat /\ l > 0 /\ now \in Nat /\ length \in Nat
  BY LenProperties DEF Queue
<1>2. e \in Entry /\ e.sentAt = now /\ e.len = length
  BY <1>1 DEF Entry
<1> HIDE DEF e
<1>3. /\ q \in Seq(Entry) /\ Len(q) = l + 1 /\ q[l + 1] = e
      /\ \A i \in 1..l : q[i] = s[i]
  BY <1>1, <1>2, AppendProperties
<1>4. \A i \in 1..l : /\ s[i].sentAt <= now /\ s[i].len <= length
                      /\ \A j \in 1..l : i <= j => s[i].sentAt <= s[j].sentAt /\ s[i].len <= s[j].len
  BY DEF Queue
<1> HIDE DEF q, l
<1>5. \A i \in 1..Len(q) : i \in 1..l \/ i = l + 1
  BY <1>1, <1>3
<1>6. ASSUME NEW i \in 1..Len(q) PROVE q[i].sentAt <= now /\ q[i].len <= length
  BY <1>1, <1>2, <1>3, <1>4, <1>5
<1>7. ASSUME NEW i \in 1..Len(q), NEW j \in 1..Len(q), i <= j
      PROVE  q[i].sentAt <= q[j].sentAt /\ q[i].len <= q[j].len
  <2>1. CASE j = l + 1
    BY <2>1, <1>2, <1>3, <1>6
  <2>2. CASE j \in 1..l
    <3>1. i \in 1..l
      BY <2>2, <1>1, <1>3, <1>7
    <3> QED BY <3>1, <2>2, <1>3, <1>4, <1>7
  <2> QED BY <2>1, <2>2, <1>5
<1>8. Queue(q, now, length)
  BY <1>1, <1>3, <1>6, <1>7 DEF Queue
<1>9. Last(q) = e /\ q[1] = s[1]
  BY <1>1, <1>3 DEF Last
<1> QED BY <1>8, <1>9 DEF q, e

\* A retransmission: the newest state was sent now.
LEMMA QueueBump ==
  ASSUME Queue(sent, clock, cur)
  PROVE  LET q == RetransmitTime(sent)
         IN  /\ Queue(q, clock, cur)
             /\ Last(q).sentAt = clock /\ Last(q).len = Last(sent).len /\ q[1].len = sent[1].len
<1> DEFINE q == RetransmitTime(sent)
           l == Len(sent)
<1>1. /\ sent \in Seq(Entry) /\ l \in Nat /\ l > 0 /\ clock \in Nat /\ cur \in Nat
      /\ DOMAIN sent = 1..l /\ 1 \in 1..l /\ l \in 1..l
  BY LenProperties DEF Queue
<1>2. \A i \in 1..l : sent[i] \in Entry
  BY <1>1, ElementOfSeq
<1>3. DOMAIN q = 1..l /\ \A i \in 1..l : q[i] = IF i = l THEN [sent[l] EXCEPT !.sentAt = clock]
                                                ELSE sent[i]
  BY <1>1 DEF RetransmitTime
<1>4. /\ q[l] \in Entry /\ q[l].sentAt = clock /\ q[l].len = sent[l].len
      /\ \A i \in 1..l : i # l => q[i] = sent[i]
  BY <1>1, <1>2, <1>3 DEF Entry
<1>5. q \in Seq(Entry) /\ Len(q) = l
  <2>1. q = [i \in 1..l |-> q[i]]
    BY <1>1, <1>3 DEF RetransmitTime
  <2>2. \A i \in 1..l : q[i] \in Entry
    BY <1>2, <1>4
  <2> HIDE DEF q
  <2> QED BY <1>1, <2>1, <2>2, IsASeq
<1>6. \A i \in 1..l : /\ sent[i].sentAt <= clock /\ sent[i].len <= cur
                      /\ \A j \in 1..l : i <= j => sent[i].sentAt <= sent[j].sentAt
                                                   /\ sent[i].len <= sent[j].len
  BY DEF Queue
<1> HIDE DEF q, l
<1>7. ASSUME NEW i \in 1..l PROVE q[i].sentAt <= clock /\ q[i].len <= cur /\ q[i].len = sent[i].len
  BY <1>1, <1>4, <1>6
<1>8. ASSUME NEW i \in 1..l, NEW j \in 1..l, i <= j
      PROVE  q[i].sentAt <= q[j].sentAt /\ q[i].len <= q[j].len
  <2>1. CASE j = l
    BY <2>1, <1>1, <1>4, <1>6, <1>7, <1>8
  <2>2. CASE j # l
    <3>1. i # l
      BY <2>2, <1>1, <1>8
    <3> QED BY <3>1, <2>2, <1>4, <1>6, <1>8
  <2> QED BY <2>1, <2>2
<1>9. Queue(q, clock, cur)
  BY <1>1, <1>5, <1>7, <1>8 DEF Queue
<1>10. Last(q) = q[l] /\ Last(sent) = sent[l]
  BY <1>5 DEF Last, l
<1> QED BY <1>1, <1>4, <1>7, <1>9, <1>10 DEF q

\* ProcessAcknowledgmentThrough keeps a suffix.
LEMMA QueueSuffix ==
  ASSUME NEW s, NEW now, NEW length, Queue(s, now, length), NEW k \in 1..Len(s)
  PROVE  LET q == SubSeq(s, k, Len(s))
         IN  Queue(q, now, length) /\ Last(q) = Last(s)
<1> DEFINE q == SubSeq(s, k, Len(s))
           l == Len(s)
<1>1. s \in Seq(Entry) /\ l \in Nat /\ k \in Int /\ 1 <= k /\ k <= l
  BY LenProperties DEF Queue
<1>2. q \in Seq(Entry) /\ Len(q) = l - k + 1 /\ \A i \in 1..l - k + 1 : q[i] = s[k + i - 1]
  BY <1>1, SubSeqProperties
<1>3. \A i \in 1..l - k + 1 : k + i - 1 \in 1..l
  BY <1>1
<1> HIDE DEF q, l
<1>4. Len(q) > 0 /\ Last(q) = s[l] /\ Last(s) = s[l]
  <2>1. Len(q) > 0 /\ Len(q) \in 1..l - k + 1 /\ k + Len(q) - 1 = l
    BY <1>1, <1>2
  <2> QED BY <2>1, <1>2 DEF Last, l
<1>5. ASSUME NEW i \in 1..Len(q)
      PROVE  q[i].sentAt <= now /\ q[i].len <= length
  BY <1>2, <1>3 DEF Queue, l
<1>6. ASSUME NEW i \in 1..Len(q), NEW j \in 1..Len(q), i <= j
      PROVE  q[i].sentAt <= q[j].sentAt /\ q[i].len <= q[j].len
  <2>1. k + i - 1 \in 1..l /\ k + j - 1 \in 1..l /\ k + i - 1 <= k + j - 1
    BY <1>1, <1>2, <1>3, <1>6
  <2> QED BY <2>1, <1>2 DEF Queue, l
<1> QED BY <1>2, <1>4, <1>5, <1>6 DEF Queue, q

-----------------------------------------------------------------------------
(* The timers *)

\* During a shutdown an ack is due every send interval.
Hurry == shutdownInProgress \/ ackShutdown

\* AckTime never puts an ack off; looking twice changes nothing.
LEMMA AckTimeFacts ==
  ASSUME NEW s, Queue(s, clock, cur), NEW t \in Nat, NEW pending \in BOOLEAN
  PROVE  LET a == AckTime(t, s, pending)
         IN  /\ a \in Nat
             /\ Hurry => a = Last(s).sentAt + sendInterval
             /\ ~Hurry => a <= t /\ (a = t \/ a = clock + ackDelay)
             /\ ~Hurry /\ pending => a <= clock + ackDelay
             /\ AckTime(a, s, pending) = a
<1>1. clock \in Nat /\ Last(s).sentAt \in Nat
  BY QueueFacts DEF Queue
<1> QED BY <1>1, Intervals DEF AckTime, Hurry

\* The walk stops at a place in the queue; the states it passed are recent.
LEMMA AssumedFacts ==
  ASSUME NEW s, Queue(s, clock, cur)
  PROVE  LET i == AssumedIdx(s)
         IN  /\ i \in 1..Len(s)
             /\ i > 1 => clock - s[i].sentAt < Timeout + ackDelay
<1> DEFINE Recent == {i \in 2..Len(s) : \A j \in 2..i : clock - s[j].sentAt < Timeout + ackDelay}
           S == {1} \cup Recent
<1>1. Len(s) \in Nat /\ 1 \in 1..Len(s)
  BY QueueFacts
<1>2. S \in SUBSET Nat /\ S # {} /\ \A x \in S : x <= Len(s)
  BY <1>1
<1>3. Max(S) \in S
  BY <1>1, <1>2, MaxNat
<1>4. AssumedIdx(s) = Max(S)
  BY DEF AssumedIdx
<1>5. \A i \in S : i \in 1..Len(s) /\ (i > 1 => clock - s[i].sentAt < Timeout + ackDelay)
  <2> TAKE i \in S
  <2>1. CASE i = 1
    BY <2>1, <1>1
  <2>2. CASE i \in Recent
    <3>1. i \in 2..i
      BY <2>2
    <3> QED BY <2>2, <3>1, <1>1
  <2> QED BY <2>1, <2>2
<1> HIDE DEF S
<1> QED BY <1>3, <1>4, <1>5

\* When data is due, by what the queue says about it.
LEMMA SendTimeFacts ==
  ASSUME NEW s, Queue(s, clock, cur), NEW m \in Nat \cup {NoTime}
  PROVE  LET t == SendTime(m, s)
             d == Mindelay(m, s)
         IN  /\ cur # Last(s).len =>
                   /\ d \in Nat /\ t \in Nat /\ d = IF m = NoTime THEN clock ELSE m
                   /\ t \in {d + sendMindelay, Last(s).sentAt + sendInterval}
                   /\ t >= Last(s).sentAt + sendInterval
             /\ cur = Last(s).len => d = m
             /\ cur = Last(s).len /\ cur # s[1].len =>
                   t \in {Last(s).sentAt + sendInterval, Last(s).sentAt + Timeout + ackDelay}
             /\ cur = s[1].len => t = NoTime
             /\ t \in Nat \cup {NoTime}
             /\ Mindelay(d, s) = d /\ SendTime(d, s) = t
<1> DEFINE b == Last(s).sentAt
           i == AssumedIdx(s)
<1>1. /\ clock \in Nat /\ cur \in Nat /\ b \in Nat /\ Last(s).len \in Nat /\ s[1].len \in Nat
      /\ Last(s).len <= cur /\ s[1].len <= Last(s).len
  BY QueueFacts DEF Queue
<1>2. s[i].len \in Nat /\ s[1].len <= s[i].len /\ s[i].len <= Last(s).len
  BY AssumedFacts, QueueFacts
<1>3. NoTime \notin Nat
  BY DEF NoTime
<1>4. CASE cur # Last(s).len
  <2> DEFINE d == Mindelay(m, s)
  <2>1. d \in Nat /\ d = IF m = NoTime THEN clock ELSE m
    BY <1>1, <1>4 DEF Mindelay
  <2>2. Mindelay(d, s) = d
    BY <1>3, <2>1 DEF Mindelay
  <2>3. SendTime(m, s) = Max({d + sendMindelay, b + sendInterval})
    BY <1>4 DEF SendTime
  <2>4. SendTime(d, s) = Max({d + sendMindelay, b + sendInterval})
    BY <1>4, <2>2 DEF SendTime
  <2> DEFINE u == d + sendMindelay
             v == b + sendInterval
  <2>5. u \in Nat /\ v \in Nat /\ u \in Int /\ v \in Int
    BY <2>1, <1>1, Intervals
  <2> HIDE DEF d, b, u, v
  <2>6. Max({u, v}) \in {u, v} /\ Max({u, v}) >= v /\ Max({u, v}) \in Nat
    <3>1. Max({u, v}) \in {u, v} /\ Max({u, v}) >= v
      BY <2>5, MaxPair, Zenon
    <3> QED BY <2>5, <3>1
  <2>7. cur # s[1].len
    BY <1>1, <1>4
  <2> QED BY <1>4, <2>1, <2>2, <2>3, <2>4, <2>6, <2>7 DEF d, b, u, v
<1>5. CASE cur = Last(s).len
  <2>1. Mindelay(m, s) = m
    BY <1>5 DEF Mindelay
  <2>2. SendTime(m, s) = IF cur # s[i].len THEN b + sendInterval
                         ELSE IF cur # s[1].len THEN b + Timeout + ackDelay ELSE NoTime
    BY <1>5 DEF SendTime
  <2>3. cur = s[1].len => cur = s[i].len
    BY <1>1, <1>2, <1>5
  <2>4. b + sendInterval \in Nat /\ b + Timeout + ackDelay \in Nat
    BY <1>1, Intervals
  <2> QED BY <1>5, <2>1, <2>2, <2>3, <2>4
<1> QED BY <1>4, <1>5

\* Data is never due sooner than a send interval, or the ack delay, after the
\* newest state was sent.
LEMMA SendTimePaced ==
  ASSUME NEW s, Queue(s, clock, cur), NEW m \in Nat \cup {NoTime}, SendTime(m, s) # NoTime
  PROVE  /\ SendTime(m, s) \in Nat
         /\ SendTime(m, s) >= Last(s).sentAt + Min({sendInterval, ackDelay})
<1> DEFINE b == Last(s).sentAt
           x == Min({sendInterval, ackDelay})
           t == SendTime(m, s)
<1>1. b \in Nat
  BY QueueFacts
<1>2. x \in {sendInterval, ackDelay} /\ x <= sendInterval /\ x <= ackDelay
  <2>1. sendInterval \in Int /\ ackDelay \in Int
    BY Intervals
  <2> QED BY <2>1, MinPair, Zenon
<1>3. t \in Nat
  BY SendTimeFacts
<1>4. t >= b + sendInterval \/ t \in {b + sendInterval, b + Timeout + ackDelay}
  <2>1. CASE cur # Last(s).len
    BY <2>1, SendTimeFacts
  <2>2. CASE cur = Last(s).len
    <3>1. cur # s[1].len
      BY SendTimeFacts
    <3> QED BY <2>2, <3>1, SendTimeFacts
  <2> QED BY <2>1, <2>2
<1> HIDE DEF b, x, t
<1>5. t >= b + x
  BY <1>1, <1>2, <1>3, <1>4, Intervals
<1> QED BY <1>3, <1>5 DEF b, x, t

\* The loop sleeps, but not past what it waits for.
LEMMA SleepFacts ==
  ASSUME clock \in Nat, NEW t \in Int
  PROVE  /\ Sleep(t) \in Nat /\ Sleep(t) >= 1
         /\ clock + Sleep(t) <= clock + 1 \/ clock + Sleep(t) <= t
<1> DEFINE w == t - clock
           x == Max({1, w})
<1>0. w \in Int /\ 1 \in Int /\ LoopMax \in Int
  BY Intervals
<1> HIDE DEF w
<1>a. x \in {1, w} /\ x >= 1
  BY <1>0, MaxPair, Zenon
<1>1. x \in {1, t - clock} /\ x >= 1 /\ x \in Int
  BY <1>a, <1>0 DEF w
<1> HIDE DEF x
<1>2. Min({LoopMax, x}) \in {LoopMax, x} /\ Min({LoopMax, x}) <= x
  BY <1>0, <1>1, MinPair, Zenon
<1>3. Sleep(t) = Min({LoopMax, x})
  BY DEF Sleep, x, w
<1>4. Sleep(t) \in Int /\ Sleep(t) >= 1 /\ Sleep(t) <= x
  BY <1>1, <1>2, <1>3, Intervals
<1> QED BY <1>1, <1>4

-----------------------------------------------------------------------------
(* The invariant *)

\* The longest waits that Prompt and RetransmitPrompt allow, and the shortest
\* that Paced does.
EventWait == Max({sendInterval, sendMindelay})
DataWait  == Max({ackDelay, sendInterval})
RetryWait == Max({Timeout + ackDelay, sendInterval})
Gap       == Min({sendInterval, ackDelay})

Times == Nat \cup {NoTime}

TypeOK ==
    /\ Queue(sent, clock, cur)
    /\ nextAckTime \in Nat /\ wakeAt \in Nat /\ mindelayClock \in Times
    /\ unsentSince \in Times /\ owedSince \in Times
    /\ attempts \in Times \X Times
    /\ pendingDataAck \in BOOLEAN /\ awake \in BOOLEAN /\ failed \in BOOLEAN
    /\ shutdownInProgress \in BOOLEAN /\ ackShutdown \in BOOLEAN

\* Before the first pass of the loop: an ack is due, and there is no data.
Beginning ==
    /\ awake /\ ~Hurry /\ ~pendingDataAck
    /\ clock = 0 /\ cur = 0 /\ nextAckTime = 0
    /\ attempts = <<NoTime, NoTime>>
    /\ unsentSince = NoTime /\ owedSince = NoTime /\ mindelayClock = NoTime

\* Whether sends fail or not: the newest state is no younger than the last
\* attempt, and the next keepalive and retransmission are timed from there.
Attempted ==
    /\ attempts[2] \in Nat /\ Last(sent).sentAt <= attempts[2] /\ attempts[2] <= clock
    /\ mindelayClock <= clock
    /\ nextAckTime <= attempts[2] + ackInterval
    /\ ~awake => clock < wakeAt /\ wakeAt <= attempts[2] + ackInterval
    /\ ~awake /\ cur # sent[1].len /\ cur = Last(sent).len => wakeAt <= attempts[2] + RetryWait

\* As long as none has failed, the last attempt sent the newest state,
OnTime ==
    /\ attempts[2] = Last(sent).sentAt
    /\ nextAckTime >= attempts[2] + Gap
    /\ attempts[1] # NoTime => attempts[2] - attempts[1] >= Gap

\* and events that have not been transmitted came after it,
EventsHeld ==
    unsentSince # NoTime =>
        /\ cur # Last(sent).len
        /\ Last(sent).sentAt <= unsentSince /\ unsentSince <= clock
        /\ \/ mindelayClock # NoTime /\ mindelayClock <= unsentSince
           \/ mindelayClock = NoTime /\ awake /\ unsentSince = clock
        /\ ~awake => wakeAt <= unsentSince + EventWait

\* and so did data that has not been acknowledged.
DataHeld ==
    owedSince # NoTime =>
        /\ pendingDataAck
        /\ Last(sent).sentAt <= owedSince /\ owedSince <= clock
        /\ nextAckTime <= owedSince + DataWait \/ (awake /\ owedSince = clock)
        /\ ~awake => wakeAt <= owedSince + DataWait

TimedInv ==
    /\ TypeOK
    /\ Beginning \/ (Attempted /\ (~failed => OnTime /\ EventsHeld /\ DataHeld))

\* The waits as numbers.
LEMMA Waits ==
  /\ EventWait \in Nat /\ EventWait >= sendInterval /\ EventWait >= sendMindelay
  /\ DataWait \in Nat /\ DataWait >= sendInterval /\ DataWait >= ackDelay
  /\ RetryWait \in Nat /\ RetryWait >= sendInterval /\ RetryWait >= Timeout + ackDelay
  /\ Gap \in Nat /\ Gap <= sendInterval /\ Gap <= ackDelay
<1> DEFINE long == Timeout + ackDelay
<1>1. /\ sendInterval \in Nat /\ sendMindelay \in Nat /\ ackDelay \in Nat /\ long \in Nat
      /\ \A n \in Nat : n \in Int
  BY Intervals
<1> HIDE DEF long
<1>2. EventWait \in {sendInterval, sendMindelay} /\ EventWait >= sendInterval
      /\ EventWait >= sendMindelay
  BY <1>1, MaxPair, Zenon DEF EventWait
<1>3. DataWait \in {ackDelay, sendInterval} /\ DataWait >= sendInterval /\ DataWait >= ackDelay
  BY <1>1, MaxPair, Zenon DEF DataWait
<1>4. Max({long, sendInterval}) \in {long, sendInterval} /\ Max({long, sendInterval}) >= sendInterval
      /\ Max({long, sendInterval}) >= long
  BY <1>1, MaxPair, Zenon
<1>5. RetryWait = Max({long, sendInterval})
  BY DEF RetryWait, long
<1>6. Gap \in {sendInterval, ackDelay} /\ Gap <= sendInterval /\ Gap <= ackDelay
  BY <1>1, MinPair, Zenon DEF Gap
<1> QED BY <1>1, <1>2, <1>3, <1>4, <1>5, <1>6 DEF long

\* What a pass of the loop leaves behind, whatever it has done.
LEMMA Asleep ==
  ASSUME NEW s, Queue(s, clock, cur), NEW a \in Nat, NEW m \in Times, NEW p \in BOOLEAN,
         shutdownInProgress \in BOOLEAN, ackShutdown \in BOOLEAN, owedSince \in Times,
         GoToSleep(s, a, m, p)
  PROVE  /\ sent' = s /\ clock' = clock /\ cur' = cur
         /\ nextAckTime' = AckTime(a, s, p) /\ nextAckTime' \in Nat
         /\ mindelayClock' = Mindelay(m, s) /\ mindelayClock' \in Times
         /\ pendingDataAck' = p /\ owedSince' = (IF p THEN owedSince ELSE NoTime)
         /\ awake' = FALSE
         /\ wakeAt' \in Nat /\ clock < wakeAt'
         /\ wakeAt' <= clock + 1 \/ wakeAt' <= nextAckTime'
         /\ SendTime(m, s) # NoTime => wakeAt' <= clock + 1 \/ wakeAt' <= SendTime(m, s)
<1> DEFINE ack2  == AckTime(a, s, p)
           send2 == SendTime(m, s)
           t == IF send2 # NoTime /\ send2 < ack2 THEN send2 ELSE ack2
<1>1. clock \in Nat /\ ack2 \in Nat
  BY AckTimeFacts DEF Queue
<1>2. send2 \in Nat \cup {NoTime} /\ Mindelay(m, s) \in Times
  BY SendTimeFacts DEF Times
<1>3. t \in Int /\ t <= ack2 /\ (send2 # NoTime => t <= send2)
  BY <1>1, <1>2 DEF NoTime
<1>4. wakeAt' = clock + Sleep(t)
  BY DEF GoToSleep
<1> HIDE DEF t, ack2, send2
<1>5. Sleep(t) \in Nat /\ Sleep(t) >= 1 /\ (clock + Sleep(t) <= clock + 1 \/ clock + Sleep(t) <= t)
  BY <1>1, <1>3, SleepFacts
<1>6. /\ wakeAt' \in Nat /\ clock < wakeAt' /\ (wakeAt' <= clock + 1 \/ wakeAt' <= ack2)
      /\ send2 # NoTime => wakeAt' <= clock + 1 \/ wakeAt' <= send2
  BY <1>1, <1>2, <1>3, <1>4, <1>5
<1> QED BY <1>1, <1>2, <1>6 DEF GoToSleep, ack2, send2

-----------------------------------------------------------------------------
(* A pass of the loop *)

\* What Tick sees: the timers as it computes them, and the queue's newest state.
LEMMA TickFacts ==
  ASSUME TypeOK
  PROVE  /\ Queue(sent, clock, cur) /\ clock \in Nat /\ cur \in Nat
         /\ Last(sent).sentAt \in Nat /\ Last(sent).sentAt <= clock
         /\ Last(sent).len \in Nat /\ Last(sent).len <= cur /\ Last(sent).num \in Nat
         /\ TickAck \in Nat /\ TickSend \in Times /\ TickMind \in Times
         /\ Hurry => TickAck = Last(sent).sentAt + sendInterval
         /\ ~Hurry => TickAck <= nextAckTime /\ (TickAck = nextAckTime \/ TickAck = clock + ackDelay)
         /\ ~Hurry /\ pendingDataAck => TickAck <= clock + ackDelay
         /\ AckTime(TickAck, sent, pendingDataAck) = TickAck
         /\ Mindelay(TickMind, sent) = TickMind /\ SendTime(TickMind, sent) = TickSend
         /\ TickMind = IF cur # Last(sent).len /\ mindelayClock = NoTime THEN clock
                       ELSE mindelayClock
<1>1. /\ Queue(sent, clock, cur) /\ nextAckTime \in Nat /\ pendingDataAck \in BOOLEAN
      /\ mindelayClock \in Nat \cup {NoTime}
  BY DEF TypeOK, Times
<1>2. clock \in Nat /\ cur \in Nat
  BY <1>1 DEF Queue
<1>3. /\ TickSend \in Times /\ Mindelay(TickMind, sent) = TickMind
      /\ SendTime(TickMind, sent) = TickSend
  BY <1>1, SendTimeFacts DEF TickSend, TickMind, Times
<1>4. TickMind = IF cur # Last(sent).len /\ mindelayClock = NoTime THEN clock ELSE mindelayClock
  BY DEF TickMind, Mindelay
<1>5. TickMind \in Times
  BY <1>1, <1>2, <1>4 DEF Times
<1> QED BY <1>1, <1>2, <1>3, <1>4, <1>5, QueueFacts, AckTimeFacts DEF TickAck

\* Nothing to send means that everything was sent.
LEMMA NoDiff ==
  ASSUME TypeOK
  PROVE  ~HasDiff => cur = Last(sent).len
<1> DEFINE x == sent[AssumedIdx(sent)].len
<1>1. x \in Nat /\ x <= Last(sent).len /\ Last(sent).len \in Nat /\ Last(sent).len <= cur
      /\ cur \in Nat
  BY AssumedFacts, QueueFacts DEF TypeOK, Queue
<1> QED BY <1>1 DEF HasDiff

\* When data is due there is something to send: the walk for the assumed state
\* and the retransmission use the same timeout (sender.go:178-186).
LEMMA DueHasDiff ==
  ASSUME TypeOK, Due(TickSend)
  PROVE  HasDiff
<1> DEFINE i == AssumedIdx(sent)
           b == Last(sent).sentAt
<1>1. /\ Queue(sent, clock, cur) /\ clock \in Nat /\ cur \in Nat /\ i \in 1..Len(sent)
      /\ i > 1 => clock - sent[i].sentAt < Timeout + ackDelay
  BY AssumedFacts DEF TypeOK, Queue
<1>2. /\ sent[i].len \in Nat /\ sent[i].len <= Last(sent).len /\ Last(sent).len \in Nat
      /\ Last(sent).len <= cur /\ sent[i].sentAt \in Nat /\ sent[i].sentAt <= b /\ b \in Nat
  BY <1>1, QueueFacts
<1>3. CASE cur # Last(sent).len
  BY <1>1, <1>2, <1>3 DEF HasDiff
<1>4. CASE cur # sent[i].len
  BY <1>1, <1>2, <1>4 DEF HasDiff
<1>5. CASE cur = Last(sent).len /\ cur = sent[i].len
  <2>1. TickSend = IF cur # sent[1].len THEN b + Timeout + ackDelay ELSE NoTime
    BY <1>5 DEF TickSend, SendTime
  <2>2. cur # sent[1].len /\ clock >= b + Timeout + ackDelay
    BY <2>1 DEF Due
  <2>3. i > 1
    BY <1>1, <1>5, <2>2 DEF Queue
  <2> HIDE DEF i, b
  <2> DEFINE x == sent[i].sentAt
  <2>4. x \in Nat /\ x <= b /\ b \in Nat /\ clock - x < Timeout + ackDelay
    BY <1>1, <1>2, <2>3
  <2> HIDE DEF x
  <2> QED BY <1>1, <2>2, <2>4, Intervals
<1> QED BY <1>3, <1>4, <1>5

\* An attempt is due no sooner than a gap after the previous one.
LEMMA DueAfterGap ==
  ASSUME TypeOK, Attempted, OnTime, Due(TickAck) \/ Due(TickSend)
  PROVE  clock - attempts[2] >= Gap
<1> DEFINE b == Last(sent).sentAt
<1>1. b \in Nat /\ clock \in Nat /\ b = attempts[2] /\ nextAckTime \in Nat
      /\ nextAckTime >= b + Gap
  BY TickFacts DEF OnTime, TypeOK
<1>2. CASE Due(TickAck)
  <2>1. TickAck \in Nat /\ TickAck <= clock
    BY <1>2, TickFacts DEF Due
  <2>2. TickAck = b + sendInterval \/ TickAck = nextAckTime \/ TickAck = clock + ackDelay
    BY TickFacts
  <2> HIDE DEF b
  <2> QED BY <1>1, <2>1, <2>2, Waits, Intervals
<1>3. CASE Due(TickSend)
  <2>1. TickSend # NoTime /\ clock >= TickSend
    BY <1>3 DEF Due
  <2>2. TickSend \in Nat /\ TickSend >= b + Gap
    BY <2>1, SendTimePaced DEF TypeOK, Times, TickSend, Gap
  <2> HIDE DEF b
  <2> QED BY <1>1, <2>1, <2>2, Waits
<1> QED BY <1>2, <1>3

\* Going to sleep keeps the types.
LEMMA SleepTyped ==
  ASSUME TypeOK, NEW s, Queue(s, clock, cur), NEW a \in Nat, NEW m \in Times, NEW p \in BOOLEAN,
         GoToSleep(s, a, m, p),
         unsentSince' \in Times, attempts' \in Times \X Times, failed' \in BOOLEAN
  PROVE  TypeOK'
<1>1. shutdownInProgress \in BOOLEAN /\ ackShutdown \in BOOLEAN /\ owedSince \in Times
  BY DEF TypeOK
<1>2. /\ sent' = s /\ clock' = clock /\ cur' = cur /\ awake' = FALSE /\ pendingDataAck' = p
      /\ nextAckTime' \in Nat /\ mindelayClock' \in Times /\ wakeAt' \in Nat
      /\ owedSince' = (IF p THEN owedSince ELSE NoTime)
  BY <1>1, Asleep
<1>3. owedSince' \in Times
  BY <1>1, <1>2 DEF Times
<1>4. shutdownInProgress' \in BOOLEAN /\ ackShutdown' \in BOOLEAN
  BY <1>1 DEF GoToSleep
<1> QED BY <1>2, <1>3, <1>4 DEF TypeOK

\* After an attempt, successful or not, the loop wakes in time for the next.
LEMMA AttemptSleeps ==
  ASSUME TypeOK, NEW s, Queue(s, clock, cur), NEW a \in Nat, a <= clock + ackInterval,
         NEW m \in Times, m <= clock, NEW p \in BOOLEAN, GoToSleep(s, a, m, p),
         attempts' = <<attempts[2], clock>>
  PROVE  Attempted'
<1> DEFINE b == Last(s).sentAt
           w == wakeAt'
           n == nextAckTime'
<1>1. /\ shutdownInProgress \in BOOLEAN /\ ackShutdown \in BOOLEAN /\ owedSince \in Times
      /\ clock \in Nat /\ cur \in Nat
  BY DEF TypeOK, Queue
<1>2. /\ sent' = s /\ clock' = clock /\ cur' = cur /\ awake' = FALSE
      /\ n = AckTime(a, s, p) /\ n \in Nat
      /\ mindelayClock' = Mindelay(m, s) /\ w \in Nat /\ clock < w
      /\ w <= clock + 1 \/ w <= n
      /\ SendTime(m, s) # NoTime => w <= clock + 1 \/ w <= SendTime(m, s)
  BY <1>1, Asleep
<1>3. b \in Nat /\ b <= clock
  BY QueueFacts
<1>4. attempts'[2] = clock
  OBVIOUS
<1>5. Mindelay(m, s) <= clock
  BY <1>1 DEF Mindelay
<1>6. n <= clock + ackInterval
  <2>1. (Hurry => n = b + sendInterval) /\ (~Hurry => n <= a)
    BY <1>2, AckTimeFacts
  <2> HIDE DEF b, n
  <2> QED BY <1>1, <1>2, <1>3, <2>1, Intervals
<1>7. w <= clock + ackInterval
  <2> HIDE DEF w, n
  <2> QED BY <1>1, <1>2, <1>6, Intervals
<1>8. cur # s[1].len /\ cur = Last(s).len => w <= clock + RetryWait
  <2> SUFFICES ASSUME cur # s[1].len, cur = Last(s).len PROVE w <= clock + RetryWait
    OBVIOUS
  <2> DEFINE t == SendTime(m, s)
  <2>1. t \in {b + sendInterval, b + Timeout + ackDelay}
    BY SendTimeFacts DEF Times
  <2>2. t \in Nat /\ t <= clock + RetryWait
    <3> HIDE DEF t, b
    <3> QED BY <1>1, <1>3, <2>1, Waits, Intervals
  <2>3. t # NoTime
    BY <2>2 DEF NoTime
  <2>4. w <= clock + 1 \/ w <= t
    BY <1>2, <2>3
  <2> HIDE DEF t, w
  <2> QED BY <1>1, <1>2, <2>2, <2>4, Waits, Intervals
<1> QED BY <1>1, <1>2, <1>3, <1>4, <1>5, <1>6, <1>7, <1>8 DEF Attempted

\* After a successful attempt the newest state was sent just now, nothing is
\* owed and nothing waits.
LEMMA SuccessSleeps ==
  ASSUME TypeOK, NEW s, Queue(s, clock, cur), Last(s).sentAt = clock,
         GoToSleep(s, clock + ackInterval, NoTime, FALSE),
         attempts' = <<attempts[2], clock>>, unsentSince' = NoTime,
         attempts[2] # NoTime => clock - attempts[2] >= Gap
  PROVE  OnTime' /\ EventsHeld' /\ DataHeld'
<1> DEFINE n == nextAckTime'
           a == clock + ackInterval
<1>1. /\ shutdownInProgress \in BOOLEAN /\ ackShutdown \in BOOLEAN /\ owedSince \in Times
      /\ clock \in Nat /\ a \in Nat /\ NoTime \in Times
  BY Intervals DEF TypeOK, Queue, Times
<1>2. sent' = s /\ n = AckTime(a, s, FALSE) /\ n \in Nat /\ owedSince' = NoTime
  BY <1>1, Asleep
<1>3. attempts'[2] = clock /\ attempts'[1] = attempts[2]
  OBVIOUS
<1>4. n >= clock + Gap
  <2>1. n \in {clock + sendInterval, a, clock + ackDelay}
    BY <1>1, <1>2, AckTimeFacts
  <2>2. n \in Nat /\ clock \in Nat
    BY <1>1, <1>2
  <2> HIDE DEF n
  <2> QED BY <2>1, <2>2, Waits, Intervals
<1>5. OnTime'
  BY <1>2, <1>3, <1>4, Waits DEF OnTime, Gap
<1> QED BY <1>2, <1>5 DEF EventsHeld, DataHeld

\* Nothing is due.
LEMMA IdleStep ==
  ASSUME TimedInv, TickIdle
  PROVE  TimedInv'
<1> DEFINE b == Last(sent).sentAt
           w == wakeAt'
<1>1. /\ TypeOK /\ shutdownInProgress \in BOOLEAN /\ ackShutdown \in BOOLEAN /\ owedSince \in Times
      /\ pendingDataAck \in BOOLEAN /\ mindelayClock \in Times
  BY DEF TimedInv, TypeOK
<1>2. GoToSleep(sent, TickAck, TickMind, pendingDataAck)
      /\ UNCHANGED <<attempts, failed, unsentSince>>
      /\ ~Due(TickAck) /\ ~Due(TickSend)
  BY DEF TickIdle
<1>3. /\ sent' = sent /\ clock' = clock /\ cur' = cur /\ awake' = FALSE
      /\ nextAckTime' = TickAck /\ mindelayClock' = TickMind
      /\ pendingDataAck' = pendingDataAck
      /\ owedSince' = (IF pendingDataAck THEN owedSince ELSE NoTime)
      /\ w \in Nat /\ clock < w /\ (w <= clock + 1 \/ w <= TickAck)
      /\ TickSend # NoTime => w <= clock + 1 \/ w <= TickSend
  <2>1. /\ Queue(sent, clock, cur) /\ TickAck \in Nat /\ TickMind \in Times
        /\ AckTime(TickAck, sent, pendingDataAck) = TickAck
        /\ Mindelay(TickMind, sent) = TickMind /\ SendTime(TickMind, sent) = TickSend
    BY <1>1, TickFacts
  <2> HIDE DEF w
  <2> QED BY <1>1, <1>2, <2>1, Asleep DEF w
<1>4. TypeOK'
  BY <1>1, <1>2, TickFacts, SleepTyped DEF TypeOK
<1>5. clock < TickAck /\ TickAck \in Nat /\ clock \in Nat /\ b \in Nat /\ b <= clock
  BY <1>1, <1>2, TickFacts DEF Due, NoTime
<1>6. w <= TickAck
  <2> HIDE DEF w
  <2> QED BY <1>3, <1>5
<1>7. TickSend # NoTime => TickSend \in Nat /\ w <= TickSend
  <2> SUFFICES ASSUME TickSend # NoTime PROVE TickSend \in Nat /\ w <= TickSend
    OBVIOUS
  <2>1. clock < TickSend /\ TickSend \in Nat
    BY <1>1, <1>2, TickFacts DEF Due, Times
  <2> HIDE DEF w
  <2> QED BY <1>3, <1>5, <2>1
<1>8. Attempted /\ (~failed => OnTime /\ EventsHeld /\ DataHeld)
  <2> SUFFICES ASSUME Beginning PROVE FALSE
    BY DEF TimedInv
  <2>1. TickAck <= nextAckTime /\ nextAckTime = 0 /\ clock = 0
    BY <1>1, TickFacts DEF Beginning
  <2> QED BY <1>5, <2>1
<1>9. attempts[2] \in Nat /\ b <= attempts[2] /\ attempts[2] <= clock
      /\ nextAckTime \in Nat /\ nextAckTime <= attempts[2] + ackInterval
  BY <1>1, <1>8 DEF Attempted, TypeOK
<1>10. TickAck = b + sendInterval \/ TickAck <= nextAckTime
  BY <1>1, TickFacts
<1>11. TickAck <= attempts[2] + ackInterval
  <2> DEFINE x == attempts[2]
  <2> HIDE DEF b, x
  <2>1. x \in Nat /\ b <= x /\ nextAckTime <= x + ackInterval
    BY <1>9 DEF x
  <2>2. TickAck <= x + ackInterval
    BY <1>5, <1>9, <1>10, <2>1, Intervals
  <2> QED BY <2>2 DEF x
<1>12. Attempted'
  <2>1. TickMind <= clock
    BY <1>1, <1>5, <1>8, TickFacts DEF Attempted
  <2>2. w <= attempts[2] + ackInterval
    <3> DEFINE x == attempts[2] + ackInterval
    <3>1. x \in Nat /\ TickAck <= x
      BY <1>9, <1>11, Intervals
    <3> HIDE DEF w, x
    <3>2. w <= x
      BY <1>3, <1>5, <1>6, <3>1
    <3> QED BY <3>2 DEF x
  <2>3. cur # sent[1].len /\ cur = Last(sent).len => w <= attempts[2] + RetryWait
    <3> SUFFICES ASSUME cur # sent[1].len, cur = Last(sent).len PROVE w <= attempts[2] + RetryWait
      OBVIOUS
    <3>1. TickSend \in {b + sendInterval, b + Timeout + ackDelay}
      BY <1>1, SendTimeFacts DEF TickSend, TypeOK, Times
    <3> DEFINE x == attempts[2]
    <3>2. x \in Nat /\ b <= x
      BY <1>9
    <3> HIDE DEF b, x, w
    <3>3. TickSend \in Nat /\ TickSend <= x + RetryWait
      BY <1>5, <3>1, <3>2, Waits, Intervals
    <3>4. TickSend # NoTime
      BY <3>3 DEF NoTime
    <3>5. w <= x + RetryWait
      BY <1>3, <1>7, <3>2, <3>3, <3>4, Waits
    <3> QED BY <3>5 DEF x
  <2> QED BY <1>2, <1>3, <1>9, <1>11, <2>1, <2>2, <2>3 DEF Attempted
<1>13. ~failed => OnTime'
  <2> SUFFICES ASSUME ~failed PROVE OnTime'
    OBVIOUS
  <2>1. OnTime
    BY <1>8
  <2>2. TickAck >= attempts[2] + Gap
    <3>1. b = attempts[2] /\ nextAckTime >= b + Gap
      BY <2>1 DEF OnTime
    <3>2. TickAck = b + sendInterval \/ TickAck = nextAckTime \/ TickAck = clock + ackDelay
      BY <1>1, TickFacts
    <3> HIDE DEF b
    <3>3. TickAck >= b + Gap
      BY <1>5, <1>9, <3>1, <3>2, Waits, Intervals
    <3> QED BY <3>1, <3>3
  <2> QED BY <1>2, <1>3, <2>1, <2>2 DEF OnTime, Gap
<1>14. ~failed => EventsHeld'
  <2> SUFFICES ASSUME ~failed, unsentSince # NoTime PROVE EventsHeld'
    BY <1>2 DEF EventsHeld
  <2> DEFINE u == unsentSince
  <2>1. /\ cur # Last(sent).len /\ b <= u /\ u <= clock /\ u \in Nat
        /\ (mindelayClock # NoTime /\ mindelayClock <= u) \/ (mindelayClock = NoTime /\ u = clock)
    BY <1>1, <1>8 DEF EventsHeld, TypeOK, Times
  <2>2. TickMind \in Nat /\ TickMind <= u
    BY <1>1, <1>5, <2>1, TickFacts DEF Times
  <2>3. TickSend \in {TickMind + sendMindelay, b + sendInterval}
    BY <1>1, <2>1, SendTimeFacts DEF TickSend, TickMind, TypeOK, Times
  <2>4. TickSend \in Nat /\ TickSend <= u + EventWait
    <3> HIDE DEF b, u
    <3> QED BY <1>5, <2>1, <2>2, <2>3, Waits, Intervals
  <2>5. TickSend # NoTime /\ TickMind # NoTime
    BY <2>2, <2>4 DEF NoTime
  <2>6. w <= u + EventWait
    <3> HIDE DEF w, u
    <3> QED BY <1>3, <1>7, <2>1, <2>4, <2>5, Waits
  <2> QED BY <1>2, <1>3, <2>1, <2>2, <2>5, <2>6 DEF EventsHeld, EventWait
<1>15. ~failed => DataHeld'
  <2> SUFFICES ASSUME ~failed, owedSince' # NoTime PROVE DataHeld'
    BY DEF DataHeld
  <2> DEFINE o == owedSince
  <2>1. /\ pendingDataAck /\ owedSince' = o /\ o # NoTime
    BY <1>1, <1>3
  <2>2. /\ b <= o /\ o <= clock /\ o \in Nat
        /\ nextAckTime <= o + DataWait \/ o = clock
    BY <1>1, <1>8, <2>1 DEF DataHeld, Times
  <2>3. \/ TickAck = b + sendInterval
        \/ TickAck <= nextAckTime /\ TickAck <= clock + ackDelay
    BY <1>1, <2>1, TickFacts
  <2>4. TickAck <= o + DataWait
    <3> HIDE DEF b, o
    <3> QED BY <1>5, <1>9, <2>2, <2>3, Waits, Intervals
  <2>5. w <= o + DataWait
    <3> HIDE DEF w, o
    <3> QED BY <1>3, <1>5, <1>6, <2>2, <2>4, Waits
  <2> QED BY <1>3, <2>1, <2>2, <2>4, <2>5 DEF DataHeld, DataWait
<1> QED BY <1>2, <1>4, <1>12, <1>13, <1>14, <1>15 DEF TimedInv

\* An empty ack goes out, or fails to.
LEMMA EmptyAckStep ==
  ASSUME TimedInv, NEW ok \in BOOLEAN, TickEmptyAck(ok)
  PROVE  TimedInv'
<1> DEFINE num == IF shutdownInProgress THEN ShutdownNum ELSE Last(sent).num + 1
           q == Append(sent, [num |-> num, len |-> cur, sentAt |-> clock])
<1>1. /\ TypeOK /\ pendingDataAck \in BOOLEAN /\ unsentSince \in Times /\ failed \in BOOLEAN
      /\ attempts[1] \in Times /\ attempts[2] \in Times
  BY DEF TimedInv, TypeOK
<1>2. /\ Queue(sent, clock, cur) /\ clock \in Nat /\ TickMind \in Times
      /\ Last(sent).num \in Nat
  BY <1>1, TickFacts
<1>3. /\ Due(TickAck) /\ ~HasDiff
      /\ attempts' = <<attempts[2], clock>> /\ failed' = (failed \/ ~ok)
      /\ unsentSince' = unsentSince
      /\ ok => GoToSleep(q, clock + ackInterval, NoTime, FALSE)
      /\ ~ok => GoToSleep(sent, clock + sendInterval, TickMind, pendingDataAck)
  BY DEF TickEmptyAck, PendingAfterSend, AckTimeAfterFailure
<1>4. num \in Nat
  BY <1>2, TimedAssumption
<1>5. Queue(q, clock, cur) /\ Last(q).sentAt = clock
  <2> HIDE DEF num
  <2>1. LET e == [num |-> num, len |-> cur, sentAt |-> clock]
        IN  Queue(Append(sent, e), clock, cur) /\ Last(Append(sent, e)) = e
    BY <1>2, <1>4, QueueAppend
  <2> QED BY <2>1
<1>6. /\ clock + ackInterval \in Nat /\ clock + sendInterval \in Nat
      /\ clock + sendInterval <= clock + ackInterval /\ clock + ackInterval <= clock + ackInterval
      /\ NoTime \in Times /\ NoTime <= clock /\ FALSE \in BOOLEAN
  BY <1>2, Intervals DEF Times, NoTime
<1>7. TickMind <= clock
  BY <1>1, <1>2, <1>6, TickFacts DEF TimedInv, Beginning, Attempted
<1>8. attempts' \in Times \X Times /\ failed' \in BOOLEAN /\ unsentSince' \in Times
  BY <1>1, <1>2, <1>3 DEF Times
<1> HIDE DEF q
<1>9. CASE ok
  <2>1. TypeOK'
    BY <1>1, <1>3, <1>5, <1>6, <1>8, <1>9, SleepTyped
  <2>2. Attempted'
    BY <1>1, <1>3, <1>5, <1>6, <1>9, AttemptSleeps
  <2>3. ASSUME ~failed PROVE OnTime' /\ EventsHeld' /\ DataHeld'
    <3>1. cur = Last(sent).len
      BY <1>1, <1>3, NoDiff
    <3>2. unsentSince = NoTime
      BY <2>3, <3>1 DEF TimedInv, Beginning, EventsHeld
    <3>3. attempts[2] # NoTime => clock - attempts[2] >= Gap
      <4>1. attempts[2] # NoTime => ~Beginning
        BY DEF Beginning
      <4> QED BY <1>1, <1>3, <2>3, <4>1, DueAfterGap DEF TimedInv
    <3> QED BY <1>1, <1>3, <1>5, <1>9, <3>2, <3>3, SuccessSleeps
  <2> QED BY <1>1, <1>3, <1>9, <2>1, <2>2, <2>3 DEF TimedInv
<1>10. CASE ~ok
  <2>1. TypeOK'
    BY <1>1, <1>2, <1>3, <1>6, <1>8, <1>10, SleepTyped
  <2>2. Attempted'
    BY <1>1, <1>2, <1>3, <1>6, <1>7, <1>10, AttemptSleeps
  <2> QED BY <1>3, <1>10, <2>1, <2>2 DEF TimedInv
<1> QED BY <1>9, <1>10

\* Data goes out, new or again, or fails to.
LEMMA SendStep ==
  ASSUME TimedInv, NEW ok \in BOOLEAN, TickSendToReceiver(ok)
  PROVE  TimedInv'
<1> DEFINE back == Last(sent)
           num == IF shutdownInProgress THEN ShutdownNum
                  ELSE IF cur = back.len THEN back.num ELSE back.num + 1
           bump == IF num = back.num THEN RetransmitTime(sent) ELSE sent
           q == IF num = back.num THEN bump
                ELSE Append(sent, [num |-> num, len |-> cur, sentAt |-> clock])
<1>1. /\ TypeOK /\ pendingDataAck \in BOOLEAN /\ unsentSince \in Times /\ failed \in BOOLEAN
      /\ attempts[1] \in Times /\ attempts[2] \in Times
  BY DEF TimedInv, TypeOK
<1>2. /\ Queue(sent, clock, cur) /\ clock \in Nat /\ cur \in Nat /\ TickMind \in Times
      /\ TickAck \in Nat /\ back.num \in Nat
  BY <1>1, TickFacts
<1>3. /\ Due(TickAck) \/ Due(TickSend)
      /\ HasDiff
      /\ attempts' = <<attempts[2], clock>> /\ failed' = (failed \/ ~ok)
      /\ unsentSince' = IF ok THEN NoTime ELSE unsentSince
      /\ ok => GoToSleep(q, clock + ackInterval, NoTime, FALSE)
      /\ ~ok => GoToSleep(bump, TickAck, TickMind, pendingDataAck)
  BY DEF TickSendToReceiver, PendingAfterSend
<1>4. num \in Nat
  BY <1>2, TimedAssumption
<1>5. Queue(bump, clock, cur) /\ Queue(q, clock, cur) /\ Last(q).sentAt = clock
  <2> HIDE DEF num
  <2>1. LET e == [num |-> num, len |-> cur, sentAt |-> clock]
        IN  Queue(Append(sent, e), clock, cur) /\ Last(Append(sent, e)) = e
    BY <1>2, <1>4, QueueAppend
  <2>2. Queue(RetransmitTime(sent), clock, cur) /\ Last(RetransmitTime(sent)).sentAt = clock
    BY <1>2, QueueBump
  <2> QED BY <1>2, <2>1, <2>2
<1>6. Attempted /\ ~Beginning
  <2>1. ASSUME Beginning PROVE FALSE
    <3> DEFINE x == sent[AssumedIdx(sent)].len
    <3>1. x \in Nat
      BY <1>2, AssumedFacts, QueueFacts
    <3>2. 0 > x
      BY <1>3, <2>1 DEF Beginning, HasDiff
    <3> QED BY <3>1, <3>2
  <2> QED BY <2>1 DEF TimedInv
<1>7. TickAck <= clock + ackInterval /\ TickMind <= clock
  <2>1. /\ attempts[2] \in Nat /\ attempts[2] <= clock /\ nextAckTime <= attempts[2] + ackInterval
        /\ nextAckTime \in Nat /\ mindelayClock <= clock
    BY <1>1, <1>6 DEF Attempted, TypeOK
  <2>2. TickAck = back.sentAt + sendInterval \/ TickAck <= nextAckTime
    BY <1>1, TickFacts
  <2>3. back.sentAt \in Nat /\ back.sentAt <= clock
    BY <1>1, TickFacts
  <2> DEFINE x == attempts[2]
             b == back.sentAt
  <2>4. x \in Nat /\ x <= clock /\ nextAckTime <= x + ackInterval /\ b \in Nat /\ b <= clock
        /\ (TickAck = b + sendInterval \/ TickAck <= nextAckTime)
    BY <2>1, <2>2, <2>3
  <2> HIDE DEF x, b
  <2>5. TickAck <= clock + ackInterval
    BY <1>2, <2>1, <2>4, Intervals
  <2>6. TickMind <= clock
    BY <1>1, <1>2, <2>1, TickFacts
  <2> QED BY <2>5, <2>6
<1>8. /\ attempts' \in Times \X Times /\ failed' \in BOOLEAN /\ unsentSince' \in Times
      /\ NoTime \in Times /\ NoTime <= clock /\ FALSE \in BOOLEAN
      /\ clock + ackInterval \in Nat /\ clock + ackInterval <= clock + ackInterval
  BY <1>1, <1>2, <1>3, Intervals DEF Times, NoTime
<1> HIDE DEF q, bump
<1>9. CASE ok
  <2>1. TypeOK'
    BY <1>1, <1>3, <1>5, <1>8, <1>9, SleepTyped
  <2>2. Attempted'
    BY <1>1, <1>3, <1>5, <1>8, <1>9, AttemptSleeps
  <2>3. ASSUME ~failed PROVE OnTime' /\ EventsHeld' /\ DataHeld'
    <3>1. clock - attempts[2] >= Gap
      BY <1>1, <1>3, <1>6, <2>3, DueAfterGap DEF TimedInv
    <3> QED BY <1>1, <1>3, <1>5, <1>9, <3>1, SuccessSleeps
  <2> QED BY <1>1, <1>3, <1>9, <2>1, <2>2, <2>3 DEF TimedInv
<1>10. CASE ~ok
  <2>1. TypeOK'
    BY <1>1, <1>2, <1>3, <1>5, <1>8, <1>10, SleepTyped
  <2>2. Attempted'
    BY <1>1, <1>2, <1>3, <1>5, <1>7, <1>10, AttemptSleeps
  <2> QED BY <1>3, <1>10, <2>1, <2>2 DEF TimedInv
<1> QED BY <1>9, <1>10

-----------------------------------------------------------------------------
(* What wakes the loop *)

\* Time passes while the loop sleeps, up to its timer.
LEMMA AdvanceStep ==
  ASSUME TimedInv, Advance
  PROVE  TimedInv'
<1>1. TypeOK /\ clock \in Nat /\ wakeAt \in Nat /\ cur \in Nat /\ mindelayClock \in Times
      /\ unsentSince \in Times /\ owedSince \in Times
  BY DEF TimedInv, TypeOK, Queue
<1>2. /\ ~awake /\ clock' = clock + 1 /\ awake' = (clock + 1 >= wakeAt)
      /\ UNCHANGED <<cur, sent, nextAckTime, mindelayClock, wakeAt, pendingDataAck,
                     shutdownInProgress, ackShutdown, attempts, unsentSince, owedSince, failed>>
  BY DEF Advance, timers, shutdown
<1>3. Attempted /\ (~failed => OnTime /\ EventsHeld /\ DataHeld)
  BY <1>2 DEF TimedInv, Beginning
<1>4. Queue(sent, clock + 1, cur)
  BY <1>1, QueueLater DEF TypeOK
<1>5. TypeOK'
  BY <1>1, <1>2, <1>4 DEF TypeOK
<1>6. Attempted'
  <2>1. attempts[2] \in Nat /\ attempts[2] <= clock + 1 /\ mindelayClock <= clock + 1
    BY <1>1, <1>3 DEF Attempted, Times, NoTime
  <2>2. ~awake' => clock + 1 < wakeAt
    <3>1. ~awake' => ~(clock + 1 >= wakeAt)
      BY <1>2, Zenon
    <3>2. ~(clock + 1 >= wakeAt) => clock + 1 < wakeAt
      BY <1>1
    <3> QED BY <3>1, <3>2
  <2> QED BY <1>2, <1>3, <2>1, <2>2 DEF Attempted, RetryWait
<1>7. ~failed => OnTime'
  BY <1>2, <1>3 DEF OnTime, Gap
<1>8. ~failed => EventsHeld'
  <2> SUFFICES ASSUME ~failed, unsentSince # NoTime PROVE EventsHeld'
    BY <1>2 DEF EventsHeld
  <2>1. /\ cur # Last(sent).len /\ Last(sent).sentAt <= unsentSince /\ unsentSince <= clock
        /\ mindelayClock # NoTime /\ mindelayClock <= unsentSince
        /\ wakeAt <= unsentSince + EventWait
    BY <1>2, <1>3 DEF EventsHeld
  <2>2. unsentSince <= clock + 1
    BY <1>1, <2>1 DEF Times, NoTime
  <2> QED BY <1>2, <2>1, <2>2 DEF EventsHeld, EventWait
<1>9. ~failed => DataHeld'
  <2> SUFFICES ASSUME ~failed, owedSince # NoTime PROVE DataHeld'
    BY <1>2 DEF DataHeld
  <2>1. /\ pendingDataAck /\ Last(sent).sentAt <= owedSince /\ owedSince <= clock
        /\ nextAckTime <= owedSince + DataWait /\ wakeAt <= owedSince + DataWait
    BY <1>2, <1>3 DEF DataHeld
  <2>2. owedSince <= clock + 1
    BY <1>1, <2>1 DEF Times, NoTime
  <2> QED BY <1>2, <2>1, <2>2 DEF DataHeld, DataWait
<1> QED BY <1>2, <1>5, <1>6, <1>7, <1>8, <1>9 DEF TimedInv

\* The user types.
LEMMA UserEventStep ==
  ASSUME TimedInv, UserEvent
  PROVE  TimedInv'
<1>1. TypeOK /\ clock \in Nat /\ cur \in Nat /\ mindelayClock \in Times /\ unsentSince \in Times
  BY DEF TimedInv, TypeOK, Queue
<1>2. /\ ~awake /\ cur' = cur + 1 /\ awake' = TRUE
      /\ unsentSince' = IF unsentSince = NoTime THEN clock ELSE unsentSince
      /\ UNCHANGED <<clock, sent, nextAckTime, mindelayClock, wakeAt, pendingDataAck,
                     shutdownInProgress, ackShutdown, attempts, owedSince, failed>>
  BY DEF UserEvent, timers, shutdown
<1>3. Attempted /\ (~failed => OnTime /\ EventsHeld /\ DataHeld)
  BY <1>2 DEF TimedInv, Beginning
<1>4. Queue(sent, clock, cur + 1)
  BY <1>1, QueueLater DEF TypeOK
<1>5. TypeOK'
  BY <1>1, <1>2, <1>4 DEF TypeOK, Times
<1>6. Attempted'
  BY <1>2, <1>3 DEF Attempted
<1>7. ~failed => OnTime'
  BY <1>2, <1>3 DEF OnTime, Gap
<1>8. ~failed => EventsHeld'
  <2> SUFFICES ASSUME ~failed PROVE EventsHeld'
    OBVIOUS
  <2>1. cur + 1 # Last(sent).len /\ Last(sent).sentAt <= clock
    BY <1>1, TickFacts
  <2>2. CASE unsentSince = NoTime
    <3>1. clock # NoTime /\ clock <= clock
      BY <1>1 DEF NoTime
    <3>2. mindelayClock <= clock
      BY <1>3 DEF Attempted
    <3> QED BY <1>2, <2>1, <2>2, <3>1, <3>2 DEF EventsHeld
  <2>3. CASE unsentSince # NoTime
    BY <1>2, <1>3, <2>1, <2>3 DEF EventsHeld
  <2> QED BY <2>2, <2>3
<1>9. ~failed => DataHeld'
  BY <1>2, <1>3 DEF DataHeld, DataWait
<1> QED BY <1>2, <1>5, <1>6, <1>7, <1>8, <1>9 DEF TimedInv

\* The server is heard: a suffix of the queue is kept, its newest state with it.
LEMMA InstructionStep ==
  ASSUME TimedInv, ServerInstruction
  PROVE  TimedInv'
<1>1. /\ TypeOK /\ clock \in Nat /\ cur \in Nat /\ owedSince \in Times
      /\ pendingDataAck \in BOOLEAN /\ ackShutdown \in BOOLEAN
      /\ Last(sent).sentAt <= clock
  BY TickFacts DEF TimedInv, TypeOK
<1>2. PICK i \in 1..Len(sent), data \in BOOLEAN, bye \in BOOLEAN, accepted \in BOOLEAN :
          /\ sent' = SubSeq(sent, i, Len(sent))
          /\ pendingDataAck' = (pendingDataAck \/ data)
          /\ owedSince' = IF data /\ ~pendingDataAck THEN clock ELSE owedSince
          /\ ackShutdown' = (ackShutdown \/ (bye /\ accepted))
  BY DEF ServerInstruction
<1>3. /\ ~awake /\ awake' = TRUE
      /\ UNCHANGED <<clock, cur, nextAckTime, mindelayClock, wakeAt, shutdownInProgress, attempts,
                     unsentSince, failed>>
  BY DEF ServerInstruction, timers
<1>4. Attempted /\ (~failed => OnTime /\ EventsHeld /\ DataHeld)
  BY <1>3 DEF TimedInv, Beginning
<1>5. Queue(sent', clock, cur) /\ Last(sent') = Last(sent)
  BY <1>1, <1>2, QueueSuffix DEF TypeOK
<1>6. TypeOK'
  <2>1. owedSince' \in Times /\ pendingDataAck' \in BOOLEAN /\ ackShutdown' \in BOOLEAN
    BY <1>1, <1>2 DEF Times
  <2> QED BY <1>1, <1>3, <1>5, <2>1 DEF TypeOK
<1>7. Attempted'
  BY <1>3, <1>4, <1>5 DEF Attempted
<1>8. ~failed => OnTime'
  BY <1>3, <1>4, <1>5 DEF OnTime, Gap
<1>9. ~failed => EventsHeld'
  BY <1>3, <1>4, <1>5 DEF EventsHeld
<1>10. ~failed => DataHeld'
  <2> SUFFICES ASSUME ~failed, owedSince' # NoTime PROVE DataHeld'
    BY DEF DataHeld
  <2>1. CASE data /\ ~pendingDataAck
    <3>1. owedSince' = clock /\ clock <= clock
      BY <1>1, <1>2, <2>1
    <3>2. pendingDataAck'
      BY <1>2, <2>1, Zenon
    <3> QED BY <1>1, <1>3, <1>5, <3>1, <3>2 DEF DataHeld
  <2>2. CASE ~(data /\ ~pendingDataAck)
    <3>1. owedSince' = owedSince /\ (pendingDataAck => pendingDataAck')
      BY <1>2, <2>2
    <3> QED BY <1>3, <1>4, <1>5, <3>1 DEF DataHeld, DataWait
  <2> QED BY <2>1, <2>2
<1> QED BY <1>3, <1>6, <1>7, <1>8, <1>9, <1>10 DEF TimedInv

\* The user quits.
LEMMA StartShutdownStep ==
  ASSUME TimedInv, StartShutdown
  PROVE  TimedInv'
<1>1. /\ ~awake /\ awake' = TRUE /\ shutdownInProgress' = TRUE
      /\ UNCHANGED <<clock, cur, sent, nextAckTime, mindelayClock, wakeAt, pendingDataAck,
                     ackShutdown, attempts, unsentSince, owedSince, failed>>
  BY DEF StartShutdown, timers
<1>2. Attempted /\ (~failed => OnTime /\ EventsHeld /\ DataHeld)
  BY <1>1 DEF TimedInv, Beginning
<1>3. TypeOK'
  BY <1>1 DEF TimedInv, TypeOK
<1>4. Attempted'
  BY <1>1, <1>2 DEF Attempted
<1>5. ~failed => OnTime' /\ EventsHeld' /\ DataHeld'
  BY <1>1, <1>2 DEF OnTime, Gap, EventsHeld, DataHeld, DataWait
<1> QED BY <1>1, <1>3, <1>4, <1>5 DEF TimedInv

-----------------------------------------------------------------------------
(* The theorems *)

\* The invariant holds in the initial state.
LEMMA TimedInit ==
  ASSUME Init
  PROVE  TimedInv
<1> DEFINE e == [num |-> 0, len |-> 0, sentAt |-> 0]
<1>1. e \in Entry /\ e.len = 0 /\ e.sentAt = 0
  BY DEF Entry
<1>2. sent = <<e>> /\ clock = 0 /\ cur = 0
  BY DEF Init
<1> HIDE DEF e
<1>3. sent \in Seq(Entry) /\ Len(sent) = 1 /\ sent[1] = e
  BY <1>1, <1>2
<1>4. Queue(sent, clock, cur)
  <2>1. \A i \in 1..Len(sent) : i = 1
    BY <1>3
  <2> QED BY <1>1, <1>2, <1>3, <2>1 DEF Queue
<1>5. NoTime \in Times /\ 0 \in Nat
  BY DEF Times
<1>6. TypeOK
  BY <1>4, <1>5 DEF TypeOK, Init
<1>7. Beginning
  BY DEF Beginning, Init, Hurry
<1> QED BY <1>6, <1>7 DEF TimedInv

\* Every step preserves it.
LEMMA TimedNext ==
  ASSUME TimedInv, [Next]_vars
  PROVE  TimedInv'
<1>1. CASE UNCHANGED vars
  BY <1>1 DEF vars, TimedInv, TypeOK, Beginning, Hurry, Attempted, OnTime, EventsHeld, DataHeld,
              EventWait, DataWait, RetryWait, Gap
<1>2. CASE Next
  BY <1>2, IdleStep, EmptyAckStep, SendStep, AdvanceStep, UserEventStep, InstructionStep,
     StartShutdownStep DEF Next
<1> QED BY <1>1, <1>2

\* For every choice of the intervals the queue and the timers stay related to
\* the last attempt and to what is waiting as TimedInv says.
THEOREM TimersHold == Spec => []TimedInv
<1> QED BY TimedInit, TimedNext, PTL DEF Spec

\* No event waits longer than the send interval or the minimum delay, and no
\* data longer for its ack than the ack delay or the send interval, whatever
\* the intervals are: the loop never sleeps through a due time.
THEOREM LoopIsPrompt == Spec => []Prompt
<1>1. TimedInv => Prompt
  <2> SUFFICES ASSUME TimedInv, ~failed, ~awake
               PROVE  /\ unsentSince # NoTime => clock < unsentSince + EventWait
                      /\ owedSince # NoTime => clock < owedSince + DataWait
    BY DEF Prompt, EventWait, DataWait
  <2>1. clock \in Nat /\ wakeAt \in Nat /\ unsentSince \in Times /\ owedSince \in Times
    BY DEF TimedInv, TypeOK, Queue
  <2>2. Attempted /\ EventsHeld /\ DataHeld
    BY DEF TimedInv, Beginning
  <2>3. clock < wakeAt
    BY <2>2 DEF Attempted
  <2>4. unsentSince # NoTime => unsentSince \in Nat /\ wakeAt <= unsentSince + EventWait
    BY <2>1, <2>2 DEF EventsHeld, Times
  <2>5. owedSince # NoTime => owedSince \in Nat /\ wakeAt <= owedSince + DataWait
    BY <2>1, <2>2 DEF DataHeld, Times
  <2> QED BY <2>1, <2>3, <2>4, <2>5, Waits
<1> QED BY <1>1, TimersHold, PTL

\* What is not acknowledged is attempted again within a retransmission timeout,
\* whichever attempts fail, and data that is due is always there to send.
THEOREM RetransmitsInTime == Spec => []RetransmitPrompt
<1>1. TimedInv => RetransmitPrompt
  <2>1. ASSUME TimedInv, ~awake, cur # sent[1].len, cur = Last(sent).len
        PROVE  clock < attempts[2] + RetryWait
    <3>1. Attempted /\ clock \in Nat /\ wakeAt \in Nat
      BY <2>1 DEF TimedInv, Beginning, TypeOK, Queue
    <3> DEFINE x == attempts[2]
    <3>2. x \in Nat /\ clock < wakeAt /\ wakeAt <= x + RetryWait
      BY <2>1, <3>1 DEF Attempted
    <3> HIDE DEF x
    <3>3. clock < x + RetryWait
      BY <3>1, <3>2, Waits
    <3> QED BY <3>3 DEF x
  <2> QED BY <2>1, DueHasDiff DEF RetransmitPrompt, RetryWait, TimedInv
<1> QED BY <1>1, TimersHold, PTL

\* The client is never silent for longer than the keepalive period, whichever
\* attempts fail.
THEOREM KeepsAlive == Spec => []Keepalive
<1>1. TimedInv => Keepalive
  <2> SUFFICES ASSUME TimedInv, ~awake PROVE clock < attempts[2] + ackInterval
    BY DEF Keepalive
  <2>1. Attempted /\ clock \in Nat /\ wakeAt \in Nat
    BY DEF TimedInv, Beginning, TypeOK, Queue
  <2> DEFINE x == attempts[2]
  <2>2. x \in Nat /\ clock < wakeAt /\ wakeAt <= x + ackInterval
    BY <2>1 DEF Attempted
  <2> HIDE DEF x
  <2>3. clock < x + ackInterval
    BY <2>1, <2>2, Intervals
  <2> QED BY <2>3 DEF x
<1> QED BY <1>1, TimersHold, PTL

\* As long as no send fails, two transmissions are never closer than the send
\* interval or the ack delay.
THEOREM SendsArePaced == Spec => []Paced
<1>1. TimedInv => Paced
  BY DEF TimedInv, Beginning, OnTime, Paced, Spaced, Gap, NoTime
<1> QED BY <1>1, TimersHold, PTL

=============================================================================
