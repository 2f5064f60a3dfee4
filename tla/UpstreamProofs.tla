--------------------------- MODULE UpstreamProofs ----------------------------
(***************************************************************************)
(* Client, network and server together: the invariants of Upstream, proved *)
(* for every value of the constants.                                       *)
(*                                                                         *)
(* FrontHeld is not inductive by itself.  It needs that no message on the  *)
(* wire throws away a state at or above the front (in SenderInv), that an  *)
(* acknowledgment which is no longer held is below the front (AcksCovered) *)
(* and that the queue is sorted (in SenderInv), so that an acknowledgment  *)
(* found in the queue is held.                                             *)
(***************************************************************************)
EXTENDS Upstream, SenderProofs

\* The server's types; its first acknowledgment is of the initial state.
ServerInv ==
    /\ closed \in BOOLEAN
    /\ DOMAIN held \subseteq 0..ShutdownNum
    /\ \A n \in DOMAIN held : held[n] \in Seq(Event)
    /\ acks \subseteq 0..ShutdownNum /\ 0 \in acks

\* An acknowledged state is held, or the client no longer refers to it.
AcksCovered == \A n \in acks : n \in DOMAIN held \/ n < sentStates[1].num

\* The inductive invariant.
UpstreamInv == SenderInv /\ ServerInv /\ FrontHeld /\ AcksCovered

\* A fresh session satisfies the invariant.
LEMMA InitInv ==
  ASSUME Init
  PROVE  UpstreamInv
<1>1. SenderInv
  BY SenderInitInv DEF Init
<1>2. held = [n \in {0} |-> << >>] /\ acks = {0} /\ closed = FALSE /\ sentStates[1].num = 0
  BY DEF Init, SenderInit
<1>3. DOMAIN held = {0} /\ held[0] = << >>
  BY <1>2
<1>4. {0} \subseteq 0..ShutdownNum
  BY SenderAssumption
<1> QED BY <1>1, <1>2, <1>3, <1>4, EmptySeq DEF UpstreamInv, ServerInv, FrontHeld, AcksCovered

\* A step of the sender that leaves the front where it is.
LEMMA FrontKept ==
  ASSUME UpstreamInv, SenderInv', sentStates'[1].num = sentStates[1].num,
         UNCHANGED serverVars, closed' \in BOOLEAN
  PROVE  UpstreamInv'
BY DEF UpstreamInv, ServerInv, FrontHeld, AcksCovered, serverVars

\* The number the server acknowledges is the greatest it holds.
LEMMA NewestFacts ==
  ASSUME NEW h, DOMAIN h \subseteq 0..ShutdownNum, DOMAIN h # {}
  PROVE  Newest(h) \in DOMAIN h /\ \A n \in DOMAIN h : Newest(h) >= n
<1>1. DOMAIN h \in SUBSET Nat /\ ShutdownNum \in Nat /\ \A n \in DOMAIN h : n <= ShutdownNum
  BY SenderAssumption
<1> QED BY <1>1, MaxNat DEF Newest

\* An acknowledgment, however old, preserves the invariant and never moves the
\* front back (sender.go:349).
LEMMA RecvAckInv ==
  ASSUME UpstreamInv, NEW n, ClientRecvAck(n)
  PROVE  UpstreamInv' /\ sentStates'[1].num >= sentStates[1].num
<1>1. SenderInv /\ n \in acks /\ UNCHANGED <<serverVars, closed>>
  BY DEF UpstreamInv, ClientRecvAck
<1>2. /\ SenderInv' /\ sentStates'[1].num = n
      /\ \E k \in 1..Len(sentStates) : sentStates[k].num = n
  BY <1>1, ProcessAckInv DEF ClientRecvAck
<1>3. n \in Nat /\ sentStates[1].num \in Nat
  BY <1>1, SenderBasics, SenderAssumption DEF UpstreamInv, ServerInv
<1>4. sentStates[1].num <= n
  <2>1. PICK k \in 1..Len(sentStates) : sentStates[k].num = n
    BY <1>2
  <2>2. CASE k = 1
    BY <2>1, <2>2, <1>3
  <2>3. CASE k # 1
    <3>1. 1 \in 1..Len(sentStates) /\ 1 < k
      BY <2>3, <1>1, SenderBasics
    <3>2. \/ sentStates[1].num < sentStates[k].num
          \/ sentStates[1].num = ShutdownNum /\ sentStates[k].num = ShutdownNum
      BY <3>1, <1>1, SenderBasics DEF QueueOK, Sorted
    <3> QED BY <3>2, <2>1, <1>3, SenderAssumption
  <2> QED BY <2>2, <2>3
<1>5. n \in DOMAIN held
  <2>1. n \in DOMAIN held \/ n < sentStates[1].num
    BY <1>1 DEF UpstreamInv, AcksCovered
  <2> QED BY <2>1, <1>3, <1>4
<1>6. FrontHeld'
  BY <1>1, <1>2, <1>5 DEF FrontHeld, serverVars
<1>7. AcksCovered'
  <2> SUFFICES ASSUME NEW a \in acks, a \notin DOMAIN held PROVE a < n
    BY <1>1, <1>2 DEF AcksCovered, serverVars
  <2>1. a < sentStates[1].num /\ a \in Nat
    BY SenderAssumption DEF UpstreamInv, AcksCovered, ServerInv
  <2> QED BY <2>1, <1>3, <1>4
<1>8. ServerInv'
  BY <1>1 DEF UpstreamInv, ServerInv, serverVars
<1>9. sentStates'[1].num >= sentStates[1].num
  BY <1>2, <1>3, <1>4
<1> QED BY <1>2, <1>6, <1>7, <1>8, <1>9 DEF UpstreamInv

\* Accepting an instruction preserves the invariant: what it throws away is
\* below the client's front, and the newest state stays (sender.go:327
\* ThrowawayNum).
LEMMA ServerRecvInv ==
  ASSUME UpstreamInv, NEW m, ServerRecv(m)
  PROVE  UpstreamInv' /\ Newest(held') >= Newest(held)
<1> DEFINE f == sentStates[1].num
           D == {x \in DOMAIN held : x >= m.throwaway} \cup {m.new}
<1>1. SenderInv /\ m \in wire /\ UNCHANGED <<senderVars, closed>>
  BY DEF UpstreamInv, ServerRecv
<1>2. SenderInv'
  BY <1>1, SenderUnchanged
<1>3. /\ m.new \in 0..ShutdownNum /\ m.throwaway \in 0..f /\ m.diff \in Seq(Event) /\ f \in Nat
  BY <1>1, SenderBasics, SenderAssumption DEF SenderInv
<1>4. held' = [n \in D |-> IF n = m.new THEN held[m.old] \o m.diff ELSE held[n]]
  BY DEF ServerRecv
<1>5. DOMAIN held' = D /\ D \subseteq 0..ShutdownNum
  BY <1>3, <1>4 DEF UpstreamInv, ServerInv
<1>6. \A n \in D : held'[n] \in Seq(Event)
  <2>1. held[m.old] \o m.diff \in Seq(Event)
    BY <1>3, ConcatProperties DEF UpstreamInv, ServerInv, ServerRecv
  <2> QED BY <1>4, <2>1 DEF UpstreamInv, ServerInv
<1>7. f \in DOMAIN held /\ f \in D
  BY <1>3 DEF UpstreamInv, FrontHeld
<1>8. FrontHeld'
  BY <1>1, <1>5, <1>7 DEF FrontHeld, senderVars
<1>9. Newest(held') \in D /\ \A n \in D : Newest(held') >= n
  BY <1>5, <1>7, NewestFacts
<1>10. Newest(held) \in DOMAIN held /\ \A n \in DOMAIN held : Newest(held) >= n
  BY <1>7, NewestFacts DEF UpstreamInv, ServerInv
<1>11. Newest(held) \in D
  <2>1. Newest(held) \in Nat
    BY <1>10, SenderAssumption DEF UpstreamInv, ServerInv
  <2>2. Newest(held) >= f
    BY <1>7, <1>10
  <2> QED BY <1>3, <1>10, <2>1, <2>2
<1>12. acks' = acks \cup {Newest(held')}
  BY DEF ServerRecv
<1>13. AcksCovered'
  <2> SUFFICES ASSUME NEW a \in acks' PROVE a \in D \/ a < f
    BY <1>1, <1>5 DEF AcksCovered, senderVars
  <2>1. CASE a = Newest(held')
    BY <2>1, <1>9
  <2>2. CASE a \in acks
    <3>1. a \in Nat /\ (a \in DOMAIN held \/ a < f)
      BY <2>2, SenderAssumption DEF UpstreamInv, AcksCovered, ServerInv
    <3> QED BY <3>1, <1>3
  <2> QED BY <2>1, <2>2, <1>12
<1>14. ServerInv'
  BY <1>1, <1>5, <1>6, <1>9, <1>12 DEF UpstreamInv, ServerInv
<1>15. Newest(held') >= Newest(held)
  BY <1>9, <1>11
<1> QED BY <1>2, <1>8, <1>13, <1>14, <1>15 DEF UpstreamInv

\* What no step takes back.
Advances == sentStates'[1].num >= sentStates[1].num /\ Newest(held') >= Newest(held)

\* Every step of client and server preserves the invariant and advances.
LEMMA NextInv ==
  ASSUME UpstreamInv, [Next]_vars
  PROVE  UpstreamInv' /\ Advances
<1>1. /\ SenderInv /\ closed \in BOOLEAN /\ sentStates[1].num \in Nat /\ Newest(held) \in Nat
  <2>1. SenderInv /\ closed \in BOOLEAN
    BY DEF UpstreamInv, ServerInv
  <2>2. sentStates[1].num \in Nat
    BY <2>1, SenderBasics, SenderAssumption
  <2>3. DOMAIN held # {} /\ DOMAIN held \subseteq 0..ShutdownNum
    BY DEF UpstreamInv, ServerInv, FrontHeld
  <2>4. Newest(held) \in DOMAIN held
    BY <2>3, NewestFacts
  <2> QED BY <2>1, <2>2, <2>3, <2>4, SenderAssumption
<1>2. ASSUME SenderInv', sentStates'[1].num = sentStates[1].num, UNCHANGED serverVars,
             closed' \in BOOLEAN
      PROVE  UpstreamInv' /\ Advances
  <2>1. UpstreamInv'
    BY <1>2, FrontKept
  <2>2. held' = held
    BY <1>2 DEF serverVars
  <2> QED BY <1>1, <1>2, <2>1, <2>2 DEF Advances
<1>3. CASE ClientPush
  <2>1. PICK e \in Event : Push(e)
    BY <1>3 DEF ClientPush
  <2>2. SenderInv' /\ sentStates'[1] = sentStates[1]
    BY <1>1, <2>1, PushInv
  <2> QED BY <1>1, <1>2, <1>3, <2>2 DEF ClientPush
<1>4. CASE ClientIdle
  <2>1. PICK k : CalculateTimers(k)
    BY <1>4 DEF ClientIdle
  <2>2. SenderInv' /\ sentStates'[1].num = sentStates[1].num
    BY <1>1, <2>1, CalculateTimersInv
  <2> QED BY <1>1, <1>2, <1>4, <2>2 DEF ClientIdle
<1>5. CASE ClientSendEmptyAck
  <2>1. ~ShutdownAckTimedOut
    BY <1>5 DEF ClientSendEmptyAck, Running
  <2>2. PICK k, ok : SendEmptyAck(k, ok)
    BY <1>5 DEF ClientSendEmptyAck
  <2>3. SenderInv' /\ sentStates'[1].num = sentStates[1].num
    BY <1>1, <2>1, <2>2, SendEmptyAckInv
  <2> QED BY <1>1, <1>2, <1>5, <2>3 DEF ClientSendEmptyAck
<1>6. CASE ClientSendToReceiver
  <2>1. ~ShutdownAckTimedOut
    BY <1>6 DEF ClientSendToReceiver, Running
  <2>2. PICK k, ok : SendToReceiver(k, ok)
    BY <1>6 DEF ClientSendToReceiver
  <2>3. SenderInv' /\ sentStates'[1].num = sentStates[1].num
    BY <1>1, <2>1, <2>2, SendToReceiverInv
  <2> QED BY <1>1, <1>2, <1>6, <2>3 DEF ClientSendToReceiver
<1>7. ASSUME NEW n \in acks, ClientRecvAck(n)
      PROVE  UpstreamInv' /\ Advances
  <2>1. UpstreamInv' /\ sentStates'[1].num >= sentStates[1].num
    BY <1>7, RecvAckInv
  <2>2. held' = held
    BY <1>7 DEF ClientRecvAck, serverVars
  <2> QED BY <1>1, <2>1, <2>2 DEF Advances
<1>8. CASE ClientStartShutdown
  <2>1. SenderInv' /\ sentStates'[1] = sentStates[1]
    BY <1>1, <1>8, StartShutdownInv DEF ClientStartShutdown
  <2> QED BY <1>1, <1>2, <1>8, <2>1 DEF ClientStartShutdown
<1>9. ASSUME UNCHANGED senderVars
      PROVE  SenderInv' /\ sentStates' = sentStates
  BY <1>1, <1>9, SenderUnchanged DEF senderVars
<1>10. CASE Return
  BY <1>1, <1>2, <1>9, <1>10 DEF Return
<1>11. ASSUME NEW m \in wire, ServerRecv(m)
       PROVE  UpstreamInv' /\ Advances
  <2>1. UpstreamInv' /\ Newest(held') >= Newest(held)
    BY <1>11, ServerRecvInv
  <2>2. sentStates' = sentStates
    BY <1>11 DEF ServerRecv, senderVars
  <2> QED BY <1>1, <2>1, <2>2 DEF Advances
<1>12. CASE UNCHANGED vars
  <2>1. UNCHANGED senderVars /\ UNCHANGED serverVars /\ closed' = closed
    BY <1>12 DEF vars, serverVars
  <2> QED BY <1>1, <1>2, <1>9, <2>1
<1> QED BY <1>3, <1>4, <1>5, <1>6, <1>7, <1>8, <1>10, <1>11, <1>12 DEF Next

\* The invariant contains the types.
LEMMA InvImpliesTypeOK ==
  ASSUME UpstreamInv
  PROVE  TypeOK
<1>1. SenderInv /\ ServerInv
  BY DEF UpstreamInv
<1>2. sentStates \in Seq([num : Nat, state : Seq(Event)]) /\ currentState \in Seq(Event)
  BY <1>1, SenderBasics DEF Entry, QueueOK, Typed
<1>3. sentStates # << >> /\ Len(sentStates) <= MaxSentStates
  BY <1>1, SenderBasics, EmptySeq DEF QueueOK, Typed
<1>4. \A m \in wire : m.old \in Nat /\ m.new \in Nat /\ m.throwaway \in Nat /\ m.diff \in Seq(Event)
  BY <1>1, SenderBasics, SenderAssumption DEF SenderInv
<1>5. acks \subseteq Nat /\ \A n \in DOMAIN held : n \in Nat /\ held[n] \in Seq(Event)
  BY <1>1, SenderAssumption DEF ServerInv
<1> QED BY <1>1, <1>2, <1>3, <1>4, <1>5 DEF TypeOK, SenderInv, ServerInv

\* The inductive invariant holds in every state of client, network and server.
THEOREM InvariantHolds == Spec => []UpstreamInv
<1>1. Init => UpstreamInv
  BY InitInv
<1>2. UpstreamInv /\ [Next]_vars => UpstreamInv'
  BY NextInv
<1> QED BY <1>1, <1>2, PTL DEF Spec

\* For every queue limit, number of retries and bound: the queue never outgrows
\* its limit, the assumed index stays inside it through appends, erases and
\* acknowledgments (sender.go:261-276, 349-359), and the shutdown number is
\* never transmitted more than shutdownRetries times.
THEOREM TypeCorrect == Spec => []TypeOK
<1>1. UpstreamInv => TypeOK
  BY InvImpliesTypeOK
<1> QED BY <1>1, InvariantHolds, PTL

\* For every value of the constants the queue stays sorted: a fresh number is
\* always above the newest, and back.num + 1 never reaches the shutdown number
\* (sender.go:241, 283).
THEOREM QueueStaysSorted == Spec => []QueueSorted
<1>1. UpstreamInv => QueueSorted
  BY DEF UpstreamInv, SenderInv, QueueOK, Sorted, QueueSorted
<1> QED BY <1>1, InvariantHolds, PTL

\* For every value of the constants the front of the queue is a state the server
\* still holds, whatever was lost, duplicated or delivered late (sender.go:64,
\* 327): no throwaway number covers it.
THEOREM FrontStaysHeld == Spec => []FrontHeld
<1>1. UpstreamInv => FrontHeld
  BY DEF UpstreamInv
<1> QED BY <1>1, InvariantHolds, PTL

\* For every value of the constants no step moves the known-received front, or
\* the server's newest state, back (sender.go:349-360).
THEOREM NeverRegresses == Spec => NoRegress
<1>1. UpstreamInv /\ [Next]_vars =>
         [/\ sentStates'[1].num >= sentStates[1].num
          /\ Newest(held') >= Newest(held)]_vars
  BY NextInv DEF Advances
<1> QED BY <1>1, InvariantHolds, PTL DEF Spec, NoRegress

-----------------------------------------------------------------------------
(* What the server holds.  The table of lengths that explains the sender's   *)
(* queue and every instruction on the wire explains the server's states too. *)

\* Every state the server holds is the part of the user's history that its
\* number stands for; under the shutdown number, what some instruction carried.
HeldExplained(L, t) == \A n \in DOMAIN held : Means(L, t, history, wire, n, held[n])

\* The inductive invariant behind the agreement of both ends.
AgreeInv == UpstreamInv /\ \E L, t : Explains(L, t) /\ HeldExplained(L, t)

\* A fresh session: number 0 is the empty stream at both ends.
LEMMA InitAgree ==
  ASSUME Init
  PROVE  AgreeInv
<1> DEFINE L == [a \in 0..0 |-> 0]
<1>1. Explains(L, 0)
  BY InitContent DEF Init
<1>2. DOMAIN held = {0} /\ held[0] = << >> /\ history = << >>
  BY DEF Init, SenderInit
<1>3. L[0] = 0 /\ 0 # ShutdownNum /\ 0 \in 0..0 /\ Len(<< >>) = 0
  BY SenderAssumption, EmptySeq
<1> HIDE DEF L
<1>4. HeldExplained(L, 0)
  BY <1>2, <1>3 DEF HeldExplained, Means, First
<1> QED BY <1>1, <1>4, InitInv DEF AgreeInv

\* Accepting an instruction keeps the server's states explained.
LEMMA ServerRecvAgree ==
  ASSUME NEW L, NEW t, Explains(L, t), HeldExplained(L, t), UpstreamInv, NEW m, ServerRecv(m)
  PROVE  Explains(L, t)' /\ HeldExplained(L, t)'
<1>1. /\ m \in wire /\ m.old \in DOMAIN held /\ m.new \notin DOMAIN held /\ UNCHANGED senderVars
  BY DEF ServerRecv
<1>2. UNCHANGED <<currentState, sentStates, wire, history, shutdownInProgress, quitLen>>
  BY <1>1 DEF senderVars
<1>3. Explains(L, t)'
  BY <1>2 DEF Explains
<1>4. m.old # ShutdownNum
  BY <1>1 DEF Explains, Content, QuitExplained
<1>5. /\ held[m.old] \in Seq(Event) /\ m.diff \in Seq(Event) /\ history \in Seq(Event)
      /\ Means(L, t, history, wire, m.old, held[m.old])
  BY <1>1 DEF UpstreamInv, ServerInv, SenderInv, HeldExplained
<1>6. Means(L, t, history, wire, m.new, held[m.old] \o m.diff)
  BY <1>1, <1>4, <1>5, ApplyDiff
<1>7. ASSUME NEW n \in DOMAIN held' PROVE Means(L, t, history, wire, n, held'[n])
  <2>1. CASE n = m.new
    <3>1. held'[n] = held[m.old] \o m.diff
      BY <2>1 DEF ServerRecv
    <3> QED BY <2>1, <3>1, <1>6
  <2>2. CASE n # m.new
    <3>1. n \in DOMAIN held /\ held'[n] = held[n]
      BY <2>2 DEF ServerRecv
    <3> QED BY <3>1 DEF HeldExplained
  <2> QED BY <2>1, <2>2
<1>8. HeldExplained(L, t)'
  BY <1>2, <1>7 DEF HeldExplained
<1> QED BY <1>3, <1>8

\* What the abstract stream allows the server's newest state to do in a step.
SinkGrows ==
    \/ held' = held
    \/ /\ history' = history
       /\ \E n \in Len(held[Newest(held)])..Len(history) :
              held'[Newest(held')] = SubSeq(history, 1, n)

\* The length of what the server takes for the newest state.
LEMMA NewestLength ==
  ASSUME NEW L, NEW t, Explains(L, t), HeldExplained(L, t), UpstreamInv
  PROVE  /\ Newest(held) \in DOMAIN held /\ \A n \in DOMAIN held : Newest(held) >= n
         /\ Newest(held) # ShutdownNum =>
               Newest(held) \in 0..t /\ Len(held[Newest(held)]) = L[Newest(held)]
         /\ Len(held[Newest(held)]) \in Nat
<1>1. DOMAIN held # {} /\ DOMAIN held \subseteq 0..ShutdownNum
  BY DEF UpstreamInv, ServerInv, FrontHeld
<1>2. Newest(held) \in DOMAIN held /\ \A n \in DOMAIN held : Newest(held) >= n
  BY <1>1, NewestFacts
<1>3. Len(held[Newest(held)]) \in Nat
  BY <1>2, LenProperties DEF UpstreamInv, ServerInv
<1> QED BY <1>2, <1>3 DEF HeldExplained, Means, First

\* An accepted instruction makes the server's newest state no shorter, and a
\* beginning of the history.
LEMMA ServerRecvSink ==
  ASSUME NEW L, NEW t, Explains(L, t), HeldExplained(L, t), UpstreamInv, NEW m, ServerRecv(m)
  PROVE  SinkGrows
<1> DEFINE o == Newest(held)
           w == Newest(held')
           s == held'[w]
<1>1. UpstreamInv' /\ w >= o
  BY ServerRecvInv
<1>2. Explains(L, t)' /\ HeldExplained(L, t)'
  BY ServerRecvAgree
<1>3. /\ o \in DOMAIN held /\ \A n \in DOMAIN held : o >= n
      /\ o # ShutdownNum => o \in 0..t /\ Len(held[o]) = L[o]
      /\ Len(held[o]) \in Nat
  BY NewestLength
<1>4. DOMAIN held' # {} /\ DOMAIN held' \subseteq 0..ShutdownNum
  BY <1>1 DEF UpstreamInv, ServerInv, FrontHeld
<1>5. w \in DOMAIN held'
  BY <1>4, NewestFacts
<1>6. s \in Seq(Event) /\ history \in Seq(Event) /\ history' = history /\ wire' = wire
  BY <1>1, <1>5 DEF UpstreamInv, ServerInv, SenderInv, ServerRecv, senderVars
<1>7. /\ m.new \notin DOMAIN held /\ m \in wire
      /\ DOMAIN held' = {x \in DOMAIN held : x >= m.throwaway} \cup {m.new}
      /\ \A n \in DOMAIN held' : n # m.new => n \in DOMAIN held /\ held'[n] = held[n]
      /\ held'[m.new] = held[m.old] \o m.diff
  BY DEF ServerRecv
<1>8. o \in 0..ShutdownNum /\ w \in 0..ShutdownNum
  BY <1>3, <1>4, <1>5 DEF UpstreamInv, ServerInv
<1> HIDE DEF o, w
<1>9. \E n : First(s, history, n) /\ Len(held[o]) <= n
  <2>1. CASE w # m.new
    <3>1. w \in DOMAIN held /\ s = held[w]
      BY <2>1, <1>5, <1>7
    <3>2. w = o
      BY <3>1, <1>1, <1>3, <1>8
    <3>3. \E n : First(held[o], history, n)
      BY <1>3 DEF HeldExplained, Means
    <3> QED BY <3>1, <3>2, <3>3, <1>3 DEF First
  <2>2. CASE w = m.new
    <3>1. o # w
      BY <2>2, <1>3, <1>7
    <3>2. o # ShutdownNum /\ o <= w
      BY <3>1, <1>1, <1>8
    <3>3. o \in 0..t /\ Len(held[o]) = L[o]
      BY <3>2, <1>3
    <3>4. /\ t \in Nat /\ t \in 0..t /\ Len(history) \in Nat /\ \A a \in 0..t : L[a] \in 0..Len(history)
          /\ \A a, b \in 0..t : a <= b => L[a] <= L[b]
      BY <1>6, LenProperties DEF Explains, Content, Table
    <3>5. CASE w # ShutdownNum
      <4>1. w \in 0..t /\ First(s, history, L[w])
        BY <3>5, <1>2, <1>5, <1>6 DEF HeldExplained, Means
      <4> QED BY <4>1, <3>2, <3>3, <3>4
    <3>6. CASE w = ShutdownNum
      <4>1. PICK i \in wire : /\ i.new = ShutdownNum /\ i.old # ShutdownNum
                              /\ First(s, history, Reach(L, i))
        BY <3>6, <1>2, <1>5, <1>6 DEF HeldExplained, Means
      <4>2. Reach(L, i) >= L[t]
        BY <4>1 DEF Explains, Content, QuitExplained
      <4>3. Reach(L, i) \in Nat
        BY <4>1, <1>6, LenProperties DEF First
      <4>4. L[o] <= L[t] /\ L[o] \in Nat /\ L[t] \in Nat
        BY <3>3, <3>4
      <4>5. Len(held[o]) <= Reach(L, i)
        BY <4>2, <4>3, <4>4, <3>3
      <4> QED BY <4>1, <4>5
    <3> QED BY <3>5, <3>6
  <2> QED BY <2>1, <2>2
<1>10. PICK n : First(s, history, n) /\ Len(held[o]) <= n
  BY <1>9
<1>11. s = SubSeq(history, 1, n) /\ n \in 0..Len(history)
  BY <1>6, <1>10, FirstIsSubSeq
<1>12. n \in Len(held[o])..Len(history)
  BY <1>3, <1>6, <1>10, <1>11, LenProperties
<1> QED BY <1>6, <1>11, <1>12 DEF SinkGrows, o, w

\* A step of the client is a step of the sender that carries the table along.
LEMMA ClientCarries ==
  ASSUME UpstreamInv, NEW L, NEW t, Explains(L, t), [Next]_vars,
         ~ \E m \in wire : ServerRecv(m)
  PROVE  Carried(L, t) /\ held' = held
<1>1. SenderInv
  BY DEF UpstreamInv
<1>2. CASE ClientPush
  BY <1>1, <1>2, QuietContent DEF ClientPush, serverVars
<1>3. CASE ClientIdle
  BY <1>1, <1>3, QuietContent DEF ClientIdle, serverVars
<1>4. CASE ClientSendEmptyAck
  <2>1. PICK k, ok : SendEmptyAck(k, ok)
    BY <1>4 DEF ClientSendEmptyAck
  <2> QED BY <1>1, <1>4, <2>1, SendEmptyAckContent DEF ClientSendEmptyAck, serverVars
<1>5. CASE ClientSendToReceiver
  <2>1. PICK k, ok : SendToReceiver(k, ok)
    BY <1>5 DEF ClientSendToReceiver
  <2> QED BY <1>1, <1>5, <2>1, SendToReceiverContent DEF ClientSendToReceiver, serverVars
<1>6. CASE \E n \in acks : ClientRecvAck(n)
  BY <1>1, <1>6, QuietContent DEF ClientRecvAck, serverVars
<1>7. CASE ClientStartShutdown
  BY <1>1, <1>7, QuietContent DEF ClientStartShutdown, serverVars
<1>8. CASE Return
  BY <1>1, <1>8, QuietContent DEF Return, serverVars
<1>9. CASE UNCHANGED vars
  BY <1>1, <1>9, QuietContent DEF vars
<1> QED BY <1>2, <1>3, <1>4, <1>5, <1>6, <1>7, <1>8, <1>9 DEF Next

\* Every step keeps both ends explained by one table, and moves the server's
\* newest state only forward along the history.
LEMMA NextAgree ==
  ASSUME AgreeInv, [Next]_vars
  PROVE  AgreeInv' /\ SinkGrows
<1>1. UpstreamInv /\ UpstreamInv'
  BY NextInv DEF AgreeInv
<1>2. PICK L, t : Explains(L, t) /\ HeldExplained(L, t)
  BY DEF AgreeInv
<1>3. CASE \E m \in wire : ServerRecv(m)
  <2>1. PICK m \in wire : ServerRecv(m)
    BY <1>3
  <2>2. Explains(L, t)' /\ HeldExplained(L, t)'
    BY <1>1, <1>2, <2>1, ServerRecvAgree
  <2>3. SinkGrows
    BY <1>1, <1>2, <2>1, ServerRecvSink
  <2> QED BY <1>1, <2>2, <2>3 DEF AgreeInv
<1>4. CASE ~ \E m \in wire : ServerRecv(m)
  <2>1. Carried(L, t) /\ held' = held
    BY <1>1, <1>2, <1>4, ClientCarries
  <2>2. history \in Seq(Event) /\ history' \in Seq(Event)
    BY <1>1 DEF UpstreamInv, SenderInv
  <2>3. PICK L2, t2 : /\ Explains(L2, t2)'
                      /\ \A n, s : Means(L, t, history, wire, n, s) => Means(L2, t2, history', wire', n, s)
    BY <1>2, <2>1, <2>2, MeaningCarried
  <2>4. HeldExplained(L2, t2)'
    BY <1>2, <2>1, <2>3 DEF HeldExplained
  <2> QED BY <1>1, <2>1, <2>3, <2>4 DEF AgreeInv, SinkGrows
<1> QED BY <1>3, <1>4

\* One table of lengths explains queue, wire and server in every state.
THEOREM AgreementHolds == Spec => []AgreeInv
<1>1. Init => AgreeInv
  BY InitAgree
<1>2. AgreeInv /\ [Next]_vars => AgreeInv'
  BY NextAgree
<1> QED BY <1>1, <1>2, PTL DEF Spec

\* The invariant contains the agreement of both ends on what a number means.
LEMMA AgreeImpliesStatesAgree ==
  ASSUME AgreeInv
  PROVE  StatesAgree
<1>1. UpstreamInv
  BY DEF AgreeInv
<1>2. PICK L, t : Explains(L, t) /\ HeldExplained(L, t)
  BY DEF AgreeInv
<1> SUFFICES ASSUME NEW i \in 1..Len(sentStates), sentStates[i].num \in DOMAIN held
             PROVE  /\ Forgotten >= 0 /\ Forgotten + Len(sentStates[i].state) <= Len(history)
                    /\ sentStates[i].num # ShutdownNum =>
                          held[sentStates[i].num] = Prefix(Forgotten + Len(sentStates[i].state))
                    /\ sentStates[i].num = ShutdownNum /\ i = 1 =>
                          IsPrefix(Prefix(Forgotten + Len(sentStates[i].state)),
                                   held[sentStates[i].num])
  BY DEF StatesAgree
<1> DEFINE e == sentStates[i]
           c == Forgotten + Len(e.state)
           n == Len(history)
<1>3. /\ history \in Seq(Event) /\ n \in Nat /\ held[e.num] \in Seq(Event)
  BY <1>1, LenProperties DEF UpstreamInv, SenderInv, ServerInv
<1>4. /\ Len(currentState) \in Nat /\ Len(currentState) <= n
      /\ Len(e.state) \in Nat /\ Len(e.state) <= Len(currentState)
  BY <1>1, SenderBasics, EntryFields, LenProperties
     DEF UpstreamInv, QueueOK, Typed, Snapshots, Agrees
<1>5. Covers(history, currentState, e) = c
  BY DEF Covers, Forgotten
<1>6. Forgotten >= 0 /\ c \in 0..n
  BY <1>3, <1>4 DEF Forgotten
<1> HIDE DEF c, e, n
<1>7. ASSUME e.num # ShutdownNum PROVE held[e.num] = Prefix(c)
  <2>1. First(held[e.num], history, L[e.num])
    BY <1>2, <1>7 DEF HeldExplained, Means, e
  <2>2. L[e.num] = c
    BY <1>2, <1>5, <1>7 DEF Explains, Content, QueueExplained, e
  <2> QED BY <2>1, <2>2, <1>3, FirstIsSubSeq DEF Prefix
<1>8. ASSUME e.num = ShutdownNum PROVE IsPrefix(Prefix(c), held[e.num])
  <2>1. PICK m \in wire : /\ m.new = ShutdownNum /\ m.old # ShutdownNum
                          /\ First(held[e.num], history, Reach(L, m))
    BY <1>2, <1>8 DEF HeldExplained, Means, e
  <2>2. c <= Reach(L, m)
    BY <1>2, <1>5, <1>8, <2>1 DEF Explains, Content, QuitExplained, e
  <2> DEFINE s == held[e.num]
             p == Prefix(c)
             r == SubSeq(s, 1, c)
             q == SubSeq(p, 1, c)
  <2>3. /\ Len(s) = Reach(L, m) /\ Len(s) \in Nat /\ c <= Len(s)
        /\ \A x \in 1..Len(s) : s[x] = history[x]
    BY <2>1, <2>2, <1>3, LenProperties DEF First
  <2>4. p \in Seq(Event) /\ Len(p) = c - 1 + 1 /\ \A x \in 1..c - 1 + 1 : p[x] = history[1 + x - 1]
    BY <1>3, <1>6, SubSeqFacts DEF Prefix, n
  <2>5. r \in Seq(Event) /\ Len(r) = c - 1 + 1 /\ \A x \in 1..c - 1 + 1 : r[x] = s[1 + x - 1]
    BY <1>3, <1>6, <2>3, SubSeqFacts
  <2> HIDE DEF p, r, s, q
  <2>6. Len(p) = c /\ \A x \in 1..c : p[x] = history[x]
    BY <2>4, <1>6
  <2>7. q \in Seq(Event) /\ Len(q) = c - 1 + 1 /\ \A x \in 1..c - 1 + 1 : q[x] = p[1 + x - 1]
    BY <1>6, <2>4, <2>6, SubSeqFacts DEF q
  <2>8. Len(r) = c /\ Len(q) = c /\ \A x \in 1..c : r[x] = s[x] /\ q[x] = p[x]
    BY <2>5, <2>7, <1>6
  <2>9. \A x \in 1..c : s[x] = history[x]
    BY <2>3, <1>6
  <2>10. q = r
    BY <2>5, <2>6, <2>7, <2>8, <2>9, SeqEqual
  <2> QED BY <2>3, <2>6, <2>10 DEF IsPrefix, p, q, r, s
<1> QED BY <1>6, <1>7, <1>8 DEF c, e, n

\* For every value of the constants: a number both ends remember stands for the
\* same events at both, through every subtraction, erasure, retransmission and
\* reordering (sender.go:149-160, 261-276, 301-306), and under the shutdown
\* number the server has at least what the client's front records.
THEOREM EndsAgree == Spec => []StatesAgree
<1>1. AgreeInv => StatesAgree
  BY AgreeImpliesStatesAgree
<1> QED BY <1>1, AgreementHolds, PTL

\* For every value of the constants: when the shutdown is acknowledged, the
\* server has everything the user typed before the quit (client.go:208-212,
\* sender.go:372).
THEOREM AckedQuitIsDelivered == Spec => []AckedQuitDelivers
<1>1. AgreeInv => AckedQuitDelivers
  <2> SUFFICES ASSUME AgreeInv, ShutdownAcknowledged
               PROVE  ShutdownNum \in DOMAIN held /\ Len(held[ShutdownNum]) >= quitLen
    BY DEF AckedQuitDelivers
  <2>1. ShutdownNum \in DOMAIN held
    BY DEF AgreeInv, UpstreamInv, FrontHeld, ShutdownAcknowledged
  <2>2. PICK L, t : Explains(L, t) /\ HeldExplained(L, t)
    BY DEF AgreeInv
  <2>3. PICK m \in wire : /\ m.new = ShutdownNum /\ m.old # ShutdownNum
                          /\ First(held[ShutdownNum], history, Reach(L, m))
    BY <2>1, <2>2 DEF HeldExplained, Means
  <2>4. Reach(L, m) >= quitLen
    BY <2>2, <2>3 DEF Explains, Content, QuitExplained
  <2> QED BY <2>1, <2>3, <2>4 DEF First
<1> QED BY <1>1, AgreementHolds, PTL

\* A step of the client changes the history only by appending an event.
LEMMA HistoryStep ==
  ASSUME [Next]_vars
  PROVE  history' = history \/ \E e \in Event : history' = Append(history, e)
BY DEF Next, ClientPush, Push, ClientIdle, CalculateTimers, ClientSendEmptyAck, SendEmptyAck,
       ClientSendToReceiver, SendToReceiver, ClientRecvAck, ProcessAcknowledgmentThrough,
       ClientStartShutdown, StartShutdown, Return, ServerRecv, senderVars, vars

\* For every value of the constants, client, network and server implement the
\* abstract stream: what the server takes for the newest state only ever grows
\* along the user's events, with nothing lost, repeated or reordered.
THEOREM UpstreamRefinesStateSync == Spec => ImplementsStateSync
<1>1. Init => Sync!Init
  <2> SUFFICES ASSUME Init PROVE history = << >> /\ held[Newest(held)] = << >>
    BY DEF Sync!Init
  <2>1. history = << >> /\ DOMAIN held = {0} /\ held[0] = << >>
    BY DEF Init, SenderInit
  <2>2. DOMAIN held \subseteq 0..ShutdownNum /\ DOMAIN held # {}
    BY <2>1, SenderAssumption
  <2>3. Newest(held) = 0
    BY <2>1, <2>2, NewestFacts
  <2> QED BY <2>1, <2>3
<1>2. AgreeInv /\ [Next]_vars => [Sync!Next]_(Sync!syncVars)
  <2> SUFFICES ASSUME AgreeInv, [Next]_vars PROVE [Sync!Next]_(Sync!syncVars)
    OBVIOUS
  <2>1. SinkGrows
    BY NextAgree
  <2>2. CASE held' = held
    <3>1. held'[Newest(held')] = held[Newest(held)]
      BY <2>2
    <3>2. history' = history \/ \E e \in Event : history' = Append(history, e)
      BY HistoryStep
    <3> QED BY <3>1, <3>2 DEF Sync!Next, Sync!Produce, Sync!syncVars
  <2>3. CASE /\ history' = history
             /\ \E n \in Len(held[Newest(held)])..Len(history) :
                    held'[Newest(held')] = SubSeq(history, 1, n)
    BY <2>3 DEF Sync!Next, Sync!Synchronize
  <2> QED BY <2>1, <2>2, <2>3 DEF SinkGrows
<1> QED BY <1>1, <1>2, AgreementHolds, PTL DEF Spec, ImplementsStateSync, Sync!Spec
=============================================================================
