-------------------------- MODULE DownstreamProofs ---------------------------
(***************************************************************************)
(* The server's output on its way to the screen: the invariants of         *)
(* Downstream, proved for every value of the constants.                    *)
(*                                                                         *)
(* The sending half is the module Sender again, so its invariant and the   *)
(* table of lengths come from SenderProofs.  What is added is the          *)
(* receiver: the number it has rendered stands for the frames it has       *)
(* rendered, and no acknowledgment is above that number.                   *)
(***************************************************************************)
EXTENDS Downstream, SenderProofs

\* The receiver's types.
ReceiverInv ==
    /\ latestNum \in 0..ShutdownNum /\ screen \in Seq(Event) /\ rendered \in Seq(Event)
    /\ acks \subseteq 0..ShutdownNum /\ applyFailures \in Nat

\* The server's front is a state the client has acknowledged.
FrontAcked == sentStates[1].num \in acks

\* The server's host program is silent once it has exited.
QuitIsEnd == shutdownInProgress => quitLen = Len(history)

\* Unless a write to the terminal failed, the screen shows what was rendered.
ScreenWhole == applyFailures = 0 => screen = rendered

\* The number rendered last stands for what has been rendered.
RenderedExplained(L, t) == Means(L, t, history, wire, latestNum, rendered)

\* The inductive invariant.
DownstreamInv ==
    /\ SenderInv /\ ReceiverInv /\ AckOnlyRendered /\ FrontAcked /\ QuitIsEnd /\ ScreenWhole
    /\ \E L, t : Explains(L, t) /\ RenderedExplained(L, t)

\* What the abstract stream allows the rendered frames to do in a step.
RenderedGrows ==
    \/ rendered' = rendered
    \/ /\ history' = history
       /\ \E n \in Len(rendered)..Len(history) : rendered' = SubSeq(history, 1, n)

\* A fresh session satisfies the invariant.
LEMMA DownInit ==
  ASSUME Init
  PROVE  DownstreamInv
<1> DEFINE L == [a \in 0..0 |-> 0]
<1>1. SenderInv /\ Explains(L, 0)
  BY SenderInitInv, InitContent DEF Init
<1>2. /\ latestNum = 0 /\ screen = << >> /\ rendered = << >> /\ ackNum = 0 /\ acks = {0}
      /\ applyFailures = 0 /\ history = << >> /\ sentStates[1].num = 0
      /\ shutdownInProgress = FALSE
  BY DEF Init, SenderInit
<1>3. /\ L[0] = 0 /\ 0 # ShutdownNum /\ 0 \in 0..0 /\ 0 \in 0..ShutdownNum
      /\ Len(<< >>) = 0 /\ << >> \in Seq(Event)
  BY SenderAssumption, EmptySeq
<1> HIDE DEF L
<1>4. RenderedExplained(L, 0)
  BY <1>2, <1>3 DEF RenderedExplained, Means, First
<1>5. ReceiverInv /\ AckOnlyRendered /\ FrontAcked /\ QuitIsEnd /\ ScreenWhole
  BY <1>2, <1>3 DEF ReceiverInv, AckOnlyRendered, FrontAcked, QuitIsEnd, ScreenWhole
<1> QED BY <1>1, <1>4, <1>5 DEF DownstreamInv

-----------------------------------------------------------------------------
(* The server's steps *)

\* A step of the server that preserves the sender's invariant and meaning and
\* leaves the front acknowledged.
LEMMA ServerStep ==
  ASSUME DownstreamInv, NEW L, NEW t, Explains(L, t), RenderedExplained(L, t),
         SenderInv', Carried(L, t), sentStates'[1].num \in acks,
         shutdownInProgress' => quitLen' = Len(history'), UNCHANGED receiverVars
  PROVE  DownstreamInv' /\ rendered' = rendered
<1>1. UNCHANGED <<latestNum, screen, rendered, ackNum, remoteShutdown, acks, applyFailures>>
  BY DEF receiverVars
<1>2. history \in Seq(Event) /\ history' \in Seq(Event)
  BY DEF DownstreamInv, SenderInv
<1>3. PICK L2, t2 : /\ Explains(L2, t2)'
                    /\ \A n, s : Means(L, t, history, wire, n, s) => Means(L2, t2, history', wire', n, s)
  BY <1>2, MeaningCarried
<1>4. RenderedExplained(L2, t2)'
  BY <1>1, <1>3 DEF RenderedExplained
<1>5. /\ ReceiverInv' /\ AckOnlyRendered' /\ ScreenWhole'
  BY <1>1 DEF DownstreamInv, ReceiverInv, AckOnlyRendered, ScreenWhole
<1>6. FrontAcked' /\ QuitIsEnd'
  BY <1>1 DEF FrontAcked, QuitIsEnd
<1> QED BY <1>1, <1>3, <1>4, <1>5, <1>6 DEF DownstreamInv

\* Every step of the server preserves the invariant.
LEMMA ServerStepInv ==
  ASSUME DownstreamInv,
         \/ ServerOutput \/ ServerSendEmptyAck \/ ServerSendToReceiver \/ ServerLogout
         \/ \E n \in acks : ServerRecvAck(n)
  PROVE  DownstreamInv' /\ rendered' = rendered
<1>1. PICK L, t : Explains(L, t) /\ RenderedExplained(L, t)
  BY DEF DownstreamInv
<1>2. /\ SenderInv /\ sentStates[1].num \in acks
      /\ shutdownInProgress => quitLen = Len(history)
  BY DEF DownstreamInv, FrontAcked, QuitIsEnd
<1>3. CASE ServerOutput
  <2>1. PICK e \in Event : Push(e)
    BY <1>3 DEF ServerOutput, ServerAction
  <2>2. ~shutdownInProgress /\ UNCHANGED receiverVars
    BY <1>3 DEF ServerOutput, ServerAction
  <2>3. SenderInv' /\ sentStates'[1].num \in acks /\ ~shutdownInProgress'
    BY <1>2, <2>1, <2>2, PushInv DEF Push
  <2>4. Carried(L, t)
    BY <1>1, <1>2, <2>1, QuietContent
  <2> QED BY <1>1, <2>2, <2>3, <2>4, ServerStep
<1>4. CASE ServerSendEmptyAck
  <2>1. PICK k : SendEmptyAck(k, TRUE)
    BY <1>4 DEF ServerSendEmptyAck, ServerAction
  <2>2. ~ShutdownAckTimedOut /\ UNCHANGED receiverVars
    BY <1>4 DEF ServerSendEmptyAck, ServerAction, ServerRunning
  <2>3. SenderInv' /\ sentStates'[1].num = sentStates[1].num
    BY <1>2, <2>1, <2>2, SendEmptyAckInv
  <2>4. Carried(L, t)
    BY <1>1, <1>2, <2>1, SendEmptyAckContent
  <2>5. shutdownInProgress' => quitLen' = Len(history')
    BY <1>2, <2>1 DEF SendEmptyAck
  <2> QED BY <1>1, <1>2, <2>2, <2>3, <2>4, <2>5, ServerStep
<1>5. CASE ServerSendToReceiver
  <2>1. PICK k : SendToReceiver(k, TRUE)
    BY <1>5 DEF ServerSendToReceiver, ServerAction
  <2>2. ~ShutdownAckTimedOut /\ UNCHANGED receiverVars
    BY <1>5 DEF ServerSendToReceiver, ServerAction, ServerRunning
  <2>3. SenderInv' /\ sentStates'[1].num = sentStates[1].num
    BY <1>2, <2>1, <2>2, SendToReceiverInv
  <2>4. Carried(L, t)
    BY <1>1, <1>2, <2>1, SendToReceiverContent
  <2>5. shutdownInProgress' => quitLen' = Len(history')
    BY <1>2, <2>1 DEF SendToReceiver
  <2> QED BY <1>1, <1>2, <2>2, <2>3, <2>4, <2>5, ServerStep
<1>6. CASE ServerLogout
  <2>1. StartShutdown /\ UNCHANGED receiverVars
    BY <1>6 DEF ServerLogout, ServerAction
  <2>2. SenderInv' /\ sentStates'[1].num \in acks
    BY <1>2, <2>1, StartShutdownInv
  <2>3. Carried(L, t)
    BY <1>1, <1>2, <2>1, QuietContent
  <2>4. shutdownInProgress' => quitLen' = Len(history')
    BY <2>1 DEF StartShutdown
  <2> QED BY <1>1, <2>1, <2>2, <2>3, <2>4, ServerStep
<1>7. CASE \E n \in acks : ServerRecvAck(n)
  <2>1. PICK n \in acks : ProcessAcknowledgmentThrough(n) /\ UNCHANGED receiverVars
    BY <1>7 DEF ServerRecvAck, ServerAction
  <2>2. SenderInv' /\ sentStates'[1].num \in acks
    BY <1>2, <2>1, ProcessAckInv
  <2>3. Carried(L, t)
    BY <1>1, <1>2, <2>1, QuietContent
  <2>4. shutdownInProgress' => quitLen' = Len(history')
    BY <1>2, <2>1 DEF ProcessAcknowledgmentThrough
  <2> QED BY <1>1, <2>1, <2>2, <2>3, <2>4, ServerStep
<1> QED BY <1>3, <1>4, <1>5, <1>6, <1>7

-----------------------------------------------------------------------------
(* The client's steps *)

\* A step of the client leaves the sender's half of the invariant alone.
LEMMA SenderAside ==
  ASSUME DownstreamInv, UNCHANGED senderVars
  PROVE  /\ SenderInv' /\ QuitIsEnd' /\ history' = history /\ wire' = wire
         /\ sentStates' = sentStates /\ \A L, t : Explains(L, t) => Explains(L, t)'
<1>1. UNCHANGED <<currentState, sentStates, wire, history, shutdownInProgress, quitLen>>
  BY DEF senderVars
<1>2. SenderInv'
  BY SenderUnchanged DEF DownstreamInv
<1>3. ASSUME NEW L, NEW t, Explains(L, t) PROVE Explains(L, t)'
  BY <1>1, <1>3 DEF Explains
<1> QED BY <1>1, <1>2, <1>3 DEF DownstreamInv, QuitIsEnd

\* Painting an acceptable diff in full (transport.go:84-107) moves the rendered
\* frames to what the new number stands for.
LEMMA ClientRecvInv ==
  ASSUME DownstreamInv, NEW m \in wire, ClientRecv(m)
  PROVE  DownstreamInv' /\ RenderedGrows
<1>1. UNCHANGED senderVars /\ acks' = acks /\ applyFailures' = applyFailures
  BY DEF ClientRecv
<1>2. /\ SenderInv' /\ QuitIsEnd' /\ history' = history /\ wire' = wire
      /\ sentStates' = sentStates /\ \A L, t : Explains(L, t) => Explains(L, t)'
  BY <1>1, SenderAside
<1>3. PICK L, t : Explains(L, t) /\ RenderedExplained(L, t)
  BY DEF DownstreamInv
<1>4. /\ latestNum \in 0..ShutdownNum /\ rendered \in Seq(Event) /\ screen \in Seq(Event)
      /\ m.old \in 0..ShutdownNum /\ m.new \in 0..ShutdownNum /\ m.diff \in Seq(Event)
      /\ history \in Seq(Event) /\ acks \subseteq 0..ShutdownNum /\ applyFailures \in Nat
      /\ ackNum = latestNum /\ \A n \in acks : n <= latestNum
  BY DEF DownstreamInv, ReceiverInv, SenderInv, AckOnlyRendered
<1>5. FrontAcked'
  BY <1>1, <1>2 DEF DownstreamInv, FrontAcked
<1>6. CASE Acceptable(m)
  <2>1. /\ screen' = screen \o m.diff /\ rendered' = rendered \o m.diff /\ latestNum' = m.new
        /\ ackNum' = Max({ackNum, m.new}) /\ m.new > latestNum /\ m.old = latestNum
    BY <1>6 DEF ClientRecv, AckNumAfter, Acceptable
  <2>2. m.old # ShutdownNum
    <3>1. m.old = ShutdownNum => m.new = ShutdownNum
      BY <1>3 DEF Explains, Content, QuitExplained
    <3> QED BY <3>1, <2>1, <1>4, SenderAssumption
  <2>3. Means(L, t, history, wire, m.old, rendered)
    BY <1>3, <2>1 DEF RenderedExplained
  <2>4. /\ Means(L, t, history, wire, m.new, rendered \o m.diff)
        /\ First(rendered \o m.diff, history, Reach(L, m)) /\ Len(rendered) <= Reach(L, m)
    BY <1>3, <1>4, <2>2, <2>3, ApplyDiff
  <2>5. rendered' \in Seq(Event) /\ screen' \in Seq(Event)
    BY <1>4, <2>1, ConcatProperties
  <2>6. RenderedExplained(L, t)'
    BY <1>2, <2>1, <2>4 DEF RenderedExplained
  <2>7. ackNum' = m.new
    <3>1. {ackNum, m.new} \in SUBSET Nat /\ {ackNum, m.new} # {} /\ m.new \in Nat
          /\ \A x \in {ackNum, m.new} : x <= m.new
      BY <1>4, <2>1, SenderAssumption
    <3>2. Max({ackNum, m.new}) \in {ackNum, m.new} /\ \A x \in {ackNum, m.new} : Max({ackNum, m.new}) >= x
      BY <3>1, MaxNat
    <3> QED BY <2>1, <3>2, <1>4, SenderAssumption
  <2>8. AckOnlyRendered'
    <3> SUFFICES ASSUME NEW n \in acks PROVE n <= m.new
      BY <1>1, <2>1, <2>7 DEF AckOnlyRendered
    <3>1. n \in Nat /\ n <= latestNum /\ latestNum \in Nat /\ m.new \in Nat
      BY <1>4, SenderAssumption
    <3> QED BY <3>1, <2>1
  <2>9. ReceiverInv' /\ ScreenWhole'
    <3>1. ReceiverInv'
      BY <1>1, <1>4, <2>1, <2>5 DEF ReceiverInv
    <3>2. applyFailures = 0 => screen = rendered
      BY DEF DownstreamInv, ScreenWhole
    <3> QED BY <1>1, <2>1, <3>1, <3>2 DEF ScreenWhole
  <2>10. DownstreamInv'
    BY <1>2, <1>3, <1>5, <2>6, <2>8, <2>9 DEF DownstreamInv
  <2>11. rendered' = SubSeq(history, 1, Reach(L, m)) /\ Reach(L, m) \in 0..Len(history)
    BY <1>4, <2>1, <2>4, <2>5, FirstIsSubSeq
  <2>12. Reach(L, m) \in Len(rendered)..Len(history)
    BY <1>4, <2>4, <2>11, LenProperties
  <2> QED BY <1>2, <2>10, <2>11, <2>12 DEF RenderedGrows
<1>7. CASE ~Acceptable(m)
  <2>1. UNCHANGED <<screen, rendered, latestNum, ackNum>>
    BY <1>7 DEF ClientRecv, AckNumAfter
  <2>2. RenderedExplained(L, t)'
    BY <1>2, <1>3, <2>1 DEF RenderedExplained
  <2>3. AckOnlyRendered' /\ ReceiverInv' /\ ScreenWhole'
    BY <1>1, <2>1 DEF DownstreamInv, AckOnlyRendered, ReceiverInv, ScreenWhole
  <2> QED BY <1>2, <1>3, <1>5, <2>1, <2>2, <2>3 DEF DownstreamInv, RenderedGrows
<1> QED BY <1>6, <1>7

\* A write to the terminal that fails half-way (transport.go:92-94) changes
\* neither the number rendered, nor what it stands for, nor the acknowledgment.
LEMMA ApplyFailsInv ==
  ASSUME DownstreamInv, NEW m \in wire, ClientRecvApplyFails(m)
  PROVE  DownstreamInv' /\ rendered' = rendered
<1>1. /\ UNCHANGED senderVars /\ applyFailures' = applyFailures + 1
      /\ UNCHANGED <<rendered, ackNum, acks>> /\ latestNum' = latestNum
      /\ \E n \in 0..(Len(m.diff) - 1) : screen' = screen \o SubSeq(m.diff, 1, n)
  BY DEF ClientRecvApplyFails, LatestAfterFailedApply
<1>2. /\ SenderInv' /\ QuitIsEnd' /\ history' = history /\ wire' = wire
      /\ sentStates' = sentStates /\ \A L, t : Explains(L, t) => Explains(L, t)'
  BY <1>1, SenderAside
<1>3. PICK L, t : Explains(L, t) /\ RenderedExplained(L, t)
  BY DEF DownstreamInv
<1>4. RenderedExplained(L, t)'
  BY <1>1, <1>2, <1>3 DEF RenderedExplained
<1>5. screen' \in Seq(Event)
  <2>1. PICK n \in 0..(Len(m.diff) - 1) : screen' = screen \o SubSeq(m.diff, 1, n)
    BY <1>1
  <2>2. m.diff \in Seq(Event) /\ screen \in Seq(Event) /\ Len(m.diff) \in Nat
    BY LenProperties DEF DownstreamInv, SenderInv, ReceiverInv
  <2>3. n \in Nat /\ 1 \in Nat /\ 1 <= 1 /\ 1 <= n + 1 /\ n <= Len(m.diff)
    BY <2>2
  <2>4. SubSeq(m.diff, 1, n) \in Seq(Event)
    BY <2>2, <2>3, SubSeqFacts
  <2> QED BY <2>1, <2>2, <2>4, ConcatProperties
<1>6. ReceiverInv' /\ ScreenWhole'
  BY <1>1, <1>5 DEF DownstreamInv, ReceiverInv, ScreenWhole
<1>7. AckOnlyRendered' /\ FrontAcked'
  BY <1>1, <1>2 DEF DownstreamInv, AckOnlyRendered, FrontAcked
<1> QED BY <1>1, <1>2, <1>3, <1>4, <1>6, <1>7 DEF DownstreamInv

\* Sending an acknowledgment, and the client's own handshake.
LEMMA ClientQuietInv ==
  ASSUME DownstreamInv, UNCHANGED senderVars,
         UNCHANGED <<latestNum, screen, rendered, ackNum, applyFailures>>,
         acks' = acks \/ acks' = acks \cup {ackNum}
  PROVE  DownstreamInv'
<1>1. /\ SenderInv' /\ QuitIsEnd' /\ history' = history /\ wire' = wire
      /\ sentStates' = sentStates /\ \A L, t : Explains(L, t) => Explains(L, t)'
  BY SenderAside
<1>2. PICK L, t : Explains(L, t) /\ RenderedExplained(L, t)
  BY DEF DownstreamInv
<1>3. RenderedExplained(L, t)'
  BY <1>1, <1>2 DEF RenderedExplained
<1>4. ackNum = latestNum /\ latestNum \in 0..ShutdownNum
  BY DEF DownstreamInv, AckOnlyRendered, ReceiverInv
<1>5. ReceiverInv' /\ ScreenWhole' /\ FrontAcked'
  BY <1>1, <1>4 DEF DownstreamInv, ReceiverInv, ScreenWhole, FrontAcked
<1>6. AckOnlyRendered'
  BY <1>4, SenderAssumption DEF DownstreamInv, AckOnlyRendered
<1> QED BY <1>1, <1>2, <1>3, <1>5, <1>6 DEF DownstreamInv

-----------------------------------------------------------------------------

\* Every step preserves the invariant, and the rendered frames only grow along
\* the server's output.
LEMMA DownNext ==
  ASSUME DownstreamInv, [Next]_vars
  PROVE  DownstreamInv' /\ RenderedGrows
<1>1. CASE \/ ServerOutput \/ ServerSendEmptyAck \/ ServerSendToReceiver \/ ServerLogout
           \/ \E n \in acks : ServerRecvAck(n)
  BY <1>1, ServerStepInv DEF RenderedGrows
<1>2. CASE \E m \in wire : ClientRecv(m) \/ ClientRecvApplyFails(m)
  BY <1>2, ClientRecvInv, ApplyFailsInv DEF RenderedGrows
<1>3. CASE ClientSendAck
  BY <1>3, ClientQuietInv DEF ClientSendAck, RenderedGrows
<1>4. CASE ClientStartShutdown \/ ClientShutdownAcked \/ ClientReturn \/ UNCHANGED vars
  <2>1. UNCHANGED senderVars /\ UNCHANGED receiverVars
    BY <1>4 DEF ClientStartShutdown, ClientShutdownAcked, ClientReturn, vars
  <2> QED BY <2>1, ClientQuietInv DEF receiverVars, RenderedGrows
<1> QED BY <1>1, <1>2, <1>3, <1>4 DEF Next

\* The inductive invariant holds in every state of server, network and client.
THEOREM DownstreamHolds == Spec => []DownstreamInv
<1>1. Init => DownstreamInv
  BY DownInit
<1>2. DownstreamInv /\ [Next]_vars => DownstreamInv'
  BY DownNext
<1> QED BY <1>1, <1>2, PTL DEF Spec

\* For every value of the constants: no acknowledgment is ever above what the
\* client has rendered (transport.go:96-107), shutdown and failed writes
\* included, so the server never discards the state on the screen.
THEOREM AcksOnlyRendered == Spec => []AckOnlyRendered
<1>1. DownstreamInv => AckOnlyRendered
  BY DEF DownstreamInv
<1> QED BY <1>1, DownstreamHolds, PTL

\* For every value of the constants: the frames rendered are exactly the state
\* that latestNum names (transport.go:28-30), as long as the server remembers
\* it, and without failed writes they are what the screen shows.
THEOREM LatestIsRendered == Spec => []RenderedIsLatest
<1>1. DownstreamInv => RenderedIsLatest
  <2> SUFFICES ASSUME DownstreamInv PROVE RenderedIsLatest
    OBVIOUS
  <2>1. applyFailures = 0 => screen = rendered
    BY DEF DownstreamInv, ScreenWhole
  <2>2. PICK L, t : Explains(L, t) /\ RenderedExplained(L, t)
    BY DEF DownstreamInv
  <2>3. ASSUME NEW i \in 1..Len(sentStates), sentStates[i].num = latestNum, latestNum # ShutdownNum
        PROVE  rendered = SubSeq(history, 1, Len(history) - Len(currentState) + Len(sentStates[i].state))
    <3>1. First(rendered, history, L[latestNum])
      BY <2>2, <2>3 DEF RenderedExplained, Means
    <3>2. L[latestNum] = Len(history) - Len(currentState) + Len(sentStates[i].state)
      BY <2>2, <2>3 DEF Explains, Content, QueueExplained, Covers
    <3>3. rendered \in Seq(Event) /\ history \in Seq(Event)
      BY DEF DownstreamInv, ReceiverInv, SenderInv
    <3> QED BY <3>1, <3>2, <3>3, FirstIsSubSeq
  <2> QED BY <2>1, <2>3 DEF RenderedIsLatest
<1> QED BY <1>1, DownstreamHolds, PTL

\* For every value of the constants: when the server's shutdown is acknowledged
\* the client has rendered all of its output (transport.go:76-77).
THEOREM LastOutputRendered == Spec => []ServerExitsRendered
<1>1. DownstreamInv => ServerExitsRendered
  <2> SUFFICES ASSUME DownstreamInv, ShutdownAcknowledged PROVE rendered = history
    BY DEF ServerExitsRendered
  <2>1. shutdownInProgress /\ sentStates[1].num = ShutdownNum
    BY DEF ShutdownAcknowledged
  <2>2. latestNum = ShutdownNum
    BY <2>1, SenderAssumption DEF DownstreamInv, FrontAcked, AckOnlyRendered, ReceiverInv
  <2>3. PICK L, t : Explains(L, t) /\ RenderedExplained(L, t)
    BY DEF DownstreamInv
  <2>4. PICK m \in wire : /\ m.new = ShutdownNum /\ m.old # ShutdownNum
                          /\ First(rendered, history, Reach(L, m))
    BY <2>2, <2>3 DEF RenderedExplained, Means
  <2>5. Reach(L, m) >= Len(history)
    BY <2>1, <2>3, <2>4 DEF Explains, Content, QuitExplained, DownstreamInv, QuitIsEnd
  <2>6. rendered \in Seq(Event) /\ history \in Seq(Event)
    BY DEF DownstreamInv, ReceiverInv, SenderInv
  <2>7. Len(rendered) = Len(history) /\ \A p \in 1..Len(rendered) : rendered[p] = history[p]
    <3>1. Len(rendered) \in Nat /\ Len(history) \in Nat
      BY <2>6, LenProperties
    <3> QED BY <3>1, <2>4, <2>5 DEF First
  <2> QED BY <2>6, <2>7, SeqEqual
<1> QED BY <1>1, DownstreamHolds, PTL

\* A step changes the server's output only by appending a frame.
LEMMA OutputStep ==
  ASSUME [Next]_vars
  PROVE  history' = history \/ (rendered' = rendered /\ \E e \in Event : history' = Append(history, e))
BY DEF Next, ServerOutput, ServerSendEmptyAck, ServerSendToReceiver, ServerLogout, ServerRecvAck,
       ServerAction, Push, SendEmptyAck, SendToReceiver, StartShutdown,
       ProcessAcknowledgmentThrough, ClientRecv, ClientRecvApplyFails, ClientSendAck,
       ClientStartShutdown, ClientShutdownAcked, ClientReturn, senderVars, receiverVars, vars

\* For every value of the constants, server, network and the client's receiver
\* implement the abstract stream: what is rendered only ever grows along the
\* server's output, also when writes to the terminal fail in between.
THEOREM DownstreamRefinesStateSync == Spec => ImplementsStateSync
<1>1. Init => Sync!Init
  BY DEF Init, SenderInit, Sync!Init
<1>2. DownstreamInv /\ [Next]_vars => [Sync!Next]_(Sync!syncVars)
  <2> SUFFICES ASSUME DownstreamInv, [Next]_vars PROVE [Sync!Next]_(Sync!syncVars)
    OBVIOUS
  <2>1. RenderedGrows
    BY DownNext
  <2>2. CASE rendered' = rendered
    BY <2>2, OutputStep DEF Sync!Next, Sync!Produce, Sync!syncVars
  <2>3. CASE /\ history' = history
             /\ \E n \in Len(rendered)..Len(history) : rendered' = SubSeq(history, 1, n)
    BY <2>3 DEF Sync!Next, Sync!Synchronize
  <2> QED BY <2>1, <2>2, <2>3 DEF RenderedGrows
<1> QED BY <1>1, <1>2, DownstreamHolds, PTL DEF Spec, ImplementsStateSync, Sync!Spec
=============================================================================
