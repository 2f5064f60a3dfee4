------------------------------ MODULE Downstream ------------------------------
(***************************************************************************)
(* The terminal's contents on their way to the user: the client's receiver *)
(* (internal/transport/transport.go Recv, internal/client apply) and the   *)
(* sending half of mosh-server.                                            *)
(*                                                                         *)
(* The server is not in this repository; sender.go is "a direct port of    *)
(* mosh's TransportSender", so the server is the same module Sender, its   *)
(* events being screen updates (frames).  The diff between two states is   *)
(* the frames the newer one adds; painting a diff appends its frames to    *)
(* what the screen has shown.                                              *)
(*                                                                         *)
(* As in Upstream the message sets only grow.                              *)
(***************************************************************************)
EXTENDS Sender

CONSTANT MaxApplyFailures  \* bound: how often a write to the terminal fails

ASSUME ApplyAssumption == MaxApplyFailures \in Nat

VARIABLES
    latestNum,       \* client: number of the state it has rendered
    screen,          \* client: the frames painted, in order
    rendered,        \* ghost: the frames of the diffs painted in full
    ackNum,          \* client: what its next instruction acknowledges
    remoteShutdown,  \* client: the server has begun to shut down
    ownShutdown,     \* client: its own handshake: "no", "started", "acked"
    clientClosed,    \* client: Run has returned
    acks,            \* every acknowledgment number the client has sent
    applyFailures    \* ghost: how often Apply has failed

receiverVars == <<latestNum, screen, rendered, ackNum, remoteShutdown, acks, applyFailures>>

vars == <<senderVars, receiverVars, ownShutdown, clientClosed>>

Init ==
    /\ SenderInit
    /\ latestNum = 0 /\ screen = << >> /\ rendered = << >> /\ ackNum = 0
    /\ remoteShutdown = FALSE
    /\ ownShutdown = "no" /\ clientClosed = FALSE
    /\ acks = {0}
    /\ applyFailures = 0

-----------------------------------------------------------------------------
(* mosh-server *)

ServerRunning == ~ShutdownAckTimedOut

ServerAction(A) == ServerRunning /\ A /\ UNCHANGED <<receiverVars, ownShutdown, clientClosed>>

\* The host program writes to the terminal until it exits.
ServerOutput == ServerAction(~shutdownInProgress /\ \E e \in Event : Push(e))

ServerSendEmptyAck == ServerAction(\E k \in 1..MaxSentStates : SendEmptyAck(k, TRUE))

ServerSendToReceiver == ServerAction(\E k \in 1..MaxSentStates : SendToReceiver(k, TRUE))

ServerRecvAck(n) == ServerAction(n \in acks /\ ProcessAcknowledgmentThrough(n))

ServerLogout == ServerAction(StartShutdown)

-----------------------------------------------------------------------------
(* The client's receiver *)

\* Slip: accepts a diff from any older reference.
AcceptableFromOlder(m) == m.new > latestNum /\ m.old <= latestNum

\* Recv's acceptance rule: newer than the screen, and a diff from the screen.
Acceptable(m) == m.new > latestNum /\ m.old = latestNum

\* Slip: records the new state even if painting it failed.
LatestMovedAnyway(m) == m.new

\* Recv returns Apply's error before it touches latestNum.
LatestAfterFailedApply(m) == latestNum

\* Slip: the acknowledgment does not wait for the diff to be acceptable.
AckNumEager(m) == IF m.new = ShutdownNum \/ Acceptable(m) THEN Max({ackNum, m.new}) ELSE ackNum

\* Slip: renders but forgets to acknowledge states without the shutdown number.
AckNumForgotten(m) == IF Acceptable(m) /\ m.new = ShutdownNum THEN m.new ELSE ackNum

\* SetAckNum, reached only once the diff is on the screen.
AckNumAfter(m) == IF Acceptable(m) THEN Max({ackNum, m.new}) ELSE ackNum

\* Recv of a complete instruction whose diff, if any, was written in full.
ClientRecv(m) ==
    /\ ~clientClosed
    /\ m \in wire
    /\ remoteShutdown' = (remoteShutdown \/ m.new = ShutdownNum)
    /\ IF Acceptable(m)
       THEN screen' = screen \o m.diff /\ rendered' = rendered \o m.diff /\ latestNum' = m.new
       ELSE UNCHANGED <<screen, rendered, latestNum>>
    /\ ackNum' = AckNumAfter(m)
    /\ UNCHANGED <<senderVars, acks, applyFailures, ownShutdown, clientClosed>>

\* Recv of an acceptable instruction whose Apply fails: some of the diff may be
\* on the terminal, and the error returns before latestNum and the ack move.
ClientRecvApplyFails(m) ==
    /\ applyFailures < MaxApplyFailures
    /\ applyFailures' = applyFailures + 1
    /\ ~clientClosed
    /\ m \in wire
    /\ Acceptable(m) /\ m.diff # << >>
    /\ remoteShutdown' = (remoteShutdown \/ m.new = ShutdownNum)
    /\ \E n \in 0..(Len(m.diff) - 1) : screen' = screen \o SubSeq(m.diff, 1, n)
    /\ latestNum' = LatestAfterFailedApply(m)
    /\ UNCHANGED <<senderVars, rendered, ackNum, acks, ownShutdown, clientClosed>>

\* Any instruction of the client carries ackNum.
ClientSendAck ==
    /\ ~clientClosed
    /\ acks' = acks \cup {ackNum}
    /\ UNCHANGED <<senderVars, latestNum, screen, rendered, ackNum, remoteShutdown, applyFailures,
                   ownShutdown, clientClosed>>

\* Run: a remote shutdown starts the client's own handshake.
ClientStartShutdown ==
    /\ ~clientClosed /\ remoteShutdown /\ ownShutdown = "no"
    /\ ownShutdown' = "started"
    /\ UNCHANGED <<senderVars, receiverVars, clientClosed>>

\* The server's acknowledgment of the client's shutdown state, which rides on
\* any later instruction, accepted or not (Recv handles acks first).
ClientShutdownAcked ==
    /\ ~clientClosed /\ ownShutdown = "started"
    /\ ownShutdown' = "acked"
    /\ UNCHANGED <<senderVars, receiverVars, clientClosed>>

\* Run returns as soon as its own shutdown is acknowledged.
ClientReturn ==
    /\ ~clientClosed /\ ownShutdown = "acked"
    /\ clientClosed' = TRUE
    /\ UNCHANGED <<senderVars, receiverVars, ownShutdown>>

Next ==
    \/ ServerOutput \/ ServerSendEmptyAck \/ ServerSendToReceiver \/ ServerLogout
    \/ \E n \in acks : ServerRecvAck(n)
    \/ \E m \in wire : ClientRecv(m) \/ ClientRecvApplyFails(m)
    \/ ClientSendAck \/ ClientStartShutdown \/ ClientShutdownAcked \/ ClientReturn

Spec == Init /\ [][Next]_vars

-----------------------------------------------------------------------------
(* Safety *)

\* latestNum names what is on the screen (transport.go:28-30): if the server
\* still remembers the state of that number, the client has rendered exactly
\* that state, whatever order diffs came in and whichever writes to the
\* terminal failed.  Unless one failed half-way, and is painted again, that is
\* all the screen shows: nothing is painted twice (transport.go:84-94).
RenderedIsLatest ==
    /\ \A i \in 1..Len(sentStates) :
           sentStates[i].num = latestNum /\ latestNum # ShutdownNum
           => rendered = SubSeq(history, 1, Len(history) - Len(currentState)
                                                + Len(sentStates[i].state))
    /\ applyFailures = 0 => screen = rendered

\* The client acknowledges only what it has rendered, also when a shutdown
\* instruction arrives out of turn: no acknowledgment in flight is above
\* latestNum, so the server never discards the state on the screen.
AckOnlyRendered == ackNum = latestNum /\ \A n \in acks : n <= latestNum

\* The server leaves its shutdown by acknowledgment only with the last output
\* on the user's screen (transport.go:76-77), also if writes to the terminal
\* failed before.
ServerExitsRendered == ShutdownAcknowledged => rendered = history

-----------------------------------------------------------------------------
(* Refinement *)

Sync == INSTANCE StateSync WITH Item <- Event, source <- history, sink <- rendered

\* The server, the network and the client's receiver together are a
\* synchronized stream: what the client has rendered in full only ever grows
\* along the server's output (transport.go Recv), also when writes to the
\* terminal fail in between.
ImplementsStateSync == Sync!Spec

-----------------------------------------------------------------------------
(* Liveness *)

ServerRetransmit == ServerAction(SendToReceiver(1, TRUE))

\* The instruction the server keeps repeating is eventually delivered.
DeliverRetransmission ==
    \E m \in wire : /\ m.old = sentStates[1].num
                    /\ m.new = Last(sentStates).num
                    /\ ClientRecv(m)

DeliverAck == ServerRecvAck(ackNum) /\ sentStates[1].num # ackNum

Fairness ==
    /\ WF_vars(ServerRetransmit)
    /\ SF_vars(DeliverRetransmission)
    /\ WF_vars(ClientSendAck)
    /\ WF_vars(DeliverAck)

FairSpec == Spec /\ Fairness

\* Everything the server outputs is eventually on the screen, "the server
\* converges by re-diffing from our last ack" (transport.go:92), unless a
\* shutdown intervenes or the server's full queue has erased the one state the
\* client can take a diff from.
Converges ==
    \/ []<>(Len(rendered) = Len(history) \/ shutdownInProgress)
    \/ <>[](\A i \in 1..Len(sentStates) : sentStates[i].num # latestNum)

=============================================================================
