------------------------------- MODULE Upstream -------------------------------
(***************************************************************************)
(* The user's events on their way to the server: the client's Sender, a    *)
(* network that loses, duplicates, delays and reorders, and the receiving  *)
(* half of mosh-server.                                                    *)
(*                                                                         *)
(* The server is not in this repository.  ServerRecv is modelled from what *)
(* sender.go relies on: an instruction is accepted if its reference state  *)
(* is held and its new state is not, states below throwaway_num go, and    *)
(* the newest held number is what the server acknowledges.                 *)
(*                                                                         *)
(* The two message sets only grow: a message may be delivered any number   *)
(* of times, in any order, or never.                                       *)
(***************************************************************************)
EXTENDS Sender

VARIABLES
    held,    \* server: number -> stream, the states it can apply a diff to
    acks,    \* every acknowledgment number the server has sent
    closed   \* client: Run has returned

vars == <<senderVars, held, acks, closed>>

serverVars == <<held, acks>>

Newest(h) == Max(DOMAIN h)

TypeOK ==
    /\ currentState \in Seq(Event) /\ history \in Seq(Event)
    /\ sentStates \in Seq([num : Nat, state : Seq(Event)]) /\ sentStates # << >>
    /\ Len(sentStates) <= MaxSentStates
    /\ assumedReceiverStateIdx \in 1..Len(sentStates)
    /\ shutdownInProgress \in BOOLEAN /\ closed \in BOOLEAN
    /\ shutdownTries \in 0..shutdownRetries
    /\ \A m \in wire : /\ m.old \in Nat /\ m.new \in Nat /\ m.throwaway \in Nat
                     /\ m.diff \in Seq(Event)
    /\ emptyAcks \in 0..MaxEmptyAcks
    /\ quitLen \in -1..MaxEvents
    /\ 0 \in acks /\ acks \subseteq Nat
    /\ \A n \in DOMAIN held : n \in Nat /\ held[n] \in Seq(Event)

Init ==
    /\ SenderInit
    /\ held = [n \in {0} |-> << >>]
    /\ acks = {0}
    /\ closed = FALSE

-----------------------------------------------------------------------------
(* The client's loop.  Run leaves right after the Tick that used the last   *)
(* shutdown try, so nothing else happens between that Tick and Return.      *)

Running == ~closed /\ ~ShutdownAckTimedOut

ClientPush == Running /\ (\E e \in Event : Push(e)) /\ UNCHANGED <<serverVars, closed>>

ClientIdle ==
    Running /\ (\E k \in 1..MaxSentStates : CalculateTimers(k)) /\ UNCHANGED <<serverVars, closed>>

ClientSendEmptyAck ==
    /\ Running
    /\ \E k \in 1..MaxSentStates, ok \in BOOLEAN : SendEmptyAck(k, ok)
    /\ UNCHANGED <<serverVars, closed>>

ClientSendToReceiver ==
    /\ Running
    /\ \E k \in 1..MaxSentStates, ok \in BOOLEAN : SendToReceiver(k, ok)
    /\ UNCHANGED <<serverVars, closed>>

ClientRecvAck(n) ==
    /\ Running
    /\ n \in acks
    /\ ProcessAcknowledgmentThrough(n)
    /\ UNCHANGED <<serverVars, closed>>

ClientStartShutdown == Running /\ StartShutdown /\ UNCHANGED <<serverVars, closed>>

\* Run returns: the shutdown was acknowledged, the tries are used up, or
\* cfg.ShutdownTimeout elapsed.
Return ==
    /\ ~closed /\ shutdownInProgress
    /\ closed' = TRUE
    /\ UNCHANGED <<senderVars, serverVars>>

-----------------------------------------------------------------------------
(* mosh-server *)

\* Accept an instruction, forget the states it throws away, acknowledge.
ServerRecv(m) ==
    /\ m \in wire
    /\ m.new \notin DOMAIN held
    /\ m.old \in DOMAIN held
    /\ held' = [n \in {x \in DOMAIN held : x >= m.throwaway} \cup {m.new} |->
                   IF n = m.new THEN held[m.old] \o m.diff ELSE held[n]]
    /\ acks' = acks \cup {Newest(held')}
    /\ UNCHANGED <<senderVars, closed>>

Next ==
    \/ ClientPush \/ ClientIdle \/ ClientSendEmptyAck \/ ClientSendToReceiver
    \/ \E n \in acks : ClientRecvAck(n)
    \/ ClientStartShutdown \/ Return
    \/ \E m \in wire : ServerRecv(m)

Spec == Init /\ [][Next]_vars

-----------------------------------------------------------------------------
(* Safety *)

\* The first n events of the user's history.
Prefix(n) == SubSeq(history, 1, n)

\* How much of the history the client no longer stores.
Forgotten == Len(history) - Len(currentState)

\* One number means one state: a number both ends remember stands for the same
\* events at both, whatever was subtracted, erased or retransmitted meanwhile
\* (sender.go:301-306, rationalizeStates, addSentState).  The shutdown number
\* is excepted: it is reused while the user can still type, and then the server
\* may have more than the client recorded first.
StatesAgree ==
    \A i \in 1..Len(sentStates) : sentStates[i].num \in DOMAIN held =>
        LET num      == sentStates[i].num
            recorded == Forgotten + Len(sentStates[i].state)
        IN  /\ Forgotten >= 0 /\ recorded <= Len(history)
            /\ num # ShutdownNum => held[num] = Prefix(recorded)
            /\ num = ShutdownNum /\ i = 1 => IsPrefix(Prefix(recorded), held[num])

\* The front of the queue is a state the server still holds (sender.go:64
\* "front = known-received state"), so a diff from it can always be applied:
\* no throwaway number the client ever promised covers it.
FrontHeld == sentStates[1].num \in DOMAIN held

\* The queue is sorted: numbers rise from the front, and only the shutdown
\* number, at the end, occurs more than once (no wrap-around of back.num + 1).
QueueSorted ==
    \A i, j \in 1..Len(sentStates) : i < j =>
        \/ sentStates[i].num < sentStates[j].num
        \/ sentStates[i].num = ShutdownNum /\ sentStates[j].num = ShutdownNum

\* A quit the server acknowledged lost nothing: everything the user typed
\* before the shutdown began has reached the server (client.go:208-212 returns
\* on ShutdownAcknowledged).
AckedQuitDelivers ==
    ShutdownAcknowledged =>
        /\ ShutdownNum \in DOMAIN held
        /\ Len(held[ShutdownNum]) >= quitLen

\* The known-received front never moves back, whatever stale acknowledgment
\* arrives, and neither does the number the server acknowledges.
NoRegress ==
    [][/\ sentStates'[1].num >= sentStates[1].num
       /\ Newest(held') >= Newest(held)]_vars

-----------------------------------------------------------------------------
(* Refinement *)

Sync == INSTANCE StateSync WITH Item <- Event, source <- history, sink <- held[Newest(held)]

\* The sender, the network and the server together are a synchronized stream:
\* what the server takes for the newest state only ever grows along the user's
\* events (sender.go as a whole).
ImplementsStateSync == Sync!Spec

-----------------------------------------------------------------------------
(* Liveness *)

\* A retransmission from the front that the network takes.
Retransmit == Running /\ SendToReceiver(1, TRUE) /\ UNCHANGED <<serverVars, closed>>

\* The instruction the client keeps repeating is eventually delivered; any
\* other message may be lost for ever.
DeliverRetransmission ==
    \E m \in wire : /\ m.old = sentStates[1].num
                  /\ m.new = Last(sentStates).num
                  /\ ServerRecv(m)

\* The server repeats its newest acknowledgment until it gets through.
DeliverAck == sentStates[1].num # Newest(held) /\ ClientRecvAck(Newest(held))

\* During shutdown a send is due every send interval.
ShutdownTick == shutdownInProgress /\ (ClientSendEmptyAck \/ ClientSendToReceiver)

ReturnWhenDone == (ShutdownAcknowledged \/ ShutdownAckTimedOut) /\ Return

Fairness ==
    /\ WF_vars(Retransmit)
    /\ SF_vars(DeliverRetransmission)
    /\ WF_vars(DeliverAck)
    /\ WF_vars(ShutdownTick)
    /\ WF_vars(ReturnWhenDone)

FairSpec == Spec /\ Fairness

\* Every event the user produces reaches the server unless the user quits: the
\* server catches up again and again, so retransmission from the front gets
\* through whatever was erased from the queue (addSentState) or lost.
Delivered == []<>(Len(held[Newest(held)]) = Len(history) \/ shutdownInProgress)

\* Once started, a shutdown ends, even if no message ever gets through and
\* every send fails (sender.go:378 ShutdownAckTimedOut).
QuitEnds == shutdownInProgress ~> closed

=============================================================================
