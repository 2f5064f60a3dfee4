-------------------------------- MODULE Sender --------------------------------
(***************************************************************************)
(* The outgoing half of the transport (internal/transport/sender.go): a    *)
(* queue of numbered snapshots of the user's event stream, diffs between   *)
(* them, acknowledgments that cut the queue, and the shutdown handshake.   *)
(*                                                                         *)
(* Time is abstracted: whether a send is due and which sent state is still *)
(* recent enough to be given the benefit of the doubt are choices.  The    *)
(* choice of k in 1..Len(sentStates) is the value updateAssumedReceiver-   *)
(* State may leave (the retransmission timeout it compares with is read    *)
(* once per element while the receiving goroutine may change it).          *)
(* TimedSender keeps the clock and the timers.                             *)
(*                                                                         *)
(* Sequences are numbered from 1 here, so index i is the code's i-1.       *)
(***************************************************************************)
EXTENDS UserStream

CONSTANTS MaxSentStates,   \* queue length that triggers an erase (code: 32)
          EraseFromEnd,    \* which element is erased, counted from the end (16)
          shutdownRetries, \* transmissions of the shutdown state (16)
          ShutdownNum,     \* the number of the shutdown state (2^64 - 1)
          MaxEvents,       \* bound: events the user produces
          MaxEmptyAcks     \* bound: new numbers minted by empty acks

ASSUME SenderAssumption ==
    /\ MaxSentStates \in Nat /\ EraseFromEnd \in Nat
    /\ 2 <= EraseFromEnd /\ EraseFromEnd <= MaxSentStates
    /\ shutdownRetries \in Nat \ {0}
    /\ MaxEvents \in Nat /\ MaxEmptyAcks \in Nat
    /\ ShutdownNum \in Nat /\ MaxEvents + MaxEmptyAcks < ShutdownNum

VARIABLES
    currentState,            \* the stream not yet known to be received
    sentStates,              \* sequence of [num, state]; first = known received
    assumedReceiverStateIdx, \* index the next diff is computed from
    shutdownInProgress,
    shutdownTries,
    wire,                    \* every instruction handed to the network
    history,                 \* ghost: every event the user produced
    emptyAcks,               \* ghost: empty acks that minted a number
    quitLen                  \* ghost: Len(history) when shutdown began, or -1

senderVars == <<currentState, sentStates, assumedReceiverStateIdx,
                shutdownInProgress, shutdownTries, wire, history, emptyAcks, quitLen>>

\* uint64 arithmetic: back.num + 1 wraps at ShutdownNum.
NextNum(n) == (n + 1) % (ShutdownNum + 1)

SenderInit ==
    /\ currentState = << >>
    /\ sentStates = <<[num |-> 0, state |-> << >>]>>
    /\ assumedReceiverStateIdx = 1
    /\ shutdownInProgress = FALSE
    /\ shutdownTries = 0
    /\ wire = {}
    /\ history = << >>
    /\ emptyAcks = 0
    /\ quitLen = -1

-----------------------------------------------------------------------------
(* Helpers on the queue *)

\* Slip: walks the queue upwards, so the front is emptied before it has been
\* subtracted from the others.
RationalizedUpwards(sent) == [sent EXCEPT ![1].state = << >>]

\* rationalizeStates cuts the front's events from every snapshot (the front
\* itself last, so `known` keeps its value during the loop) ...
Rationalized(sent) ==
    [i \in 1..Len(sent) |-> [sent[i] EXCEPT !.state = Subtract(@, sent[1].state)]]

\* ... and from the current state.
RationalizedCurrent == Subtract(currentState, sentStates[1].state)

\* Position erased when the queue has outgrown the limit.
EraseIdx(len) == len - EraseFromEnd + 1

\* Slip: erases the oldest element, which is the known-received front.
AddSentStateEraseFront(sent, entry) ==
    IF Len(sent) + 1 > MaxSentStates THEN Tail(Append(sent, entry)) ELSE Append(sent, entry)

\* Slip: never erases.
AddSentStateUnbounded(sent, entry) == Append(sent, entry)

\* addSentState: append, and erase one element from the middle when the queue
\* is over its limit.
AddSentState(sent, entry) ==
    LET longer == Append(sent, entry)
    IN  IF Len(longer) > MaxSentStates THEN RemoveAt(longer, EraseIdx(Len(longer))) ELSE longer

\* addSentState's adjustment of the assumed index after an erase.
AssumedAfterAdd(assumed, len) ==
    IF len + 1 > MaxSentStates /\ assumed >= EraseIdx(len + 1) /\ assumed > 1
    THEN assumed - 1
    ELSE assumed

\* Slip: the reference is the newest sent state whatever the diff is from.
InstructionFromBack(sent, k, newNum, diff) ==
    [old |-> Last(sent).num, new |-> newNum, throwaway |-> sent[1].num, diff |-> diff]

\* Slip: promises that everything before the assumed state may go.
InstructionThrowAssumed(sent, k, newNum, diff) ==
    [old |-> sent[k].num, new |-> newNum, throwaway |-> newNum, diff |-> diff]

\* sendInFragments: the instruction for a diff from the assumed state.
Instruction(sent, k, newNum, diff) ==
    [old |-> sent[k].num, new |-> newNum, throwaway |-> sent[1].num, diff |-> diff]

\* Slip: the shutdown tries are not counted.
CountTryNot(newNum) == UNCHANGED shutdownTries

\* sendInFragments counts an attempt at the shutdown state before sending it.
CountTry(newNum) ==
    shutdownTries' = IF newNum = ShutdownNum THEN shutdownTries + 1 ELSE shutdownTries

-----------------------------------------------------------------------------
(* Operations *)

\* PushKeys and PushResize on the current state, one event at a time.
Push(e) ==
    /\ Len(history) < MaxEvents
    /\ currentState' = Append(currentState, e)
    /\ history' = Append(history, e)
    /\ UNCHANGED <<sentStates, assumedReceiverStateIdx, shutdownInProgress,
                   shutdownTries, wire, emptyAcks, quitLen>>

\* WaitTime, and a Tick that finds nothing due: calculateTimers only.
CalculateTimers(k) ==
    /\ k \in 1..Len(sentStates)
    /\ assumedReceiverStateIdx' = k
    /\ currentState' = RationalizedCurrent
    /\ sentStates' = Rationalized(sentStates)
    /\ UNCHANGED <<shutdownInProgress, shutdownTries, wire, history, emptyAcks, quitLen>>

\* Slip: an empty ack always gets the next number.
EmptyAckNumPlain(sent) == NextNum(Last(sent).num)

\* The number an empty ack announces.
EmptyAckNum(sent) == IF shutdownInProgress THEN ShutdownNum ELSE NextNum(Last(sent).num)

\* Slip: a shutdown is announced without looking at what is still unsent.
NothingToSendOrQuit(k) ==
    \/ shutdownInProgress
    \/ Suffix(RationalizedCurrent, Rationalized(sentStates)[k].state) = << >>

\* Tick's choice: the diff from the assumed state is empty.
NothingToSend(k) ==
    Suffix(RationalizedCurrent, Rationalized(sentStates)[k].state) = << >>

\* A Tick whose ack is due and whose diff is empty (sendEmptyAck).  Nothing is
\* recorded when the network refuses the datagram.
SendEmptyAck(k, ok) ==
    LET sent   == Rationalized(sentStates)
        newNum == EmptyAckNum(sent)
    IN  /\ k \in 1..Len(sentStates)
        /\ NothingToSend(k)
        /\ emptyAcks < MaxEmptyAcks \/ shutdownInProgress
        /\ currentState' = RationalizedCurrent
        /\ CountTry(newNum)
        /\ IF ok
           THEN /\ wire' = wire \cup {Instruction(sent, k, newNum, << >>)}
                /\ sentStates' = AddSentState(sent, [num |-> newNum, state |-> currentState'])
                /\ assumedReceiverStateIdx' = AssumedAfterAdd(k, Len(sent))
                /\ emptyAcks' = IF shutdownInProgress THEN emptyAcks ELSE emptyAcks + 1
           ELSE /\ sentStates' = sent
                /\ assumedReceiverStateIdx' = k
                /\ UNCHANGED <<wire, emptyAcks>>
        /\ UNCHANGED <<shutdownInProgress, history, quitLen>>

\* The number sendToReceiver gives the current state: the back's if that is
\* what was sent last, a fresh one otherwise, ShutdownNum during shutdown.
NewNum(sent, cur) ==
    IF shutdownInProgress THEN ShutdownNum
    ELSE IF cur = Last(sent).state THEN Last(sent).num
    ELSE NextNum(Last(sent).num)

\* A Tick whose diff is not empty (sendToReceiver).  A fresh state is committed
\* to the queue only if the network took the datagram; a number that is already
\* the back's is a retransmission and leaves the queue as it is, its recorded
\* content included.
SendToReceiver(k, ok) ==
    LET sent   == Rationalized(sentStates)
        cur    == RationalizedCurrent
        diff   == Suffix(cur, sent[k].state)
        newNum == NewNum(sent, cur)
    IN  /\ k \in 1..Len(sentStates)
        /\ ~NothingToSend(k)
        /\ currentState' = cur
        /\ CountTry(newNum)
        /\ IF ok
           THEN /\ wire' = wire \cup {Instruction(sent, k, newNum, diff)}
                /\ sentStates' = IF newNum = Last(sent).num THEN sent
                                 ELSE AddSentState(sent, [num |-> newNum, state |-> cur])
                /\ assumedReceiverStateIdx' = Len(sentStates')
           ELSE /\ sentStates' = sent
                /\ assumedReceiverStateIdx' = k
                /\ UNCHANGED wire
        /\ UNCHANGED <<shutdownInProgress, history, emptyAcks, quitLen>>

\* The places of the acknowledged number in the queue (the shutdown number may
\* occur several times).
AckedIdx(n) == {i \in 1..Len(sentStates) : sentStates[i].num = n}

\* ProcessAcknowledgmentThrough: the first element with the acknowledged number
\* becomes the front; an unknown number is ignored.
ProcessAcknowledgmentThrough(n) ==
    /\ AckedIdx(n) # {}
    /\ sentStates' = SubSeq(sentStates, Min(AckedIdx(n)), Len(sentStates))
    /\ assumedReceiverStateIdx' = 1
    /\ UNCHANGED <<currentState, shutdownInProgress, shutdownTries, wire, history,
                   emptyAcks, quitLen>>

\* StartShutdown: the quit escape, a cancelled context, or the server's logout.
StartShutdown ==
    /\ ~shutdownInProgress
    /\ shutdownInProgress' = TRUE
    /\ quitLen' = Len(history)
    /\ UNCHANGED <<currentState, sentStates, assumedReceiverStateIdx,
                   shutdownTries, wire, history, emptyAcks>>

ShutdownAcknowledged == shutdownInProgress /\ sentStates[1].num = ShutdownNum

ShutdownAckTimedOut == shutdownInProgress /\ shutdownTries >= shutdownRetries

=============================================================================
