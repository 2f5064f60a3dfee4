------------------------------ MODULE TimedSender ------------------------------
(***************************************************************************)
(* The timers of the sender (internal/transport/sender.go) under the       *)
(* client's loop (client.go:191-262): when a diff, a retransmission or an  *)
(* empty ack goes out, and for how long the loop sleeps.                   *)
(*                                                                         *)
(* Sender keeps the contents of the streams; here a stream is its length,  *)
(* counted from the start of the session, so Equal is equality of lengths  *)
(* and subtracting a common prefix changes nothing.                        *)
(*                                                                         *)
(* The clock is in ticks; SRTT is steady, so sendInterval and Timeout are  *)
(* constants.  The loop wakes when its timer fires or an event arrives,    *)
(* and always runs Tick before it sleeps again.                            *)
(***************************************************************************)
EXTENDS Integers, Sequences, FiniteSets, FiniteSetsExt, SequencesExt

CONSTANTS sendInterval,    \* pacing of data (20..250 ms)
          sendMindelay,    \* how long the first keystroke is held (8 ms)
          ackDelay,        \* how long an ack of data may wait (100 ms)
          ackInterval,     \* keepalive period (3 s)
          Timeout,         \* retransmission timeout (50..1000 ms)
          LoopMax,         \* longest sleep of the loop (100 ms)
          shutdownRetries,
          ShutdownNum,
          SendMayFail,     \* may conn.Send return an error?
          QuitAllowed,     \* may the user quit?
          MaxClock,        \* bound: length of the run
          MaxEvents        \* bound: events the user produces

ASSUME TimedAssumption ==
    /\ \A d \in {sendInterval, ackDelay, ackInterval, Timeout, LoopMax, shutdownRetries,
                 MaxClock} : d \in Nat \ {0}
    /\ sendInterval <= ackInterval
    /\ sendMindelay \in Nat /\ MaxEvents \in Nat
    /\ SendMayFail \in BOOLEAN /\ QuitAllowed \in BOOLEAN
    /\ ShutdownNum \in Nat /\ ShutdownNum > MaxClock + MaxEvents

NoTime == -1

VARIABLES
    clock,
    cur,        \* length of currentState
    sent,       \* sequence of [num, len, sentAt]
    nextAckTime,
    nextSendTime,    \* NoTime stands for haveSendTime = false
    mindelayClock,   \* NoTime stands for haveMindelay = false
    pendingDataAck,
    shutdownInProgress, shutdownTries,
    remoteShutdown,  \* the server has begun to shut down
    ackShutdown,     \* ackNum is ShutdownNum
    wakeAt,     \* when the loop's timer fires
    awake,      \* the loop is about to run Tick
    attempts,   \* ghost: when the last two transmissions were attempted
    unsentSince,\* ghost: when the oldest event never transmitted was produced
    owedSince,  \* ghost: when the oldest unacknowledged data arrived
    failed      \* ghost: some send has failed

vars == <<clock, cur, sent, nextAckTime, nextSendTime, mindelayClock, pendingDataAck,
          shutdownInProgress, shutdownTries, remoteShutdown, ackShutdown, wakeAt, awake,
          attempts, unsentSince, owedSince, failed>>

Init ==
    /\ clock = 0
    /\ cur = 0
    /\ sent = <<[num |-> 0, len |-> 0, sentAt |-> 0]>>
    /\ nextAckTime = 0 /\ nextSendTime = NoTime /\ mindelayClock = NoTime
    /\ pendingDataAck = FALSE
    /\ shutdownInProgress = FALSE /\ shutdownTries = 0
    /\ wakeAt = 0 /\ awake = TRUE
    /\ remoteShutdown = FALSE /\ ackShutdown = FALSE
    /\ attempts = <<NoTime, NoTime>>
    /\ unsentSince = NoTime /\ owedSince = NoTime /\ failed = FALSE

-----------------------------------------------------------------------------
(* calculateTimers *)

\* updateAssumedReceiverState: walk from the front and stop at the first state
\* sent too long ago.
AssumedIdx(s) ==
    Max({1} \cup {i \in 2..Len(s) :
                    \A j \in 2..i : clock - s[j].sentAt < Timeout + ackDelay})

\* Slip: data does not hurry the ack.
AckTimeLazy(t, s, pending) ==
    IF shutdownInProgress \/ ackShutdown THEN Last(s).sentAt + sendInterval ELSE t

\* Slip: every look at the timers pushes the keepalive away.
AckTimeSliding(t, s, pending) ==
    IF shutdownInProgress \/ ackShutdown THEN Last(s).sentAt + sendInterval
    ELSE clock + (IF pending THEN ackDelay ELSE ackInterval)

\* An ack of data is not put off by more than ackDelay; in a shutdown an ack is
\* due every send interval, whatever was scheduled.
AckTime(t, s, pending) ==
    IF shutdownInProgress \/ ackShutdown THEN Last(s).sentAt + sendInterval
    ELSE IF pending /\ t > clock + ackDelay THEN clock + ackDelay
    ELSE t

\* mindelayClock is started by the first event that waits to be sent.
Mindelay(m, s) == IF cur # Last(s).len /\ m = NoTime THEN clock ELSE m

\* Slip: no retransmission is scheduled for what has been sent recently.
SendTimeNoRetransmit(m, s) ==
    IF cur # Last(s).len THEN Max({Mindelay(m, s) + sendMindelay, Last(s).sentAt + sendInterval})
    ELSE IF cur # s[AssumedIdx(s)].len THEN Last(s).sentAt + sendInterval
    ELSE NoTime

\* Slip: the first keystroke does not wait for the send interval.
SendTimeUnpaced(m, s) ==
    IF cur # Last(s).len THEN Mindelay(m, s) + sendMindelay
    ELSE IF cur # s[AssumedIdx(s)].len THEN Last(s).sentAt + sendInterval
    ELSE IF cur # s[1].len THEN Last(s).sentAt + Timeout + ackDelay
    ELSE NoTime

\* When data is due: unsent, given up on, or sent but not acknowledged.
SendTime(m, s) ==
    IF cur # Last(s).len THEN Max({Mindelay(m, s) + sendMindelay, Last(s).sentAt + sendInterval})
    ELSE IF cur # s[AssumedIdx(s)].len THEN Last(s).sentAt + sendInterval
    ELSE IF cur # s[1].len THEN Last(s).sentAt + Timeout + ackDelay
    ELSE NoTime

-----------------------------------------------------------------------------
(* One pass of the loop: Tick, then WaitTime to set the timer *)

\* The loop's timer: at least a millisecond, at most LoopMax.
Sleep(t) == Min({LoopMax, Max({1, t - clock})})

\* WaitTime after Tick left these values, and the loop going to sleep.  Primed
\* timers are what WaitTime's own calculateTimers makes of them.
GoToSleep(s, ack, mind, pending) ==
    LET ack2  == AckTime(ack, s, pending)
        send2 == SendTime(mind, s)
    IN  /\ sent' = s
        /\ pendingDataAck' = pending
        /\ owedSince' = IF pending THEN owedSince ELSE NoTime
        /\ shutdownInProgress' = (shutdownInProgress \/ remoteShutdown)
        /\ nextAckTime' = ack2
        /\ nextSendTime' = send2
        /\ mindelayClock' = Mindelay(mind, s)
        /\ wakeAt' = clock + Sleep(IF send2 # NoTime /\ send2 < ack2 THEN send2 ELSE ack2)
        /\ awake' = FALSE
        /\ UNCHANGED <<clock, cur, remoteShutdown, ackShutdown>>

Leaving == shutdownInProgress /\ (sent[1].num = ShutdownNum \/ shutdownTries >= shutdownRetries)

Due(t) == t # NoTime /\ clock >= t

\* What the timers are when Tick looks at them.
TickAck  == AckTime(nextAckTime, sent, pendingDataAck)
TickSend == SendTime(mindelayClock, sent)
TickMind == Mindelay(mindelayClock, sent)

\* There is something for the receiver beyond the assumed state.
HasDiff == cur > sent[AssumedIdx(sent)].len

CountTry(num) == shutdownTries' = IF num = ShutdownNum THEN shutdownTries + 1 ELSE shutdownTries

\* Nothing due.
TickIdle ==
    /\ awake /\ ~Leaving
    /\ ~Due(TickAck) /\ ~Due(TickSend)
    /\ GoToSleep(sent, TickAck, TickMind, pendingDataAck)
    /\ UNCHANGED <<shutdownTries, attempts, failed, unsentSince>>

\* sendEmptyAck's retry time after a failure.
AckTimeAfterFailure == clock + sendInterval

\* sendInFragments settles the debt.
PendingAfterSend == FALSE

TickEmptyAck(ok) ==
    LET num == IF shutdownInProgress THEN ShutdownNum ELSE Last(sent).num + 1
    IN  /\ awake /\ ~Leaving
        /\ Due(TickAck) /\ ~HasDiff
        /\ CountTry(num)
        /\ attempts' = <<attempts[2], clock>>
        /\ failed' = (failed \/ ~ok)
        /\ IF ok
           THEN GoToSleep(Append(sent, [num |-> num, len |-> cur, sentAt |-> clock]),
                          clock + ackInterval, NoTime, PendingAfterSend)
           ELSE GoToSleep(sent, AckTimeAfterFailure, TickMind, pendingDataAck)
        /\ UNCHANGED unsentSince

\* A retransmission is timed from this attempt, successful or not.
RetransmitTime(s) == [s EXCEPT ![Len(s)].sentAt = clock]

TickSendToReceiver(ok) ==
    LET back == Last(sent)
        num  == IF shutdownInProgress THEN ShutdownNum
                ELSE IF cur = back.len THEN back.num ELSE back.num + 1
        bump == IF num = back.num THEN RetransmitTime(sent) ELSE sent
    IN  /\ awake /\ ~Leaving
        /\ Due(TickAck) \/ Due(TickSend)
        /\ HasDiff
        /\ CountTry(num)
        /\ attempts' = <<attempts[2], clock>>
        /\ failed' = (failed \/ ~ok)
        /\ IF ok
           THEN GoToSleep(IF num = back.num THEN bump
                          ELSE Append(sent, [num |-> num, len |-> cur, sentAt |-> clock]),
                          clock + ackInterval, NoTime, PendingAfterSend)
           ELSE GoToSleep(bump, TickAck, TickMind, pendingDataAck)
        /\ unsentSince' = IF ok THEN NoTime ELSE unsentSince

-----------------------------------------------------------------------------
(* What wakes the loop *)

timers   == <<nextAckTime, nextSendTime, mindelayClock, wakeAt>>
shutdown == <<shutdownInProgress, shutdownTries, remoteShutdown, ackShutdown>>

Advance ==
    /\ ~awake /\ clock < MaxClock
    /\ clock' = clock + 1
    /\ awake' = (clock + 1 >= wakeAt)
    /\ UNCHANGED <<cur, sent, timers, pendingDataAck, shutdown, attempts, unsentSince, owedSince, failed>>

UserEvent ==
    /\ ~awake /\ ~Leaving /\ cur < MaxEvents
    /\ cur' = cur + 1 /\ awake' = TRUE
    /\ unsentSince' = IF unsentSince = NoTime THEN clock ELSE unsentSince
    /\ UNCHANGED <<clock, sent, timers, pendingDataAck, shutdown, attempts, owedSince, failed>>

\* A server instruction: it acknowledges some sent state, may carry data that
\* must be acknowledged soon, and may announce the server's shutdown, which is
\* acknowledged only if the instruction was accepted.
ServerInstruction ==
    /\ ~awake /\ ~Leaving
    /\ \E i \in 1..Len(sent), data, bye, accepted \in BOOLEAN :
           /\ sent' = SubSeq(sent, i, Len(sent))
           /\ pendingDataAck' = (pendingDataAck \/ data)
           /\ owedSince' = IF data /\ ~pendingDataAck THEN clock ELSE owedSince
           /\ bye => QuitAllowed
           /\ remoteShutdown' = (remoteShutdown \/ bye)
           /\ ackShutdown' = (ackShutdown \/ (bye /\ accepted))
    /\ awake' = TRUE
    /\ UNCHANGED <<clock, cur, timers, shutdownInProgress, shutdownTries, attempts, unsentSince, failed>>

StartShutdown ==
    /\ ~awake /\ QuitAllowed /\ ~shutdownInProgress
    /\ shutdownInProgress' = TRUE /\ awake' = TRUE
    /\ UNCHANGED <<clock, cur, sent, timers, pendingDataAck, shutdownTries, remoteShutdown, ackShutdown,
                   attempts, unsentSince, owedSince, failed>>

Next ==
    \/ Advance \/ UserEvent \/ ServerInstruction \/ StartShutdown
    \/ TickIdle
    \/ TickEmptyAck(TRUE) \/ TickSendToReceiver(TRUE)
    \/ SendMayFail /\ (TickEmptyAck(FALSE) \/ TickSendToReceiver(FALSE))

Spec == Init /\ [][Next]_vars

-----------------------------------------------------------------------------
(* Properties *)

\* As long as no send has failed, an event the user produces is on its way
\* after the send interval or the minimum delay at the latest
\* (sender.go:165-177), and data from the server is acknowledged within
\* ackDelay (sender.go:161-163) or, during a shutdown, a send interval: the
\* loop is never asleep beyond that.
Prompt ==
    ~failed /\ ~awake /\ ~Leaving =>
        /\ unsentSince # NoTime => clock < unsentSince + Max({sendInterval, sendMindelay})
        /\ owedSince # NoTime => clock < owedSince + Max({ackDelay, sendInterval})

\* What the server has not acknowledged is attempted again within a
\* retransmission timeout of the last attempt (sender.go:178-186), for as long
\* as that takes and whichever attempts fail: the walk for the assumed state
\* and the retransmission use the same timeout, so Tick never finds data due
\* and nothing to send, which would put the timers off (sender.go:227-230).
RetransmitPrompt ==
    /\ ~awake /\ cur # sent[1].len /\ cur = Last(sent).len /\ ~Leaving =>
           clock < attempts[2] + Max({Timeout + ackDelay, sendInterval})
    /\ awake /\ Due(TickSend) => HasDiff

\* The client is never silent for longer than ackInterval, so the server and
\* the firewalls on the way keep the session (sender.go:257, 308).
Keepalive == ~awake /\ ~Leaving => clock < attempts[2] + ackInterval

Spaced == attempts[1] # NoTime => attempts[2] - attempts[1] >= Min({sendInterval, ackDelay})

\* As long as no send has failed, two transmissions are never closer than the
\* send interval or, for an acknowledgment, the ack delay (sender.go:165-193).
\* A failing first send of new data is repeated on every pass instead.
Paced == ~failed => Spaced

=============================================================================
