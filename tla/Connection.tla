------------------------------ MODULE Connection ------------------------------
(***************************************************************************)
(* The client's UDP connection (internal/network/connection.go) and the    *)
(* goroutine that pumps it (client.go:156-175).  Two goroutines share it:  *)
(* the client loop, which alone calls Send and Close, and the pump, which  *)
(* alone calls Recv; a dial that outlives its timeout leaves a third.      *)
(*                                                                         *)
(* Steps that hold sockMu or mu are atomic; everything the code does       *)
(* outside the locks can interleave.  The clock advances at any moment, so *)
(* a dial or a write takes any time.  Every write, dial and read may fail. *)
(* Sealing is abstracted to its nonce, the sequence number.                *)
(***************************************************************************)
EXTENDS Integers, Sequences, FiniteSets, FiniteSetsExt, SequencesExt

CONSTANTS portHopInterval, \* in clock ticks
          QueueCap,        \* capacity of the pump's channel (32)
          MaxSends,        \* bound: calls of Send
          MaxClock,        \* bound: clock ticks
          MaxSocks,        \* bound: sockets ever opened
          MaxSeq           \* bound: the server's packets are 0..MaxSeq

ASSUME ConnectionAssumption ==
    /\ portHopInterval \in Nat \ {0} /\ QueueCap \in Nat \ {0}
    /\ MaxSends \in Nat /\ MaxClock \in Nat /\ MaxSocks \in Nat /\ MaxSeq \in Nat

Never == -portHopInterval - 1  \* the zero time.Time: longer ago than any interval

VARIABLES
    clock,
    sock,            \* the current socket
    open,            \* the sockets not yet closed
    socks,           \* how many sockets have been opened
    closed,          \* Close has been called
    nextSeq, expectedReceiverSeq,
    lastPortChoice, lastRoundtripSuccess,
    spc,             \* where the client loop is in Send or Close
    sendNow, hopped, newSock, oldSock,        \* locals of Send and redial
    dials,           \* ghost: dials made by this call of Send
    sends,           \* ghost: calls of Send so far
    lastHop,         \* ghost: when a port hop last began, or Never
    sealed,          \* ghost: the nonces used, in order
    abandoned,       \* dial goroutines whose caller has given up
    orphans,         \* sockets those goroutines opened
    rpc, rsock,      \* where the pump is in Recv, and the socket it reads
    queue,           \* payloads in the pump's channel
    accepted,        \* ghost: sequence numbers Recv returned, in order
    sessionDone      \* Run is returning

clockVars == <<lastPortChoice, lastRoundtripSuccess, lastHop>>
sendVars  == <<spc, sendNow, hopped, newSock, oldSock, dials, sends>>
recvVars  == <<rpc, rsock, accepted, expectedReceiverSeq>>
sockVars  == <<sock, open, socks, closed>>
goVars    == <<abandoned, orphans>>

vars == <<clock, clockVars, sendVars, recvVars, sockVars, goVars, nextSeq, sealed, queue, sessionDone>>

\* Dial.
Init ==
    /\ clock = 0
    /\ sock = 1 /\ open = {1} /\ socks = 1 /\ closed = FALSE
    /\ nextSeq = 0 /\ expectedReceiverSeq = 0
    /\ lastPortChoice = 0 /\ lastRoundtripSuccess = Never /\ lastHop = Never
    /\ spc = "idle" /\ sendNow = 0 /\ hopped = FALSE /\ newSock = 1 /\ oldSock = 1
    /\ dials = 0 /\ sends = 0 /\ sealed = << >>
    /\ abandoned = 0 /\ orphans = {}
    /\ rpc = "idle" /\ rsock = 1 /\ queue = 0 /\ accepted = << >>
    /\ sessionDone = FALSE

AdvanceClock ==
    /\ clock < MaxClock
    /\ clock' = clock + 1
    /\ UNCHANGED <<clockVars, sendVars, recvVars, sockVars, goVars, nextSeq, sealed, queue, sessionDone>>

-----------------------------------------------------------------------------
(* Send, step by step, on the client loop's goroutine *)

\* maybeHopPort's condition.
HopDue ==
    /\ clock - lastPortChoice > portHopInterval
    /\ clock - lastRoundtripSuccess > portHopInterval

SendStart ==
    /\ spc = "idle" /\ ~closed /\ ~sessionDone
    /\ sends < MaxSends
    /\ sends' = sends + 1
    /\ sendNow' = clock
    /\ hopped' = FALSE
    /\ IF HopDue
       THEN spc' = "hopDial" /\ dials' = 1 /\ lastHop' = clock
       ELSE spc' = "seal" /\ dials' = 0 /\ UNCHANGED lastHop
    /\ UNCHANGED <<clock, lastPortChoice, lastRoundtripSuccess, newSock, oldSock, recvVars,
                   sockVars, goVars, nextSeq, sealed, queue, sessionDone>>

\* dialUDP returns a socket in time.
DialOk ==
    /\ spc \in {"hopDial", "dial"}
    /\ socks < MaxSocks
    /\ socks' = socks + 1
    /\ newSock' = socks + 1
    /\ open' = open \cup {socks + 1}
    /\ spc' = IF spc = "hopDial" THEN "hopSwap" ELSE "swap"
    /\ UNCHANGED <<clock, clockVars, sendNow, hopped, oldSock, dials, sends, recvVars, sock,
                   closed, goVars, nextSeq, sealed, queue, sessionDone>>

\* Slip: a failed hop leaves lastPortChoice alone.
AfterFailedHopNoBackoff == lastPortChoice

\* A failed hop counts as a port choice, at the time Send was called.
AfterFailedHop == sendNow

\* dialUDP fails, either because the dial did or because dialTimeout elapsed
\* first, which leaves the dial running.  Send goes on without a hop, or gives
\* up if this was its error path.
DialFails(timeout) ==
    /\ spc \in {"hopDial", "dial"}
    /\ abandoned' = IF timeout THEN abandoned + 1 ELSE abandoned
    /\ IF spc = "hopDial"
       THEN spc' = "seal" /\ lastPortChoice' = AfterFailedHop
       ELSE spc' = "idle" /\ UNCHANGED lastPortChoice
    /\ UNCHANGED <<clock, lastRoundtripSuccess, lastHop, sendNow, hopped, newSock, oldSock, dials,
                   sends, recvVars, sockVars, orphans, nextSeq, sealed, queue,
                   sessionDone>>

\* redial swaps the socket under sockMu ...
Swap ==
    /\ spc \in {"hopSwap", "swap"}
    /\ oldSock' = sock
    /\ sock' = newSock
    /\ spc' = IF spc = "hopSwap" THEN "hopClose" ELSE "close"
    /\ UNCHANGED <<clock, clockVars, sendNow, hopped, newSock, dials, sends, recvVars, open, socks,
                   closed, goVars, nextSeq, sealed, queue, sessionDone>>

\* Slip: redial forgets the socket it replaced.
OpenAfterSwapLeaky == open

\* Slip: closes c.sock, which is already the new socket.
OpenAfterSwapWrongOne == open \ {sock}

\* old.Close().
OpenAfterSwap == open \ {oldSock}

\* ... and closes the old one afterwards.
CloseOld ==
    /\ spc \in {"hopClose", "close"}
    /\ open' = OpenAfterSwap
    /\ lastPortChoice' = clock
    /\ IF spc = "hopClose" THEN spc' = "seal" /\ hopped' = TRUE
       ELSE spc' = "rewrite" /\ UNCHANGED hopped
    /\ UNCHANGED <<clock, lastRoundtripSuccess, lastHop, sendNow, newSock, oldSock, dials, sends,
                   recvVars, sock, socks, closed, goVars, nextSeq, sealed, queue,
                   sessionDone>>

\* Slip: the sequence number is left to the caller of a successful write.
NextSeqKept == nextSeq

\* nextSeq++ under mu, whatever becomes of the datagram.
NextSeqAfterSeal == nextSeq + 1

\* Under mu: take the next sequence number (Packet models the timestamps that
\* are sealed with it).
Seal ==
    /\ spc = "seal"
    /\ nextSeq' = NextSeqAfterSeal
    /\ sealed' = Append(sealed, nextSeq)
    /\ spc' = "write"
    /\ UNCHANGED <<clock, clockVars, sendNow, hopped, newSock, oldSock, dials, sends, recvVars, sockVars,
                   goVars, queue, sessionDone>>

WriteOk ==
    /\ spc \in {"write", "rewrite"}
    /\ spc' = "idle"
    /\ UNCHANGED <<clock, clockVars, sendNow, hopped, newSock, oldSock, dials, sends, recvVars,
                   sockVars, goVars, nextSeq, sealed, queue, sessionDone>>

\* A failed write is retried once on a fresh socket, unless this call already
\* hopped.
WriteFails ==
    /\ spc \in {"write", "rewrite"}
    /\ IF spc = "write" /\ ~hopped /\ ~closed
       THEN spc' = "dial" /\ dials' = dials + 1
       ELSE spc' = "idle" /\ UNCHANGED dials
    /\ UNCHANGED <<clock, clockVars, sendNow, hopped, newSock, oldSock, sends, recvVars, sockVars,
                   goVars, nextSeq, sealed, queue, sessionDone>>

\* The goroutine dialUDP leaves behind: it may get a socket late, which it then
\* closes; a dial that fails late just ends.
AbandonedDialOk ==
    /\ abandoned > 0
    /\ socks < MaxSocks
    /\ socks' = socks + 1
    /\ abandoned' = abandoned - 1
    /\ open' = open \cup {socks + 1}
    /\ orphans' = orphans \cup {socks + 1}
    /\ UNCHANGED <<clock, clockVars, sendVars, recvVars, sock, closed, nextSeq, sealed, queue, sessionDone>>

AbandonedDialFails ==
    /\ abandoned > 0
    /\ abandoned' = abandoned - 1
    /\ UNCHANGED <<clock, clockVars, sendVars, recvVars, sockVars, orphans, nextSeq, sealed, queue, sessionDone>>

CloseOrphan ==
    /\ \E s \in orphans : orphans' = orphans \ {s} /\ open' = open \ {s}
    /\ UNCHANGED <<clock, clockVars, sendVars, recvVars, sock, socks, closed, abandoned, nextSeq, sealed, queue, sessionDone>>

-----------------------------------------------------------------------------
(* The rest of the client loop *)

\* Transport.Recv takes a payload and reports the round trip it confirms, which
\* is the time some earlier state was sent.
TakePayload ==
    /\ spc = "idle" /\ ~sessionDone
    /\ queue > 0
    /\ queue' = queue - 1
    /\ \E t \in {0, clock} : lastRoundtripSuccess' = Max({lastRoundtripSuccess, t})
    /\ UNCHANGED <<clock, lastPortChoice, lastHop, sendVars, recvVars, sockVars, goVars, nextSeq, sealed, sessionDone>>

\* Run returns: its deferred calls close sessionDone first, then the
\* connection, whose Close sets the flag before it closes the socket.
RunReturns ==
    /\ spc = "idle" /\ ~sessionDone
    /\ sessionDone' = TRUE
    /\ UNCHANGED <<clock, clockVars, sendVars, recvVars, sockVars, goVars, nextSeq, sealed, queue>>

Close ==
    /\ spc = "idle" /\ sessionDone /\ ~closed
    /\ closed' = TRUE
    /\ spc' = "closing"
    /\ UNCHANGED <<clock, clockVars, sendNow, hopped, newSock, oldSock, dials, sends, recvVars, sock,
                   open, socks, goVars, nextSeq, sealed, queue, sessionDone>>

CloseSock ==
    /\ spc = "closing"
    /\ open' = open \ {sock}
    /\ spc' = "done"
    /\ UNCHANGED <<clock, clockVars, sendNow, hopped, newSock, oldSock, dials, sends, recvVars, sock,
                   socks, closed, goVars, nextSeq, sealed, queue, sessionDone>>

-----------------------------------------------------------------------------
(* Recv and the pump around it *)

\* Recv picks up the current socket.
RecvStart ==
    /\ rpc = "idle"
    /\ rpc' = "reading"
    /\ rsock' = sock
    /\ UNCHANGED <<clock, clockVars, sendVars, accepted, expectedReceiverSeq, sockVars, goVars, nextSeq,
                   sealed, queue, sessionDone>>

\* Replay protection: neither old nor already seen.
FreshSeq(n) == n >= expectedReceiverSeq

\* A datagram of the server arrives on the socket being read; the server's
\* packets arrive in any order, any number of times.
RecvPacket(n) ==
    /\ rpc = "reading" /\ rsock \in open
    /\ FreshSeq(n)
    /\ expectedReceiverSeq' = n + 1
    /\ accepted' = Append(accepted, n)
    /\ rpc' = "pushing"
    /\ UNCHANGED <<clock, clockVars, sendVars, rsock, sockVars, goVars, nextSeq, sealed, queue,
                   sessionDone>>

\* Recv returns an error: the 250 ms deadline, a socket closed under it, a
\* stale sequence number, a forgery.  The pump leaves only if Close was called.
RecvError ==
    /\ rpc = "reading"
    /\ rpc' = IF closed THEN "exited" ELSE "idle"
    /\ UNCHANGED <<clock, clockVars, sendVars, rsock, accepted, expectedReceiverSeq, sockVars, goVars,
                   nextSeq, sealed, queue, sessionDone>>

\* The pump's select has sessionDone beside the channel.
PumpMayLeave == sessionDone

\* The buffered channel blocks its writer at capacity.
QueueHasRoom == queue < QueueCap

PushPayload ==
    /\ rpc = "pushing"
    /\ \/ QueueHasRoom /\ queue' = queue + 1 /\ rpc' = "idle"
       \/ PumpMayLeave /\ rpc' = "exited" /\ UNCHANGED queue
    /\ UNCHANGED <<clock, clockVars, sendVars, rsock, accepted, expectedReceiverSeq, sockVars, goVars,
                   nextSeq, sealed, sessionDone>>

-----------------------------------------------------------------------------

Next ==
    \/ AdvanceClock
    \/ SendStart \/ DialOk \/ (\E timeout \in BOOLEAN : DialFails(timeout))
    \/ Swap \/ CloseOld \/ Seal \/ WriteOk \/ WriteFails
    \/ AbandonedDialOk \/ AbandonedDialFails \/ CloseOrphan
    \/ TakePayload \/ RunReturns \/ Close \/ CloseSock
    \/ RecvStart \/ (\E n \in 0..MaxSeq : RecvPacket(n)) \/ RecvError \/ PushPayload

Spec == Init /\ [][Next]_vars

\* Goroutines that can run do run, dials and writes end (dialTimeout,
\* writeTimeout), and a read ends at its deadline or with its socket.
Fairness ==
    /\ WF_vars(DialOk \/ DialFails(TRUE) \/ DialFails(FALSE)) /\ WF_vars(WriteOk \/ WriteFails)
    /\ WF_vars(Swap) /\ WF_vars(CloseOld) /\ WF_vars(Seal)
    /\ WF_vars(Close) /\ WF_vars(CloseSock) /\ WF_vars(CloseOrphan)
    /\ WF_vars(RecvStart) /\ WF_vars(RecvError) /\ WF_vars(PushPayload)

FairSpec == Spec /\ Fairness

-----------------------------------------------------------------------------
(* Safety *)

\* No sequence number is used twice: no datagram is sealed under a nonce used
\* before, whatever writes fail and are retried, since the retry resends the
\* sealed bytes (connection.go:286-311), and Recv returns a server packet at
\* most once and never an older one after a newer one (connection.go:353-357).
NoSeqTwice ==
    /\ \A i, j \in 1..Len(sealed) : i # j => sealed[i] # sealed[j]
    /\ \A i, j \in 1..Len(accepted) : i < j => accepted[i] < accepted[j]

\* Every open socket has an owner that will close it: the connection, a redial
\* in progress, or the goroutine of an abandoned dial.  And Send only writes to
\* a socket that is open: redial never leaves c.sock pointing at the one it
\* closed (connection.go:165-183).
SocketsOwned ==
    /\ open \subseteq (IF spc = "done" THEN {} ELSE {sock})
                      \cup (IF spc \in {"hopSwap", "swap"} THEN {newSock} ELSE {})
                      \cup (IF spc \in {"hopClose", "close"} THEN {oldSock} ELSE {})
                      \cup orphans
    /\ spc \in {"seal", "write", "rewrite", "idle"} => sock \in open

\* Port hops are spaced: after a hop, successful or not, the next one begins
\* more than portHopInterval later (connection.go:191-199 "A failed attempt
\* still backs lastPortChoice off by a full interval").
HopsSpaced ==
    [][lastHop' # lastHop => lastHop' - lastHop > portHopInterval]_vars

\* A call of Send dials at most once (connection.go:39-41).
OneDialPerSend == dials <= 1

-----------------------------------------------------------------------------
(* Liveness *)

\* Once Run returns, the pump goroutine ends, wherever it was (in a read on a
\* current or a replaced socket, or blocked on a full channel), and every
\* socket is closed: the current one, those replaced by hops and redials, and
\* those an abandoned dial produced late.
SocketsReleased == sessionDone ~> (rpc = "exited" /\ open = {})

=============================================================================
