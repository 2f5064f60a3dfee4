-------------------------------- MODULE Packet --------------------------------
(***************************************************************************)
(* What a datagram carries besides its payload (internal/network:          *)
(* packet.go, and the timestamps of Send and Recv in connection.go): the   *)
(* nonce, made of direction and sequence number, a wrapped millisecond     *)
(* timestamp, and the echo of the last one received, advanced by the time  *)
(* it was held.                                                            *)
(*                                                                         *)
(* Both ends run this code; the server's end is external and mirrors it.   *)
(* Send reads the clock, may dial, then seals: two steps, with the receiver *)
(* running in between.  The network delivers any packet to anyone, ever.   *)
(***************************************************************************)
EXTENDS Integers, FiniteSets

CONSTANTS TsMod,      \* timestamps are modulo this (2^16)
          SeqNums,     \* sequence numbers are modulo this (2^63)
          HoldLimit,  \* a timestamp held this long is not echoed (1000 ms)
          MaxLag,     \* longest time between reading the clock and sealing
          Start,      \* the wall clock when the session begins
          MaxClock,   \* bound: the clock
          MaxSends    \* bound: packets per end

ASSUME PacketAssumption ==
    /\ TsMod \in Nat /\ HoldLimit \in Nat /\ HoldLimit < TsMod - 1 /\ MaxLag < TsMod - 1
    /\ MaxSends \in Nat /\ SeqNums \in Nat /\ MaxSends < SeqNums /\ MaxLag \in Nat
    /\ Start \in Nat /\ MaxClock \in Nat

ToServer == 0
ToClient == 1

\* An end is named by the direction it sends in.
End == {ToServer, ToClient}

NoTime == -1
NoPacket == [nonce |-> -1]

VARIABLES
    clock,
    readAt,          \* the time Send read, NoTime when no Send is under way
    nextSeq,
    expectedSeq,
    saved,           \* [have, ts, at, ghost of]: the timestamp to echo
    net,             \* every packet sealed, with ghosts read, sealed and echo
    measured         \* ghost: the last measurement, [value, exact]

packetVars == <<clock, readAt, nextSeq, expectedSeq, saved, net, measured>>

PacketInit ==
    /\ clock = Start
    /\ readAt = [e \in End |-> NoTime]
    /\ nextSeq = [e \in End |-> 0] /\ expectedSeq = [e \in End |-> 0]
    /\ saved = [e \in End |-> [have |-> FALSE, ts |-> 0, at |-> 0, of |-> NoPacket]]
    /\ net = {}
    /\ measured = [value |-> 0, exact |-> 0]

-----------------------------------------------------------------------------
(* packet.go *)

tsMissing == TsMod - 1

timestamp16(now) == IF now % TsMod = tsMissing THEN (tsMissing + 1) % TsMod ELSE now % TsMod

timestampDiff(tsnew, tsold) == (tsnew - tsold) % TsMod

\* toMessage and packetFromMessage: the direction is the top bit.
NonceVal(direction, seq) == direction * SeqNums + (seq % SeqNums)
SeqOfNonce(nonce) == nonce % SeqNums
DirectionOf(nonce) == IF nonce >= SeqNums THEN ToClient ELSE ToServer

-----------------------------------------------------------------------------
(* Send *)

SendStart(e) ==
    /\ readAt[e] = NoTime /\ nextSeq[e] < MaxSends
    /\ readAt' = [readAt EXCEPT ![e] = clock]
    /\ UNCHANGED <<clock, nextSeq, expectedSeq, saved, net, measured>>

\* A held timestamp is echoed when it is fresh.  The time read before a dial
\* may be earlier than the receipt.
Echoes(e) == saved[e].have /\ readAt[e] - saved[e].at < HoldLimit

\* Slip: the hold time is left out.
ReplyNotAdvanced(e) ==
    IF saved[e].ts = tsMissing THEN (tsMissing + 1) % TsMod ELSE saved[e].ts

\* The echo, advanced by the hold time, never the sentinel.
Reply(e) ==
    LET reply == (saved[e].ts + (readAt[e] - saved[e].at)) % TsMod
    IN  IF reply = tsMissing THEN (reply + 1) % TsMod ELSE reply

\* Slip: an echoed timestamp stays.
KeepsSavedAlways(e) == saved[e].have

\* haveSavedTimestamp after the packet is sealed.
KeepsSaved(e) == saved[e].have /\ ~Echoes(e)

\* Send's critical section: assemble and count the packet.
Seal(e) ==
    /\ readAt[e] # NoTime
    /\ net' = net \cup {[nonce  |-> NonceVal(e, nextSeq[e]),
                         ts     |-> timestamp16(readAt[e]),
                         reply  |-> IF Echoes(e) THEN Reply(e) ELSE tsMissing,
                         from   |-> e, read |-> readAt[e], sealed |-> clock,
                         echo   |-> IF Echoes(e)
                                    THEN [nonce |-> saved[e].of.nonce, read |-> saved[e].of.read,
                                          sealed |-> saved[e].of.sealed, held |-> clock - saved[e].at]
                                    ELSE NoPacket]}
    /\ saved' = [saved EXCEPT ![e].have = KeepsSaved(e)]
    /\ nextSeq' = [nextSeq EXCEPT ![e] = @ + 1]
    /\ readAt' = [readAt EXCEPT ![e] = NoTime]
    /\ UNCHANGED <<clock, expectedSeq, measured>>

-----------------------------------------------------------------------------
(* Recv *)

FromPeer(e, nonce) == DirectionOf(nonce) # e

\* How long the echoed packet and p took on the way, and how long their senders
\* took between reading the clock and sealing.
Exact(p) ==
    (clock - p.echo.sealed - p.echo.held) + (p.echo.sealed - p.echo.read) + (p.sealed - p.read)

Recv(e, p) ==
    /\ FromPeer(e, p.nonce)
    /\ SeqOfNonce(p.nonce) >= expectedSeq[e]
    /\ expectedSeq' = [expectedSeq EXCEPT ![e] = SeqOfNonce(p.nonce) + 1]
    /\ saved' = [saved EXCEPT ![e] = [have |-> TRUE, ts |-> p.ts, at |-> clock,
                     of |-> [nonce |-> p.nonce, read |-> p.read, sealed |-> p.sealed, from |-> p.from]]]
    /\ measured' = IF p.reply = tsMissing THEN measured
                   ELSE [value |-> timestampDiff(timestamp16(clock), p.reply),
                         exact |-> Exact(p)]
    /\ UNCHANGED <<clock, readAt, nextSeq, net>>

\* Time passes, but no Send dials for longer than MaxLag.
Tick ==
    /\ clock < MaxClock
    /\ \A e \in End : readAt[e] # NoTime => clock - readAt[e] < MaxLag
    /\ clock' = clock + 1
    /\ UNCHANGED <<readAt, nextSeq, expectedSeq, saved, net, measured>>

PacketNext ==
    \/ \E e \in End : SendStart(e) \/ Seal(e) \/ \E p \in net : Recv(e, p)
    \/ Tick

PacketSpec == PacketInit /\ [][PacketNext]_packetVars

-----------------------------------------------------------------------------
(* Safety *)

\* Wrapping, the sentinel and the hold time cancel out: a measurement is the
\* time both packets were under way, plus what their senders spent dialling,
\* modulo TsMod, at most two milliseconds short and one over
\* (connection.go:276, 365: each place that steps over the sentinel costs one).
RttAccurate == (measured.value - measured.exact) % TsMod \in {0, 1, TsMod - 1, TsMod - 2}

\* A timestamp is echoed when and only when there is one to echo: the reply is
\* "never" the sentinel by accident (connection.go:277), one that was echoed is
\* not echoed again (connection.go:280), to be taken for a slow link, and what
\* is echoed is the peer's, never an end's own packet sent back to it
\* (packet.go:51, 64; connection.go:347).
EchoFaithful ==
    /\ \A p \in net : (p.reply = tsMissing) = (p.echo = NoPacket)
    /\ \A p, q \in net :
           p.from = q.from /\ p.echo # NoPacket /\ p.echo.nonce = q.echo.nonce => p = q
    /\ \A e \in End : saved[e].of # NoPacket => saved[e].of.from # e

=============================================================================
