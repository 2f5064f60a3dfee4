-------------------------- MODULE ConnectionProofs ---------------------------
(***************************************************************************)
(* The invariants of Connection, proved for every value of its bounds.     *)
(*                                                                         *)
(* Three arguments that do not need each other: sequence numbers (SeqInv), *)
(* ownership of sockets (SocketInv) and the times of port hops (HopInv).   *)
(***************************************************************************)
EXTENDS Connection, SequenceTheorems, TLAPS

-----------------------------------------------------------------------------
(* Sequence numbers *)

\* s grows strictly and stays below the next number to come.
Below(s, next) ==
    /\ next \in Nat /\ s \in Seq(Nat)
    /\ \A i \in 1..Len(s) : s[i] < next
    /\ \A i, j \in 1..Len(s) : i < j => s[i] < s[j]

\* Both counters are above everything they have been compared with.
SeqInv == Below(sealed, nextSeq) /\ Below(accepted, expectedReceiverSeq)

\* Recording a number that is not below the counter, and moving the counter past
\* it (connection.go:294, 353).
LEMMA BelowGrows ==
  ASSUME NEW s, NEW next, Below(s, next), NEW n \in Nat, n >= next
  PROVE  Below(Append(s, n), n + 1)
<1> DEFINE r == Append(s, n)
           l == Len(s)
<1>1. s \in Seq(Nat) /\ next \in Nat
  BY DEF Below
<1>2. /\ r \in Seq(Nat) /\ Len(r) = l + 1 /\ l \in Nat /\ r[l + 1] = n
      /\ \A i \in 1..l : r[i] = s[i]
  BY <1>1, AppendProperties, LenProperties
<1>3. \A i \in 1..l : s[i] \in Nat /\ s[i] < next
  <2>1. \A i \in 1..l : s[i] \in Nat
    BY <1>1, ElementOfSeq
  <2>2. \A i \in 1..l : s[i] < next
    BY DEF Below
  <2> QED BY <2>1, <2>2
<1> HIDE DEF r, l
<1>4. \A i \in 1..l + 1 : i \in 1..l \/ i = l + 1
  BY <1>2
<1>5. ASSUME NEW i \in 1..l PROVE r[i] < n /\ r[i] < n + 1 /\ r[i] \in Nat
  <2>1. r[i] \in Nat /\ r[i] < next
    BY <1>2, <1>3
  <2> DEFINE x == r[i]
  <2> HIDE DEF x
  <2>2. ASSUME x \in Nat, x < next PROVE x < n /\ x < n + 1
    BY <1>1, <2>2
  <2> QED BY <2>1, <2>2 DEF x
<1>6. ASSUME NEW i \in 1..l + 1 PROVE r[i] < n + 1
  BY <1>2, <1>4, <1>5
<1>7. ASSUME NEW i \in 1..l + 1, NEW j \in 1..l + 1, i < j PROVE r[i] < r[j]
  <2>1. i \in 1..l
    BY <1>2, <1>7
  <2>2. CASE j = l + 1
    BY <2>1, <2>2, <1>2, <1>5
  <2>3. CASE j \in 1..l
    BY <2>1, <2>3, <1>2, <1>7 DEF Below, l
  <2> QED BY <1>4, <2>2, <2>3
<1> QED BY <1>2, <1>6, <1>7 DEF Below, r

\* Nothing sealed or received yet.
LEMMA SeqInit ==
  ASSUME Init
  PROVE  SeqInv
BY EmptySeq DEF Init, SeqInv, Below

\* Only Seal and RecvPacket touch the numbers.
LEMMA SeqNext ==
  ASSUME SeqInv, [Next]_vars
  PROVE  SeqInv'
<1>1. CASE Seal
  <2>1. /\ nextSeq' = nextSeq + 1 /\ sealed' = Append(sealed, nextSeq)
        /\ UNCHANGED <<accepted, expectedReceiverSeq>>
    BY <1>1 DEF Seal, NextSeqAfterSeal, recvVars
  <2>2. Below(sealed, nextSeq) /\ nextSeq \in Nat /\ nextSeq >= nextSeq
    BY DEF SeqInv, Below
  <2>3. Below(Append(sealed, nextSeq), nextSeq + 1)
    BY <2>2, BelowGrows
  <2> QED BY <2>1, <2>3 DEF SeqInv
<1>2. CASE \E n \in 0..MaxSeq : RecvPacket(n)
  <2>1. PICK n \in 0..MaxSeq : RecvPacket(n)
    BY <1>2
  <2>2. /\ n >= expectedReceiverSeq /\ expectedReceiverSeq' = n + 1
        /\ accepted' = Append(accepted, n) /\ UNCHANGED <<nextSeq, sealed>>
    BY <2>1 DEF RecvPacket, FreshSeq
  <2>3. n \in Nat
    BY ConnectionAssumption
  <2>4. Below(Append(accepted, n), n + 1)
    BY <2>2, <2>3, BelowGrows DEF SeqInv
  <2> QED BY <2>2, <2>4 DEF SeqInv
<1>3. CASE UNCHANGED <<nextSeq, sealed, accepted, expectedReceiverSeq>>
  BY <1>3 DEF SeqInv
<1>4. ASSUME ~Seal, ~ \E n \in 0..MaxSeq : RecvPacket(n)
      PROVE  UNCHANGED <<nextSeq, sealed, accepted, expectedReceiverSeq>>
  BY <1>4 DEF Next, vars, recvVars, AdvanceClock, SendStart, DialOk, DialFails, Swap, CloseOld,
       WriteOk, WriteFails, AbandonedDialOk, AbandonedDialFails, CloseOrphan, TakePayload,
       RunReturns, Close, CloseSock, RecvStart, RecvError, PushPayload
<1> QED BY <1>1, <1>2, <1>3, <1>4

\* For every bound: no nonce is used twice, and no packet of the server is
\* returned twice or after a newer one (connection.go:286-311, 353-357).
THEOREM SequenceNumbersUnique == Spec => []NoSeqTwice
<1>1. Init => SeqInv
  BY SeqInit
<1>2. SeqInv /\ [Next]_vars => SeqInv'
  BY SeqNext
<1>3. SeqInv => NoSeqTwice
  <2> SUFFICES ASSUME SeqInv PROVE NoSeqTwice
    OBVIOUS
  <2>1. \A i, j \in 1..Len(accepted) : i < j => accepted[i] < accepted[j]
    BY DEF SeqInv, Below
  <2>2. ASSUME NEW i \in 1..Len(sealed), NEW j \in 1..Len(sealed), i # j
        PROVE  sealed[i] # sealed[j]
    <3>1. sealed \in Seq(Nat) /\ sealed[i] \in Nat /\ sealed[j] \in Nat
      BY ElementOfSeq DEF SeqInv, Below
    <3>2. i < j \/ j < i
      BY <2>2
    <3>3. (i < j => sealed[i] < sealed[j]) /\ (j < i => sealed[j] < sealed[i])
      BY DEF SeqInv, Below
    <3> QED BY <3>1, <3>2, <3>3
  <2> QED BY <2>1, <2>2 DEF NoSeqTwice
<1> QED BY <1>1, <1>2, <1>3, PTL DEF Spec

-----------------------------------------------------------------------------
(* Sockets *)

\* Where the client loop can be in Send and Close.
Places == {"idle", "hopDial", "hopSwap", "hopClose", "seal", "write",
           "dial", "swap", "close", "rewrite", "closing", "done"}

Swapping == spc \in {"hopSwap", "swap"}
Closing  == spc \in {"hopClose", "close"}

\* Sockets are numbered in the order they are opened, so the next one is new to
\* everyone.
SocketTypes ==
    /\ spc \in Places /\ socks \in Nat
    /\ sock \in 1..socks /\ newSock \in 1..socks /\ oldSock \in 1..socks
    /\ open \subseteq 1..socks /\ orphans \subseteq 1..socks

\* No socket has two owners.
OwnersApart ==
    /\ sock \notin orphans
    /\ Swapping => newSock \notin orphans /\ newSock # sock /\ newSock \in open
    /\ Closing  => oldSock \notin orphans /\ oldSock # sock

\* The connection's socket is open until Close has closed it.
CurrentOpen == spc # "done" => sock \in open

\* Every open socket has an owner.
AllOwned ==
    open \subseteq (IF spc = "done" THEN {} ELSE {sock})
                   \cup (IF Swapping THEN {newSock} ELSE {})
                   \cup (IF Closing THEN {oldSock} ELSE {})
                   \cup orphans

SocketInv == SocketTypes /\ OwnersApart /\ CurrentOpen /\ AllOwned

\* The variables the invariant is about, apart from where the client loop is.
ownVars == <<sock, open, socks, newSock, oldSock, orphans>>

\* Dial (connection.go:98) leaves one socket, the connection's.
LEMMA SocketInit ==
  ASSUME Init
  PROVE  SocketInv
BY DEF Init, SocketInv, SocketTypes, OwnersApart, CurrentOpen, AllOwned, Places, Swapping, Closing

\* A step that leaves the sockets alone, and redial where it is.
LEMMA SocketsKept ==
  ASSUME SocketInv, UNCHANGED ownVars, spc' \in Places, spc' = "done" => spc = "done",
         Swapping' => Swapping, Closing' <=> Closing, spc = "done" => spc' = "done",
         Swapping => Swapping'
  PROVE  SocketInv'
BY DEF SocketInv, SocketTypes, OwnersApart, CurrentOpen, AllOwned, ownVars

\* redial's three steps (connection.go:165-183): the new socket is the dialer's,
\* then the connection's; the old one is the connection's, then redial's.
LEMMA RedialInv ==
  ASSUME SocketInv, DialOk \/ Swap \/ CloseOld
  PROVE  SocketInv'
<1> USE DEF SocketInv, SocketTypes, OwnersApart, CurrentOpen, AllOwned, Swapping, Closing, Places
<1>1. CASE DialOk
  BY <1>1 DEF DialOk, goVars
<1>2. CASE Swap
  BY <1>2 DEF Swap, goVars
<1>3. CASE CloseOld
  BY <1>3 DEF CloseOld, OpenAfterSwap, goVars
<1> QED BY <1>1, <1>2, <1>3

\* The goroutine of an abandoned dial (connection.go:138-160) owns what it opens
\* until it has closed it; Close (connection.go:392) closes the current socket.
LEMMA OrphansInv ==
  ASSUME SocketInv, AbandonedDialOk \/ CloseOrphan \/ CloseSock
  PROVE  SocketInv'
<1> USE DEF SocketInv, SocketTypes, OwnersApart, CurrentOpen, AllOwned, Swapping, Closing, Places
<1>1. CASE AbandonedDialOk
  BY <1>1 DEF AbandonedDialOk, sendVars
<1>2. CASE CloseOrphan
  BY <1>2 DEF CloseOrphan, sendVars
<1>3. CASE CloseSock
  BY <1>3 DEF CloseSock, goVars
<1> QED BY <1>1, <1>2, <1>3

\* Every step preserves ownership.
LEMMA SocketNext ==
  ASSUME SocketInv, [Next]_vars
  PROVE  SocketInv'
<1>1. CASE DialOk \/ Swap \/ CloseOld
  BY <1>1, RedialInv
<1>2. CASE AbandonedDialOk \/ CloseOrphan \/ CloseSock
  BY <1>2, OrphansInv
<1>3. CASE \/ AdvanceClock \/ AbandonedDialFails \/ TakePayload \/ RunReturns
           \/ RecvStart \/ (\E n \in 0..MaxSeq : RecvPacket(n)) \/ RecvError \/ PushPayload
           \/ UNCHANGED vars
  <2>1. UNCHANGED ownVars /\ spc' = spc
    BY <1>3 DEF AdvanceClock, AbandonedDialFails, TakePayload, RunReturns, RecvStart, RecvPacket,
         RecvError, PushPayload, vars, ownVars, sendVars, sockVars, goVars
  <2>2. spc \in Places
    BY DEF SocketInv, SocketTypes
  <2> QED BY <2>1, <2>2, SocketsKept DEF Swapping, Closing
<1>4. CASE SendStart \/ (\E timeout \in BOOLEAN : DialFails(timeout)) \/ Seal \/ WriteOk \/ WriteFails \/ Close
  <2>1. /\ UNCHANGED ownVars
        /\ spc \in {"idle", "hopDial", "dial", "seal", "write", "rewrite"}
        /\ spc' \in {"hopDial", "seal", "idle", "write", "dial", "closing"}
    BY <1>4 DEF SendStart, DialFails, Seal, WriteOk, WriteFails, Close, ownVars, sockVars, goVars
  <2> QED BY <2>1, SocketsKept DEF Swapping, Closing, Places
<1> QED BY <1>1, <1>2, <1>3, <1>4 DEF Next

\* For every bound: every open socket has an owner that will close it, and Send
\* never writes to a closed one, whatever hops, redials, timeouts and late dials
\* interleave (connection.go:125-183).
THEOREM SocketsAlwaysOwned == Spec => []SocketsOwned
<1>1. Init => SocketInv
  BY SocketInit
<1>2. SocketInv /\ [Next]_vars => SocketInv'
  BY SocketNext
<1>3. SocketInv => SocketsOwned
  BY DEF SocketInv, CurrentOpen, AllOwned, Swapping, Closing, SocketsOwned
<1> QED BY <1>1, <1>2, <1>3, PTL DEF Spec

-----------------------------------------------------------------------------
(* Port hops *)

\* A hop counts as a port choice from its beginning or, while redial runs, is
\* the one the current call of Send has begun.
HopInv ==
    /\ clock \in Nat /\ lastHop \in Int /\ lastPortChoice \in Int /\ sendNow \in Int
    /\ lastHop <= clock /\ sendNow <= clock
    /\ spc \in {"hopDial", "hopSwap", "hopClose"} => lastHop = sendNow
    /\ spc \notin {"hopDial", "hopSwap", "hopClose"} => lastHop <= lastPortChoice

\* No hop has begun when the session starts.
LEMMA HopInit ==
  ASSUME Init
  PROVE  HopInv
BY ConnectionAssumption DEF Init, HopInv, Never

\* Every step preserves the relation, and a hop begins only when one is due.
LEMMA HopNext ==
  ASSUME HopInv, [Next]_vars
  PROVE  HopInv' /\ (lastHop' # lastHop => lastHop' - lastHop > portHopInterval)
<1> USE DEF HopInv
<1>1. CASE SendStart
  <2>1. portHopInterval \in Nat
    BY ConnectionAssumption
  <2>2. CASE HopDue
    BY <1>1, <2>1, <2>2 DEF SendStart, HopDue
  <2>3. CASE ~HopDue
    BY <1>1, <2>3 DEF SendStart
  <2> QED BY <2>2, <2>3
<1>2. CASE \E timeout \in BOOLEAN : DialFails(timeout)
  BY <1>2 DEF DialFails, AfterFailedHop
<1>3. CASE CloseOld
  BY <1>3 DEF CloseOld
<1>4. CASE AdvanceClock
  BY <1>4 DEF AdvanceClock, clockVars, sendVars
<1>5. CASE DialOk \/ Swap
  BY <1>5 DEF DialOk, Swap, clockVars
<1>6. CASE Seal \/ WriteOk \/ WriteFails \/ Close \/ CloseSock
  BY <1>6 DEF Seal, WriteOk, WriteFails, Close, CloseSock, clockVars
<1>7. CASE \/ AbandonedDialOk \/ AbandonedDialFails \/ CloseOrphan \/ TakePayload \/ RunReturns
           \/ RecvStart \/ (\E n \in 0..MaxSeq : RecvPacket(n)) \/ RecvError \/ PushPayload
           \/ UNCHANGED vars
  <2>1. UNCHANGED <<clock, lastHop, lastPortChoice, sendNow, spc>>
    BY <1>7 DEF AbandonedDialOk, AbandonedDialFails, CloseOrphan, TakePayload, RunReturns,
         RecvStart, RecvPacket, RecvError, PushPayload, vars, clockVars, sendVars
  <2> QED BY <2>1
<1> QED BY <1>1, <1>2, <1>3, <1>4, <1>5, <1>6, <1>7 DEF Next

\* For every bound: after a port hop, successful or not, the next one begins more
\* than portHopInterval later (connection.go:191-199).
THEOREM HopsAreSpaced == Spec => HopsSpaced
<1>1. Init => HopInv
  BY HopInit
<1>2. HopInv /\ [Next]_vars => HopInv' /\ [lastHop' # lastHop => lastHop' - lastHop > portHopInterval]_vars
  BY HopNext
<1> QED BY <1>1, <1>2, PTL DEF Spec, HopsSpaced
=============================================================================
