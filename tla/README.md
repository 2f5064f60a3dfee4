# gosh: a TLA+ model of the client

gosh is a mosh client in Go. It keeps two objects synchronized with a
mosh-server over UDP: the user's events (keystrokes and window sizes) go up, the
terminal's content comes down as diffs that are written straight to the local
terminal. Everything travels in encrypted datagrams that may be lost, repeated
and reordered, over a socket that may be replaced at any moment.

This directory holds TLA+ modules for the parts of the program that carry this
logic, the TLC configurations that check them on small instances, and proofs,
checked by TLAPS, of every safety property of theirs but two, those of the
byte-level codec and cipher. `PROJECT.json` maps each definition to the lines it
models and lists runs, findings, hazards and theorems.

Run a check with `tlc -config MCUpstream.cfg MCUpstream`; check the proofs with
`tlapm UpstreamProofs.tla`, and likewise for the other modules of proofs.

## The system and its parts

| Part | Code | State | Operations |
|---|---|---|---|
| User stream | `statesync/userstream.go` | sequence of events | push, clone, subtract a prefix, diff from a snapshot |
| Sender | `transport/sender.go` | current stream, queue of numbered snapshots, assumed receiver state, timers, shutdown tries | `Tick`, `WaitTime`, `ProcessAcknowledgmentThrough`, `StartShutdown` |
| Receiver | `transport/transport.go` | number of the state on screen, whether the server is leaving | `Recv` |
| Fragments | `transport/fragment.go` | last payload and id; one partial reassembly | `makeFragments`, `add` |
| Connection | `network/connection.go`, `packet.go` | socket, sequence numbers, saved timestamp, time of the last hop and round trip | `Send`, `Recv`, `redial`, `Close` |
| Clipboard filter | `osc52/osc52.go` | scanner state, held bytes | `Filter`, `FilterChunk` |
| Session | `client/client.go`, `resize_unix.go`, `resize_windows.go` | escape state, shutdown clock, channels | `Run` and the goroutines it feeds on |
| Bootstrap | `bootstrap/*.go`, `cmd/gosh/root.go` | `known_hosts`, shared by all gosh processes; the authentication chain; what was changed at the terminal | check and record host keys, log in over SSH, start the server, read its answer, set and restore the terminal |
| Codec | `wire/wire.go` | none | encode and decode instructions and messages |
| Cipher | `ocb/ocb.go`, `crypto/session.go` | the key's tables | seal and open a datagram |
| Terminal, command line | `termenv`, `cmd/gosh` | the terminal's mode | system calls, flags |

How they meet: one goroutine (`Run`'s loop) owns sender, receiver, filter and
the sending side of the connection. Two pumps feed it through channels of
capacity 32, one reading standard input, one calling `Connection.Recv`; a third
goroutine turns SIGWINCH, or on Windows a change it polls for, into ticks on a
one-place channel. Connection state
shared with the receive pump is behind two mutexes, one for the socket pointer
and one for the rest. Dials run in goroutines of their own, abandoned after a
timeout.

What is hard, and what makes each part right:

* Sender and receiver: diffs refer to states the peer may or may not hold.
  Right means that the server's stream is always a prefix of what the user did,
  that one number means one state, that the screen is exactly the acknowledged
  state, and that both directions make progress.
* The queue limit (32): an erase from the middle must not take away what the
  protocol stands on.
* Timers: three deadlines recomputed on each pass; each must be met and none
  may fire on every pass, also when sends fail.
* Connection: a socket swap under a blocked reader, late dials, `Close`; no
  nonce twice, no packet accepted twice, no socket left open.
* Reassembly: fragments of several instructions mixed.
* Filter: sequences cut anywhere, aborted, or too long.
* Session: a signal, the quit key, the server's exit and acknowledgments in any
  order; the shutdown must end in time.
* Bootstrap: processes that read and append to one file without a lock, prompts
  and dials between reading and writing, a library that picks the host key and
  the authentication method by an order the code only suggests. Right means no
  alarm without a reason, no key accepted in place of a recorded one, no record
  lost, and a terminal as it was found.
* Codec and cipher: boundaries of lengths, and slips that both directions share,
  which no round trip shows.

## Modules

| Module | Models | Uses |
|---|---|---|
| `UserStream` | the stream and its diffs | |
| `StreamHistory` | a stream and a snapshot of it while the operations run | `UserStream` |
| `Sender` | `sender.go` without the clock | `UserStream` |
| `Upstream` | client sender, network, server receiver | `Sender`, `StateSync` |
| `Downstream` | server sender, network, client receiver | `Sender`, `StateSync` |
| `StateSync` | abstract: the sink holds a growing prefix of what the source produced | |
| `TimedSender` | `sender.go` with its timers and the loop's sleep | |
| `Fragments` | fragmentation, bursts cut short, reassembly | |
| `Connection` | sockets, sequence numbers, dials, the receive pump | |
| `Packet` | nonces, wrapped timestamps and their echo, at both ends | |
| `Osc52Scanner` | the clipboard filter's scanner and its reference definition | |
| `Osc52` | the filter on output and on input, call by call | `Osc52Scanner` |
| `Session` | `Run`'s loop with escapes and the input filter, the input pump, both window watchers | `Osc52Scanner` |
| `Wire` | the protobuf codec | |
| `Ocb` | OCB3 and the nonce around it, with RFC 7253 as reference | |
| `Bootstrap` | from the command line to a running client | |
| `Foundations` | theorems on least and greatest elements, iteration, concatenation and prefixes | |
| `SenderProofs` | theorems on the operations of `Sender` | `Sender`, `Foundations` |
| `UpstreamProofs`, `DownstreamProofs` | theorems | the module they are named after, `SenderProofs` |
| `TimedSenderProofs` | theorems | `TimedSender`, `Foundations` |
| `ConnectionProofs` | theorems | `Connection` |
| `DatagramProofs` | theorems on what is in a datagram | `StreamHistory`, `Wire`, `Fragments`, `Packet`, `Foundations` |
| `ClientProofs` | theorems on the client process | `Bootstrap`, `Session`, `Osc52`, `Foundations` |

The `MC` modules give inputs that a cfg cannot express. `MCUserStream` composes
`StreamHistory`, `Wire` and `Ocb`: a diff is coalesced and applied, encoded and
decoded, sealed and opened. `MCUpstream` and `MCDownstream` fix the order of the events
(a constraint), which stands for all others because the protocol tells events
apart by position only.
A definition whose comment begins with "Slip:" is a plausible
mistake in the definition below it; nothing uses it, and putting it in that
definition's place makes the property named in `PROJECT.json` fail.

**Sender.** `sentStates` is the code's queue, each element a number and a
snapshot; sequences are numbered from 1. Each `Tick` runs `calculateTimers`,
which rationalizes the queue, so `SendEmptyAck` and `SendToReceiver` work on
`Rationalized(sentStates)`, as does `CalculateTimers`, a pass that sends
nothing. Time is abstracted: an operation may be due at any moment, and the
assumed receiver state may be any queued one. That is more than the code can do
at a given instant, because the scan stops at the first old state, but the
timeout it compares with may change between two elements. `ok` is whether the
send succeeded. A failed send puts nothing on the wire: a write that failed
after the kernel sent the datagram is not modelled.

**Upstream.** The server is external: `ServerRecv` is what `sender.go` relies
on. Message sets only grow, so that loss is never delivering, and repetition
and reordering come by themselves. A stale acknowledgment may arrive at any
later time.

**Downstream.** The same sender algorithm plays the server (`sender.go` is a
port of it), with screen content for events; the client's `Recv` is the code.
`MaxApplyFailures` bounds writes to the terminal that fail midway; `screen` is
everything painted, `rendered` what diffs painted in full add up to.

**TimedSender.** One time unit is the loop's shortest wait. Streams are reduced
to their length, the round-trip estimate is a constant, sends take no time, and
the queue is not erased from (the bounded clock keeps it short). `attempts`
remembers the last two transmissions, `failed` whether any has failed,
`unsentSince` when the oldest event that no transmission has carried was typed.

**Fragments.** A compressed instruction is a sequence of units. `SendInFragments`
hands the network the first `n` fragments of a transmission, any `n`: the burst's
budget may end or a send fail (`sender.go:334-344`). Number and final mark share
a field, as in the header. Garbage, a fragment of no fragmenter, may come under any id,
those in use included, with any number the field holds, marked final or not.

**Connection.** Each step between two lock operations, dials or writes is an
action. Sockets are numbers; `open` is the set not yet closed. The clock
advances between any two steps. Timestamps and their echo are in `Packet`.

**Packet.** `Send` is split where the code may dial: reading the clock, then
sealing. The server's end mirrors the code. The ghost fields of a packet record
when its timestamp was read and when it was sealed.

**Osc52Scanner, Osc52.** The scanner takes a byte at a time. Bytes are strings of one character, with
names for those that have no glyph and `SEP` for the semicolon. The number, the
digit limit and the hold limit are constants. The reference definition,
`Expected`, is read off the whole input by position: what the policy makes of it
if nothing had to be held back.

**Session.** `LoopTop` is one pass from `Tick` to the select, `Select...` are
its cases. Time is in units of 100 ms, the longest wait, and counted only
during a shutdown. The transport is reduced to what the loop asks of it. `Tick`
does not block here: `Connection` models the dial that may. What the escapes leave
of a read goes through `FilterInput`, the scanner of `Osc52Scanner` under the Off
policy, unless the user chose Full (`clipIn` is then empty, nil in the code);
so it does without escapes. `handed` records what was given to it, read by read. `watcher` is the
SIGWINCH goroutine or the poller of Windows, whose first look at the window
(`PollerStarts`) and later ones (`Poll`) are steps of their own; there is one
only in an interactive session, in which escapes are enabled.

**Wire.** Bytes, varints and tags as in the code; integers have `Width` values
and a varint `MaxBytes` bytes, in proportion to 2^64 and 10. `FieldsOf` is the loop
of `parseFields`, a recursive function on the length of what is left, up to the
end or the first malformed field; the visitors of a message are one operator for
each level of nesting.

**Ocb.** The code's byte arithmetic with blocks of `BlockSize` bytes. AES is a
constant, any permutation; the run uses a small Feistel network. `Pass` is the
loop of `Seal` and of `Open`, which differ in the direction of the cipher and in
which side is plaintext. The reference, `RefSeal`, is RFC 7253 on strings of
bits.

**Bootstrap.** `file` is what `known_hosts` says about one host, and whether it
parses and ends in a newline. Each process in `proc` goes through `runSession`:
the policy's reading of the file (`Stat`, `CreateFile`, `ReadKnownHosts`), the
authentication chain, the dial with its second reading, the host key callback
(`VerifyHostKey`, which may append), authentication, `mosh-server`, and
`runClient` with the terminal. Steps that wait for something outside (a prompt,
a dial, another process's write) are separate actions; every call that can fail
may fail; a signal may end a process before `runClient` takes signals over. The
SSH library is external: `Verify`, `Negotiated`, `NoneAuth`, `NextMethods`.
`announced` records what was reported as permanently added, `mishaps` which lines
were lost: truncated by a process that saw no file, or swallowed by an unfinished
line they were appended to; and whether there was no file at the start. An append
cut short leaves a part that does not parse, unless it continues an unfinished line,
or all of the line but its newline.

## Runs

| Run | Shows | Bounds |
|---|---|---|
| `user_stream` | a diff rebuilds the stream exactly, through coalescing, codec and cipher; keys never cross a resize; unknown and truncated fields do no harm; what is sealed is OCB3 | 5 events, 2 keys, 1 size; 16-bit integers, blocks of 4 bytes, 3 nonces |
| `upstream` | order, exactly once, one number one state, front held, queue sorted, an acknowledged quit delivered what was typed before it; implements `StateSync`; everything arrives, a shutdown ends | queue of 3, 2 events, 1 empty ack, 2 shutdown tries |
| `downstream` | the client acknowledges exactly what it has rendered; nothing skipped, and nothing painted twice unless a write failed; the server exits only when the end is rendered; implements `StateSync`; the screen catches up | queue of 3, 2 outputs, 1 failed write |
| `fragments` | no mixing; a whole retransmission completes over whatever was left, garbage beyond its own final fragment included | 3 ids, 2 chunk sizes, 2 stray fragments with numbers 0 to 3 (a payload has at most 3 fragments), any burst cut |
| `connection` | nonces, replays, leaks, writes to open sockets, spacing of hops; the pump ends and everything is released | 2 sends, 3 sockets, clock of 4 |
| `connection_dials` | ends in a violation, see below | 1 send |
| `packet` | measurements right modulo wrap; a peer's timestamp echoed once, never one's own | clock over the wrap, 2 packets per end |
| `timed_sender` | deadlines met, sends paced, any send may fail | clock of 9, 2 events, 3 shutdown tries |
| `osc52` | filter equals its definition however the input is cut | 4 calls |
| `session` | escapes and the filter behind them, both bounds of the handshake, ending, sizes with either watcher | 2 reads of 2 chunks that cut escapes and clipboard sequences across each other; 2 resizes, 3 tries, a timeout of 1; sequences of up to 9 bytes with the number `2` |
| `bootstrap` | host keys refused only for a reason, recorded once, and kept but for two mishaps; a dead agent hides no other; the terminal restored | 2 processes, 2 agents, 6 servers, 4 files; processes and agents are symmetric |
| `bootstrap_auth` | ends in a violation, see below | the same |

Why the bounds are enough: a queue of 3 with an erase of the second from the
end reaches every relation of the erased element to the assumed one, the front
and the back; the code's 32 and 16 differ only in distance. Two events and one
empty ack let a state be sent, extended, retransmitted and overtaken. Two sends
and three sockets allow a hop, an error redial and a late dial together. Two
processes suffice for every race on `known_hosts`, as each writes at most twice;
the servers have recorded and unrecorded types, changed keys, certificates and
weak algorithms. Messages of the run reach a dozen blocks, so the table of
offsets is used up to its fourth entry. The theorems below lift the bounds from
all the safety properties of these runs but `CodecFaithful` and `SealFaithful`. `CHECK_DEADLOCK FALSE` stands in
every cfg because a session ends and because inputs are bounded.

Fairness is used where a run checks liveness. *Upstream, Downstream*: the sender's
timers are rescheduled on each pass and the loop never sleeps for more than 100
ms, so retransmission is weakly fair; a network that does not lose a repeated
message for ever is strongly fair in delivering it. *Connection*: a goroutine
that can go on does, and dials and writes end because the code gives them
deadlines. *Session*: Go's select picks at random among ready cases, so a case
ready again and again is taken (strong fairness); nothing is assumed of input,
the server or the network.

## Disagreements found

Two runs end in a violation.

`connection_dials`. The comment on `dialTimeout` promises
that one `Send` never dials twice, or the client would hang for longer than the
closing handshake may take; a port hop whose dial fails reports "not hopped",
and when the write then fails too, the error path dials again.

`bootstrap_auth`. The repository's README says that authentication tries an
identity file, then every reachable agent, then a password. Identity and agents
are two entries of one SSH method, `publickey`, and the library tries each
method name once. When the server does not take the identity, no agent is asked.

Other places where the code does less than a comment suggests are kept out of
the properties by an explicit condition, which says exactly when they hold:

* `RenderedIsLatest` asks that the screen show just what is rendered only while
  `applyFailures = 0`: a terminal write that fails midway is
  painted again by the retransmission, since `latestNum` has not moved.
* `Converges` excepts that the server's queue lost the state on screen: when it
  is full it may erase the only state the client can take a diff from, and every
  later diff is refused.
* `Paced` has `~failed`: a failing first send of new keystrokes, or of a
  shutdown packet, is repeated on each pass of the loop, because the time it is
  scheduled from moves only when something is recorded as sent.
* `HandshakeBounded` has `ctx # "handled"`: a signal during a shutdown restarts
  its timeout (the other two places that begin a shutdown do not). Its second
  conjunct, the bound by transmissions, holds regardless.
* Nothing says that the client's return implies `rendered = history`: `Run`
  leaves on the acknowledgment of its own shutdown, though the server's final
  diff may not have been accepted yet.
* A hold time in `Packet` can be negative, as `Send` reads the clock before it
  dials. The dial's time is then added to the round trip the peer measures;
  nothing else breaks.
* `SizeSynced` excepts `missed`: the Windows poller takes the size it compares
  with when its goroutine first runs. A change after `Run` read the size and
  before that is not reported until the next one.
* `AddedForGood` excepts, key by key, two `mishaps`: of two processes that find no
  `known_hosts` the slower one truncates what the faster one recorded
  (`hostkey.go:69`); and a key appended after an unfinished last line, one without
  a newline or one that an append cut short left (`hostkey.go:263`), becomes part of
  that line. The first cannot happen to a file that was there from the start, and
  the property says so.
* `AddedForGood` is about the lines of the file, not about their use: after an
  append cut short, the line it left does not parse and the next process refuses the
  file as a whole (`hostkey.go:73-75`), until someone mends it. The keys announced
  before are still in it.
* `NoSecondFirstUse` is about a process that read the file after the first key
  was announced. Two that overlap may record two different keys, though "a
  *changed* key is still always fatal" (`hostkey.go:26`).
* `NoFalseAlarm` makes two exceptions, connections that work with the library's
  default order and not with the preference, which "must never" break one
  (`hostkey.go:161`). Weak algorithms: a server whose only verifiable key is
  under one that is not on record. Several authorities: the type of a
  `@cert-authority` line is the type of the authority's key, not of what it
  signed. With an Ed25519 authority on record and a server that has an ECDSA
  certificate of it and an Ed25519 certificate of another, the preference asks
  for the second, which no line covers.
* `TerminalRestored` allows a missing echo after a signal at a password prompt.
* `RetransmissionCompletes` excepts garbage that reached an assembly under the id
  being retransmitted and stands in the place of one of its fragments, or moved the
  end after the genuine final one had arrived (`Unspoilt`): the code has nothing to
  tell it by. Garbage beyond the final fragment is no exception, since the cut and
  the recount (`fragment.go:143-155`) get rid of it.
* It also needs a transmission that comes through whole.
  Fresh chaff gives every retransmission a new id, so the fragments of a burst
  cut short are of no use to the next one, and a budget that is always too small
  never gets the last fragment out. That "retransmissions of an unchanged
  instruction reuse their id" (`fragment.go:79`) happens only if the chaff
  agrees.
* `EscapesTranslated` says that the server gets what was typed but for the
  clipboard sequences whole in a read. The repository's README says that, without
  a TTY, "piped sessions pass bytes through untouched" (`README.md:36`): escapes are
  off then, but `filterInput` (`client.go:242`, `265-274`) strips those sequences
  from piped input too, unless the policy is `--clipboard full`. The model follows
  the code.

Three comments are out of date without consequences: `crypto.Session` speaks of
one goroutine where two use it (without shared mutable state); the
assignment after the first `restore()` in `runClient` does not keep the deferred
call from restoring a second time; and the loop says that the bookkeeping behind a
failed send "still advanced as if it went out" (`client.go:198-199`), while the sender
records a state as sent only after the send succeeded.

`RttAccurate` holds modulo 2^16 with an error of up to 2 ms: a round trip below
that, when the sentinel is stepped over, is measured as about 65535 ms. The
code has no upper limit on a measurement, but clamps what it derives from it.

## Proofs

TLAPS proves these, each for every value of the constants: any queue limit,
number of tries, events, sockets, fragments, processes, and any intervals.

| Module | Theorem | States |
|---|---|---|
| `UpstreamProofs` | `TypeCorrect` | the types, the queue limit and the index range |
| | `QueueStaysSorted` | `QueueSorted` |
| | `FrontStaysHeld` | `FrontHeld` |
| | `NeverRegresses` | `NoRegress` |
| | `EndsAgree` | `StatesAgree` |
| | `AckedQuitIsDelivered` | `AckedQuitDelivers` |
| | `UpstreamRefinesStateSync` | `ImplementsStateSync` |
| `DownstreamProofs` | `AcksOnlyRendered` | `AckOnlyRendered` |
| | `LatestIsRendered` | `RenderedIsLatest` |
| | `LastOutputRendered` | `ServerExitsRendered` |
| | `DownstreamRefinesStateSync` | `ImplementsStateSync` |
| `DatagramProofs` | `DiffAlwaysRebuildsStream` | `DiffRebuildsStream` |
| | `InstructionRoundTrips` | decoding an encoded instruction gives it back |
| | `NeverMixes` | `NoMixing` |
| | `RetransmissionAlwaysCompletes` | `RetransmissionCompletes` |
| | `EchoAlwaysFaithful` | `EchoFaithful` |
| | `RttAlwaysAccurate` | `RttAccurate` |
| `ConnectionProofs` | `SequenceNumbersUnique` | `NoSeqTwice` |
| | `SocketsAlwaysOwned` | `SocketsOwned` |
| | `HopsAreSpaced` | `HopsSpaced` |
| `TimedSenderProofs` | `LoopIsPrompt` | `Prompt` |
| | `RetransmitsInTime` | `RetransmitPrompt` |
| | `KeepsAlive` | `Keepalive` |
| | `SendsArePaced` | `Paced` |
| `ClientProofs` | `AddedStays` | `AddedForGood` |
| | `FirstUseOnce` | `NoSecondFirstUse` |
| | `TerminalIsRestored` | `TerminalRestored` |
| | `AgentsAreAllAsked` | `AgentsFallThrough` |
| | `NoAlarmWithoutReason` | `NoFalseAlarm` |
| | `HandshakeAlwaysBounded` | `HandshakeBounded` |
| | `EscapesAlwaysTranslated` | `EscapesTranslated` |
| | `OutputAlwaysAsOnePiece` | `OutputAsOnePiece` |
| | `InputAlwaysByChunk` | `InputByChunk` |

`InvariantHolds`, `AgreementHolds`, `DownstreamHolds`, `FragmentsHold` and
`TimersHold` are the inductive invariants these follow from. `SenderProofs` has
what `Upstream` and `Downstream` share, `Foundations` what stands in for
induction over data, which is out of the prover's reach: a nonempty set of
naturals has a least element (`NatHasLeast`, from the well-foundedness of strict
inclusion between finite sets), so a claim about every length or position is
proved at the first place where it could fail, and a recursive definition is
shown to have a value the same way (`Iterates`, `Descends`).

**Assumptions.** TLC evaluates all of them. `SenderAssumption`: 2 <=
`EraseFromEnd` <= `MaxSentStates`, at least one try, fewer events and empty acks
than `ShutdownNum`, which is 2^64 - 1 in the code. `EventAssumption`: keys are
not sizes. `WireAssumption`: a varint of `MaxBytes` bytes, at least two, has room
for every integer and for more, and one byte less does not suffice; the version is
a narrower integer. `FragmentsAssumption`: instructions are not empty (zlib's output never
is), a fragment holds something, and no instruction has more fragments than the
15 bits of the number tell apart; the code does not check the last.
`TimedAssumption`: intervals are positive, and the send interval (at most 250
ms) does not exceed the keepalive period (3 s). `ConnectionAssumption`: positive
interval and capacity. `PacketAssumption`: a timestamp is held, and a `Send`
dials, for less time than the clock takes to wrap (the code's limits are 1 s and
1.5 s), and there are more sequence numbers than packets. `BoundAssumption`, `SessionAssumption`,
`Osc52Assumption`: positive bounds, interval, tries and capacity, input made of bytes.
`ScannerAssumption`: the number of digits is positive and the introducer fits into
what may be held (the code has 8 digits and 64 KiB). `BootstrapAssumption`: the default
order has the supported and the insecure algorithms, and no server has others.
`OrderAssumption`: in the library's lists the insecure algorithms are the weak
ones, certificates come first, and the supported ones are ranked as in the
default. `KeyAssumption`: a key is of one type wherever it occurs, and a server
has certificates for certificate algorithms only. The last two are used for
`NoFalseAlarm` alone.

**Upstream, the queue.** `FrontHeld` fails if a message could throw the front
away, so the invariant says that no message on the wire throws away anything at
or above the front. An acknowledgment makes its state the front, so every
acknowledged number must be held by the server or lie below the front
(`AcksCovered`); that it lies below and is therefore not found again needs the
queue sorted. The queue stays sorted if a fresh number exceeds the newest
without wrapping into the shutdown number. That needs a count (`Counted`): before
a shutdown, a state's number is at most the empty acks sent plus the events its
snapshot covers. The count speaks about lengths after subtraction, so the
invariant also says that snapshots are prefixes of the current stream and grow
along the queue. These parts form `QueueOK`, a predicate on a queue and a stream,
because a `Tick` applies it to the rationalized queue midway.

**Both directions, what a number means.** Sorted numbers do not make two ends
agree on content. The code keeps no record of how much a number stands for:
rationalizing cuts the snapshots and an acknowledgment drops them. So the
invariant (`Explains`) is existential: some table from numbers to lengths of the
history explains the queue, every instruction on the wire and every state of the
receiver at once. Each operation keeps the table or extends it by the number it
mints. The shutdown number is not in the table, since it is sent again while the
user can still type; of it the invariant says that it covers no less than what
was typed before the quit. One fact was not obvious beforehand: all queued
entries with the shutdown number cover the same length, because an empty ack is
sent only when nothing is unsent. So the proof relates `shutdownRetries` and
`EraseFromEnd` in no way. The refinements follow step by step: events are
`Produce`, an accepted instruction is `Synchronize`, and the rest stutters.

**User stream.** `StreamInv`: what was acknowledged followed by what is left is
all that was pushed, and the snapshot is a prefix of what is left. So a diff that
goes by lengths alone is right about content. Coalescing is followed one event at
a time: what the groups made so far expand to grows by just that event.

**Wire.** `InstructionRoundTrips` is about the operators alone. `VarintGood`: what
`appendVarint` appends has its last byte, and no other, below 128, and stands for
its argument; `VarintShort` bounds its length, so `readVarint` never takes it for
an overflow, the tenth byte included. For the loop of the decoder, a recursive
function of what is left, to have a value at all, it must get shorter on any
bytes: each field takes at least one (`ReadFieldBounds`). `FieldsStep` is one turn
of it, and the theorem takes seven.

**Fragments.** An id stands for one payload cut in one way, every fragment on the
wire is the one its id and number name (`WireGenuine`), and so, as long as there was
no garbage, is every one in a partial instruction (`Partial`). `Counted` holds
with garbage too: the counter is the number of places in use, and a known total does
not exceed the table's length. A retransmission is followed fragment by fragment from
any assembly that is not spoilt: after `i` of them the first `i` places are in use and
nothing stands in the place of another (`Clean`), and when the final one comes, whatever lay beyond it is cut and the rest
counted anew. That the pieces make the payload, and that taking them in order completes it, are
claims about recursive functions, proved at the first place where they could fail.

**Packet.** `EchoInv` says of each timestamp an end has saved, and of each on its
way back, that the peer sent it and which packet it came from; an end forgets it
when it replies, so none is echoed twice. Times are compared up to wrapping
(`Cong`). `RttInv`: a stamp is congruent to the time its sender read, a reply to
that time advanced by how long it was held. What a measurement is off by, from
two milliseconds short to one over, are the steps over the sentinel at either
end.

**Connection.** Three invariants that do not need each other. `SeqInv`: both
counters are above all they have produced or accepted. `SocketInv`: by the place
of the client loop in `Send` and of the pump, who still owns which open socket.
`HopInv`: a hop is counted as a port choice or is the one the current call began.

**TimedSender.** The loop sleeps until `wakeAt`, so each promise becomes a bound
on `wakeAt` that `GoToSleep` establishes and nothing disturbs during the sleep.
The bounds follow from the timers, the timers from when the newest state was
sent, and `TimedInv` relates that time to the last attempt, to the oldest event
never transmitted and to the oldest data not acknowledged. The attempt corrected
the model: a retransmission of the shutdown number carries the events typed since
it was first sent, but the newest entry of the queue keeps its old state. `Prompt`
had measured from that entry and was wrong for more than two tries; the ghost
`unsentSince` now marks the oldest event that no transmission has carried, and the
run has three tries.

**Bootstrap.** A process decides by its own reading, so `RecordInv` ties three
things together: what was announced and not lost is on file, and
what had been announced and not lost when a process read the file is in what it
read. An append happens only for a host with no line in that reading, hence only if
nothing had been announced before it. `FileKept` is what every step does to the lines:
none takes one away but the truncation, and that needs a process that saw no file. All other steps leave the file alone and
either keep a process's reading, drop it or make it anew (`QuietStep`).
`TerminalInv` says by the place of a process what may be changed about its
terminal. `ChainInv` says what is left of a chain before the first offer and,
from then on, that without an identity the agents are about to be asked for
everything at hand or nothing at hand is taken by the server. `AlarmInv` says
that every line read or on file names a key there is, and that the key about to
be verified is the one the second reading led to. The rest is about orders: of an
order only the first algorithm matters that the server has (`Leads`), filtering
and concatenating keep that in a way the lemmas state, and so what the default
order would choose is followed through the four parts of the ranking. The proof
needs that all of a server's certificates are of one authority; TLC then showed a
server for which the property, until then without this condition, fails.

**Session.** A shutdown is bounded twice, so `ClosingInv` relates the clock to
both: it has not run past the timeout, and not past the interval times the
transmissions made; the next transmission is always due in time. `EscapeInv`
carries the translation of all input so far. The scanner is in its escape state
exactly when the run of escape keys that ends the input is odd, so nothing about
the cuts between reads needs to be known. The filter behind the escapes is in its
first state between two reads (`Guards`), so what it makes of each is the reference
definition of `Osc52Scanner` on that read alone, which is proved in the part on the
filter.

**Osc52.** `ScanInv`: what was handed on is the output for everything before what
is held, whatever comes after it. `Holding` says by the scanner's state which part
of a sequence is held, and hence where it begins. Each byte either extends that
part, completes a sequence the policy decides about, or shows that there is none,
and then everything held is handed on and the byte is looked at anew. At the end
of an input nothing follows, and what is held is the rest (`HeldAtEnd`); for local
input, which is not held over, that is what `FilterChunk` hands on (`FlushIs`).

**Only model-checked.**

* Liveness (`Delivered`, `QuitEnds`, `Converges`, `SocketsReleased`, `Ends`,
  `SizeSynced`): fairness is out of the prover's reach.
* `CodecFaithful`, of which `InstructionRoundTrips` is the part about
  instructions: what the visitors of nested messages make of unknown fields and
  of a message cut short.
* `SealFaithful`: what the cipher computes, byte by byte, against a reference on
  strings of bits.

  The visitors and the cipher are built on library operators that take an
  operator (`SelectSeq`, `MapThenSumSet`, `FoldLeft`), which
  no prover here can instantiate.

## Not modelled

* AES, and that a forged packet is not accepted: the cipher is a permutation, and
  `Connection` takes packets to be authentic.
* The base64 text of a session key, zlib, and the text of the command that
  starts `mosh-server`: conversions without state.
* Smoothing of round-trip measurements: float arithmetic. Its result is
  arbitrary in `Sender` and constant in `TimedSender`.
* How agent endpoints are found and their peers identified (`dotvault.go`,
  `agentpeer_*.go`, `agent_windows.go`): path arithmetic and system calls;
  `Bootstrap` begins with the agents that passed.
* A time limit on the remote command: the code has none, so `ExecServer` may
  stay pending for ever; no property asks otherwise.
* Signals that `runClient` does not take over (SIGHUP, SIGQUIT: `root.go:204` asks
  for Interrupt and SIGTERM only): they end the process with the terminal raw. The
  undoing of raw mode is one step.
* Flags, and failing queries of the window size in `Run`, which would push 80x24.
* What a terminal makes of the bytes it is given.

## Plan

Done first: the protocol in both directions, since everything depends on it;
then the timers, the connection, reassembly, the filter and the loop; then the
bootstrap, the codec and the cipher.

Left, modelling: (1) a send that takes time and a varying round-trip estimate in
`TimedSender`; (2) `Session` composed with `Sender` in place of its abstraction
of the handshake.

Left, proofs: (1) the rest of `CodecFaithful`, once the visitors select fields by
recursive functions too; (2) that `Open` undoes `Seal` for any permutation.
