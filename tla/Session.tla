------------------------------- MODULE Session -------------------------------
(***************************************************************************)
(* The client's main loop (internal/client/client.go, Run) and the         *)
(* goroutines that feed it: the input pump and the window-size watcher     *)
(* (resize_unix.go, or resize_windows.go, which polls).  The loop          *)
(* alternates between LoopTop (Tick, then the closing decision) and one    *)
(* case of its select.                                                     *)
(*                                                                         *)
(* Time is in units of the longest wait (100 ms) and only counted during a *)
(* shutdown, the only time the loop looks at it.  The transport appears    *)
(* as what the loop asks of it; Upstream and Downstream model the rest.    *)
(***************************************************************************)
EXTENDS Osc52Scanner

CONSTANTS Chunks,           \* what one read of stdin may return
          MaxReads,         \* bound: reads of stdin
          InputCap,         \* capacity of the input channel (code: 32)
          Sizes,            \* window sizes
          MaxResizes,       \* bound: window changes
          MayCancel,        \* whether the context may be cancelled
          SendInterval,     \* between two transmissions of the shutdown state
          shutdownRetries,  \* transmissions before giving up (16)
          ShutdownTimeout   \* cfg.ShutdownTimeout

ASSUME SessionAssumption ==
    /\ Chunks \subseteq Seq(STRING) /\ MaxReads \in Nat /\ InputCap \in Nat \ {0} /\ MaxResizes \in Nat
    /\ Sizes \subseteq Nat \ {0} /\ Sizes # {} /\ MayCancel \in BOOLEAN
    /\ SendInterval \in Nat \ {0} /\ shutdownRetries \in Nat \ {0} /\ ShutdownTimeout \in Nat

escapeKey == "^"

\* The poller has not looked at the window yet.
NoSize == 0

VARIABLES
    pc,                 \* "top", "select" or "returned"
    result,             \* what Run returned: "none" so far, "nil", "ctx", "version"
    ctx,                \* "live", "cancelled", or "handled" (ctxDone is nil)
    disableEscape, escapePending,
    input,              \* the input channel, a sequence of chunks
    reads,              \* ghost: chunks read from stdin
    clipIn,             \* the filter on input, << >> (nil) under the Full policy
    consumed,           \* ghost: bytes the loop took from the channel
    handed,             \* ghost: what was handed to filterInput, read by read
    pushedKeys,         \* every key byte pushed on the user stream
    winSize, sigwinch,  \* the window, and a pending SIGWINCH
    watcher,            \* "SIGWINCH", "poller" (Windows), "off" once it returned
    lastSize, missed,   \* poller: the size seen last; ghost: its first look came too late
    resized, resizes,   \* the watcher's channel (capacity 1); ghost counter
    pushedSize,         \* the last size pushed on the user stream
    remoteShutdown,     \* the server announced its exit
    shutdownInProgress, tries, dueAt, acked,  \* the sender's closing handshake
    now, shutdownFrom,
    startedAt           \* ghost: when the shutdown began

loopVars    == <<pc, result, ctx>>
keyVars     == <<disableEscape, escapePending, clipIn, consumed, handed, pushedKeys>>
watchVars   == <<watcher, lastSize, missed>>
sizeVars    == <<winSize, sigwinch, watchVars, resized, resizes>>
closingVars == <<shutdownInProgress, tries, dueAt, acked, shutdownFrom, startedAt>>
sessionVars == <<loopVars, keyVars, input, reads, sizeVars, pushedSize, remoteShutdown, closingVars, now>>

\* Run's first synchronized event is the terminal size.  There is a watcher when
\* the session is interactive, and escapes are enabled then (root.go:224-228).
SessionInit ==
    /\ pc = "top" /\ result = "none" /\ ctx = "live"
    /\ disableEscape \in BOOLEAN /\ escapePending = FALSE
    /\ clipIn \in {<< >>, <<New("Off")>>}
    /\ input = << >> /\ reads = 0 /\ consumed = << >> /\ handed = << >> /\ pushedKeys = << >>
    /\ winSize \in Sizes /\ sigwinch = FALSE /\ resized = FALSE /\ resizes = 0
    /\ watcher \in IF disableEscape THEN {"off"} ELSE {"SIGWINCH", "poller"}
    /\ lastSize = NoSize /\ missed = FALSE
    /\ pushedSize = winSize
    /\ remoteShutdown = FALSE
    /\ shutdownInProgress = FALSE /\ tries = 0 /\ dueAt = 0 /\ acked = FALSE
    /\ now = 0 /\ shutdownFrom = 0 /\ startedAt = 0

-----------------------------------------------------------------------------
(* The closing handshake *)

\* The sender's StartShutdown does nothing the second time; the next
\* transmission is due within a send interval.
StartShutdown ==
    /\ shutdownInProgress' = TRUE
    /\ IF shutdownInProgress THEN UNCHANGED <<dueAt, startedAt>>
       ELSE dueAt' \in now..now + SendInterval /\ startedAt' = now
    /\ UNCHANGED <<tries, acked>>

\* Slip: the timeout is not looked at.
DoneWithoutTimeout(count, from) == acked \/ count >= shutdownRetries

\* The closing decision, after this round's Tick and a remote shutdown.
Done(count, from) ==
    acked \/ count >= shutdownRetries \/ now - from > ShutdownTimeout

\* Tick counts a transmission when one is due during a shutdown.
Due == shutdownInProgress /\ now >= dueAt

LoopTop ==
    LET begins == remoteShutdown /\ ~shutdownInProgress
        count  == IF Due THEN tries + 1 ELSE tries
        from   == IF begins THEN now ELSE shutdownFrom
    IN  /\ pc = "top"
        /\ tries' = count
        /\ shutdownFrom' = from
        /\ IF begins
           THEN shutdownInProgress' = TRUE /\ dueAt' \in now..now + SendInterval /\ startedAt' = now
           ELSE /\ UNCHANGED <<shutdownInProgress, startedAt>>
                /\ dueAt' = IF Due THEN now + SendInterval ELSE dueAt
        /\ IF shutdownInProgress' /\ Done(count, from)
           THEN pc' = "returned" /\ result' = IF ctx = "handled" THEN "ctx" ELSE "nil"
           ELSE pc' = "select" /\ UNCHANGED result
        /\ UNCHANGED <<ctx, keyVars, input, reads, sizeVars, pushedSize, remoteShutdown, acked, now>>

-----------------------------------------------------------------------------
(* The cases of the select *)

\* Slip: the cancellation is noted but no shutdown is started.
SelectCtxOnlyNoted ==
    /\ pc = "select" /\ ctx = "cancelled"
    /\ ctx' = "handled" /\ pc' = "top"
    /\ UNCHANGED <<result, keyVars, input, reads, sizeVars, pushedSize, remoteShutdown,
                   closingVars, now>>

\* Cancellation: start a shutdown, or restart the clock of the one under way.
SelectCtx ==
    /\ pc = "select" /\ ctx = "cancelled"
    /\ ctx' = "handled" /\ pc' = "top"
    /\ StartShutdown
    /\ shutdownFrom' = now
    /\ UNCHANGED <<result, keyVars, input, reads, sizeVars, pushedSize, remoteShutdown, now>>

\* Slip: the pending escape is forgotten when the byte after it is read.
EscapeStepForgets(s, c) ==
    CASE s.quit -> s
      [] ~s.quit /\ s.pending ->
           [s EXCEPT !.pending = FALSE, !.quit = (c = "."),
                     !.out = IF c = "." THEN @ ELSE Append(@, c)]
      [] ~s.quit /\ ~s.pending ->
           IF c = escapeKey THEN [s EXCEPT !.pending = TRUE] ELSE [s EXCEPT !.out = Append(@, c)]

\* One byte of processEscapes; after a quit the rest of the chunk is dropped.
EscapeStep(s, c) ==
    CASE s.quit -> s
      [] ~s.quit /\ s.pending ->
           [s EXCEPT !.pending = FALSE, !.quit = (c = "."),
                     !.out = IF c = "." THEN @
                             ELSE IF c = escapeKey THEN Append(@, escapeKey)
                             ELSE @ \o <<escapeKey, c>>]
      [] ~s.quit /\ ~s.pending ->
           IF c = escapeKey THEN [s EXCEPT !.pending = TRUE] ELSE [s EXCEPT !.out = Append(@, c)]

ProcessEscapes(b) ==
    LET after[i \in 0..Len(b)] ==
            IF i = 0 THEN [out |-> << >>, quit |-> FALSE, pending |-> escapePending]
            ELSE EscapeStep(after[i - 1], b[i])
    IN  after[Len(b)]

\* filterInput, piped input included: unless the policy is Full, what a chunk
\* comes to goes through a filter that drops every clipboard sequence.
FilterInput(keys) ==
    IF clipIn = << >> \/ keys = << >> THEN [keys |-> keys, clipIn |-> clipIn]
    ELSE LET s == FilteredChunk(clipIn[1], keys)
         IN  [keys |-> s.dst, clipIn |-> <<s.f>>]

\* A chunk of input.  quitRequested is consulted in this case only.
SelectInput ==
    LET b == Head(input)
        s == IF disableEscape THEN [out |-> b, quit |-> FALSE, pending |-> escapePending]
             ELSE ProcessEscapes(b)
        filtered == FilterInput(s.out)
    IN  /\ pc = "select" /\ input # << >>
        /\ input' = Tail(input) /\ consumed' = consumed \o b
        /\ escapePending' = s.pending
        /\ handed' = Append(handed, s.out)
        /\ clipIn' = filtered.clipIn
        /\ pushedKeys' = pushedKeys \o filtered.keys
        /\ IF s.quit /\ ~shutdownInProgress
           THEN StartShutdown /\ shutdownFrom' = now
           ELSE UNCHANGED closingVars
        /\ pc' = "top"
        /\ UNCHANGED <<result, ctx, disableEscape, reads, sizeVars, pushedSize, remoteShutdown, now>>

\* A datagram: it may announce the server's exit or acknowledge ours.
SelectDatagram ==
    /\ pc = "select"
    /\ \/ ~remoteShutdown /\ remoteShutdown' = TRUE /\ UNCHANGED acked
       \/ tries > 0 /\ ~acked /\ acked' = TRUE /\ UNCHANGED remoteShutdown
    /\ pc' = "top"
    /\ UNCHANGED <<result, ctx, keyVars, input, reads, sizeVars, pushedSize,
                   shutdownInProgress, tries, dueAt, shutdownFrom, startedAt, now>>

\* A datagram of another protocol version ends the session at once.
SelectVersionMismatch ==
    /\ pc = "select"
    /\ pc' = "returned" /\ result' = "version"
    /\ UNCHANGED <<ctx, keyVars, input, reads, sizeVars, pushedSize, remoteShutdown, closingVars, now>>

SelectResized ==
    /\ pc = "select" /\ resized
    /\ resized' = FALSE
    /\ pushedSize' = winSize
    /\ pc' = "top"
    /\ UNCHANGED <<result, ctx, keyVars, input, reads, winSize, sigwinch, watchVars, resizes,
                   remoteShutdown, closingVars, now>>

\* The wait is over.
SelectTimer ==
    /\ pc = "select"
    /\ now' = IF shutdownInProgress THEN now + 1 ELSE now
    /\ pc' = "top"
    /\ UNCHANGED <<result, ctx, keyVars, input, reads, sizeVars, pushedSize, remoteShutdown, closingVars>>

-----------------------------------------------------------------------------
(* The goroutines around the loop *)

\* The input pump reads a chunk and puts it in the channel, or waits for room.
PumpInput ==
    /\ reads < MaxReads /\ pc # "returned"
    /\ Len(input) < InputCap
    /\ \E b \in Chunks : input' = Append(input, b)
    /\ reads' = reads + 1
    /\ UNCHANGED <<loopVars, keyVars, sizeVars, pushedSize, remoteShutdown, closingVars, now>>

\* After Run has returned nobody looks at the window any more.
WindowChange ==
    /\ pc # "returned"
    /\ resizes < MaxResizes /\ resizes' = resizes + 1
    /\ \E s \in Sizes \ {winSize} : winSize' = s
    /\ sigwinch' = (watcher = "SIGWINCH") /\ missed' = FALSE
    /\ UNCHANGED <<loopVars, keyVars, input, reads, watcher, lastSize, resized, pushedSize, remoteShutdown, closingVars, now>>

\* Slip: an unbuffered channel; a signal is lost when the loop is busy.
ForwardIfWaiting == resized' = (resized \/ pc = "select")

\* WatchResize's inner select: a tick that finds the channel full is dropped.
Forward == resized' = TRUE

\* WatchResize's loop.  When both its cases are ready either may be taken.
WatchResize ==
    /\ watcher = "SIGWINCH" /\ sigwinch
    /\ sigwinch' = FALSE
    /\ Forward
    /\ UNCHANGED <<loopVars, keyVars, input, reads, winSize, watchVars, resizes, pushedSize,
                   remoteShutdown, closingVars, now>>

\* On Windows the watcher looks at the window when it gets to run, which may be
\* after Run has.
PollerStarts ==
    /\ watcher = "poller" /\ lastSize = NoSize
    /\ lastSize' = winSize
    /\ missed' = (winSize # pushedSize)
    /\ UNCHANGED <<loopVars, keyVars, input, reads, winSize, sigwinch, watcher, resized, resizes,
                   pushedSize, remoteShutdown, closingVars, now>>

\* A poll that finds a new size.  Any other, a failed query included, does nothing.
Poll ==
    /\ watcher = "poller" /\ lastSize \notin {NoSize, winSize}
    /\ lastSize' = winSize
    /\ Forward
    /\ UNCHANGED <<loopVars, keyVars, input, reads, winSize, sigwinch, watcher, missed, resizes,
                   pushedSize, remoteShutdown, closingVars, now>>

\* The watcher returns once the context is cancelled.
WatcherStops ==
    /\ watcher # "off" /\ ctx # "live"
    /\ watcher' = "off"
    /\ UNCHANGED <<loopVars, keyVars, input, reads, winSize, sigwinch, lastSize, missed, resized, resizes, pushedSize,
                   remoteShutdown, closingVars, now>>

\* SIGINT or SIGTERM.
Cancel ==
    /\ MayCancel /\ ctx = "live" /\ pc # "returned"
    /\ ctx' = "cancelled"
    /\ UNCHANGED <<pc, result, keyVars, input, reads, sizeVars, pushedSize, remoteShutdown, closingVars, now>>

Select ==
    \/ SelectCtx \/ SelectInput \/ SelectDatagram \/ SelectVersionMismatch
    \/ SelectResized \/ SelectTimer

Watcher == WatchResize \/ PollerStarts \/ Poll \/ WatcherStops

SessionNext == LoopTop \/ Select \/ PumpInput \/ WindowChange \/ Watcher \/ Cancel

\* The loop and the watcher run; Go's select picks among the ready cases at
\* random, so a case that is ready again and again is taken.
Fairness ==
    /\ WF_sessionVars(LoopTop) /\ WF_sessionVars(Watcher)
    /\ SF_sessionVars(SelectCtx) /\ SF_sessionVars(SelectResized) /\ SF_sessionVars(SelectTimer)

SessionSpec == SessionInit /\ [][SessionNext]_sessionVars
FairSpec == SessionSpec /\ Fairness

-----------------------------------------------------------------------------
(* Safety *)

\* Position i introduces an escape: it is an odd one in its run of escape keys.
Introduces(s, i) ==
    /\ s[i] = escapeKey
    /\ LET before == {j \in 0..i - 1 : \A k \in j + 1..i - 1 : s[k] = escapeKey}
       IN  (i - 1 - Min(before)) % 2 = 0

\* Where the first quit escape ends, or one past the end.
QuitAt(s) ==
    LET quits == {i \in 2..Len(s) : s[i] = "." /\ Introduces(s, i - 1)}
    IN  IF quits = {} THEN Len(s) + 1 ELSE Min(quits)

\* What byte i contributes to the keys the server gets.
KeysFor(s, i) ==
    IF Introduces(s, i) THEN << >>
    ELSE IF i > 1 /\ s[i] # escapeKey /\ Introduces(s, i - 1) THEN <<escapeKey, s[i]>>
    ELSE <<s[i]>>

\* What the server gets of what a read came to: under any policy but Full no
\* clipboard sequence that is whole in it, and everything else of it.
Guarded(keys) == IF clipIn = << >> THEN keys ELSE Expected("Off", keys, 1, TRUE)

\* The escape key works however stdin cuts the bytes into reads
\* (client.go:285 processEscapes, escapePending): what was typed before the
\* quit escape arrives, with doubled escape keys halved and other escapes
\* whole, and a quit escape starts the shutdown.  Without escapes everything
\* that was read arrives.  In either case it does but for the clipboard
\* sequences: what each read comes to, escapes done, is filtered by itself
\* (client.go:242, 265 filterInput) and nothing of it waits for the next.
EscapesTranslated ==
    LET keys  == FlattenSeq(handed)
        typed == SubSeq(consumed, 1, QuitAt(consumed) - 1)
        wanted == FlattenSeq([i \in 1..Len(typed) |-> KeysFor(typed, i)])
    IN  /\ IF disableEscape THEN keys = consumed
           ELSE IF QuitAt(consumed) > Len(consumed) THEN keys = wanted
           ELSE IsPrefix(wanted, keys) /\ shutdownInProgress
        /\ pushedKeys = FlattenSeq([i \in 1..Len(handed) |-> Guarded(handed[i])])

\* "ShutdownTimeout bounds the closing handshake" (client.go:50): Run returns
\* at most one wait after the timeout, counted from when the shutdown began,
\* whoever began it and however often it is asked for again.  Only a
\* cancellation during the handshake restarts the clock (client.go:235), and
\* then the transmissions of the shutdown state still bound it (client.go:209).
HandshakeBounded ==
    shutdownInProgress =>
        /\ ctx # "handled" => now - startedAt <= ShutdownTimeout + 1
        /\ now - startedAt <= shutdownRetries * SendInterval

-----------------------------------------------------------------------------
(* Liveness *)

\* A cancelled context, or a shutdown begun for any reason, ends the session
\* though nothing is ever heard from the server (client.go:204-213).
Ends == (ctx = "cancelled" \/ shutdownInProgress) ~> pc = "returned"

\* The last window size reaches the user stream, whatever signals and channel
\* ticks were merged on the way (resize_unix.go, resize_windows.go,
\* client.go:257).  A change between Run's look at the window and the poller's
\* first one is missed (resize_windows.go:18) until the next change.
SizeSynced ==
    \A s \in Sizes :
        winSize = s ~> (\/ pushedSize = s \/ winSize # s \/ missed
                        \/ disableEscape \/ ctx # "live" \/ pc = "returned")

=============================================================================
