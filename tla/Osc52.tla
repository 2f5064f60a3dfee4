-------------------------------- MODULE Osc52 --------------------------------
(***************************************************************************)
(* The clipboard filter (internal/osc52/osc52.go) in its two uses: on the  *)
(* bytes that go to the local terminal (Filter, which holds a sequence     *)
(* split across diffs until it is complete) and on local input             *)
(* (FilterChunk, which never holds anything back).                         *)
(***************************************************************************)
EXTENDS Osc52Scanner

CONSTANTS Pieces,       \* the byte sequences handed to one call
          MaxCalls      \* bound: number of calls

ASSUME Osc52Assumption == MaxCalls \in Nat /\ Pieces \subseteq Seq(STRING)

VARIABLES
    path,     \* "output": calls Filter; "input": calls FilterChunk
    filter,   \* the scanner: policy, state, buf, num, digits, dropping
    calls,    \* ghost: the chunks handed in so far
    out       \* the bytes handed on so far

filterVars == <<path, filter, calls, out>>

\* The client filters server output under the configured policy and, unless
\* that is Full, local input with a filter that drops everything.
FilterInit ==
    /\ \/ path = "output" /\ \E policy \in Policy : filter = New(policy)
       \/ path = "input" /\ filter = New("Off")
    /\ calls = << >>
    /\ out = << >>

-----------------------------------------------------------------------------
(* Operations *)

\* apply: one run of terminal bytes of a server diff.
Filter(src) ==
    LET s == Scan(filter, src)
    IN  /\ path = "output"
        /\ Len(calls) < MaxCalls
        /\ filter' = s.f
        /\ out' = out \o s.dst
        /\ calls' = Append(calls, src)
        /\ UNCHANGED path

\* FilterChunk: one read of local input (Session composes it with the escapes).
FilterChunk(src) ==
    LET s == FilteredChunk(filter, src)
    IN  /\ path = "input"
        /\ Len(calls) < MaxCalls
        /\ filter' = s.f
        /\ out' = out \o s.dst
        /\ calls' = Append(calls, src)
        /\ UNCHANGED path

FilterNext == \E src \in Pieces : Filter(src) \/ FilterChunk(src)

FilterSpec == FilterInit /\ [][FilterNext]_filterVars

-----------------------------------------------------------------------------
(* What the filter promises *)

\* Server output is filtered as if it had come in one piece: whatever the
\* diffs cut it into (osc52.go "a sequence split across writes is held until
\* it completes"), what is not a sequence of this number passes byte for byte,
\* a complete one is rewritten or dropped by the policy, an aborted or
\* oversized one is dropped and the scanner is in step again after it, and no
\* more than maxSequence bytes are ever held.
OutputAsOnePiece ==
    path = "output" =>
        /\ out = Expected(filter.policy, FlattenSeq(calls), 1, FALSE)
        /\ Len(filter.buf) <= maxSequence

\* Local input is filtered chunk by chunk: each read is handled as if nothing
\* had come before it, and a sequence that is incomplete at its end is handed
\* on, not withheld (client.go "a person typing ESC ] 5 2 ; must not have
\* their keystrokes swallowed").
InputByChunk ==
    path = "input" =>
        out = FlattenSeq([i \in 1..Len(calls) |-> Expected(filter.policy, calls[i], 1, TRUE)])

=============================================================================
