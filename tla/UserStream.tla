------------------------------ MODULE UserStream ------------------------------
(***************************************************************************)
(* The synchronized object the client sends (internal/statesync): an       *)
(* append-only sequence of user events.  A stream is a TLA+ sequence of    *)
(* elements of Event; Clone and Equal are then identity and equality of    *)
(* values.                                                                 *)
(*                                                                         *)
(* The peer's half of the wire format (splitting a Keystroke instruction   *)
(* into one event per byte) is Expand, external: mosh-server performs it.  *)
(***************************************************************************)
EXTENDS Integers, Sequences, SequencesExt

CONSTANTS Key,   \* the bytes a user can type
          Size   \* the window sizes a resize can report

ASSUME EventAssumption == Key \cap Size = {}

Event == Key \cup Size

-----------------------------------------------------------------------------
(* Operations of UserStream *)

\* Subtract: cut as many events as the prefix has, at most all of them.  The
\* content of the prefix is never compared.
Subtract(u, prefix) ==
    SubSeq(u, 1 + (IF Len(prefix) > Len(u) THEN Len(u) ELSE Len(prefix)), Len(u))

\* The events of u that a peer holding `existing` lacks, by length alone.
Suffix(u, existing) ==
    IF Len(existing) >= Len(u) THEN << >> ELSE SubSeq(u, Len(existing) + 1, Len(u))

\* One element of a UserMessage: a resize, or a run of keystroke bytes.
ResizeInstruction(e) == [resize |-> TRUE,  size |-> e,      keys |-> << >>]
KeysInstruction(ks)  == [resize |-> FALSE, size |-> "none", keys |-> ks]

\* Slip: moves resizes to the front of the message.
CoalesceOneAcrossResize(msg, e) ==
    IF e \in Size THEN <<ResizeInstruction(e)>> \o msg
    ELSE IF msg # << >> /\ ~Last(msg).resize
         THEN Front(msg) \o <<KeysInstruction(Append(Last(msg).keys, e))>>
         ELSE Append(msg, KeysInstruction(<<e>>))

\* The body of DiffFrom's loop: a key extends the run it follows directly.
CoalesceOne(msg, e) ==
    IF e \in Size THEN Append(msg, ResizeInstruction(e))
    ELSE IF msg # << >> /\ ~Last(msg).resize
         THEN Front(msg) \o <<KeysInstruction(Append(Last(msg).keys, e))>>
         ELSE Append(msg, KeysInstruction(<<e>>))

\* DiffFrom: the message for the missing suffix, keystrokes coalesced.
DiffFrom(u, existing) ==
    LET rest == Suffix(u, existing)
        coalesced[i \in 0..Len(rest)] ==
            IF i = 0 THEN << >> ELSE CoalesceOne(coalesced[i - 1], rest[i])
    IN  coalesced[Len(rest)]

\* What mosh-server makes of a message: one event per byte, one per resize.
EventsOf(in) == IF in.resize THEN <<in.size>> ELSE in.keys
Expand(msg)  == FlattenSeq([i \in 1..Len(msg) |-> EventsOf(msg[i])])

=============================================================================
