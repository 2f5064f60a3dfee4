------------------------------- MODULE StateSync -------------------------------
(***************************************************************************)
(* What one direction of the transport promises, with nothing of how: one  *)
(* side appends to a stream, the other side sees ever longer prefixes of   *)
(* it.  Intermediate prefixes may be skipped (that is the point of state   *)
(* synchronization); nothing is ever taken back, repeated or reordered.    *)
(***************************************************************************)
EXTENDS Integers, Sequences

CONSTANT Item

VARIABLES source,  \* what the producing side has appended
          sink     \* what the consuming side has seen

syncVars == <<source, sink>>

Init == source = << >> /\ sink = << >>

Produce == \E e \in Item : source' = Append(source, e) /\ UNCHANGED sink

Synchronize ==
    /\ \E n \in Len(sink)..Len(source) : sink' = SubSeq(source, 1, n)
    /\ UNCHANGED source

Next == Produce \/ Synchronize

Spec == Init /\ [][Next]_syncVars

=============================================================================
