----------------------------- MODULE MCDownstream -----------------------------
(* Downstream only compares frames, so it is enough to output f1 and then f2. *)
EXTENDS Downstream

CONSTANTS f1, f2

ScreenScript == IsPrefix(history, <<f1, f2>>)

=============================================================================
