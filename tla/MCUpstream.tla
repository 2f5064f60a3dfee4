------------------------------ MODULE MCUpstream ------------------------------
(* The protocol tells events apart by their position only, so one script with  *)
(* two different events stands for all of them.  Leaving out the other pushes  *)
(* is sound for liveness too, because no fairness asks the user to type.       *)
EXTENDS Upstream

CONSTANTS k1, s1

UserScript == IsPrefix(history, <<k1, s1>>)

=============================================================================
