------------------------------ MODULE MCFragments ------------------------------
(* Instructions of one, two and three units, so that with capacities of one  *)
(* and two units a payload is smaller than, equal to and larger than what a  *)
(* fragment holds.                                                           *)
EXTENDS Fragments

MCPayload == {<<"p1">>, <<"q1", "q2">>, <<"r1", "r2", "r3">>}

=============================================================================
