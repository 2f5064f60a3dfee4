------------------------------- MODULE MCOsc52 -------------------------------
(* Instance of Osc52: the number has one digit, three may be read, and nine  *)
(* bytes are held.  The chunks are single bytes that steer the scanner and   *)
(* longer pieces that bring it to its limits in few calls.                   *)
EXTENDS Osc52

MCNumberText == <<"2">>

MCPieces ==
    {<<"ESC">>, <<"]">>, <<"SEP">>, <<"?">>, <<"\\">>, <<"BEL">>,
     <<"0">>, <<"x", "CAN">>,
     <<"ESC", "]", "2", "SEP">>, <<"ESC", "]", "0", "2">>,
     <<"]", "5", "SEP", "x", "x", "x", "x">>, <<"ESC", "]", "2", "SEP", "SEP", "?", "ESC">>,
     <<"ESC", "]", "2", "SEP", "?", "SEP", "x", "BEL", "x">>,
     <<"ESC", "]", "2", "SEP", "x", "x", "x", "x", "x", "x", "ESC">>,
     <<"ESC", "ESC", "]", "0", "0", "2", "SEP", "x", "SEP">>}
=============================================================================
