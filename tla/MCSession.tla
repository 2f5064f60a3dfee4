------------------------------ MODULE MCSession ------------------------------
(* Reads of stdin for Session: "^" is the escape key, "." quits after it.    *)
(* In two reads they make a quit escape cut in the middle with bytes behind  *)
(* it, a doubled escape key, cut in the middle or before a ".", an escape of *)
(* another key, and clipboard sequences: a whole one with escape keys in it  *)
(* and keys around it, and one that a quit escape cuts in the middle of its  *)
(* terminator.                                                               *)
EXTENDS Session

MCChunks ==
    {<<".", "^", "^", ".", "ESC", "]", "2", "SEP", "^", "^", "BEL", "a", "^">>,
     <<"^", "ESC", "]", "2", "SEP", "a", "ESC", "^", ".", "\\">>}

MCNumberText == <<"2">>

=============================================================================
