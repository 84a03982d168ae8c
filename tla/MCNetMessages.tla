--------------------------- MODULE MCNetMessages ---------------------------
(***************************************************************************)
(* Small instances of NetMessages: an empty string and one of two bytes,   *)
(* which must not pass for each other wherever they stand.                 *)
(***************************************************************************)
EXTENDS NetMessages

TwoStrings == {<< >>, <<7, 8>>}

TwoIds == {<<1, 2, 3>>, <<4, 5, 6>>}

TwoNumbers == {0, 9}
=============================================================================
