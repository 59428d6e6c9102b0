---------------------------- MODULE MCTouchStream ----------------------------
(* Small instances of TouchStream.                                         *)
EXTENDS TouchStream
=============================================================================
