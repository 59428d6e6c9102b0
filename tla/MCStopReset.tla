---------------------------- MODULE MCStopReset -----------------------------
(* Small instances of StopReset.                                           *)
EXTENDS StopReset

TwoPages == {"status", "prog"}
=============================================================================
