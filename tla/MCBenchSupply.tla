---------------------------- MODULE MCBenchSupply ----------------------------
(***************************************************************************)
(* BenchSupply for TLC.  The argument that means ON is the module's, either *)
(* one; the bounds are the cfg's.                                          *)
(***************************************************************************)
EXTENDS BenchSupply
=============================================================================
