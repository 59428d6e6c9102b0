----------------------------- MODULE MCArmWatch -----------------------------
(* Small instances of ArmWatch.                                            *)
EXTENDS ArmWatch
=============================================================================
