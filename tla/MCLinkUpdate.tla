---------------------------- MODULE MCLinkUpdate -----------------------------
(* Small instances of LinkUpdate.                                          *)
EXTENDS LinkUpdate
=============================================================================
