----------------------------- MODULE MCOutStore ------------------------------
(* Small instances of OutStore.                                            *)
EXTENDS OutStore

CONSTANTS off, one, none

\* What the build before the partition table left.
Left == [pages |-> 1, wiring |-> one]
=============================================================================
