--------------------------- MODULE MCLinkExchange ---------------------------
(* Small instances of LinkExchange.                                        *)
EXTENDS LinkExchange

CONSTANTS a, b, c, d, e

\* What the panel asks in each run.
Writing == {"write", "activate", "probe"}
Reading == {"first", "held", "whole", "probe"}
=============================================================================
