---------------------------- MODULE OutputConsent ----------------------------
(***************************************************************************)
(* What the IOmcu promises about its outputs, with no clock, no line and   *)
(* no link in it: outputs start to drive only on a consent that was given  *)
(* in two separate steps, a release of the arm latch (CLEAR) and an ask    *)
(* (a non-zero ARM) after it, and everything that goes wrong revokes the   *)
(* consent as a whole.  SafetyGate implements this specification.          *)
(***************************************************************************)
EXTENDS FiniteSets

CONSTANT Roles          \* the roles an arm names: motors, servos

VARIABLES consent,      \* "none", "released" or "asked"
          bank          \* the roles the output bank drives

vars == <<consent, bank>>

Consents == {"none", "released", "asked"}

TypeOK == /\ consent \in Consents
          /\ bank \subseteq Roles

Init == /\ consent = "none"
        /\ bank = {}

\* A loss of trust, a silence, a refused ARM or a restart.  The bank may
\* come down in the same step or in the pass that follows.
Revoke == /\ consent' = "none"
          /\ bank' \in {bank, {}}

Release == /\ consent = "none"
           /\ consent' = "released"
           /\ UNCHANGED bank

Ask == /\ consent = "released"
       /\ consent' = "asked"
       /\ UNCHANGED bank

\* A disarm, or an edge of a programming port's hold.
Withdraw == /\ consent = "asked"
            /\ consent' = "released"
            /\ bank' \in {bank, {}}

Drive == /\ consent = "asked"
         /\ bank' \in (SUBSET Roles) \ {{}}
         /\ UNCHANGED consent

Rest == /\ bank' = {}
        /\ UNCHANGED consent

Next == Revoke \/ Release \/ Ask \/ Withdraw \/ Drive \/ Rest

Spec == Init /\ [][Next]_vars
=============================================================================
