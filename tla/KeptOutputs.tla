----------------------------- MODULE KeptOutputs -----------------------------
(***************************************************************************)
(* What the IOmcu promises about the configuration of its outputs, with no *)
(* flash in it: a restart finds one configuration that was asked for as a  *)
(* whole, and it changes in one step, to the one asked for last.  OutStore *)
(* implements this specification through every power cut.                  *)
(***************************************************************************)

CONSTANTS Cfg,          \* the configurations
          Nothing       \* none of them

VARIABLES kept,         \* what a restart restores
          wanted        \* what is asked for and not yet kept

vars == <<kept, wanted>>

TypeOK == /\ kept \in Cfg \cup {Nothing}
          /\ wanted \in Cfg \cup {Nothing}

Init == /\ kept \in Cfg \cup {Nothing}
        /\ wanted = Nothing

\* An ask for what is kept already takes back what is wanted.
Ask(c) == /\ \/ wanted' = c
             \/ c = kept /\ wanted' = Nothing
          /\ UNCHANGED kept

Keep == /\ wanted # Nothing
        /\ kept' = wanted
        /\ wanted' = Nothing

\* A restart before the configuration was kept.
Forget == /\ wanted' = Nothing
          /\ UNCHANGED kept

Next == (\E c \in Cfg : Ask(c)) \/ Keep \/ Forget

Spec == Init /\ [][Next]_vars
=============================================================================
