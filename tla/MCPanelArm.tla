----------------------------- MODULE MCPanelArm -----------------------------
(* Small instances of PanelArm.                                            *)
EXTENDS PanelArm, TLC

CONSTANTS motor, servos, none

\* What a pump can find in each run: everything, an operator who only stops,
\* and the finding a run is about.
Pressing == {"nothing", "press"}
Stalling == {"nothing", "stall"}
Erring == {"nothing", "error"}

\* What goes wrong around the task.
All == {"evicted", "touch", "doubted", "dropped"}
Losing == {"dropped"}
None == {}

RoleSymmetry == Permutations(Roles)
=============================================================================
