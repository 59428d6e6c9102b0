---------------------------- MODULE MCSafetyGate ----------------------------
(* SafetyGate on a small instance.  The limits are a few ticks and keep the *)
(* order of the real ones: 4ms, 150ms and 200ms.  One role is enough for   *)
(* the refusal of a change of roles, because LINK_ARM_ALL and the role's   *)
(* own value are two values; two ports are needed for a hold that outlives *)
(* one of its sessions.                                                    *)
EXTENDS SafetyGate

CONSTANTS motor, kst, hitec

MCRoles == {motor}
MCPorts == {kst, hitec}
=============================================================================
