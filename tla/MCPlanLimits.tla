---------------------------- MODULE MCPlanLimits -----------------------------
(* Instances of PlanLimits for TLC. *)
EXTENDS PlanLimits, TLC

CONSTANTS p1, p2, p3, k1, k2, none, user, r1, r2, r3, r4
=============================================================================
