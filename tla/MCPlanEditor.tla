---------------------------- MODULE MCPlanEditor ----------------------------
(* PlanEditor on small sets. *)
EXTENDS PlanEditor, TLC

CONSTANTS s1, s2, p1, m1, m2
MCNear == {<<p1, s1>>}
=============================================================================
