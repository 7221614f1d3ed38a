-------------------------- MODULE MCPlanningUnits --------------------------
(* PlanningUnits on small sets of interchangeable tasks.                   *)
EXTENDS PlanningUnits, TLC

TaskSymmetry == Permutations(Task)
=============================================================================
