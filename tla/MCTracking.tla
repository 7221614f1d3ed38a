---------------------------- MODULE MCTracking ----------------------------
(* Tracking on a project with two subtasks, one of which follows the other. *)
EXTENDS Tracking, TLC

CONSTANTS Project, Design, Build

Tree       == [t \in Task |-> IF t = Project THEN Null ELSE Project]
FirstSteps == {<<Design, Build>>} \cap (Task \X Task)

SessionSymmetry == Permutations(Session)
=============================================================================
