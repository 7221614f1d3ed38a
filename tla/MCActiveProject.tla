-------------------------- MODULE MCActiveProject --------------------------
(* ActiveProject on small sets of interchangeable tasks.                   *)
EXTENDS ActiveProject, TLC

TaskSymmetry == Permutations(Task)
=============================================================================
