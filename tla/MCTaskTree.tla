----------------------------- MODULE MCTaskTree -----------------------------
(* TaskTree on small sets of interchangeable tasks.                        *)
EXTENDS TaskTree, TLC

TaskSymmetry == Permutations(Task)
=============================================================================
