------------------------------ MODULE MCOutline ------------------------------
(* Small instances of Outline: two of the tasks are interchangeable. *)
EXTENDS Outline

CONSTANTS t1, t2, t3, c1
Symmetry == Permutations({t2, t3})
=============================================================================
