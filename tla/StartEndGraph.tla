--------------------------- MODULE StartEndGraph ---------------------------
(***************************************************************************)
(* The graph in which Plina looks for dependency cycles (services/tree.py, *)
(* services/graph.py).  A task is an interval: it has a Start and an End.  *)
(* A parent starts before and ends after its subtasks, and a dependency    *)
(* P -> S links P's End to S's Start.                                      *)
(*                                                                         *)
(* Reachability and acyclicity are defined by sets of nodes and not by     *)
(* paths: the definitions then need no recursion, TLC evaluates them on    *)
(* small graphs and proofs use them as induction principles.               *)
(***************************************************************************)
EXTENDS TreeShape

Start(t) == <<"S", t>>
End(t)   == <<"E", t>>
Node     == {"S", "E"} \X Task

\* The edges of the tasks T, whose parents are up, with dependencies D.
StartEndEdges(T, up, D) ==
  LET nested == {t \in T : up[t] # Null}
  IN  {<<Start(t), End(t)>> : t \in T}
        \cup {<<Start(up[t]), Start(t)>> : t \in nested}
        \cup {<<End(t), End(up[t])>> : t \in nested}
        \cup {<<End(d[1]), Start(d[2])>> : d \in D}

Closed(E, S) == \A e \in E : e[1] \in S => e[2] \in S

\* b can be reached from a along the edges E (a reaches itself).
Reaches(E, a, b) ==
  \A S \in SUBSET Node : a \in S /\ Closed(E, S) => b \in S

\* No cycle: every set of nodes has one without a predecessor in the set.
Acyclic(E) ==
  \A S \in SUBSET Node :
    S # {} => \E n \in S : \A e \in E : e[2] = n => e[1] \notin S
=============================================================================
