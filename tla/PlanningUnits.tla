--------------------------- MODULE PlanningUnits ---------------------------
(***************************************************************************)
(* What the planner plans, and in which order: the open tasks without      *)
(* subtasks that have work left, and for every open parent whose estimate  *)
(* exceeds its parts a Rest, under the parent's id (build_planning_tasks   *)
(* in planner_service.py).  Dependencies between tasks become edges        *)
(* between units (expand_edges in tree.py); planning fails if these have a *)
(* cycle (build_dag in graph.py).                                          *)
(*                                                                         *)
(* Requests are refused by looking at Start and End nodes of all tasks     *)
(* (StartEndGraph), not at units: units come and go with every estimate    *)
(* and every minute of tracked time.  Here W is any set of open tasks that *)
(* have work left (a parent in W has a positive Rest).                     *)
(***************************************************************************)
EXTENDS TaskTree

UnitsOf(up, W, t) == W \cap ({t} \cup Below(up, t))

\* Each unit of the predecessor before each unit of the successor.
DependencyEdges(up, W, D) ==
  {e \in W \X W : e[1] # e[2] /\ \E d \in D :
                    e[1] \in UnitsOf(up, W, d[1]) /\ e[2] \in UnitsOf(up, W, d[2])}

Internal(up, D, p) == {d \in D : {d[1], d[2]} \subseteq Children(up, p)}

\* Faulty: the Rest follows the children that are followed by another one.
FirstChildren(up, D, p) ==
  {c \in Children(up, p) : Internal(up, D, p) # {} /\ \E d \in Internal(up, D, p) : d[1] = c}

\* The last of the children that are ordered among themselves; none if no
\* child precedes another.
LastChildren(up, D, p) ==
  {c \in Children(up, p) : Internal(up, D, p) # {} /\ \A d \in Internal(up, D, p) : d[1] # c}

\* A Rest after the last children.
RestEdges(up, W, D) ==
  {e \in W \X W : \E c \in LastChildren(up, D, e[2]) : e[1] \in UnitsOf(up, W, c)}

UnitEdges(up, W, D) == DependencyEdges(up, W, D) \cup RestEdges(up, W, D)

\* build_dag accepts the edges.
Plannable(E) ==
  \A S \in SUBSET Task : S # {} => \E n \in S : \A e \in E : e[2] = n => e[1] \notin S

\* u is planned after all of before, directly or not.
PlannedAfter(E, before, u) ==
  \A S \in SUBSET Task : u \in S /\ (\A e \in E : e[2] \in S => e[1] \in S) => before \subseteq S

-----------------------------------------------------------------------------

\* Edits that lead to every tree and dependencies that any edits lead to.
Shape ==
  \/ \E t \in Task, p \in tasks \cup {Null} : CreateTask(t, p, FALSE)
  \/ \E t \in tasks, p \in tasks \cup {Null} : MoveTask(t, p)
  \/ \E p, s \in tasks : AddDependency(p, s)

ShapeSpec == Init /\ [][Shape]_vars

-----------------------------------------------------------------------------
(* Properties.                                                             *)

\* Planning never fails on a cycle, whatever has work left and whatever is
\* done: what the requests accept, the planner can order (CycleError in
\* graph.py would end every request that plans).
NeverCyclic == \A W \in SUBSET (tasks \ done) : Plannable(UnitEdges(parent, W, deps))

\* The Rest of a parent comes after everything below it if the children are
\* ordered, provided that every child has work left (expand_edges).  Without
\* the proviso it fails: what precedes a child without work left is followed
\* by nothing.
RestComesLast ==
  \A W \in SUBSET (tasks \ done) : \A p \in W :
    (/\ Internal(parent, deps, p) # {}
     /\ \A c \in Children(parent, p) : UnitsOf(parent, W, c) # {})
      => PlannedAfter(UnitEdges(parent, W, deps), W \cap Below(parent, p), p)
=============================================================================
