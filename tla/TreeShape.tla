----------------------------- MODULE TreeShape -----------------------------
(***************************************************************************)
(* The shape of the tree of tasks, given by the function up from tasks to  *)
(* parents, and what completing and reopening a task do to the tasks above *)
(* it (TreeIndex in services/tree.py, services/completion.py).             *)
(*                                                                         *)
(* Ancestors are defined as the least set that is closed under up, without *)
(* recursion: proofs use the definition as an induction principle.         *)
(***************************************************************************)

\* A task without a parent has parent Null.
CONSTANTS Task, Null

ASSUME NullAssumption == Null \notin Task

Children(up, t) == {c \in Task : up[c] = t}

Ancestors(up, t) ==
  {a \in Task : \A S \in SUBSET Task :
      (\A x \in S \cup {t} : up[x] # Null => up[x] \in S) => a \in S}

Below(up, t) == {x \in Task : t \in Ancestors(up, x)}

\* The ancestors of t up to and including a.
Between(up, t, a) ==
  {b \in Ancestors(up, t) : b = a \/ a \in Ancestors(up, b)}

\* Faulty: completes the parent only.
FinishedParent(up, dn, t) ==
  {a \in Ancestors(up, t) : a = up[t] /\ a \notin dn /\ Children(up, a) \subseteq dn \cup {t}}

\* complete_finished_ancestors, when t is done: bottom-up, as long as the
\* ancestor is open and all its direct subtasks are done.
FinishedAncestors(up, dn, t) ==
  {a \in Ancestors(up, t) : \A b \in Between(up, t, a) :
      /\ b \notin dn
      /\ Children(up, b) \subseteq dn \cup {t} \cup Between(up, t, a)}

\* Faulty: reopens the task alone.
ReopenedAlone(up, dn, t) == {t}

\* reopen: t and its ancestors, as long as they are done.
Reopened(up, dn, t) ==
  {t} \cup {a \in Ancestors(up, t) : Between(up, t, a) \subseteq dn}
=============================================================================
