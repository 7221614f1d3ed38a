--------------------------- MODULE TaskTreeProofs ---------------------------
(***************************************************************************)
(* The task tree, and what is built on it: the planner's units and the     *)
(* active project.                                                         *)
(*                                                                         *)
(* Every edit of the tree keeps the database well-formed and the tree with *)
(* its dependencies free of cycles, no open task lands in a completed one, *)
(* completing goes as far up as it can, and no edit drops a subtask out of *)
(* the tree or throws measurements away: for any set of tasks.             *)
(*                                                                         *)
(* The planner orders whatever the requests accept.  If the units had a    *)
(* cycle, walking it would lead from End nodes to End nodes along the      *)
(* edges between Start and End nodes; the nodes on the way would be a set  *)
(* without a first one.                                                    *)
(*                                                                         *)
(* The active project stays open and is only handed upwards: for any set   *)
(* of tasks, as long as no request names a completed parent.  The proofs   *)
(* rest on what is proved of the tree: it is rooted, so the first task of  *)
(* a set on the way up is well-defined, and nothing open is below a        *)
(* completed task.                                                         *)
(***************************************************************************)
EXTENDS PlanningUnits, ActiveProject, TreeProofs, FiniteSetTheorems

-----------------------------------------------------------------------------
(* The graph has no cycle, so the tree has none.                           *)

LEMMA AcyclicIsRooted ==
  ASSUME NEW T \in SUBSET Task, NEW up \in [Task -> Task \cup {Null}], NEW D,
         \A x \in Task : up[x] # Null => x \in T /\ up[x] \in T,
         Acyclic(StartEndEdges(T, up, D))
  PROVE  Rooted(up)
<1> DEFINE E == StartEndEdges(T, up, D)
<1>1. SUFFICES ASSUME NEW S \in SUBSET Task, S # {}, \A y \in S : up[y] \in S
               PROVE  FALSE
  BY DEF Rooted
<1> DEFINE N == {Start(x) : x \in S}
<1>2. N \in SUBSET Node /\ N # {}
  BY <1>1, Nodes
<1>3. PICK n \in N : \A a \in N : ~ Edge(E, a, n)
  BY <1>2, AcyclicByEdges
<1>4. PICK x \in S : n = Start(x)
  BY <1>3
<1>5. up[x] \in S /\ up[x] # Null /\ x \in T
  BY <1>1, NullAssumption
<1>6. Edge(E, Start(up[x]), Start(x))
  BY <1>5, EdgeForms
<1>7. QED
  BY <1>3, <1>4, <1>5, <1>6

LEMMA DoneAfterIn ==
  ASSUME NEW up, NEW t \in tasks, NEW isDone \in BOOLEAN, done \subseteq tasks,
         \A x \in Task : Ancestors(up, x) \subseteq tasks, tasks \subseteq Task
  PROVE  DoneAfter(up, t, isDone) \subseteq tasks
BY DEF DoneAfter, FinishedAncestors, Reopened

-----------------------------------------------------------------------------
(* Every request keeps the tree a tree: even a merge, which may close a     *)
(* cycle of dependencies.                                                   *)

WellFormed ==
  /\ tasks \in SUBSET Task
  /\ parent \in [Task -> Task \cup {Null}]
  /\ \A t \in Task : parent[t] # Null => t \in tasks /\ parent[t] \in tasks
  /\ done \subseteq tasks
  /\ tracked \subseteq tasks

TreeShaped == WellFormed /\ Rooted(parent)

\* A task that is new, or not yet the parent of another, gets a parent.
LEMMA LeafKeepsRooted ==
  ASSUME NEW up \in [Task -> Task \cup {Null}], Rooted(up), NEW t \in Task, NEW p, p # t,
         \A x \in Task : up[x] # t
  PROVE  Rooted([up EXCEPT ![t] = p])
<1> SUFFICES ASSUME NEW S \in SUBSET Task, S # {}
             PROVE  \E y \in S : [up EXCEPT ![t] = p][y] \notin S
  BY DEF Rooted
<1>1. CASE S = {t}
  BY <1>1
<1>2. CASE S # {t}
  <2>1. S \ {t} \in SUBSET Task /\ S \ {t} # {}
    BY <1>2
  <2>2. PICK y \in S \ {t} : up[y] \notin S \ {t}
    BY <2>1 DEF Rooted
  <2>3. [up EXCEPT ![t] = p][y] = up[y] /\ up[y] # t
    BY <2>2
  <2>4. QED
    BY <2>2, <2>3
<1>3. QED
  BY <1>1, <1>2

LEMMA CreateShape ==
  ASSUME TreeShaped, NEW t \in Task, NEW p \in tasks \cup {Null},
         NEW isDone \in BOOLEAN, CreateTask(t, p, isDone)
  PROVE  TreeShaped'
<1>1. /\ t \notin tasks /\ tasks' = tasks \cup {t} /\ parent' = [parent EXCEPT ![t] = p]
      /\ done' \subseteq done \cup {t} /\ tracked' = tracked
  BY DEF CreateTask
<1>2. WellFormed'
  BY <1>1, NullAssumption DEF TreeShaped, WellFormed
<1>3. p # t /\ \A x \in Task : parent[x] # t
  BY <1>1, NullAssumption DEF TreeShaped, WellFormed
<1>4. Rooted(parent')
  BY <1>1, <1>3, LeafKeepsRooted DEF TreeShaped, WellFormed
<1>5. QED
  BY <1>2, <1>4 DEF TreeShaped

\* What the check of a new parent lets through (parent_change_error).
LEMMA ReparentShape ==
  ASSUME TreeShaped, NEW t \in tasks, NEW p \in tasks \cup {Null},
         p # parent[t] => ~ ParentRefused(t, p)
  PROVE  LET up == [parent EXCEPT ![t] = p]
         IN  /\ up \in [Task -> Task \cup {Null}]
             /\ \A x \in Task : up[x] # Null => x \in tasks /\ up[x] \in tasks
             /\ Rooted(up)
<1> DEFINE up == [parent EXCEPT ![t] = p]
<1>1. /\ up \in [Task -> Task \cup {Null}]
      /\ \A x \in Task : up[x] # Null => x \in tasks /\ up[x] \in tasks
  BY NullAssumption DEF TreeShaped, WellFormed
<1>2. Rooted(up)
  <2>1. CASE p = parent[t]
    <3>1. up = parent
      BY <2>1 DEF TreeShaped, WellFormed
    <3>2. QED
      BY <3>1 DEF TreeShaped
  <2>2. CASE p # parent[t]
    <3>1. Acyclic(StartEndEdges(tasks, up, deps))
      BY <2>2 DEF ParentRefused, Cyclic
    <3> HIDE DEF up
    <3>2. tasks \in SUBSET Task
      BY DEF TreeShaped, WellFormed
    <3>3. QED
      BY <1>1, <3>1, <3>2, AcyclicIsRooted
  <2>3. QED
    BY <2>1, <2>2
<1>3. QED
  BY <1>1, <1>2

LEMMA UpdateShape ==
  ASSUME TreeShaped, NEW t \in Task, NEW p \in tasks \cup {Null},
         NEW isDone \in BOOLEAN, UpdateTask(t, p, isDone)
  PROVE  TreeShaped'
<1>1. /\ t \in tasks /\ tasks' = tasks
      /\ tracked' \subseteq tracked \cup done'
      /\ parent' = [parent EXCEPT ![t] = p]
      /\ done' = DoneAfter(parent', t, isDone)
      /\ p # parent[t] => ~ ParentRefused(t, p)
  BY DEF UpdateTask, BookRunning, PatchAllowed
<1>2. /\ parent' \in [Task -> Task \cup {Null}]
      /\ \A x \in Task : parent'[x] # Null => x \in tasks /\ parent'[x] \in tasks
      /\ Rooted(parent')
  BY <1>1, ReparentShape
<1>3. done' \subseteq tasks
  <2>1. tasks \in SUBSET Task /\ done \subseteq tasks
    BY DEF TreeShaped, WellFormed
  <2>2. \A x \in Task : Ancestors(parent', x) \subseteq tasks
    BY <1>2, <2>1, AncestorsIn
  <2>3. QED
    BY <1>1, <2>1, <2>2, DoneAfterIn
<1>4. QED
  BY <1>1, <1>2, <1>3 DEF TreeShaped, WellFormed

LEMMA MoveShape ==
  ASSUME TreeShaped, NEW t \in tasks, NEW p \in tasks \cup {Null}, MoveTask(t, p)
  PROVE  TreeShaped'
<1>1. /\ UNCHANGED <<tasks, done, tracked>> /\ parent' = [parent EXCEPT ![t] = p]
      /\ ~ ParentRefused(t, p)
  BY DEF MoveTask
<1>2. QED
  BY <1>1, ReparentShape DEF TreeShaped, WellFormed

\* Completing, reopening and booking leave the tree alone.
LEMMA StatusShape ==
  ASSUME TreeShaped, NEW t \in tasks,
         \/ CompleteTask(t) \/ ReopenTask(t)
         \/ \E booked \in BOOLEAN : BookTime(t, booked)
  PROVE  TreeShaped' /\ UNCHANGED <<tasks, parent, deps>>
<1>1. Ancestors(parent, t) \subseteq tasks
  BY AncestorsIn DEF TreeShaped, WellFormed
<1>2. done \subseteq tasks /\ tracked \subseteq tasks
  BY DEF TreeShaped, WellFormed
<1>3. UNCHANGED <<tasks, parent, deps>> /\ done' \subseteq tasks /\ tracked' \subseteq tasks
  <2>1. CASE CompleteTask(t)
    BY <1>1, <1>2, <2>1 DEF CompleteTask, BookRunning, FinishedAncestors
  <2>2. CASE ReopenTask(t)
    BY <1>2, <2>2 DEF ReopenTask
  <2>3. CASE \E booked \in BOOLEAN : BookTime(t, booked)
    BY <1>2, <2>3 DEF BookTime
  <2>4. QED
    BY <2>1, <2>2, <2>3
<1>4. QED
  BY <1>3 DEF TreeShaped, WellFormed

LEMMA DeleteShape ==
  ASSUME TreeShaped, NEW t \in tasks, NEW mode, DeleteTask(t, mode)
  PROVE  TreeShaped'
<1> USE NullAssumption
<1>1. WellFormed /\ Rooted(parent) /\ t \in Task /\ t \notin Ancestors(parent, t)
  BY RootedNotOwn DEF TreeShaped, WellFormed
<1>2. CASE mode = "delete"
  <2> DEFINE gone == {t} \cup Below(parent, t)
  <2>1. /\ tasks' = tasks \ gone
        /\ parent' = [x \in Task |-> IF x \in gone THEN Null ELSE parent[x]]
        /\ done' = done \ gone /\ tracked' = tracked \ gone
    BY <1>2 DEF DeleteTask, Remove
  <2>2. ASSUME NEW x \in Task, x \notin gone, parent[x] # Null
        PROVE  parent[x] \notin gone
    <3>1. Ancestors(parent, x) = {parent[x]} \cup Ancestors(parent, parent[x])
      BY <1>1, <2>2, AncestorsStep DEF WellFormed
    <3>2. t \notin Ancestors(parent, x)
      BY <2>2 DEF Below
    <3>3. QED
      BY <3>1, <3>2 DEF Below
  <2> HIDE DEF gone
  <2>3. WellFormed'
    BY <1>1, <2>1, <2>2 DEF WellFormed
  <2>4. Rooted(parent')
    <3> SUFFICES ASSUME NEW S \in SUBSET Task, S # {} PROVE \E y \in S : parent'[y] \notin S
      BY DEF Rooted
    <3>1. PICK y \in S : parent[y] \notin S
      BY <1>1 DEF Rooted
    <3>2. QED
      BY <2>1, <3>1
  <2>5. QED
    BY <2>3, <2>4 DEF TreeShaped
<1>3. CASE mode # "delete"
  <2>1. /\ tasks' = tasks \ {t}
        /\ parent' = [x \in Task |-> IF x = t THEN Null
                                     ELSE IF parent[x] = t THEN parent[t] ELSE parent[x]]
        /\ done' = done \ {t} /\ tracked' = tracked \ {t}
    BY <1>3 DEF DeleteTask, Remove, Lifted
  <2>2. parent[t] # t
    BY <1>1, AncestorsClosed DEF WellFormed
  <2>3. WellFormed'
    BY <1>1, <2>1, <2>2 DEF WellFormed
  <2>4. Rooted(parent')
    <3> SUFFICES ASSUME NEW S \in SUBSET Task, S # {}, \A y \in S : parent'[y] \in S PROVE FALSE
      BY DEF Rooted
    <3>1. t \notin S
      BY <2>1
    <3>2. PICK y \in S \cup {t} : parent[y] \notin S \cup {t}
      BY <1>1 DEF Rooted
    <3>3. y = t
      BY <2>1, <3>2
    <3>4. \A x \in S : parent[x] # t
      BY <2>1, <3>1, <3>2, <3>3
    <3>5. \A x \in S : parent[x] \in S
      BY <2>1, <3>1, <3>4
    <3>6. QED
      BY <1>1, <3>5 DEF Rooted
  <2>5. QED
    BY <2>3, <2>4 DEF TreeShaped
<1>4. QED
  BY <1>2, <1>3

\* What a split does to the tree: the rows are tasks below t or new ones, none
\* of them removed, and nothing of value is removed.
LEMMA SplitTree ==
  ASSUME TreeShaped, NEW t \in tasks, NEW o \in Outlines(t),
         NEW sequential \in BOOLEAN, SplitTask(t, o, sequential)
  PROVE  LET removed == Below(parent, t) \ Kept(t, o)
         IN  /\ IsFiniteSet(Rows(o)) /\ Rows(o) \subseteq Below(parent, t) \cup (Task \ tasks)
             /\ o.nest \in [Rows(o) -> Rows(o) \cup {t}]
             /\ t \notin removed /\ Rows(o) \cap removed = {}
             /\ removed \cap (done \cup tracked) = {}
             /\ tasks' = (tasks \ removed) \cup Rows(o)
             /\ parent' = Placed(o, removed, Rows(o))
<1> DEFINE removed == Below(parent, t) \ Kept(t, o)
<1>1. /\ IsFiniteSet(Rows(o)) /\ Rows(o) \subseteq Below(parent, t) \cup (Task \ tasks)
      /\ o.nest \in [Rows(o) -> Rows(o) \cup {t}]
  <2>1. PICK Q \in {P \in SUBSET (Below(parent, t) \cup (Task \ tasks)) : IsFiniteSet(P)} :
           o \in [rows : Orderings(Q), nest : [Q -> Q \cup {t}], given : SUBSET Q]
    BY DEF Outlines
  <2>2. Rows(o) = Q
    BY <2>1 DEF Rows, Orderings
  <2>3. QED
    BY <2>1, <2>2
<1>2. t \notin Below(parent, t) /\ Below(parent, t) \subseteq tasks
  <2>1. t \notin Below(parent, t)
    BY RootedNotOwn DEF Below, TreeShaped, WellFormed
  <2>2. ASSUME NEW x \in Below(parent, t) PROVE x \in tasks
    <3>1. x \in Task /\ parent[x] # Null
      BY AncestorsStep, NullAssumption DEF Below, TreeShaped, WellFormed
    <3>2. QED
      BY <3>1 DEF TreeShaped, WellFormed
  <2>3. QED
    BY <2>1, <2>2
<1>3. t \notin removed /\ Rows(o) \cap removed = {}
  BY <1>1, <1>2 DEF Kept
<1>4. /\ removed \cap (done \cup tracked) = {}
      /\ tasks' = (tasks \ removed) \cup Rows(o)
      /\ parent' = Placed(o, removed, Rows(o))
  BY DEF SplitTask, Removable
<1>5. QED
  BY <1>1, <1>3, <1>4

LEMMA SplitShape ==
  ASSUME TreeShaped, NEW t \in tasks, NEW o \in Outlines(t),
         NEW sequential \in BOOLEAN, SplitTask(t, o, sequential)
  PROVE  TreeShaped'
<1> DEFINE R == Rows(o)
           removed == Below(parent, t) \ Kept(t, o)
<1>1. WellFormed
  BY DEF TreeShaped
<1>2. /\ R \subseteq Task /\ o.nest \in [R -> R \cup {t}]
      /\ t \notin removed /\ R \cap removed = {}
      /\ removed \cap (done \cup tracked) = {}
      /\ tasks' = (tasks \ removed) \cup R
      /\ parent' = Placed(o, removed, R)
  BY SplitTree DEF Below
<1>3. done' = done /\ tracked' = tracked /\ ~ Cyclic(tasks', parent', deps')
  BY DEF SplitTask
<1> HIDE DEF R, removed
<1>4. tasks' \in SUBSET Task
  BY <1>1, <1>2 DEF WellFormed
<1>5. /\ parent' \in [Task -> Task \cup {Null}]
      /\ \A x \in Task : parent'[x] # Null => x \in tasks' /\ parent'[x] \in tasks'
  BY <1>1, <1>2, <1>4, NullAssumption DEF Placed, WellFormed
<1>6. Rooted(parent')
  BY <1>3, <1>4, <1>5, AcyclicIsRooted DEF Cyclic
<1>7. done' \subseteq tasks' /\ tracked' \subseteq tasks'
  BY <1>1, <1>2, <1>3 DEF WellFormed
<1>8. QED
  BY <1>4, <1>5, <1>6, <1>7 DEF TreeShaped, WellFormed

\* The subtasks of other go to kept, which is not below it.
LEMMA AdoptedRooted ==
  ASSUME NEW up \in [Task -> Task \cup {Null}], Rooted(up), NEW kept \in Task, NEW other \in Task,
         kept # other, other \notin Ancestors(up, kept)
  PROVE  Rooted(Adopted(up, kept, other))
<1> DEFINE ad == Adopted(up, kept, other)
<1> USE NullAssumption
<1>1. /\ ad[other] = Null
      /\ \A x \in Task \ {other} : ad[x] = IF up[x] = other THEN kept ELSE up[x]
  BY DEF Adopted
<1> HIDE DEF ad
<1>2. SUFFICES ASSUME NEW S \in SUBSET Task, S # {}, \A y \in S : ad[y] \in S PROVE FALSE
  BY DEF Rooted, ad
<1>3. other \notin S
  BY <1>1, <1>2
<1>4. PICK z \in S : up[z] \notin S
  BY <1>2 DEF Rooted
<1>5. up[z] = other /\ kept \in S
  BY <1>1, <1>2, <1>3, <1>4
<1> DEFINE W == S \cap ({kept} \cup Ancestors(up, kept))
<1>6. W \in SUBSET Task /\ W # {}
  BY <1>5
<1>7. PICK y \in W : up[y] \notin W
  BY <1>6 DEF Rooted
<1>8. up[y] # other
  BY <1>7, AncestorsClosed
<1>9. up[y] \in S
  BY <1>1, <1>2, <1>3, <1>7, <1>8
<1>10. up[y] \in Ancestors(up, kept)
  BY <1>7, <1>9, AncestorsClosed
<1>11. QED
  BY <1>7, <1>9, <1>10

\* The tree and the completed tasks after the PATCH a merge starts with.
Patched(kept, p) == [parent EXCEPT ![kept] = p]
PatchedDone(kept, p, isDone) == DoneAfter(Patched(kept, p), kept, isDone)

\* The merge as it is done: the PATCH, then the subtasks, then the deletion.
LEMMA MergeTree ==
  ASSUME TreeShaped, NEW kept \in tasks, NEW other \in tasks, NEW p \in tasks \cup {Null},
         NEW isDone \in BOOLEAN, MergeTasks(kept, other, p, isDone)
  PROVE  /\ kept # other
         /\ other \notin Ancestors(Patched(kept, p), kept)
         /\ kept \notin Ancestors(Patched(kept, p), other)
         /\ Patched(kept, p) \in [Task -> Task \cup {Null}]
         /\ \A x \in Task : Patched(kept, p)[x] # Null => x \in tasks /\ Patched(kept, p)[x] \in tasks
         /\ Rooted(Patched(kept, p))
         /\ PatchedDone(kept, p, isDone) \subseteq tasks
         /\ parent' = Adopted(Patched(kept, p), kept, other)
         /\ done' = PatchedDone(kept, p, isDone) \ {other}
         /\ tasks' = tasks \ {other}
         /\ tracked' \subseteq ((tracked \cup PatchedDone(kept, p, isDone)) \ {other}) \cup {kept}
<1> DEFINE up == Patched(kept, p)
           dn == PatchedDone(kept, p, isDone)
<1>1. /\ p # parent[kept] => ~ ParentRefused(kept, p)
      /\ ~ MergeRefused(up, kept, other)
      /\ parent' = Adopted(up, kept, other)
      /\ done' = dn \ {other} /\ tasks' = tasks \ {other}
      /\ tracked' \subseteq ((tracked \cup dn) \ {other}) \cup {kept}
  BY DEF MergeTasks, PatchAllowed, Patched, PatchedDone
<1>2. /\ up \in [Task -> Task \cup {Null}]
      /\ \A x \in Task : up[x] # Null => x \in tasks /\ up[x] \in tasks
      /\ Rooted(up)
  BY <1>1, ReparentShape DEF Patched
<1> HIDE DEF up
<1>3. dn \subseteq tasks
  <2>1. tasks \in SUBSET Task /\ done \subseteq tasks
    BY DEF TreeShaped, WellFormed
  <2>2. \A x \in Task : Ancestors(up, x) \subseteq tasks
    BY <1>2, <2>1, AncestorsIn
  <2>3. QED
    BY <2>1, <2>2, DoneAfterIn DEF PatchedDone, up
<1>4. kept # other /\ other \notin Ancestors(up, kept) /\ kept \notin Ancestors(up, other)
  BY <1>1 DEF MergeRefused
<1>5. QED
  BY <1>1, <1>2, <1>3, <1>4 DEF up

LEMMA MergeShape ==
  ASSUME TreeShaped, NEW kept \in tasks, NEW other \in tasks, NEW p \in tasks \cup {Null},
         NEW isDone \in BOOLEAN, MergeTasks(kept, other, p, isDone)
  PROVE  TreeShaped'
<1> DEFINE up == Patched(kept, p)
           dn == PatchedDone(kept, p, isDone)
<1>1. /\ kept # other /\ other \notin Ancestors(up, kept)
      /\ up \in [Task -> Task \cup {Null}]
      /\ \A x \in Task : up[x] # Null => x \in tasks /\ up[x] \in tasks
      /\ Rooted(up)
      /\ dn \subseteq tasks
      /\ parent' = Adopted(up, kept, other)
      /\ done' = dn \ {other}
      /\ tasks' = tasks \ {other}
      /\ tracked' \subseteq ((tracked \cup dn) \ {other}) \cup {kept}
  BY MergeTree
<1> HIDE DEF up, dn
<1>2. tasks \in SUBSET Task /\ tracked \subseteq tasks
  BY DEF TreeShaped, WellFormed
<1>3. Rooted(parent')
  BY <1>1, <1>2, AdoptedRooted
<1>4. /\ parent' \in [Task -> Task \cup {Null}]
      /\ \A x \in Task : parent'[x] # Null => x \in tasks' /\ parent'[x] \in tasks'
  BY <1>1, <1>2, NullAssumption DEF Adopted
<1>5. QED
  BY <1>1, <1>2, <1>3, <1>4 DEF TreeShaped, WellFormed

LEMMA NextShape == TreeShaped /\ [Next]_vars => TreeShaped'
<1> SUFFICES ASSUME TreeShaped, [Next]_vars PROVE TreeShaped'
  OBVIOUS
<1>1. ASSUME NEW t \in Task, NEW p \in tasks \cup {Null}, NEW isDone \in BOOLEAN,
             CreateTask(t, p, isDone) \/ UpdateTask(t, p, isDone)
      PROVE  TreeShaped'
  BY <1>1, CreateShape, UpdateShape
<1>2. ASSUME NEW t \in tasks, NEW p \in tasks \cup {Null}, MoveTask(t, p)
      PROVE  TreeShaped'
  BY <1>2, MoveShape
<1>3. ASSUME NEW t \in tasks, \/ CompleteTask(t) \/ ReopenTask(t)
                              \/ \E booked \in BOOLEAN : BookTime(t, booked)
      PROVE  TreeShaped'
  BY <1>3, StatusShape
<1>4. ASSUME NEW t \in tasks, NEW mode \in {"none", "lift", "delete"}, DeleteTask(t, mode)
      PROVE  TreeShaped'
  BY <1>4, DeleteShape
<1>5. ASSUME NEW t \in tasks, NEW sequential \in BOOLEAN, NEW o \in Outlines(t),
             SplitTask(t, o, sequential)
      PROVE  TreeShaped'
  BY <1>5, SplitShape
<1>6. CASE \/ \E p, s \in tasks : AddDependency(p, s)
           \/ \E d \in deps : RemoveDependency(d)
           \/ UNCHANGED vars
  BY <1>6 DEF AddDependency, RemoveDependency, vars, TreeShaped, WellFormed
<1>7. ASSUME NEW kept \in tasks, NEW other \in tasks, NEW p \in tasks \cup {Null},
             NEW isDone \in BOOLEAN, MergeTasks(kept, other, p, isDone)
      PROVE  TreeShaped'
  BY <1>7, MergeShape
<1>8. QED
  BY <1>1, <1>2, <1>3, <1>4, <1>5, <1>6, <1>7 DEF Next, Edit, Merge

LEMMA InitShape == Init => TreeShaped
<1> SUFFICES ASSUME Init PROVE TreeShaped
  OBVIOUS
<1>1. WellFormed
  BY DEF Init, WellFormed
<1>2. Rooted(parent)
  BY NullAssumption DEF Init, Rooted
<1>3. QED
  BY <1>1, <1>2 DEF TreeShaped

-----------------------------------------------------------------------------
(* The inductive invariant of the edits: well-formed and without a cycle.  *)
(* Neither part is inductive alone: the row of a deleted task is only no   *)
(* longer named as a parent because the task is not above itself.          *)

TreeInv == TypeOK /\ NoDependencyCycle

LEMMA TreeInvIs ==
  TreeInv <=> /\ TreeShaped /\ deps \in SUBSET (tasks \X tasks)
              /\ Acyclic(StartEndEdges(tasks, parent, deps))
<1>1. TypeOK <=> WellFormed /\ deps \in SUBSET (tasks \X tasks)
  BY DEF TypeOK, WellFormed
<1>2. WellFormed /\ Acyclic(StartEndEdges(tasks, parent, deps)) => Rooted(parent)
  BY AcyclicIsRooted DEF WellFormed
<1>3. QED
  BY <1>1, <1>2 DEF TreeInv, TreeShaped, NoDependencyCycle, Cyclic

LEMMA TreeInvNext ==
  TreeInv' <=> /\ TreeShaped' /\ deps' \in SUBSET (tasks' \X tasks')
               /\ Acyclic(StartEndEdges(tasks', parent', deps'))
<1>1. TypeOK' <=> WellFormed' /\ deps' \in SUBSET (tasks' \X tasks')
  BY DEF TypeOK, WellFormed
<1>2. WellFormed' /\ Acyclic(StartEndEdges(tasks', parent', deps')) => Rooted(parent')
  BY AcyclicIsRooted DEF WellFormed
<1>3. QED
  BY <1>1, <1>2 DEF TreeInv, TreeShaped, NoDependencyCycle, Cyclic

LEMMA CreateKeepsInv ==
  ASSUME TreeInv, NEW t \in Task, NEW p \in tasks \cup {Null},
         NEW isDone \in BOOLEAN, CreateTask(t, p, isDone)
  PROVE  TreeInv'
<1>1. TreeShaped /\ deps \in SUBSET (tasks \X tasks) /\ Acyclic(StartEndEdges(tasks, parent, deps))
  BY TreeInvIs
<1>2. TreeShaped'
  BY <1>1, CreateShape
<1>3. t \notin tasks /\ tasks' = tasks \cup {t} /\ parent' = [parent EXCEPT ![t] = p] /\ deps' = deps
  BY DEF CreateTask
<1>4. /\ t \in Task \ tasks /\ parent \in [Task -> Task \cup {Null}]
      /\ tasks \in SUBSET Task /\ \A x \in tasks : parent[x] # t
  BY <1>1, <1>3, NullAssumption DEF TreeShaped, WellFormed
<1>5. Acyclic(StartEndEdges(tasks \cup {t}, [parent EXCEPT ![t] = p], deps))
  BY <1>1, <1>4, NewLeaf, NullAssumption
<1>6. QED
  BY <1>1, <1>2, <1>3, <1>5, TreeInvNext

\* parent_change_error looks at the whole graph after the change.
LEMMA UpdateKeepsInv ==
  ASSUME TreeInv, NEW t \in Task, NEW p \in tasks \cup {Null},
         NEW isDone \in BOOLEAN, UpdateTask(t, p, isDone)
  PROVE  TreeInv'
<1>1. TreeShaped /\ deps \in SUBSET (tasks \X tasks) /\ Acyclic(StartEndEdges(tasks, parent, deps))
  BY TreeInvIs
<1>2. TreeShaped'
  BY <1>1, UpdateShape
<1>3. tasks' = tasks /\ deps' = deps /\ parent' = [parent EXCEPT ![t] = p]
  BY DEF UpdateTask
<1>4. Acyclic(StartEndEdges(tasks', parent', deps'))
  <2>1. CASE p = parent[t]
    <3>1. parent' = parent
      BY <1>1, <1>3, <2>1 DEF TreeShaped, WellFormed
    <3>2. QED
      BY <1>1, <1>3, <3>1
  <2>2. CASE p # parent[t]
    BY <1>3, <2>2 DEF UpdateTask, PatchAllowed, ParentRefused, Cyclic
  <2>3. QED
    BY <2>1, <2>2
<1>5. QED
  BY <1>1, <1>2, <1>3, <1>4, TreeInvNext

LEMMA MoveKeepsInv ==
  ASSUME TreeInv, NEW t \in tasks, NEW p \in tasks \cup {Null}, MoveTask(t, p)
  PROVE  TreeInv'
<1>1. TreeShaped' /\ deps \in SUBSET (tasks \X tasks)
  BY TreeInvIs, MoveShape
<1>2. tasks' = tasks /\ deps' = deps /\ Acyclic(StartEndEdges(tasks', parent', deps'))
  BY DEF MoveTask, ParentRefused, Cyclic
<1>3. QED
  BY <1>1, <1>2, TreeInvNext

LEMMA StatusKeepsInv ==
  ASSUME TreeInv, NEW t \in tasks,
         \/ CompleteTask(t) \/ ReopenTask(t)
         \/ \E booked \in BOOLEAN : BookTime(t, booked)
  PROVE  TreeInv'
<1>1. TreeShaped' /\ UNCHANGED <<tasks, parent, deps>>
  BY TreeInvIs, StatusShape
<1>2. QED
  BY <1>1, TreeInvIs, TreeInvNext

LEMMA DeleteKeepsInv ==
  ASSUME TreeInv, NEW t \in tasks, NEW mode, DeleteTask(t, mode)
  PROVE  TreeInv'
<1> USE NullAssumption
<1>1. /\ TreeShaped /\ deps \in SUBSET (tasks \X tasks)
      /\ Acyclic(StartEndEdges(tasks, parent, deps))
  BY TreeInvIs
<1>2. /\ TreeShaped' /\ WellFormed /\ t \in Task
      /\ t \notin Ancestors(parent, t)
  BY <1>1, DeleteShape, RootedNotOwn DEF TreeShaped, WellFormed
<1>3. PICK gone \in SUBSET Task :
        /\ tasks' = tasks \ gone /\ deps' = {d \in deps : d[1] \notin gone /\ d[2] \notin gone}
  BY <1>2 DEF DeleteTask, Remove, Below
<1>4. deps' \in SUBSET (tasks' \X tasks') /\ deps' \subseteq deps
  BY <1>1, <1>3
<1>5. CASE mode = "delete"
  <2>1. \A x \in tasks' : x \in tasks /\ (parent'[x] # Null => parent'[x] = parent[x])
    BY <1>2, <1>5 DEF DeleteTask, Remove, WellFormed
  <2>2. ASSUME NEW a, NEW b, Edge(StartEndEdges(tasks', parent', deps'), a, b)
        PROVE  Edge(StartEndEdges(tasks, parent, deps), a, b)
    BY <1>4, <2>1, <2>2, EdgeForms
  <2>3. Acyclic(StartEndEdges(tasks', parent', deps'))
    BY <1>1, <2>2, FewerEdges
  <2>4. QED
    BY <1>2, <1>4, <2>3, TreeInvNext
<1>6. CASE mode # "delete"
  <2>1. /\ tasks' = tasks \ {t}
        /\ parent' = [x \in Task |-> IF x = t THEN Null
                                     ELSE IF parent[x] = t THEN parent[t] ELSE parent[x]]
        /\ deps' = {d \in deps : d[1] # t /\ d[2] # t}
    BY <1>6 DEF DeleteTask, Remove, Lifted
  <2>2. parent[t] # t
    BY <1>2, AncestorsClosed DEF WellFormed
  <2> DEFINE E == StartEndEdges(tasks, parent, deps)
             F == StartEndEdges(tasks', parent', deps')
             M == {Start(t), End(t)}
  <2>3. /\ \A x \in tasks' : x \in tasks /\ x # t /\ parent'[x] # t
        /\ \A x \in tasks' : parent'[x] # Null =>
              parent'[x] = parent[x] \/ (parent[x] = t /\ parent'[x] = parent[t])
        /\ \A d \in deps' : d \in deps /\ d[1] # t /\ d[2] # t
    BY <1>2, <2>1, <2>2 DEF WellFormed
  <2>4. ASSUME NEW a, NEW b, Edge(F, a, b)
        PROVE  a \notin M /\ b \notin M
    BY <2>3, <2>4, EdgeForms, Nodes
  <2>5. ASSUME NEW a, NEW b, Edge(F, a, b)
        PROVE  Edge(E, a, b) \/ \E m \in M : Edge(E, a, m) /\ Edge(E, m, b)
    <3>1. CASE \E x \in tasks' : a = Start(x) /\ b = End(x)
      BY <2>3, <3>1, EdgeForms
    <3>2. CASE \E x \in tasks' : parent'[x] # Null /\ a = Start(parent'[x]) /\ b = Start(x)
      BY <1>2, <2>3, <3>2, EdgeForms DEF WellFormed
    <3>3. CASE \E x \in tasks' : parent'[x] # Null /\ a = End(x) /\ b = End(parent'[x])
      BY <1>2, <2>3, <3>3, EdgeForms DEF WellFormed
    <3>4. CASE \E d \in deps' : a = End(d[1]) /\ b = Start(d[2])
      BY <2>3, <3>4, EdgeForms
    <3>5. QED
      BY <2>5, <3>1, <3>2, <3>3, <3>4, EdgeForms
  <2>6. M \in SUBSET Node
    BY <1>2, Nodes
  <2> HIDE DEF E, F, M
  <2>7. Acyclic(F)
    BY <1>1, <2>4, <2>5, <2>6, BridgedNodes DEF E
  <2>8. QED
    BY <1>2, <1>4, <2>7, TreeInvNext DEF F
<1>7. QED
  BY <1>5, <1>6

\* would_create_cycle looks for a path back before the edge is stored.
LEMMA AddDependencyKeepsInv ==
  ASSUME TreeInv, NEW p \in tasks, NEW s \in tasks, AddDependency(p, s)
  PROVE  TreeInv'
<1> DEFINE E == StartEndEdges(tasks, parent, deps)
           F == StartEndEdges(tasks', parent', deps')
<1>1. /\ Acyclic(E) /\ TreeShaped /\ deps \in SUBSET (tasks \X tasks) /\ tasks \in SUBSET Task
  BY TreeInvIs DEF TreeShaped, WellFormed
<1>2. /\ UNCHANGED <<tasks, parent, done, tracked>> /\ deps' = deps \cup {<<p, s>>}
      /\ ~ Reaches(E, Start(s), End(p))
  BY DEF AddDependency, ClosesCycle
<1>3. TreeShaped' /\ deps' \in SUBSET (tasks' \X tasks')
  BY <1>1, <1>2 DEF TreeShaped, WellFormed
<1>4. Start(s) \in Node /\ End(p) \in Node
  BY <1>1, Nodes
<1>5. Acyclic(E \cup {<<End(p), Start(s)>>})
  BY <1>1, <1>2, <1>4, AddedEdge
<1>6. ASSUME NEW a, NEW b, Edge(F, a, b)
      PROVE  Edge(E \cup {<<End(p), Start(s)>>}, a, b)
  <2>1. Edge(E, a, b) \/ (a = End(p) /\ b = Start(s))
    BY <1>2, <1>6, EdgeForms
  <2>2. <<End(p), Start(s)>> \in E \cup {<<End(p), Start(s)>>}
    OBVIOUS
  <2>3. Edge(E, a, b) => Edge(E \cup {<<End(p), Start(s)>>}, a, b)
    BY DEF Edge
  <2>4. Edge(E \cup {<<End(p), Start(s)>>}, End(p), Start(s))
    BY <2>2 DEF Edge
  <2>5. QED
    BY <2>1, <2>3, <2>4
<1>7. Acyclic(F)
  BY <1>5, <1>6, FewerEdges
<1>8. QED
  BY <1>3, <1>7, TreeInvNext

LEMMA RemoveDependencyKeepsInv ==
  ASSUME TreeInv, NEW d \in deps, RemoveDependency(d)
  PROVE  TreeInv'
<1>1. TreeShaped /\ deps \in SUBSET (tasks \X tasks) /\ Acyclic(StartEndEdges(tasks, parent, deps))
  BY TreeInvIs
<1>2. UNCHANGED <<tasks, parent, done, tracked>> /\ deps' \subseteq deps
  BY DEF RemoveDependency
<1>3. TreeShaped' /\ deps' \in SUBSET (tasks' \X tasks')
  BY <1>1, <1>2 DEF TreeShaped, WellFormed
<1>4. ASSUME NEW a, NEW b, Edge(StartEndEdges(tasks', parent', deps'), a, b)
      PROVE  Edge(StartEndEdges(tasks, parent, deps), a, b)
  BY <1>2, <1>4, EdgeForms
<1>5. Acyclic(StartEndEdges(tasks', parent', deps'))
  BY <1>1, <1>4, FewerEdges
<1>6. QED
  BY <1>3, <1>5, TreeInvNext

\* The rows of an outline are chained to rows.
LEMMA LinksAreRows ==
  ASSUME NEW o, NEW p
  PROVE  Links(o, p) \subseteq Rows(o) \X Rows(o)
BY DEF Links, Rows

LEMMA SplitKeepsInv ==
  ASSUME TreeInv, NEW t \in tasks, NEW o \in Outlines(t),
         NEW sequential \in BOOLEAN, SplitTask(t, o, sequential)
  PROVE  TreeInv'
<1> DEFINE R == Rows(o)
           removed == Below(parent, t) \ Kept(t, o)
           left == {d \in deps : d[1] \notin removed /\ d[2] \notin removed}
<1>1. TreeShaped /\ deps \in SUBSET (tasks \X tasks)
  BY TreeInvIs
<1>2. TreeShaped'
  BY <1>1, SplitShape
<1>3. tasks' = (tasks \ removed) \cup R
  BY DEF SplitTask
<1>4. /\ deps' = left \/ deps' = left \cup UNION {Links(o, p) : p \in {t} \cup R}
      /\ ~ Cyclic(tasks', parent', deps')
  BY DEF SplitTask
<1> HIDE DEF R, removed
<1>5. deps' \in SUBSET (tasks' \X tasks')
  <2>1. left \subseteq tasks' \X tasks'
    BY <1>1, <1>3
  <2>2. \A p : Links(o, p) \subseteq tasks' \X tasks'
    BY <1>3, LinksAreRows DEF R
  <2>3. QED
    BY <1>4, <2>1, <2>2
<1>6. QED
  BY <1>2, <1>4, <1>5, TreeInvNext DEF Cyclic

-----------------------------------------------------------------------------

LEMMA InitInv == Init => TreeInv
<1> SUFFICES ASSUME Init
             PROVE  TreeInv
  OBVIOUS
<1>1. TypeOK
  BY DEF Init, TypeOK
<1>2. \A a, b : ~ Edge(StartEndEdges(tasks, parent, deps), a, b)
  BY EdgeForms DEF Init
<1>3. Acyclic(StartEndEdges(tasks, parent, deps))
  BY <1>2, AcyclicByEdges
<1>4. QED
  BY <1>1, <1>3 DEF TreeInv, NoDependencyCycle, Cyclic

LEMMA EditKeepsInv == TreeInv /\ [Edit]_vars => TreeInv'
<1> SUFFICES ASSUME TreeInv, [Edit]_vars
             PROVE  TreeInv'
  OBVIOUS
<1>1. ASSUME NEW t \in Task, NEW p \in tasks \cup {Null}, NEW isDone \in BOOLEAN,
             CreateTask(t, p, isDone)
      PROVE  TreeInv'
  BY <1>1, CreateKeepsInv
<1>2. ASSUME NEW t \in Task, NEW p \in tasks \cup {Null}, NEW isDone \in BOOLEAN,
             UpdateTask(t, p, isDone)
      PROVE  TreeInv'
  BY <1>2, UpdateKeepsInv
<1>3. ASSUME NEW t \in tasks, NEW p \in tasks \cup {Null}, MoveTask(t, p)
      PROVE  TreeInv'
  BY <1>3, MoveKeepsInv
<1>4. ASSUME NEW t \in tasks, \/ CompleteTask(t) \/ ReopenTask(t)
                              \/ \E booked \in BOOLEAN : BookTime(t, booked)
      PROVE  TreeInv'
  BY <1>4, StatusKeepsInv
<1>5. ASSUME NEW t \in tasks, NEW mode \in {"none", "lift", "delete"}, DeleteTask(t, mode)
      PROVE  TreeInv'
  BY <1>5, DeleteKeepsInv
<1>6. ASSUME NEW t \in tasks, NEW sequential \in BOOLEAN, NEW o \in Outlines(t),
             SplitTask(t, o, sequential)
      PROVE  TreeInv'
  BY <1>6, SplitKeepsInv
<1>7. ASSUME NEW p \in tasks, NEW s \in tasks, AddDependency(p, s)
      PROVE  TreeInv'
  BY <1>7, AddDependencyKeepsInv
<1>8. ASSUME NEW d \in deps, RemoveDependency(d)
      PROVE  TreeInv'
  BY <1>8, RemoveDependencyKeepsInv
<1>9. CASE UNCHANGED vars
  BY <1>9 DEF vars, TreeInv, TypeOK, NoDependencyCycle
<1>10. QED
  BY <1>1, <1>2, <1>3, <1>4, <1>5, <1>6, <1>7, <1>8, <1>9 DEF Edit

THEOREM EditInv == EditSpec => []TreeInv
BY InitInv, EditKeepsInv, PTL DEF EditSpec

\* The database stays well-formed: parents and dependencies name existing
\* tasks, through every edit and for any number of tasks.
THEOREM EditsKeepTypes == EditSpec => []TypeOK
<1>1. TreeInv => TypeOK
  BY DEF TreeInv
<1>2. QED
  BY <1>1, EditInv, PTL

\* No edit makes a dependency cycle (models.py, TaskDependency): only merging
\* two tasks can.
THEOREM EditsKeepAcyclic == EditSpec => []NoDependencyCycle
<1>1. TreeInv => NoDependencyCycle
  BY DEF TreeInv
<1>2. QED
  BY <1>1, EditInv, PTL

-----------------------------------------------------------------------------
(* No open task inside a completed one: what is below a completed task is   *)
(* completed is inductive for the tree-shaped databases.                    *)

DoneInv == TreeShaped /\ DownClosed(parent, done)

\* Giving a task another parent puts nothing new below it.
LEMMA BelowAfterMove ==
  ASSUME NEW up \in [Task -> Task \cup {Null}], NEW t \in Task, NEW p \in Task \cup {Null},
         Rooted([up EXCEPT ![t] = p])
  PROVE  Below([up EXCEPT ![t] = p], t) \subseteq Below(up, t)
<1> DEFINE new == [up EXCEPT ![t] = p]
           S == Task \ (Below(up, t) \cup {t})
<1>1. new \in [Task -> Task \cup {Null}] /\ \A y \in S : new[y] = up[y]
  OBVIOUS
<1>2. ASSUME NEW y \in S, up[y] # Null PROVE up[y] \in S
  <2>1. y \in Task /\ t \notin Ancestors(up, y)
    BY DEF Below
  <2>2. up[y] \in Task /\ up[y] \in Ancestors(up, y)
    BY <1>2, AncestorsClosed
  <2>3. Ancestors(up, up[y]) \subseteq Ancestors(up, y)
    BY <2>1, <2>2, AncestorsOfAncestors
  <2>4. QED
    BY <2>1, <2>2, <2>3 DEF Below
<1>3. t \notin Below(new, t)
  BY <1>1, RootedNotOwn DEF Below
<1> HIDE DEF new
<1>4. ASSUME NEW x \in Below(new, t), x \notin Below(up, t) PROVE FALSE
  <2>1. x \in S /\ t \in Ancestors(new, x)
    BY <1>3, <1>4 DEF Below
  <2>2. \A y \in S \cup {x} : new[y] # Null => new[y] \in S
    BY <1>1, <1>2, <2>1
  <2>3. Ancestors(new, x) \subseteq S
    <3> HIDE DEF S
    <3>1. S \in SUBSET Task
      BY DEF S
    <3>2. QED
      BY <2>2, <3>1, AncestorsLeast
  <2>4. QED
    BY <2>1, <2>3
<1>5. QED
  BY <1>4 DEF new

\* The new parent is open, so nothing lands in a completed task.
LEMMA ReparentClosed ==
  ASSUME NEW up \in [Task -> Task \cup {Null}], NEW t \in Task, NEW p \in Task \cup {Null},
         NEW dn \in SUBSET Task, DownClosed(up, dn), p # up[t] => p \notin dn
  PROVE  DownClosed([up EXCEPT ![t] = p], dn)
<1> DEFINE new == [up EXCEPT ![t] = p]
<1>1. \A x \in Task : up[x] \in dn => x \in dn
  BY DownClosedIsLocal
<1>2. new \in [Task -> Task \cup {Null}] /\ new[t] = p /\ \A x \in Task : x # t => new[x] = up[x]
  OBVIOUS
<1> HIDE DEF new
<1>3. \A x \in Task : new[x] \in dn => x \in dn
  BY <1>1, <1>2
<1>4. DownClosed(new, dn)
  BY <1>2, <1>3, DownClosedIsLocal
<1>5. QED
  BY <1>4 DEF new

\* What a PATCH of completed_at does (TaskSerializer.update).
LEMMA DoneAfterClosed ==
  ASSUME NEW up \in [Task -> Task \cup {Null}], NEW t \in Task, NEW isDone \in BOOLEAN,
         done \in SUBSET Task, DownClosed(up, done),
         isDone /\ t \notin done => Below(up, t) \subseteq done
  PROVE  DownClosed(up, DoneAfter(up, t, isDone))
<1>1. CASE isDone /\ t \notin done
  BY <1>1, CompleteDownClosed DEF DoneAfter
<1>2. CASE ~ isDone /\ t \in done
  <2> DEFINE after == DoneAfter(up, t, isDone)
  <2>1. ASSUME up[t] \in done
        PROVE  DownClosed(up, after)
    <3> DEFINE D == done \ Reopened(up, done, up[t])
    <3>1. after = D \ {t}
      BY <1>2, <2>1 DEF DoneAfter
    <3>2. up[t] \in Task /\ DownClosed(up, D)
      BY <2>1, ReopenDownClosed
    <3>3. ASSUME NEW s \in D \ {t}, t \in Below(up, s) PROVE FALSE
      <4>1. s = up[t] \/ s \in Ancestors(up, up[t])
        BY <3>2, <3>3, AncestorsStep, NullAssumption DEF Below
      <4>2. s # up[t]
        BY DEF Reopened
      <4>3. Between(up, up[t], s) \subseteq done
        BY DEF Between, Ancestors, DownClosed, Below
      <4>4. QED
        BY <4>1, <4>2, <4>3 DEF Reopened
    <3> HIDE DEF D, after
    <3>4. QED
      BY <3>1, <3>2, <3>3 DEF DownClosed
  <2>2. ASSUME up[t] \notin done
        PROVE  DownClosed(up, after)
    <3>1. after = done \ {t}
      BY <1>2, <2>2 DEF DoneAfter
    <3>2. ASSUME NEW s \in done \ {t}, t \in Below(up, s) PROVE FALSE
      <4>1. up[t] # Null /\ (s = up[t] \/ s \in Ancestors(up, up[t]))
        BY <3>2, AncestorsStep, NullAssumption DEF Below
      <4>2. up[t] \in Below(up, s)
        BY <2>2, <4>1 DEF Below
      <4>3. QED
        BY <2>2, <4>2 DEF DownClosed
    <3> HIDE DEF after
    <3>3. QED
      BY <3>1, <3>2 DEF DownClosed
  <2>3. QED
    BY <2>1, <2>2
<1>3. CASE ~ (isDone /\ t \notin done) /\ ~ (~ isDone /\ t \in done)
  <2>1. DoneAfter(up, t, isDone) = done
    BY <1>3 DEF DoneAfter
  <2>2. QED
    BY <2>1
<1>4. QED
  BY <1>1, <1>2, <1>3

\* A PATCH of parent and completed_at together.
LEMMA PatchClosed ==
  ASSUME DoneInv, ~ DoneParents, NEW t \in tasks, NEW p \in tasks \cup {Null},
         NEW isDone \in BOOLEAN, PatchAllowed(t, p, isDone)
  PROVE  DownClosed(Patched(t, p), PatchedDone(t, p, isDone))
<1> DEFINE up == Patched(t, p)
<1>1. /\ parent \in [Task -> Task \cup {Null}] /\ done \in SUBSET Task /\ t \in Task
      /\ p \in Task \cup {Null} /\ DownClosed(parent, done)
  BY DEF DoneInv, TreeShaped, WellFormed
<1>2. /\ p # parent[t] => ~ ParentRefused(t, p) /\ p \notin done
      /\ isDone /\ t \notin done => Below(parent, t) \subseteq done
  BY DEF PatchAllowed, ParentOffered, Completable
<1>3. up \in [Task -> Task \cup {Null}] /\ Rooted(up)
  BY <1>2, ReparentShape DEF DoneInv, Patched
<1>4. DownClosed(up, done)
  BY <1>1, <1>2, ReparentClosed DEF Patched
<1>5. Below(up, t) \subseteq Below(parent, t)
  BY <1>1, <1>3, BelowAfterMove DEF Patched
<1> HIDE DEF up
<1>6. isDone /\ t \notin done => Below(up, t) \subseteq done
  BY <1>2, <1>5
<1>7. DownClosed(up, DoneAfter(up, t, isDone))
  BY <1>1, <1>3, <1>4, <1>6, DoneAfterClosed
<1>8. QED
  BY <1>7 DEF up, PatchedDone

LEMMA CreateClosed ==
  ASSUME DoneInv, ~ DoneParents, NEW t \in Task, NEW p \in tasks \cup {Null},
         NEW isDone \in BOOLEAN, CreateTask(t, p, isDone)
  PROVE  DoneInv'
<1>1. TreeShaped' /\ WellFormed
  BY CreateShape DEF DoneInv, TreeShaped
<1>2. \A x \in Task : parent[x] \in done => x \in done
  BY <1>1, DownClosedIsLocal DEF DoneInv, WellFormed
<1>3. /\ t \notin tasks /\ p \notin done /\ parent' = [parent EXCEPT ![t] = p]
      /\ done' = done \/ done' = done \cup {t}
  BY DEF CreateTask, ParentOffered
<1>4. p # t /\ \A x \in Task : parent[x] # t
  BY <1>1, <1>3, NullAssumption DEF WellFormed
<1>5. \A x \in Task : parent'[x] \in done' => x \in done'
  BY <1>1, <1>2, <1>3, <1>4 DEF WellFormed
<1>6. parent' \in [Task -> Task \cup {Null}] /\ done' \in SUBSET Task
  BY <1>1 DEF TreeShaped, WellFormed
<1>7. QED
  BY <1>1, <1>5, <1>6, DownClosedIsLocal DEF DoneInv

LEMMA UpdateClosed ==
  ASSUME DoneInv, ~ DoneParents, NEW t \in Task, NEW p \in tasks \cup {Null},
         NEW isDone \in BOOLEAN, UpdateTask(t, p, isDone)
  PROVE  DoneInv'
<1>1. TreeShaped'
  BY UpdateShape DEF DoneInv
<1>2. /\ t \in tasks /\ PatchAllowed(t, p, isDone)
      /\ parent' = Patched(t, p) /\ done' = PatchedDone(t, p, isDone)
  BY DEF UpdateTask, Patched, PatchedDone
<1>3. QED
  BY <1>1, <1>2, PatchClosed DEF DoneInv

LEMMA MoveClosed ==
  ASSUME DoneInv, NEW t \in tasks, NEW p \in tasks \cup {Null}, MoveTask(t, p)
  PROVE  DoneInv'
<1>1. TreeShaped'
  BY MoveShape DEF DoneInv
<1>2. /\ parent \in [Task -> Task \cup {Null}] /\ t \in Task /\ p \in Task \cup {Null}
      /\ done \in SUBSET Task /\ DownClosed(parent, done) /\ p \notin done
  BY NullAssumption DEF DoneInv, TreeShaped, WellFormed, MoveTask
<1>3. parent' = [parent EXCEPT ![t] = p] /\ done' = done
  BY DEF MoveTask
<1>4. QED
  BY <1>1, <1>2, <1>3, ReparentClosed DEF DoneInv

LEMMA StatusClosed ==
  ASSUME DoneInv, NEW t \in tasks,
         \/ CompleteTask(t) \/ ReopenTask(t)
         \/ \E booked \in BOOLEAN : BookTime(t, booked)
  PROVE  DoneInv'
<1>1. TreeShaped' /\ parent' = parent
  BY StatusShape DEF DoneInv
<1>2. /\ parent \in [Task -> Task \cup {Null}] /\ t \in Task
      /\ done \in SUBSET Task /\ DownClosed(parent, done)
  BY DEF DoneInv, TreeShaped, WellFormed
<1>3. CASE CompleteTask(t)
  <2>1. /\ Below(parent, t) \subseteq done
        /\ done' = done \cup {t} \cup FinishedAncestors(parent, done, t)
    BY <1>3 DEF CompleteTask, Completable
  <2>2. QED
    BY <1>1, <1>2, <2>1, CompleteDownClosed DEF DoneInv
<1>4. CASE ReopenTask(t)
  <2>1. done' = done \ Reopened(parent, done, t)
    BY <1>4 DEF ReopenTask
  <2>2. QED
    BY <1>1, <1>2, <2>1, ReopenDownClosed DEF DoneInv
<1>5. CASE \E booked \in BOOLEAN : BookTime(t, booked)
  BY <1>1, <1>2, <1>5 DEF BookTime, DoneInv
<1>6. QED
  BY <1>3, <1>4, <1>5

LEMMA DeleteClosed ==
  ASSUME DoneInv, NEW t \in tasks, NEW mode, DeleteTask(t, mode)
  PROVE  DoneInv'
<1>1. TreeShaped' /\ WellFormed
  BY DeleteShape DEF DoneInv, TreeShaped
<1>2. \A x \in Task : parent[x] \in done => x \in done
  BY <1>1, DownClosedIsLocal DEF DoneInv, WellFormed
<1>3. parent' \in [Task -> Task \cup {Null}] /\ done' \in SUBSET Task
  BY <1>1 DEF TreeShaped, WellFormed
<1>4. CASE mode = "delete"
  <2> DEFINE gone == {t} \cup Below(parent, t)
  <2>1. /\ done' = done \ gone
        /\ parent' = [x \in Task |-> IF x \in gone THEN Null ELSE parent[x]]
    BY <1>4 DEF DeleteTask, Remove
  <2> HIDE DEF gone
  <2>2. \A x \in Task : parent'[x] \in done' => x \in done'
    BY <1>1, <1>2, <2>1, NullAssumption DEF WellFormed
  <2>3. QED
    BY <1>1, <1>3, <2>2, DownClosedIsLocal DEF DoneInv
<1>5. CASE mode # "delete"
  <2>1. /\ done' = done \ {t}
        /\ parent' = [x \in Task |-> IF x = t THEN Null
                                     ELSE IF parent[x] = t THEN parent[t] ELSE parent[x]]
    BY <1>5 DEF DeleteTask, Remove, Lifted
  <2>2. \A x \in Task : parent'[x] \in done' => x \in done'
    BY <1>1, <1>2, <2>1, NullAssumption DEF WellFormed
  <2>3. QED
    BY <1>1, <1>3, <2>2, DownClosedIsLocal DEF DoneInv
<1>6. QED
  BY <1>4, <1>5

\* The editor may nest rows in completed ones; the request is refused.
LEMMA SplitClosed ==
  ASSUME DoneInv, ~ DoneParents, NEW t \in tasks, NEW o \in Outlines(t),
         NEW sequential \in BOOLEAN, SplitTask(t, o, sequential)
  PROVE  DoneInv'
<1> DEFINE R == Rows(o)
           removed == Below(parent, t) \ Kept(t, o)
<1>1. TreeShaped' /\ WellFormed
  BY SplitShape DEF DoneInv, TreeShaped
<1>2. \A x \in Task : parent[x] \in done => x \in done
  BY <1>1, DownClosedIsLocal DEF DoneInv, WellFormed
<1>3. /\ done' = done /\ parent' = Placed(o, removed, R)
      /\ \A r \in R \ done : o.nest[r] \notin done
  BY DEF SplitTask, ParentOffered
<1> HIDE DEF removed, R
<1>4. \A x \in Task : parent'[x] \in done' => x \in done'
  BY <1>1, <1>2, <1>3, NullAssumption DEF WellFormed, Placed
<1>5. parent' \in [Task -> Task \cup {Null}] /\ done' \in SUBSET Task
  BY <1>1 DEF TreeShaped, WellFormed
<1>6. QED
  BY <1>1, <1>4, <1>5, DownClosedIsLocal DEF DoneInv

\* A completed task only takes over the subtasks of another if they are done.
LEMMA MergeClosed ==
  ASSUME DoneInv, ~ DoneParents, NEW kept \in tasks, NEW other \in tasks,
         NEW p \in tasks \cup {Null}, NEW isDone \in BOOLEAN,
         MergeTasks(kept, other, p, isDone)
  PROVE  DoneInv'
<1> DEFINE up == Patched(kept, p)
           dn == PatchedDone(kept, p, isDone)
<1>1. TreeShaped' /\ WellFormed
  BY MergeShape DEF DoneInv, TreeShaped
<1>2. /\ up \in [Task -> Task \cup {Null}] /\ dn \subseteq tasks
      /\ parent' = Adopted(up, kept, other) /\ done' = dn \ {other}
  BY MergeTree DEF DoneInv
<1>3. DownClosed(up, dn)
  BY PatchClosed DEF MergeTasks
<1>4. Children(up, other) \subseteq dn \/ kept \notin dn
  BY DEF MergeTasks, Patched, PatchedDone
<1> HIDE DEF up, dn
<1>5. \A x \in Task : up[x] \in dn => x \in dn
  BY <1>1, <1>2, <1>3, DownClosedIsLocal DEF WellFormed
<1>6. \A x \in Task : parent'[x] \in done' => x \in done'
  BY <1>1, <1>2, <1>4, <1>5, NullAssumption DEF Adopted, Children, WellFormed
<1>7. parent' \in [Task -> Task \cup {Null}] /\ done' \in SUBSET Task
  BY <1>1 DEF TreeShaped, WellFormed
<1>8. QED
  BY <1>1, <1>6, <1>7, DownClosedIsLocal DEF DoneInv

LEMMA NextClosed ==
  ASSUME ~ DoneParents, DoneInv, [Next]_vars
  PROVE  DoneInv'
<1>1. ASSUME NEW t \in Task, NEW p \in tasks \cup {Null}, NEW isDone \in BOOLEAN,
             CreateTask(t, p, isDone) \/ UpdateTask(t, p, isDone)
      PROVE  DoneInv'
  BY <1>1, CreateClosed, UpdateClosed
<1>2. ASSUME NEW t \in tasks, NEW p \in tasks \cup {Null}, MoveTask(t, p)
      PROVE  DoneInv'
  BY <1>2, MoveClosed
<1>3. ASSUME NEW t \in tasks, \/ CompleteTask(t) \/ ReopenTask(t)
                              \/ \E booked \in BOOLEAN : BookTime(t, booked)
      PROVE  DoneInv'
  BY <1>3, StatusClosed
<1>4. ASSUME NEW t \in tasks, NEW mode \in {"none", "lift", "delete"}, DeleteTask(t, mode)
      PROVE  DoneInv'
  BY <1>4, DeleteClosed
<1>5. ASSUME NEW t \in tasks, NEW sequential \in BOOLEAN, NEW o \in Outlines(t),
             SplitTask(t, o, sequential)
      PROVE  DoneInv'
  BY <1>5, SplitClosed
<1>6. CASE \/ \E p, s \in tasks : AddDependency(p, s)
           \/ \E d \in deps : RemoveDependency(d)
           \/ UNCHANGED vars
  <2>1. UNCHANGED <<tasks, parent, done, tracked>>
    BY <1>6 DEF AddDependency, RemoveDependency, vars
  <2>2. QED
    BY <2>1 DEF DoneInv, TreeShaped, WellFormed
<1>7. ASSUME NEW kept \in tasks, NEW other \in tasks, NEW p \in tasks \cup {Null},
             NEW isDone \in BOOLEAN, MergeTasks(kept, other, p, isDone)
      PROVE  DoneInv'
  BY <1>7, MergeClosed
<1>8. QED
  BY <1>1, <1>2, <1>3, <1>4, <1>5, <1>6, <1>7 DEF Next, Edit, Merge

LEMMA InitClosed == Init => DoneInv
BY InitShape DEF Init, DoneInv, DownClosed

LEMMA DoneInvSafe == DoneInv => NoOpenInDone
<1> SUFFICES ASSUME DoneInv, NEW t \in tasks \ done, NEW a \in Ancestors(parent, t) \cap done
             PROVE  FALSE
  BY DEF NoOpenInDone
<1>1. t \in Below(parent, a)
  BY DEF Below, DoneInv, TreeShaped, WellFormed
<1>2. QED
  BY <1>1 DEF DoneInv, DownClosed

\* No open task is ever inside a completed one, however tasks are completed,
\* reopened, moved, split, merged and deleted, as long as no request names a
\* completed parent (completion.py).
THEOREM NothingOpenInDone == ASSUME ~ DoneParents PROVE Spec => []NoOpenInDone
<1>1. Init => DoneInv
  BY InitClosed
<1>2. DoneInv /\ [Next]_vars => DoneInv'
  BY NextClosed
<1>3. DoneInv => NoOpenInDone
  BY DoneInvSafe
<1>4. QED
  BY <1>1, <1>2, <1>3, PTL DEF Spec

-----------------------------------------------------------------------------
(* What a step may never do.                                               *)

LEMMA ShapeInv == Spec => []TreeShaped
BY InitShape, NextShape, PTL DEF Spec

\* After a task and its finished ancestors were completed.
LEMMA CompletedUpwards ==
  ASSUME NEW up \in [Task -> Task \cup {Null}], Rooted(up), NEW t \in Task, NEW dn \in SUBSET Task,
         NEW after, after = dn \cup {t} \cup FinishedAncestors(up, dn, t),
         NEW x \in after \ dn, up[x] # Null
  PROVE  up[x] \in after \/ ~ Children(up, up[x]) \subseteq after
BY FinishedGoesUp

LEMMA EditCompletesUpwards ==
  ASSUME TreeShaped, [Edit]_vars
  PROVE  [CompletesUpwards]_vars
<1>1. WellFormed /\ WellFormed'
  BY NextShape DEF Next, TreeShaped
<1>2. ASSUME (done' \ done) \cap tasks = {} PROVE CompletesUpwards
  BY <1>2 DEF CompletesUpwards
<1>3. ASSUME NEW t \in Task, NEW p \in tasks \cup {Null}, NEW isDone \in BOOLEAN,
             CreateTask(t, p, isDone)
      PROVE  CompletesUpwards
  BY <1>2, <1>3 DEF CreateTask
<1>4. ASSUME NEW t \in Task, NEW p \in tasks \cup {Null}, NEW isDone \in BOOLEAN,
             UpdateTask(t, p, isDone)
      PROVE  CompletesUpwards
  <2>1. done' = DoneAfter(parent', t, isDone)
    BY <1>4 DEF UpdateTask
  <2>2. CASE isDone /\ t \notin done
    <3>1. done' = done \cup {t} \cup FinishedAncestors(parent', done, t)
      BY <2>1, <2>2 DEF DoneAfter
    <3>2. TreeShaped'
      BY <1>4, UpdateShape
    <3>3. parent' \in [Task -> Task \cup {Null}] /\ Rooted(parent') /\ done \in SUBSET Task
      BY <1>1, <3>2 DEF TreeShaped, WellFormed
    <3>4. QED
      BY <3>1, <3>3, CompletedUpwards DEF CompletesUpwards
  <2>3. CASE ~ (isDone /\ t \notin done)
    <3>1. done' \subseteq done
      BY <2>1, <2>3 DEF DoneAfter
    <3>2. QED
      BY <1>2, <3>1
  <2>4. QED
    BY <2>2, <2>3
<1>5. ASSUME NEW t \in tasks, CompleteTask(t)
      PROVE  CompletesUpwards
  <2>1. done' = done \cup {t} \cup FinishedAncestors(parent, done, t) /\ parent' = parent
    BY <1>5 DEF CompleteTask
  <2>2. /\ parent \in [Task -> Task \cup {Null}] /\ Rooted(parent) /\ done \in SUBSET Task
        /\ t \in Task
    BY <1>1 DEF TreeShaped, WellFormed
  <2>3. QED
    BY <2>1, <2>2, CompletedUpwards DEF CompletesUpwards
<1>6. ASSUME NEW t \in tasks, NEW mode, DeleteTask(t, mode)
      PROVE  CompletesUpwards
  BY <1>2, <1>6 DEF DeleteTask, Remove
<1>7. ASSUME done' \subseteq done PROVE CompletesUpwards
  BY <1>2, <1>7
<1>8. ASSUME NEW t \in tasks, \/ ReopenTask(t)
                              \/ \E p \in tasks \cup {Null} : MoveTask(t, p)
                              \/ \E booked \in BOOLEAN : BookTime(t, booked)
      PROVE  CompletesUpwards
  BY <1>7, <1>8 DEF ReopenTask, MoveTask, BookTime
<1>9. ASSUME NEW t \in tasks, NEW sequential \in BOOLEAN, NEW o \in Outlines(t),
             SplitTask(t, o, sequential)
      PROVE  CompletesUpwards
  BY <1>7, <1>9 DEF SplitTask
<1>10. CASE \/ \E p, s \in tasks : AddDependency(p, s)
            \/ \E d \in deps : RemoveDependency(d)
  BY <1>7, <1>10 DEF AddDependency, RemoveDependency
<1>11. QED
  BY <1>3, <1>4, <1>5, <1>6, <1>8, <1>9, <1>10 DEF Edit

\* No edit that completes a task leaves a parent open whose subtasks are all
\* done by that: completing goes up as far as it can, also for a PATCH that
\* moves the task at once (complete_finished_ancestors).
THEOREM CompletingGoesUp == EditSpec => AutoCompletion
<1>1. TreeInv => TreeShaped
  BY TreeInvIs
<1>2. TreeShaped /\ [Edit]_vars => [CompletesUpwards]_vars
  BY EditCompletesUpwards
<1>3. QED
  BY <1>1, <1>2, EditInv, PTL DEF EditSpec, AutoCompletion

LEMMA SplitKeepsNested ==
  ASSUME TreeShaped, NEW t \in tasks, NEW o \in Outlines(t),
         NEW sequential \in BOOLEAN, SplitTask(t, o, sequential),
         NEW x \in tasks \cap tasks', parent[x] # Null
  PROVE  parent'[x] # Null
<1> DEFINE R == Rows(o)
           removed == Below(parent, t) \ Kept(t, o)
<1>1. WellFormed /\ x \in Task
  BY DEF TreeShaped, WellFormed
<1>2. /\ R \subseteq Task /\ o.nest \in [R -> R \cup {t}] /\ t \in Task
      /\ tasks' = (tasks \ removed) \cup R
      /\ parent' = Placed(o, removed, R)
  BY <1>1, SplitTree DEF Below, WellFormed
<1> SUFFICES ASSUME parent'[x] = Null PROVE FALSE
  OBVIOUS
<1>3. x \notin R /\ x \notin removed /\ parent[x] \in removed
  <2> HIDE DEF R, removed
  <2>1. QED
    BY <1>1, <1>2, NullAssumption DEF Placed
<1>4. /\ parent[x] \in Task /\ parent[x] \in Ancestors(parent, x)
      /\ t \in Ancestors(parent, parent[x])
  BY <1>1, <1>3, AncestorsClosed DEF Below, WellFormed
<1>5. x \in Below(parent, t)
  BY <1>1, <1>4, AncestorsOfAncestors DEF Below, WellFormed
<1>6. PICK r \in R \ o.given : x \in Below(parent, r)
  BY <1>3, <1>5 DEF Kept
<1>7. r = parent[x] \/ parent[x] \in Below(parent, r)
  BY <1>1, <1>4, <1>6, AncestorsStep, NullAssumption DEF Below, WellFormed
<1>8. QED
  BY <1>3, <1>6, <1>7 DEF Kept

LEMMA NextKeepsNested ==
  ASSUME TreeShaped, [Next]_vars
  PROVE  [KeepsNested]_vars
<1>1. WellFormed
  BY DEF TreeShaped
<1>2. ASSUME \A x \in tasks \cap tasks' : parent[x] # Null => parent'[x] # Null
      PROVE  KeepsNested
  BY <1>2 DEF KeepsNested
<1>3. ASSUME NEW t \in Task, NEW p \in tasks \cup {Null}, NEW isDone \in BOOLEAN,
             CreateTask(t, p, isDone)
      PROVE  KeepsNested
  BY <1>1, <1>2, <1>3 DEF CreateTask, WellFormed
<1>4. ASSUME NEW t \in Task, NEW p \in tasks \cup {Null}, NEW isDone \in BOOLEAN,
             UpdateTask(t, p, isDone)
      PROVE  KeepsNested
  <2>1. parent' = [parent EXCEPT ![t] = p]
    BY <1>4 DEF UpdateTask
  <2>2. ASSUME NEW x \in tasks \cap tasks', parent[x] # Null, parent'[x] = Null
        PROVE  x = t /\ p = Null
    BY <1>1, <2>1, <2>2 DEF WellFormed
  <2>3. QED
    BY <1>4, <2>2 DEF KeepsNested
<1>5. ASSUME NEW t \in tasks, NEW p \in tasks \cup {Null}, MoveTask(t, p)
      PROVE  KeepsNested
  <2>1. parent' = [parent EXCEPT ![t] = p]
    BY <1>5 DEF MoveTask
  <2>2. ASSUME NEW x \in tasks \cap tasks', parent[x] # Null, parent'[x] = Null
        PROVE  x = t /\ p = Null
    BY <1>1, <2>1, <2>2 DEF WellFormed
  <2>3. QED
    BY <1>5, <2>2 DEF KeepsNested
<1>6. ASSUME NEW t \in tasks, NEW mode \in {"none", "lift", "delete"}, DeleteTask(t, mode)
      PROVE  KeepsNested
  <2>1. CASE mode = "delete"
    <3> DEFINE gone == {t} \cup Below(parent, t)
    <3>1. /\ tasks' = tasks \ gone
          /\ parent' = [x \in Task |-> IF x \in gone THEN Null ELSE parent[x]]
      BY <1>6, <2>1 DEF DeleteTask, Remove
    <3> HIDE DEF gone
    <3>2. QED
      BY <1>1, <1>2, <3>1 DEF WellFormed
  <2>2. CASE mode # "delete"
    <3>1. /\ tasks' = tasks \ {t}
          /\ parent' = [x \in Task |-> IF x = t THEN Null
                                       ELSE IF parent[x] = t THEN parent[t] ELSE parent[x]]
          /\ mode = "none" => \A x \in Task : parent[x] # t
      BY <1>6, <2>2 DEF DeleteTask, Remove, Lifted, Children
    <3>2. ASSUME NEW x \in tasks \cap tasks', parent[x] # Null, parent'[x] = Null
          PROVE  parent[x] = t /\ mode = "lift"
      BY <1>1, <2>2, <3>1, <3>2 DEF WellFormed
    <3>3. QED
      BY <1>6, <3>2 DEF KeepsNested
  <2>3. QED
    BY <2>1, <2>2
<1>7. ASSUME NEW t \in tasks, NEW sequential \in BOOLEAN, NEW o \in Outlines(t),
             SplitTask(t, o, sequential)
      PROVE  KeepsNested
  BY <1>2, <1>7, SplitKeepsNested
<1>8. ASSUME NEW kept \in tasks, NEW other \in tasks, NEW p \in tasks \cup {Null},
             NEW isDone \in BOOLEAN, MergeTasks(kept, other, p, isDone)
      PROVE  KeepsNested
  <2>1. parent' = Adopted(Patched(kept, p), kept, other) /\ tasks' = tasks \ {other}
    BY <1>8, MergeTree
  <2>2. ASSUME NEW x \in tasks \cap tasks', parent[x] # Null, parent'[x] = Null
        PROVE  x = kept /\ p = Null
    BY <1>1, <2>1, <2>2, NullAssumption DEF Adopted, Patched, WellFormed
  <2>3. QED
    BY <1>8, <2>2 DEF KeepsNested
<1>9. CASE \/ \E t \in tasks : CompleteTask(t) \/ ReopenTask(t)
           \/ \E t \in tasks, booked \in BOOLEAN : BookTime(t, booked)
           \/ \E p, s \in tasks : AddDependency(p, s)
           \/ \E d \in deps : RemoveDependency(d)
  <2>1. parent' = parent
    BY <1>9 DEF CompleteTask, ReopenTask, BookTime, AddDependency, RemoveDependency
  <2>2. QED
    BY <1>2, <2>1
<1>10. QED
  BY <1>3, <1>4, <1>5, <1>6, <1>7, <1>8, <1>9 DEF Next, Edit, Merge

\* No split, merge or deletion drops a subtask out of its project: it only
\* becomes a top-level task when a request says so.
THEOREM NestedStayNested == Spec => SubtasksStayNested
<1>1. TreeShaped /\ [Next]_vars => [KeepsNested]_vars
  BY NextKeepsNested
<1>2. QED
  BY <1>1, ShapeInv, PTL DEF Spec, SubtasksStayNested

LEMMA NextKeepsMeasurements ==
  ASSUME TreeShaped, [Next]_vars
  PROVE  [KeepsMeasurements]_vars
<1>1. WellFormed /\ \A t \in done \cup tracked : t \in tasks /\ t \in Task
  BY DEF TreeShaped, WellFormed
<1>2. ASSUME tasks \subseteq tasks' PROVE KeepsMeasurements
  BY <1>1, <1>2 DEF KeepsMeasurements
<1>3. ASSUME NEW t \in tasks, NEW mode \in {"none", "lift", "delete"}, DeleteTask(t, mode)
      PROVE  KeepsMeasurements
  <2>1. tasks \ tasks' \subseteq {t} \cup Below(parent, t)
    BY <1>3 DEF DeleteTask, Remove
  <2>2. \A x \in tasks \ tasks' : t \in Ancestors(parent, x) \cup {x}
    BY <2>1 DEF Below
  <2>3. QED
    BY <1>1, <1>3, <2>2 DEF KeepsMeasurements
<1>4. ASSUME NEW t \in tasks, NEW sequential \in BOOLEAN, NEW o \in Outlines(t),
             SplitTask(t, o, sequential)
      PROVE  KeepsMeasurements
  <2>1. (done \cup tracked) \subseteq tasks'
    BY <1>1, <1>4 DEF SplitTask, Removable
  <2>2. QED
    BY <2>1 DEF KeepsMeasurements
<1>5. ASSUME NEW kept \in tasks, NEW other \in tasks, NEW p \in tasks \cup {Null},
             NEW isDone \in BOOLEAN, MergeTasks(kept, other, p, isDone)
      PROVE  KeepsMeasurements
  <2>1. tasks' = tasks \ {other} /\ kept # other
    BY <1>5, MergeTree
  <2>2. other \in tracked => kept \in tracked'
    BY <1>5 DEF MergeTasks
  <2>3. QED
    BY <1>1, <1>5, <2>1, <2>2 DEF KeepsMeasurements
<1>6. ASSUME NEW t \in Task, NEW p \in tasks \cup {Null}, NEW isDone \in BOOLEAN,
             CreateTask(t, p, isDone) \/ UpdateTask(t, p, isDone)
      PROVE  KeepsMeasurements
  BY <1>2, <1>6 DEF CreateTask, UpdateTask
<1>7. CASE \/ \E t \in tasks, p \in tasks \cup {Null} : MoveTask(t, p)
           \/ \E t \in tasks : CompleteTask(t) \/ ReopenTask(t)
           \/ \E t \in tasks, booked \in BOOLEAN : BookTime(t, booked)
           \/ \E p, s \in tasks : AddDependency(p, s)
           \/ \E d \in deps : RemoveDependency(d)
  <2>1. tasks' = tasks
    BY <1>7 DEF MoveTask, CompleteTask, ReopenTask, BookTime, AddDependency, RemoveDependency
  <2>2. QED
    BY <1>2, <2>1
<1>8. QED
  BY <1>3, <1>4, <1>5, <1>6, <1>7 DEF Next, Edit, Merge

\* What was measured is only lost when the user deletes it: no split removes a
\* completed or tracked task, and a merge carries tracked time over (split.py).
THEOREM MeasurementsStay == Spec => MeasurementsKept
<1>1. TreeShaped /\ [Next]_vars => [KeepsMeasurements]_vars
  BY NextKeepsMeasurements
<1>2. QED
  BY <1>1, ShapeInv, PTL DEF Spec, MeasurementsKept
-----------------------------------------------------------------------------
(* The planner's units.                                                    *)

\* A closed set with the End of a task has the Ends of the tasks above it.
LEMMA EndsUpwards ==
  ASSUME NEW T \in SUBSET Task, NEW up \in [Task -> Task \cup {Null}], NEW D,
         \A x \in Task : up[x] # Null => x \in T /\ up[x] \in T,
         NEW S \in SUBSET Node, Closed(StartEndEdges(T, up, D), S),
         NEW a \in Task, End(a) \in S, NEW p \in {a} \cup Ancestors(up, a)
  PROVE  End(p) \in S
<1> DEFINE E == StartEndEdges(T, up, D)
           above == {y \in Task : End(y) \in S}
<1>1. ASSUME NEW y \in above, up[y] # Null
      PROVE  up[y] \in above
  <2>1. y \in T /\ up[y] \in T
    BY <1>1
  <2>2. Edge(E, End(y), End(up[y]))
    BY <1>1, <2>1, EdgeForms
  <2>3. End(up[y]) \in S
    <3> HIDE DEF E
    <3>1. QED
      BY <1>1, <2>2 DEF Closed, Edge, E
  <2>4. QED
    BY <2>1, <2>3
<1>2. above \in SUBSET Task /\ \A y \in above \cup {a} : up[y] # Null => up[y] \in above
  BY <1>1
<1>3. Ancestors(up, a) \subseteq above
  <2> HIDE DEF above
  <2>1. QED
    BY <1>2, AncestorsLeast
<1>4. QED
  BY <1>3

\* A closed set with the Start of a task has the Starts of those below it.
LEMMA StartsDownwards ==
  ASSUME NEW T \in SUBSET Task, NEW up \in [Task -> Task \cup {Null}], NEW D,
         \A x \in Task : up[x] # Null => x \in T /\ up[x] \in T,
         NEW S \in SUBSET Node, Closed(StartEndEdges(T, up, D), S),
         NEW b \in Task, NEW p \in {b} \cup Ancestors(up, b), Start(p) \in S
  PROVE  Start(b) \in S
<1> DEFINE E == StartEndEdges(T, up, D)
           out == {y \in Task : Start(y) \notin S}
<1>1. SUFFICES ASSUME Start(b) \notin S
               PROVE  FALSE
  OBVIOUS
<1>2. ASSUME NEW y \in out, up[y] # Null
      PROVE  up[y] \in out
  <2>1. y \in T /\ up[y] \in T
    BY <1>2
  <2>2. Edge(E, Start(up[y]), Start(y))
    BY <1>2, <2>1, EdgeForms
  <2>3. Start(up[y]) \notin S
    <3> HIDE DEF E
    <3>1. QED
      BY <1>2, <2>2 DEF Closed, Edge, E
  <2>4. QED
    BY <2>1, <2>3
<1>3. out \in SUBSET Task /\ \A y \in out \cup {b} : up[y] # Null => up[y] \in out
  BY <1>1, <1>2
<1>4. Ancestors(up, b) \subseteq out
  <2> HIDE DEF out
  <2>1. QED
    BY <1>3, AncestorsLeast
<1>5. QED
  BY <1>1, <1>4

\* Before the End of a unit that follows a, there is a node that the End of
\* a leads to.
LEMMA UnitStep ==
  ASSUME NEW T \in SUBSET Task, NEW up \in [Task -> Task \cup {Null}],
         NEW D \in SUBSET (T \X T), NEW W \in SUBSET T,
         \A x \in Task : up[x] # Null => x \in T /\ up[x] \in T, Null \notin Task,
         NEW S \in SUBSET Node, Closed(StartEndEdges(T, up, D), S),
         NEW e \in UnitEdges(up, W, D), End(e[1]) \in S
  PROVE  \E m \in S : Edge(StartEndEdges(T, up, D), m, End(e[2]))
<1> DEFINE E == StartEndEdges(T, up, D)
<1>1. e[1] \in W /\ e[2] \in W
  BY DEF UnitEdges, DependencyEdges, RestEdges
<1>2. CASE e \in DependencyEdges(up, W, D)
  <2>1. PICK d \in D : e[1] \in UnitsOf(up, W, d[1]) /\ e[2] \in UnitsOf(up, W, d[2])
    BY <1>2 DEF DependencyEdges
  <2>2. /\ d[1] \in {e[1]} \cup Ancestors(up, e[1])
        /\ d[2] \in {e[2]} \cup Ancestors(up, e[2])
    BY <2>1 DEF UnitsOf, Below
  <2>3. End(d[1]) \in S
    BY <1>1, <2>2, EndsUpwards
  <2>4. Edge(E, End(d[1]), Start(d[2]))
    BY EdgeForms
  <2>5. Start(d[2]) \in S
    BY <2>3, <2>4 DEF Closed, Edge
  <2>6. Start(e[2]) \in S
    BY <1>1, <2>2, <2>5, StartsDownwards
  <2>7. Edge(E, Start(e[2]), End(e[2]))
    BY <1>1, EdgeForms
  <2>8. QED
    BY <2>6, <2>7
<1>3. CASE e \in RestEdges(up, W, D)
  <2>1. PICK c \in Children(up, e[2]) : e[1] \in UnitsOf(up, W, c)
    BY <1>3 DEF RestEdges, LastChildren
  <2>2. c \in Task /\ up[c] = e[2] /\ up[c] # Null /\ c \in T
    BY <1>1, <2>1 DEF Children
  <2>3. c \in {e[1]} \cup Ancestors(up, e[1])
    BY <2>1 DEF UnitsOf, Below
  <2>4. End(c) \in S
    BY <1>1, <2>3, EndsUpwards
  <2>5. Edge(E, End(c), End(e[2]))
    BY <2>2, EdgeForms
  <2>6. QED
    BY <2>4, <2>5
<1>4. QED
  BY <1>2, <1>3 DEF UnitEdges

\* No cycle between Start and End nodes, none between units.
LEMMA NoCycleBetweenUnits ==
  ASSUME NEW T \in SUBSET Task, NEW up \in [Task -> Task \cup {Null}],
         NEW D \in SUBSET (T \X T), NEW W \in SUBSET T,
         \A x \in Task : up[x] # Null => x \in T /\ up[x] \in T, Null \notin Task,
         Acyclic(StartEndEdges(T, up, D))
  PROVE  Plannable(UnitEdges(up, W, D))
<1> DEFINE E == StartEndEdges(T, up, D)
<1>1. SUFFICES ASSUME NEW U \in SUBSET Task, U # {},
                      \A v \in U : \E e \in UnitEdges(up, W, D) : e[2] = v /\ e[1] \in U
               PROVE  FALSE
  BY DEF Plannable
<1> DEFINE ends == {End(u) : u \in U}
           S == {n \in Node : \A C \in SUBSET Node : Closed(E, C) /\ ends \subseteq C => n \in C}
<1>2. ends \subseteq S /\ S \in SUBSET Node /\ S # {}
  <2>1. \A u \in U : End(u) \in Node
    BY Nodes
  <2>2. ends \subseteq Node /\ ends # {}
    BY <1>1, <2>1
  <2>3. QED
    <3> HIDE DEF ends
    <3>1. QED
      BY <2>2
<1>3. Closed(E, S)
  <2>1. ASSUME NEW e \in E, e[1] \in S
        PROVE  e[2] \in S
    <3>1. \A C \in SUBSET Node : Closed(E, C) /\ ends \subseteq C => e[2] \in C
      BY <2>1 DEF Closed
    <3>2. Node \in SUBSET Node /\ Closed(E, Node) /\ ends \subseteq Node
      <4>1. ASSUME NEW x \in E
            PROVE  x[2] \in Node
        <5> DEFINE a == x[1]
                   b == x[2]
        <5>1. Edge(E, a, b)
          BY DEF Edge
        <5>2. \/ \E t \in T : b = End(t)
              \/ \E t \in T : b = Start(t)
              \/ \E t \in T : up[t] # Null /\ b = End(up[t])
              \/ \E d \in D : b = Start(d[2])
          <6> HIDE DEF a, b
          <6>1. QED
            BY <5>1, EdgeForms
        <5>3. (\A t \in T : up[t] # Null => up[t] \in Task) /\ \A d \in D : d[2] \in Task
          OBVIOUS
        <5>4. QED
          BY <5>2, <5>3, Nodes
      <4>2. QED
        BY <1>2, <4>1 DEF Closed
    <3>3. QED
      BY <3>1, <3>2
  <2>2. QED
    BY <2>1 DEF Closed
<1> HIDE DEF E, S
<1>4. PICK n \in S : \A a \in S : ~ Edge(E, a, n)
  BY <1>2, AcyclicByEdges DEF E
<1>5. n \in ends
  <2>1. SUFFICES ASSUME n \notin ends
                 PROVE  FALSE
    OBVIOUS
  <2>2. Closed(E, S \ {n})
    BY <1>3, <1>4 DEF Closed, Edge
  <2>3. S \ {n} \in SUBSET Node /\ ends \subseteq S \ {n}
    BY <1>2, <2>1
  <2>4. QED
    BY <2>2, <2>3, <1>4 DEF S
<1>6. PICK v \in U : n = End(v)
  BY <1>5
<1>7. PICK e \in UnitEdges(up, W, D) : e[2] = v /\ e[1] \in U
  BY <1>1
<1>8. End(e[1]) \in S
  BY <1>2, <1>7
<1>9. \E m \in S : Edge(E, m, End(e[2]))
  BY <1>2, <1>3, <1>8, UnitStep DEF E
<1>10. QED
  BY <1>4, <1>6, <1>7, <1>9

\* Planning never fails on a cycle, whatever edits come (build_dag raises no
\* CycleError): for every set of tasks and every set of open tasks with work
\* left.
THEOREM EditsStayPlannable == EditSpec => []NeverCyclic
<1>1. TreeInv => NeverCyclic
  <2>1. SUFFICES ASSUME TreeInv, NEW W \in SUBSET (tasks \ done)
                 PROVE  Plannable(UnitEdges(parent, W, deps))
    BY DEF NeverCyclic
  <2>2. /\ tasks \in SUBSET Task /\ parent \in [Task -> Task \cup {Null}]
        /\ deps \in SUBSET (tasks \X tasks) /\ W \in SUBSET tasks
        /\ \A x \in Task : parent[x] # Null => x \in tasks /\ parent[x] \in tasks
        /\ Acyclic(StartEndEdges(tasks, parent, deps))
    BY <2>1 DEF TreeInv, TypeOK, NoDependencyCycle, Cyclic
  <2>3. QED
    BY <2>2, NoCycleBetweenUnits, NullAssumption
<1>2. QED
  BY <1>1, EditInv, PTL

-----------------------------------------------------------------------------
(* The Rest of a parent.  Its children are finitely many, so each is        *)
(* followed, directly or not, by a last one.                                *)

\* Of finitely many tasks one is followed by none of them.
LEMMA LastOfSome ==
  ASSUME NEW T \in SUBSET Task, NEW up, NEW D \in SUBSET (T \X T),
         Acyclic(StartEndEdges(T, up, D)),
         NEW B \in SUBSET T, IsFiniteSet(B), B # {}
  PROVE  \E c \in B : \A d \in B : <<c, d>> \notin D
<1> DEFINE E == StartEndEdges(T, up, D)
           Stuck == {M \in FiniteSubsetsOf(B) : M # {} /\ \A c \in M : \E d \in M : <<c, d>> \in D}
<1>1. SUFFICES ASSUME \A c \in B : \E d \in B : <<c, d>> \in D PROVE FALSE
  OBVIOUS
<1>2. Stuck \subseteq FiniteSubsetsOf(B) /\ B \in Stuck
  BY <1>1 DEF FiniteSubsetsOf
<1>3. PICK M \in Stuck : \A N \in Stuck : ~ (<<N, M>> \in StrictSubsetOrdering(B))
  BY <1>2, FS_StrictSubsetOrderingWellFounded, WFMin
<1>4. M \in SUBSET B /\ IsFiniteSet(M) /\ M # {} /\ \A c \in M : \E d \in M : <<c, d>> \in D
  BY DEF FiniteSubsetsOf
<1> DEFINE N == {Start(x) : x \in M} \cup {End(x) : x \in M}
<1>5. N \in SUBSET Node /\ N # {}
  BY <1>4, Nodes
<1>6. PICK n \in N : \A a \in N : ~ Edge(E, a, n)
  BY <1>5, AcyclicByEdges
<1>7. PICK x \in M : n = Start(x)
  <2>1. ASSUME NEW x \in M, n = End(x) PROVE FALSE
    <3>1. Start(x) \in N /\ x \in T
      BY <1>4
    <3>2. Edge(E, Start(x), End(x))
      BY <3>1, EdgeForms
    <3>3. QED
      BY <1>6, <2>1, <3>1, <3>2
  <2>2. QED
    BY <2>1
<1>8. ASSUME NEW c \in M, <<c, x>> \in D PROVE FALSE
  <2>1. Edge(E, End(c), Start(x))
    BY <1>8, EdgeForms
  <2>2. QED
    BY <1>6, <1>7, <2>1
<1> DEFINE L == M \ {x}
<1>9. L \in SUBSET B /\ IsFiniteSet(L)
  BY <1>4, FS_Subset
<1>10. \A c \in L : \E d \in L : <<c, d>> \in D
  BY <1>4, <1>8
<1>11. L # {}
  <2>1. PICK d \in M : <<x, d>> \in D
    BY <1>4
  <2>2. d # x
    BY <1>8, <2>1
  <2>3. QED
    BY <2>1, <2>2
<1>12. L \in Stuck /\ <<L, M>> \in StrictSubsetOrdering(B)
  BY <1>4, <1>9, <1>10, <1>11 DEF FiniteSubsetsOf, StrictSubsetOrdering
<1>13. QED
  BY <1>3, <1>12

\* Above a task that is below p there is one that is p's own subtask.
LEMMA ChildAbove ==
  ASSUME NEW up \in [Task -> Task \cup {Null}], NEW w \in Task, NEW p \in Ancestors(up, w)
  PROVE  \E c \in Children(up, p) : c = w \/ c \in Ancestors(up, w)
<1> DEFINE S == {y \in Ancestors(up, w) : \E c \in Children(up, y) : c = w \/ c \in Ancestors(up, w)}
<1>1. S \in SUBSET Task
  BY DEF Ancestors
<1>2. ASSUME NEW y \in S \cup {w}, up[y] # Null PROVE up[y] \in S
  <2>1. y \in Task /\ y \in Children(up, up[y])
    BY <1>1 DEF Children
  <2>2. up[y] \in Ancestors(up, w)
    BY <1>2, AncestorsClosed
  <2>3. QED
    BY <2>1, <2>2
<1> HIDE DEF S
<1>3. Ancestors(up, w) \subseteq S
  BY <1>1, <1>2, AncestorsLeast
<1>4. QED
  BY <1>3 DEF S

LEMMA RestFollows ==
  ASSUME TreeInv, IsFiniteSet(tasks), NEW W \in SUBSET (tasks \ done), NEW p \in W,
         Internal(parent, deps, p) # {},
         \A c \in Children(parent, p) : UnitsOf(parent, W, c) # {}
  PROVE  PlannedAfter(UnitEdges(parent, W, deps), W \cap Below(parent, p), p)
<1> DEFINE E == UnitEdges(parent, W, deps)
           C == Children(parent, p)
<1>1. /\ tasks \in SUBSET Task /\ parent \in [Task -> Task \cup {Null}] /\ Rooted(parent)
      /\ deps \in SUBSET (tasks \X tasks) /\ Acyclic(StartEndEdges(tasks, parent, deps))
      /\ \A x \in Task : parent[x] # Null => x \in tasks /\ parent[x] \in tasks
  BY TreeInvIs DEF TreeShaped, WellFormed
<1>2. p \in Task /\ W \subseteq Task /\ C \subseteq tasks
  BY <1>1, NullAssumption DEF Children
<1>3. SUFFICES ASSUME NEW S \in SUBSET Task, p \in S, \A e \in E : e[2] \in S => e[1] \in S
               PROVE  W \cap Below(parent, p) \subseteq S
  BY DEF PlannedAfter
<1> DEFINE late == {c \in C : ~ (UnitsOf(parent, W, c) \subseteq S)}
<1>4. late = {}
  <2> SUFFICES ASSUME late # {} PROVE FALSE
    OBVIOUS
  <2>1. late \in SUBSET tasks /\ IsFiniteSet(late)
    BY <1>2, FS_Subset
  <2>2. PICK c \in late : \A d \in late : <<c, d>> \notin deps
    <3> HIDE DEF late
    <3>1. QED
      BY <1>1, <2>1, LastOfSome
  <2>3. PICK w \in UnitsOf(parent, W, c) : w \notin S
    OBVIOUS
  <2>4. c \in C /\ c \in Task /\ w \in W /\ w \in Task /\ (c = w \/ c \in Ancestors(parent, w))
    BY <1>1, <1>2 DEF Children, UnitsOf, Below
  <2>5. CASE \E d \in Internal(parent, deps, p) : d[1] = c
    <3>1. PICK e \in Internal(parent, deps, p) : e[1] = c
      BY <2>5
    <3>2. e \in deps /\ e[2] \in C /\ e = <<c, e[2]>>
      BY <1>1, <3>1 DEF Internal
    <3>3. e[2] \notin late
      BY <2>2, <3>2
    <3>4. PICK v \in UnitsOf(parent, W, e[2]) : v \in S
      BY <3>2, <3>3
    <3>5. v \in W /\ v \in Task /\ (e[2] = v \/ e[2] \in Ancestors(parent, v))
      BY <1>1, <1>2, <3>4 DEF UnitsOf, Below
    <3>6. w # v
      BY <2>3, <3>4
    <3>7. <<w, v>> \in DependencyEdges(parent, W, deps)
      <4>1. <<w, v>> \in W \X W /\ <<w, v>>[1] # <<w, v>>[2]
        BY <2>4, <3>5, <3>6
      <4>2. /\ <<w, v>>[1] \in UnitsOf(parent, W, e[1])
            /\ <<w, v>>[2] \in UnitsOf(parent, W, e[2])
        BY <2>3, <3>1, <3>4
      <4>3. QED
        BY <3>2, <4>1, <4>2 DEF DependencyEdges
    <3>8. QED
      BY <1>3, <2>3, <3>4, <3>7 DEF UnitEdges
  <2>6. CASE ~ \E d \in Internal(parent, deps, p) : d[1] = c
    <3>1. c \in LastChildren(parent, deps, p)
      BY <2>4, <2>6 DEF LastChildren
    <3>2. <<w, p>> \in RestEdges(parent, W, deps)
      <4>1. <<w, p>> \in W \X W /\ <<w, p>>[1] = w /\ <<w, p>>[2] = p
        BY <2>4
      <4>2. QED
        BY <2>3, <3>1, <4>1 DEF RestEdges
    <3>3. QED
      BY <1>3, <2>3, <3>2 DEF UnitEdges
  <2>7. QED
    BY <2>5, <2>6
<1>5. ASSUME NEW w \in W \cap Below(parent, p), w \notin S PROVE FALSE
  <2>1. w \in Task /\ p \in Ancestors(parent, w)
    BY <1>2 DEF Below
  <2>2. PICK c \in C : c = w \/ c \in Ancestors(parent, w)
    BY <1>1, <2>1, ChildAbove
  <2>3. w \in UnitsOf(parent, W, c)
    BY <2>1, <2>2 DEF UnitsOf, Below
  <2>4. QED
    BY <1>4, <1>5, <2>3
<1>6. QED
  BY <1>5

\* Every request names finitely many tasks.
Finite == IsFiniteSet(tasks)

LEMMA FinitelyManyTasks == EditSpec => []Finite
<1>1. Init => Finite
  BY FS_EmptySet DEF Init, Finite
<1>2. TreeInv /\ Finite /\ [Edit]_vars => Finite'
  <2> SUFFICES ASSUME TreeInv, IsFiniteSet(tasks), [Edit]_vars PROVE IsFiniteSet(tasks')
    BY DEF Finite
  <2>1. ASSUME tasks' \subseteq tasks PROVE IsFiniteSet(tasks')
    BY <2>1, FS_Subset
  <2>2. ASSUME NEW t \in Task, NEW p \in tasks \cup {Null}, NEW isDone \in BOOLEAN,
               CreateTask(t, p, isDone) \/ UpdateTask(t, p, isDone)
        PROVE  IsFiniteSet(tasks')
    <3>1. tasks' = tasks \/ tasks' = tasks \cup {t}
      BY <2>2 DEF CreateTask, UpdateTask
    <3>2. QED
      BY <3>1, FS_AddElement
  <2>3. ASSUME NEW t \in tasks, NEW mode, DeleteTask(t, mode) PROVE IsFiniteSet(tasks')
    BY <2>1, <2>3 DEF DeleteTask, Remove
  <2>4. ASSUME NEW t \in tasks, NEW sequential \in BOOLEAN, NEW o \in Outlines(t),
               SplitTask(t, o, sequential)
        PROVE  IsFiniteSet(tasks')
    <3> DEFINE removed == Below(parent, t) \ Kept(t, o)
    <3>1. TreeShaped
      BY TreeInvIs
    <3>2. IsFiniteSet(Rows(o))
      BY <2>4, <3>1, SplitTree
    <3>3. tasks' = (tasks \ removed) \cup Rows(o)
      BY <2>4 DEF SplitTask
    <3> HIDE DEF removed
    <3>4. IsFiniteSet(tasks \ removed)
      BY FS_Subset
    <3>5. QED
      BY <3>2, <3>3, <3>4, FS_Union
  <2>5. CASE \/ \E t \in tasks, p \in tasks \cup {Null} : MoveTask(t, p)
             \/ \E t \in tasks : CompleteTask(t) \/ ReopenTask(t)
             \/ \E t \in tasks, booked \in BOOLEAN : BookTime(t, booked)
             \/ \E p, s \in tasks : AddDependency(p, s)
             \/ \E d \in deps : RemoveDependency(d)
             \/ UNCHANGED vars
    BY <2>5 DEF MoveTask, CompleteTask, ReopenTask, BookTime, AddDependency, RemoveDependency, vars
  <2>6. QED
    BY <2>2, <2>3, <2>4, <2>5 DEF Edit
<1>3. QED
  BY <1>1, <1>2, EditInv, PTL DEF EditSpec

\* The Rest of a parent is planned after everything below it, whatever trees and
\* dependencies the edits lead to, provided that the children are ordered and
\* each has work left (expand_edges).
THEOREM RestIsLast == EditSpec => []RestComesLast
<1>1. TreeInv /\ Finite => RestComesLast
  BY RestFollows DEF RestComesLast, Finite
<1>2. QED
  BY <1>1, EditInv, FinitelyManyTasks, PTL

-----------------------------------------------------------------------------
(* The active project.                                                     *)

ActiveInv == DoneInv /\ active \in tasks \cup {Null}

\* Every request that handles the active project is one of the tree.
LEMMA ActiveIsNext ==
  ASSUME TreeShaped, [ActiveEdit \/ ActiveMerge]_activeVars
  PROVE  [Next]_vars
<1>1. ASSUME NEW t \in tasks, TrackProject(t) PROVE [Next]_vars
  <2>1. PICK B \in {{}} \cup {{x} : x \in tasks \ {t}} : tracked' = tracked \cup B
    BY <1>1 DEF TrackProject, BookRunning
  <2>2. UNCHANGED <<tasks, parent, deps, done>>
    BY <1>1 DEF TrackProject
  <2>3. CASE B = {}
    BY <2>1, <2>2, <2>3 DEF vars
  <2>4. CASE B # {}
    <3>1. PICK x \in tasks : B = {x}
      BY <2>4
    <3>2. BookTime(x, TRUE)
      BY <2>1, <2>2, <3>1 DEF BookTime
    <3>3. QED
      BY <3>2 DEF Next, Edit
  <2>5. QED
    BY <2>3, <2>4
<1>2. ASSUME NEW t \in tasks \cup {Null}, SelectProject(t) PROVE [Next]_vars
  BY <1>2 DEF SelectProject
<1>3. CASE EditElsewhere
  BY <1>3 DEF EditElsewhere, Next, Edit
<1>4. CASE \/ \E t \in tasks : CompleteAndHandOver(t)
           \/ \E t \in tasks, p \in tasks \cup {Null}, isDone \in BOOLEAN : UpdateAndHandOver(t, p, isDone)
           \/ \E t \in tasks, p \in tasks \cup {Null} : MoveAndHandOver(t, p)
           \/ \E t \in tasks, mode \in {"none", "lift", "delete"} : DeleteAndForget(t, mode)
           \/ \E t \in tasks, sequential \in BOOLEAN :
                \E o \in Outlines(t) : SplitAndForget(t, o, sequential)
  <2>1. tasks \subseteq Task
    BY DEF TreeShaped, WellFormed
  <2>2. QED
    BY <1>4, <2>1 DEF CompleteAndHandOver, UpdateAndHandOver, MoveAndHandOver, DeleteAndForget,
                      SplitAndForget, Next, Edit
<1>5. CASE ActiveMerge
  BY <1>5 DEF ActiveMerge, MergeAndHandOver, Next, Merge
<1>6. CASE UNCHANGED activeVars
  BY <1>6 DEF activeVars
<1>7. QED
  BY <1>1, <1>2, <1>3, <1>4, <1>5, <1>6 DEF ActiveEdit

-----------------------------------------------------------------------------
(* Walking up.                                                             *)

\* Every nonempty part of the way up has a lowest task.
LEMMA NearestExists ==
  ASSUME NEW up \in [Task -> Task \cup {Null}], Rooted(up), NEW x \in Task, NEW S,
         Walk(up, x) \cap S # {}
  PROVE  \E a \in Walk(up, x) \cap S : Walk(up, x) \cap S \subseteq Walk(up, a)
<1> DEFINE found == Walk(up, x) \cap S
           good == {y \in Walk(up, x) : found \subseteq Walk(up, y)}
<1>1. good \in SUBSET Task /\ x \in good
  BY DEF Walk, Ancestors
<1>2. PICK y \in good : up[y] \notin good
  BY <1>1 DEF Rooted
<1>3. y \in Task /\ y \in Walk(up, x) /\ found \subseteq Walk(up, y)
  BY <1>1, <1>2
<1>4. CASE y \in S
  BY <1>3, <1>4
<1>5. CASE y \notin S
  <2>1. found \subseteq Ancestors(up, y)
    BY <1>3, <1>5 DEF Walk
  <2>2. up[y] # Null /\ found \subseteq Walk(up, up[y])
    BY <1>3, <2>1, AncestorsStep, NullAssumption DEF Walk
  <2>3. up[y] \in Walk(up, x)
    BY <1>3, <2>2, AncestorsClosed DEF Walk
  <2>4. QED
    BY <1>2, <2>2, <2>3
<1>6. QED
  BY <1>4, <1>5

LEMMA NearestIs ==
  ASSUME NEW up \in [Task -> Task \cup {Null}], Rooted(up), NEW x \in Task, NEW S
  PROVE  \/ Walk(up, x) \cap S = {} /\ Nearest(up, x, S) = Null
         \/ Nearest(up, x, S) \in Walk(up, x) \cap S
<1>1. CASE Walk(up, x) \cap S = {}
  BY <1>1 DEF Nearest
<1>2. CASE Walk(up, x) \cap S # {}
  <2> DEFINE found == Walk(up, x) \cap S
             a == CHOOSE b \in found : found \subseteq Walk(up, b)
  <2>1. \E b \in found : found \subseteq Walk(up, b)
    BY <1>2, NearestExists
  <2>2. a \in found
    BY <2>1
  <2>3. Nearest(up, x, S) = a
    BY <1>2 DEF Nearest
  <2>4. QED
    BY <2>2, <2>3
<1>3. QED
  BY <1>1, <1>2

\* Every task is in a project: a top-level task is one.
LEMMA ProjectIs ==
  ASSUME NEW up \in [Task -> Task \cup {Null}], Rooted(up), NEW x \in Task
  PROVE  ProjectOf(up, x) \in Walk(up, x)
<1>1. PICK r \in Walk(up, x) : up[r] = Null
  BY RootedHasRoot DEF Walk
<1>2. r \in Walk(up, x) \cap {a \in Task : IsProject(up, a)}
  BY <1>1 DEF Walk, Ancestors, IsProject
<1>3. QED
  BY <1>2, NearestIs DEF ProjectOf

LEMMA KeptOpenIs ==
  ASSUME NEW up \in [Task -> Task \cup {Null}], Rooted(up), NEW dn, Null \notin dn,
         active \in Task \cup {Null},
         \A x \in Task : Ancestors(up, x) \subseteq tasks
  PROVE  \/ active \notin dn /\ KeptOpen(up, dn) = active
         \/ active \in dn /\ KeptOpen(up, dn) \in Ancestors(up, active) \ dn
         \/ active \in dn /\ KeptOpen(up, dn) = Null /\ Walk(up, active) \cap tasks \subseteq dn
<1>1. CASE active \notin dn
  BY <1>1 DEF KeptOpen
<1>2. CASE active \in dn
  <2>1. active \in Task
    BY <1>2
  <2>2. KeptOpen(up, dn) = Nearest(up, active, tasks \ dn)
    BY <1>2 DEF KeptOpen
  <2>3. \/ Walk(up, active) \cap (tasks \ dn) = {} /\ KeptOpen(up, dn) = Null
        \/ KeptOpen(up, dn) \in Walk(up, active) \cap (tasks \ dn)
    BY <2>1, <2>2, NearestIs
  <2>4. QED
    BY <1>2, <2>3 DEF Walk
<1>3. QED
  BY <1>1, <1>2

\* The way up is the same in trees that agree on it.
LEMMA SameWay ==
  ASSUME NEW up \in [Task -> Task \cup {Null}], NEW new \in [Task -> Task \cup {Null}],
         NEW x \in Task, \A y \in Walk(up, x) : new[y] = up[y]
  PROVE  Ancestors(new, x) = Ancestors(up, x)
<1>1. Ancestors(new, x) \subseteq Ancestors(up, x)
  <2>1. Ancestors(up, x) \in SUBSET Task
    BY DEF Ancestors
  <2>2. \A y \in Ancestors(up, x) \cup {x} : new[y] # Null => new[y] \in Ancestors(up, x)
    BY AncestorsClosed DEF Walk
  <2>3. QED
    BY <2>1, <2>2, AncestorsLeast
<1>2. Ancestors(up, x) \subseteq Ancestors(new, x)
  <2> DEFINE S == Ancestors(up, x) \cap Ancestors(new, x)
  <2>1. S \in SUBSET Task
    BY DEF Ancestors
  <2>2. ASSUME NEW y \in S \cup {x}, up[y] # Null PROVE up[y] \in S
    BY <2>2, AncestorsClosed DEF Walk
  <2> HIDE DEF S
  <2>3. Ancestors(up, x) \subseteq S
    BY <2>1, <2>2, AncestorsLeast
  <2>4. QED
    BY <2>3 DEF S
<1>3. QED
  BY <1>1, <1>2

\* What was below other is below kept once it is adopted.
LEMMA AdoptedBelow ==
  ASSUME NEW up \in [Task -> Task \cup {Null}], Rooted(up), NEW kept \in Task, NEW other \in Task,
         NEW x \in Task, x # other, other \in Ancestors(up, x)
  PROVE  kept \in Ancestors(Adopted(up, kept, other), x)
<1> DEFINE ad == Adopted(up, kept, other)
           B == {y \in Task : y # other /\ other \in Ancestors(up, y) /\ kept \notin Ancestors(ad, y)}
<1>1. /\ ad \in [Task -> Task \cup {Null}]
      /\ \A y \in Task \ {other} : ad[y] = IF up[y] = other THEN kept ELSE up[y]
  BY DEF Adopted
<1> HIDE DEF ad
<1>2. SUFFICES ASSUME B # {} PROVE FALSE
  BY DEF ad
<1>3. PICK y \in B : up[y] \notin B
  BY <1>2 DEF Rooted
<1>4. y \in Task \ {other} /\ other \in Ancestors(up, y) /\ kept \notin Ancestors(ad, y)
  BY <1>3
<1>5. up[y] \in Task /\ (up[y] = other \/ other \in Ancestors(up, up[y]))
  BY <1>4, AncestorsStep, NullAssumption
<1>6. up[y] # other
  BY <1>1, <1>4, AncestorsClosed, NullAssumption
<1>7. ad[y] = up[y] /\ kept \in Ancestors(ad, up[y])
  BY <1>1, <1>3, <1>4, <1>5, <1>6
<1>8. Ancestors(ad, up[y]) \subseteq Ancestors(ad, y)
  BY <1>1, <1>4, <1>5, <1>7, AncestorsStep, NullAssumption
<1>9. QED
  BY <1>4, <1>7, <1>8

-----------------------------------------------------------------------------
(* What each request does to the active project.                           *)

HandsOver == active' \in tasks' \cup {Null} /\ StaysOpen /\ GoesUpwards

\* Everything that is known before and after a request.
Handled == /\ ActiveInv /\ DoneInv'

LEMMA HandledFacts ==
  ASSUME Handled
  PROVE  /\ tasks \in SUBSET Task /\ tasks' \in SUBSET Task
         /\ parent \in [Task -> Task \cup {Null}] /\ parent' \in [Task -> Task \cup {Null}]
         /\ Rooted(parent) /\ Rooted(parent')
         /\ done \subseteq tasks /\ done' \subseteq tasks'
         /\ DownClosed(parent, done) /\ DownClosed(parent', done')
         /\ \A x \in Task : Ancestors(parent, x) \subseteq tasks
         /\ \A x \in Task : Ancestors(parent', x) \subseteq tasks'
         /\ active \in tasks \cup {Null} /\ active \in Task \cup {Null}
         /\ Null \notin tasks /\ Null \notin tasks' /\ Null \notin done /\ Null \notin done'
<1>1. /\ tasks \in SUBSET Task /\ parent \in [Task -> Task \cup {Null}] /\ Rooted(parent)
      /\ \A x \in Task : parent[x] # Null => x \in tasks /\ parent[x] \in tasks
      /\ done \subseteq tasks /\ DownClosed(parent, done) /\ active \in tasks \cup {Null}
  BY DEF Handled, ActiveInv, DoneInv, TreeShaped, WellFormed
<1>2. /\ tasks' \in SUBSET Task /\ parent' \in [Task -> Task \cup {Null}] /\ Rooted(parent')
      /\ \A x \in Task : parent'[x] # Null => x \in tasks' /\ parent'[x] \in tasks'
      /\ done' \subseteq tasks' /\ DownClosed(parent', done')
  BY DEF Handled, DoneInv, TreeShaped, WellFormed
<1>3. \A x \in Task : Ancestors(parent, x) \subseteq tasks
  BY <1>1, AncestorsIn
<1>4. \A x \in Task : Ancestors(parent', x) \subseteq tasks'
  BY <1>2, AncestorsIn
<1>5. QED
  BY <1>1, <1>2, <1>3, <1>4, NullAssumption

\* A request that leaves the active project where it is, and completes none.
LEMMA LeftAlone ==
  ASSUME Handled, active' = active, active \in tasks' \cup {Null},
         active \in done' => active \in done
  PROVE  HandsOver
BY DEF HandsOver, StaysOpen, GoesUpwards

LEMMA SelectHandsOver ==
  ASSUME Handled, NEW t \in tasks \cup {Null}, SelectProject(t)
  PROVE  HandsOver
<1>1. active' = t /\ UNCHANGED vars /\ (t # Null => t \in tasks \ done)
  BY DEF SelectProject
<1>2. active' \in tasks' \cup {Null} /\ active' \notin done'
  BY <1>1, HandledFacts DEF vars
<1>3. QED
  BY <1>2 DEF HandsOver, StaysOpen, GoesUpwards

LEMMA TrackHandsOver ==
  ASSUME Handled, NEW t \in tasks, TrackProject(t)
  PROVE  HandsOver
<1>1. active' = ProjectOf(parent, t) /\ t \notin done /\ tasks' = tasks /\ done' = done
  BY DEF TrackProject
<1>2. t \in Task /\ active' \in Walk(parent, t)
  BY <1>1, HandledFacts, ProjectIs
<1>3. active' \in tasks
  BY <1>2, HandledFacts DEF Walk
<1>4. active' \notin done
  BY <1>1, <1>2, HandledFacts DEF Walk, DownClosed, Below
<1>5. QED
  BY <1>1, <1>3, <1>4 DEF HandsOver, StaysOpen, GoesUpwards

\* A PATCH that completes, or does not.
LEMMA UpdateHandsOver ==
  ASSUME Handled, NEW t \in tasks, NEW p \in tasks \cup {Null}, NEW isDone \in BOOLEAN,
         UpdateAndHandOver(t, p, isDone)
  PROVE  HandsOver
<1>1. tasks' = tasks /\ done' = DoneAfter(parent', t, isDone)
  BY DEF UpdateAndHandOver, UpdateTask
<1>2. CASE isDone /\ t \notin done
  <2>1. active' = KeptOpen(parent', done')
    BY <1>2 DEF UpdateAndHandOver
  <2>2. \/ active' = active /\ active \notin done'
        \/ active' \in Ancestors(parent', active) \ done'
        \/ active' = Null /\ Walk(parent', active) \cap tasks' \subseteq done'
    <3>1. \A x \in Task : Ancestors(parent', x) \subseteq tasks
      BY <1>1, HandledFacts
    <3>2. \/ active \notin done' /\ KeptOpen(parent', done') = active
          \/ active \in done' /\ KeptOpen(parent', done') \in Ancestors(parent', active) \ done'
          \/ /\ active \in done' /\ KeptOpen(parent', done') = Null
             /\ Walk(parent', active) \cap tasks \subseteq done'
      BY <3>1, HandledFacts, KeptOpenIs
    <3>3. QED
      BY <1>1, <2>1, <3>2
  <2>3. active' \in tasks' \cup {Null} /\ active' \notin done'
    <3>1. CASE active \in Task
      BY <1>1, <2>2, <3>1, HandledFacts
    <3>2. CASE active \notin Task
      <4>1. active' = active \/ active' = Null
        BY <2>1, <3>2, HandledFacts DEF KeptOpen
      <4>2. QED
        BY <1>1, <2>2, <3>2, <4>1, HandledFacts
    <3>3. QED
      BY <3>1, <3>2
  <2>4. QED
    BY <2>2, <2>3 DEF HandsOver, StaysOpen, GoesUpwards
<1>3. CASE ~ (isDone /\ t \notin done)
  <2>1. active' = active /\ done' \subseteq done
    BY <1>1, <1>3 DEF UpdateAndHandOver, DoneAfter
  <2>2. QED
    BY <1>1, <2>1, HandledFacts, LeftAlone
<1>4. QED
  BY <1>2, <1>3

LEMMA CompleteHandsOver ==
  ASSUME Handled, NEW t \in tasks, CompleteAndHandOver(t)
  PROVE  HandsOver
<1>1. tasks' = tasks /\ parent' = parent /\ active' = KeptOpen(parent, done')
  BY DEF CompleteAndHandOver, CompleteTask
<1>2. \/ active \notin done' /\ active' = active
      \/ active \in done' /\ active' \in Ancestors(parent', active) \ done'
      \/ /\ active \in done' /\ active' = Null
         /\ Walk(parent', active) \cap tasks' \subseteq done'
  BY <1>1, HandledFacts, KeptOpenIs
<1>3. active \in done' => active \in Task
  BY HandledFacts
<1>4. active' \in tasks' \cup {Null} /\ active' \notin done'
  BY <1>1, <1>2, <1>3, HandledFacts
<1>5. QED
  BY <1>2, <1>4 DEF HandsOver, StaysOpen, GoesUpwards

LEMMA MoveHandsOver ==
  ASSUME Handled, NEW t \in tasks, NEW p \in tasks \cup {Null}, MoveAndHandOver(t, p)
  PROVE  HandsOver
<1>1. tasks' = tasks /\ done' = done /\ active' = KeptAProject(parent')
  BY DEF MoveAndHandOver, MoveTask
<1>2. CASE active' = active
  BY <1>1, <1>2, HandledFacts, LeftAlone
<1>3. CASE active' # active
  <2>1. active \in Task /\ active' = ProjectOf(parent', active)
    BY <1>1, <1>3, HandledFacts DEF KeptAProject
  <2>2. active' \in Ancestors(parent', active)
    BY <1>3, <2>1, HandledFacts, ProjectIs DEF Walk
  <2>3. active' \in tasks'
    BY <2>1, <2>2, HandledFacts
  <2>4. active' \in done' => active \in done
    BY <1>1, <2>1, <2>2, HandledFacts DEF DownClosed, Below
  <2>5. QED
    BY <2>2, <2>3, <2>4 DEF HandsOver, StaysOpen, GoesUpwards
<1>4. QED
  BY <1>2, <1>3

\* Removing tasks hands nothing over.
LEMMA ForgottenHandsOver ==
  ASSUME Handled, active' = KeptUnlessGone(tasks \ tasks'), done' \subseteq done
  PROVE  HandsOver
<1>1. CASE active \in tasks \ tasks'
  BY <1>1, HandledFacts DEF KeptUnlessGone, HandsOver, StaysOpen, GoesUpwards
<1>2. CASE active \notin tasks \ tasks'
  BY <1>2, HandledFacts, LeftAlone DEF KeptUnlessGone
<1>3. QED
  BY <1>1, <1>2

LEMMA ElsewhereHandsOver ==
  ASSUME Handled, EditElsewhere
  PROVE  HandsOver
<1>1. active' = active
  BY DEF EditElsewhere
<1>2. tasks \subseteq tasks' /\ done' \subseteq done \cup (tasks' \ tasks)
  BY DEF EditElsewhere, CreateTask, ReopenTask, BookTime, AddDependency, RemoveDependency
<1>3. QED
  BY <1>1, <1>2, HandledFacts, LeftAlone

-----------------------------------------------------------------------------
(* Merging: the PATCH hands over in the tree up, then kept takes the place  *)
(* of other, which was not on a way up that kept is on.                     *)

LEMMA MergeHandsOver ==
  ASSUME Handled, NEW kept \in tasks, NEW other \in tasks, NEW p \in tasks \cup {Null},
         NEW isDone \in BOOLEAN, MergeAndHandOver(kept, other, p, isDone)
  PROVE  HandsOver
<1> DEFINE up == Patched(kept, p)
           dn == PatchedDone(kept, p, isDone)
           opened == IF isDone /\ kept \notin done THEN KeptOpen(up, dn) ELSE active
<1>1. /\ active' = IF opened = other THEN kept ELSE opened
      /\ MergeTasks(kept, other, p, isDone)
  BY DEF MergeAndHandOver, Patched, PatchedDone
<1>2. TreeShaped
  BY DEF Handled, ActiveInv, DoneInv
<1>3. /\ kept # other /\ other \notin Ancestors(up, kept) /\ kept \notin Ancestors(up, other)
      /\ up \in [Task -> Task \cup {Null}] /\ Rooted(up)
      /\ \A x \in Task : up[x] # Null => x \in tasks /\ up[x] \in tasks
      /\ dn \subseteq tasks
      /\ parent' = Adopted(up, kept, other) /\ done' = dn \ {other} /\ tasks' = tasks \ {other}
  BY <1>1, <1>2, MergeTree
<1>4. \A x \in Task : x # kept => up[x] = parent[x]
  BY HandledFacts DEF Patched
<1>5. /\ isDone /\ kept \notin done => dn = done \cup {kept} \cup FinishedAncestors(up, done, kept)
      /\ ~ (isDone /\ kept \notin done) => dn \subseteq done
  BY DEF PatchedDone, DoneAfter
<1>6. kept \in Task /\ other \in Task
  BY HandledFacts
<1>7. CASE opened = active
  <2>1. CASE active = other
    <3>1. active' = kept
      BY <1>1, <1>7, <2>1
    <3>2. active' \in tasks' \cup {Null}
      BY <1>3, <3>1
    <3>3. StaysOpen
      BY <2>1 DEF StaysOpen
    <3>4. GoesUpwards
      BY <1>3, <2>1 DEF GoesUpwards
    <3>5. QED
      BY <3>2, <3>3, <3>4 DEF HandsOver
  <2>2. CASE active # other
    <3>1. active' = active /\ active \in tasks' \cup {Null}
      BY <1>1, <1>3, <1>7, <2>2, HandledFacts
    <3> HIDE DEF up, dn
    <3>2. active \in done' => active \in done
      <4>1. CASE isDone /\ kept \notin done
        <5>1. \A x \in Task : Ancestors(up, x) \subseteq tasks
          BY <1>3, HandledFacts, AncestorsIn
        <5>2. active \in dn => KeptOpen(up, dn) # active
          <6>1. active \in dn => active \in Task
            BY <1>3, HandledFacts
          <6>2. Null \notin dn
            BY <1>3, HandledFacts
          <6>3. QED
            BY <1>3, <5>1, <6>1, <6>2, HandledFacts, KeptOpenIs
        <5>3. QED
          BY <1>3, <1>7, <4>1, <5>2
      <4>2. CASE ~ (isDone /\ kept \notin done)
        BY <1>3, <1>5, <4>2
      <4>3. QED
        BY <4>1, <4>2
    <3>3. QED
      BY <3>1, <3>2, LeftAlone
  <2>3. QED
    BY <2>1, <2>2
<1>8. CASE opened # active
  <2>1. isDone /\ kept \notin done /\ opened = KeptOpen(up, dn)
    BY <1>8
  <2> HIDE DEF up, dn, opened
  <2>2. /\ active \in dn /\ active \in Task
        /\ \/ opened \in Ancestors(up, active) \ dn
           \/ opened = Null /\ Walk(up, active) \cap tasks \subseteq dn
    <3>1. \A x \in Task : Ancestors(up, x) \subseteq tasks
      BY <1>3, HandledFacts, AncestorsIn
    <3>2. Null \notin dn
      BY <1>3, HandledFacts
    <3>3. active \in dn => active \in Task
      BY <1>3, HandledFacts
    <3>4. QED
      BY <1>3, <1>8, <2>1, <3>1, <3>2, <3>3, HandledFacts, KeptOpenIs
  <2>3. opened \in tasks \cup {Null} /\ opened \notin dn
    BY <1>3, <2>2, HandledFacts, AncestorsIn
  <2>4. active' \in tasks' \cup {Null}
    BY <1>1, <1>3, <2>3
  <2>5. other \in Ancestors(up, active) => kept \notin Walk(up, active)
    <3>1. ASSUME other \in Ancestors(up, active), kept \in Ancestors(up, active) PROVE FALSE
      BY <1>3, <2>2, <3>1, AncestorsInLine
    <3>2. QED
      BY <1>3, <3>1 DEF Walk
  <2>6. StaysOpen
    <3>1. CASE opened = other
      <4>1. opened # Null
        BY <3>1, HandledFacts
      <4>2. other \in Ancestors(up, active)
        BY <2>2, <3>1, <4>1
      <4>3. active # kept /\ active \notin FinishedAncestors(up, done, kept)
        BY <1>3, <1>6, <4>2, AncestorsOfAncestors DEF FinishedAncestors
      <4>4. active \in done
        BY <1>5, <2>1, <2>2, <4>3
      <4>5. QED
        BY <4>4 DEF StaysOpen
    <3>2. CASE opened # other
      BY <1>1, <1>3, <2>3, <3>2 DEF StaysOpen
    <3>3. QED
      BY <3>1, <3>2
  <2>7. GoesUpwards
    <3> SUFFICES ASSUME active # other
                 PROVE  \E tree \in {parent, parent'} :
                          \/ active' \in Ancestors(tree, active)
                          \/ active' = Null /\ Walk(tree, active) \cap tasks' \subseteq done'
      BY <1>3 DEF GoesUpwards
    <3>1. CASE opened = other
      <4>1. opened # Null
        BY <3>1, HandledFacts
      <4>2. other \in Ancestors(up, active)
        BY <2>2, <3>1, <4>1
      <4>3. kept \in Ancestors(parent', active)
        BY <1>3, <1>6, <2>2, <4>2, AdoptedBelow
      <4>4. QED
        BY <1>1, <3>1, <4>3
    <3>2. CASE opened # other /\ other \notin Ancestors(up, active)
      <4>1. \A y \in Walk(up, active) : y \in Task /\ y # other /\ up[y] # other
        BY <1>3, <2>2, <3>2, AncestorsClosed, NullAssumption, HandledFacts DEF Walk, Ancestors
      <4>2. \A y \in Walk(up, active) : parent'[y] = up[y]
        BY <1>3, <4>1 DEF Adopted
      <4>3. Ancestors(parent', active) = Ancestors(up, active)
        BY <1>3, <2>2, <4>2, HandledFacts, SameWay
      <4>4. QED
        BY <1>1, <1>3, <2>2, <3>2, <4>3 DEF Walk
    <3>3. CASE opened # other /\ other \in Ancestors(up, active)
      <4>1. \A y \in Walk(up, active) : y \in Task /\ y # kept
        BY <2>2, <2>5, <3>3 DEF Walk, Ancestors
      <4>2. \A y \in Walk(up, active) : parent[y] = up[y]
        BY <1>4, <4>1
      <4>3. Ancestors(parent, active) = Ancestors(up, active)
        BY <1>3, <2>2, <4>2, HandledFacts, SameWay
      <4>4. QED
        BY <1>1, <1>3, <2>2, <3>3, <4>3 DEF Walk
    <3>4. QED
      BY <3>1, <3>2, <3>3
  <2>8. QED
    BY <2>4, <2>6, <2>7 DEF HandsOver
<1>9. QED
  BY <1>7, <1>8

-----------------------------------------------------------------------------

LEMMA ActiveHandsOver ==
  ASSUME Handled, ActiveEdit \/ ActiveMerge
  PROVE  HandsOver
<1>1. ASSUME NEW t \in tasks \cup {Null}, SelectProject(t) PROVE HandsOver
  BY <1>1, SelectHandsOver
<1>2. ASSUME NEW t \in tasks, TrackProject(t) \/ CompleteAndHandOver(t) PROVE HandsOver
  BY <1>2, TrackHandsOver, CompleteHandsOver
<1>3. ASSUME NEW t \in tasks, NEW p \in tasks \cup {Null}, NEW isDone \in BOOLEAN,
             UpdateAndHandOver(t, p, isDone)
      PROVE  HandsOver
  BY <1>3, UpdateHandsOver
<1>4. ASSUME NEW t \in tasks, NEW p \in tasks \cup {Null}, MoveAndHandOver(t, p) PROVE HandsOver
  BY <1>4, MoveHandsOver
<1>5. ASSUME NEW t \in tasks, NEW mode \in {"none", "lift", "delete"}, DeleteAndForget(t, mode)
      PROVE  HandsOver
  BY <1>5, ForgottenHandsOver DEF DeleteAndForget, DeleteTask, Remove
<1>6. ASSUME NEW t \in tasks, NEW sequential \in BOOLEAN, NEW o \in Outlines(t),
             SplitAndForget(t, o, sequential)
      PROVE  HandsOver
  BY <1>6, ForgottenHandsOver DEF SplitAndForget, SplitTask
<1>7. CASE EditElsewhere
  BY <1>7, ElsewhereHandsOver
<1>8. ASSUME NEW kept \in tasks, NEW other \in tasks, NEW p \in tasks \cup {Null},
             NEW isDone \in BOOLEAN, MergeAndHandOver(kept, other, p, isDone)
      PROVE  HandsOver
  BY <1>8, MergeHandsOver
<1>9. QED
  BY <1>1, <1>2, <1>3, <1>4, <1>5, <1>6, <1>7, <1>8 DEF ActiveEdit, ActiveMerge

LEMMA ActiveNext ==
  ASSUME ~ DoneParents, ActiveInv, [ActiveEdit \/ ActiveMerge]_activeVars
  PROVE  ActiveInv' /\ [StaysOpen]_activeVars /\ [GoesUpwards]_activeVars
<1>1. DoneInv'
  BY ActiveIsNext, NextClosed DEF ActiveInv, DoneInv
<1>2. CASE UNCHANGED activeVars
  BY <1>1, <1>2 DEF ActiveInv, activeVars, vars
<1>3. CASE ActiveEdit \/ ActiveMerge
  <2>1. HandsOver
    BY <1>1, <1>3, ActiveHandsOver DEF Handled
  <2>2. QED
    BY <1>1, <2>1 DEF HandsOver, ActiveInv
<1>4. QED
  BY <1>2, <1>3

LEMMA ActiveInit == InitActive => ActiveInv
BY InitClosed DEF InitActive, ActiveInv

LEMMA ActiveInvHolds == ASSUME ~ DoneParents PROVE ActiveSpec => []ActiveInv
<1>1. InitActive => ActiveInv
  BY ActiveInit
<1>2. ActiveInv /\ [ActiveEdit \/ ActiveMerge]_activeVars => ActiveInv'
  BY ActiveNext
<1>3. QED
  BY <1>1, <1>2, PTL DEF ActiveSpec

\* Whatever edits and merges do, with an active project to hand over or not: no
\* open task ends up in a completed one, if no request names a completed parent.
THEOREM ActiveNothingOpenInDone == ASSUME ~ DoneParents PROVE ActiveSpec => []NoOpenInDone
<1>1. ActiveInv => NoOpenInDone
  BY DoneInvSafe DEF ActiveInv
<1>2. QED
  BY <1>1, ActiveInvHolds, PTL

\* No request leaves a completed task the active project: completing it, its
\* last open subtask, or moving and completing at once hands it over, and only
\* merging it into a completed task does not (ensure_active_project_open).
THEOREM ActiveIsOpen == ASSUME ~ DoneParents PROVE ActiveSpec => ActiveStaysOpen
<1>1. ActiveInv /\ [ActiveEdit \/ ActiveMerge]_activeVars => [StaysOpen]_activeVars
  BY ActiveNext
<1>2. QED
  BY <1>1, ActiveInvHolds, PTL DEF ActiveSpec, ActiveStaysOpen

\* The active project is only handed to a task above it, and lost only where no
\* task above is open: whatever edits and merges do to the tree in between.
THEOREM ActiveGoesUp == ASSUME ~ DoneParents PROVE ActiveSpec => HandedUpwards
<1>1. ActiveInv /\ [ActiveEdit \/ ActiveMerge]_activeVars => [GoesUpwards]_activeVars
  BY ActiveNext
<1>2. QED
  BY <1>1, ActiveInvHolds, PTL DEF ActiveSpec, HandedUpwards

=============================================================================
