------------------------------ MODULE TaskTree ------------------------------
(***************************************************************************)
(* The tree of tasks, the dependencies between tasks and which tasks are   *)
(* done, under the requests of the API that change them: create, PATCH,    *)
(* move, delete, split, complete, reopen, merge, and creating or deleting  *)
(* a dependency (api.py, serializers.py, services/tree.py, split.py,       *)
(* completion.py, merge.py).  A request is one step here: concurrent       *)
(* requests are the subject of other modules.                              *)
(*                                                                         *)
(* Left out: recurring tasks (a series refuses subtasks), calendar links,  *)
(* the order of siblings, deadlines, colors and estimates.                 *)
(***************************************************************************)
EXTENDS StartEndGraph, Naturals, Sequences, FiniteSets

\* May a request name a completed task as the parent of another?  The API
\* accepts it; the pickers of the frontend offer open tasks only.
CONSTANT DoneParents

ASSUME DoneParentsAssumption == DoneParents \in BOOLEAN

VARIABLES
  tasks,    \* the tasks in the database
  parent,   \* their parents; Null for a top-level task (a project)
  deps,     \* the dependencies <<predecessor, successor>>
  done,     \* the tasks with a completed_at
  tracked   \* the tasks with a time_spent above zero

vars == <<tasks, parent, deps, done, tracked>>

TypeOK ==
  /\ tasks \subseteq Task
  /\ parent \in [Task -> Task \cup {Null}]
  /\ \A t \in Task : parent[t] # Null => t \in tasks /\ parent[t] \in tasks
  /\ deps \subseteq tasks \X tasks
  /\ done \subseteq tasks
  /\ tracked \subseteq tasks

Init ==
  /\ tasks = {}
  /\ parent = [t \in Task |-> Null]
  /\ deps = {}
  /\ done = {}
  /\ tracked = {}

-----------------------------------------------------------------------------
(* Which parents and dependencies are refused.                             *)

\* _cycle_in: the tree and the dependencies have a cycle.
Cyclic(T, up, D) == ~ Acyclic(StartEndEdges(T, up, D))

\* Faulty: looks at the dependencies without the tree.
ClosesFlatCycle(T, up, D, p, s) ==
  Reaches(StartEndEdges(T, [x \in Task |-> Null], D), Start(s), End(p))

\* dependency_cycle: p -> s would close a cycle.
ClosesCycle(T, up, D, p, s) ==
  Reaches(StartEndEdges(T, up, D), Start(s), End(p))

\* parent_change_error: t cannot go under p.
ParentRefused(t, p) ==
  \/ p = t
  \/ p # Null /\ t \in Ancestors(parent, p)
  \/ Cyclic(tasks, [parent EXCEPT ![t] = p], deps)

ParentOffered(p) == DoneParents \/ p \notin done

-----------------------------------------------------------------------------
(* Completing.                                                             *)

\* ensure_completable: no open subtask.
Completable(t) == Below(parent, t) \subseteq done

\* The completed tasks after t was given a completed_at (isDone) or lost it,
\* in the tree up (TaskSerializer.update).
DoneAfter(up, t, isDone) ==
  CASE isDone /\ t \notin done ->
         done \cup {t} \cup FinishedAncestors(up, done, t)
    [] ~isDone /\ t \in done ->
         IF up[t] \in done
           THEN (done \ {t}) \ Reopened(up, done, up[t])
           ELSE done \ {t}
    [] OTHER -> done

\* The session that runs for one of the tasks C, if any, is booked on it.
BookRunning(C) ==
  \E B \in {{}} \cup {{x} : x \in C} : tracked' = tracked \cup B

-----------------------------------------------------------------------------
(* Creating, editing, moving, completing and reopening one task.           *)

CreateTask(t, p, isDone) ==
  /\ t \notin tasks
  /\ p \in tasks \cup {Null}
  /\ ParentOffered(p)
  /\ tasks' = tasks \cup {t}
  /\ parent' = [parent EXCEPT ![t] = p]
  /\ done' = IF isDone THEN done \cup {t} ELSE done
  /\ UNCHANGED <<deps, tracked>>

\* PATCH with a parent_id p and a completed_at (isDone: not null).
PatchAllowed(t, p, isDone) ==
  /\ p # parent[t] => ~ ParentRefused(t, p) /\ ParentOffered(p)
  /\ isDone /\ t \notin done => Completable(t)

UpdateTask(t, p, isDone) ==
  /\ t \in tasks
  /\ p \in tasks \cup {Null}
  /\ PatchAllowed(t, p, isDone)
  /\ parent' = [parent EXCEPT ![t] = p]
  /\ done' = DoneAfter(parent', t, isDone)
  /\ BookRunning((done' \ done) \ {t})
  /\ UNCHANGED <<tasks, deps>>

MoveTask(t, p) ==
  /\ t \in tasks \ done
  /\ p \in (tasks \ done) \cup {Null}
  /\ ~ ParentRefused(t, p)
  /\ parent' = [parent EXCEPT ![t] = p]
  /\ UNCHANGED <<tasks, deps, done, tracked>>

CompleteTask(t) ==
  /\ t \in tasks \ done
  /\ Completable(t)
  /\ done' = done \cup {t} \cup FinishedAncestors(parent, done, t)
  /\ BookRunning(done' \ done)
  /\ UNCHANGED <<tasks, parent, deps>>

ReopenTask(t) ==
  /\ t \in done
  /\ done' = done \ Reopened(parent, done, t)
  /\ UNCHANGED <<tasks, parent, deps, tracked>>

\* Tracking books time on a task, or an edited session takes it back.
BookTime(t, booked) ==
  /\ t \in tasks
  /\ tracked' = IF booked THEN tracked \cup {t} ELSE tracked \ {t}
  /\ UNCHANGED <<tasks, parent, deps, done>>

-----------------------------------------------------------------------------
(* Deleting.                                                               *)

\* The rows of the tasks in gone are deleted, their dependencies cascade;
\* the other tasks have the parents up.
Remove(gone, up) ==
  /\ tasks' = tasks \ gone
  /\ parent' = [x \in Task |-> IF x \in gone THEN Null ELSE up[x]]
  /\ deps' = {d \in deps : d[1] \notin gone /\ d[2] \notin gone}
  /\ done' = done \ gone
  /\ tracked' = tracked \ gone

\* The parents with every child of t lifted into t's place.
Lifted(up, t) == [x \in Task |-> IF up[x] = t THEN up[t] ELSE up[x]]

\* A task with children is only deleted with a children mode.
DeleteTask(t, mode) ==
  /\ t \in tasks
  /\ mode = "none" => Children(parent, t) = {}
  /\ IF mode = "delete"
       THEN Remove({t} \cup Below(parent, t), parent)
       ELSE Remove({t}, Lifted(parent, t))

-----------------------------------------------------------------------------
(* Dependencies.                                                           *)

RelatedInTree(p, s) ==
  p \in Ancestors(parent, s) \/ s \in Ancestors(parent, p)

AddDependency(p, s) ==
  /\ p \in tasks /\ s \in tasks
  /\ p # s
  /\ <<p, s>> \notin deps
  /\ ~ RelatedInTree(p, s)
  /\ ~ ClosesCycle(tasks, parent, deps, p, s)
  /\ deps' = deps \cup {<<p, s>>}
  /\ UNCHANGED <<tasks, parent, done, tracked>>

RemoveDependency(d) ==
  /\ d \in deps
  /\ deps' = deps \ {d}
  /\ UNCHANGED <<tasks, parent, done, tracked>>

-----------------------------------------------------------------------------
(* Splitting.  The editor's outline is the list of its rows in depth-first *)
(* order (a row is an existing task below t or a new one), the row or task *)
(* each row is nested in, and the rows that list their children: a row     *)
(* that does not keeps its subtree as it is.                               *)

Rows(o) == {o.rows[i] : i \in DOMAIN o.rows}

\* The parents the outline gives, as if only its rows existed.
Nesting(o) == [x \in Task |-> IF x \in Rows(o) THEN o.nest[x] ELSE Null]

IsOutline(t, o) ==
  /\ \A i \in DOMAIN o.rows :
       o.nest[o.rows[i]] \in {t} \cup
         (IF i = 1 THEN {}
                   ELSE {o.rows[i-1]} \cup Ancestors(Nesting(o), o.rows[i-1]))
  /\ \A r \in Rows(o) : o.nest[r] \in o.given \cup {t}

\* The sequences in which every element of R occurs once.
Orderings(R) ==
  {s \in [1..Cardinality(R) -> R] : {s[i] : i \in DOMAIN s} = R}

Outlines(t) ==
  UNION {{o \in [rows : Orderings(R), nest : [R -> R \cup {t}], given : SUBSET R] :
             IsOutline(t, o)} :
           R \in {Q \in SUBSET (Below(parent, t) \cup (Task \ tasks)) : IsFiniteSet(Q)}}

\* The tasks below t that stay.
Kept(t, o) ==
  Below(parent, t)
    \cap (Rows(o) \cup UNION {Below(parent, r) : r \in Rows(o) \ o.given})

\* Faulty: existing tasks keep their old parents.
PlacedIfNew(o, removed, P) ==
  [x \in Task |-> IF x \in P \ tasks THEN o.nest[x]
                  ELSE IF x \in removed \/ parent[x] \in removed THEN Null
                  ELSE parent[x]]

\* The parents once the removed tasks are gone and the rows P are placed.
Placed(o, removed, P) ==
  [x \in Task |-> IF x \in P THEN o.nest[x]
                  ELSE IF x \in removed \/ parent[x] \in removed THEN Null
                  ELSE parent[x]]

\* _chain: each row of one level after the row before it.
Links(o, p) ==
  LET level == {i \in DOMAIN o.rows : o.nest[o.rows[i]] = p}
      next  == {e \in level \X level :
                  e[1] < e[2] /\ \A i \in level : i <= e[1] \/ e[2] <= i}
  IN  {<<o.rows[e[1]], o.rows[e[2]]>> : e \in next}

\* The rows placed by the time the level below p is chained.
PlacedBy(o, p) ==
  {o.rows[i] : i \in {j \in DOMAIN o.rows : \E k \in j..Len(o.rows) :
                         p \in Ancestors(Nesting(o), o.rows[k])}}

\* Chaining the level below p closes no cycle in the tree as it is placed by
\* then, with the levels chained before it (those not around p).
ChainAccepted(o, removed, D, p) ==
  LET P     == PlacedBy(o, p)
      links == UNION {Links(o, q) : q \in (P \cup {p}) \ Ancestors(Nesting(o), p)}
  IN  \A l \in Links(o, p) \ D :
         ~ ClosesCycle((tasks \ removed) \cup P, Placed(o, removed, P),
                       D \cup links, l[1], l[2])

\* Faulty: a completed task without tracked time may go.
UntrackedOnly(removed) == removed \cap tracked = {}

\* _removal_blocker: no removed task is completed or has tracked time.
Removable(removed) == removed \cap (done \cup tracked) = {}

SplitTask(t, o, sequential) ==
  /\ t \in tasks \ done
  /\ LET removed == Below(parent, t) \ Kept(t, o)
         left    == {d \in deps : d[1] \notin removed /\ d[2] \notin removed}
         levels  == {t} \cup Rows(o)
     IN  /\ Removable(removed)
         /\ sequential => \A p \in levels : ChainAccepted(o, removed, left, p)
         /\ tasks' = (tasks \ removed) \cup Rows(o)
         /\ parent' = Placed(o, removed, Rows(o))
         /\ deps' = IF sequential THEN left \cup UNION {Links(o, p) : p \in levels}
                                  ELSE left
  /\ ~ Cyclic(tasks', parent', deps')
  /\ \A r \in Rows(o) \ done : ParentOffered(o.nest[r])
  /\ UNCHANGED <<done, tracked>>

-----------------------------------------------------------------------------
(* Merging: PATCH the kept task with the merged fields, then move over what *)
(* the other one has, and delete it.                                       *)

\* The order in which the other task's dependencies are handled: those it
\* precedes something in, then those it follows something in.
MergeOrders(other) ==
  {s \in Orderings({d \in deps : other \in {d[1], d[2]}}) :
     \A i, j \in DOMAIN s : s[i][1] = other /\ s[j][2] = other => i < j}

\* The dependencies once those of other are handled in the order s: moved to
\* kept, unless that makes a loop, a duplicate or a cycle (in the tree as it
\* is before the subtasks move).
Repointed(up, kept, other, s) ==
  LET moved(x) == IF x = other THEN kept ELSE x
      after[i \in 0..Len(s)] ==
        IF i = 0 THEN deps
        ELSE LET rest == after[i-1] \ {s[i]}
                 edge == <<moved(s[i][1]), moved(s[i][2])>>
             IN  IF \/ edge[1] = edge[2]
                    \/ edge \in rest
                    \/ ClosesCycle(tasks, up, rest, edge[1], edge[2])
                   THEN rest ELSE rest \cup {edge}
  IN  after[Len(s)]

\* The parents with the subtasks of other under kept.
Adopted(up, kept, other) ==
  [x \in Task |-> CASE x = other -> Null
                    [] x # other /\ up[x] = other -> kept
                    [] OTHER -> up[x]]

MergeRefused(up, kept, other) ==
  kept = other \/ other \in Ancestors(up, kept) \/ kept \in Ancestors(up, other)

MergeTasks(kept, other, p, isDone) ==
  /\ kept \in tasks /\ other \in tasks
  /\ ~ MergeRefused(parent, kept, other)
  /\ p \in (tasks \cup {Null}) \ {other}
  /\ PatchAllowed(kept, p, isDone)
  /\ LET up == [parent EXCEPT ![kept] = p]
         dn == DoneAfter(up, kept, isDone)
     IN  /\ ~ MergeRefused(up, kept, other)
         /\ Children(up, other) \subseteq dn \/ DoneParents \/ kept \notin dn
         /\ \E s \in MergeOrders(other) : deps' = Repointed(up, kept, other, s)
         /\ parent' = Adopted(up, kept, other)
         /\ done' = dn \ {other}
         /\ \E B \in {{}} \cup {{x} : x \in (dn \ done) \ {kept}} :
              tracked' = ((tracked \cup B) \ {other}) \cup IF other \in tracked \cup B THEN {kept} ELSE {}
  /\ tasks' = tasks \ {other}

-----------------------------------------------------------------------------

Edit ==
  \/ \E t \in Task, p \in tasks \cup {Null}, isDone \in BOOLEAN :
       CreateTask(t, p, isDone) \/ UpdateTask(t, p, isDone)
  \/ \E t \in tasks, p \in tasks \cup {Null} : MoveTask(t, p)
  \/ \E t \in tasks : CompleteTask(t) \/ ReopenTask(t)
  \/ \E t \in tasks, booked \in BOOLEAN : BookTime(t, booked)
  \/ \E t \in tasks, mode \in {"none", "lift", "delete"} : DeleteTask(t, mode)
  \/ \E t \in tasks, sequential \in BOOLEAN :
       \E o \in Outlines(t) : SplitTask(t, o, sequential)
  \/ \E p, s \in tasks : AddDependency(p, s)
  \/ \E d \in deps : RemoveDependency(d)

Merge ==
  \E kept, other \in tasks, p \in tasks \cup {Null}, isDone \in BOOLEAN :
    MergeTasks(kept, other, p, isDone)

Next == Edit \/ Merge

EditSpec == Init /\ [][Edit]_vars
Spec     == Init /\ [][Next]_vars

-----------------------------------------------------------------------------
(* Properties.                                                             *)

\* The dependencies of the tasks, a parent's applying to its whole subtree,
\* have no cycle (TaskDependency in models.py).  Every edit keeps it; merging
\* does not.
NoDependencyCycle == ~ Cyclic(tasks, parent, deps)

\* No open task inside a completed one (completion.py).  It takes requests
\* that name open parents only.
NoOpenInDone ==
  \A t \in tasks \ done : Ancestors(parent, t) \cap done = {}

\* When a task completes, no parent above it is left open with all its
\* subtasks done (complete_finished_ancestors goes as far up as it can).
CompletesUpwards ==
  \A t \in (done' \ done) \cap tasks :
    parent'[t] # Null =>
      parent'[t] \in done' \/ ~ Children(parent', parent'[t]) \subseteq done'

AutoCompletion == [][CompletesUpwards]_vars

\* A subtask only becomes a top-level task when a request moves it there or
\* lifts it out of a deleted project: no split drops it out of the tree, though
\* _remove takes the removed parents' children to the top level on its way.
KeepsNested ==
  \A x \in tasks \cap tasks' : parent[x] # Null /\ parent'[x] = Null =>
    \/ \E isDone \in BOOLEAN : UpdateTask(x, Null, isDone)
    \/ MoveTask(x, Null)
    \/ DeleteTask(parent[x], "lift")
    \/ \E other \in tasks, isDone \in BOOLEAN : MergeTasks(x, other, Null, isDone)

SubtasksStayNested == [][KeepsNested]_vars

\* A completed task or one with tracked time is only lost by deleting it or a
\* task above it, or merged (split.py: measurement data is never thrown away).
KeepsMeasurements ==
  \A t \in (done \cup tracked) \ tasks' :
    \/ \E x \in Ancestors(parent, t) \cup {t} :
         \E mode \in {"none", "lift", "delete"} : DeleteTask(x, mode)
    \/ \E kept \in tasks', p \in tasks \cup {Null}, isDone \in BOOLEAN :
         MergeTasks(kept, t, p, isDone) /\ (t \in tracked => kept \in tracked')

MeasurementsKept == [][KeepsMeasurements]_vars
=============================================================================
