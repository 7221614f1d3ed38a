--------------------------- MODULE ActiveProject ---------------------------
(***************************************************************************)
(* The active project: the task the user works in, preselected as parent   *)
(* of every new task (UserSettings.active_task in models.py,               *)
(* services/settings.py).  Tracking and the user choose it; edits of the   *)
(* tree hand it over when it is completed, moved from, merged or deleted.  *)
(* Every action is one of TaskTree with what it does to the active project. *)
(***************************************************************************)
EXTENDS TaskTree

VARIABLE active   \* the active project; Null for none

activeVars == <<vars, active>>

InitActive == Init /\ active = Null

-----------------------------------------------------------------------------

\* is_project, among the tasks with the parents up.
IsProject(up, t) == up[t] = Null \/ Children(up, t) # {}

Walk(up, t) == {t} \cup Ancestors(up, t)

\* The first of S on the walk up from t; Null if there is none.
Nearest(up, t, S) ==
  LET found == Walk(up, t) \cap S
  IN  IF found = {} THEN Null ELSE CHOOSE a \in found : found \subseteq Walk(up, a)

\* project_for_tracking
ProjectOf(up, t) == Nearest(up, t, {a \in Task : IsProject(up, a)})

\* ensure_active_is_project
KeptAProject(up) ==
  IF active # Null /\ ~ IsProject(up, active) THEN ProjectOf(up, active) ELSE active

\* Faulty: hands over to the parent, open or not.
HandedToParent(up, dn) ==
  IF active \in dn THEN up[active] ELSE active

\* Faulty: gives up, though a task above is open.
ReleasedWhenDone(up, dn) == IF active \in dn THEN Null ELSE active

\* ensure_active_project_open
KeptOpen(up, dn) ==
  IF active \in dn THEN Nearest(up, active, tasks \ dn) ELSE active

\* on_delete=SET_NULL
KeptUnlessGone(gone) == IF active \in gone THEN Null ELSE active

-----------------------------------------------------------------------------

\* PATCH of active_task_id
SelectProject(t) ==
  /\ t # Null => t \in tasks \ done /\ IsProject(parent, t)
  /\ active' = t
  /\ UNCHANGED vars

Blocked(t) ==
  \E d \in deps : d[2] \in Walk(parent, t) /\ d[1] \notin done

\* start_tracking: the session that runs for another task is booked on it.
TrackProject(t) ==
  /\ t \in tasks \ done
  /\ ~ Blocked(t)
  /\ active' = ProjectOf(parent, t)
  /\ BookRunning(tasks \ {t})
  /\ UNCHANGED <<tasks, parent, deps, done>>

UpdateAndHandOver(t, p, isDone) ==
  /\ UpdateTask(t, p, isDone)
  /\ active' = IF isDone /\ t \notin done THEN KeptOpen(parent', done') ELSE active

MoveAndHandOver(t, p) ==
  /\ MoveTask(t, p)
  /\ active' = KeptAProject(parent')

CompleteAndHandOver(t) ==
  /\ CompleteTask(t)
  /\ active' = KeptOpen(parent, done')

DeleteAndForget(t, mode) ==
  /\ DeleteTask(t, mode)
  /\ active' = KeptUnlessGone(tasks \ tasks')

SplitAndForget(t, o, sequential) ==
  /\ SplitTask(t, o, sequential)
  /\ active' = KeptUnlessGone(tasks \ tasks')

\* The PATCH hands over, the merge then lets kept take the place of other.
MergeAndHandOver(kept, other, p, isDone) ==
  LET up     == [parent EXCEPT ![kept] = p]
      opened == IF isDone /\ kept \notin done
                  THEN KeptOpen(up, DoneAfter(up, kept, isDone)) ELSE active
  IN  /\ MergeTasks(kept, other, p, isDone)
      /\ active' = IF opened = other THEN kept ELSE opened

\* Requests that leave the active project alone.
EditElsewhere ==
  /\ \/ \E t \in Task, p \in tasks \cup {Null}, isDone \in BOOLEAN : CreateTask(t, p, isDone)
     \/ \E t \in tasks : ReopenTask(t)
     \/ \E t \in tasks, booked \in BOOLEAN : BookTime(t, booked)
     \/ \E p, s \in tasks : AddDependency(p, s)
     \/ \E d \in deps : RemoveDependency(d)
  /\ UNCHANGED active

ActiveEdit ==
  \/ \E t \in tasks \cup {Null} : SelectProject(t)
  \/ \E t \in tasks : TrackProject(t) \/ CompleteAndHandOver(t)
  \/ \E t \in tasks, p \in tasks \cup {Null}, isDone \in BOOLEAN : UpdateAndHandOver(t, p, isDone)
  \/ \E t \in tasks, p \in tasks \cup {Null} : MoveAndHandOver(t, p)
  \/ \E t \in tasks, mode \in {"none", "lift", "delete"} : DeleteAndForget(t, mode)
  \/ \E t \in tasks, sequential \in BOOLEAN :
       \E o \in Outlines(t) : SplitAndForget(t, o, sequential)
  \/ EditElsewhere

ActiveMerge ==
  \E kept, other \in tasks, p \in tasks \cup {Null}, isDone \in BOOLEAN :
    MergeAndHandOver(kept, other, p, isDone)

ActiveSpec == InitActive /\ [][ActiveEdit \/ ActiveMerge]_activeVars

-----------------------------------------------------------------------------
(* Properties.                                                             *)

\* The active project stays open: whatever completes it, its own request, that
\* of its last subtask or a PATCH that also moves it, hands it over, and no
\* move hands over to a completed one (a new task would land in it).  Merging
\* an active project into a completed task is the exception.
StaysOpen ==
  active' \in done' =>
    \/ active \in done
    \/ \E kept, other \in tasks, p \in tasks \cup {Null}, isDone \in BOOLEAN :
         other = active /\ MergeAndHandOver(kept, other, p, isDone)

ActiveStaysOpen == [][StaysOpen]_activeVars

\* Working on goes on in the same project: unless the user selects another or
\* tracks, the active project is only handed upwards, and it is only lost by
\* deleting it, removing it in a split, or when no task above it is open.  A
\* merge hands over in the tree it finds, and then takes a task out of it.
GoesUpwards ==
  active # active' /\ active \in tasks' =>
    \/ \E t \in tasks \cup {Null} : SelectProject(t)
    \/ \E t \in tasks : TrackProject(t)
    \/ \E up \in {parent, parent'} :
         \/ active' \in Ancestors(up, active)
         \/ active' = Null /\ Walk(up, active) \cap tasks' \subseteq done'

HandedUpwards == [][GoesUpwards]_activeVars
=============================================================================
