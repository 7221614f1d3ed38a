------------------------------- MODULE Outline -------------------------------
(* The Tasks tab (OutlineView.tsx): one user works on the tree of tasks.     *)
(* Moves are shown before the server has them and can be undone afterwards;  *)
(* a deleted row is hidden at once and deleted when its time to undo is over *)
(* (also when the page is left).                                             *)
EXTENDS OutlineTree, TLC

CONSTANTS Call,         \* requests under way at a time
          Resting,      \* tasks with time of their own beside their subtasks
          Unestimated,  \* tasks of the inbox
          Passing,      \* tasks that pass the filter
          Active,       \* what the active project may be (Null: none)
          MaxDone,      \* how many tasks are completed at first
          MaxOps,       \* how often the user does something
          MaxDeletes,   \* how many deletions
          LateUndo,     \* Undo is pressed also when the deletion is already sent
          Hasty,        \* subtrees are deleted also while the list is behind, and moves go on meanwhile
          DrawDone      \* completed tasks may be shown

ASSUME OutlineBounds ==
  /\ IsFiniteSet(Task) /\ IsFiniteSet(Call)
  /\ {Resting, Unestimated, Passing} \subseteq SUBSET Task /\ Active \subseteq Task \cup {Null}
  /\ MaxDone \in Nat /\ MaxOps \in Nat /\ MaxDeletes \in Nat
  /\ {DrawDone, LateUndo, Hasty} \subseteq BOOLEAN

VARIABLES store,      \* the server's tasks
          list,       \* the browser's
          fetching,   \* the list is being fetched
          calls,      \* requests under way
          view,       \* what is shown of the list
          drag,       \* the row being dragged
          dialog,     \* what is open above the tree
          toast,      \* "Moved ..., Undo" and "Completed ..., Undo"
          pending,    \* rows deleted on screen, with their timers
          shown,      \* the Tasks tab is the page shown
          unwanted,   \* rows the user deleted, and did not take back or hear back about
          ops, deletes

vars == <<unwanted, store, list, fetching, calls, view, drag, dialog, toast, pending, shown, ops, deletes>>

(* ------------------------------- the state ------------------------------- *)
NoDrag == [active |-> NoKey, over |-> NoKey, offset |-> 0]
NoToast == [kind |-> "none", task |-> Null, from |-> NoMove, before |-> <<>>, after |-> <<>>]
NoDialog == [kind |-> "none", task |-> Null]
Free == [kind |-> "none", task |-> Null, to |-> NoMove, phase |-> "free", snapshot |-> <<>>,
         from |-> NoMove, before |-> <<>>, after |-> <<>>, wants |-> {}, heard |-> FALSE]

HasKids(tasks, t) == KidsOf(tasks, t) # {}
Under(tasks, t) == Below(Parents(tasks), t)

\* Each tree of tasks, numbered among siblings (from 1 when the first one has
\* been deleted); what is below a completed task is completed.
Trees ==
  {s \in [Task -> [up : Task \cup {Null}, order : 0..Cardinality(Task), done : BOOLEAN, path : {<<>>}]] :
     /\ \A t \in Task : s[t].up # Null => ~(t \in Ancestors(Parents(s), t)) /\ (s[s[t].up].done => s[t].done)
     /\ \E first \in 0..1 : \A p \in Task \cup {Null} :
          LET kids == KidsOf(s, p) IN
          {s[t].order : t \in kids} = first..(Cardinality(kids) - 1 + first)}

(* ------------------------------- the rows ------------------------------- *)
Hidden == {pending[i].task : i \in DOMAIN pending}
Visible == [t \in DOMAIN list \ Hidden |-> list[t]]

\* The rows that pass the filter, and their parents for context.
Matching == {t \in DOMAIN Visible : t \in Passing /\ (view.showDone \/ ~list[t].done)}
Context == UNION {ToSet(list[t].path) : t \in Matching} \ Matching
Kept == [t \in (Matching \cup Context) \ Hidden |-> list[t]]

Items ==
  IF view.sort
  THEN LET inbox == InboxItems(Visible, Unestimated) IN
       IF view.filter THEN SelectSeq(inbox, LAMBDA r : r.task \in Passing) ELSE inbox
  ELSE IF view.filter
  THEN OutlineItems(Kept, view.active, {}, view.showDone, Resting, Context)
  ELSE OutlineItems(Visible, view.active, view.collapsed, view.showDone, Resting, {})

\* The row that is selected: when it has gone, the one now at its place.
SelectedAmong(rows) ==
  LET found == RowIndex(rows, view.selection.key) IN
  IF rows = <<>> THEN -1
  ELSE IF view.selection.index < 0 THEN (IF view.sort THEN 0 ELSE -1)
  ELSE IF found >= 0 THEN found
  ELSE IF view.selection.index < Len(rows) THEN view.selection.index ELSE Len(rows) - 1
SelectedIndex == SelectedAmong(Items)

SelectedOf(rows) == rows[SelectedAmong(rows) + 1]
Selected == SelectedOf(Items)

SelectionAmong(rows, i) ==
  LET at == Bound(0, i, Len(rows) - 1) IN
  IF rows = <<>> THEN view.selection ELSE [key |-> Key(rows[at + 1]), index |-> at]
Selection(i) == SelectionAmong(Items, i)

Sortable ==
  IF view.sort \/ view.filter THEN {}
  ELSE {Key(row) : row \in {r \in ToSet(Items) : r.kind = "task" /\ ~list[r.task].done}}

Projection == ProjectDrop(Items, list, drag.active, drag.over, drag.offset)

(* -------------------------------- Init -------------------------------- *)
\* At first everything is expanded and completed tasks are not shown.
Init ==
  /\ store \in Trees /\ Cardinality(DoneIn(store)) <= MaxDone
  /\ list = Loaded(store)
  /\ fetching = FALSE
  /\ calls = [c \in Call |-> Free]
  /\ \E active \in Active \ DoneIn(store) :
       view = [collapsed |-> {}, showDone |-> FALSE, sort |-> FALSE, filter |-> FALSE, active |-> active,
               selection |-> [key |-> NoKey, index |-> -1]]
  /\ drag = NoDrag /\ dialog = NoDialog /\ toast = NoToast /\ pending = <<>>
  /\ unwanted = {}
  /\ shown = TRUE /\ ops = 0 /\ deletes = 0

(* ------------------------------ selecting ------------------------------ *)
\* The tree has the keys: nothing lies above it and nothing is dragged.
Ready == shown /\ dialog = NoDialog /\ drag = NoDrag /\ ops < MaxOps
AtTree == Ready /\ ops' = ops + 1
OnTask == SelectedIndex >= 0 /\ Selected.kind = "task"
Looking == UNCHANGED <<unwanted, store, list, fetching, calls, drag, toast, pending, shown, deletes>>

SelectRow(i) ==
  /\ Items # <<>>
  /\ view' = [view EXCEPT !.selection = Selection(i)]
  /\ UNCHANGED dialog /\ Looking
ArrowDown == AtTree /\ SelectRow(SelectedIndex + 1)
ArrowUp == AtTree /\ SelectRow(SelectedIndex - 1)

\* A click selects the row and opens it: a task's dialog, or the split
\* editor for a Rest.
PickRow(i) ==
  /\ AtTree
  /\ view' = [view EXCEPT !.selection = Selection(i - 1)]
  /\ dialog' = [kind |-> IF Items[i].kind = "task" THEN "task" ELSE "split", task |-> Items[i].task]
  /\ Looking

\* Enter, S and M on the selected row.
OpenSelected(kind) ==
  /\ AtTree /\ SelectedIndex >= 0
  /\ kind \in {"task", "move"} => Selected.kind = "task"
  /\ dialog' = [kind |-> kind, task |-> Selected.task]
  /\ UNCHANGED view /\ Looking

CloseDialog ==
  /\ dialog # NoDialog
  /\ dialog' = NoDialog
  /\ UNCHANGED <<view, ops>> /\ Looking

\* In the dialog: to the previous or the next task of the tree; the selection
\* goes with it.
TaskRows == SelectSeq(Items, LAMBDA r : r.kind = "task")
DialogPosition == RowIndex(TaskRows, <<"task", dialog.task>>)
OpenNeighbour(direction) ==
  LET target == TaskRows[DialogPosition + direction + 1] IN
  /\ dialog.kind = "task" /\ ops < MaxOps /\ ops' = ops + 1
  /\ DialogPosition >= 0 /\ DialogPosition + direction \in 0..(Len(TaskRows) - 1)
  /\ dialog' = [dialog EXCEPT !.task = target.task]
  /\ view' = [view EXCEPT !.selection = [key |-> Key(target), index |-> RowIndex(Items, Key(target))]]
  /\ Looking

(* --------------------------- what is shown --------------------------- *)
Toggle(t) ==
  /\ AtTree /\ ~view.filter
  /\ \E i \in DOMAIN Items : Items[i].task = t /\ Items[i].kids
  /\ view' = [view EXCEPT !.collapsed = IF t \in @ THEN @ \ {t} ELSE @ \cup {t}]
  /\ UNCHANGED dialog /\ Looking

\* Left on a row that shows no subtasks: to its parent's row.
ArrowLeft ==
  /\ AtTree /\ OnTask
  /\ ~(Selected.kids /\ Selected.open /\ ~view.filter)
  /\ list[Selected.task].up # Null
  /\ view' = [view EXCEPT !.selection = Selection(RowIndex(Items, <<"task", list[Selected.task].up>>))]
  /\ UNCHANGED dialog /\ Looking

ToggleShowDone ==
  /\ AtTree /\ DrawDone
  /\ view' = [view EXCEPT !.showDone = ~@]
  /\ UNCHANGED dialog /\ Looking

ToggleFilter ==
  /\ AtTree
  /\ view' = [view EXCEPT !.filter = ~@]
  /\ UNCHANGED dialog /\ Looking

\* The sorting session starts at the first task of the inbox.
ToggleSort ==
  LET inbox == InboxItems(Visible, Unestimated) IN
  /\ AtTree
  /\ view' = [view EXCEPT !.sort = ~@,
                          !.selection = IF view.sort THEN @
                                        ELSE IF inbox = <<>> THEN [key |-> NoKey, index |-> -1]
                                        ELSE [key |-> Key(inbox[1]), index |-> 0]]
  /\ UNCHANGED dialog /\ Looking

(* -------------------------------- requests -------------------------------- *)
Ask(c, call) == calls[c].phase = "free" /\ calls' = [calls EXCEPT ![c] = call]
UnderWay(kinds) == {c \in Call : calls[c].phase # "free" /\ calls[c].kind \in kinds}

\* useMoveTask: the list shows the move at once.
SendMove(c, kind, t, to, from, ghost) ==
  /\ Hasty \/ UnderWay({"subtree"}) = {}
  /\ Ask(c, [Free EXCEPT !.kind = kind, !.task = t, !.to = to, !.phase = "sent", !.snapshot = list,
                         !.from = from, !.before = ghost.before, !.after = ghost.after])
  /\ list' = ApplyMove(list, t, to.up, to.index)
  /\ fetching' = FALSE

\* moveTo: nothing when it is there already; the new parent is opened.
MoveTo(t, to) ==
  /\ IsMove(to) /\ CurrentPosition(list, t) # to
  /\ \E c \in Call : SendMove(c, "move", t, to, CurrentPosition(list, t), NoToast)
  /\ view' = [view EXCEPT !.collapsed = @ \ {to.up}]
  /\ UNCHANGED <<unwanted, store, toast, pending, shown, deletes>>

MovableByKey == OnTask /\ ~view.sort /\ ~view.filter

Tab ==
  /\ AtTree /\ MovableByKey
  /\ MoveTo(Selected.task, IndentMove(list, Selected.task))
  /\ UNCHANGED <<drag, dialog>>
ShiftTab ==
  /\ AtTree /\ MovableByKey
  /\ MoveTo(Selected.task, OutdentMove(list, Selected.task))
  /\ UNCHANGED <<drag, dialog>>
AltArrow(direction) ==
  /\ AtTree /\ MovableByKey
  /\ MoveTo(Selected.task, NeighbourMove(list, Selected.task, direction))
  /\ UNCHANGED <<drag, dialog>>

\* The picker offers the projects that are not the task or below it.
PickProject(p) ==
  LET t == dialog.task IN
  /\ dialog.kind = "move" /\ t \in DOMAIN list
  /\ p = Null \/ (p \in DOMAIN Visible /\ ~list[p].done /\ p # t /\ t \notin ToSet(list[p].path))
  /\ MoveTo(t, AppendTarget(list, t, p))
  /\ dialog' = NoDialog
  /\ UNCHANGED <<drag, ops>>

(* --------------------------------- dragging --------------------------------- *)
DragStart(key) ==
  /\ AtTree /\ key \in Sortable
  /\ drag' = [active |-> key, over |-> key, offset |-> 0]
  /\ UNCHANGED <<unwanted, store, list, fetching, calls, view, dialog, toast, pending, shown, deletes>>

\* The subtree is hidden while its parent is dragged, so nothing is over it.
DragOver ==
  LET rows == Items
      dragged == RowIndex(rows, drag.active) + 1
      targets == Sortable \ {Key(rows[i]) : i \in Subtree(rows, dragged)} IN
  /\ drag # NoDrag /\ dragged > 0
  /\ \E key \in targets, offset \in -1..1 : drag' = [drag EXCEPT !.over = key, !.offset = offset]
  /\ UNCHANGED <<unwanted, store, list, fetching, calls, view, dialog, toast, pending, shown, ops, deletes>>

\* A collapsed parent under the pointer opens after a moment.
HoverOpens ==
  /\ drag # NoDrag
  /\ \E i \in DOMAIN Items : Key(Items[i]) = drag.over /\ Items[i].kids /\ ~Items[i].open
  /\ view' = [view EXCEPT !.collapsed = @ \ {drag.over[2]}]
  /\ UNCHANGED <<unwanted, store, list, fetching, calls, drag, dialog, toast, pending, shown, ops, deletes>>

DragEnd ==
  /\ drag # NoDrag
  /\ drag' = NoDrag
  /\ \E drop \in {Projection} :
       IF drop.changed /\ drag.active[2] \in DOMAIN list
       THEN MoveTo(drag.active[2], [up |-> drop.up, index |-> drop.index])
       ELSE UNCHANGED <<unwanted, store, list, fetching, calls, view, toast, pending, shown, deletes>>
  /\ UNCHANGED <<dialog, ops>>

(* ------------------------------- completing ------------------------------- *)
\* The circle: off for a parent with an open subtask; a done task reopens.
ToggleDone(i) ==
  LET t == Items[i].task IN
  /\ AtTree /\ Items[i].kind = "task"
  /\ list[t].done \/ \A k \in KidsOf(list, t) : list[k].done
  /\ \E c \in Call : Ask(c, [Free EXCEPT !.kind = IF list[t].done THEN "reopen" ELSE "complete",
                                        !.task = t, !.phase = "sent"])
  /\ UNCHANGED <<unwanted, store, list, fetching, view, drag, dialog, toast, pending, shown, deletes>>

\* Undo in the toast: straight back to where the task was, or reopened.
Undo ==
  /\ toast # NoToast /\ shown
  /\ IF toast.kind = "move"
     THEN \E c \in Call : SendMove(c, "undo", toast.task, toast.from, NoMove, toast)
     ELSE /\ \E c \in Call : Ask(c, [Free EXCEPT !.kind = "undone", !.task = toast.task, !.phase = "sent",
                                                !.before = toast.before, !.after = toast.after])
          /\ UNCHANGED <<list, fetching>>
  /\ toast' = NoToast
  /\ UNCHANGED <<unwanted, store, view, drag, dialog, pending, shown, ops, deletes>>

ToastGoes ==
  /\ toast # NoToast
  /\ toast' = NoToast
  /\ UNCHANGED <<unwanted, store, list, fetching, calls, view, drag, dialog, pending, shown, ops, deletes>>

(* -------------------------------- deleting -------------------------------- *)
\* requestDelete: a parent asks first what becomes of its subtasks.
DeleteKey ==
  /\ AtTree /\ deletes < MaxDeletes /\ OnTask
  /\ \E t \in {Selected.task} \cap DOMAIN Visible :
       IF HasKids(list, t)
       THEN dialog' = [kind |-> "confirm", task |-> t] /\ UNCHANGED <<pending, deletes, unwanted>>
       ELSE /\ pending' = Append(pending, [task |-> t, timer |-> TRUE])
            /\ deletes' = deletes + 1 /\ UNCHANGED dialog
            /\ unwanted' = unwanted \cup {t}
  /\ UNCHANGED <<store, list, fetching, calls, view, drag, toast, shown>>

\* mutate() of the one delete mutation: only its latest call is heard.
SendDelete(c, kind, t, wants) ==
  /\ calls[c].phase = "free"
  /\ calls' = [d \in Call |->
       IF d = c THEN [Free EXCEPT !.kind = kind, !.task = t, !.wants = wants, !.phase = "sent", !.heard = TRUE]
       ELSE [calls[d] EXCEPT !.heard = FALSE]]

TimerFires(i) ==
  /\ shown /\ pending[i].timer
  /\ pending' = [pending EXCEPT ![i].timer = FALSE]
  /\ \E c \in Call : SendDelete(c, "delete", pending[i].task, {pending[i].task})
  /\ UNCHANGED <<unwanted, store, list, fetching, view, drag, dialog, toast, shown, ops, deletes>>

\* Faulty: the timer is not stopped.
UndoDeleteTimerRuns ==
  /\ pending # <<>> /\ shown /\ Last(pending).timer
  /\ unwanted' = unwanted \ {Last(pending).task}
  /\ UNCHANGED <<pending, store, list, fetching, calls, view, drag, dialog, toast, shown, ops, deletes>>

\* Undo beside "Deleted ...": the last one comes back, its timer is stopped.
UndoDelete ==
  /\ pending # <<>> /\ shown
  /\ Last(pending).timer \/ LateUndo
  /\ pending' = Front(pending) /\ unwanted' = unwanted \ {Last(pending).task}
  /\ UNCHANGED <<store, list, fetching, calls, view, drag, dialog, toast, shown, ops, deletes>>

\* The answer to "what should happen to the subtasks?"
DeleteParent(kind) ==
  /\ dialog.kind = "confirm" /\ kind \in {"lift", "subtree"} /\ deletes < MaxDeletes
  /\ kind = "lift" \/ Hasty \/ (~fetching /\ \A c \in Call : calls[c].phase = "free")
  /\ \E c \in Call : SendDelete(c, kind, dialog.task,
                            {dialog.task} \cup (IF kind = "lift" THEN {} ELSE Under(list, dialog.task)))
  /\ dialog' = NoDialog /\ deletes' = deletes + 1
  /\ UNCHANGED <<unwanted, store, list, fetching, view, drag, toast, pending, shown, ops>>

\* Another page is opened: what still waits is deleted now.  (Each waiting
\* row needs a request of its own.)
Waiting == {i \in DOMAIN pending : pending[i].timer}
\* Faulty: the timers are only cleared.
LeavePageSilently ==
  /\ shown
  /\ calls' = [c \in Call |-> [calls[c] EXCEPT !.heard = FALSE]]
  /\ shown' = FALSE /\ drag' = NoDrag /\ dialog' = NoDialog /\ toast' = NoToast /\ pending' = <<>>
  /\ UNCHANGED <<unwanted, store, list, fetching, view, ops, deletes>>

LeavePage ==
  /\ shown
  /\ Cardinality(Waiting) <= Cardinality({c \in Call : calls[c].phase = "free"})
  /\ \E sent \in {f \in [Call -> Waiting \cup {0}] :
                    /\ \A c \in Call : f[c] # 0 => calls[c].phase = "free"
                    /\ \A i \in Waiting : Cardinality({c \in Call : f[c] = i}) = 1} :
       calls' = [c \in Call |->
         IF sent[c] = 0 THEN [calls[c] EXCEPT !.heard = FALSE]
         ELSE [Free EXCEPT !.kind = "delete", !.task = pending[sent[c]].task, !.wants = {pending[sent[c]].task},
                           !.phase = "sent"]]
  /\ shown' = FALSE /\ drag' = NoDrag /\ dialog' = NoDialog /\ toast' = NoToast /\ pending' = <<>>
  /\ UNCHANGED <<unwanted, store, list, fetching, view, ops, deletes>>

(* ------------------------------- the server ------------------------------- *)
Without(tasks, gone) == [t \in DOMAIN tasks \ gone |-> tasks[t]]

\* delete_task with children=lift: the subtasks take the task's place.
Lifted(tasks, t) ==
  LET p == tasks[t].up
      all == Siblings(tasks, p)
      at == IndexOf(all, t)
      placed == SubSeq(all, 1, at) \o Siblings(tasks, t) \o SubSeq(all, at + 2, Len(all))
      raised == [c \in DOMAIN tasks |-> IF tasks[c].up = t THEN [tasks[c] EXCEPT !.up = p] ELSE tasks[c]] IN
  Without(IF HasKids(tasks, t) THEN Numbered(raised, placed) ELSE tasks, {t})

Legal(c) ==
  LET t == calls[c].task
      p == calls[c].to.up IN
  /\ t \in DOMAIN store
  /\ calls[c].kind \in {"move", "undo"} =>
       ~store[t].done /\ (p # Null => p \in DOMAIN store /\ ~store[p].done /\ p # t /\ p \notin Under(store, t))
  /\ calls[c].kind = "complete" => ~store[t].done /\ Under(store, t) \subseteq DoneIn(store)
  /\ calls[c].kind \in {"reopen", "undone"} => store[t].done
  /\ calls[c].kind = "delete" => ~HasKids(store, t)

SetDone(tasks, ts, to) == [s \in DOMAIN tasks |-> IF s \in ts THEN [tasks[s] EXCEPT !.done = to] ELSE tasks[s]]

Applied(kind, t, to) ==
  LET dn == DoneIn(store)
      up == Parents(store) IN
  \/ kind \in {"move", "undo"} /\ store' = Moved(store, t, to.up, to.index)
  \/ kind = "complete" /\ store' = SetDone(store, {t} \cup FinishedAncestors(up, dn, t), TRUE)
  \/ kind \in {"reopen", "undone"} /\ store' = SetDone(store, Reopened(up, dn, t), FALSE)
  \/ kind = "delete" /\ store' = Without(store, {t})
  \/ kind = "lift" /\ store' = Lifted(store, t)
  \/ kind = "subtree" /\ store' = Without(store, {t} \cup Under(store, t))

\* What there is, as it will be shown.
Content == Arrangement(Loaded(store))

Apply(c) ==
  LET seen == calls[c].kind = "complete" \/ (calls[c].kind = "move" /\ Arrangement(calls[c].snapshot) = Content) IN
  /\ calls[c].phase = "sent" /\ Legal(c)
  /\ Applied(calls[c].kind, calls[c].task, calls[c].to)
  /\ calls' = [calls EXCEPT ![c].phase = "applied",
                            ![c].before = IF seen THEN Content ELSE @,
                            ![c].after = IF seen THEN Content' ELSE @]
  /\ UNCHANGED <<unwanted, list, fetching, view, drag, dialog, toast, pending, shown, ops, deletes>>

\* Refused: not legal any more, a dependency or a series is in the way, or
\* the request does not arrive.
Refuse(c) ==
  /\ calls[c].phase = "sent"
  /\ calls' = [calls EXCEPT ![c].phase = "refused"]
  /\ UNCHANGED <<unwanted, store, list, fetching, view, drag, dialog, toast, pending, shown, ops, deletes>>

NotPending(t) ==
  IF t \in Hidden THEN RemoveAt(pending, CHOOSE i \in DOMAIN pending : pending[i].task = t) ELSE pending

Answered(c) ==
  LET call == calls[c] IN
  /\ call.phase = "applied"
  /\ calls' = [calls EXCEPT ![c] = Free]
  /\ fetching' = TRUE
  /\ toast' = IF call.kind \in {"move", "complete"} /\ shown
              THEN [kind |-> call.kind, task |-> call.task, from |-> call.from,
                    before |-> call.before, after |-> call.after]
              ELSE toast
  /\ pending' = IF call.kind = "delete" /\ call.heard THEN NotPending(call.task) ELSE pending
  /\ UNCHANGED <<unwanted, store, list, view, drag, dialog, shown, ops, deletes>>

\* A refused move is taken back; then the list is fetched.
Failed(c) ==
  LET call == calls[c] IN
  /\ call.phase = "refused"
  /\ calls' = [calls EXCEPT ![c] = Free]
  /\ IF call.kind \in {"move", "undo"} THEN list' = call.snapshot /\ fetching' = TRUE
     ELSE UNCHANGED <<list, fetching>>
  /\ pending' = IF call.kind = "delete" /\ call.heard THEN NotPending(call.task) ELSE pending
  /\ unwanted' = IF call.kind = "delete" THEN unwanted \ {call.task} ELSE unwanted
  /\ UNCHANGED <<store, view, drag, dialog, toast, shown, ops, deletes>>

Fetched ==
  /\ fetching
  /\ list' = Loaded(store) /\ fetching' = FALSE
  /\ UNCHANGED <<unwanted, store, calls, view, drag, dialog, toast, pending, shown, ops, deletes>>

\* The settings name another active project: its path is opened, once.
ActiveChanges(t) ==
  /\ shown /\ ops < MaxOps /\ ops' = ops + 1
  /\ t \in ((DOMAIN list \ DoneIn(list)) \cup {Null}) \cap (Active \ {view.active})
  /\ view' = [view EXCEPT !.active = t, !.collapsed = @ \ (IF t = Null THEN {} ELSE ToSet(list[t].path))]
  /\ UNCHANGED <<unwanted, store, list, fetching, calls, drag, dialog, toast, pending, shown, deletes>>

AtHand(choices) == IF Ready THEN choices ELSE {}
AtTheTree ==
  \/ ArrowDown \/ ArrowUp \/ ArrowLeft
  \/ \E i \in AtHand(DOMAIN Items) : PickRow(i) \/ ToggleDone(i)
  \/ \E kind \in AtHand({"task", "split", "move"}) : OpenSelected(kind)
  \/ \E t \in AtHand(Task) : Toggle(t)
  \/ ToggleShowDone \/ ToggleFilter \/ ToggleSort
  \/ Tab \/ ShiftTab \/ \E direction \in AtHand({-1, 1}) : AltArrow(direction)
  \/ \E key \in AtHand(Sortable) : DragStart(key)
  \/ DeleteKey

InDialogs ==
  \/ CloseDialog \/ (\E direction \in {-1, 1} : OpenNeighbour(direction))
  \/ (\E p \in Task \cup {Null} : PickProject(p))
  \/ (\E kind \in {"lift", "subtree"} : DeleteParent(kind))

Next ==
  \/ AtTheTree \/ InDialogs
  \/ DragOver \/ HoverOpens \/ DragEnd
  \/ Undo \/ ToastGoes \/ UndoDelete \/ (\E i \in DOMAIN pending : TimerFires(i))
  \/ LeavePage \/ (\E t \in Active : ActiveChanges(t))
  \/ (\E c \in Call : Apply(c) \/ Refuse(c) \/ Answered(c) \/ Failed(c)) \/ Fetched

Spec == Init /\ [][Next]_vars

(* ------------------------------- properties ------------------------------- *)
\* What the browser shows before the answer (applyMove) is what the server
\* made of the move (move_task): when the list comes, no row jumps.
NothingJumps ==
  \A c \in Call :
    LET call == calls[c] IN
    call.kind = "move" /\ call.phase = "applied" /\ call.before = Arrangement(call.snapshot)
    /\ Content = call.after /\ list = ApplyMove(call.snapshot, call.task, call.to.up, call.to.index)
      => Arrangement(list) = Content

\* Nothing is deleted that the user did not delete, took back in time, or was
\* told is still there: neither a row nor what is below it.
DeletedOnlyIfWanted ==
  [][\A t \in DOMAIN store \ DOMAIN store' :
       \E c \in Call : t \in calls[c].wants /\ (calls[c].kind = "delete" => t \in unwanted)]_vars

\* A deletion is not forgotten: its timer runs or its request is under way,
\* also after the page was left; and it leaves nothing of what it is about.
DeletionsGoOn ==
  /\ \A t \in DOMAIN store \cap unwanted :
       \/ \E i \in DOMAIN pending : pending[i].task = t /\ pending[i].timer
       \/ \E c \in UnderWay({"delete"}) : calls[c].task = t
  /\ \A c \in Call : calls[c].phase = "applied" => calls[c].wants \cap DOMAIN store = {}

\* A dropped row lies where it was shown while it was dragged: as deep, and
\* right below the row it was shown below (a collapsed parent opens: below its
\* subtasks; the active project stays on top).
DropLandsWhereShown ==
  [][drag # NoDrag /\ calls' # calls /\ drag' = NoDrag /\ shown' =>
       \E drop \in {Projection}, rows \in {TaskRows'} :
         LET at == RowIndex(rows, drag.active) + 1 IN
         /\ at > 0 /\ rows[at].depth = drop.depth
         /\ \/ drop.above = (IF at = 1 THEN Null ELSE rows[at - 1].task)
            \/ drop.up \in view.collapsed
            \/ view.active # Null /\ drop.depth = 0]_vars

\* Undo puts the task back exactly where it was, and reopens exactly what
\* was completed along, if nothing else has changed.
UndoRestores ==
  [][\A c \in Call :
       calls[c].phase = "sent" /\ calls'[c].phase = "applied" /\ calls[c].kind \in {"undo", "undone"}
       /\ calls[c].after = Content /\ calls[c].after # calls[c].before
         => Content' = calls[c].before]_vars

=============================================================================
