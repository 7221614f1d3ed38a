----------------------------- MODULE OutlineTree -----------------------------
(* The rows of the Tasks tab and the moves in it: utils/outlineTree.ts,      *)
(* utils/treeDnd.ts, and move_task of services/tree.py, which must agree.    *)
(*                                                                           *)
(* A list of tasks is a function from tasks to records: up (the parent or    *)
(* Null), order (among the siblings), done, and path (the ancestors, root    *)
(* first, which the browser gets with each task and updates itself).         *)
EXTENDS TreeShape, Integers, Sequences, SequencesExt

Parents(list) == [t \in Task |-> IF t \in DOMAIN list THEN list[t].up ELSE Null]
DoneIn(list) == {t \in DOMAIN list : list[t].done}

NoMove == [up |-> Null, index |-> -1]
IsMove(m) == m.index \in Nat

(* ------------------------------ siblings ------------------------------ *)
\* Of some tasks those before t, and all of them in order.
Before(list, some, t) == {s \in some : list[s].order < list[t].order}
InOrder(list, some) ==
  [i \in 1..Cardinality(some) |-> CHOOSE t \in some : Cardinality(Before(list, some, t)) = i - 1]

KidsOf(list, p) == {t \in DOMAIN list : list[t].up = p}
Siblings(list, p) == InOrder(list, KidsOf(list, p))
SiblingsWithout(list, p, t) == InOrder(list, KidsOf(list, p) \ {t})
OpenSiblings(list, p) == InOrder(list, {t \in KidsOf(list, p) : ~list[t].done})

\* Position counted from 0 as in the code; -1 when it is not there.
IndexOf(seq, x) == IF \E i \in DOMAIN seq : seq[i] = x THEN (CHOOSE i \in DOMAIN seq : seq[i] = x) - 1 ELSE -1
At(seq, i) == IF i + 1 \in DOMAIN seq THEN seq[i + 1] ELSE Null
Inserted(seq, i, x) == InsertAt(seq, (IF i > Len(seq) THEN Len(seq) ELSE i) + 1, x)

(* -------------------------------- a move -------------------------------- *)
\* _renumber: the tasks of a line are numbered from 0.
Numbered(list, line) ==
  [t \in DOMAIN list |-> IF t \in ToSet(line) THEN [list[t] EXCEPT !.order = IndexOf(line, t)] ELSE list[t]]

\* move_task at the server: both sibling lists are numbered.
Moved(list, t, p, i) ==
  LET placed == Inserted(SiblingsWithout(list, p, t), i, t)
      left == IF list[t].up = p THEN <<>> ELSE SiblingsWithout(list, list[t].up, t) IN
  Numbered(Numbered([list EXCEPT ![t].up = p], placed), left)

\* Faulty: what is below the task keeps its ancestors.
ApplyMoveShallow(list, t, p, i) ==
  [s \in DOMAIN list |-> [Moved(list, t, p, i)[s] EXCEPT
     !.path = IF s # t THEN @ ELSE IF p \notin DOMAIN list THEN <<>> ELSE Append(list[p].path, p)]]

\* applyMove: the same in the browser, for the list shown until the answer
\* comes; it rewrites the ancestors of the whole subtree.
ApplyMove(list, t, p, i) ==
  LET base == IF p \notin DOMAIN list THEN <<>> ELSE Append(list[p].path, p)
      PathOf(s) == IF s = t THEN base
                   ELSE IF t \in ToSet(list[s].path)
                   THEN base \o SubSeq(list[s].path, Len(list[t].path) + 1, Len(list[s].path))
                   ELSE list[s].path IN
  IF t \notin DOMAIN list THEN list
  ELSE [s \in DOMAIN list |-> [Moved(list, t, p, i)[s] EXCEPT !.path = PathOf(s)]]

\* The ancestors as the server's answer lists them.
PathAt(up, s) ==
  LET above == Ancestors(up, s) IN
  [i \in 1..Cardinality(above) |-> CHOOSE a \in above : Cardinality(Ancestors(up, a)) = i - 1]
Loaded(store) == [s \in DOMAIN store |-> [store[s] EXCEPT !.path = PathAt(Parents(store), s)]]

\* The tree as a user sees it: who is below whom, in which order, under which
\* path, and what is done.
Arrangement(list) ==
  [rows |-> [p \in DOMAIN list \cup {Null} |-> Siblings(list, p)],
   done |-> DoneIn(list),
   paths |-> [t \in DOMAIN list |-> list[t].path]]

(* ------------------------- moves by key and by button ------------------------- *)
\* Faulty: the stored number, which has gaps after a deletion.
StoredPosition(list, t) == [up |-> list[t].up, index |-> list[t].order]

CurrentPosition(list, t) ==
  [up |-> list[t].up,
   index |-> Cardinality(Before(list, KidsOf(list, list[t].up), t))]

AppendTarget(list, t, p) == [up |-> p, index |-> Len(SiblingsWithout(list, p, t))]

\* Tab: into the previous open sibling, after its subtasks.
IndentMove(list, t) ==
  LET open == OpenSiblings(list, list[t].up)
      above == At(open, IndexOf(open, t) - 1) IN
  IF above = Null THEN NoMove ELSE [up |-> above, index |-> Len(Siblings(list, above))]

\* Shift+Tab: one level up, right after the old parent.
OutdentMove(list, t) ==
  LET p == list[t].up IN
  IF p = Null THEN NoMove
  ELSE [up |-> list[p].up, index |-> IndexOf(SiblingsWithout(list, list[p].up, t), p) + 1]

\* Alt+arrow: past the neighbouring open sibling.
NeighbourMove(list, t, direction) ==
  LET p == list[t].up
      open == OpenSiblings(list, p)
      neighbour == At(open, IndexOf(open, t) + direction)
      position == IndexOf(SiblingsWithout(list, p, t), neighbour) IN
  IF neighbour = Null THEN NoMove
  ELSE [up |-> p, index |-> IF direction > 0 THEN position + 1 ELSE position]

(* --------------------------------- the rows --------------------------------- *)
\* kids: the row has subtasks to show; open: they are shown.
Row(kind, t, depth, kids, open) == [kind |-> kind, task |-> t, depth |-> depth, kids |-> kids, open |-> open]
Key(row) == <<row.kind, row.task>>
NoKey == <<"none", Null>>
RowIndex(rows, key) == IndexOf([i \in DOMAIN rows |-> Key(rows[i])], key)

\* outlineItems: depth first, the active project's top-level task first, a
\* Rest row after the subtasks of each task of resting; greyed: shown only
\* for subtasks that pass the filter.
OutlineItems(list, active, collapsed, showDone, resting, greyed) ==
  LET kids == [p \in DOMAIN list \cup {Null} |-> SelectSeq(Siblings(list, p), LAMBDA s : showDone \/ ~list[s].done)]
      rest(t, depth) == IF ~list[t].done /\ t \notin greyed /\ t \in resting
                        THEN <<Row("rest", t, depth, FALSE, TRUE)>> ELSE <<>>
      visit[t \in DOMAIN list, depth \in 0..Cardinality(Task)] ==
        <<Row("task", t, depth, kids[t] # <<>>, t \notin collapsed)>>
        \o (IF kids[t] = <<>> \/ t \in collapsed THEN <<>>
            ELSE FlattenSeq([i \in DOMAIN kids[t] |-> visit[kids[t][i], depth + 1]]) \o rest(t, depth + 1))
      activeRoot == IF active \notin DOMAIN list THEN Null
                    ELSE IF list[active].path = <<>> THEN active ELSE list[active].path[1]
      tops == kids[Null]
      roots == SelectSeq(tops, LAMBDA t : t = activeRoot) \o SelectSeq(tops, LAMBDA t : t # activeRoot)
  IN FlattenSeq([i \in DOMAIN roots |-> visit[roots[i], 0]])

\* inboxItems: the open tasks without an estimate (in tree order here; the
\* code sorts them by the names of their projects).
InboxItems(list, unestimated) ==
  LET waiting == SelectSeq(OutlineItems(list, Null, {}, FALSE, {}, {}), LAMBDA r : r.task \in unestimated) IN
  [i \in DOMAIN waiting |-> Row("task", waiting[i].task, 0, FALSE, TRUE)]

(* ------------------------------ drag and drop ------------------------------ *)
NoDrop == [depth |-> -1, up |-> Null, index |-> -1, changed |-> FALSE, above |-> Null]

\* The rows under the one at i: hidden while it is dragged.
Subtree(rows, i) ==
  {j \in DOMAIN rows : j > i /\ \A k \in (i + 1)..j : rows[k].depth > rows[i].depth}

Bound(low, x, high) ==
  LET capped == IF x > high THEN high ELSE x IN IF capped < low THEN low ELSE capped

\* The last row before position i at one of these depths, Null if there is none.
LastBefore(rows, i, depths) ==
  LET before == {j \in DOMAIN rows : j < i /\ rows[j].depth \in depths} IN
  IF before = {} THEN Null ELSE rows[CHOOSE j \in before : \A k \in before : k <= j]

\* Faulty: counted with the task itself.
DropIndexWithItself(list, up, t, after, closed) ==
  IF after # Null THEN IndexOf(Siblings(list, up), after) + 1
  ELSE IF closed THEN Len(Siblings(list, up)) ELSE 0

\* Right below the sibling shown above; below a collapsed parent at the end.
DropIndex(list, up, t, after, closed) ==
  IF after # Null THEN IndexOf(SiblingsWithout(list, up, t), after) + 1
  ELSE IF closed THEN Len(SiblingsWithout(list, up, t)) ELSE 0

\* The rows while the one at a is dragged: without those under it.
Dragging(all, a) ==
  LET hidden == Cardinality(Subtree(all, a)) IN
  [i \in 1..(Len(all) - hidden) |-> IF i <= a THEN all[i] ELSE all[i + hidden]]

\* The row that was moved to position over comes to stand at this depth, below
\* that parent and after that sibling.
DropAt(list, moved, over, depth, parent, after) ==
  LET t == moved[over].task
      up == IF parent = Null THEN Null ELSE parent.task
      index == DropIndex(list, up, t, after, parent # Null /\ ~parent.open) IN
  IF depth > 0 /\ parent = Null THEN NoDrop
  ELSE [depth |-> depth, up |-> up, index |-> index,
        changed |-> [up |-> up, index |-> index] # CurrentPosition(list, t),
        above |-> IF over = 1 THEN Null ELSE moved[over - 1].task]

\* The sibling shown right above: no row in between is higher up.
Above(level, depth) == IF level = Null THEN Null ELSE IF level.depth = depth THEN level.task ELSE Null

DropDepth(list, moved, over, wanted) ==
  Bound(IF over = Len(moved) THEN 0 ELSE moved[over + 1].depth,
        wanted,
        IF over = 1 THEN 0 ELSE moved[over - 1].depth + (IF list[moved[over - 1].task].done THEN 0 ELSE 1))

DropWithin(list, moved, over, depth) ==
  DropAt(list, moved, over, depth, IF depth = 0 THEN Null ELSE LastBefore(moved, over, {depth - 1}),
         Above(LastBefore(moved, over, 0..depth), depth))

DropOnto(list, moved, over, wanted) == DropWithin(list, moved, over, DropDepth(list, moved, over, wanted))

\* projectDrop: row a is dragged over row over, offset levels to the right.
ProjectDrop(items, list, activeKey, overKey, offset) ==
  LET all == SelectSeq(items, LAMBDA r : r.kind = "task")
      a == RowIndex(all, activeKey) + 1
      Onto(rows, over) ==
        IF over = 0 THEN NoDrop
        ELSE DropOnto(list, InsertAt(RemoveAt(rows, a), over, all[a]), over, all[a].depth + offset)
      Over(rows) == Onto(rows, RowIndex(rows, overKey) + 1)
  IN IF a = 0 THEN NoDrop ELSE Over(Dragging(all, a))
=============================================================================
