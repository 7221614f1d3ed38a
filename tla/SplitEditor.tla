----------------------------- MODULE SplitEditor -----------------------------
(* The split editor (SplitEditor.tsx, OutlineRows.tsx, outline.ts,           *)
(* splitMath.ts, splitPayload.ts): a task's parts are a flat list of rows    *)
(* with a depth; rows without an estimate of their own share what is left of *)
(* the budget above them; Save sends the whole outline, after it has made    *)
(* the tags that do not exist yet.                                           *)
EXTENDS Integers, Sequences, FiniteSets, SequencesExt

CONSTANTS Part,        \* the subtasks the task has
          NoPart,      \* a row that is no subtask yet
          Outlines,    \* how they may be arranged: sequences of <<part, depth, minutes, done>>
          Typed,       \* what is typed as an estimate, in minutes
          Estimates,   \* the task's own estimate, None if it has none
          Spent,       \* minutes already worked on the task itself
          Default,     \* the user's default duration
          TokenTime,   \* the estimate typed into a name, as in "CAD 3h"
          MaxRows, MaxEdits, MaxSaves

None == -1
Nonsense == -2   \* what is typed as a duration and is none
STEP == 15

VARIABLES rows,      \* the outline on screen
          estimate,  \* the estimate field: minutes, None if empty, or Nonsense
          spent,
          focused,   \* the row being typed in, 0 if none
          saves,     \* the saves under way
                  open, edits

vars == <<rows, estimate, spent, focused, saves, open, edits>>

\* A row: its subtask, its name ("tokens": a name with an estimate and a new
\* tag behind it, "broken": one with something the editor does not know), its
\* estimate (None: a share of the rest) and whether it is marked as wrong.
NewRow(depth, text) ==
  [part |-> NoPart, text |-> text, minutes |-> None, depth |-> depth, done |-> FALSE, tag |-> FALSE, error |-> FALSE]
RowsFromTasks(outline) ==
  [i \in DOMAIN outline |->
     [NewRow(outline[i][2], "plain") EXCEPT !.part = outline[i][1], !.minutes = outline[i][3], !.done = outline[i][4]]]

(* ------------------------------ the outline ------------------------------ *)
SubtreeEnd(list, i) ==
  LET next == {j \in (i + 1)..Len(list) : list[j].depth <= list[i].depth}
  IN IF next = {} THEN Len(list) + 1 ELSE CHOOSE j \in next : \A k \in next : j <= k
HasChildren(list, i) == i < Len(list) /\ list[i + 1].depth > list[i].depth

Slice(list, from, until) == SubSeq(list, from, until - 1)
InsertAfter(list, i) ==
  LET at == SubtreeEnd(list, i) IN InsertAt(list, at, NewRow(list[i].depth, "empty"))

ShiftBlock(list, i, delta) ==
  [j \in DOMAIN list |-> IF j \in i..(SubtreeEnd(list, i) - 1) THEN [list[j] EXCEPT !.depth = @ + delta] ELSE list[j]]
CanIndent(list, i) == i > 1 /\ list[i - 1].depth >= list[i].depth
Indent(list, i) == IF CanIndent(list, i) THEN ShiftBlock(list, i, 1) ELSE list
Outdent(list, i) == IF list[i].depth > 0 THEN ShiftBlock(list, i, -1) ELSE list

\* Two neighbouring blocks change places; below is the first row of the lower.
Swapped(list, above, below) ==
  Slice(list, 1, above) \o Slice(list, below, SubtreeEnd(list, below)) \o Slice(list, above, below)
    \o Slice(list, SubtreeEnd(list, below), Len(list) + 1)
SiblingAbove(list, i) ==
  {j \in 1..(i - 1) : list[j].depth = list[i].depth /\ \A k \in j..(i - 1) : list[k].depth >= list[i].depth
                                                       /\ (k > j => list[k].depth > list[i].depth)}
MoveUp(list, i) == IF SiblingAbove(list, i) = {} THEN list ELSE Swapped(list, CHOOSE j \in SiblingAbove(list, i) : TRUE, i)
MoveDown(list, i) ==
  LET end == SubtreeEnd(list, i) IN
  IF end <= Len(list) /\ list[end].depth = list[i].depth THEN Swapped(list, i, end) ELSE list

\* Pasted lines replace an empty new row, else they follow the row itself.
Pasted(list, i, lines) ==
  LET kept == IF list[i].text = "empty" /\ list[i].part = NoPart THEN i - 1 ELSE i
      new == [k \in DOMAIN lines |-> NewRow(list[i].depth + lines[k], "plain")]
  IN SubSeq(list, 1, kept) \o new \o SubSeq(list, i + 1, Len(list))

\* Leaving a row takes the tokens out of its name.
Committed(list, i) ==
  LET row == list[i] IN
  [list EXCEPT ![i] =
     IF row.text = "tokens" THEN [row EXCEPT !.text = "plain", !.minutes = TokenTime, !.tag = TRUE, !.error = FALSE]
     ELSE [row EXCEPT !.error = (row.text = "broken")]]

(* --------------------------- how the numbers add up --------------------------- *)
\* The row a row belongs to: the nearest one above with a lower depth, else 0.
ParentOf(list, i) ==
  LET above == {j \in 1..(i - 1) : list[j].depth < list[i].depth}
  IN IF above = {} THEN 0 ELSE CHOOSE j \in above : \A k \in above : k <= j
PartsOf(list, p) == {i \in DOMAIN list : ParentOf(list, i) = p}

SumOver(values, set) == SumFunctionOnSet(values, set)
Explicit(list, set) == [i \in set |-> IF list[i].minutes = None THEN 0 ELSE list[i].minutes]
Ghosts(list, set) == {i \in set : list[i].minutes = None}
Unassigned(list, set, available) == available - SumOver(Explicit(list, set), set)

\* Faulty: every share is rounded to the step, and what is left below one is lost.
GhostShareRounded(list, set, available, i) ==
  LET count == Cardinality(Ghosts(list, set))
      rest == Unassigned(list, set, available)
      rank == Cardinality({j \in Ghosts(list, set) : j < i})
      base == ((rest \div STEP) \div count) * STEP
      left == rest - base * count
  IN IF rest <= 0 THEN Default
     ELSE IF rest < STEP * count THEN STEP
     ELSE base + (IF rank < left \div STEP THEN STEP ELSE 0)

\* What is left is shared in steps of a quarter of an hour; the first shares
\* take the steps that are over, the very first the minutes below one.
GhostShare(list, set, available, i) ==
  LET count == Cardinality(Ghosts(list, set))
      rest == Unassigned(list, set, available)
      rank == Cardinality({j \in Ghosts(list, set) : j < i})
      base == ((rest \div STEP) \div count) * STEP
      left == rest - base * count
  IN IF rest <= 0 THEN Default
     ELSE IF rest < STEP * count THEN STEP
     ELSE base + (IF rank < left \div STEP THEN STEP ELSE 0) + (IF rank = 0 THEN left % STEP ELSE 0)

\* Minutes per row: its own, or its share of what its parent has.
Budgets(list, available) ==
  LET budget[i \in DOMAIN list] ==
        LET p == ParentOf(list, i) IN
        IF list[i].minutes # None THEN list[i].minutes
        ELSE GhostShare(list, PartsOf(list, p), IF p = 0 THEN available ELSE budget[p], i)
  IN budget

EstimateIn(field) == IF field \in Nat THEN field ELSE Default
Available(field, worked) == IF EstimateIn(field) > worked THEN EstimateIn(field) - worked ELSE 0
PartsTotal(list, available) == SumOver(Budgets(list, available), PartsOf(list, 0))
(* ------------------------------- the request ------------------------------- *)
\* Faulty: an empty new row is dropped with everything below it.
WorthSendingItself(list, i) == list[i].text # "empty" \/ list[i].part # NoPart

WorthSending(list, i) == list[i].text # "empty" \/ list[i].part # NoPart \/ PartsOf(list, i) # {}

RowsToRequest(list, available) ==
  LET listed[i \in DOMAIN list] == WorthSending(list, i) /\ (ParentOf(list, i) # 0 => listed[ParentOf(list, i)])
      budget == Budgets(list, available)
  IN [i \in {j \in DOMAIN list : listed[j]} |->
        [part |-> list[i].part, under |-> ParentOf(list, i), duration |-> IF list[i].done THEN None ELSE budget[i]]]

(* -------------------------------- the actions -------------------------------- *)
Init ==
  /\ \E outline \in Outlines :
       rows = IF outline = <<>> THEN <<NewRow(0, "empty")>> ELSE RowsFromTasks(outline)
  /\ estimate \in Estimates
  /\ spent \in Spent /\ focused = 0 /\ saves = <<>> /\ open = TRUE /\ edits = 0

AtRow(i) == open /\ focused = i /\ i > 0 /\ ~rows[i].done
Edit(list) == rows' = list /\ edits < MaxEdits /\ edits' = edits + 1
Elsewhere == UNCHANGED <<estimate, spent, saves, open>>

\* Clicking a row, or leaving the rows: the row left has its tokens taken out.
Focus(i) ==
  /\ open /\ i # focused /\ (i > 0 => ~rows[i].done)
  /\ rows' = IF focused = 0 THEN rows ELSE Committed(rows, focused)
  /\ focused' = i
  /\ UNCHANGED edits /\ Elsewhere

TypeName(text) ==
  /\ AtRow(focused) /\ text # rows[focused].text
  /\ Edit([rows EXCEPT ![focused].text = text, ![focused].error = FALSE])
  /\ UNCHANGED focused /\ Elsewhere

TypeEstimate(i, minutes) ==
  /\ open /\ ~rows[i].done
  /\ Edit([rows EXCEPT ![i].minutes = IF minutes \in Nat THEN minutes ELSE None,
                       ![i].error = (minutes = Nonsense)])
  /\ UNCHANGED focused /\ Elsewhere

Enter ==
  /\ AtRow(focused) /\ Len(rows) < MaxRows
  /\ Edit(InsertAfter(Committed(rows, focused), focused))
  /\ focused' = SubtreeEnd(rows, focused)
  /\ Elsewhere

Tab == AtRow(focused) /\ Edit(Indent(Committed(rows, focused), focused)) /\ UNCHANGED focused /\ Elsewhere
ShiftTab == AtRow(focused) /\ Edit(Outdent(Committed(rows, focused), focused)) /\ UNCHANGED focused /\ Elsewhere

AltUp ==
  /\ AtRow(focused) /\ SiblingAbove(rows, focused) # {}
  /\ Edit(MoveUp(Committed(rows, focused), focused))
  /\ focused' = CHOOSE j \in SiblingAbove(rows, focused) : TRUE
  /\ Elsewhere
AltDown ==
  LET end == SubtreeEnd(rows, focused) IN
  /\ AtRow(focused) /\ end <= Len(rows) /\ rows[end].depth = rows[focused].depth
  /\ Edit(MoveDown(Committed(rows, focused), focused))
  /\ focused' = focused + SubtreeEnd(rows, end) - end
  /\ Elsewhere

\* A row that is a subtask stays, and so does one with rows below it.
Backspace ==
  /\ AtRow(focused) /\ rows[focused].text = "empty" /\ rows[focused].part = NoPart /\ Len(rows) > 1
  /\ ~HasChildren(rows, focused)
  /\ Edit(RemoveAt(rows, focused))
  /\ focused' = IF focused > 2 THEN focused - 1 ELSE IF rows'[1].done THEN 0 ELSE 1
  /\ Elsewhere

Paste(lines) ==
  /\ AtRow(focused) /\ Len(rows) + Len(lines) <= MaxRows
  /\ Edit(Pasted(rows, focused, lines))
  /\ focused' = focused + Len(lines) - (IF rows[focused].text = "empty" /\ rows[focused].part = NoPart THEN 1 ELSE 0)
  /\ Elsewhere

TypeTotal(field) ==
  /\ open /\ focused = 0 /\ field # estimate /\ estimate' = field
  /\ edits < MaxEdits /\ edits' = edits + 1
  /\ UNCHANGED <<rows, spent, focused, saves, open>>

\* "Set estimate to the sum of the parts", "Raise estimate to ...".
AdoptSum ==
  /\ open /\ focused = 0
  /\ LET total == PartsTotal(rows, Available(estimate, spent)) IN
     total > 0 /\ estimate' = total + spent
  /\ UNCHANGED <<rows, spent, focused, saves, open, edits>>

\* Save is off while the outline is being sent, not while its tags are made.
CanSave ==
  /\ open /\ focused = 0 /\ estimate # Nonsense
  /\ \A i \in DOMAIN rows : ~rows[i].error
  /\ \A s \in DOMAIN saves : saves[s].phase = "tags"
Unnamed == \E i \in DOMAIN rows : rows[i].part # NoPart /\ ~rows[i].done /\ rows[i].text = "empty"

\* An existing part without a name refuses the save.
Save ==
  /\ CanSave /\ Len(saves) < MaxSaves /\ ~Unnamed
  /\ saves' = Append(saves, [phase |-> "tags", request |-> RowsToRequest(rows, Available(estimate, spent))])
  /\ UNCHANGED <<rows, estimate, spent, focused, open, edits>>

TagsMade(s) ==
  /\ saves[s].phase = "tags"
  /\ saves' = [saves EXCEPT ![s].phase = "sent"]
  /\ UNCHANGED <<rows, estimate, spent, focused, open, edits>>

\* The tags or the outline are refused: what was typed stays.
SaveFails(s) == saves' = RemoveAt(saves, s) /\ UNCHANGED <<rows, estimate, spent, focused, open, edits>>

Closed == open' = FALSE /\ rows' = <<>> /\ focused' = 0 /\ estimate' = None /\ UNCHANGED <<spent, edits>>
Saved(s) == saves[s].phase = "sent" /\ saves' = RemoveAt(saves, s) /\ Closed
Cancel == open /\ Closed /\ UNCHANGED saves

Next ==
  \/ \E i \in 0..Len(rows) : Focus(i)
  \/ \E text \in {"empty", "plain", "tokens", "broken"} : TypeName(text)
  \/ \E i \in DOMAIN rows, minutes \in Typed \cup {Nonsense, None} : TypeEstimate(i, minutes)
  \/ Enter \/ Tab \/ ShiftTab \/ AltUp \/ AltDown \/ Backspace
  \/ \E lines \in {<<0, 0>>, <<0, 1>>} : Paste(lines)
  \/ \E field \in Typed \cup {Nonsense, None} : TypeTotal(field)
  \/ AdoptSum \/ Save \/ Cancel
  \/ \E s \in DOMAIN saves : TagsMade(s) \/ SaveFails(s) \/ Saved(s)

Spec == Init /\ [][Next]_vars

(* ------------------------------- properties ------------------------------- *)
\* The server deletes the subtasks a request leaves out.  Whatever was done to
\* the rows, a request has every subtask once, below rows it has as well.
NoPartIsLost ==
  open =>
    \A s \in DOMAIN saves :
      LET sent == saves[s].request IN
      /\ \A i \in DOMAIN sent : sent[i].under \in DOMAIN sent \cup {0}
      /\ \A i, j \in DOMAIN sent : sent[i].part = sent[j].part => i = j \/ sent[i].part = NoPart
      /\ {sent[i].part : i \in DOMAIN sent} \ {NoPart} = {rows[i].part : i \in DOMAIN rows} \ {NoPart}

\* "Ghosts always add up exactly": while there is a step for each of them, the
\* rows below one row have together what it has, and no share is nothing.
SharesAddUp ==
  LET budget == Budgets(rows, Available(estimate, spent)) IN
  /\ \A i \in Ghosts(rows, DOMAIN rows) : budget[i] > 0
  /\ \A p \in 0..Len(rows) :
       LET parts == PartsOf(rows, p)
           whole == IF p = 0 THEN Available(estimate, spent) ELSE budget[p]
       IN Ghosts(rows, parts) # {} /\ Unassigned(rows, parts, whole) >= STEP * Cardinality(Ghosts(rows, parts))
            => SumOver(budget, parts) = whole

=============================================================================
