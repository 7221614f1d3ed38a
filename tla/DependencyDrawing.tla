--------------------------- MODULE DependencyDrawing ---------------------------
(* Drawing a line from one row to another (useDependencyDrawing.ts): a mode  *)
(* of the Tasks tab, switched by a button or a tap on AltGr, on while AltGr  *)
(* is held, stopped by Esc; and, without AltGr, of the week's "Merge tasks". *)
(* A line makes the task it starts on depend on the one it ends on           *)
(* (OutlineView.linkTasks), which the message offers to undo.                *)
EXTENDS Integers, Sequences, FiniteSets, SequencesExt

CONSTANTS Row,        \* the rows
          NoRow,      \* no row: between the rows, or no line
          AltGrs,     \* whether AltGr is listened to
          MaxLinks

VARIABLES withAltGr,
          active,     \* the mode is on
          altGr,      \* the hook's note of AltGr held: the mode before, and whether a line was begun
          start,      \* the row a line is being drawn from
          over,       \* the row it would end on
          shown,      \* the rows there are
          requests,   \* links on their way, and links being undone
          toast,      \* the link that can be undone, or the message that one was refused
          links,
          held,       \* the key is down in this window, and was not pressed to type
          chosen      \* the mode that was chosen last, but for the time AltGr is held

vars == <<withAltGr, active, altGr, start, over, shown, requests, toast, links, held, chosen>>

Up == [down |-> FALSE, before |-> FALSE, drew |-> FALSE]
NoToast == [kind |-> "none", from |-> NoRow, to |-> NoRow]

Init ==
  /\ withAltGr \in AltGrs
  /\ active = FALSE /\ altGr = Up /\ start = NoRow /\ over = NoRow
  /\ shown = Row /\ requests = <<>> /\ toast = NoToast /\ links = 0
  /\ held = FALSE /\ chosen = FALSE

Server == <<shown, requests, toast, links>>
StopLine == start' = NoRow /\ over' = NoRow

(* ------------------------------- the mode ------------------------------- *)
\* While AltGr is held the button counts for that time only.
Toggle ==
  /\ active' = ~active
  /\ IF active THEN StopLine ELSE UNCHANGED <<start, over>>
  /\ chosen' = IF altGr.down THEN chosen ELSE ~active
  /\ UNCHANGED <<withAltGr, altGr, held, Server>>

\* A repeated press, or one to type a character in a field, is not looked at.
AltGrDown ==
  /\ withAltGr /\ ~held /\ ~altGr.down
  /\ altGr' = [down |-> TRUE, before |-> active, drew |-> FALSE]
  /\ active' = TRUE /\ held' = TRUE
  /\ UNCHANGED <<withAltGr, start, over, chosen, Server>>

\* A tap switches the mode, a hold in which a line was begun leaves it as it was.
AltGrUp ==
  /\ held /\ held' = FALSE
  /\ altGr' = Up
  /\ active' = IF ~altGr.down THEN active ELSE IF altGr.drew THEN altGr.before ELSE ~altGr.before
  /\ chosen' = IF altGr.down /\ ~altGr.drew THEN ~chosen ELSE chosen
  /\ UNCHANGED <<withAltGr, start, over, Server>>

\* AltGr and a letter type a character: that was no tap.
OtherKey ==
  /\ altGr.down
  /\ active' = altGr.before /\ altGr' = Up
  /\ UNCHANGED <<withAltGr, start, over, held, chosen, Server>>

Escape ==
  /\ active \/ start # NoRow
  /\ StopLine /\ altGr' = Up /\ active' = FALSE
  /\ chosen' = FALSE
  /\ UNCHANGED <<withAltGr, held, Server>>

\* Faulty: the window loses the focus with AltGr down, and nothing is done.
BlurIgnored ==
  /\ held /\ held' = FALSE
  /\ UNCHANGED <<withAltGr, active, altGr, start, over, chosen, Server>>

\* The window loses the focus: the key goes up somewhere else.
Blur ==
  /\ held /\ held' = FALSE
  /\ active' = IF altGr.down THEN altGr.before ELSE active
  /\ altGr' = Up
  /\ UNCHANGED <<withAltGr, start, over, chosen, Server>>

(* ------------------------------- the line ------------------------------- *)
PointerDown(row) ==
  /\ active /\ start = NoRow /\ row \in shown
  /\ start' = row /\ over' = row
  /\ altGr' = IF altGr.down THEN [altGr EXCEPT !.drew = TRUE] ELSE altGr
  /\ UNCHANGED <<withAltGr, active, held, chosen, Server>>

PointerMove(row) ==
  /\ start # NoRow /\ row \in shown \cup {NoRow} /\ row # over
  /\ over' = row
  /\ UNCHANGED <<withAltGr, active, altGr, start, held, chosen, Server>>

\* A line between two rows that are still there links them.
PointerUp ==
  /\ start # NoRow /\ StopLine
  /\ IF over \in shown \ {start} /\ start \in shown
     THEN /\ links < MaxLinks /\ links' = links + 1
          /\ requests' = Append(requests, [kind |-> "link", from |-> start, to |-> over])
     ELSE UNCHANGED <<links, requests>>
  /\ UNCHANGED <<withAltGr, active, altGr, held, chosen, shown, toast>>

PointerCancel ==
  /\ start # NoRow /\ StopLine
  /\ UNCHANGED <<withAltGr, active, altGr, held, chosen, Server>>

(* ------------------------------- the links ------------------------------- *)
Mode == <<withAltGr, active, altGr, start, over, held, chosen>>

Linked(i, made) ==
  /\ requests[i].kind = "link"
  /\ toast' = [requests[i] EXCEPT !.kind = IF made THEN "undo" ELSE "refused"]
  /\ requests' = RemoveAt(requests, i)
  /\ UNCHANGED <<shown, links, Mode>>
UndoLink ==
  /\ toast.kind = "undo" /\ toast' = NoToast
  /\ requests' = Append(requests, [toast EXCEPT !.kind = "unlink"])
  /\ UNCHANGED <<shown, links, Mode>>
Unlinked(i, done) ==
  /\ requests[i].kind = "unlink" /\ requests' = RemoveAt(requests, i)
  /\ toast' = IF done THEN toast ELSE [requests[i] EXCEPT !.kind = "refused"]
  /\ UNCHANGED <<shown, links, Mode>>
ToastGoes == toast # NoToast /\ toast' = NoToast /\ UNCHANGED <<shown, requests, links, Mode>>

\* A task is completed or deleted somewhere else while a line is drawn.
RowGoes(row) ==
  /\ shown = Row /\ shown' = Row \ {row}
  /\ over' = IF over = row THEN NoRow ELSE over
  /\ UNCHANGED <<requests, toast, links, withAltGr, active, altGr, start, held, chosen>>

Next ==
  \/ Toggle \/ AltGrDown \/ AltGrUp \/ OtherKey \/ Escape \/ Blur
  \/ \E row \in Row : PointerDown(row) \/ RowGoes(row)
  \/ \E row \in Row \cup {NoRow} : PointerMove(row)
  \/ PointerUp \/ PointerCancel \/ UndoLink \/ ToastGoes
  \/ \E i \in DOMAIN requests, yes \in BOOLEAN : Linked(i, yes) \/ Unlinked(i, yes)

Spec == Init /\ [][Next]_vars

(* ------------------------------- properties ------------------------------- *)
\* "AltGr held down draws only while held": however it ended - the key, a
\* character typed with it, another window, Esc - the mode afterwards is the
\* one chosen before, or the other one after a mere tap.
ModeIsChosen == ~held => active = chosen
================================================================================
