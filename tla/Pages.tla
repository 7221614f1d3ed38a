-------------------------------- MODULE Pages --------------------------------
(* The app's pages and dialogs, each as the user meets it alone: the page is *)
(* chosen once, and the shared memory m1, m2, ... holds the variables of its *)
(* module in the order they are declared there.                              *)
EXTENDS Integers, Sequences, FiniteSets

CONSTANTS MaxEdits,                                 \* page |-> how often its user does something
          Default,                                  \* the user's default duration
          \* the split editor
          Part, NoPart, Outlines, Typed, Estimates, Spent, TokenTime, MaxRows, MaxSaves,
          \* the filters, and the dependency editor
          Words, Offered, Ranges, Names, MaxElsewhere,
          LinkedTasks, Dependencies, Filters,
          \* drawing lines between rows
          Row, NoRow, AltGrs, MaxLinks,
          \* the task form
          Task, NewTask, NoTask, Known, Walk, Headers, Hours, FormDeadlines, Starts, Now, MaxNumber,
          \* a recurrence rule
          Texts, Keys, MaxTyped,
          \* the week, zoomed and as it is planned
          MaxZoom, Margin, Frames, NoFrame, Pointers, Places, Short, NoScroll, NoPinch, NoBurst, Mixed,
          ZoomDay, ZoomHeights, ZoomEvents,
          Quarter, ClickLength, Touching, Plans, Columns, FirstDay, LastDay, PageDay, PageHeights, PageEvents,
          \* the plan chooser
          MaxAlternatives, MaxComputed, MaxOpened,
          \* correcting tracked time
          Minute, DayLength, Sessions, Dates,
          \* merging
          Header, Description, Deadlines, Markers, DateOf, NoDate

\* An outline has each subtask once; an estimate of -1 is none.  A day is a whole
\* number of minutes; a session that runs has the end -1.
ASSUME PagesAssumption ==
  /\ NoPart \notin Part /\ TokenTime \in Nat
  /\ \A outline \in Outlines :
       /\ outline \in Seq(Part \X Nat \X (Nat \cup {-1}) \X BOOLEAN)
       /\ \A i, j \in DOMAIN outline : outline[i][1] = outline[j][1] => i = j
  /\ Default \in Nat \ {0} /\ Spent \subseteq Nat
  /\ MaxAlternatives \in Nat
  /\ Minute \in Nat \ {0} /\ DayLength \in Nat \ {0} /\ DayLength % Minute = 0
  /\ \A s \in Sessions : s \in [start : Nat, end : Nat \cup {-1}]
  /\ Dates \subseteq Nat

VARIABLES page, m1, m2, m3, m4, m5, m6, m7, m8, m9, m10, m11, m12, m13, m14

vars == <<page, m1, m2, m3, m4, m5, m6, m7, m8, m9, m10, m11, m12, m13, m14>>

Off == "off"

Split == INSTANCE SplitEditor WITH
  MaxEdits <- MaxEdits["split"],
  rows <- m1, estimate <- m2, spent <- m3, focused <- m4, saves <- m5, open <- m6, edits <- m7

Bar == INSTANCE FilterBar WITH
  MaxEdits <- MaxEdits["filters"],
  filter <- m1, stored <- m2, saved <- m3, given <- m4, known <- m5, dialog <- m6, requests <- m7,
  edits <- m8, elsewhere <- m9

Graph == INSTANCE DependencyEditor WITH
  Tasks <- LinkedTasks, Known <- Dependencies, MaxEdits <- MaxEdits["graph"],
  server <- m1, cache <- m2, nodes <- m3, edges <- m4, requests <- m5, tries <- m6, cycle <- m7, toast <- m8,
  filter <- m9, showLinked <- m10, edits <- m11

Drawing == INSTANCE DependencyDrawing WITH
  withAltGr <- m1, active <- m2, altGr <- m3, start <- m4, over <- m5, shown <- m6, requests <- m7, toast <- m8,
  links <- m9, held <- m10, chosen <- m11

Form == INSTANCE TaskForm WITH
  Deadlines <- FormDeadlines, MaxEdits <- MaxEdits["form"],
  tasks <- m1, known <- m2, activeTask <- m3, form <- m4, requests <- m5, edits <- m6

Recurrence == INSTANCE RecurrenceField WITH
  value <- m1, previewKey <- m2, debounce <- m3, asked <- m4, result <- m5, previewError <- m6, typed <- m7

Zoom == INSTANCE WeekZoom WITH
  DayLength <- ZoomDay, Heights <- ZoomHeights, MaxEvents <- ZoomEvents,
  height <- m1, frame <- m2, drawn <- m3, asked <- m4, pending <- m5, adjusted <- m6, top <- m7, pinch <- m8,
  atTop <- m9, burst <- m10, events <- m11

Planned == INSTANCE WeekPage WITH
  DayLength <- PageDay, Heights <- PageHeights, MaxEvents <- PageEvents,
  plan <- m1, free <- m2, today <- m3, anchor <- m4, current <- m5, openedOn <- m6, left <- m7, pressed <- m8,
  held <- m9, draft <- m10, editingTask <- m11, dialog <- m12, saves <- m13, events <- m14

\* A plan has finitely many cards, each in some unit and of some units.
ASSUME PlansAssumption ==
  /\ PageDay \in Nat \ {0} /\ Touching \in Nat
  /\ \A p \in Plans : /\ IsFiniteSet(Planned!Cards(p))
                      /\ \A card \in Planned!Cards(p) : card.start \in Nat /\ card.length \in Nat

Chooser == INSTANCE PlanChooser WITH
  candidates <- m1, accepted <- m2, computed <- m3, requests <- m4, open <- m5, autoAccepted <- m6,
  acceptInFlight <- m7, compute <- m8, accepting <- m9, week <- m10, opened <- m11

Time == INSTANCE TrackedTime WITH
  MaxEdits <- MaxEdits["time"],
  stored <- m1, session <- m2, date <- m3, from <- m4, until <- m5, typed <- m6, saves <- m7, error <- m8,
  draft <- m9, adding <- m10, edits <- m11

Merging == INSTANCE MergeDialog WITH
  MaxEdits <- MaxEdits["merging"],
  comparing <- m1, left <- m2, right <- m3, result <- m4, error <- m5, pending <- m6, open <- m7,
  written <- m8, edits <- m9

(* ------------------------------- the pages -------------------------------- *)
RestOff(n) ==
  /\ n < 7 => m7 = Off
  /\ n < 8 => m8 = Off
  /\ n < 9 => m9 = Off
  /\ n < 10 => m10 = Off
  /\ n < 11 => m11 = Off
  /\ n < 14 => m12 = Off /\ m13 = Off /\ m14 = Off

Init ==
  \/ page = "split" /\ Split!Init /\ RestOff(7)
  \/ page = "filters" /\ Bar!Init /\ RestOff(9)
  \/ page = "graph" /\ Graph!Init /\ RestOff(11)
  \/ page = "drawing" /\ Drawing!Init /\ RestOff(11)
  \/ page = "form" /\ Form!Init /\ RestOff(6)
  \/ page = "recurrence" /\ Recurrence!Init /\ RestOff(7)
  \/ page = "zoom" /\ Zoom!Init /\ RestOff(11)
  \/ page = "planned" /\ Planned!Init /\ RestOff(14)
  \/ page = "chooser" /\ Chooser!Init /\ RestOff(11)
  \/ page = "time" /\ Time!Init /\ RestOff(11)
  \/ page = "merging" /\ Merging!Init /\ RestOff(9)

Rest(n) ==
  /\ UNCHANGED page
  /\ n < 7 => UNCHANGED m7
  /\ n < 8 => UNCHANGED m8
  /\ n < 9 => UNCHANGED m9
  /\ n < 10 => UNCHANGED m10
  /\ n < 11 => UNCHANGED m11
  /\ n < 14 => UNCHANGED <<m12, m13, m14>>

Next ==
  \/ page = "split" /\ Split!Next /\ Rest(7)
  \/ page = "filters" /\ Bar!Next /\ Rest(9)
  \/ page = "graph" /\ Graph!Next /\ Rest(11)
  \/ page = "drawing" /\ Drawing!Next /\ Rest(11)
  \/ page = "form" /\ Form!Next /\ Rest(6)
  \/ page = "recurrence" /\ Recurrence!Next /\ Rest(7)
  \/ page = "zoom" /\ Zoom!Next /\ Rest(11)
  \/ page = "planned" /\ Planned!Next /\ Rest(14)
  \/ page = "chooser" /\ Chooser!Next /\ Rest(11)
  \/ page = "time" /\ Time!Next /\ Rest(11)
  \/ page = "merging" /\ Merging!Next /\ Rest(9)

Spec == Init /\ [][Next]_vars

(* ------------------------------- properties ------------------------------- *)
\* Split editor: the server deletes the subtasks a save leaves out; a save has
\* every subtask that is on screen once, and under a row it has as well.
NoPartIsLost == page = "split" => Split!NoPartIsLost

\* Split editor: the rows without an estimate of their own share exactly what
\* is left of the budget above them (utils/splitMath.ts).
SharesAddUp == page = "split" => Split!SharesAddUp

\* Filters: an answer that comes late closes no dialog opened since, and a
\* dialog closes by itself only when what it sent was done.
DialogsHearTheirOwn == [][page = "filters" => Bar!HearsItsOwn]_vars

\* Dependency editor: the loop shown in red is the one the newest line would
\* have closed, in whatever order the answers come.
RedIsTheLastRefusal == page = "graph" => Graph!RedIsTheLastRefusal

\* Drawing lines: AltGr turns the mode on only while it is held, however it is
\* let go - with a character typed, in another window, with Esc.
ModeIsChosen == page = "drawing" => Drawing!ModeIsChosen

\* Task form: it goes by itself, or makes way for the next task, only without
\* changes or after its last save was done.
LeavesOnlySaved == [][page = "form" => Form!GoesOnlySaved]_vars

\* Recurrence field: when nothing is asked any more, what is shown is about
\* the rule and the start as they stand.
PreviewIsOfTheRule == page = "recurrence" => Recurrence!PreviewIsOfTheRule

\* Week view: what was under the pointer stays there over several zoom steps
\* that are drawn at once.
KeepsItsPlace == [][page = "zoom" => Zoom!StaysAtPointer]_vars

\* Week view: cards that overlap by more than a touch lie side by side.
CardsSideBySide == page = "planned" => Planned!CardsSideBySide

\* Plan chooser: a candidate that was replaced meanwhile is not accepted.
ReplacedStaysGone == [][page = "chooser" => Chooser!StoredOnly]_vars

\* Plan chooser: a dialog closed while it computes accepts no plan.
CancelledPlansNothing == [][page = "chooser" => Chooser!AcceptsWhileOpen]_vars

\* Tracked time: what was left alone is sent as it was, to the second, also
\* when another device corrected the session in between.
LeftAloneIsKept == [][page = "time" => Time!KeepsWhatWasLeftAlone]_vars

\* Merging: the deadline of the result and the marker it follows belong
\* together, however they were taken from either side.
DeadlineWithItsMarker == page = "merging" => Merging!DeadlineWithItsMarker
===============================================================================
