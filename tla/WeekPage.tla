------------------------------ MODULE WeekPage ------------------------------
(***************************************************************************)
(* The week view as a page (PlannedWeekView.tsx, WeekView.tsx,             *)
(* DayColumn.tsx, BucketBlock.tsx): which week is shown, the cards of its  *)
(* days side by side, presses in the columns, and the dialogs they open.   *)
(* Moments count units from a Monday's midnight.  What a drag of a card    *)
(* does is in module Week.                                                 *)
(***************************************************************************)
EXTENDS Sorting, FiniteSetsExt

CONSTANTS
  DayLength,    \* units of a day
  Quarter,      \* units of the 15 minutes new tasks snap to
  ClickLength,  \* units of the 60 minutes a click makes
  Touching,     \* TOUCHING_MS: overlaps up to this are none
  Plans,        \* plans the server can answer:
                \* [appointments: set of cards, buckets: sequence of buckets]
  Columns,      \* day columns that are pressed
  Heights,      \* places in a column, in units
  FirstDay, LastDay,  \* bound: the days that can be today
  MaxEvents           \* bound: events in one behaviour

VARIABLES
  plan,         \* the plan that is shown
  free,         \* freeDay, as computed when the plan came
  today,
  anchor,       \* weekAnchor: where the last jump went
  current,      \* currentDate of the mounted view, a day
  openedOn,     \* openedOn: the day it was mounted on
  left,         \* the day column at the left edge of a narrow screen
  pressed,      \* dragStartRef of each column
  held,         \* what the button was pressed on: [on, column] or NoPress
  draft,        \* newTaskDraft: [start, length] or NoDraft
  editingTask,  \* editingTaskId
  dialog,       \* BucketEditDialog: [zone, instance, saving, error] or NoZone
  saves,        \* answers its saves still wait for: [zone, instance]
  events

vars == <<plan, free, today, anchor, current, openedOn, left, pressed, held,
          draft, editingTask, dialog, saves, events>>

None == 0
NoDay == -1000
NoPress == [on |-> "nothing", column |-> 0]
NoDraft == [start |-> NoDay, length |-> 0]
NoZone == [zone |-> None, instance |-> 0, saving |-> FALSE, error |-> FALSE]

DayOf(moment) == moment \div DayLength
EndOf(card) == card.start + card.length
Monday(day) == day - (day % 7)
DaysShown == {Monday(current) + i : i \in 0 .. 6}

Occurs == events < MaxEvents /\ events' = events + 1

Cards(p) == p.appointments \cup UNION {p.buckets[i].items : i \in DOMAIN p.buckets}

\* splitTaskAcrossDays: one segment per day.
Segments(card) ==
  { LET from  == Max({card.start, day * DayLength})
        until == Min({EndOf(card), (day + 1) * DayLength})
    IN  [task |-> card.task, start |-> from, length |-> until - from]
    : day \in DayOf(card.start) .. DayOf(EndOf(card) - 1) }

CardsOn(day, p) ==
  {s \in UNION {Segments(card) : card \in Cards(p)} : DayOf(s.start) = day}

\* The end overlapLanes counts with: it forgives a touch.
LaneEnd(card) == Max({card.start, EndOf(card) - Touching})

Before(a, b) ==
  \/ a.start < b.start
  \/ a.start = b.start /\ LaneEnd(a) > LaneEnd(b)

NoLanes == [placed |-> <<>>, ends |-> <<>>, group |-> 0, until |-> -1]

\* Faulty: a group ends where the last card placed in it ends.
PlaceAfterLast(lanes, card) ==
  LET opens == card.start >= lanes.until
      ends  == IF opens THEN <<>> ELSE lanes.ends
      group == IF opens THEN lanes.group + 1 ELSE lanes.group
      freed == {i \in DOMAIN ends : ends[i] <= card.start}
      lane  == IF freed = {} THEN Len(ends) + 1 ELSE Min(freed)
  IN  [ placed |-> Append(lanes.placed, [card |-> card, group |-> group, lane |-> lane]),
        ends   |-> IF freed = {} THEN Append(ends, LaneEnd(card))
                   ELSE [ends EXCEPT ![lane] = LaneEnd(card)],
        group  |-> group,
        until  |-> LaneEnd(card) ]

\* One card of overlapLanes' loop: the first lane that is free again, or a new
\* one; a group of overlapping cards ends with the last of them.
Place(lanes, card) ==
  LET opens == card.start >= lanes.until
      ends  == IF opens THEN <<>> ELSE lanes.ends
      group == IF opens THEN lanes.group + 1 ELSE lanes.group
      freed == {i \in DOMAIN ends : ends[i] <= card.start}
      lane  == IF freed = {} THEN Len(ends) + 1 ELSE Min(freed)
  IN  [ placed |-> Append(lanes.placed, [card |-> card, group |-> group, lane |-> lane]),
        ends   |-> IF freed = {} THEN Append(ends, LaneEnd(card))
                   ELSE [ends EXCEPT ![lane] = LaneEnd(card)],
        group  |-> group,
        until  |-> Max({lanes.until, LaneEnd(card)}) ]

\* The cards of a day with their lanes, and how many lanes split the width.
OverlapLanes(cards) ==
  LET line == Sorted(cards, {p \in cards \X cards : Before(p[1], p[2])})
      lanes[n \in 0..Len(line)] == IF n = 0 THEN NoLanes ELSE Place(lanes[n - 1], line[n])
  IN lanes[Len(line)].placed

\* zonesForDay: a bucket over midnight has a part in both days.
ZonesOn(day, p) ==
  {i \in DOMAIN p.buckets : DayOf(p.buckets[i].start) <= day
                            /\ DayOf(EndOf(p.buckets[i]) - 1) >= day}

\* firstFreeDay: a day from today on with buckets that hold nothing and with no
\* appointment that starts on it.  The moment is its first bucket's start.
FirstFreeDay(p, from) ==
  LET starts(day) == {i \in DOMAIN p.buckets : DayOf(p.buckets[i].start) = day}
      isFree(day) == /\ starts(day) # {} /\ day >= from
                     /\ \A i \in starts(day) : p.buckets[i].items = {}
                     /\ \A card \in p.appointments : DayOf(card.start) # day
      days == {d \in {DayOf(p.buckets[i].start) : i \in DOMAIN p.buckets} : isFree(d)}
  IN  IF days = {} THEN NoDay ELSE p.buckets[Min(starts(Min(days)))].start

\* The layout effect of a new week: today's column at the left edge, or the
\* column of the day the view was opened on, or Monday's.
OpensAt(day, opened, now) ==
  IF Monday(now) = Monday(day) THEN now % 7
  ELSE IF Monday(opened) = Monday(day) THEN opened % 7
  ELSE 0

NothingPressed == [c \in Columns |-> NoDay]

Init ==
  /\ plan \in Plans /\ today \in FirstDay .. LastDay
  /\ free = FirstFreeDay(plan, today)
  /\ anchor = NoDay /\ current = today /\ openedOn = today
  /\ left = OpensAt(today, today, today)
  /\ pressed = NothingPressed /\ held = NoPress
  /\ draft = NoDraft /\ editingTask = None /\ dialog = NoZone /\ saves = {} /\ events = 0

\* A modal dialog is open: the page below it hears nothing.
Covered == draft # NoDraft \/ editingTask # None \/ dialog # NoZone

Show(day) ==
  /\ current' = day
  /\ left' = IF Monday(day) = Monday(current) THEN left ELSE OpensAt(day, openedOn, today)
  /\ UNCHANGED <<plan, free, today, anchor, openedOn, pressed, held, draft, editingTask, dialog, saves>>

PrevWeek == Occurs /\ ~Covered /\ held = NoPress /\ Show(current - 7)
NextWeek == Occurs /\ ~Covered /\ held = NoPress /\ Show(current + 7)

\* "Today" is offered while another week is shown.
Today == Occurs /\ ~Covered /\ held = NoPress /\ today \notin DaysShown /\ Show(today)

\* "Jump to first free day": the view is mounted anew, with its key, unless the
\* anchor is the moment it already was.
Jump ==
  /\ Occurs
  /\ ~Covered /\ held = NoPress
  /\ free # NoDay
  /\ anchor' = free
  /\ IF free = anchor
     THEN UNCHANGED <<current, openedOn, left, pressed>>
     ELSE /\ current' = DayOf(free) /\ openedOn' = DayOf(free)
          /\ left' = OpensAt(DayOf(free), DayOf(free), today)
          /\ pressed' = NothingPressed
  /\ UNCHANGED <<plan, free, today, held, draft, editingTask, dialog, saves>>

\* Dragging the week sideways.
Pan ==
  /\ Occurs
  /\ \E d \in Columns : left' = d
  /\ UNCHANGED <<plan, free, today, anchor, current, openedOn, pressed, held, draft,
                 editingTask, dialog, saves>>

PlanArrives ==
  /\ Occurs
  /\ \E p \in Plans \ {plan} : plan' = p /\ free' = FirstFreeDay(p, today)
  /\ UNCHANGED <<today, anchor, current, openedOn, left, pressed, held, draft,
                 editingTask, dialog, saves>>

\* Nothing renders at midnight: the free day stays what it was.
Midnight ==
  /\ today < LastDay /\ today' = today + 1
  /\ UNCHANGED <<plan, free, anchor, current, openedOn, left, pressed, held, draft,
                 editingTask, dialog, saves, events>>

\* onSurfaceDown: a press on the empty part of a column.
PressSurface(column, y) ==
  /\ Occurs
  /\ ~Covered /\ held = NoPress
  /\ held' = [on |-> "surface", column |-> column]
  /\ pressed' = [pressed EXCEPT ![column] = y]
  /\ UNCHANGED <<plan, free, today, anchor, current, openedOn, left, draft,
                 editingTask, dialog, saves>>

\* A press on a card or a bucket is its own (useVerticalDrag).
PressItem(column, kind) ==
  /\ Occurs
  /\ ~Covered /\ held = NoPress
  /\ LET day == Monday(current) + column
     IN  IF kind = "card" THEN CardsOn(day, plan) # {} ELSE ZonesOn(day, plan) # {}
  /\ held' = [on |-> kind, column |-> column]
  /\ UNCHANGED <<plan, free, today, anchor, current, openedOn, left, pressed, draft,
                 editingTask, dialog, saves>>

Rounded(y) == ((2 * y + Quarter) \div (2 * Quarter)) * Quarter

\* onSurfaceUp: from the press to here, on the quarter; a click makes an hour.
NewDraft(column, y) ==
  LET from  == Min({pressed[column], y})
      until == Max({pressed[column], y})
      width == Rounded(until) - Rounded(from)
  IN  [ start  |-> (Monday(current) + column) * DayLength + Rounded(from),
        length |-> IF until - from <= Quarter THEN ClickLength
                   ELSE IF width = 0 THEN Quarter ELSE width ]

\* The button is released over a column.  The column hears of it wherever in it
\* the pointer is, and creates if it was pressed, however long ago.
Release(column, y) ==
  /\ held # NoPress /\ held' = NoPress
  /\ IF pressed[column] = NoDay
     THEN UNCHANGED <<pressed, draft>>
     ELSE /\ pressed' = [pressed EXCEPT ![column] = NoDay]
          /\ draft' = NewDraft(column, y)
  /\ UNCHANGED <<plan, free, today, anchor, current, openedOn, left, saves, events>>

ReleaseSurface ==
  /\ held.on = "surface"
  /\ \E c \in Columns, y \in Heights : Release(c, y)
  /\ UNCHANGED <<editingTask, dialog>>

\* Without a movement, a click: it opens the card's dialog.
ClickCard ==
  /\ held.on = "card"
  /\ \E y \in Heights, card \in CardsOn(Monday(current) + held.column, plan) :
       /\ Release(held.column, y)
       /\ editingTask' = card.task
  /\ UNCHANGED dialog

ClickZone ==
  /\ held.on = "zone"
  /\ \E y \in Heights, z \in ZonesOn(Monday(current) + held.column, plan) :
       /\ Release(held.column, y)
       /\ dialog' = [zone |-> z, instance |-> events, saving |-> FALSE, error |-> FALSE]
  /\ UNCHANGED editingTask

\* A card or bucket is dragged to a column (module Week says where it goes).
DropItem ==
  /\ held.on \in {"card", "zone"}
  /\ \E c \in Columns, y \in Heights : Release(c, y)
  /\ UNCHANGED <<editingTask, dialog>>

\* Outside the grid nothing of the page hears the release.
ReleaseOutside ==
  /\ held # NoPress /\ held' = NoPress
  /\ UNCHANGED <<plan, free, today, anchor, current, openedOn, left, pressed, draft,
                 editingTask, dialog, saves, events>>

CloseDraft ==
  /\ draft # NoDraft /\ draft' = NoDraft
  /\ UNCHANGED <<plan, free, today, anchor, current, openedOn, left, pressed, held,
                 editingTask, dialog, saves, events>>

CloseTask ==
  /\ editingTask # None /\ editingTask' = None
  /\ UNCHANGED <<plan, free, today, anchor, current, openedOn, left, pressed, held,
                 draft, dialog, saves, events>>

\* Cancel, also while the save of the dialog is on its way.
CloseZone ==
  /\ dialog # NoZone /\ dialog' = NoZone
  /\ UNCHANGED <<plan, free, today, anchor, current, openedOn, left, pressed, held,
                 draft, editingTask, saves, events>>

SaveZone ==
  /\ Occurs
  /\ dialog # NoZone /\ ~dialog.saving
  /\ dialog' = [dialog EXCEPT !.saving = TRUE, !.error = FALSE]
  /\ saves' = saves \cup {[zone |-> dialog.zone, instance |-> dialog.instance]}
  /\ UNCHANGED <<plan, free, today, anchor, current, openedOn, left, pressed, held,
                 draft, editingTask>>

\* saveBucket succeeded: onClose closes the bucket dialog that is open.
ZoneSaved(s) ==
  /\ saves' = saves \ {s}
  /\ dialog' = NoZone
  /\ UNCHANGED <<plan, free, today, anchor, current, openedOn, left, pressed, held,
                 draft, editingTask, events>>

\* It failed: the dialog says so, if it is still the one that asked.
ZoneRefused(s) ==
  /\ saves' = saves \ {s}
  /\ dialog' = IF dialog.instance = s.instance
               THEN [dialog EXCEPT !.saving = FALSE, !.error = TRUE] ELSE dialog
  /\ UNCHANGED <<plan, free, today, anchor, current, openedOn, left, pressed, held,
                 draft, editingTask, events>>

PressColumn == \E c \in Columns, y \in Heights : PressSurface(c, y)
PressCard == \E c \in Columns : PressItem(c, "card")
PressZone == \E c \in Columns : PressItem(c, "zone")
SaveAnswered == \E s \in saves : ZoneSaved(s)
SaveFailed == \E s \in saves : ZoneRefused(s)

Next ==
  \/ PrevWeek \/ NextWeek \/ Today \/ Jump \/ Pan \/ PlanArrives \/ Midnight
  \/ PressColumn \/ PressCard \/ PressZone
  \/ ReleaseSurface \/ ClickCard \/ ClickZone \/ DropItem \/ ReleaseOutside
  \/ CloseDraft \/ CloseTask \/ CloseZone \/ SaveZone \/ SaveAnswered \/ SaveFailed

Spec == Init /\ [][Next]_vars

\* Cards of a day that overlap by more than a touch are in one group and in
\* different lanes of it, so that each can be pressed (overlapLanes.ts:1-6).
CardsSideBySide ==
  \A day \in DaysShown :
    LET lanes == OverlapLanes(CardsOn(day, plan))
    IN  \A i, j \in DOMAIN lanes :
          (/\ i # j
           /\ Max({lanes[i].card.start, lanes[j].card.start}) + Touching
                < Min({EndOf(lanes[i].card), EndOf(lanes[j].card)}))
          => lanes[i].group = lanes[j].group /\ lanes[i].lane # lanes[j].lane
=============================================================================
