----------------------------- MODULE MergeDialog -----------------------------
(* Merging two tasks, or a task with its calendar event (MergeDialog.tsx,    *)
(* merge.ts): the result starts as the task that stays, its empty fields     *)
(* filled from the other side; fields are taken from either side or typed,   *)
(* and the whole result is written.  The sides may be read anew meanwhile.   *)
EXTENDS Naturals

CONSTANTS Header, Description,  \* texts; the empty one is ""
          Deadlines, Markers,   \* markers of the calendar a deadline may follow
          DateOf,               \* a marker |-> its deadline
          NoDate,               \* no deadline, no marker
          MaxEdits

Text == Header \cup Description \cup {""}
Deadline == {[date |-> d, marker |-> NoDate] : d \in Deadlines \cup {NoDate}}
              \cup {[date |-> DateOf[m], marker |-> m] : m \in Markers}

\* A task's or event's fields as far as a merge tells them apart: the title is
\* never empty, the description may be, a deadline is a date and perhaps its marker.
Sides == [header : Header, description : Description \cup {""}, deadline : Deadline]

VARIABLES comparing,  \* with the calendar's version of the same task
          left, right, result, error,
          pending, open, written, edits

vars == <<comparing, left, right, result, error, pending, open, written, edits>>

initialResult(kept, other) ==
  LET deadline == IF kept.deadline.date # NoDate THEN kept.deadline ELSE other.deadline
  IN [header |-> kept.header,
      description |-> IF kept.description # "" THEN kept.description ELSE other.description,
      latest_finish_date |-> deadline.date, deadline_marker |-> deadline.marker]

\* The calendar's version has a deadline like the task's: an event has none.
eventSideOf(kept, event) == [event EXCEPT !.deadline = kept.deadline]

Init ==
  /\ comparing \in BOOLEAN
  /\ left \in Sides
  /\ right \in IF comparing THEN {eventSideOf(left, s) : s \in Sides} ELSE Sides
  /\ result = initialResult(left, IF comparing THEN left ELSE right)
  /\ error = FALSE /\ pending = FALSE /\ open = TRUE /\ written = FALSE /\ edits = 0

Edited == edits < MaxEdits /\ edits' = edits + 1

Equal(field, side, other) == side[field] = other[field]
InResult(field, side) ==
  IF field = "deadline"
  THEN side.deadline = [date |-> result.latest_finish_date, marker |-> result.deadline_marker]
  ELSE side[field] = result[field]

\* What a calendar event does not say is not compared.
Fields == {"header", "description"} \cup (IF comparing THEN {} ELSE {"deadline"})

\* Faulty: the date is taken, its marker is not.
TakeDate(field, side) ==
  /\ open /\ field \in Fields
  /\ ~(Equal(field, left, right) /\ InResult(field, side))
  /\ result' = IF field = "deadline" THEN [result EXCEPT !.latest_finish_date = side.deadline.date]
               ELSE [result EXCEPT ![field] = side[field]]
  /\ Edited
  /\ UNCHANGED <<comparing, left, right, error, pending, open, written>>

take(field, side) ==
  /\ open /\ field \in Fields
  /\ ~(Equal(field, left, right) /\ InResult(field, side))
  /\ result' = IF field = "deadline"
               THEN [result EXCEPT !.latest_finish_date = side.deadline.date,
                                   !.deadline_marker = side.deadline.marker]
               ELSE [result EXCEPT ![field] = side[field]]
  /\ Edited
  /\ UNCHANGED <<comparing, left, right, error, pending, open, written>>

Type(field, text) ==
  /\ open /\ field \in {"header", "description"} /\ text # result[field]
  /\ result' = [result EXCEPT ![field] = text]
  /\ Edited
  /\ UNCHANGED <<comparing, left, right, error, pending, open, written>>

save ==
  /\ open /\ ~pending
  /\ error' = (result.header = "")
  /\ pending' = ~error'
  /\ UNCHANGED <<comparing, left, right, result, open, written, edits>>

Answered(accepted) ==
  /\ pending /\ pending' = FALSE
  /\ written' = (written \/ accepted)
  /\ open' = (open /\ ~accepted)
  /\ error' = (open /\ ~accepted)
  /\ UNCHANGED <<comparing, left, right, result, edits>>

\* Cancelled, also while it is saved.
Cancel ==
  /\ open /\ open' = FALSE /\ error' = FALSE
  /\ UNCHANGED <<comparing, left, right, result, pending, written, edits>>

\* The tasks are read again: the sides follow, the result stays.
Refetch(kept, other) ==
  /\ open /\ <<kept, other>> # <<left, right>>
  /\ left' = kept /\ right' = IF comparing THEN eventSideOf(kept, other) ELSE other
  /\ Edited
  /\ UNCHANGED <<comparing, result, error, pending, open, written>>

Next ==
  \/ \E field \in Fields, side \in {left, right} : take(field, side)
  \/ \E field \in {"header", "description"}, text \in Text : Type(field, text)
  \/ save \/ Cancel
  \/ \E accepted \in BOOLEAN : Answered(accepted)
  \/ \E kept, other \in Sides : Refetch(kept, other)

Spec == Init /\ [][Next]_vars

(* ------------------------------- properties ------------------------------- *)
\* The result's deadline is a whole one, however it was put together from two
\* tasks that change meanwhile: the marker it follows stands at its date.
DeadlineWithItsMarker ==
  result.deadline_marker # NoDate => result.latest_finish_date = DateOf[result.deadline_marker]
=============================================================================
