----------------------------- MODULE PageProofs -----------------------------
(***************************************************************************)
(* What Pages promises of ten of its eleven pages, for any number of rows, *)
(* tasks, plans, texts and requests under way, answered in any order.      *)
(***************************************************************************)
EXTENDS Pages, DataProofs

\* The names the shared memory has in the modules of the pages, but for the
\* results and requests of several pages.
active == m2
altGr == m3
held == m10
chosen == m11

value == m1
previewKey == m2
debounce == m3
asked == m4
preview == m5
previewError == m6

comparing == m1
left == m2
right == m3
merged == m4

form == m4
formRequests == m5

dialog == m6
barRequests == m7

graphRequests == m5
tries == m6
cycle == m7

candidates == m1
accepted == m2
computed == m3
requests == m4
open == m5
autoAccepted == m6
acceptInFlight == m7
compute == m8

stored == m1
session == m2
date == m3
from == m4
until == m5
typed == m6
saves == m7

USE DEF active, altGr, held, chosen,
        value, previewKey, debounce, asked, preview, previewError,
        comparing, left, right, merged, form, formRequests, dialog, barRequests, graphRequests, tries, cycle,
        candidates, accepted, computed, requests, open, autoAccepted, acceptInFlight, compute,
        stored, session, date, from, until, typed, saves

-----------------------------------------------------------------------------
(* A page keeps to itself.                                                 *)

LEMMA PageInit ==
  ASSUME Init
  PROVE  /\ page = "drawing" => Drawing!Init
         /\ page = "recurrence" => Recurrence!Init
         /\ page = "merging" => Merging!Init
         /\ page = "graph" => Graph!Init
         /\ page = "chooser" => Chooser!Init
         /\ page = "time" => Time!Init
         /\ page = "form" => Form!Init
         /\ page = "filters" => Bar!Init
         /\ page = "split" => Split!Init
BY DEF Init

LEMMA PageNext ==
  ASSUME [Next]_vars
  PROVE  /\ UNCHANGED page
         /\ page = "drawing" => [Drawing!Next]_(Drawing!vars)
         /\ page = "recurrence" => [Recurrence!Next]_(Recurrence!vars)
         /\ page = "merging" => [Merging!Next]_(Merging!vars)
         /\ page = "graph" => [Graph!Next]_(Graph!vars)
         /\ page = "chooser" => [Chooser!Next]_(Chooser!vars)
         /\ page = "time" => [Time!Next]_(Time!vars)
         /\ page = "form" => [Form!Next]_(Form!vars)
         /\ page = "filters" => [Bar!Next]_(Bar!vars)
         /\ page = "split" => [Split!Next]_(Split!vars)
<1>1. CASE Next
  BY <1>1 DEF Next, Rest
<1>2. CASE UNCHANGED vars
  <2>1. UNCHANGED <<page, m1, m2, m3, m4, m5, m6, m7, m8, m9, m10, m11>>
    BY <1>2 DEF vars
  <2>2. QED
    BY <2>1 DEF Drawing!vars, Recurrence!vars, Merging!vars, Graph!vars, Chooser!vars, Chooser!server,
                Chooser!dialog, Time!vars, Time!row, Form!vars, Bar!vars, Split!vars
<1>3. QED
  BY <1>1, <1>2

-----------------------------------------------------------------------------
(* Sequences of requests.                                                  *)

\* What is left of a sequence when one element is taken out.
LEMMA RemovedElements ==
  ASSUME NEW S, NEW s \in Seq(S), NEW i \in 1..Len(s)
  PROVE  /\ RemoveAt(s, i) \in Seq(S)
         /\ Len(RemoveAt(s, i)) = Len(s) - 1
         /\ \A j \in 1..(Len(s) - 1) : RemoveAt(s, i)[j] = IF j < i THEN s[j] ELSE s[j + 1]
<1> DEFINE a == SubSeq(s, 1, i - 1)
           b == SubSeq(s, i + 1, Len(s))
<1>1. /\ a \in Seq(S) /\ Len(a) = i - 1
      /\ \A j \in 1..(i - 1) : a[j] = s[j]
  BY SubSeqProperties
<1>2. /\ b \in Seq(S) /\ Len(b) = Len(s) - i
      /\ \A j \in 1..(Len(s) - i) : b[j] = s[i + j]
  BY SubSeqProperties
<1>3. RemoveAt(s, i) = a \o b
  BY DEF RemoveAt
<1> HIDE DEF a, b
<1>4. /\ a \o b \in Seq(S) /\ Len(a \o b) = Len(s) - 1
      /\ \A j \in 1..(Len(s) - 1) : (a \o b)[j] = IF j <= i - 1 THEN a[j] ELSE b[j - (i - 1)]
  <2>1. /\ a \o b \in Seq(S) /\ Len(a \o b) = Len(a) + Len(b)
        /\ \A j \in 1..(Len(a) + Len(b)) : (a \o b)[j] = IF j <= Len(a) THEN a[j] ELSE b[j - Len(a)]
    BY <1>1, <1>2, ConcatProperties
  <2>2. Len(a) = i - 1 /\ Len(a) + Len(b) = Len(s) - 1
    BY <1>1, <1>2
  <2>3. QED
    BY <2>1, <2>2
<1>5. ASSUME NEW j \in 1..(Len(s) - 1)
      PROVE  (a \o b)[j] = IF j < i THEN s[j] ELSE s[j + 1]
  <2>1. CASE j < i
    BY <1>1, <1>4, <2>1
  <2>2. CASE ~ (j < i)
    <3>1. j - (i - 1) \in 1..(Len(s) - i) /\ i + (j - (i - 1)) = j + 1
      BY <2>2
    <3>2. b[j - (i - 1)] = s[j + 1]
      BY <1>2, <3>1
    <3>3. QED
      BY <1>4, <2>2, <3>2
  <2>3. QED
    BY <2>1, <2>2
<1>6. QED
  BY <1>3, <1>4, <1>5

-----------------------------------------------------------------------------
(* Drawing lines: AltGr and the mode.                                      *)

\* While AltGr counts, the mode to come back to is the one chosen; otherwise
\* the mode is the one chosen.
ModeInv ==
  /\ active \in BOOLEAN /\ chosen \in BOOLEAN /\ held \in BOOLEAN
  /\ altGr \in [down : BOOLEAN, before : BOOLEAN, drew : BOOLEAN]
  /\ IF altGr.down THEN held /\ altGr.before = chosen ELSE active = chosen

LEMMA ModeNext == ModeInv /\ [Drawing!Next]_(Drawing!vars) => ModeInv'
<1> SUFFICES ASSUME ModeInv, [Drawing!Next]_(Drawing!vars) PROVE ModeInv'
  OBVIOUS
<1> USE DEF ModeInv
<1>1. CASE Drawing!Toggle
  BY <1>1 DEF Drawing!Toggle
<1>2. CASE Drawing!AltGrDown
  BY <1>2 DEF Drawing!AltGrDown
<1>3. CASE Drawing!AltGrUp
  BY <1>3 DEF Drawing!AltGrUp, Drawing!Up
<1>4. CASE Drawing!OtherKey
  BY <1>4 DEF Drawing!OtherKey, Drawing!Up
<1>5. CASE Drawing!Escape
  BY <1>5 DEF Drawing!Escape, Drawing!Up
<1>6. CASE Drawing!Blur
  BY <1>6 DEF Drawing!Blur, Drawing!Up
<1>7. ASSUME NEW row, Drawing!PointerDown(row) PROVE ModeInv'
  BY <1>7 DEF Drawing!PointerDown
<1>8. CASE UNCHANGED <<active, altGr, held, chosen>>
  BY <1>8
<1>9. ASSUME NEW row, Drawing!RowGoes(row) \/ Drawing!PointerMove(row) PROVE ModeInv'
  BY <1>8, <1>9 DEF Drawing!RowGoes, Drawing!PointerMove
<1>10. CASE \/ Drawing!PointerUp \/ Drawing!PointerCancel \/ Drawing!UndoLink \/ Drawing!ToastGoes
            \/ UNCHANGED Drawing!vars
  BY <1>8, <1>10 DEF Drawing!PointerUp, Drawing!PointerCancel, Drawing!UndoLink, Drawing!ToastGoes,
                     Drawing!Mode, Drawing!vars
<1>11. ASSUME NEW i, NEW yes, Drawing!Linked(i, yes) \/ Drawing!Unlinked(i, yes) PROVE ModeInv'
  BY <1>8, <1>11 DEF Drawing!Linked, Drawing!Unlinked, Drawing!Mode
<1>12. QED
  BY <1>1, <1>2, <1>3, <1>4, <1>5, <1>6, <1>7, <1>9, <1>10, <1>11 DEF Drawing!Next

\* AltGr turns the mode on only while it is held: however it is let go - the
\* key goes up, a character is typed with it, the window loses the focus, Esc -,
\* with lines begun, links answered and rows going away in between, the mode
\* afterwards is the one that was chosen (useDependencyDrawing.ts).
THEOREM ModeIsChosenAlways == Spec => []ModeIsChosen
<1>1. Drawing!Init => ModeInv
  <2> SUFFICES ASSUME Drawing!Init PROVE ModeInv
    OBVIOUS
  <2>1. active = FALSE /\ chosen = FALSE /\ held = FALSE /\ altGr = Drawing!Up
    BY DEF Drawing!Init
  <2>2. QED
    BY <2>1 DEF Drawing!Up, ModeInv
<1>2. ModeInv => Drawing!ModeIsChosen
  BY DEF ModeInv, Drawing!ModeIsChosen
<1>3. Init => (page = "drawing" => ModeInv)
  BY <1>1, PageInit
<1>4. (page = "drawing" => ModeInv) /\ [Next]_vars => (page = "drawing" => ModeInv)'
  BY ModeNext, PageNext
<1>5. (page = "drawing" => ModeInv) => ModeIsChosen
  BY <1>2 DEF ModeIsChosen
<1>6. QED
  BY <1>3, <1>4, <1>5, PTL DEF Spec

-----------------------------------------------------------------------------
(* Recurrence field: the preview and the questions under way.              *)

Question == [of : (Texts \cup {Recurrence!Empty}) \X Keys, current : BOOLEAN]

\* What is shown is about the rule and the start as they stand.
ShownOfTheRule ==
  IF value = Recurrence!Empty THEN preview = Recurrence!Nothing /\ previewError = Recurrence!Nothing
  ELSE {preview, previewError} = {Recurrence!Nothing, <<value, previewKey>>}

\* At most one question is current, of what stands now, and only while the timer
\* does not run; without either what is shown is right.
PreviewInv ==
  /\ value \in Texts \cup {Recurrence!Empty} /\ previewKey \in Keys /\ debounce \in BOOLEAN
  /\ asked \in Seq(Question)
  /\ debounce => value # Recurrence!Empty
  /\ \A i \in 1..Len(asked) : asked[i].current =>
       /\ ~ debounce /\ value # Recurrence!Empty /\ asked[i].of = <<value, previewKey>>
       /\ \A j \in 1..Len(asked) : asked[j].current => i = j
  /\ value = Recurrence!Empty \/ (~ debounce /\ \A i \in 1..Len(asked) : ~ asked[i].current) => ShownOfTheRule

\* A change makes every question an old one and starts the timer.
LEMMA RestartedPreview ==
  ASSUME PreviewInv, Recurrence!Restarted,
         value' \in Texts \cup {Recurrence!Empty}, previewKey' \in Keys,
         value' = Recurrence!Empty => preview' = Recurrence!Nothing /\ previewError' = Recurrence!Nothing
  PROVE  PreviewInv'
<1>1. /\ debounce' = (value' # Recurrence!Empty)
      /\ asked' = [i \in 1..Len(asked) |-> [asked[i] EXCEPT !.current = FALSE]]
      /\ asked \in Seq(Question)
  BY DEF PreviewInv, Recurrence!Restarted
<1>2. \A i \in 1..Len(asked) : [asked[i] EXCEPT !.current = FALSE] \in Question
                               /\ [asked[i] EXCEPT !.current = FALSE].current = FALSE
  <2> TAKE i \in 1..Len(asked)
  <2>1. asked[i] \in Question
    BY <1>1
  <2>2. QED
    BY <2>1 DEF Question
<1>3. /\ asked' \in Seq(Question) /\ Len(asked') = Len(asked)
      /\ \A i \in 1..Len(asked') : asked'[i].current = FALSE
  <2>1. Len(asked) \in Nat
    BY <1>1
  <2>2. asked' \in Seq(Question)
    BY <1>1, <1>2, <2>1, IsASeq
  <2>3. Len(asked') = Len(asked)
    BY <1>1, <2>1
  <2>4. QED
    BY <1>1, <1>2, <2>2, <2>3
<1>4. QED
  BY <1>1, <1>3 DEF PreviewInv, ShownOfTheRule

LEMMA AskedPreview == PreviewInv /\ Recurrence!Ask => PreviewInv'
<1> SUFFICES ASSUME PreviewInv, Recurrence!Ask PROVE PreviewInv'
  OBVIOUS
<1> DEFINE q == [of |-> <<value, previewKey>>, current |-> TRUE]
<1>1. /\ debounce /\ ~ debounce' /\ asked' = Append(asked, q) /\ debounce' \in BOOLEAN
      /\ UNCHANGED <<value, previewKey, preview, previewError>>
  BY DEF Recurrence!Ask
<1>2. q \in Question /\ q.current /\ q.of = <<value, previewKey>>
  BY DEF PreviewInv, Question
<1> HIDE DEF q
<1>3. /\ asked' \in Seq(Question) /\ Len(asked') = Len(asked) + 1 /\ Len(asked) \in Nat
      /\ \A i \in 1..Len(asked) : asked'[i] = asked[i] /\ ~ asked[i].current
      /\ asked'[Len(asked) + 1] = q
  BY <1>1, <1>2, AppendProperties DEF PreviewInv
<1>4. \A i \in 1..Len(asked') : asked'[i].current => i = Len(asked')
  BY <1>3
<1>5. \E i \in 1..Len(asked') : asked'[i].current
  BY <1>2, <1>3
<1>6. value # Recurrence!Empty
  BY <1>1 DEF PreviewInv
<1>7. QED
  BY <1>1, <1>2, <1>3, <1>4, <1>5, <1>6 DEF PreviewInv

LEMMA FoundPreview ==
  ASSUME PreviewInv, NEW i \in DOMAIN asked, NEW understood \in BOOLEAN, Recurrence!Found(i, understood)
  PROVE  PreviewInv'
<1>1. /\ UNCHANGED <<value, previewKey, debounce>> /\ asked' = RemoveAt(asked, i)
      /\ i \in 1..Len(asked) /\ asked \in Seq(Question) /\ Len(asked) \in Nat
  <2>1. UNCHANGED <<value, previewKey, debounce>> /\ asked' = Recurrence!RemoveAt(asked, i)
    BY DEF Recurrence!Found
  <2>2. asked \in Seq(Question)
    BY DEF PreviewInv
  <2>3. QED
    BY <2>1, <2>2 DEF Recurrence!RemoveAt, RemoveAt
<1>2. /\ asked' \in Seq(Question) /\ Len(asked') = Len(asked) - 1
      /\ \A j \in 1..Len(asked') : asked'[j] = IF j < i THEN asked[j] ELSE asked[j + 1]
  BY <1>1, RemovedElements
<1> DEFINE old(j) == IF j < i THEN j ELSE j + 1
<1>3. \A j \in 1..Len(asked') : /\ old(j) \in 1..Len(asked) /\ old(j) # i
                                /\ asked'[j] = asked[old(j)]
  BY <1>1, <1>2
<1>4. \A j, k \in 1..Len(asked') : old(j) = old(k) => j = k
  BY <1>1, <1>2
<1> HIDE DEF old
<1>5. CASE asked[i].current
  <2>1. \A j \in 1..Len(asked') : ~ asked'[j].current
    BY <1>1, <1>3, <1>5 DEF PreviewInv
  <2>2. value # Recurrence!Empty /\ asked[i].of = <<value, previewKey>>
    BY <1>1, <1>5 DEF PreviewInv
  <2>3. ShownOfTheRule'
    BY <1>1, <1>5, <2>2 DEF Recurrence!Found, ShownOfTheRule
  <2>4. QED
    BY <1>1, <1>2, <2>1, <2>3 DEF PreviewInv
<1>6. CASE ~ asked[i].current
  <2>1. UNCHANGED <<preview, previewError>>
    BY <1>6 DEF Recurrence!Found
  <2>2. ASSUME NEW j \in 1..Len(asked'), asked'[j].current
        PROVE  /\ ~ debounce /\ value # Recurrence!Empty /\ asked'[j].of = <<value, previewKey>>
               /\ \A k \in 1..Len(asked') : asked'[k].current => j = k
    <3>1. old(j) \in 1..Len(asked) /\ asked[old(j)].current /\ asked'[j] = asked[old(j)]
      BY <1>3, <2>2
    <3>2. \A l \in 1..Len(asked) : asked[l].current => old(j) = l
      BY <3>1 DEF PreviewInv
    <3>3. ASSUME NEW k \in 1..Len(asked'), asked'[k].current PROVE j = k
      <4>1. old(k) \in 1..Len(asked) /\ asked[old(k)].current
        BY <1>3, <3>3
      <4>2. old(j) = old(k)
        BY <3>2, <4>1
      <4>3. QED
        BY <1>4, <4>2
    <3>4. QED
      BY <3>1, <3>3 DEF PreviewInv
  <2>3. ASSUME \A j \in 1..Len(asked') : ~ asked'[j].current
        PROVE  \A j \in 1..Len(asked) : ~ asked[j].current
    <3>1. \A j \in 1..Len(asked) : j < i => j \in 1..Len(asked') /\ asked'[j] = asked[j]
      BY <1>1, <1>2
    <3>2. \A j \in 1..Len(asked) : j > i => j - 1 \in 1..Len(asked') /\ asked'[j - 1] = asked[j]
      BY <1>1, <1>2
    <3>3. \A j \in 1..Len(asked) : j < i \/ j > i \/ j = i
      BY <1>1
    <3>4. QED
      BY <1>6, <2>3, <3>1, <3>2, <3>3
  <2>4. QED
    BY <1>1, <1>2, <2>1, <2>2, <2>3 DEF PreviewInv, ShownOfTheRule
<1>7. QED
  BY <1>5, <1>6

LEMMA PreviewNext == PreviewInv /\ [Recurrence!Next]_(Recurrence!vars) => PreviewInv'
<1> SUFFICES ASSUME PreviewInv, [Recurrence!Next]_(Recurrence!vars) PROVE PreviewInv'
  OBVIOUS
<1>1. ASSUME NEW text \in Texts \cup {Recurrence!Empty}, Recurrence!Change(text) PROVE PreviewInv'
  <2>1. Recurrence!Restarted /\ value' = text /\ previewKey' = previewKey
    BY <1>1 DEF Recurrence!Change
  <2>2. value' = Recurrence!Empty => preview' = Recurrence!Nothing /\ previewError' = Recurrence!Nothing
    BY <1>1 DEF Recurrence!Change
  <2>3. previewKey' \in Keys
    BY <2>1 DEF PreviewInv
  <2>4. QED
    BY <2>1, <2>2, <2>3, RestartedPreview
<1>2. ASSUME NEW key \in Keys, Recurrence!ChangeKey(key) PROVE PreviewInv'
  <2>1. Recurrence!Restarted /\ previewKey' = key /\ UNCHANGED <<value, preview, previewError>>
    BY <1>2 DEF Recurrence!ChangeKey
  <2>2. /\ value' \in Texts \cup {Recurrence!Empty}
        /\ value' = Recurrence!Empty => preview' = Recurrence!Nothing /\ previewError' = Recurrence!Nothing
    BY <2>1 DEF PreviewInv, ShownOfTheRule
  <2>3. QED
    BY <2>1, <2>2, RestartedPreview
<1>3. CASE UNCHANGED Recurrence!vars
  BY <1>3 DEF Recurrence!vars, PreviewInv, ShownOfTheRule
<1>4. QED
  BY <1>1, <1>2, <1>3, AskedPreview, FoundPreview DEF Recurrence!Next

\* Once nothing is asked any more, the preview is about the rule and the start
\* as they stand, in whatever order the answers came and however many are under
\* way at once (RecurrenceField.tsx: only the current question's answer counts).
THEOREM PreviewFollows == Spec => []PreviewIsOfTheRule
<1>1. Recurrence!Init => PreviewInv
  <2> SUFFICES ASSUME Recurrence!Init PROVE PreviewInv
    OBVIOUS
  <2>1. /\ value \in Texts \cup {Recurrence!Empty} /\ previewKey \in Keys
        /\ debounce = (value # Recurrence!Empty) /\ asked = <<>>
        /\ preview = Recurrence!Nothing /\ previewError = Recurrence!Nothing
    BY DEF Recurrence!Init
  <2>2. asked \in Seq(Question) /\ Len(asked) = 0
    BY <2>1, EmptySeq
  <2>3. value = Recurrence!Empty => ShownOfTheRule
    BY <2>1 DEF ShownOfTheRule
  <2>4. debounce \in BOOLEAN /\ (debounce <=> value # Recurrence!Empty)
    BY <2>1
  <2>5. \A i \in 1..Len(asked) : FALSE
    BY <2>2
  <2>6. QED
    BY <2>1, <2>2, <2>3, <2>4, <2>5 DEF PreviewInv
<1>2. PreviewInv => Recurrence!PreviewIsOfTheRule
  BY DEF PreviewInv, ShownOfTheRule, Recurrence!PreviewIsOfTheRule
<1>3. Init => (page = "recurrence" => PreviewInv)
  BY <1>1, PageInit
<1>4. (page = "recurrence" => PreviewInv) /\ [Next]_vars => (page = "recurrence" => PreviewInv)'
  BY PreviewNext, PageNext
<1>5. (page = "recurrence" => PreviewInv) => PreviewIsOfTheRule
  BY <1>2 DEF PreviewIsOfTheRule
<1>6. QED
  BY <1>3, <1>4, <1>5, PTL DEF Spec

-----------------------------------------------------------------------------
(* Merging: the result's deadline is one of the sides'.                    *)

MergeInv ==
  /\ left \in Merging!Sides /\ right \in Merging!Sides
  /\ merged = [header |-> merged.header, description |-> merged.description,
               latest_finish_date |-> merged.latest_finish_date, deadline_marker |-> merged.deadline_marker]
  /\ [date |-> merged.latest_finish_date, marker |-> merged.deadline_marker] \in Merging!Deadline

LEMMA MergeNext == MergeInv /\ [Merging!Next]_(Merging!vars) => MergeInv'
<1> SUFFICES ASSUME MergeInv, [Merging!Next]_(Merging!vars) PROVE MergeInv'
  OBVIOUS
<1> USE DEF MergeInv
<1>1. ASSUME NEW field \in Merging!Fields, NEW side \in {left, right}, Merging!take(field, side) PROVE MergeInv'
  <2>1. UNCHANGED <<left, right>> /\ side.deadline \in Merging!Deadline
    BY <1>1 DEF Merging!take, Merging!Sides
  <2>2. side.deadline = [date |-> side.deadline.date, marker |-> side.deadline.marker]
    BY <2>1 DEF Merging!Deadline
  <2>3. CASE field = "deadline"
    <3>1. merged' = [merged EXCEPT !.latest_finish_date = side.deadline.date,
                                   !.deadline_marker = side.deadline.marker]
      BY <1>1, <2>3 DEF Merging!take
    <3>2. QED
      BY <2>1, <2>2, <3>1
  <2>4. CASE field # "deadline"
    <3>1. merged' = [merged EXCEPT ![field] = side[field]] /\ field \in {"header", "description"}
      BY <1>1, <2>4 DEF Merging!take, Merging!Fields
    <3>2. QED
      BY <2>1, <3>1
  <2>5. QED
    BY <2>3, <2>4
<1>2. ASSUME NEW field \in {"header", "description"}, NEW text, Merging!Type(field, text) PROVE MergeInv'
  BY <1>2 DEF Merging!Type
<1>3. ASSUME NEW kept \in Merging!Sides, NEW other \in Merging!Sides, Merging!Refetch(kept, other) PROVE MergeInv'
  <2>1. /\ left' = kept /\ merged' = merged
        /\ right' = IF comparing THEN Merging!eventSideOf(kept, other) ELSE other
    BY <1>3 DEF Merging!Refetch
  <2>2. Merging!eventSideOf(kept, other) \in Merging!Sides
    BY DEF Merging!eventSideOf, Merging!Sides
  <2>3. QED
    BY <2>1, <2>2
<1>4. CASE UNCHANGED <<left, right, merged>>
  BY <1>4
<1>5. ASSUME NEW taken, Merging!Answered(taken) PROVE MergeInv'
  BY <1>4, <1>5 DEF Merging!Answered
<1>6. CASE Merging!save \/ Merging!Cancel \/ UNCHANGED Merging!vars
  BY <1>4, <1>6 DEF Merging!save, Merging!Cancel, Merging!vars
<1>7. QED
  BY <1>1, <1>2, <1>3, <1>5, <1>6 DEF Merging!Next

\* A deadline and the marker of the calendar it follows stay together: whatever
\* is taken from either side or typed, and however the two tasks change while
\* the dialog is open, the result that is written has a deadline that stands
\* where its marker does (merge.ts).
THEOREM DeadlinesStayWhole == Spec => []DeadlineWithItsMarker
<1>1. Merging!Init => MergeInv
  <2> SUFFICES ASSUME Merging!Init PROVE MergeInv
    OBVIOUS
  <2>1. left \in Merging!Sides /\ right \in Merging!Sides
    <3>1. left \in Merging!Sides /\ right \in IF comparing THEN {Merging!eventSideOf(left, s) : s \in Merging!Sides}
                                              ELSE Merging!Sides
      BY DEF Merging!Init
    <3>2. \A s \in Merging!Sides : Merging!eventSideOf(left, s) \in Merging!Sides
      BY <3>1 DEF Merging!eventSideOf, Merging!Sides
    <3>3. QED
      BY <3>1, <3>2
  <2>2. \A kept, other \in Merging!Sides :
          LET r == Merging!initialResult(kept, other)
          IN /\ r = [header |-> r.header, description |-> r.description,
                     latest_finish_date |-> r.latest_finish_date, deadline_marker |-> r.deadline_marker]
             /\ [date |-> r.latest_finish_date, marker |-> r.deadline_marker] \in Merging!Deadline
    <3> TAKE kept, other \in Merging!Sides
    <3>1. kept.deadline \in Merging!Deadline /\ other.deadline \in Merging!Deadline
      BY DEF Merging!Sides
    <3>2. \A d \in Merging!Deadline : d = [date |-> d.date, marker |-> d.marker]
      BY DEF Merging!Deadline
    <3>3. QED
      BY <3>1, <3>2 DEF Merging!initialResult
  <2>3. \E other \in Merging!Sides : merged = Merging!initialResult(left, other)
    BY <2>1 DEF Merging!Init
  <2>4. QED
    BY <2>1, <2>2, <2>3 DEF MergeInv
<1>2. MergeInv => Merging!DeadlineWithItsMarker
  <2> SUFFICES ASSUME MergeInv, merged.deadline_marker # NoDate
               PROVE  merged.latest_finish_date = DateOf[merged.deadline_marker]
    BY DEF Merging!DeadlineWithItsMarker
  <2>1. [date |-> merged.latest_finish_date, marker |-> merged.deadline_marker] \in Merging!Deadline
    BY DEF MergeInv
  <2>2. QED
    BY <2>1 DEF Merging!Deadline
<1>3. Init => (page = "merging" => MergeInv)
  BY <1>1, PageInit
<1>4. (page = "merging" => MergeInv) /\ [Next]_vars => (page = "merging" => MergeInv)'
  BY MergeNext, PageNext
<1>5. (page = "merging" => MergeInv) => DeadlineWithItsMarker
  BY <1>2 DEF DeadlineWithItsMarker
<1>6. QED
  BY <1>3, <1>4, <1>5, PTL DEF Spec

-----------------------------------------------------------------------------
(* Dependency editor: the cycle in red.                                    *)

\* Every connection made takes the red away, and only the answer to the last
\* connection brings it back: what is red is of that one.
THEOREM RedIsOfTheNewest == Spec => []RedIsTheLastRefusal
<1> DEFINE Inv == Graph!RedIsTheLastRefusal
<1>1. Graph!Init => Inv
  BY DEF Graph!Init, Graph!NoCycle, Graph!RedIsTheLastRefusal
<1>2. Inv /\ [Graph!Next]_(Graph!vars) => Inv'
  <2> SUFFICES ASSUME Inv, [Graph!Next]_(Graph!vars) PROVE Inv'
    OBVIOUS
  <2> USE DEF Graph!RedIsTheLastRefusal
  <2>1. CASE cycle' = Graph!NoCycle
    BY <2>1 DEF Graph!NoCycle
  <2>2. CASE UNCHANGED <<cycle, tries>>
    BY <2>2
  <2>3. ASSUME NEW i, Graph!Told(i) PROVE Inv'
    <3>1. CASE graphRequests[i].number = tries
      BY <2>3, <3>1 DEF Graph!Told
    <3>2. CASE graphRequests[i].number # tries
      BY <2>2, <2>3, <3>2 DEF Graph!Told
    <3>3. QED
      BY <3>1, <3>2
  <2>4. ASSUME NEW a, NEW b, Graph!OnConnect(a, b) PROVE Inv'
    BY <2>1, <2>4 DEF Graph!OnConnect
  <2>5. CASE Graph!CloseToast
    BY <2>1, <2>5 DEF Graph!CloseToast
  <2>6. ASSUME NEW i, Graph!Served(i) \/ Graph!Created(i) \/ Graph!Deleted(i) \/ Graph!Fetched(i) PROVE Inv'
    BY <2>2, <2>6 DEF Graph!Served, Graph!Created, Graph!Deleted, Graph!Fetched
  <2>7. CASE Graph!OnEdgesDelete \/ Graph!DeleteNode
    BY <2>2, <2>7 DEF Graph!OnEdgesDelete, Graph!DeleteNode, Graph!Removed
  <2>8. CASE Graph!SetFilter \/ Graph!ToggleLinked \/ Graph!Elsewhere \/ UNCHANGED Graph!vars
    BY <2>2, <2>8 DEF Graph!SetFilter, Graph!ToggleLinked, Graph!View, Graph!Elsewhere, Graph!vars
  <2>9. QED
    BY <2>3, <2>4, <2>5, <2>6, <2>7, <2>8 DEF Graph!Next
<1> HIDE DEF Inv
<1>3. Init => (page = "graph" => Inv)
  BY <1>1, PageInit
<1>4. (page = "graph" => Inv) /\ [Next]_vars => (page = "graph" => Inv)'
  BY <1>2, PageNext
<1>5. (page = "graph" => Inv) => RedIsTheLastRefusal
  BY DEF Inv, RedIsTheLastRefusal
<1>6. QED
  BY <1>3, <1>4, <1>5, PTL DEF Spec

-----------------------------------------------------------------------------
(* Filters and the task form: what goes away by itself.                    *)

\* A form is none, or has the number it is told apart by.
FormInv == "number" \in DOMAIN form

\* A form goes by itself, or makes way for the next task, only without changes or
\* when the last save of it was done, whatever else is under way and in whatever
\* order the answers come (TaskFormDialog.tsx).
THEOREM FormGoesOnlySaved == Spec => LeavesOnlySaved
<1>1. Form!Init => FormInv
  BY DEF Form!Init, Form!NoForm, FormInv
<1>2. ASSUME FormInv, [Form!Next]_(Form!vars) PROVE FormInv' /\ Form!GoesOnlySaved
  <2> USE DEF FormInv, Form!GoesOnlySaved
  <2>1. CASE UNCHANGED form
    BY <1>2, <2>1
  <2>2. ASSUME NEW id, Form!Open(id) PROVE FormInv' /\ Form!GoesOnlySaved
    BY <2>2 DEF Form!Open, Form!FormFor
  <2>3. CASE Form!Cancel
    BY <2>3 DEF Form!Cancel, Form!NoForm
  <2>4. ASSUME NEW field, NEW text, Form!Type(field, text) PROVE FormInv' /\ Form!GoesOnlySaved
    <3>1. DOMAIN form' = DOMAIN form /\ form'.number = form.number
      BY <1>2, <2>4 DEF Form!Type
    <3>2. QED
      BY <1>2, <3>1
  <2>5. ASSUME NEW after, Form!Submit(after) PROVE FormInv' /\ Form!GoesOnlySaved
    <3>1. DOMAIN form' = DOMAIN form /\ form'.number = form.number
      BY <1>2, <2>5 DEF Form!Submit
    <3>2. QED
      BY <1>2, <3>1
  <2>6. ASSUME NEW direction, Form!Navigate(direction) PROVE FormInv' /\ Form!GoesOnlySaved
    BY <1>2, <2>5, <2>6 DEF Form!Navigate, Form!WalkTo, Form!FormFor
  <2>7. ASSUME NEW i \in DOMAIN formRequests, Form!Answered(i) PROVE FormInv' /\ Form!GoesOnlySaved
    <3>1. CASE ~ (Form!Mine(formRequests[i]) /\ Form!Latest(i))
      BY <2>1, <2>7, <3>1 DEF Form!Answered
    <3>2. CASE Form!Mine(formRequests[i]) /\ Form!Latest(i) /\ formRequests[i].answer = "done"
      BY <1>2, <2>7, <3>2 DEF Form!Answered, Form!After, Form!WalkTo, Form!FormFor, Form!NoForm
    <3>3. CASE Form!Mine(formRequests[i]) /\ Form!Latest(i) /\ formRequests[i].answer # "done"
      <4>1. DOMAIN form' = DOMAIN form /\ form'.number = form.number
        BY <1>2, <2>7, <3>3 DEF Form!Answered, Form!After
      <4>2. QED
        BY <1>2, <4>1
    <3>4. QED
      BY <3>1, <3>2, <3>3
  <2>8. ASSUME NEW i, Form!Served(i) \/ Form!Lost(i) PROVE FormInv' /\ Form!GoesOnlySaved
    BY <2>1, <2>8 DEF Form!Served, Form!Lost
  <2>9. CASE Form!Refetch \/ Form!Elsewhere \/ Form!SwitchProject \/ UNCHANGED Form!vars
    BY <2>1, <2>9 DEF Form!Refetch, Form!Elsewhere, Form!SwitchProject, Form!vars
  <2>10. CASE Form!TypeHeader \/ Form!TypeHours \/ Form!TypeDeadline \/ Form!ChooseParent
              \/ Form!CheckAppointment \/ Form!TypeStart
    BY <2>4, <2>10 DEF Form!TypeHeader, Form!TypeHours, Form!TypeDeadline, Form!ChooseParent,
                       Form!CheckAppointment, Form!TypeStart
  <2>11. QED
    BY <1>2, <2>2, <2>3, <2>5, <2>6, <2>7, <2>8, <2>9, <2>10 DEF Form!Next, Form!Save
<1>3. Init => (page = "form" => FormInv)
  BY <1>1, PageInit
<1>4. /\ page = "form" => FormInv
      /\ [Next]_vars
      => /\ (page = "form" => FormInv)'
         /\ [page = "form" => Form!GoesOnlySaved]_vars
  BY <1>2, PageNext
<1>5. QED
  BY <1>3, <1>4, PTL DEF Spec, LeavesOnlySaved

\* An open dialog of the filters can say that something failed.
DialogInv == dialog = Bar!NoDialog \/ "error" \in DOMAIN dialog

\* An answer that comes late leaves a dialog that was opened since alone; a
\* dialog closes by itself only when what it sent was done, however often it was
\* sent and however the answers overtake each other (SavedFilters.tsx).
THEOREM DialogsHearOnlyTheirOwn == Spec => DialogsHearTheirOwn
<1>1. Bar!Init => DialogInv
  BY DEF Bar!Init, DialogInv
<1>2. ASSUME DialogInv, [Bar!Next]_(Bar!vars) PROVE DialogInv'
  <2> USE DEF DialogInv
  <2>1. CASE UNCHANGED dialog
    BY <1>2, <2>1 DEF Bar!NoDialog
  <2>2. ASSUME NEW next, Bar!Change(next) PROVE DialogInv'
    BY <2>1, <2>2 DEF Bar!Change, Bar!SavedPart
  <2>3. CASE Bar!Search \/ Bar!Choose \/ Bar!Slide \/ Bar!ClearKind \/ Bar!ClearAll
    BY <2>2, <2>3 DEF Bar!Search, Bar!Choose, Bar!Slide, Bar!ClearKind, Bar!ClearAll
  <2>4. ASSUME NEW id, Bar!Apply(id) \/ Bar!OpenDeleting(id) PROVE DialogInv'
    BY <2>2, <2>4 DEF Bar!Apply, Bar!OpenDeleting, Bar!Opened
  <2>5. CASE Bar!OpenSaving \/ Bar!Cancel \/ Bar!SwitchTab
    <3>1. CASE Bar!OpenSaving
      <4>1. dialog' = [kind |-> "saving", number |-> m8, name |-> "", error |-> FALSE]
        BY <3>1 DEF Bar!OpenSaving, Bar!Opened
      <4>2. QED
        BY <4>1
    <3>2. CASE Bar!Cancel \/ Bar!SwitchTab
      BY <3>2 DEF Bar!Cancel, Bar!SwitchTab, Bar!NoDialog
    <3>3. QED
      BY <2>5, <3>1, <3>2
  <2>6. CASE \/ Bar!SubmitUnnamed \/ \E name \in Names : Bar!TypeName(name)
    <3>1. DOMAIN dialog' = DOMAIN dialog /\ dialog.kind = "saving"
      BY <2>6 DEF Bar!SubmitUnnamed, Bar!TypeName
    <3>2. QED
      BY <1>2, <3>1 DEF Bar!NoDialog
  <2>7. CASE Bar!Submit \/ Bar!ConfirmDelete \/ Bar!Elsewhere \/ Bar!Fetched \/ UNCHANGED Bar!vars
    BY <2>1, <2>7 DEF Bar!Submit, Bar!ConfirmDelete, Bar!Elsewhere, Bar!Fetched, Bar!vars
  <2>8. ASSUME NEW i, Bar!Served(i) PROVE DialogInv'
    BY <2>1, <2>8 DEF Bar!Served
  <2>9. ASSUME NEW i, Bar!Answered(i) PROVE DialogInv'
    <3>1. dialog' \in {dialog, Bar!NoDialog, [dialog EXCEPT !.error = TRUE]}
          /\ (dialog = Bar!NoDialog => dialog' = dialog)
      BY <2>9 DEF Bar!Answered
    <3>2. QED
      BY <1>2, <3>1 DEF Bar!NoDialog
  <2>10. QED
    BY <1>2, <2>3, <2>4, <2>5, <2>6, <2>7, <2>8, <2>9 DEF Bar!Next
<1>3. DialogInv => Bar!HearsItsOwn
  <2> SUFFICES ASSUME DialogInv, NEW i \in DOMAIN barRequests, Bar!Answered(i), dialog' # dialog
               PROVE  /\ barRequests[i].of = dialog.number
                      /\ dialog' = Bar!NoDialog => barRequests[i].answer = "done"
    BY DEF Bar!HearsItsOwn
  <2>1. dialog # Bar!NoDialog /\ "error" \in DOMAIN dialog
    BY DEF Bar!Answered, DialogInv
  <2>2. barRequests[i].of = dialog.number
    BY DEF Bar!Answered
  <2>3. [dialog EXCEPT !.error = TRUE] # Bar!NoDialog
    BY <2>1 DEF Bar!NoDialog
  <2>4. QED
    BY <2>2, <2>3 DEF Bar!Answered
<1>4. Init => (page = "filters" => DialogInv)
  BY <1>1, PageInit
<1>5. /\ page = "filters" => DialogInv
      /\ [Next]_vars
      => /\ (page = "filters" => DialogInv)'
         /\ [page = "filters" => Bar!HearsItsOwn]_vars
  BY <1>2, <1>3, PageNext
<1>6. QED
  BY <1>4, <1>5, PTL DEF Spec, DialogsHearTheirOwn

-----------------------------------------------------------------------------
(* Plan chooser: what is stored, and what is accepted.                     *)

\* A plan that newer ones, or another plan, have replaced is not accepted any
\* more: accepting looks it up again in the transaction that accepts it, also
\* when it was still there as the request began (plan_store.py).
THEOREM ReplacedIsNotAccepted == Spec => ReplacedStaysGone
<1>1. [Chooser!Next]_(Chooser!vars) => Chooser!StoredOnly
  <2> SUFFICES ASSUME [Chooser!Next]_(Chooser!vars) PROVE Chooser!StoredOnly
    OBVIOUS
  <2> USE DEF Chooser!StoredOnly
  <2>1. CASE UNCHANGED accepted
    BY <2>1
  <2>2. ASSUME NEW i, Chooser!AcceptPlan(i) PROVE Chooser!StoredOnly
    BY <2>2 DEF Chooser!AcceptPlan, Chooser!Stored
  <2>3. ASSUME NEW i, Chooser!StoreAlternatives(i) PROVE Chooser!StoredOnly
    BY <2>3 DEF Chooser!StoreAlternatives
  <2>4. CASE Chooser!Elsewhere
    BY <2>4 DEF Chooser!Elsewhere
  <2>5. ASSUME NEW i, \/ Chooser!Choose(i) \/ Chooser!ReadUnaccepted(i) \/ Chooser!GetPlan(i)
                      \/ Chooser!Answered(i) \/ Chooser!Accepted(i) \/ Chooser!Failed(i)
        PROVE  Chooser!StoredOnly
    BY <2>1, <2>5 DEF Chooser!Choose, Chooser!ReadUnaccepted, Chooser!GetPlan, Chooser!Answered,
                      Chooser!Accepted, Chooser!Failed, Chooser!server
  <2>6. CASE Chooser!Open \/ Chooser!Close \/ Chooser!Draw \/ UNCHANGED Chooser!vars
    BY <2>1, <2>6 DEF Chooser!Open, Chooser!Close, Chooser!Draw, Chooser!vars, Chooser!server
  <2>7. QED
    BY <2>2, <2>3, <2>4, <2>5, <2>6 DEF Chooser!Next
<1>2. [Next]_vars => [page = "chooser" => Chooser!StoredOnly]_vars
  BY <1>1, PageNext
<1>3. QED
  BY <1>2, PTL DEF Spec, ReplacedStaysGone

Plan == Nat \X Nat
Alternative == [id : Plan, work : BOOLEAN]
Request == [kind : {"compute", "accept"}, step : {"sent", "read", "done"}, followed : BOOLEAN, seen : SUBSET Plan,
            plan : Plan, answer : Seq(Alternative)]

\* The dialog follows a computation only while it is open.
ChooserInv ==
  /\ candidates \subseteq Plan /\ computed \in Nat /\ open \in BOOLEAN
  /\ compute.alternatives \in Seq(Alternative)
  /\ requests \in Seq(Request)
  /\ \A i \in 1..Len(requests) : requests[i].kind = "compute" /\ requests[i].followed => open

\* A request is sent.
LEMMA SentRequest ==
  ASSUME ChooserInv, NEW r \in Request, requests' = Append(requests, r),
         r.kind = "compute" => open', open => open', open' \in BOOLEAN,
         UNCHANGED <<candidates, computed>>, compute'.alternatives \in Seq(Alternative)
  PROVE  ChooserInv'
<1>1. /\ requests' \in Seq(Request) /\ Len(requests') = Len(requests) + 1 /\ Len(requests) \in Nat
      /\ \A i \in 1..Len(requests) : requests'[i] = requests[i]
      /\ requests'[Len(requests) + 1] = r
  BY AppendProperties DEF ChooserInv
<1>2. \A i \in 1..Len(requests') : i \in 1..Len(requests) \/ i = Len(requests) + 1
  BY <1>1
<1>3. QED
  BY <1>1, <1>2 DEF ChooserInv

\* A request is answered, or lost.
LEMMA GoneRequest ==
  ASSUME ChooserInv, NEW i \in DOMAIN requests
  PROVE  /\ Chooser!RemoveAt(requests, i) \in Seq(Request)
         /\ \A j \in 1..Len(Chooser!RemoveAt(requests, i)) :
              \E k \in 1..Len(requests) : Chooser!RemoveAt(requests, i)[j] = requests[k]
<1>1. requests \in Seq(Request) /\ i \in 1..Len(requests) /\ Len(requests) \in Nat
  BY DEF ChooserInv
<1>2. Chooser!RemoveAt(requests, i) = RemoveAt(requests, i)
  BY DEF Chooser!RemoveAt, RemoveAt
<1> DEFINE s == RemoveAt(requests, i)
<1>3. /\ s \in Seq(Request) /\ Len(s) = Len(requests) - 1
      /\ \A j \in 1..(Len(requests) - 1) : s[j] = IF j < i THEN requests[j] ELSE requests[j + 1]
  BY <1>1, RemovedElements
<1> HIDE DEF s
<1>4. ASSUME NEW j \in 1..Len(s) PROVE \E k \in 1..Len(requests) : s[j] = requests[k]
  <2>1. /\ j \in 1..(Len(requests) - 1) /\ j \in 1..Len(requests) /\ j + 1 \in 1..Len(requests)
    BY <1>1, <1>3
  <2>2. s[j] = requests[j] \/ s[j] = requests[j + 1]
    BY <1>3, <2>1
  <2>3. QED
    BY <2>1, <2>2
<1>5. QED
  BY <1>2, <1>3, <1>4 DEF s

LEMMA UnfollowedRequests ==
  ASSUME ChooserInv
  PROVE  /\ Chooser!Unfollowed \in Seq(Request) /\ Len(Chooser!Unfollowed) = Len(requests)
         /\ \A i \in 1..Len(requests) : Chooser!Unfollowed[i].kind = "compute" => ~ Chooser!Unfollowed[i].followed
<1> DEFINE u(i) == IF requests[i].kind = "compute" THEN [requests[i] EXCEPT !.followed = FALSE] ELSE requests[i]
<1>1. requests \in Seq(Request) /\ Len(requests) \in Nat /\ DOMAIN requests = 1..Len(requests)
  BY DEF ChooserInv
<1>2. \A i \in 1..Len(requests) : u(i) \in Request /\ (u(i).kind = "compute" => ~ u(i).followed)
  <2> TAKE i \in 1..Len(requests)
  <2>1. requests[i] \in Request
    BY <1>1
  <2>2. QED
    BY <2>1 DEF Request
<1>3. Chooser!Unfollowed = [i \in 1..Len(requests) |-> u(i)]
  BY <1>1 DEF Chooser!Unfollowed
<1> HIDE DEF u
<1>4. Chooser!Unfollowed \in Seq(Request)
  BY <1>1, <1>2, <1>3, IsASeq
<1>5. QED
  BY <1>1, <1>2, <1>3, <1>4

\* The server works on a request.
LEMMA WorkedRequest ==
  ASSUME ChooserInv, NEW i \in DOMAIN requests, NEW r \in Request, requests' = [requests EXCEPT ![i] = r],
         r.kind = requests[i].kind, r.followed = requests[i].followed,
         UNCHANGED <<open, compute>>, candidates' \subseteq Plan, computed' \in Nat
  PROVE  ChooserInv'
<1>1. requests \in Seq(Request) /\ i \in 1..Len(requests)
  BY DEF ChooserInv
<1>2. /\ requests' \in Seq(Request) /\ Len(requests') = Len(requests)
      /\ \A j \in 1..Len(requests) : requests'[j] = IF j = i THEN r ELSE requests[j]
  BY <1>1, ExceptSeq
<1>3. QED
  BY <1>1, <1>2 DEF ChooserInv

\* What one computation makes.
LEMMA ComputedPlans ==
  ASSUME NEW number, NEW alternatives \in Chooser!Computed(number)
  PROVE  \E count \in 0..MaxAlternatives, works \in [1..MaxAlternatives -> BOOLEAN] :
           alternatives = [j \in 1..count |-> [id |-> <<number, j>>, work |-> works[j]]]
BY DEF Chooser!Computed

LEMMA ServedRequest ==
  ASSUME ChooserInv, NEW i \in DOMAIN requests,
         \/ Chooser!ReadUnaccepted(i) \/ Chooser!StoreAlternatives(i)
         \/ Chooser!GetPlan(i) \/ Chooser!AcceptPlan(i)
  PROVE  ChooserInv'
<1>1. /\ requests[i] \in Request /\ candidates \subseteq Plan /\ computed \in Nat
  BY DEF ChooserInv
<1>2. CASE Chooser!ReadUnaccepted(i)
  <2> DEFINE r == [requests[i] EXCEPT !.step = "read", !.seen = candidates]
  <2>1. r \in Request /\ r.kind = requests[i].kind /\ r.followed = requests[i].followed
    BY <1>1 DEF Request
  <2>2. requests' = [requests EXCEPT ![i] = r] /\ UNCHANGED <<open, compute, candidates, computed>>
    BY <1>2 DEF Chooser!ReadUnaccepted, Chooser!server, Chooser!dialog
  <2> HIDE DEF r
  <2>3. QED
    BY <1>1, <2>1, <2>2, WorkedRequest
<1>3. CASE Chooser!StoreAlternatives(i)
  <2>1. PICK alternatives \in Chooser!Computed(computed + 1) :
          /\ candidates' = (candidates \ requests[i].seen) \cup Chooser!Ids(alternatives)
          /\ requests' = [requests EXCEPT ![i].step = "done", ![i].answer = alternatives]
    BY <1>3 DEF Chooser!StoreAlternatives
  <2>2. computed' = computed + 1 /\ UNCHANGED <<open, compute>>
    BY <1>3 DEF Chooser!StoreAlternatives, Chooser!dialog
  <2>3. alternatives \in Seq(Alternative)
    <3>1. PICK count \in 0..MaxAlternatives, works \in [1..MaxAlternatives -> BOOLEAN] :
            alternatives = [j \in 1..count |-> [id |-> <<computed + 1, j>>, work |-> works[j]]]
      BY <2>1, ComputedPlans
    <3>2. count \in Nat /\ \A j \in 1..count : j \in 1..MaxAlternatives
      BY PagesAssumption
    <3>3. \A j \in 1..count : [id |-> <<computed + 1, j>>, work |-> works[j]] \in Alternative
      BY <1>1, <3>2 DEF Alternative, Plan
    <3>4. QED
      BY <3>1, <3>2, <3>3, IsASeq
  <2>4. Chooser!Ids(alternatives) \subseteq Plan
    <3>1. \A j \in DOMAIN alternatives : alternatives[j] \in Alternative
      BY <2>3
    <3>2. QED
      BY <3>1 DEF Chooser!Ids, Alternative
  <2> DEFINE r == [requests[i] EXCEPT !.step = "done", !.answer = alternatives]
  <2>5. r \in Request /\ r.kind = requests[i].kind /\ r.followed = requests[i].followed
    BY <1>1, <2>3 DEF Request
  <2>6. requests' = [requests EXCEPT ![i] = r]
    BY <2>1
  <2> HIDE DEF r
  <2>7. candidates' \subseteq Plan /\ computed' \in Nat
    BY <1>1, <2>1, <2>2, <2>4
  <2>8. QED
    BY <2>2, <2>5, <2>6, <2>7, WorkedRequest
<1>4. CASE Chooser!GetPlan(i) \/ Chooser!AcceptPlan(i)
  <2>1. PICK step \in {"read", "done"} : requests' = [requests EXCEPT ![i].step = step]
    BY <1>4 DEF Chooser!GetPlan, Chooser!AcceptPlan
  <2>2. UNCHANGED <<open, compute, computed>> /\ candidates' \subseteq Plan
    BY <1>1, <1>4 DEF Chooser!GetPlan, Chooser!AcceptPlan, Chooser!server, Chooser!dialog
  <2> DEFINE r == [requests[i] EXCEPT !.step = step]
  <2>3. r \in Request /\ r.kind = requests[i].kind /\ r.followed = requests[i].followed
    BY <1>1 DEF Request
  <2>4. requests' = [requests EXCEPT ![i] = r]
    BY <2>1
  <2> HIDE DEF r
  <2>5. QED
    BY <1>1, <2>2, <2>3, <2>4, WorkedRequest
<1>5. QED
  BY <1>2, <1>3, <1>4

LEMMA OnlyPlan ==
  ASSUME NEW alternatives \in Seq(Alternative), Len(alternatives) = 1 PROVE alternatives[1].id \in Plan
<1>1. alternatives[1] \in Alternative
  OBVIOUS
<1>2. QED
  BY <1>1 DEF Alternative

\* What an answer to a computation does: the request goes, and the dialog may
\* accept the only plan, which it does only while it is open.
LEMMA AnsweredRequest ==
  ASSUME ChooserInv, NEW i \in DOMAIN requests, Chooser!Answered(i)
  PROVE  /\ ChooserInv'
         /\ Chooser!AcceptsWhileOpen
<1> DEFINE alternatives == requests[i].answer
           silent == /\ requests[i].followed /\ ~ autoAccepted
                     /\ Len(alternatives) = 1 /\ Chooser!hasScheduledWork(alternatives[1])
           rest == Chooser!RemoveAt(requests, i)
           more == IF silent /\ ~ acceptInFlight THEN <<Chooser!Accept(alternatives[1].id)>> ELSE <<>>
<1>1. /\ compute' = IF requests[i].followed THEN [status |-> "success", alternatives |-> alternatives] ELSE compute
      /\ requests' = rest \o more
      /\ requests[i].kind = "compute"
      /\ UNCHANGED <<candidates, computed, open>>
  BY DEF Chooser!Answered, Chooser!At, Chooser!server
<1>2. requests[i] \in Request /\ (requests[i].followed => open)
  <2>1. i \in 1..Len(requests) /\ requests \in Seq(Request)
    BY DEF ChooserInv
  <2>2. QED
    BY <1>1, <2>1 DEF ChooserInv
<1>3. alternatives \in Seq(Alternative) /\ compute'.alternatives \in Seq(Alternative)
  BY <1>1, <1>2 DEF Request, ChooserInv
<1>4. /\ rest \in Seq(Request)
      /\ \A j \in 1..Len(rest) : \E k \in 1..Len(requests) : rest[j] = requests[k]
  BY GoneRequest
<1>5. /\ more \in Seq(Request)
      /\ \A j \in 1..Len(more) : more[j].kind = "accept"
      /\ more # <<>> => requests[i].followed
  <2>1. CASE silent /\ ~ acceptInFlight
    <3>1. alternatives[1].id \in Plan
      <4>1. Len(alternatives) = 1
        BY <2>1
      <4>2. QED
        BY <1>3, <4>1, OnlyPlan
    <3>2. Chooser!Accept(alternatives[1].id) \in Request /\ Chooser!Accept(alternatives[1].id).kind = "accept"
      <4>1. <<>> \in Seq(Alternative) /\ {} \in SUBSET Plan
        BY EmptySeq
      <4>2. QED
        BY <3>1, <4>1 DEF Chooser!Accept, Request
    <3>3. more = <<Chooser!Accept(alternatives[1].id)>>
      BY <2>1
    <3>4. QED
      BY <2>1, <3>2, <3>3
  <2>2. CASE ~ (silent /\ ~ acceptInFlight)
    <3>1. more = <<>>
      BY <2>2
    <3>2. QED
      BY <3>1, EmptySeq
  <2>3. QED
    BY <2>1, <2>2
<1> HIDE DEF silent, rest, more, alternatives
<1>6. /\ requests' \in Seq(Request) /\ Len(requests') = Len(rest) + Len(more)
      /\ \A j \in 1..Len(requests') : requests'[j] = IF j <= Len(rest) THEN rest[j] ELSE more[j - Len(rest)]
  BY <1>1, <1>4, <1>5, ConcatProperties
<1>7. ASSUME NEW j \in 1..Len(requests')
      PROVE  (\E k \in 1..Len(requests) : requests'[j] = requests[k])
               \/ (requests'[j].kind = "accept" /\ open)
  <2>1. Len(rest) \in Nat /\ Len(more) \in Nat
    BY <1>4, <1>5
  <2>2. CASE j <= Len(rest)
    <3>1. j \in 1..Len(rest) /\ requests'[j] = rest[j]
      BY <1>6, <2>1, <2>2
    <3>2. QED
      BY <1>4, <3>1
  <2>3. CASE ~ (j <= Len(rest))
    <3>1. j - Len(rest) \in 1..Len(more) /\ requests'[j] = more[j - Len(rest)]
      BY <1>6, <2>1, <2>3
    <3>2. more # <<>>
      BY <2>1, <3>1
    <3>3. QED
      BY <1>2, <1>5, <3>1, <3>2
  <2>4. QED
    BY <2>2, <2>3
<1>8. ChooserInv'
  <2>1. \A j \in 1..Len(requests') : requests'[j].kind = "compute" /\ requests'[j].followed => open'
    <3> TAKE j \in 1..Len(requests')
    <3>1. \A k \in 1..Len(requests) : requests[k].kind = "compute" /\ requests[k].followed => open
      BY DEF ChooserInv
    <3>2. QED
      BY <1>1, <1>7, <3>1
  <2>2. QED
    BY <1>1, <1>3, <1>6, <2>1 DEF ChooserInv
<1>9. Chooser!AcceptsWhileOpen
  <2> SUFFICES ASSUME Chooser!Accepting', ~ Chooser!Accepting PROVE open
    BY DEF Chooser!AcceptsWhileOpen
  <2>1. PICK j \in 1..Len(requests') : requests'[j].kind = "accept"
    BY <1>6 DEF Chooser!Accepting
  <2>2. \A k \in 1..Len(requests) : requests[k].kind # "accept"
    BY DEF Chooser!Accepting, ChooserInv
  <2>3. QED
    BY <1>7, <2>1, <2>2
<1>10. QED
  BY <1>8, <1>9

\* An accept is answered, or a request lost: nothing is asked anew.
LEMMA EndedRequest ==
  ASSUME ChooserInv, NEW i \in DOMAIN requests, Chooser!Accepted(i) \/ Chooser!Failed(i)
  PROVE  /\ ChooserInv'
         /\ Chooser!AcceptsWhileOpen
<1>1. CASE Chooser!Accepted(i)
  <2>1. /\ requests' = Chooser!RemoveAt(Chooser!Unfollowed, i) /\ requests[i].kind = "accept"
        /\ open' = FALSE /\ compute' = Chooser!Idle /\ UNCHANGED <<candidates, computed>>
    BY <1>1 DEF Chooser!Accepted, Chooser!At, Chooser!server
  <2>2. /\ Chooser!Unfollowed \in Seq(Request) /\ Len(Chooser!Unfollowed) = Len(requests)
        /\ \A j \in 1..Len(requests) : Chooser!Unfollowed[j].kind = "compute" => ~ Chooser!Unfollowed[j].followed
    BY UnfollowedRequests
  <2>3. i \in 1..Len(requests) /\ Len(requests) \in Nat
    BY DEF ChooserInv
  <2> DEFINE u == Chooser!Unfollowed
             s == RemoveAt(u, i)
  <2>4. requests' = s
    BY <2>1 DEF Chooser!RemoveAt, RemoveAt
  <2> HIDE DEF u
  <2>5. /\ s \in Seq(Request) /\ Len(s) = Len(requests) - 1
        /\ \A j \in 1..(Len(requests) - 1) : s[j] = IF j < i THEN u[j] ELSE u[j + 1]
    BY <2>2, <2>3, RemovedElements DEF u
  <2> HIDE DEF s
  <2>6. \A j \in 1..Len(s) : s[j].kind = "compute" => ~ s[j].followed
    <3> TAKE j \in 1..Len(s)
    <3>1. j \in 1..(Len(requests) - 1) /\ j \in 1..Len(requests) /\ j + 1 \in 1..Len(requests)
      BY <2>3, <2>5
    <3>2. s[j] = u[j] \/ s[j] = u[j + 1]
      BY <2>5, <3>1
    <3>3. QED
      BY <2>2, <3>1, <3>2 DEF u
  <2>7. compute'.alternatives \in Seq(Alternative)
    BY <2>1, EmptySeq DEF Chooser!Idle
  <2>8. ChooserInv'
    BY <2>1, <2>4, <2>5, <2>6, <2>7 DEF ChooserInv
  <2>9. Chooser!AcceptsWhileOpen
    BY <2>1 DEF Chooser!AcceptsWhileOpen, Chooser!Accepting
  <2>10. QED
    BY <2>8, <2>9
<1>2. CASE Chooser!Failed(i)
  <2> DEFINE s == Chooser!RemoveAt(requests, i)
  <2>1. /\ requests' = s /\ UNCHANGED <<candidates, computed, open>>
        /\ compute' \in {compute, [Chooser!Idle EXCEPT !.status = "error"]}
    BY <1>2 DEF Chooser!Failed, Chooser!server
  <2>2. compute'.alternatives \in Seq(Alternative)
    BY <2>1, EmptySeq DEF Chooser!Idle, ChooserInv
  <2>3. /\ s \in Seq(Request)
        /\ \A j \in 1..Len(s) : \E k \in 1..Len(requests) : s[j] = requests[k]
    BY GoneRequest
  <2> HIDE DEF s
  <2>4. \A j \in 1..Len(s) : s[j].kind = "compute" /\ s[j].followed => open
    BY <2>3 DEF ChooserInv
  <2>5. ChooserInv'
    BY <2>1, <2>2, <2>3, <2>4 DEF ChooserInv
  <2>6. Chooser!Accepting' => Chooser!Accepting
    <3>1. DOMAIN s = 1..Len(s) /\ DOMAIN requests = 1..Len(requests)
      BY <2>3 DEF ChooserInv
    <3>2. QED
      BY <2>1, <2>3, <3>1 DEF Chooser!Accepting
  <2>7. QED
    BY <2>5, <2>6 DEF Chooser!AcceptsWhileOpen
<1>3. QED
  BY <1>1, <1>2

\* What the user does in the dialog.
LEMMA DialogRequest ==
  ASSUME ChooserInv,
         \/ Chooser!Open \/ Chooser!Close \/ Chooser!Draw
         \/ \E i \in DOMAIN compute.alternatives : Chooser!Choose(i)
  PROVE  /\ ChooserInv'
         /\ Chooser!AcceptsWhileOpen
<1>1. \A kind \in {"compute", "accept"}, plan \in Plan :
        [kind |-> kind, step |-> "sent", followed |-> TRUE, seen |-> {}, plan |-> plan, answer |-> <<>>] \in Request
  <2>1. <<>> \in Seq(Alternative) /\ {} \in SUBSET Plan
    BY EmptySeq
  <2>2. QED
    BY <2>1 DEF Request
<1>2. CASE Chooser!Open
  <2> DEFINE r == [kind |-> "compute", step |-> "sent", followed |-> TRUE, seen |-> {},
                   plan |-> Chooser!NoPlan, answer |-> <<>>]
  <2>1. /\ open' = TRUE /\ requests' = Append(requests, r) /\ compute'.alternatives = <<>>
        /\ UNCHANGED <<candidates, computed>>
    BY <1>2 DEF Chooser!Open, Chooser!server
  <2>2. Chooser!NoPlan \in Plan
    BY DEF Chooser!NoPlan, Plan
  <2>3. r \in Request /\ r.kind = "compute"
    BY <1>1, <2>2
  <2> HIDE DEF r
  <2>4. ChooserInv'
    BY <2>1, <2>3, SentRequest, EmptySeq
  <2>5. Chooser!Accepting' => Chooser!Accepting
    <3>1. /\ Len(requests') = Len(requests) + 1 /\ Len(requests) \in Nat
          /\ DOMAIN requests = 1..Len(requests) /\ DOMAIN requests' = 1..Len(requests')
          /\ \A i \in 1..Len(requests) : requests'[i] = requests[i]
          /\ requests'[Len(requests) + 1] = r
      BY <2>1, <2>3, AppendProperties DEF ChooserInv
    <3>2. \A i \in DOMAIN requests' : i \in DOMAIN requests \/ i = Len(requests) + 1
      BY <3>1
    <3>3. QED
      BY <2>3, <3>1, <3>2 DEF Chooser!Accepting
  <2>6. QED
    BY <2>4, <2>5 DEF Chooser!AcceptsWhileOpen
<1>3. CASE Chooser!Close
  <2>1. /\ open /\ open' = FALSE /\ requests' = Chooser!Unfollowed /\ compute' = Chooser!Idle
        /\ UNCHANGED <<candidates, computed>>
    BY <1>3 DEF Chooser!Close, Chooser!server
  <2>2. compute'.alternatives \in Seq(Alternative)
    BY <2>1, EmptySeq DEF Chooser!Idle
  <2>3. ChooserInv'
    BY <2>1, <2>2, UnfollowedRequests DEF ChooserInv
  <2>4. QED
    BY <2>1, <2>3 DEF Chooser!AcceptsWhileOpen
<1>4. CASE Chooser!Draw
  <2>1. UNCHANGED <<candidates, computed, requests, open, compute>>
    BY <1>4 DEF Chooser!Draw, Chooser!server
  <2>2. QED
    BY <2>1 DEF ChooserInv, Chooser!AcceptsWhileOpen, Chooser!Accepting
<1>5. ASSUME NEW i \in DOMAIN compute.alternatives, Chooser!Choose(i)
      PROVE  ChooserInv' /\ Chooser!AcceptsWhileOpen
  <2> DEFINE r == Chooser!Accept(compute.alternatives[i].id)
  <2>1. /\ open /\ UNCHANGED <<candidates, computed, open, compute>> /\ requests' = Append(requests, r)
    BY <1>5 DEF Chooser!Choose, Chooser!server
  <2>2. compute.alternatives[i].id \in Plan
    <3>1. compute.alternatives[i] \in Alternative
      BY DEF ChooserInv
    <3>2. QED
      BY <3>1 DEF Alternative
  <2>3. r \in Request /\ r.kind = "accept"
    BY <1>1, <2>2 DEF Chooser!Accept
  <2> HIDE DEF r
  <2>4. compute'.alternatives \in Seq(Alternative) /\ open' \in BOOLEAN
    BY <2>1 DEF ChooserInv
  <2>5. ChooserInv'
    BY <2>1, <2>3, <2>4, SentRequest
  <2>6. QED
    BY <2>1, <2>5 DEF Chooser!AcceptsWhileOpen
<1>6. QED
  BY <1>2, <1>3, <1>4, <1>5

LEMMA ChooserNext ==
  ASSUME ChooserInv, [Chooser!Next]_(Chooser!vars)
  PROVE  ChooserInv' /\ Chooser!AcceptsWhileOpen
<1>1. ASSUME NEW i \in DOMAIN requests,
             \/ Chooser!ReadUnaccepted(i) \/ Chooser!StoreAlternatives(i)
             \/ Chooser!GetPlan(i) \/ Chooser!AcceptPlan(i)
      PROVE  ChooserInv' /\ Chooser!AcceptsWhileOpen
  <2>1. ChooserInv'
    BY <1>1, ServedRequest
  <2>2. \A j \in DOMAIN requests' : j \in DOMAIN requests /\ requests'[j].kind = requests[j].kind
    <3>1. \E step \in {"read", "done"} :
            \/ requests' = [requests EXCEPT ![i].step = step]
            \/ \E s : requests' = [requests EXCEPT ![i].step = step, ![i].seen = s]
            \/ \E a : requests' = [requests EXCEPT ![i].step = step, ![i].answer = a]
      BY <1>1 DEF Chooser!ReadUnaccepted, Chooser!StoreAlternatives, Chooser!GetPlan, Chooser!AcceptPlan
    <3>2. requests[i] \in Request
      BY DEF ChooserInv
    <3>3. QED
      BY <3>1, <3>2 DEF Request
  <2>3. QED
    BY <2>1, <2>2 DEF Chooser!AcceptsWhileOpen, Chooser!Accepting
<1>2. CASE Chooser!Elsewhere
  <2>1. UNCHANGED <<requests, open, compute>>
    BY <1>2 DEF Chooser!Elsewhere, Chooser!dialog
  <2>2. candidates' \subseteq Plan /\ computed' \in Nat
    <3>1. computed + 1 \in Nat /\ <<computed + 1, 1>> \in Plan
      BY DEF ChooserInv, Plan
    <3>2. QED
      BY <1>2, <3>1 DEF Chooser!Elsewhere, ChooserInv
  <2>3. QED
    BY <2>1, <2>2 DEF ChooserInv, Chooser!AcceptsWhileOpen, Chooser!Accepting
<1>3. CASE UNCHANGED Chooser!vars
  BY <1>3 DEF Chooser!vars, Chooser!server, Chooser!dialog, ChooserInv, Chooser!AcceptsWhileOpen, Chooser!Accepting
<1>4. QED
  BY <1>1, <1>2, <1>3, PagesAssumption, DialogRequest, AnsweredRequest, EndedRequest DEF Chooser!Next

\* Closing the dialog while it computes plans nothing: no plan is accepted on an
\* answer that comes afterwards, whenever the dialog is opened and closed and
\* however the answers overtake each other (PlanChooserDialog.tsx: closing
\* resets the computation).
THEOREM ClosedAcceptsNothing == Spec => CancelledPlansNothing
<1>1. Chooser!Init => ChooserInv
  <2> SUFFICES ASSUME Chooser!Init PROVE ChooserInv
    OBVIOUS
  <2>1. candidates = {} /\ computed = 0 /\ requests = <<>> /\ open = FALSE /\ compute = Chooser!Idle
    BY DEF Chooser!Init
  <2>2. requests \in Seq(Request) /\ Len(requests) = 0 /\ compute.alternatives \in Seq(Alternative)
    BY <2>1, EmptySeq DEF Chooser!Idle
  <2>3. \A i \in 1..Len(requests) : FALSE
    BY <2>2
  <2>4. QED
    BY <2>1, <2>2, <2>3 DEF ChooserInv
<1>2. Init => (page = "chooser" => ChooserInv)
  BY <1>1, PageInit
<1>3. /\ page = "chooser" => ChooserInv
      /\ [Next]_vars
      => /\ (page = "chooser" => ChooserInv)'
         /\ [page = "chooser" => Chooser!AcceptsWhileOpen]_vars
  BY ChooserNext, PageNext
<1>4. QED
  BY <1>2, <1>3, PTL DEF Spec, CancelledPlansNothing

-----------------------------------------------------------------------------
(* Tracked time: moments, and what a row shows of them.                    *)

LEMMA Products == ASSUME NEW a \in Nat, NEW b \in Nat PROVE a * b \in Nat
OBVIOUS

LEMMA Division ==
  ASSUME NEW m \in Nat \ {0}, NEW s \in Nat
  PROVE  s \div m \in Nat /\ s % m \in 0..(m - 1) /\ s = m * (s \div m) + (s % m)
OBVIOUS

LEMMA RemainderIsUnique ==
  ASSUME NEW m \in Nat \ {0}, NEW q \in Nat, NEW p \in Nat,
         NEW b \in 0..(m - 1), NEW c \in 0..(m - 1), m * q + b = m * p + c
  PROVE  b = c
<1>1. CASE q = p
  BY <1>1
<1>2. CASE q < p
  <2>1. PICK d \in Nat : p = q + d /\ d >= 1
    <3>1. p - q \in Nat /\ p = q + (p - q) /\ p - q >= 1
      BY <1>2
    <3>2. QED
      BY <3>1
  <2>2. m * p = m * q + m * d /\ m * d >= m
    BY <2>1
  <2>3. QED
    BY <2>2
<1>3. CASE p < q
  <2>1. PICK d \in Nat : q = p + d /\ d >= 1
    <3>1. q - p \in Nat /\ q = p + (q - p) /\ q - p >= 1
      BY <1>3
    <3>2. QED
      BY <3>1
  <2>2. m * q = m * p + m * d /\ m * d >= m
    BY <2>1
  <2>3. QED
    BY <2>2
<1>4. QED
  BY <1>1, <1>2, <1>3

\* A day is a whole number of minutes.
WholeMinutes ==
  /\ Minute \in Nat \ {0}
  /\ \E k \in Nat \ {0} : DayLength = k * Minute
  /\ Sessions \subseteq [start : Nat, end : Nat \cup {Time!NoEnd}] /\ Dates \subseteq Nat

LEMMA DayOfMinutes == WholeMinutes
<1>1. Minute \in Nat \ {0} /\ DayLength \in Nat \ {0} /\ DayLength % Minute = 0
  BY PagesAssumption
<1>2. /\ DayLength \div Minute \in Nat
      /\ DayLength = Minute * (DayLength \div Minute) + (DayLength % Minute)
  BY <1>1, Division
<1>3. /\ DayLength = (DayLength \div Minute) * Minute
      /\ DayLength \div Minute # 0
  BY <1>1, <1>2
<1>4. QED
  BY <1>1, <1>2, <1>3, PagesAssumption DEF WholeMinutes, Time!NoEnd

\* The day and the minute of a moment give it back without its seconds.
LEMMA DayAndMinute ==
  ASSUME NEW s \in Nat
  PROVE  Time!toDateInput(s) * DayLength + Time!toTimeInput(s) * Minute = s - (s % Minute)
<1>1. PICK k \in Nat \ {0} : DayLength = k * Minute
  BY DayOfMinutes DEF WholeMinutes
<1> DEFINE q == s \div DayLength
           r == s % DayLength
           a == r \div Minute
           b == r % Minute
           p == s \div Minute
           c == s % Minute
<1>2. Minute \in Nat \ {0} /\ DayLength \in Nat \ {0}
  BY DayOfMinutes, PagesAssumption DEF WholeMinutes
<1>3. q \in Nat /\ r \in Nat /\ s = DayLength * q + r
  BY <1>2, Division
<1>4. p \in Nat /\ c \in 0..(Minute - 1) /\ s = Minute * p + c
  BY <1>2, Division
<1> HIDE DEF q, r, p, c
<1>5. a \in Nat /\ b \in 0..(Minute - 1) /\ r = Minute * a + b
  BY <1>2, <1>3, Division
<1> HIDE DEF a, b
<1>6. k * q + a \in Nat
  BY <1>3, <1>5, Products
<1>7. s = Minute * (k * q + a) + b
  <2>1. DayLength * q = Minute * (k * q)
    BY <1>1, <1>2, <1>3
  <2>2. Minute * (k * q + a) = Minute * (k * q) + Minute * a
    BY <1>2, <1>3, <1>5
  <2>3. QED
    BY <1>2, <1>3, <1>5, <2>1, <2>2
<1>8. b = c
  BY <1>2, <1>4, <1>5, <1>6, <1>7, RemainderIsUnique
<1>9. q * DayLength + a * Minute = s - c
  <2>1. q * DayLength = DayLength * q /\ a * Minute = Minute * a
    BY <1>2, <1>3, <1>5
  <2>2. DayLength * q \in Nat /\ Minute * a \in Nat /\ c \in Int
    BY <1>2, <1>3, <1>4, <1>5, Products
  <2>3. QED
    BY <1>3, <1>5, <1>8, <2>1, <2>2
<1>10. Time!toDateInput(s) = q /\ Time!toTimeInput(s) = a
  BY DEF q, r, a, Time!toDateInput, Time!toTimeInput
<1>11. QED
  BY <1>9, <1>10 DEF c

Moment == Nat \cup {-1}
Session == [start : Nat, end : Moment]
Sending == [start : Nat, end : Moment, mine : BOOLEAN]

\* A field that was not typed in shows the session.
TimeInv ==
  /\ stored \in Session /\ session \in Session
  /\ date \in Moment /\ from \in Moment /\ until \in Moment
  /\ "date" \notin typed => date = Time!toDateInput(session.start)
  /\ "from" \notin typed => from = Time!toTimeInput(session.start)
  /\ "until" \notin typed => until = Time!initialUntil(session)
  /\ saves \in Seq(Sending)

LEMMA Fields ==
  ASSUME NEW s \in Session
  PROVE  /\ Time!toDateInput(s.start) \in Nat /\ Time!toTimeInput(s.start) \in Nat
         /\ Time!initialUntil(s) \in Moment
         /\ s.end # -1 => Time!initialUntil(s) \in Nat
<1>1. /\ Minute \in Nat \ {0} /\ DayLength \in Nat \ {0}
      /\ s.start \in Nat /\ s.end \in Moment
  BY DayOfMinutes, PagesAssumption DEF WholeMinutes, Session
<1>2. \A t \in Nat : t \div DayLength \in Nat /\ (t % DayLength) \div Minute \in Nat
  <2> TAKE t \in Nat
  <2>1. DayLength \in Nat \ {0}
    BY <1>1
  <2>2. t \div DayLength \in Nat /\ t % DayLength \in 0..(DayLength - 1)
    BY <2>1, Division
  <2>3. t % DayLength \in Nat
    BY <2>1, <2>2
  <2>4. QED
    BY <1>1, <2>2, <2>3, Division
<1>3. QED
  BY <1>1, <1>2 DEF Time!toDateInput, Time!toTimeInput, Time!initialUntil, Time!NoEnd, Time!Blank, Moment

\* A row that appears shows its session.
LEMMA ShownRow ==
  ASSUME TimeInv, NEW s \in Session, Time!Shows(s), stored' = stored, saves' \in Seq(Sending)
  PROVE  TimeInv'
<1>1. /\ Time!toDateInput(s.start) \in Moment /\ Time!toTimeInput(s.start) \in Moment
      /\ Time!initialUntil(s) \in Moment
  BY Fields DEF Moment
<1>2. /\ session' = s /\ date' = Time!toDateInput(s.start) /\ from' = Time!toTimeInput(s.start)
      /\ until' = Time!initialUntil(s)
  BY DEF Time!Shows
<1>3. /\ Time!toDateInput(s.start)' = Time!toDateInput(s.start)
      /\ Time!toTimeInput(s.start)' = Time!toTimeInput(s.start)
      /\ Time!initialUntil(s)' = Time!initialUntil(s)
  BY DEF Time!toDateInput, Time!toTimeInput, Time!initialUntil
<1>4. stored' \in Session
  BY DEF TimeInv
<1>5. QED
  BY <1>1, <1>2, <1>3, <1>4 DEF TimeInv

\* Spans of days and minutes are moments.
LEMMA Spans ==
  ASSUME NEW d \in Nat, NEW f \in Nat, NEW u \in Moment
  PROVE  /\ Time!composeSpan(d, f, u) \in Session
         /\ Time!composeSpan(d, f, u).start = d * DayLength + f * Minute
         /\ u # -1 => Time!composeSpan(d, f, u).end \in Nat
<1>1. Minute \in Nat /\ DayLength \in Nat
  BY DayOfMinutes, PagesAssumption DEF WholeMinutes
<1>2. d * DayLength \in Nat /\ f * Minute \in Nat /\ (u # -1 => u * Minute \in Nat)
  BY <1>1, Products DEF Moment
<1> DEFINE first == d * DayLength + f * Minute
           later == d * DayLength + u * Minute + (IF Time!untilNextDay(f, u) THEN DayLength ELSE 0)
<1>3. first \in Nat /\ (u # -1 => later \in Nat)
  BY <1>1, <1>2
<1>4. Time!composeSpan(d, f, u) = [start |-> first, end |-> IF u = -1 THEN -1 ELSE later]
  BY DEF Time!composeSpan, Time!Blank, Time!NoEnd
<1> HIDE DEF first, later
<1>5. QED
  BY <1>3, <1>4 DEF Session, Moment, first

\* What is sent of a row that is saved.
LEMMA SavedRow ==
  ASSUME TimeInv, Time!Save
  PROVE  /\ TimeInv'
         /\ Time!KeepsWhatWasLeftAlone
<1>1. /\ UNCHANGED <<stored, session, date, from, until, typed>>
      /\ session \in Session /\ saves \in Seq(Sending)
      /\ date \in Moment /\ from \in Moment /\ until \in Moment
  BY DEF Time!Save, TimeInv
<1>2. CASE date = Time!Blank \/ from = Time!Blank \/ (until = Time!Blank /\ session.end # Time!NoEnd)
  <2>1. saves' = saves
    BY <1>2 DEF Time!Save
  <2>2. TimeInv'
    BY <1>1, <2>1 DEF TimeInv, Time!toDateInput, Time!toTimeInput, Time!initialUntil
  <2>3. ~ Time!Sends
    BY <1>1, <2>1 DEF Time!Sends
  <2>4. QED
    BY <2>2, <2>3 DEF Time!KeepsWhatWasLeftAlone
<1>3. CASE ~ (date = Time!Blank \/ from = Time!Blank \/ (until = Time!Blank /\ session.end # Time!NoEnd))
  <2> DEFINE span == Time!composeSpan(date, from, until)
             sent == [start |-> Time!keepSeconds(span.start, session.start),
                      end |-> IF span.end = Time!NoEnd THEN Time!NoEnd
                              ELSE Time!keepSeconds(span.end, session.end),
                      mine |-> TRUE]
  <2>1. date \in Nat /\ from \in Nat /\ (until = -1 => session.end = -1)
    BY <1>1, <1>3 DEF Moment, Time!Blank, Time!NoEnd
  <2>2. saves' = Append(saves, sent)
    BY <1>3 DEF Time!Save
  <2>3. span \in Session /\ span.start = date * DayLength + from * Minute /\ (until # -1 => span.end \in Nat)
    BY <1>1, <2>1, Spans
  <2> HIDE DEF span
  <2>4. session.start \in Nat /\ session.end \in Moment /\ span.start \in Nat /\ span.end \in Moment
    BY <1>1, <2>3 DEF Session
  <2>5. sent \in Sending
    BY <2>4 DEF Sending, Moment, Time!keepSeconds, Time!NoEnd
  <2>6. /\ sent.start = Time!keepSeconds(span.start, session.start)
        /\ sent.end = IF span.end = Time!NoEnd THEN Time!NoEnd ELSE Time!keepSeconds(span.end, session.end)
    OBVIOUS
  <2> HIDE DEF sent
  <2>7. saves' \in Seq(Sending) /\ Time!Sent = sent
    BY <1>1, <2>2, <2>5, AppendProperties DEF Time!Sent
  <2>8. TimeInv'
    BY <1>1, <2>7 DEF TimeInv, Time!toDateInput, Time!toTimeInput, Time!initialUntil
  <2>9. ASSUME typed \subseteq {"until"} PROVE sent.start = session.start
    <3>1. date = Time!toDateInput(session.start) /\ from = Time!toTimeInput(session.start)
      BY <2>9 DEF TimeInv
    <3>2. span.start = session.start - (session.start % Minute)
      BY <2>3, <2>4, <3>1, DayAndMinute
    <3>3. QED
      BY <2>4, <2>6, <3>2 DEF Time!keepSeconds, Time!NoEnd
  <2>10. ASSUME typed \subseteq {"from"}, Time!ReadsBack(session),
                Time!untilNextDay(from, until) = Time!untilNextDay(Time!toTimeInput(session.start), until)
         PROVE  sent.end = session.end
    <3>1. /\ date = Time!toDateInput(session.start) /\ until = Time!initialUntil(session)
      BY <2>10 DEF TimeInv
    <3>2. session.end # -1 /\ until # -1
      BY <1>1, <2>10, <3>1, Fields DEF Time!ReadsBack, Time!NoEnd
    <3>3. span.end = Time!composeSpan(date, Time!toTimeInput(session.start), until).end
      BY <2>10 DEF span, Time!composeSpan
    <3>4. span.end = session.end - (session.end % Minute)
      BY <2>10, <3>1, <3>3 DEF Time!ReadsBack
    <3>5. span.end \in Nat
      BY <2>3, <3>2
    <3>6. QED
      BY <2>4, <2>6, <3>2, <3>4, <3>5 DEF Time!keepSeconds, Time!NoEnd
  <2>11. QED
    BY <2>7, <2>8, <2>9, <2>10 DEF Time!KeepsWhatWasLeftAlone
<1>4. QED
  BY <1>2, <1>3

\* A request that is answered is under way no more.
LEMMA AnsweredSave ==
  ASSUME NEW i \in DOMAIN saves, saves \in Seq(Sending)
  PROVE  Time!RemoveAt(saves, i) \in Seq(Sending) /\ Len(Time!RemoveAt(saves, i)) = Len(saves) - 1
<1>1. i \in 1..Len(saves)
  OBVIOUS
<1>2. Time!RemoveAt(saves, i) = RemoveAt(saves, i)
  BY DEF Time!RemoveAt, RemoveAt
<1>3. QED
  BY <1>1, <1>2, RemovedElements

LEMMA TimeNext ==
  ASSUME TimeInv, [Time!Next]_(Time!vars)
  PROVE  TimeInv' /\ Time!KeepsWhatWasLeftAlone
<1>0. saves \in Seq(Sending) /\ stored \in Session /\ session \in Session /\ Len(saves) \in Nat
  BY DEF TimeInv
<1>1. ASSUME TimeInv', Len(saves') <= Len(saves) PROVE TimeInv' /\ Time!KeepsWhatWasLeftAlone
  <2>1. ~ Time!Sends
    BY <1>0, <1>1 DEF Time!Sends, TimeInv
  <2>2. QED
    BY <1>1, <2>1 DEF Time!KeepsWhatWasLeftAlone
<1>2. ASSUME UNCHANGED <<stored, session, date, from, until, typed>>, saves' \in Seq(Sending),
             Len(saves') <= Len(saves)
      PROVE  TimeInv' /\ Time!KeepsWhatWasLeftAlone
  <2>1. TimeInv'
    BY <1>2 DEF TimeInv, Time!toDateInput, Time!toTimeInput, Time!initialUntil
  <2>2. QED
    BY <1>1, <1>2, <2>1
<1>3. ASSUME NEW d \in Dates \cup {Time!Blank}, Time!SetDate(d)
      PROVE  TimeInv' /\ Time!KeepsWhatWasLeftAlone
  <2>1. d \in Moment
    BY DayOfMinutes DEF WholeMinutes, Time!Blank, Moment
  <2>2. TimeInv' /\ saves' = saves
    BY <1>3, <2>1 DEF Time!SetDate, TimeInv, Time!toDateInput, Time!toTimeInput, Time!initialUntil
  <2>3. QED
    BY <1>0, <1>1, <2>2
<1>4. ASSUME NEW f \in Time!Clock \cup {Time!Blank}, Time!SetFrom(f) \/ Time!SetUntil(f)
      PROVE  TimeInv' /\ Time!KeepsWhatWasLeftAlone
  <2>1. f \in Moment
    BY DEF Time!Clock, Time!Blank, Moment
  <2>2. TimeInv' /\ saves' = saves
    BY <1>4, <2>1 DEF Time!SetFrom, Time!SetUntil, TimeInv, Time!toDateInput, Time!toTimeInput, Time!initialUntil
  <2>3. QED
    BY <1>0, <1>1, <2>2
<1>5. CASE Time!Undo
  <2>1. TimeInv' /\ saves' = saves
    BY <1>0, <1>5, ShownRow DEF Time!Undo
  <2>2. QED
    BY <1>0, <1>1, <2>1
<1>6. CASE Time!Refetch
  <2>1. Time!Shows(stored) /\ stored' = stored /\ saves' = Time!Disowned
    BY <1>6 DEF Time!Refetch
  <2>2. saves' \in Seq(Sending) /\ Len(saves') = Len(saves)
    <3>1. \A i \in 1..Len(saves) : [saves[i] EXCEPT !.mine = FALSE] \in Sending
      <4> TAKE i \in 1..Len(saves)
      <4>1. saves[i] \in Sending
        BY <1>0
      <4>2. QED
        BY <4>1 DEF Sending
    <3>2. saves' = [i \in 1..Len(saves) |-> [saves[i] EXCEPT !.mine = FALSE]]
      BY <1>0, <2>1 DEF Time!Disowned
    <3>3. saves' \in Seq(Sending)
      BY <1>0, <3>1, <3>2, IsASeq
    <3>4. QED
      BY <1>0, <3>2, <3>3
  <2>3. TimeInv'
    BY <1>0, <2>1, <2>2, ShownRow
  <2>4. QED
    BY <1>0, <1>1, <2>2, <2>3
<1>7. ASSUME NEW i \in DOMAIN saves, NEW taken \in BOOLEAN, Time!Saved(i, taken)
      PROVE  TimeInv' /\ Time!KeepsWhatWasLeftAlone
  <2>1. /\ stored' \in {stored, [start |-> saves[i].start, end |-> saves[i].end]}
        /\ saves' = Time!RemoveAt(saves, i)
        /\ UNCHANGED <<session, date, from, until, typed>>
    BY <1>7 DEF Time!Saved
  <2>2. stored' \in Session
    <3>1. saves[i] \in Sending
      BY <1>0
    <3>2. QED
      BY <1>0, <2>1, <3>1 DEF Sending, Session
  <2>3. saves' \in Seq(Sending) /\ Len(saves') <= Len(saves)
    BY <1>0, <2>1, AnsweredSave
  <2>4. TimeInv'
    BY <2>1, <2>2, <2>3 DEF TimeInv, Time!toDateInput, Time!toTimeInput, Time!initialUntil
  <2>5. QED
    BY <1>1, <2>3, <2>4
<1>8. ASSUME NEW s \in Sessions, Time!CorrectedElsewhere(s)
      PROVE  TimeInv' /\ Time!KeepsWhatWasLeftAlone
  <2>1. stored' \in Session /\ UNCHANGED <<session, date, from, until, typed, saves>>
    BY DayOfMinutes, <1>8 DEF Time!CorrectedElsewhere, Time!row, WholeMinutes, Session, Moment, Time!NoEnd
  <2>2. TimeInv'
    BY <2>1 DEF TimeInv, Time!toDateInput, Time!toTimeInput, Time!initialUntil
  <2>3. QED
    BY <1>0, <1>1, <2>1, <2>2
<1>9. ASSUME \/ \E f, u \in {Time!Blank, 0} : Time!TypeDraft(f, u)
             \/ Time!Add \/ \E taken \in BOOLEAN : Time!Added(taken)
             \/ UNCHANGED Time!vars
      PROVE  TimeInv' /\ Time!KeepsWhatWasLeftAlone
  <2>1. UNCHANGED <<stored, session, date, from, until, typed, saves>>
    BY <1>9 DEF Time!TypeDraft, Time!Add, Time!Added, Time!vars, Time!row
  <2>2. QED
    BY <1>0, <1>2, <2>1
<1>10. QED
  BY <1>3, <1>4, <1>5, <1>6, <1>7, <1>8, <1>9, SavedRow DEF Time!Next

\* What the user left alone, since the row shows the session as it is now, is
\* sent as it was, to the second, although the row shows whole minutes - also
\* when another device corrected the session in between and the row was filled
\* anew (trackedTime.ts: keepSeconds, composeSpan).
\* For days of any whole number of minutes of any length, and sessions of any kind.
THEOREM LeftAloneIsSentAsItWas == Spec => LeftAloneIsKept
<1>1. Time!Init => TimeInv
  <2> SUFFICES ASSUME Time!Init PROVE TimeInv
    OBVIOUS
  <2>1. /\ stored \in Session /\ session = stored /\ saves = <<>> /\ typed = {}
        /\ date = Time!toDateInput(session.start) /\ from = Time!toTimeInput(session.start)
        /\ until = Time!initialUntil(session)
    BY DayOfMinutes DEF Time!Init, WholeMinutes, Session, Moment, Time!NoEnd
  <2>2. date \in Moment /\ from \in Moment /\ until \in Moment
    BY <2>1, Fields DEF Moment
  <2>3. saves \in Seq(Sending)
    BY <2>1, EmptySeq
  <2>4. QED
    BY <2>1, <2>2, <2>3 DEF TimeInv
<1>2. Init => (page = "time" => TimeInv)
  BY <1>1, PageInit
<1>3. /\ page = "time" => TimeInv
      /\ [Next]_vars
      => /\ (page = "time" => TimeInv)'
         /\ [page = "time" => Time!KeepsWhatWasLeftAlone]_vars
  BY TimeNext, PageNext
<1>4. QED
  BY <1>2, <1>3, PTL DEF Spec, LeftAloneIsKept

-----------------------------------------------------------------------------
(* The split editor.                                                       *)

\* The names the shared memory has in SplitEditor.
rows == m1
focused == m4
partSaves == m5
editing == m6

USE DEF rows, focused, partSaves, editing

-----------------------------------------------------------------------------
(* Outlines.                                                               *)

\* What a row can be.
EditorRow == [part : Part \cup {NoPart}, text : {"empty", "plain", "tokens", "broken"}, minutes : Nat \cup {-1},
              depth : Int, done : BOOLEAN, tag : BOOLEAN, error : BOOLEAN]

\* A subtask is in one row at most, and the subtasks of an outline.
Once(list) == \A i, j \in DOMAIN list : list[i].part = list[j].part => i = j \/ list[i].part = NoPart
PartsIn(list) == {list[i].part : i \in DOMAIN list} \ {NoPart}

\* An outline has the subtasks that another one has, each once.
Keeps(list, old) == list \in Seq(EditorRow) /\ Once(list) /\ PartsIn(list) = PartsIn(old)

\* The row a row belongs to is above it.
LEMMA ParentAbove ==
  ASSUME NEW list, NEW i \in Nat
  PROVE  /\ Split!ParentOf(list, i) \in Nat
         /\ Split!ParentOf(list, i) = 0 \/ Split!ParentOf(list, i) \in 1..(i - 1)
<1> DEFINE above == {j \in 1..(i - 1) : list[j].depth < list[i].depth}
           back == {n \in Nat : i - n \in above}
<1>1. Split!ParentOf(list, i) = IF above = {} THEN 0 ELSE CHOOSE j \in above : \A k \in above : k <= j
  BY DEF Split!ParentOf
<1>2. above \subseteq 1..(i - 1)
  OBVIOUS
<1> HIDE DEF above
<1>3. ASSUME above # {} PROVE \E j \in above : \A k \in above : k <= j
  <2>1. \A k \in above : k \in 1..(i - 1) /\ i - k \in Nat /\ i - (i - k) = k
    BY <1>2
  <2>2. \A k \in above : i - k \in back
    BY <2>1
  <2>3. back # {} /\ back \subseteq Nat
    BY <1>3, <2>2
  <2>4. PICK n \in back : \A l \in back : n <= l
    BY <2>3, LeastNat
  <2>5. i - n \in above /\ n \in Nat
    BY <2>4
  <2>6. ASSUME NEW k \in above PROVE k <= i - n
    <3>1. n <= i - k /\ k \in 1..(i - 1)
      BY <2>1, <2>2, <2>4
    <3>2. QED
      BY <2>5, <3>1
  <2>7. QED
    BY <2>5, <2>6
<1>4. CASE above = {}
  BY <1>1, <1>4
<1>5. CASE above # {}
  <2>1. Split!ParentOf(list, i) \in above
    BY <1>1, <1>3, <1>5
  <2>2. \A k \in above : k \in 1..(i - 1) /\ k \in Nat
    BY <1>2
  <2>3. QED
    BY <2>1, <2>2
<1>6. QED
  BY <1>4, <1>5

\* What belongs to a row ends behind it.
LEMMA SubtreeEnds ==
  ASSUME NEW list, NEW i \in 1..Len(list), Len(list) \in Nat
  PROVE  Split!SubtreeEnd(list, i) \in (i + 1)..(Len(list) + 1)
<1> DEFINE next == {j \in (i + 1)..Len(list) : list[j].depth <= list[i].depth}
<1>1. Split!SubtreeEnd(list, i) = IF next = {} THEN Len(list) + 1 ELSE CHOOSE j \in next : \A k \in next : j <= k
  BY DEF Split!SubtreeEnd
<1>2. next \subseteq (i + 1)..Len(list) /\ next \subseteq Nat
  OBVIOUS
<1> HIDE DEF next
<1>3. CASE next = {}
  BY <1>1, <1>3
<1>4. CASE next # {}
  <2>1. \E j \in next : \A k \in next : j <= k
    BY <1>2, <1>4, LeastNat
  <2>2. Split!SubtreeEnd(list, i) \in next
    BY <1>1, <1>4, <2>1
  <2>3. \A k \in next : k \in (i + 1)..(Len(list) + 1)
    BY <1>2
  <2>4. QED
    BY <2>2, <2>3
<1>5. QED
  BY <1>3, <1>4

\* The same rows with other values.
LEMMA SameRows ==
  ASSUME NEW old \in Seq(EditorRow), Once(old), NEW list, NEW D, D = DOMAIN old,
         list = [i \in D |-> list[i]],
         \A i \in D : list[i] \in EditorRow /\ list[i].part = old[i].part
  PROVE  Keeps(list, old) /\ Len(list) = Len(old)
<1>1. DOMAIN old = 1..Len(old) /\ Len(old) \in Nat
  OBVIOUS
<1>2. list = [i \in 1..Len(old) |-> list[i]]
  BY <1>1
<1>3. [i \in 1..Len(old) |-> list[i]] \in Seq(EditorRow)
  BY <1>1, IsASeq
<1>4. list \in Seq(EditorRow) /\ DOMAIN list = 1..Len(old)
  BY <1>2, <1>3
<1>5. Len(list) = Len(old)
  BY <1>1, <1>4
<1>6. QED
  BY <1>1, <1>4, <1>5 DEF Keeps, Once, PartsIn

\* One outline behind another.
LEMMA Joined ==
  ASSUME NEW s \in Seq(EditorRow), NEW t \in Seq(EditorRow)
  PROVE  /\ s \o t \in Seq(EditorRow) /\ Len(s \o t) = Len(s) + Len(t)
         /\ PartsIn(s \o t) = PartsIn(s) \cup PartsIn(t)
         /\ Once(s \o t) <=> Once(s) /\ Once(t) /\ PartsIn(s) \cap PartsIn(t) = {}
<1> DEFINE m == Len(s)
           n == Len(t)
           u == s \o t
<1>1. /\ u \in Seq(EditorRow) /\ Len(u) = m + n
      /\ \A i \in 1..(m + n) : u[i] = IF i <= m THEN s[i] ELSE t[i - m]
  BY ConcatProperties
<1>2. m \in Nat /\ n \in Nat /\ DOMAIN s = 1..m /\ DOMAIN t = 1..n /\ DOMAIN u = 1..(m + n)
  <2>1. DOMAIN u = 1..Len(u)
    BY <1>1
  <2>2. QED
    BY <1>1, <2>1
<1> HIDE DEF m, n, u
<1>3. \A i \in 1..m : i \in 1..(m + n) /\ u[i] = s[i]
  BY <1>1, <1>2
<1>4. \A i \in 1..n : m + i \in 1..(m + n) /\ u[m + i] = t[i]
  <2> TAKE i \in 1..n
  <2>1. m + i \in 1..(m + n) /\ ~ (m + i <= m) /\ (m + i) - m = i
    BY <1>2
  <2>2. QED
    BY <1>1, <2>1
<1>5. \A i \in 1..(m + n) : i \in 1..m \/ (i - m \in 1..n /\ m + (i - m) = i)
  BY <1>2
<1>6. PartsIn(u) = PartsIn(s) \cup PartsIn(t)
  <2>1. PartsIn(s) \subseteq PartsIn(u)
    BY <1>2, <1>3 DEF PartsIn
  <2>2. PartsIn(t) \subseteq PartsIn(u)
    BY <1>2, <1>4 DEF PartsIn
  <2>3. ASSUME NEW i \in 1..(m + n), u[i].part # NoPart PROVE u[i].part \in PartsIn(s) \cup PartsIn(t)
    <3>1. CASE i \in 1..m
      BY <1>2, <1>3, <2>3, <3>1 DEF PartsIn
    <3>2. CASE i - m \in 1..n /\ m + (i - m) = i
      <4>1. u[i] = t[i - m]
        BY <1>4, <3>2
      <4>2. QED
        BY <1>2, <2>3, <3>2, <4>1 DEF PartsIn
    <3>3. QED
      BY <1>5, <3>1, <3>2
  <2>4. PartsIn(u) \subseteq PartsIn(s) \cup PartsIn(t)
    <3>1. ASSUME NEW p \in PartsIn(u) PROVE p \in PartsIn(s) \cup PartsIn(t)
      <4>1. PICK i \in 1..(m + n) : p = u[i].part
        BY <1>2, <3>1 DEF PartsIn
      <4>2. p # NoPart
        BY <3>1 DEF PartsIn
      <4>3. QED
        BY <2>3, <4>1, <4>2
    <3>2. QED
      BY <3>1
  <2>5. QED
    BY <2>1, <2>2, <2>4
<1>7. ASSUME Once(u) PROVE Once(s) /\ Once(t) /\ PartsIn(s) \cap PartsIn(t) = {}
  <2>1. \A i, j \in 1..(m + n) : u[i].part = u[j].part => i = j \/ u[i].part = NoPart
    BY <1>2, <1>7 DEF Once
  <2>2. Once(s)
    BY <1>2, <1>3, <2>1 DEF Once
  <2>3. Once(t)
    <3> SUFFICES ASSUME NEW i \in 1..n, NEW j \in 1..n, t[i].part = t[j].part, t[i].part # NoPart PROVE i = j
      BY <1>2 DEF Once
    <3>1. m + i = m + j
      BY <1>4, <2>1
    <3>2. QED
      BY <1>2, <3>1
  <2>4. ASSUME NEW p \in PartsIn(s) \cap PartsIn(t) PROVE FALSE
    <3>1. PICK i \in 1..m : p = s[i].part
      BY <1>2, <2>4 DEF PartsIn
    <3>2. PICK j \in 1..n : p = t[j].part
      BY <1>2, <2>4 DEF PartsIn
    <3>3. p # NoPart
      BY <2>4 DEF PartsIn
    <3>4. i \in 1..(m + n) /\ u[i].part = p /\ m + j \in 1..(m + n) /\ u[m + j].part = p
      BY <1>3, <1>4, <3>1, <3>2
    <3>5. i = m + j
      BY <2>1, <3>3, <3>4
    <3>6. QED
      BY <1>2, <3>5
  <2>5. QED
    BY <2>2, <2>3, <2>4
<1>8. ASSUME Once(s), Once(t), PartsIn(s) \cap PartsIn(t) = {} PROVE Once(u)
  <2> SUFFICES ASSUME NEW i \in 1..(m + n), NEW j \in 1..(m + n), u[i].part = u[j].part, u[i].part # NoPart
               PROVE  i = j
    BY <1>2 DEF Once
  <2>1. ASSUME NEW k \in 1..(m + n), u[k].part # NoPart
        PROVE  \/ k \in 1..m /\ u[k] = s[k] /\ u[k].part \in PartsIn(s)
               \/ k - m \in 1..n /\ m + (k - m) = k /\ u[k] = t[k - m] /\ u[k].part \in PartsIn(t)
    <3>1. CASE k \in 1..m
      BY <1>2, <1>3, <2>1, <3>1 DEF PartsIn
    <3>2. CASE k - m \in 1..n /\ m + (k - m) = k
      <4>1. u[k] = t[k - m]
        BY <1>4, <3>2
      <4>2. QED
        BY <1>2, <2>1, <3>2, <4>1 DEF PartsIn
    <3>3. QED
      BY <1>5, <3>1, <3>2
  <2>2. CASE i \in 1..m /\ u[i] = s[i] /\ u[i].part \in PartsIn(s)
    <3>1. j \in 1..m /\ u[j] = s[j]
      BY <1>8, <2>1, <2>2
    <3>2. QED
      BY <1>2, <1>8, <2>2, <3>1 DEF Once
  <2>3. CASE i - m \in 1..n /\ m + (i - m) = i /\ u[i] = t[i - m] /\ u[i].part \in PartsIn(t)
    <3>1. j - m \in 1..n /\ m + (j - m) = j /\ u[j] = t[j - m]
      BY <1>8, <2>1, <2>3
    <3>2. i - m = j - m
      BY <1>2, <1>8, <2>3, <3>1 DEF Once
    <3>3. QED
      BY <2>3, <3>1, <3>2
  <2>4. QED
    BY <2>1, <2>2, <2>3
<1>9. QED
  BY <1>1, <1>6, <1>7, <1>8 DEF m, n, u

\* An outline is cut, and put together again.
LEMMA Cut ==
  ASSUME NEW old \in Seq(EditorRow), NEW a \in 1..(Len(old) + 1), NEW b \in a..(Len(old) + 1),
         NEW c \in b..(Len(old) + 1)
  PROVE  /\ SubSeq(old, a, b - 1) \in Seq(EditorRow) /\ Len(SubSeq(old, a, b - 1)) = b - a
         /\ SubSeq(old, a, c - 1) = SubSeq(old, a, b - 1) \o SubSeq(old, b, c - 1)
<1> DEFINE s == SubSeq(old, a, b - 1)
           t == SubSeq(old, b, c - 1)
           u == SubSeq(old, a, c - 1)
<1>0. Len(old) \in Nat /\ a \in Nat /\ b \in Nat /\ c \in Nat /\ 1 <= a /\ a <= b /\ b <= c /\ c <= Len(old) + 1
  OBVIOUS
<1>1. \A i \in a..(c - 1) : i \in 1..Len(old)
  BY <1>0
<1>2. s \in Seq(EditorRow) /\ Len(s) = b - a /\ \A i \in 1..(b - a) : s[i] = old[a + i - 1]
  <2>1. \A i \in a..(b - 1) : old[i] \in EditorRow
    BY <1>0
  <2>2. a \in Int /\ b - 1 \in Int /\ (IF a <= b - 1 THEN (b - 1) - a + 1 ELSE 0) = b - a /\ (b - 1) - a + 1 = b - a
    BY <1>0
  <2>3. QED
    BY <2>1, <2>2, SubSeqProperties
<1>3. t \in Seq(EditorRow) /\ Len(t) = c - b /\ \A i \in 1..(c - b) : t[i] = old[b + i - 1]
  <2>1. \A i \in b..(c - 1) : old[i] \in EditorRow
    BY <1>0
  <2>2. b \in Int /\ c - 1 \in Int /\ (IF b <= c - 1 THEN (c - 1) - b + 1 ELSE 0) = c - b /\ (c - 1) - b + 1 = c - b
    BY <1>0
  <2>3. QED
    BY <2>1, <2>2, SubSeqProperties
<1>4. u \in Seq(EditorRow) /\ Len(u) = c - a /\ \A i \in 1..(c - a) : u[i] = old[a + i - 1]
  <2>1. \A i \in a..(c - 1) : old[i] \in EditorRow
    BY <1>0
  <2>2. a \in Int /\ c - 1 \in Int /\ (IF a <= c - 1 THEN (c - 1) - a + 1 ELSE 0) = c - a /\ (c - 1) - a + 1 = c - a
    BY <1>0
  <2>3. QED
    BY <2>1, <2>2, SubSeqProperties
<1> HIDE DEF s, t, u
<1>5. /\ s \o t \in Seq(EditorRow) /\ Len(s \o t) = c - a
      /\ \A i \in 1..(c - a) : (s \o t)[i] = IF i <= b - a THEN s[i] ELSE t[i - (b - a)]
  <2>1. Len(s) + Len(t) = c - a
    BY <1>0, <1>2, <1>3
  <2>2. /\ s \o t \in Seq(EditorRow) /\ Len(s \o t) = Len(s) + Len(t)
        /\ \A i \in 1..(Len(s) + Len(t)) : (s \o t)[i] = IF i <= Len(s) THEN s[i] ELSE t[i - Len(s)]
    BY <1>2, <1>3, ConcatProperties
  <2>3. Len(s) = b - a
    BY <1>2
  <2>4. QED
    BY <2>1, <2>2, <2>3
<1>6. \A i \in 1..(c - a) : u[i] = (s \o t)[i]
  <2> TAKE i \in 1..(c - a)
  <2>1. CASE i <= b - a
    <3>1. i \in 1..(b - a)
      BY <1>0, <2>1
    <3>2. QED
      BY <1>2, <1>4, <1>5, <2>1, <3>1
  <2>2. CASE ~ (i <= b - a)
    <3>1. i - (b - a) \in 1..(c - b) /\ b + (i - (b - a)) - 1 = a + i - 1
      BY <1>0, <2>2
    <3>2. QED
      BY <1>3, <1>4, <1>5, <2>2, <3>1
  <2>3. QED
    BY <2>1, <2>2
<1>7. u = s \o t
  BY <1>4, <1>5, <1>6, SeqEqual
<1>8. QED
  BY <1>2, <1>7 DEF s, t, u

\* The rows above a row, and those from a row on.
RowsAbove(old, a) == SubSeq(old, 1, a - 1)
RowsFrom(old, b) == SubSeq(old, b, Len(old))

\* Two outlines that share out the subtasks of a third, and have that many rows.
Apart(s, t, old, size) ==
  /\ s \in Seq(EditorRow) /\ t \in Seq(EditorRow)
  /\ Len(s) \in Nat /\ Len(t) \in Nat /\ Len(s) + Len(t) = size
  /\ PartsIn(old) = PartsIn(s) \cup PartsIn(t) /\ Once(s) /\ Once(t) /\ PartsIn(s) \cap PartsIn(t) = {}

\* What is left around rows that are no subtasks.
LEMMA Around ==
  ASSUME NEW old \in Seq(EditorRow), Once(old), NEW a \in 1..(Len(old) + 1), NEW b \in a..(Len(old) + 1),
         PartsIn(SubSeq(old, a, b - 1)) = {}
  PROVE  Apart(RowsAbove(old, a), RowsFrom(old, b), old, Len(old) - (b - a))
<1> DEFINE s == RowsAbove(old, a)
           t == RowsFrom(old, b)
           m == SubSeq(old, a, b - 1)
           n == Len(old) + 1
<1>0. /\ Len(old) \in Nat /\ a \in Nat /\ b \in Nat /\ n \in Nat /\ n - 1 = Len(old)
      /\ 1 \in 1..n /\ a \in 1..n /\ b \in a..n /\ n \in b..n /\ n \in n..n /\ b \in 1..n
  OBVIOUS
<1>1. s \in Seq(EditorRow) /\ Len(s) = a - 1
  BY <1>0, Cut DEF RowsAbove
<1>2. m \in Seq(EditorRow)
  BY <1>0, Cut
<1>3. t \in Seq(EditorRow) /\ Len(t) = n - b
  <2>1. SubSeq(old, b, n - 1) \in Seq(EditorRow) /\ Len(SubSeq(old, b, n - 1)) = n - b
    BY <1>0, Cut
  <2>2. QED
    BY <1>0, <2>1 DEF RowsFrom
<1>4. old = s \o (m \o t)
  <2>1. SubSeq(old, 1, n - 1) = SubSeq(old, 1, a - 1) \o SubSeq(old, a, n - 1)
    <3>1. a \in 1..n /\ n \in a..n
      BY <1>0
    <3>2. QED
      BY <1>0, <3>1, Cut
  <2>2. SubSeq(old, a, n - 1) = SubSeq(old, a, b - 1) \o SubSeq(old, b, n - 1)
    BY <1>0, Cut
  <2>3. SubSeq(old, 1, n - 1) = old
    BY <1>0, SubSeqFull
  <2>4. s = SubSeq(old, 1, a - 1) /\ t = SubSeq(old, b, n - 1)
    BY <1>0 DEF RowsAbove, RowsFrom
  <2>5. QED
    BY <2>1, <2>2, <2>3, <2>4
<1>5. PartsIn(m) = {}
  OBVIOUS
<1> HIDE DEF s, t, m, n
<1>6. m \o t \in Seq(EditorRow) /\ PartsIn(m \o t) = PartsIn(m) \cup PartsIn(t)
      /\ (Once(m \o t) <=> Once(m) /\ Once(t) /\ PartsIn(m) \cap PartsIn(t) = {})
  BY <1>2, <1>3, Joined
<1>7. PartsIn(old) = PartsIn(s) \cup PartsIn(t) /\ Once(s) /\ Once(t) /\ PartsIn(s) \cap PartsIn(t) = {}
  BY <1>1, <1>4, <1>5, <1>6, Joined
<1>8. Len(s) \in Nat /\ Len(t) \in Nat /\ Len(s) + Len(t) = Len(old) - (b - a)
  <2>1. Len(s) = a - 1 /\ Len(t) = n - b /\ 1 <= a /\ b <= n
    BY <1>0, <1>1, <1>3
  <2>2. QED
    BY <1>0, <2>1
<1>9. Apart(s, t, old, Len(old) - (b - a))
  BY <1>1, <1>3, <1>7, <1>8 DEF Apart
<1>10. QED
  BY <1>9 DEF s, t

\* Rows a to b - 1 are left out, or replaced.
Without(old, a, b) == SubSeq(old, 1, a - 1) \o SubSeq(old, b, Len(old))
Splice(old, a, new, b) == SubSeq(old, 1, a - 1) \o new \o SubSeq(old, b, Len(old))

\* Rows that are no subtasks go.
LEMMA Shortened ==
  ASSUME NEW old \in Seq(EditorRow), Once(old), NEW a \in 1..(Len(old) + 1), NEW b \in a..(Len(old) + 1),
         PartsIn(SubSeq(old, a, b - 1)) = {}
  PROVE  Keeps(Without(old, a, b), old) /\ Len(Without(old, a, b)) = Len(old) - (b - a)
<1> DEFINE s == RowsAbove(old, a)
           t == RowsFrom(old, b)
<1>1. Apart(s, t, old, Len(old) - (b - a))
  BY Around
<1> HIDE DEF s, t
<1>2. s \o t \in Seq(EditorRow) /\ Len(s \o t) = Len(s) + Len(t) /\ PartsIn(s \o t) = PartsIn(s) \cup PartsIn(t)
      /\ Once(s \o t)
  BY <1>1, Joined DEF Apart
<1>3. Without(old, a, b) = s \o t
  BY DEF Without, RowsAbove, RowsFrom, s, t
<1>4. QED
  BY <1>1, <1>2, <1>3 DEF Apart, Keeps

\* New rows come in the place of rows that are no subtasks.
LEMMA Spliced ==
  ASSUME NEW old \in Seq(EditorRow), Once(old), NEW new \in Seq(EditorRow), PartsIn(new) = {}, Once(new),
         NEW a \in 1..(Len(old) + 1), NEW b \in a..(Len(old) + 1), PartsIn(SubSeq(old, a, b - 1)) = {}
  PROVE  Keeps(Splice(old, a, new, b), old) /\ Len(Splice(old, a, new, b)) = Len(old) + Len(new) - (b - a)
<1> DEFINE s == RowsAbove(old, a)
           t == RowsFrom(old, b)
           u == s \o new
<1>1. Apart(s, t, old, Len(old) - (b - a))
  BY Around
<1> HIDE DEF s, t
<1>2. u \in Seq(EditorRow) /\ Len(u) = Len(s) + Len(new) /\ PartsIn(u) = PartsIn(s) /\ Once(u)
  <2>1. u \in Seq(EditorRow) /\ Len(u) = Len(s) + Len(new) /\ PartsIn(u) = PartsIn(s) \cup PartsIn(new)
        /\ (Once(u) <=> Once(s) /\ Once(new) /\ PartsIn(s) \cap PartsIn(new) = {})
    BY <1>1, Joined DEF Apart
  <2> HIDE DEF u
  <2>2. QED
    BY <1>1, <2>1 DEF Apart
<1> HIDE DEF u
<1>3. u \o t \in Seq(EditorRow) /\ Len(u \o t) = Len(u) + Len(t) /\ PartsIn(u \o t) = PartsIn(s) \cup PartsIn(t)
      /\ Once(u \o t)
  <2>1. u \o t \in Seq(EditorRow) /\ Len(u \o t) = Len(u) + Len(t) /\ PartsIn(u \o t) = PartsIn(u) \cup PartsIn(t)
        /\ (Once(u \o t) <=> Once(u) /\ Once(t) /\ PartsIn(u) \cap PartsIn(t) = {})
    BY <1>1, <1>2, Joined DEF Apart
  <2>2. QED
    BY <1>1, <1>2, <2>1 DEF Apart
<1>4. Len(u) + Len(t) = Len(old) + Len(new) - (b - a)
  <2>1. Len(old) \in Nat /\ Len(new) \in Nat
    OBVIOUS
  <2>2. a \in Nat /\ b \in Nat /\ Len(s) \in Nat /\ Len(t) \in Nat /\ Len(s) + Len(t) = Len(old) - (b - a)
    BY <1>1, <2>1 DEF Apart
  <2>3. Len(u) = Len(s) + Len(new)
    BY <1>2
  <2>4. QED
    BY <2>1, <2>2, <2>3
<1>5. Splice(old, a, new, b) = u \o t
  BY DEF Splice, RowsAbove, RowsFrom, s, t, u
<1>6. QED
  BY <1>1, <1>3, <1>4, <1>5 DEF Apart, Keeps

\* Two neighbouring parts of an outline change places.
Exchange(old, a, b, c) ==
  SubSeq(old, 1, a - 1) \o SubSeq(old, b, c - 1) \o SubSeq(old, a, b - 1) \o SubSeq(old, c, Len(old))

\* They do so without losing a subtask.
LEMMA Exchanged ==
  ASSUME NEW old \in Seq(EditorRow), Once(old), NEW a \in 1..(Len(old) + 1), NEW b \in a..(Len(old) + 1),
         NEW c \in b..(Len(old) + 1)
  PROVE  Keeps(Exchange(old, a, b, c), old) /\ Len(Exchange(old, a, b, c)) = Len(old)
<1> DEFINE n == Len(old) + 1
           p == SubSeq(old, 1, a - 1)
           q == SubSeq(old, a, b - 1)
           r == SubSeq(old, b, c - 1)
           s == SubSeq(old, c, n - 1)
<1>0. /\ Len(old) \in Nat /\ a \in Nat /\ b \in Nat /\ c \in Nat /\ n \in Nat /\ n - 1 = Len(old)
      /\ 1 \in 1..n /\ a \in 1..n /\ b \in a..n /\ c \in b..n /\ n \in c..n /\ n \in b..n /\ n \in a..n /\ n \in n..n
      /\ b \in 1..n /\ c \in 1..n
  OBVIOUS
<1>1. p \in Seq(EditorRow) /\ Len(p) = a - 1
  BY <1>0, Cut
<1>2. q \in Seq(EditorRow) /\ Len(q) = b - a
  BY <1>0, Cut
<1>3. r \in Seq(EditorRow) /\ Len(r) = c - b
  BY <1>0, Cut
<1>4. s \in Seq(EditorRow) /\ Len(s) = n - c
  BY <1>0, Cut
<1>5. old = p \o (q \o (r \o s))
  <2>1. SubSeq(old, 1, n - 1) = p \o SubSeq(old, a, n - 1)
    BY <1>0, Cut
  <2>2. SubSeq(old, a, n - 1) = q \o SubSeq(old, b, n - 1)
    BY <1>0, Cut
  <2>3. SubSeq(old, b, n - 1) = r \o s
    BY <1>0, Cut
  <2>4. SubSeq(old, 1, n - 1) = old
    BY <1>0, SubSeqFull
  <2> HIDE DEF n, p, q, r, s
  <2>5. QED
    BY <2>1, <2>2, <2>3, <2>4
<1> DEFINE rs == r \o s
           qrs == q \o rs
           pr == p \o r
           prq == pr \o q
           new == prq \o s
<1>6. Once(p \o qrs) /\ PartsIn(p \o qrs) = PartsIn(old)
  BY <1>5
<1> HIDE DEF n, p, q, r, s
<1>7. rs \in Seq(EditorRow) /\ PartsIn(rs) = PartsIn(r) \cup PartsIn(s)
      /\ (Once(rs) <=> Once(r) /\ Once(s) /\ PartsIn(r) \cap PartsIn(s) = {})
  BY <1>3, <1>4, Joined
<1> HIDE DEF rs
<1>8. qrs \in Seq(EditorRow) /\ PartsIn(qrs) = PartsIn(q) \cup PartsIn(rs)
      /\ (Once(qrs) <=> Once(q) /\ Once(rs) /\ PartsIn(q) \cap PartsIn(rs) = {})
  BY <1>2, <1>7, Joined
<1> HIDE DEF qrs
<1>9. PartsIn(old) = PartsIn(p) \cup PartsIn(qrs) /\ Once(p) /\ Once(qrs) /\ PartsIn(p) \cap PartsIn(qrs) = {}
  BY <1>1, <1>6, <1>8, Joined
<1>10. pr \in Seq(EditorRow) /\ Len(pr) = Len(p) + Len(r) /\ PartsIn(pr) = PartsIn(p) \cup PartsIn(r)
       /\ (Once(pr) <=> Once(p) /\ Once(r) /\ PartsIn(p) \cap PartsIn(r) = {})
  BY <1>1, <1>3, Joined
<1> HIDE DEF pr
<1>11. prq \in Seq(EditorRow) /\ Len(prq) = Len(pr) + Len(q) /\ PartsIn(prq) = PartsIn(pr) \cup PartsIn(q)
       /\ (Once(prq) <=> Once(pr) /\ Once(q) /\ PartsIn(pr) \cap PartsIn(q) = {})
  BY <1>2, <1>10, Joined
<1> HIDE DEF prq
<1>12. new \in Seq(EditorRow) /\ Len(new) = Len(prq) + Len(s) /\ PartsIn(new) = PartsIn(prq) \cup PartsIn(s)
       /\ (Once(new) <=> Once(prq) /\ Once(s) /\ PartsIn(prq) \cap PartsIn(s) = {})
  BY <1>4, <1>11, Joined
<1> HIDE DEF new
<1>13. Len(new) = Len(old)
  <2>1. Len(new) = (a - 1) + (c - b) + (b - a) + (n - c)
    BY <1>1, <1>2, <1>3, <1>4, <1>10, <1>11, <1>12
  <2>2. QED
    BY <1>0, <2>1
<1>14. PartsIn(new) = PartsIn(old)
  BY <1>7, <1>8, <1>9, <1>10, <1>11, <1>12
<1>15. Once(new)
  BY <1>7, <1>8, <1>9, <1>10, <1>11, <1>12
<1>16. Keeps(new, old) /\ Len(new) = Len(old)
  BY <1>12, <1>13, <1>14, <1>15 DEF Keeps
<1>17. QED
  <2>1. Exchange(old, a, b, c) = new
    <3>1. s = SubSeq(old, c, Len(old))
      BY <1>0 DEF s
    <3>2. QED
      BY <3>1 DEF Exchange, new, prq, pr, p, q, r
  <2>2. QED
    BY <1>16, <2>1

\* What keeps the subtasks of an outline that kept them.
LEMMA KeepsIsTransitive ==
  ASSUME NEW s, NEW t, NEW u, Keeps(s, t), Keeps(t, u)
  PROVE  Keeps(s, u)
BY DEF Keeps

\* Leaving a row takes the tokens out of its name, and nothing else.
LEMMA CommittedKeeps ==
  ASSUME NEW old \in Seq(EditorRow), Once(old), NEW i \in 1..Len(old)
  PROVE  Keeps(Split!Committed(old, i), old) /\ Len(Split!Committed(old, i)) = Len(old)
<1> DEFINE list == Split!Committed(old, i)
           r == old[i]
<1>1. DOMAIN old = 1..Len(old)
  OBVIOUS
<1>2. TokenTime \in Nat
  BY PagesAssumption
<1>3. list = [old EXCEPT ![i] =
                IF r.text = "tokens" THEN [r EXCEPT !.text = "plain", !.minutes = TokenTime, !.tag = TRUE, !.error = FALSE]
                ELSE [r EXCEPT !.error = (r.text = "broken")]]
  BY DEF Split!Committed
<1>4. r \in EditorRow
  BY <1>1
<1>5. ASSUME NEW j \in DOMAIN old PROVE list[j] \in EditorRow /\ list[j].part = old[j].part
  <2>1. CASE j # i
    BY <1>1, <1>3, <2>1
  <2>2. CASE j = i /\ r.text = "tokens"
    <3>1. list[j] = [r EXCEPT !.text = "plain", !.minutes = TokenTime, !.tag = TRUE, !.error = FALSE]
      BY <1>3, <2>2
    <3> HIDE DEF list, r
    <3>2. list[j] \in EditorRow /\ list[j].part = r.part
      BY <1>2, <1>4, <3>1 DEF EditorRow
    <3>3. QED
      BY <2>2, <3>2 DEF r
  <2>3. CASE j = i /\ r.text # "tokens"
    <3>1. list[j] = [r EXCEPT !.error = (r.text = "broken")]
      BY <1>3, <2>3
    <3> HIDE DEF list, r
    <3>2. list[j] \in EditorRow /\ list[j].part = r.part
      BY <1>4, <3>1 DEF EditorRow
    <3>3. QED
      BY <2>3, <3>2 DEF r
  <2>4. QED
    BY <2>1, <2>2, <2>3
<1>6. list = [j \in DOMAIN old |-> list[j]]
  BY <1>3
<1> HIDE DEF list
<1>7. Keeps(list, old) /\ Len(list) = Len(old)
  BY <1>5, <1>6, SameRows
<1>8. QED
  BY <1>7 DEF list

\* A block is indented or outdented.
LEMMA ShiftedKeeps ==
  ASSUME NEW old \in Seq(EditorRow), Once(old), NEW i \in 1..Len(old), NEW delta \in Int
  PROVE  Keeps(Split!ShiftBlock(old, i, delta), old) /\ Len(Split!ShiftBlock(old, i, delta)) = Len(old)
<1> DEFINE list == Split!ShiftBlock(old, i, delta)
           block == i..(Split!SubtreeEnd(old, i) - 1)
<1>1. list = [j \in DOMAIN old |-> IF j \in block THEN [old[j] EXCEPT !.depth = old[j].depth + delta] ELSE old[j]]
  BY DEF Split!ShiftBlock
<1> HIDE DEF block
<1>2. ASSUME NEW j \in DOMAIN old PROVE list[j] \in EditorRow /\ list[j].part = old[j].part
  <2>1. old[j] \in EditorRow
    OBVIOUS
  <2>2. list[j] = IF j \in block THEN [old[j] EXCEPT !.depth = old[j].depth + delta] ELSE old[j]
    BY <1>1
  <2> HIDE DEF list
  <2>3. CASE j \in block
    <3> DEFINE r == old[j]
               d == r.depth + delta
    <3>1. list[j] = [r EXCEPT !.depth = d]
      BY <2>2, <2>3
    <3>2. r \in EditorRow /\ d \in Int
      BY <2>1 DEF EditorRow
    <3> HIDE DEF d
    <3>3. list[j] \in EditorRow /\ list[j].part = r.part
      <4> HIDE DEF r
      <4>1. QED
        BY <3>1, <3>2 DEF EditorRow
    <3>4. QED
      BY <3>3
  <2>4. CASE j \notin block
    BY <2>1, <2>2, <2>4
  <2>5. QED
    BY <2>3, <2>4
<1>3. list = [j \in DOMAIN old |-> list[j]]
  BY <1>1
<1> HIDE DEF list
<1>4. Keeps(list, old) /\ Len(list) = Len(old)
  BY <1>2, <1>3, SameRows
<1>5. QED
  BY <1>4 DEF list

\* A block changes places with the one below it.
LEMMA MovedKeeps ==
  ASSUME NEW old \in Seq(EditorRow), Once(old), NEW i \in 1..Len(old), NEW j \in (i + 1)..Len(old)
  PROVE  Keeps(Split!Swapped(old, i, j), old) /\ Len(Split!Swapped(old, i, j)) = Len(old)
<1> DEFINE c == Split!SubtreeEnd(old, j)
<1>1. Len(old) \in Nat /\ j \in 1..Len(old) /\ i \in Nat /\ j \in Nat /\ i < j /\ 1 <= i
  OBVIOUS
<1>2. c \in (j + 1)..(Len(old) + 1)
  BY <1>1, SubtreeEnds
<1> HIDE DEF c
<1>3. i \in 1..(Len(old) + 1) /\ j \in i..(Len(old) + 1) /\ c \in j..(Len(old) + 1)
  BY <1>1, <1>2
<1>4. Split!Swapped(old, i, j) = Exchange(old, i, j, c)
  <2>1. (Len(old) + 1) - 1 = Len(old)
    BY <1>1
  <2>2. QED
    BY <2>1 DEF Exchange, Split!Swapped, Split!Slice, c
<1>5. QED
  BY <1>3, <1>4, Exchanged


\* Rows that are no subtasks yet.
LEMMA NewRows ==
  ASSUME NEW s \in Seq(EditorRow), \A i \in 1..Len(s) : s[i].part = NoPart
  PROVE  PartsIn(s) = {} /\ Once(s)
<1>1. DOMAIN s = 1..Len(s)
  OBVIOUS
<1>2. QED
  BY <1>1 DEF PartsIn, Once

\* An outline without rows.
LEMMA NoRows ==
  ASSUME NEW s \in Seq(EditorRow), Len(s) = 0
  PROVE  PartsIn(s) = {} /\ Once(s)
<1>1. \A i \in 1..Len(s) : s[i].part = NoPart
  OBVIOUS
<1>2. QED
  BY <1>1, NewRows

\* A new row is no subtask.
LEMMA NewRowIsARow ==
  ASSUME NEW depth \in Int, NEW text \in {"empty", "plain"}
  PROVE  Split!NewRow(depth, text) \in EditorRow /\ Split!NewRow(depth, text).part = NoPart
BY DEF Split!NewRow, Split!None, EditorRow

\* Enter puts a row behind the block of a row.
LEMMA InsertedKeeps ==
  ASSUME NEW old \in Seq(EditorRow), Once(old), NEW i \in 1..Len(old)
  PROVE  Keeps(Split!InsertAfter(old, i), old) /\ Len(Split!InsertAfter(old, i)) = Len(old) + 1
<1> DEFINE a == Split!SubtreeEnd(old, i)
           row == Split!NewRow(old[i].depth, "empty")
           new == <<row>>
<1>1. Len(old) \in Nat /\ i \in Nat /\ 1 <= i
  OBVIOUS
<1>2. a \in (i + 1)..(Len(old) + 1)
  BY <1>1, SubtreeEnds
<1>3. row \in EditorRow /\ row.part = NoPart
  <2>1. old[i].depth \in Int
    <3>1. old[i] \in EditorRow
      OBVIOUS
    <3>2. QED
      BY <3>1 DEF EditorRow
  <2>2. QED
    BY <2>1, NewRowIsARow
<1>4. Split!InsertAfter(old, i) = Splice(old, a, new, a)
  BY DEF Split!InsertAfter, Split!InsertAt, Splice
<1> HIDE DEF a, row
<1>5. new \in Seq(EditorRow) /\ Len(new) = 1 /\ new[1] = row
  BY <1>3
<1> HIDE DEF new
<1>6. PartsIn(new) = {} /\ Once(new)
  BY <1>3, <1>5, NewRows
<1>7. a \in 1..(Len(old) + 1) /\ a \in a..(Len(old) + 1) /\ a - a = 0 /\ a \in Nat
  BY <1>1, <1>2
<1>8. PartsIn(SubSeq(old, a, a - 1)) = {}
  <2>1. SubSeq(old, a, a - 1) \in Seq(EditorRow) /\ Len(SubSeq(old, a, a - 1)) = 0
    BY <1>7, Cut
  <2>2. QED
    BY <2>1, NoRows
<1>9. Keeps(Splice(old, a, new, a), old) /\ Len(Splice(old, a, new, a)) = Len(old) + Len(new) - (a - a)
  BY <1>5, <1>6, <1>7, <1>8, Spliced
<1>10. Len(old) + Len(new) - (a - a) = Len(old) + 1
  BY <1>1, <1>5, <1>7
<1>11. QED
  BY <1>4, <1>9, <1>10

\* A row that is no subtask is removed.
LEMMA RemovedKeeps ==
  ASSUME NEW old \in Seq(EditorRow), Once(old), NEW i \in 1..Len(old), old[i].part = NoPart
  PROVE  Keeps(RemoveAt(old, i), old) /\ Len(RemoveAt(old, i)) = Len(old) - 1
<1> DEFINE s == SubSeq(old, i, (i + 1) - 1)
<1>1. Len(old) \in Nat /\ i \in 1..(Len(old) + 1) /\ i + 1 \in i..(Len(old) + 1) /\ (i + 1) - i = 1 /\ (i + 1) - 1 = i
  OBVIOUS
<1>2. s \in Seq(EditorRow) /\ Len(s) = 1 /\ s[1] = old[i]
  <2>1. s = SubSeq(old, i, i)
    BY <1>1
  <2>2. i \in Int /\ \A j \in i..i : old[j] \in EditorRow
    OBVIOUS
  <2>3. SubSeq(old, i, i) \in Seq(EditorRow) /\ Len(SubSeq(old, i, i)) = 1 /\ SubSeq(old, i, i)[1] = old[i]
    BY <2>2, SubSeqProperties
  <2>4. QED
    BY <2>1, <2>3
<1>3. PartsIn(s) = {}
  <2> HIDE DEF s
  <2>1. \A j \in 1..Len(s) : s[j].part = NoPart
    BY <1>2
  <2>2. QED
    BY <1>2, <2>1, NewRows
<1>4. RemoveAt(old, i) = Without(old, i, i + 1)
  BY DEF RemoveAt, Without
<1>5. Keeps(Without(old, i, i + 1), old) /\ Len(Without(old, i, i + 1)) = Len(old) - ((i + 1) - i)
  BY <1>1, <1>3, Shortened
<1>6. QED
  BY <1>1, <1>4, <1>5

\* Pasted lines follow a row, or replace it if it is empty and no subtask.
LEMMA PastedKeeps ==
  ASSUME NEW old \in Seq(EditorRow), Once(old), NEW i \in 1..Len(old), NEW lines \in Seq(Int)
  PROVE  /\ Keeps(Split!Pasted(old, i, lines), old)
         /\ Len(Split!Pasted(old, i, lines)) =
              Len(old) + Len(lines) - (IF old[i].text = "empty" /\ old[i].part = NoPart THEN 1 ELSE 0)
<1> DEFINE empty == old[i].text = "empty" /\ old[i].part = NoPart
           kept == IF empty THEN i - 1 ELSE i
           new == [k \in DOMAIN lines |-> Split!NewRow(old[i].depth + lines[k], "plain")]
           a == kept + 1
           b == i + 1
<1>1. a - 1 = kept => Split!Pasted(old, i, lines) = Splice(old, a, new, b)
  BY DEF Split!Pasted, Splice
<1>2. old[i].depth \in Int
  <2>1. old[i] \in EditorRow
    OBVIOUS
  <2>2. QED
    BY <2>1 DEF EditorRow
<1>3. \A k \in 1..Len(lines) : Split!NewRow(old[i].depth + lines[k], "plain") \in EditorRow
                               /\ Split!NewRow(old[i].depth + lines[k], "plain").part = NoPart
  <2> TAKE k \in 1..Len(lines)
  <2>1. old[i].depth + lines[k] \in Int
    BY <1>2
  <2>2. QED
    BY <2>1, NewRowIsARow
<1>4. DOMAIN lines = 1..Len(lines) /\ Len(lines) \in Nat
  OBVIOUS
<1>5. new \in Seq(EditorRow) /\ Len(new) = Len(lines) /\ \A k \in 1..Len(lines) : new[k].part = NoPart
  <2>1. new = [k \in 1..Len(lines) |-> Split!NewRow(old[i].depth + lines[k], "plain")]
    BY <1>4
  <2>2. new \in Seq(EditorRow)
    BY <1>3, <1>4, <2>1, IsASeq
  <2>3. DOMAIN new = 1..Len(lines)
    BY <2>1
  <2>4. \A k \in 1..Len(lines) : new[k].part = NoPart
    BY <1>3, <2>1
  <2> HIDE DEF new
  <2>5. Len(new) = Len(lines)
    BY <1>4, <2>2, <2>3
  <2>6. QED
    BY <2>2, <2>4, <2>5
<1> HIDE DEF new
<1>6. PartsIn(new) = {} /\ Once(new)
  BY <1>5, NewRows
<1>7. Len(old) \in Nat /\ b \in 1..(Len(old) + 1) /\ b \in Nat /\ b - 1 = i
  OBVIOUS
<1> DEFINE less == IF empty THEN 1 ELSE 0
<1>8. a \in 1..(Len(old) + 1) /\ b \in a..(Len(old) + 1) /\ b - a = less /\ a - 1 = kept /\ PartsIn(SubSeq(old, a, b - 1)) = {}
  <2>1. CASE empty
    <3>1. a \in 1..(Len(old) + 1) /\ b \in a..(Len(old) + 1) /\ b - a = 1 /\ a - 1 = kept /\ a = i
      <4>1. kept = i - 1
        BY <2>1
      <4> HIDE DEF kept
      <4>2. QED
        BY <4>1
    <3>2. SubSeq(old, i, i) \in Seq(EditorRow) /\ Len(SubSeq(old, i, i)) = 1 /\ SubSeq(old, i, i)[1] = old[i]
      <4>1. i \in Int /\ \A j \in i..i : old[j] \in EditorRow
        OBVIOUS
      <4>2. QED
        BY <4>1, SubSeqProperties
    <3>3. \A j \in 1..Len(SubSeq(old, i, i)) : SubSeq(old, i, i)[j].part = NoPart
      <4> DEFINE s == SubSeq(old, i, i)
      <4>1. Len(s) = 1 /\ s[1].part = NoPart
        BY <2>1, <3>2
      <4> HIDE DEF s
      <4>2. \A j \in 1..Len(s) : s[j].part = NoPart
        BY <4>1
      <4>3. QED
        BY <4>2 DEF s
    <3>4. PartsIn(SubSeq(old, i, i)) = {}
      BY <3>2, <3>3, NewRows
    <3>5. QED
      BY <1>7, <2>1, <3>1, <3>4
  <2>2. CASE ~empty
    <3>1. a \in 1..(Len(old) + 1) /\ b \in a..(Len(old) + 1) /\ b - a = 0 /\ a - 1 = kept /\ a = b
      <4>1. kept = i
        BY <2>2
      <4> HIDE DEF kept
      <4>2. QED
        BY <4>1
    <3> HIDE DEF a, b
    <3>2. SubSeq(old, a, b - 1) \in Seq(EditorRow) /\ Len(SubSeq(old, a, b - 1)) = 0
      BY <3>1, Cut
    <3>3. PartsIn(SubSeq(old, a, b - 1)) = {}
      BY <3>2, NoRows
    <3>4. QED
      BY <2>2, <3>1, <3>3
  <2>3. QED
    BY <2>1, <2>2
<1> HIDE DEF a, b, kept, less
<1>9. Keeps(Splice(old, a, new, b), old) /\ Len(Splice(old, a, new, b)) = Len(old) + Len(new) - (b - a)
  BY <1>5, <1>6, <1>8, Spliced
<1>10. Keeps(Split!Pasted(old, i, lines), old) /\ Len(Split!Pasted(old, i, lines)) = Len(old) + Len(lines) - less
  BY <1>1, <1>5, <1>8, <1>9
<1>11. QED
  BY <1>10 DEF less


-----------------------------------------------------------------------------
(* What is sent.                                                           *)

\* A request has each subtask once, below a row it has as well.
Whole(sent, parts) ==
  /\ \A i \in DOMAIN sent : sent[i].under \in DOMAIN sent \cup {0}
  /\ \A i, j \in DOMAIN sent : sent[i].part = sent[j].part => i = j \/ sent[i].part = NoPart
  /\ {sent[i].part : i \in DOMAIN sent} \ {NoPart} = parts

\* Which rows are listed: those worth sending, below a row that is listed.
Lists(listed, list) ==
  listed = [i \in DOMAIN list |->
              Split!WorthSending(list, i) /\ (Split!ParentOf(list, i) # 0 => listed[Split!ParentOf(list, i)])]

\* A row that has rows is worth sending, so a row is sent that is worth it itself.
LEMMA ListedIfWorth ==
  ASSUME NEW list, DOMAIN list \subseteq Nat,
         \A i \in DOMAIN list : Split!ParentOf(list, i) = 0 \/ Split!ParentOf(list, i) \in DOMAIN list
  PROVE  \E listed : Lists(listed, list)
<1> DEFINE worth == [i \in DOMAIN list |-> Split!WorthSending(list, i)]
<1>1. \A i \in DOMAIN list : Split!ParentOf(list, i) # 0 => Split!WorthSending(list, Split!ParentOf(list, i))
  BY DEF Split!WorthSending, Split!PartsOf
<1>2. \A i \in DOMAIN list :
        (Split!WorthSending(list, i) /\ (Split!ParentOf(list, i) # 0 => worth[Split!ParentOf(list, i)]))
          = Split!WorthSending(list, i)
  <2> TAKE i \in DOMAIN list
  <2>1. Split!ParentOf(list, i) # 0 => worth[Split!ParentOf(list, i)] = Split!WorthSending(list, Split!ParentOf(list, i))
    OBVIOUS
  <2> HIDE DEF worth
  <2>2. Split!ParentOf(list, i) # 0 => worth[Split!ParentOf(list, i)]
    BY <1>1, <2>1
  <2>3. Split!WorthSending(list, i) \in BOOLEAN
    BY DEF Split!WorthSending
  <2>4. QED
    BY <2>2, <2>3
<1>3. Lists(worth, list)
  BY <1>2 DEF Lists
<1>4. QED
  BY <1>3

\* The request with the rows that are listed.
Requested(listed, budget, list) ==
  [i \in {j \in DOMAIN list : listed[j]} |->
     [part |-> list[i].part, under |-> Split!ParentOf(list, i), duration |-> IF list[i].done THEN Split!None ELSE budget[i]]]

\* The request is made of the rows that are listed.
LEMMA RequestLists ==
  ASSUME NEW list, NEW available, \E listed : Lists(listed, list)
  PROVE  \E listed, budget : Lists(listed, list) /\ Split!RowsToRequest(list, available) = Requested(listed, budget, list)
<1> DEFINE listed == CHOOSE f : Lists(f, list)
           budget == Split!Budgets(list, available)
<1>1. Lists(listed, list)
  OBVIOUS
<1>2. Split!RowsToRequest(list, available) = Requested(listed, budget, list)
  BY DEF Split!RowsToRequest, Lists, Requested
<1> HIDE DEF listed, budget
<1>3. QED
  BY <1>1, <1>2

\* Every row that is worth it is sent.
LEMMA WorthIsListed ==
  ASSUME NEW list \in Seq(EditorRow), NEW listed, Lists(listed, list)
  PROVE  \A i \in DOMAIN list :
           /\ listed[i] => (Split!ParentOf(list, i) # 0 => listed[Split!ParentOf(list, i)])
           /\ Split!WorthSending(list, i) => listed[i]
<1>1. DOMAIN list = 1..Len(list) /\ Len(list) \in Nat
  OBVIOUS
<1>2. \A i \in DOMAIN list :
        listed[i] = (Split!WorthSending(list, i) /\ (Split!ParentOf(list, i) # 0 => listed[Split!ParentOf(list, i)]))
  BY DEF Lists
<1> DEFINE lost == {i \in DOMAIN list : Split!WorthSending(list, i) /\ ~ listed[i]}
<1>3. ASSUME lost # {} PROVE FALSE
  <2>1. lost \in SUBSET Nat
    BY <1>1
  <2>2. PICK i \in lost : \A k \in lost : i <= k
    <3> HIDE DEF lost
    <3>1. QED
      BY <1>3, <2>1, LeastNat
  <2> DEFINE p == Split!ParentOf(list, i)
  <2>3. i \in 1..Len(list) /\ i \in Nat /\ Split!WorthSending(list, i) /\ ~ listed[i]
    BY <1>1, <2>2
  <2>4. p # 0 /\ ~ listed[p]
    BY <1>1, <1>2, <2>3
  <2>5. p \in 1..(i - 1)
    BY <2>3, <2>4, ParentAbove
  <2>6. p \in DOMAIN list /\ p \in Nat /\ ~ (i <= p)
    BY <1>1, <2>3, <2>5
  <2>7. i \in Split!PartsOf(list, p)
    BY <1>1, <2>3 DEF Split!PartsOf
  <2>8. Split!WorthSending(list, p)
    BY <2>7 DEF Split!WorthSending
  <2>9. p \in lost
    BY <2>4, <2>6, <2>8
  <2>10. QED
    BY <2>2, <2>6, <2>9
<1>4. ASSUME NEW i \in DOMAIN list, Split!WorthSending(list, i) PROVE listed[i]
  BY <1>3, <1>4
<1>5. ASSUME NEW i \in DOMAIN list, listed[i], Split!ParentOf(list, i) # 0 PROVE listed[Split!ParentOf(list, i)]
  BY <1>2, <1>5
<1>6. QED
  BY <1>4, <1>5

\* What is sent of an outline has all its subtasks.
LEMMA RequestIsWhole ==
  ASSUME NEW list \in Seq(EditorRow), Once(list), NEW available
  PROVE  Whole(Split!RowsToRequest(list, available), PartsIn(list))
<1>1. DOMAIN list = 1..Len(list) /\ Len(list) \in Nat /\ DOMAIN list \subseteq Nat
  OBVIOUS
<1>2. \A i \in DOMAIN list : Split!ParentOf(list, i) = 0 \/ Split!ParentOf(list, i) \in DOMAIN list
  <2> TAKE i \in DOMAIN list
  <2>1. i \in Nat /\ i \in 1..Len(list)
    BY <1>1
  <2>2. Split!ParentOf(list, i) = 0 \/ Split!ParentOf(list, i) \in 1..(i - 1)
    BY <2>1, ParentAbove
  <2>3. 1..(i - 1) \subseteq DOMAIN list
    BY <1>1, <2>1
  <2>4. QED
    BY <2>2, <2>3
<1>3. PICK listed, budget :
        Lists(listed, list) /\ Split!RowsToRequest(list, available) = Requested(listed, budget, list)
  BY <1>1, <1>2, ListedIfWorth, RequestLists
<1> DEFINE sent == Requested(listed, budget, list)
<1>4. /\ DOMAIN sent = {j \in DOMAIN list : listed[j]}
      /\ \A i \in DOMAIN sent : sent[i].part = list[i].part /\ sent[i].under = Split!ParentOf(list, i)
  BY DEF Requested
<1> HIDE DEF sent
<1>5. ASSUME NEW i \in DOMAIN sent PROVE sent[i].under \in DOMAIN sent \cup {0}
  BY <1>2, <1>3, <1>4, WorthIsListed
<1>6. ASSUME NEW i \in DOMAIN sent, NEW j \in DOMAIN sent, sent[i].part = sent[j].part
      PROVE  i = j \/ sent[i].part = NoPart
  BY <1>4, <1>6 DEF Once
<1>7. ASSUME NEW i \in DOMAIN list, list[i].part # NoPart PROVE i \in DOMAIN sent
  <2>1. Split!WorthSending(list, i)
    BY <1>7 DEF Split!WorthSending
  <2>2. QED
    BY <1>3, <1>4, <2>1, WorthIsListed
<1>8. {sent[i].part : i \in DOMAIN sent} \ {NoPart} = PartsIn(list)
  BY <1>4, <1>7 DEF PartsIn
<1>9. Whole(sent, PartsIn(list))
  BY <1>5, <1>6, <1>8 DEF Whole
<1>10. QED
  BY <1>3, <1>9 DEF sent


\* What is under way has all subtasks.
WholeSaves(list, parts) ==
  \E S : /\ list \in Seq([phase : {"tags", "sent"}, request : S])
         /\ \A s \in 1..Len(list) : Whole(list[s].request, parts)

\* One more save is under way.
LEMMA SaveStarts ==
  ASSUME NEW list, NEW parts, WholeSaves(list, parts), NEW request, Whole(request, parts)
  PROVE  WholeSaves(Append(list, [phase |-> "tags", request |-> request]), parts)
<1> DEFINE last == [phase |-> "tags", request |-> request]
           longer == Append(list, last)
<1>1. PICK S : /\ list \in Seq([phase : {"tags", "sent"}, request : S])
               /\ \A s \in 1..Len(list) : Whole(list[s].request, parts)
  BY DEF WholeSaves
<1> DEFINE before == [phase : {"tags", "sent"}, request : S]
           records == [phase : {"tags", "sent"}, request : S \cup {request}]
<1>2. list \in Seq(records)
  <2>1. \A s \in 1..Len(list) : list[s] \in records
    <3>1. list \in Seq(before) /\ before \subseteq records
      BY <1>1
    <3> HIDE DEF before, records
    <3>2. QED
      BY <3>1
  <2>2. list = [s \in 1..Len(list) |-> list[s]] /\ Len(list) \in Nat
    BY <1>1
  <2> HIDE DEF records
  <2>3. [s \in 1..Len(list) |-> list[s]] \in Seq(records)
    BY <2>1, <2>2, IsASeq
  <2>4. QED
    BY <2>2, <2>3
<1>3. last \in records /\ last.request = request
  OBVIOUS
<1> HIDE DEF last, records
<1>4. longer \in Seq(records) /\ Len(longer) = Len(list) + 1
      /\ (\A s \in 1..Len(list) : longer[s] = list[s]) /\ longer[Len(list) + 1] = last
  BY <1>2, <1>3, AppendProperties
<1>5. \A s \in 1..(Len(list) + 1) : Whole(longer[s].request, parts)
  <2> TAKE s \in 1..(Len(list) + 1)
  <2>1. Len(list) \in Nat
    BY <1>2
  <2>2. s \in 1..Len(list) \/ s = Len(list) + 1
    BY <2>1
  <2>3. CASE s \in 1..Len(list)
    BY <1>1, <1>4, <2>3
  <2>4. CASE s = Len(list) + 1
    BY <1>3, <1>4, <2>4
  <2>5. QED
    BY <2>2, <2>3, <2>4
<1> HIDE DEF longer
<1>6. WholeSaves(longer, parts)
  BY <1>4, <1>5 DEF WholeSaves, records
<1>7. QED
  BY <1>6 DEF longer, last

\* The tags are made, and the outline is sent.
LEMMA SaveIsSent ==
  ASSUME NEW list, NEW parts, WholeSaves(list, parts), NEW i \in DOMAIN list
  PROVE  WholeSaves([list EXCEPT ![i].phase = "sent"], parts)
<1> DEFINE new == [list EXCEPT ![i].phase = "sent"]
<1>1. PICK S : /\ list \in Seq([phase : {"tags", "sent"}, request : S])
               /\ \A s \in 1..Len(list) : Whole(list[s].request, parts)
  BY DEF WholeSaves
<1> DEFINE records == [phase : {"tags", "sent"}, request : S]
<1>2. DOMAIN list = 1..Len(list) /\ Len(list) \in Nat /\ \A s \in 1..Len(list) : list[s] \in records
  <2>1. list \in Seq(records)
    BY <1>1
  <2> HIDE DEF records
  <2>2. QED
    BY <2>1
<1>3. \A s \in 1..Len(list) : new[s] \in records /\ new[s].request = list[s].request
  BY <1>2
<1>4. new = [s \in 1..Len(list) |-> new[s]]
  BY <1>2
<1> HIDE DEF new, records
<1>5. new \in Seq(records) /\ Len(new) = Len(list)
  <2>1. [s \in 1..Len(list) |-> new[s]] \in Seq(records)
    BY <1>2, <1>3, IsASeq
  <2>2. new \in Seq(records) /\ DOMAIN new = 1..Len(list)
    BY <1>4, <2>1
  <2>3. QED
    BY <1>2, <2>2
<1>6. \A s \in 1..Len(new) : Whole(new[s].request, parts)
  BY <1>1, <1>3, <1>5
<1>7. WholeSaves(new, parts)
  BY <1>5, <1>6 DEF WholeSaves, records
<1>8. QED
  BY <1>7 DEF new

\* An answer comes.
LEMMA SaveIsOver ==
  ASSUME NEW list, NEW parts, WholeSaves(list, parts), NEW i \in DOMAIN list
  PROVE  WholeSaves(RemoveAt(list, i), parts)
<1> DEFINE new == RemoveAt(list, i)
<1>1. PICK S : /\ list \in Seq([phase : {"tags", "sent"}, request : S])
               /\ \A s \in 1..Len(list) : Whole(list[s].request, parts)
  BY DEF WholeSaves
<1> DEFINE records == [phase : {"tags", "sent"}, request : S]
<1>2. DOMAIN list = 1..Len(list) /\ Len(list) \in Nat /\ i \in 1..Len(list) /\ list \in Seq(records)
  BY <1>1
<1> HIDE DEF records
<1>3. /\ new \in Seq(records) /\ Len(new) = Len(list) - 1
      /\ \A s \in 1..(Len(list) - 1) : new[s] = IF s < i THEN list[s] ELSE list[s + 1]
  BY <1>2, RemovedElements
<1> HIDE DEF new
<1>4. ASSUME NEW s \in 1..Len(new) PROVE Whole(new[s].request, parts)
  <2>1. s \in 1..Len(list) /\ s + 1 \in 1..Len(list) /\ s \in 1..(Len(list) - 1)
    BY <1>2, <1>3
  <2>2. new[s] = list[s] \/ new[s] = list[s + 1]
    BY <1>3, <2>1
  <2>3. QED
    BY <1>1, <2>1, <2>2
<1>5. WholeSaves(new, parts)
  BY <1>3, <1>4 DEF WholeSaves, records
<1>6. QED
  BY <1>5 DEF new

-----------------------------------------------------------------------------
(* The editor.                                                             *)

\* While the editor is open its rows are an outline, each subtask in one row,
\* and what is under way has the subtasks of the rows.
EditorInv ==
  /\ rows \in Seq(EditorRow) /\ Once(rows)
  /\ focused \in 0..Len(rows)
  /\ WholeSaves(partSaves, PartsIn(rows))

\* The editor opens on an outline, or on an empty row.
LEMMA EditorStarts ==
  ASSUME Split!Init
  PROVE  EditorInv
<1>1. PICK outline \in Outlines :
        rows = IF outline = <<>> THEN <<Split!NewRow(0, "empty")>> ELSE Split!RowsFromTasks(outline)
  BY DEF Split!Init
<1>2. focused = 0 /\ partSaves = <<>>
  BY DEF Split!Init
<1>3. /\ outline \in Seq(Part \X Nat \X (Nat \cup {-1}) \X BOOLEAN)
      /\ \A i, j \in DOMAIN outline : outline[i][1] = outline[j][1] => i = j
  BY <1>1, PagesAssumption
<1>4. ASSUME outline = <<>> PROVE rows \in Seq(EditorRow) /\ Once(rows)
  <2> DEFINE row == Split!NewRow(0, "empty")
  <2>1. row \in EditorRow /\ row.part = NoPart
    BY NewRowIsARow
  <2>2. rows = <<row>>
    BY <1>1, <1>4
  <2> HIDE DEF row
  <2>3. rows \in Seq(EditorRow) /\ Len(rows) = 1 /\ rows[1] = row
    BY <2>1, <2>2
  <2>4. \A i \in 1..Len(rows) : rows[i].part = NoPart
    BY <2>1, <2>3
  <2>5. rows \in Seq(EditorRow) /\ Once(rows)
    BY <2>3, <2>4, NewRows
  <2>6. QED
    BY <2>5
<1>5. ASSUME outline # <<>> PROVE rows \in Seq(EditorRow) /\ Once(rows)
  <2>1. DOMAIN outline = 1..Len(outline) /\ Len(outline) \in Nat
    BY <1>3
  <2>2. rows = [i \in 1..Len(outline) |->
                  [Split!NewRow(outline[i][2], "plain") EXCEPT !.part = outline[i][1], !.minutes = outline[i][3],
                                                               !.done = outline[i][4]]]
    BY <1>1, <1>5, <2>1 DEF Split!RowsFromTasks
  <2>3. ASSUME NEW i \in 1..Len(outline) PROVE rows[i] \in EditorRow /\ rows[i].part = outline[i][1]
    <3>1. outline[i] \in Part \X Nat \X (Nat \cup {-1}) \X BOOLEAN
      BY <1>3
    <3>2. outline[i][1] \in Part /\ outline[i][2] \in Nat /\ outline[i][3] \in Nat \cup {-1} /\ outline[i][4] \in BOOLEAN
      BY <3>1
    <3>3. rows[i] = [Split!NewRow(outline[i][2], "plain") EXCEPT !.part = outline[i][1], !.minutes = outline[i][3],
                                                                 !.done = outline[i][4]]
      BY <2>2
    <3> DEFINE part == outline[i][1]
               depth == outline[i][2]
               minutes == outline[i][3]
               done == outline[i][4]
    <3> HIDE DEF part, depth, minutes, done
    <3>4. rows[i] = [Split!NewRow(depth, "plain") EXCEPT !.part = part, !.minutes = minutes, !.done = done]
      BY <3>3 DEF part, depth, minutes, done
    <3>5. part \in Part /\ depth \in Nat /\ minutes \in Nat \cup {-1} /\ done \in BOOLEAN
      BY <3>2 DEF part, depth, minutes, done
    <3>6. rows[i] = [part |-> part, text |-> "plain", minutes |-> minutes, depth |-> depth, done |-> done,
                     tag |-> FALSE, error |-> FALSE]
      BY <3>4 DEF Split!NewRow
    <3>7. rows[i] \in EditorRow /\ rows[i].part = part
      BY <3>5, <3>6 DEF EditorRow
    <3>8. QED
      BY <3>7 DEF part
  <2>4. rows = [i \in 1..Len(outline) |-> rows[i]] /\ DOMAIN rows = 1..Len(outline)
    BY <2>2
  <2>5. [i \in 1..Len(outline) |-> rows[i]] \in Seq(EditorRow)
    BY <2>1, <2>3, IsASeq
  <2>6. Once(rows)
    BY <1>3, <2>1, <2>3, <2>4 DEF Once
  <2>7. QED
    BY <2>4, <2>5, <2>6
<1>6. rows \in Seq(EditorRow) /\ Once(rows)
  <2>1. CASE outline = <<>>
    BY <1>4, <2>1
  <2>2. CASE outline # <<>>
    BY <1>5, <2>2
  <2>3. QED
    BY <2>1, <2>2
<1>7. WholeSaves(<<>>, PartsIn(rows))
  <2>1. <<>> \in Seq([phase : {"tags", "sent"}, request : {}]) /\ Len(<<>>) = 0
    OBVIOUS
  <2>2. \A s \in 1..0 : Whole(<<>>[s].request, PartsIn(rows))
    OBVIOUS
  <2>3. QED
    BY <2>1, <2>2 DEF WholeSaves
<1>8. QED
  BY <1>2, <1>6, <1>7 DEF EditorInv

\* Rows that were changed, and the row that is being typed in.
LEMMA RowsChange ==
  ASSUME EditorInv, Keeps(rows', rows), focused' \in 0..Len(rows'), UNCHANGED partSaves
  PROVE  EditorInv'
BY DEF EditorInv, Keeps

\* The rows stay, the saves go on.
LEMMA RowsStay ==
  ASSUME EditorInv, UNCHANGED <<rows, focused>>, WholeSaves(partSaves', PartsIn(rows))
  PROVE  EditorInv'
BY DEF EditorInv

\* What the user does, one action each: another row is clicked ...
LEMMA EditorFocuses ==
  ASSUME EditorInv, NEW i \in 0..Len(rows), Split!Focus(i)
  PROVE  EditorInv'
<1>1. Keeps(rows', rows) /\ Len(rows') = Len(rows)
  <2>1. CASE focused = 0
    BY <2>1 DEF Split!Focus, EditorInv, Keeps
  <2>2. CASE focused # 0
    <3>1. focused \in 1..Len(rows)
      BY <2>2 DEF EditorInv
    <3>2. rows' = Split!Committed(rows, focused)
      BY <2>2 DEF Split!Focus
    <3>3. QED
      BY <3>1, <3>2, CommittedKeeps DEF EditorInv
  <2>3. QED
    BY <2>1, <2>2
<1>2. focused' = i /\ UNCHANGED partSaves
  BY DEF Split!Focus, Split!Elsewhere
<1>3. QED
  BY <1>1, <1>2, RowsChange

\* ... a name is typed ...
LEMMA EditorNames ==
  ASSUME EditorInv, NEW text \in {"empty", "plain", "tokens", "broken"}, Split!TypeName(text)
  PROVE  EditorInv'
<1>1. focused \in 1..Len(rows) /\ UNCHANGED focused /\ UNCHANGED partSaves
  BY DEF Split!TypeName, Split!AtRow, Split!Elsewhere, EditorInv
<1>2. rows' = [rows EXCEPT ![focused].text = text, ![focused].error = FALSE]
  BY DEF Split!TypeName, Split!Edit
<1>3. rows \in Seq(EditorRow) /\ Once(rows) /\ DOMAIN rows = 1..Len(rows)
  BY DEF EditorInv
<1>4. ASSUME NEW j \in DOMAIN rows PROVE rows'[j] \in EditorRow /\ rows'[j].part = rows[j].part
  <2>1. rows[j] \in EditorRow
    BY <1>3
  <2>2. CASE j = focused
    <3> DEFINE r == rows[j]
    <3>1. rows'[j] = [r EXCEPT !.text = text, !.error = FALSE]
      BY <1>2, <1>3, <2>2
    <3>2. r \in EditorRow
      BY <2>1
    <3>3. rows'[j] \in EditorRow /\ rows'[j].part = r.part
      <4> HIDE DEF r
      <4>1. QED
        BY <3>1, <3>2 DEF EditorRow
    <3>4. QED
      BY <3>3
  <2>3. CASE j # focused
    BY <1>2, <1>3, <2>1, <2>3
  <2>4. QED
    BY <2>2, <2>3
<1>5. rows' = [j \in DOMAIN rows |-> rows'[j]]
  BY <1>2
<1>6. Keeps(rows', rows) /\ Len(rows') = Len(rows)
  BY <1>3, <1>4, <1>5, SameRows
<1>7. QED
  BY <1>1, <1>6, RowsChange

\* ... an estimate ...
LEMMA EditorEstimates ==
  ASSUME EditorInv, NEW i \in DOMAIN rows, NEW minutes, Split!TypeEstimate(i, minutes)
  PROVE  EditorInv'
<1> DEFINE given == IF minutes \in Nat THEN minutes ELSE Split!None
           wrong == minutes = Split!Nonsense
<1>1. UNCHANGED focused /\ UNCHANGED partSaves /\ focused \in 0..Len(rows)
  BY DEF Split!TypeEstimate, Split!Elsewhere, EditorInv
<1>2. rows' = [rows EXCEPT ![i].minutes = given, ![i].error = wrong]
  BY DEF Split!TypeEstimate, Split!Edit
<1>3. rows \in Seq(EditorRow) /\ Once(rows) /\ DOMAIN rows = 1..Len(rows)
  BY DEF EditorInv
<1>4. given \in Nat \cup {-1} /\ wrong \in BOOLEAN
  BY DEF Split!None
<1> HIDE DEF given, wrong
<1>5. ASSUME NEW j \in DOMAIN rows PROVE rows'[j] \in EditorRow /\ rows'[j].part = rows[j].part
  <2>1. rows[j] \in EditorRow
    BY <1>3
  <2>2. CASE j = i
    <3> DEFINE r == rows[j]
    <3>1. rows'[j] = [r EXCEPT !.minutes = given, !.error = wrong]
      BY <1>2, <1>3, <2>2
    <3>2. r \in EditorRow
      BY <2>1
    <3>3. rows'[j] \in EditorRow /\ rows'[j].part = r.part
      <4> HIDE DEF r
      <4>1. QED
        BY <1>4, <3>1, <3>2 DEF EditorRow
    <3>4. QED
      BY <3>3
  <2>3. CASE j # i
    BY <1>2, <1>3, <2>1, <2>3
  <2>4. QED
    BY <2>2, <2>3
<1>6. rows' = [j \in DOMAIN rows |-> rows'[j]]
  BY <1>2
<1>7. Keeps(rows', rows) /\ Len(rows') = Len(rows)
  BY <1>3, <1>5, <1>6, SameRows
<1>8. QED
  BY <1>1, <1>7, RowsChange

\* The row that is being typed in, with its tokens taken out.
LEMMA RowLeft ==
  ASSUME EditorInv, Split!AtRow(focused)
  PROVE  /\ focused \in 1..Len(rows) /\ Len(rows) \in Nat
         /\ Split!Committed(rows, focused) \in Seq(EditorRow) /\ Once(Split!Committed(rows, focused))
         /\ Len(Split!Committed(rows, focused)) = Len(rows)
         /\ Keeps(Split!Committed(rows, focused), rows)
<1>1. focused \in 1..Len(rows) /\ Len(rows) \in Nat
  BY DEF Split!AtRow, EditorInv
<1>2. Keeps(Split!Committed(rows, focused), rows) /\ Len(Split!Committed(rows, focused)) = Len(rows)
  BY <1>1, CommittedKeeps DEF EditorInv
<1>3. QED
  BY <1>1, <1>2 DEF Keeps

\* ... Enter ...
LEMMA EditorInserts ==
  ASSUME EditorInv, Split!Enter
  PROVE  EditorInv'
<1> DEFINE mid == Split!Committed(rows, focused)
<1>1. Split!AtRow(focused) /\ rows' = Split!InsertAfter(mid, focused) /\ focused' = Split!SubtreeEnd(rows, focused)
      /\ UNCHANGED partSaves
  BY DEF Split!Enter, Split!Edit, Split!Elsewhere
<1>2. /\ focused \in 1..Len(rows) /\ Len(rows) \in Nat
      /\ mid \in Seq(EditorRow) /\ Once(mid) /\ Len(mid) = Len(rows) /\ Keeps(mid, rows)
  BY <1>1, RowLeft
<1> HIDE DEF mid
<1>3. Keeps(rows', mid) /\ Len(rows') = Len(rows) + 1
  BY <1>1, <1>2, InsertedKeeps
<1>4. Keeps(rows', rows)
  BY <1>2, <1>3, KeepsIsTransitive
<1>5. focused' \in (focused + 1)..(Len(rows) + 1)
  BY <1>1, <1>2, SubtreeEnds
<1>6. focused' \in 0..Len(rows')
  BY <1>2, <1>3, <1>5
<1>7. QED
  BY <1>1, <1>4, <1>6, RowsChange

\* ... Tab, with or without Shift ...
LEMMA EditorShifts ==
  ASSUME EditorInv, Split!Tab \/ Split!ShiftTab
  PROVE  EditorInv'
<1> DEFINE mid == Split!Committed(rows, focused)
<1>1. Split!AtRow(focused) /\ UNCHANGED focused /\ UNCHANGED partSaves
      /\ (rows' = Split!Indent(mid, focused) \/ rows' = Split!Outdent(mid, focused))
  BY DEF Split!Tab, Split!ShiftTab, Split!Edit, Split!Elsewhere
<1>2. /\ focused \in 1..Len(rows) /\ Len(rows) \in Nat
      /\ mid \in Seq(EditorRow) /\ Once(mid) /\ Len(mid) = Len(rows) /\ Keeps(mid, rows)
  BY <1>1, RowLeft
<1> HIDE DEF mid
<1>3. rows' = mid \/ rows' = Split!ShiftBlock(mid, focused, 1) \/ rows' = Split!ShiftBlock(mid, focused, -1)
  BY <1>1 DEF Split!Indent, Split!Outdent
<1>4. ASSUME NEW delta \in Int, rows' = Split!ShiftBlock(mid, focused, delta)
      PROVE  Keeps(rows', rows) /\ Len(rows') = Len(rows)
  <2>1. Keeps(rows', mid) /\ Len(rows') = Len(mid)
    BY <1>2, <1>4, ShiftedKeeps
  <2>2. QED
    BY <1>2, <2>1, KeepsIsTransitive
<1>5. Keeps(rows', rows) /\ Len(rows') = Len(rows)
  BY <1>2, <1>3, <1>4
<1>6. QED
  BY <1>1, <1>2, <1>5, RowsChange

\* ... Alt and an arrow, up ...
LEMMA EditorMovesUp ==
  ASSUME EditorInv, Split!AltUp
  PROVE  EditorInv'
<1> DEFINE mid == Split!Committed(rows, focused)
           above == Split!SiblingAbove(mid, focused)
<1>1. /\ Split!AtRow(focused) /\ rows' = Split!MoveUp(mid, focused) /\ UNCHANGED partSaves
      /\ Split!SiblingAbove(rows, focused) # {} /\ focused' = CHOOSE j \in Split!SiblingAbove(rows, focused) : TRUE
  BY DEF Split!AltUp, Split!Edit, Split!Elsewhere
<1>2. /\ focused \in 1..Len(rows) /\ Len(rows) \in Nat
      /\ mid \in Seq(EditorRow) /\ Once(mid) /\ Len(mid) = Len(rows) /\ Keeps(mid, rows)
  BY <1>1, RowLeft
<1>3. focused' \in 1..(focused - 1)
  <2>1. focused' \in Split!SiblingAbove(rows, focused)
    BY <1>1
  <2>2. QED
    BY <2>1 DEF Split!SiblingAbove
<1>4. above \subseteq 1..(focused - 1)
  BY DEF Split!SiblingAbove
<1>5. rows' = IF above = {} THEN mid ELSE Split!Swapped(mid, CHOOSE j \in above : TRUE, focused)
  BY <1>1 DEF Split!MoveUp
<1> HIDE DEF mid, above
<1>6. Keeps(rows', rows) /\ Len(rows') = Len(rows)
  <2>1. CASE above = {}
    BY <1>2, <1>5, <2>1
  <2>2. CASE above # {}
    <3>1. PICK j \in above : rows' = Split!Swapped(mid, j, focused)
      BY <1>5, <2>2
    <3>2. j \in 1..Len(mid) /\ focused \in (j + 1)..Len(mid)
      <4>1. j \in 1..(focused - 1)
        BY <1>4
      <4>2. QED
        BY <1>2, <4>1
    <3>3. Keeps(rows', mid) /\ Len(rows') = Len(mid)
      BY <1>2, <3>1, <3>2, MovedKeeps
    <3>4. QED
      BY <1>2, <3>3, KeepsIsTransitive
  <2>3. QED
    BY <2>1, <2>2
<1>7. focused' \in 0..Len(rows')
  BY <1>2, <1>3, <1>6
<1>8. QED
  BY <1>1, <1>6, <1>7, RowsChange

\* ... and down ...
LEMMA EditorMovesDown ==
  ASSUME EditorInv, Split!AltDown
  PROVE  EditorInv'
<1> DEFINE mid == Split!Committed(rows, focused)
           end == Split!SubtreeEnd(rows, focused)
           stop == Split!SubtreeEnd(mid, focused)
<1>1. /\ Split!AtRow(focused) /\ rows' = Split!MoveDown(mid, focused) /\ UNCHANGED partSaves
      /\ end <= Len(rows) /\ focused' = focused + Split!SubtreeEnd(rows, end) - end
  BY DEF Split!AltDown, Split!Edit, Split!Elsewhere
<1>2. /\ focused \in 1..Len(rows) /\ Len(rows) \in Nat
      /\ mid \in Seq(EditorRow) /\ Once(mid) /\ Len(mid) = Len(rows) /\ Keeps(mid, rows)
  BY <1>1, RowLeft
<1>3. end \in (focused + 1)..(Len(rows) + 1)
  BY <1>2, SubtreeEnds
<1>4. stop \in (focused + 1)..(Len(mid) + 1)
  <2> HIDE DEF mid
  <2>1. QED
    BY <1>2, SubtreeEnds
<1>5. rows' = mid \/ (stop <= Len(mid) /\ rows' = Split!Swapped(mid, focused, stop))
  BY <1>1 DEF Split!MoveDown
<1> HIDE DEF mid, end, stop
<1>6. end \in 1..Len(rows)
  BY <1>1, <1>2, <1>3
<1> DEFINE further == Split!SubtreeEnd(rows, end)
<1>7. further \in (end + 1)..(Len(rows) + 1)
  BY <1>2, <1>6, SubtreeEnds
<1>8. focused' = focused + further - end
  BY <1>1
<1> HIDE DEF further
<1>9. Keeps(rows', rows) /\ Len(rows') = Len(rows)
  <2>1. CASE rows' = mid
    BY <1>2, <2>1
  <2>2. CASE stop <= Len(mid) /\ rows' = Split!Swapped(mid, focused, stop)
    <3>1. stop \in (focused + 1)..Len(mid) /\ focused \in 1..Len(mid)
      BY <1>2, <1>4, <2>2
    <3>2. Keeps(rows', mid) /\ Len(rows') = Len(mid)
      BY <1>2, <2>2, <3>1, MovedKeeps
    <3>3. QED
      BY <1>2, <3>2, KeepsIsTransitive
  <2>3. QED
    BY <1>5, <2>1, <2>2
<1>10. focused' \in 0..Len(rows')
  <2>1. focused + further - end \in 0..Len(rows)
    BY <1>2, <1>3, <1>7
  <2>2. QED
    BY <1>8, <1>9, <2>1
<1>11. QED
  BY <1>1, <1>9, <1>10, RowsChange

\* ... Backspace in an empty row ...
LEMMA EditorRemoves ==
  ASSUME EditorInv, Split!Backspace
  PROVE  EditorInv'
<1>1. /\ Split!AtRow(focused) /\ rows[focused].part = NoPart /\ Len(rows) > 1 /\ UNCHANGED partSaves
      /\ rows' = RemoveAt(rows, focused)
      /\ focused' = IF focused > 2 THEN focused - 1 ELSE IF rows'[1].done THEN 0 ELSE 1
  BY DEF Split!Backspace, Split!Edit, Split!Elsewhere, Split!RemoveAt, RemoveAt
<1>2. focused \in 1..Len(rows) /\ Len(rows) \in Nat
  BY <1>1, RowLeft
<1>3. Keeps(rows', rows) /\ Len(rows') = Len(rows) - 1
  BY <1>1, <1>2, RemovedKeeps DEF EditorInv
<1>4. focused' \in 0..Len(rows')
  <2>1. (focused > 2 /\ focused' = focused - 1) \/ focused' \in {0, 1}
    BY <1>1
  <2>2. QED
    BY <1>1, <1>2, <1>3, <2>1
<1>5. QED
  BY <1>1, <1>3, <1>4, RowsChange

\* ... several lines are pasted ...
LEMMA EditorPastes ==
  ASSUME EditorInv, NEW lines \in Seq(Int), Split!Paste(lines)
  PROVE  EditorInv'
<1> DEFINE less == IF rows[focused].text = "empty" /\ rows[focused].part = NoPart THEN 1 ELSE 0
<1>1. /\ Split!AtRow(focused) /\ rows' = Split!Pasted(rows, focused, lines) /\ UNCHANGED partSaves
      /\ focused' = focused + Len(lines) - less
  BY DEF Split!Paste, Split!Edit, Split!Elsewhere
<1>2. focused \in 1..Len(rows) /\ Len(rows) \in Nat /\ Len(lines) \in Nat
  BY <1>1, RowLeft
<1>3. Keeps(rows', rows) /\ Len(rows') = Len(rows) + Len(lines) - less
  BY <1>1, <1>2, PastedKeeps DEF EditorInv
<1>4. less \in {0, 1}
  OBVIOUS
<1> HIDE DEF less
<1>5. focused' \in 0..Len(rows')
  BY <1>1, <1>2, <1>3, <1>4
<1>6. QED
  BY <1>1, <1>3, <1>5, RowsChange

\* ... the outline is saved.
LEMMA EditorSaves ==
  ASSUME EditorInv, Split!Save
  PROVE  EditorInv'
<1> DEFINE request == Split!RowsToRequest(rows, Split!Available(m2, m3))
<1>1. partSaves' = Append(partSaves, [phase |-> "tags", request |-> request]) /\ UNCHANGED <<rows, focused>>
  BY DEF Split!Save
<1>2. Whole(request, PartsIn(rows))
  BY RequestIsWhole DEF EditorInv
<1> HIDE DEF request
<1>3. WholeSaves(partSaves', PartsIn(rows))
  BY <1>1, <1>2, SaveStarts DEF EditorInv
<1>4. QED
  BY <1>1, <1>3, RowsStay

\* The server answers a save.
LEMMA EditorAnswers ==
  ASSUME EditorInv, NEW s \in DOMAIN partSaves, Split!TagsMade(s) \/ Split!SaveFails(s)
  PROVE  EditorInv'
<1>1. UNCHANGED <<rows, focused>>
  BY DEF Split!TagsMade, Split!SaveFails
<1>2. partSaves' = [partSaves EXCEPT ![s].phase = "sent"] \/ partSaves' = RemoveAt(partSaves, s)
  BY DEF Split!TagsMade, Split!SaveFails, Split!RemoveAt, RemoveAt
<1>3. WholeSaves(partSaves', PartsIn(rows))
  BY <1>2, SaveIsSent, SaveIsOver DEF EditorInv
<1>4. QED
  BY <1>1, <1>3, RowsStay

\* Every step.
LEMMA EditorStep ==
  ASSUME EditorInv, [Split!Next]_(Split!vars), editing'
  PROVE  EditorInv'
<1>1. ASSUME NEW i \in 0..Len(rows), Split!Focus(i) PROVE EditorInv'
  BY <1>1, EditorFocuses
<1>2. ASSUME NEW text \in {"empty", "plain", "tokens", "broken"}, Split!TypeName(text) PROVE EditorInv'
  BY <1>2, EditorNames
<1>3. ASSUME NEW i \in DOMAIN rows, NEW minutes, Split!TypeEstimate(i, minutes) PROVE EditorInv'
  BY <1>3, EditorEstimates
<1>4. CASE Split!Enter
  BY <1>4, EditorInserts
<1>5. CASE Split!Tab \/ Split!ShiftTab
  BY <1>5, EditorShifts
<1>6. CASE Split!AltUp
  BY <1>6, EditorMovesUp
<1>7. CASE Split!AltDown
  BY <1>7, EditorMovesDown
<1>8. CASE Split!Backspace
  BY <1>8, EditorRemoves
<1>9. ASSUME NEW lines \in {<<0, 0>>, <<0, 1>>}, Split!Paste(lines) PROVE EditorInv'
  <2>1. <<0, 0>> \in Seq(Int)
    OBVIOUS
  <2>2. <<0, 1>> \in Seq(Int)
    OBVIOUS
  <2>3. lines = <<0, 0>> \/ lines = <<0, 1>>
    BY Zenon
  <2>4. lines \in Seq(Int)
    BY <2>1, <2>2, <2>3, Zenon
  <2>5. QED
    BY <1>9, <2>4, EditorPastes
<1>10. CASE Split!Save
  BY <1>10, EditorSaves
<1>11. ASSUME NEW s \in DOMAIN partSaves, Split!TagsMade(s) \/ Split!SaveFails(s) PROVE EditorInv'
  BY <1>11, EditorAnswers
<1>12. ASSUME UNCHANGED <<rows, focused, partSaves>> PROVE EditorInv'
  BY <1>12, RowsStay DEF EditorInv
<1>13. ASSUME NEW field, Split!TypeTotal(field) PROVE EditorInv'
  BY <1>12, <1>13 DEF Split!TypeTotal
<1>14. CASE Split!AdoptSum
  BY <1>12, <1>14 DEF Split!AdoptSum
<1>15. ASSUME NEW s, Split!Saved(s) PROVE FALSE
  BY <1>15 DEF Split!Saved, Split!Closed
<1>16. CASE Split!Cancel
  BY <1>16 DEF Split!Cancel, Split!Closed
<1>17. CASE UNCHANGED Split!vars
  BY <1>12, <1>17 DEF Split!vars
<1>18. QED
  BY <1>1, <1>2, <1>3, <1>4, <1>5, <1>6, <1>7, <1>8, <1>9, <1>10, <1>11, <1>13, <1>14, <1>15, <1>16, <1>17
     DEF Split!Next

\* An editor that was closed stays closed.
LEMMA EditorStaysClosed ==
  ASSUME ~ editing, [Split!Next]_(Split!vars)
  PROVE  ~ editing'
BY DEF Split!Next, Split!vars, Split!Focus, Split!TypeName, Split!TypeEstimate, Split!Enter, Split!Tab, Split!ShiftTab,
       Split!AltUp, Split!AltDown, Split!Backspace, Split!Paste, Split!TypeTotal, Split!AdoptSum, Split!Save, Split!CanSave,
       Split!Cancel, Split!TagsMade, Split!SaveFails, Split!Saved, Split!Closed, Split!AtRow

\* The invariant, of the page.
SplitInv == page = "split" /\ editing => EditorInv

\* It is what the property asks for.
LEMMA EditorInvHolds ==
  ASSUME EditorInv
  PROVE  Split!NoPartIsLost
<1>1. PICK S : /\ partSaves \in Seq([phase : {"tags", "sent"}, request : S])
               /\ \A s \in 1..Len(partSaves) : Whole(partSaves[s].request, PartsIn(rows))
  BY DEF EditorInv, WholeSaves
<1>2. DOMAIN partSaves = 1..Len(partSaves)
  BY <1>1
<1>3. QED
  BY <1>1, <1>2 DEF Split!NoPartIsLost, Whole, PartsIn

\* However the rows are typed, moved, pasted and removed, what is sent has each
\* subtask of the outline once, below a row that is sent as well.
THEOREM WhatIsSentIsWhole == Spec => []NoPartIsLost
<1>1. Init => SplitInv
  BY PageInit, EditorStarts DEF SplitInv
<1>2. SplitInv /\ [Next]_vars => SplitInv'
  <2> SUFFICES ASSUME SplitInv, [Next]_vars, page' = "split", editing' PROVE EditorInv'
    BY DEF SplitInv
  <2>1. page = "split" /\ [Split!Next]_(Split!vars)
    BY PageNext
  <2>2. editing
    BY <2>1, EditorStaysClosed
  <2>3. EditorInv
    BY <2>1, <2>2 DEF SplitInv
  <2>4. QED
    BY <2>1, <2>3, EditorStep
<1>3. SplitInv => NoPartIsLost
  <2>1. CASE page = "split" /\ editing
    BY <2>1, EditorInvHolds DEF SplitInv, NoPartIsLost
  <2>2. CASE page = "split" /\ ~ editing
    BY <2>2 DEF NoPartIsLost, Split!NoPartIsLost
  <2>3. CASE page # "split"
    BY <2>3 DEF NoPartIsLost
  <2>4. QED
    BY <2>1, <2>2, <2>3
<1>4. QED
  BY <1>1, <1>2, <1>3, PTL DEF Spec

-----------------------------------------------------------------------------
(* The split editor: how the numbers add up.                               *)

\* A number is its quotient and its remainder.
LEMMA Divided ==
  ASSUME NEW a \in Int, NEW d \in Nat \ {0}
  PROVE  /\ a \div d \in Int /\ a % d \in 0..(d - 1)
         /\ a = d * (a \div d) + (a % d)
OBVIOUS

\* Steps of a quarter of an hour that are shared out leave fewer than one for each.
LEMMA StepsAddUp ==
  ASSUME NEW rest \in Int, NEW count \in Nat \ {0}, rest >= 15 * count,
         NEW base, base = ((rest \div 15) \div count) * 15,
         NEW over, over = rest - base * count
  PROVE  /\ base \in Nat /\ base >= 15 /\ over \in Nat
         /\ over \div 15 \in 0..count /\ over % 15 \in Nat
         /\ (base * count + 15 * (over \div 15)) + (over % 15) = rest
<1> DEFINE q == rest \div 15
           m == rest % 15
           b == q \div count
           r == q % count
<1>1. q \in Int /\ m \in 0..14 /\ rest = 15 * q + m
  BY Divided
<1>2. b \in Int /\ r \in 0..(count - 1) /\ q = count * b + r
  BY <1>1, Divided
<1>3. base = b * 15
  OBVIOUS
<1> HIDE DEF q, m, b, r
<1>4. q >= count
  BY <1>1
<1>5. b >= 1
  <2>1. ASSUME b <= 0 PROVE FALSE
    <3>1. count * b <= 0
      BY <1>2, <2>1
    <3>2. QED
      BY <1>2, <1>4, <3>1
  <2>2. QED
    BY <1>2, <2>1
<1>6. base * count = 15 * (count * b)
  BY <1>2, <1>3
<1> DEFINE p == count * b
<1>7. p \in Int
  BY <1>2
<1>8. base * count = 15 * p /\ q = p + r
  BY <1>2, <1>6
<1>9. base \in Nat /\ base >= 15
  BY <1>2, <1>3, <1>5
<1> HIDE DEF p
<1>10. over = 15 * r + m
  BY <1>1, <1>2, <1>7, <1>8
<1>11. over \in Nat /\ over \div 15 = r /\ over % 15 = m
  BY <1>1, <1>2, <1>10
<1>12. r \in 0..count
  BY <1>2
<1> HIDE DEF q, m, b, r
<1>13. (base * count + 15 * r) + m = rest
  <2> DEFINE c == base * count
  <2>1. c = 15 * p
    BY <1>8
  <2> HIDE DEF c
  <2>2. (c + 15 * r) + m = rest
    BY <1>1, <1>2, <1>7, <1>8, <2>1
  <2>3. QED
    BY <2>2 DEF c
<1>14. m \in Nat
  BY <1>1
<1>15. over \div 15 \in 0..count
  BY <1>11, <1>12
<1>16. over % 15 \in Nat
  BY <1>11, <1>14
<1>17. (base * count + 15 * (over \div 15)) + (over % 15) = rest
  BY <1>11, <1>13
<1>18. QED
  BY <1>9, <1>11, <1>15, <1>16, <1>17

\* The editor adds up as its library does.
LEMMA SameShareSum ==
  /\ \A f, S : Split!SumFunctionOnSet(f, S) = SumFunctionOnSet(f, S)
  /\ \A S : Split!Cardinality(S) = Cardinality(S)
BY DEF Split!SumFunctionOnSet, SumFunctionOnSet, Split!FoldFunctionOnSet, FoldFunctionOnSet,
       Split!MapThenFoldSet, MapThenFoldSet, Split!Cardinality, Cardinality

\* Rows are finitely many, those without an estimate too, and what is typed adds
\* up to a number.
LEMMA Typing ==
  ASSUME NEW list \in Seq(EditorRow), NEW set \in SUBSET DOMAIN list, NEW available \in Int
  PROVE  /\ set \subseteq Nat /\ IsFiniteSet(set)
         /\ Split!Ghosts(list, set) \subseteq set /\ IsFiniteSet(Split!Ghosts(list, set))
         /\ \A i \in set : /\ Split!Explicit(list, set)[i] \in Int
                           /\ i \in Split!Ghosts(list, set) => Split!Explicit(list, set)[i] = 0
                           /\ i \notin Split!Ghosts(list, set) => Split!Explicit(list, set)[i] = list[i].minutes
                                                                  /\ list[i].minutes \in Nat
         /\ SumFunctionOnSet(Split!Explicit(list, set), set) \in Int
         /\ Split!Unassigned(list, set, available) \in Int
         /\ Split!Unassigned(list, set, available) = available - SumFunctionOnSet(Split!Explicit(list, set), set)
<1> DEFINE own == Split!Explicit(list, set)
           G == Split!Ghosts(list, set)
<1>1. DOMAIN list = 1..Len(list) /\ Len(list) \in Nat /\ \A i \in 1..Len(list) : list[i] \in EditorRow
  OBVIOUS
<1>2. set \subseteq Nat /\ IsFiniteSet(set)
  <2>1. IsFiniteSet(1..Len(list)) /\ set \in SUBSET (1..Len(list))
    BY <1>1, FS_Interval
  <2>2. IsFiniteSet(set)
    BY <2>1, FS_Subset
  <2>3. QED
    BY <2>1, <2>2
<1>3. G \subseteq set /\ IsFiniteSet(G)
  BY <1>2, FS_Subset DEF Split!Ghosts
<1>4. ASSUME NEW i \in set
      PROVE  own[i] \in Int /\ (i \in G => own[i] = 0) /\ (i \notin G => own[i] = list[i].minutes /\ list[i].minutes \in Nat)
  <2>1. list[i].minutes \in Nat \cup {-1}
    BY <1>1 DEF EditorRow
  <2>2. own[i] = IF list[i].minutes = -1 THEN 0 ELSE list[i].minutes
    BY DEF Split!Explicit, Split!None
  <2>3. i \in G <=> list[i].minutes = -1
    BY DEF Split!Ghosts, Split!None
  <2> HIDE DEF own, G
  <2>4. QED
    BY <2>1, <2>2, <2>3
<1> HIDE DEF own
<1>5. SumFunctionOnSet(own, set) \in Int
  BY <1>2, <1>4, SumTakesOut
<1>6. Split!Unassigned(list, set, available) = available - SumFunctionOnSet(own, set)
  BY SameShareSum DEF own, Split!Unassigned, Split!SumOver
<1>7. Split!Unassigned(list, set, available) \in Int
  BY <1>5, <1>6
<1>8. QED
  BY <1>2, <1>3, <1>4, <1>5, <1>6, <1>7 DEF own

\* What a row without an estimate gets, by its place among them.
ShareOf(rest, count, rank) ==
  LET base == ((rest \div 15) \div count) * 15
      over == rest - base * count
  IN IF rest <= 0 THEN Default
     ELSE IF rest < 15 * count THEN 15
     ELSE base + (IF rank < over \div 15 THEN 15 ELSE 0) + (IF rank = 0 THEN over % 15 ELSE 0)

LEMMA ShareIs ==
  ASSUME NEW list, NEW set, NEW available, NEW i
  PROVE  Split!GhostShare(list, set, available, i) =
           ShareOf(Split!Unassigned(list, set, available), Cardinality(Split!Ghosts(list, set)),
                   Rank(Split!Ghosts(list, set), i))
BY SameShareSum DEF Split!GhostShare, ShareOf, Rank, Split!STEP

LEMMA ShareOfMuch ==
  ASSUME NEW rest \in Int, NEW count \in Nat \ {0}, rest >= 15 * count, NEW rank,
         NEW base, base = ((rest \div 15) \div count) * 15,
         NEW over, over = rest - base * count
  PROVE  ShareOf(rest, count, rank) = base + (IF rank < over \div 15 THEN 15 ELSE 0) + (IF rank = 0 THEN over % 15 ELSE 0)
<1>1. ~ (rest <= 0) /\ ~ (rest < 15 * count)
  OBVIOUS
<1>2. QED
  BY <1>1 DEF ShareOf

\* No share is nothing.
LEMMA ShareCounts ==
  ASSUME NEW rest \in Int, NEW count \in Nat \ {0}, NEW rank
  PROVE  ShareOf(rest, count, rank) \in Nat /\ ShareOf(rest, count, rank) > 0
<1> DEFINE base == ((rest \div 15) \div count) * 15
           over == rest - base * count
<1>1. Default \in Nat \ {0}
  BY PagesAssumption
<1>2. CASE rest < 15 * count
  BY <1>1, <1>2 DEF ShareOf
<1>3. CASE rest >= 15 * count
  <2>1. base \in Nat /\ base >= 15 /\ over % 15 \in Nat
    BY <1>3, StepsAddUp
  <2>2. ShareOf(rest, count, rank) = base + (IF rank < over \div 15 THEN 15 ELSE 0) + (IF rank = 0 THEN over % 15 ELSE 0)
    BY <1>3, ShareOfMuch
  <2> HIDE DEF base, over
  <2>3. QED
    BY <2>1, <2>2
<1>4. QED
  BY <1>2, <1>3

LEMMA SharesCount ==
  ASSUME NEW list \in Seq(EditorRow), NEW set \in SUBSET DOMAIN list, NEW available \in Int,
         NEW i \in Split!Ghosts(list, set)
  PROVE  Split!GhostShare(list, set, available, i) \in Nat /\ Split!GhostShare(list, set, available, i) > 0
<1> DEFINE G == Split!Ghosts(list, set)
           rest == Split!Unassigned(list, set, available)
<1>1. IsFiniteSet(G) /\ rest \in Int
  BY Typing
<1>2. Cardinality(G) \in Nat \ {0}
  BY <1>1, FS_CardinalityType, FS_EmptySet
<1>3. Split!GhostShare(list, set, available, i) = ShareOf(rest, Cardinality(G), Rank(G, i))
  BY ShareIs
<1> HIDE DEF G, rest
<1>4. QED
  BY <1>1, <1>2, <1>3, ShareCounts

\* While there is a step for each, the shares are what is left.
LEMMA SharesAre ==
  ASSUME NEW list \in Seq(EditorRow), NEW set \in SUBSET DOMAIN list, NEW available \in Int,
         Split!Ghosts(list, set) # {},
         Split!Unassigned(list, set, available) >= 15 * Cardinality(Split!Ghosts(list, set)),
         NEW budget,
         \A i \in set : budget[i] = IF i \in Split!Ghosts(list, set) THEN Split!GhostShare(list, set, available, i)
                                    ELSE list[i].minutes
  PROVE  SumFunctionOnSet(budget, set) = available
<1> DEFINE own == Split!Explicit(list, set)
           G == Split!Ghosts(list, set)
           rest == Split!Unassigned(list, set, available)
           count == Cardinality(G)
           base == ((rest \div 15) \div count) * 15
           over == rest - base * count
           first(k) == {i \in G : Rank(G, i) < k}
           steps == over \div 15
           odd == over % 15
           bases == [i \in set |-> IF i \in G THEN base ELSE 0]
           wholes == [i \in set |-> IF i \in first(steps) THEN 15 ELSE 0]
           odds == [i \in set |-> IF i \in first(1) THEN odd ELSE 0]
           both == [i \in set |-> bases[i] + wholes[i]]
           shares == [i \in set |-> both[i] + odds[i]]
<1>1. /\ set \subseteq Nat /\ IsFiniteSet(set)
      /\ G \subseteq set /\ IsFiniteSet(G)
      /\ \A i \in set : /\ own[i] \in Int
                        /\ i \in G => own[i] = 0
                        /\ i \notin G => own[i] = list[i].minutes /\ list[i].minutes \in Nat
      /\ SumFunctionOnSet(own, set) \in Int
      /\ rest \in Int
      /\ rest = available - SumFunctionOnSet(own, set)
  BY Typing
<1>2. \A i \in G : budget[i] = ShareOf(rest, count, Rank(G, i)) /\ Rank(G, i) \in Nat
  <2> TAKE i \in G
  <2>1. budget[i] = ShareOf(rest, count, Rank(G, i))
    BY <1>1, ShareIs
  <2>2. IsFiniteSet({j \in G : j < i})
    BY <1>1, FS_Subset
  <2>3. Rank(G, i) \in Nat
    BY <2>2, FS_CardinalityType DEF Rank
  <2>4. QED
    BY <2>1, <2>3
<1>3. \A i \in set \ G : budget[i] = list[i].minutes
  OBVIOUS
<1>4. count \in Nat \ {0} /\ rest >= 15 * count /\ G # {}
  BY <1>1, FS_CardinalityType, FS_EmptySet
<1> HIDE DEF G, own, rest, count
<1>5. /\ base \in Nat /\ base >= 15 /\ over \in Nat
      /\ steps \in 0..count /\ odd \in Nat
      /\ (base * count + 15 * steps) + odd = rest
  BY <1>1, <1>4, StepsAddUp
<1>6. ASSUME NEW k PROVE ShareOf(rest, count, k) = base + (IF k < steps THEN 15 ELSE 0) + (IF k = 0 THEN odd ELSE 0)
  <2>1. ~ (rest <= 0) /\ ~ (rest < 15 * count)
    BY <1>1, <1>4
  <2>2. QED
    BY <2>1 DEF ShareOf
<1> HIDE DEF base, over, steps, odd
<1>7. \A i \in G : budget[i] = base + (IF Rank(G, i) < steps THEN 15 ELSE 0) + (IF Rank(G, i) = 0 THEN odd ELSE 0)
  BY <1>2, <1>6
<1>8. Cardinality(first(steps)) = steps /\ Cardinality(first(1)) = 1
  <2>1. G \in SUBSET Nat /\ steps \in 0..Cardinality(G) /\ 1 \in 0..Cardinality(G)
    BY <1>1, <1>4, <1>5 DEF count
  <2>2. QED
    BY <1>1, <2>1, FirstOnes
<1>9. first(steps) \in SUBSET set /\ first(1) \in SUBSET set /\ G \in SUBSET set
  BY <1>1
<1>10. SumFunctionOnSet(bases, set) = base * count
  <2>1. \A i \in set : bases[i] = IF i \in G THEN base ELSE 0
    OBVIOUS
  <2>2. base \in Int
    BY <1>5
  <2> HIDE DEF bases
  <2>3. QED
    BY <1>1, <1>9, <2>1, <2>2, SumOfSame DEF count
<1>11. SumFunctionOnSet(wholes, set) = 15 * steps
  <2> DEFINE A == first(steps)
  <2>1. \A i \in set : wholes[i] = IF i \in A THEN 15 ELSE 0
    OBVIOUS
  <2>2. A \in SUBSET set /\ Cardinality(A) = steps
    BY <1>8, <1>9
  <2> HIDE DEF wholes, A
  <2>3. SumFunctionOnSet(wholes, set) = 15 * Cardinality(A)
    BY <1>1, <2>1, <2>2, SumOfSame
  <2>4. QED
    BY <2>2, <2>3
<1>12. SumFunctionOnSet(odds, set) = odd
  <2> DEFINE A == first(1)
  <2>1. \A i \in set : odds[i] = IF i \in A THEN odd ELSE 0
    OBVIOUS
  <2>2. A \in SUBSET set /\ Cardinality(A) = 1 /\ odd \in Int
    BY <1>5, <1>8, <1>9
  <2>3. IsFiniteSet(set)
    BY <1>1
  <2> HIDE DEF odds, A
  <2>4. SumFunctionOnSet(odds, set) = odd * Cardinality(A)
    BY <2>1, <2>2, <2>3, SumOfSame
  <2>5. QED
    BY <2>2, <2>4
<1>13. \A i \in set : bases[i] \in Int /\ wholes[i] \in Int /\ odds[i] \in Int
  BY <1>5
<1>14. \A i \in set : both[i] \in Int /\ both[i] = bases[i] + wholes[i]
  BY <1>13
<1>15. \A i \in set : shares[i] \in Int /\ shares[i] = both[i] + odds[i]
  BY <1>13, <1>14
<1>16. \A i \in set : budget[i] = own[i] + shares[i]
  <2> TAKE i \in set
  <2>1. CASE i \in G
    <3>1. bases[i] = base
      BY <2>1
    <3>2. wholes[i] = IF Rank(G, i) < steps THEN 15 ELSE 0
      BY <2>1
    <3>3. odds[i] = IF Rank(G, i) < 1 THEN odd ELSE 0
      BY <2>1
    <3>4. Rank(G, i) < 1 <=> Rank(G, i) = 0
      BY <1>2, <2>1
    <3>5. budget[i] = base + (IF Rank(G, i) < steps THEN 15 ELSE 0) + (IF Rank(G, i) = 0 THEN odd ELSE 0)
      BY <1>7, <2>1
    <3>6. own[i] = 0
      BY <1>1, <2>1
    <3> HIDE DEF bases, wholes, odds, both, shares
    <3>7. budget[i] = (base + wholes[i]) + odds[i]
      BY <1>5, <3>2, <3>3, <3>4, <3>5
    <3>8. QED
      BY <1>13, <1>14, <1>15, <3>1, <3>6, <3>7
  <2>2. CASE i \notin G
    <3>1. bases[i] = 0 /\ wholes[i] = 0 /\ odds[i] = 0
      BY <2>2
    <3>2. budget[i] = own[i] /\ own[i] \in Int
      BY <1>1, <1>3, <2>2
    <3> HIDE DEF bases, wholes, odds, both, shares
    <3>3. both[i] = bases[i] + wholes[i] /\ shares[i] = both[i] + odds[i]
      BY <1>14, <1>15
    <3>4. shares[i] = 0
      BY <3>1, <3>3
    <3>5. QED
      BY <3>2, <3>4
  <2>3. QED
    BY <2>1, <2>2
<1> HIDE DEF bases, wholes, odds, both, shares
<1>17. SumFunctionOnSet(both, set) = base * count + 15 * steps
  BY <1>1, <1>10, <1>11, <1>13, <1>14, SumOfBoth
<1>18. SumFunctionOnSet(shares, set) = (base * count + 15 * steps) + odd
  BY <1>1, <1>12, <1>13, <1>14, <1>15, <1>17, SumOfBoth
<1>19. SumFunctionOnSet(budget, set) = SumFunctionOnSet(own, set) + SumFunctionOnSet(shares, set)
  BY <1>1, <1>15, <1>16, SumOfBoth
<1>20. QED
  BY <1>1, <1>5, <1>18, <1>19

\* Minutes for row i, when b are those of the rows above.
Budget(list, available, b, i) ==
  LET p == Split!ParentOf(list, i) IN
  IF list[i].minutes # Split!None THEN list[i].minutes
  ELSE Split!GhostShare(list, Split!PartsOf(list, p), IF p = 0 THEN available ELSE b[p], i)

\* They depend on the rows above only.
LEMMA BudgetLooksUp ==
  ASSUME NEW list, NEW available, NEW i \in Nat, NEW b, NEW c, \A j \in 1..(i - 1) : b[j] = c[j]
  PROVE  Budget(list, available, b, i) = Budget(list, available, c, i)
<1> DEFINE p == Split!ParentOf(list, i)
<1>1. p = 0 \/ p \in 1..(i - 1)
  BY ParentAbove
<1>2. p # 0 => b[p] = c[p]
  BY <1>1
<1>3. QED
  BY <1>2 DEF Budget

\* So they can be filled in from the top.
LEMMA BudgetsFilled ==
  ASSUME NEW list, Len(list) \in Nat, NEW available
  PROVE  \E b : b = [i \in 1..Len(list) |-> Budget(list, available, b, i)]
<1> DEFINE S == {n \in 0..Len(list) : \E b : b = [i \in 1..n |-> Budget(list, available, b, i)]}
<1>1. 0 \in S
  <2> DEFINE none == [i \in 1..0 |-> 0]
  <2>1. none = [i \in 1..0 |-> Budget(list, available, none, i)]
    OBVIOUS
  <2> HIDE DEF none
  <2>2. \E b : b = [i \in 1..0 |-> Budget(list, available, b, i)]
    BY <2>1
  <2>3. 0 \in 0..Len(list)
    OBVIOUS
  <2>4. QED
    BY <2>2, <2>3
<1>2. ASSUME NEW n \in 1..Len(list), n - 1 \in S PROVE n \in S
  <2>1. PICK b : b = [i \in 1..(n - 1) |-> Budget(list, available, b, i)]
    BY <1>2
  <2> DEFINE c == [i \in 1..n |-> IF i = n THEN Budget(list, available, b, n) ELSE b[i]]
  <2>2. ASSUME NEW i \in 1..n PROVE c[i] = Budget(list, available, c, i)
    <3>1. i \in Nat /\ \A j \in 1..(i - 1) : b[j] = c[j]
      OBVIOUS
    <3>2. Budget(list, available, b, i) = Budget(list, available, c, i)
      <4> HIDE DEF c
      <4>1. QED
        BY <3>1, BudgetLooksUp
    <3>3. c[i] = Budget(list, available, b, i)
      <4>1. CASE i = n
        BY <4>1
      <4>2. CASE i # n
        <5>1. i \in 1..(n - 1) /\ c[i] = b[i]
          BY <4>2
        <5> HIDE DEF c
        <5>2. b[i] = Budget(list, available, b, i)
          BY <2>1, <5>1
        <5>3. QED
          BY <5>1, <5>2
      <4>3. QED
        BY <4>1, <4>2
    <3>4. QED
      BY <3>2, <3>3
  <2>3. c = [i \in 1..n |-> c[i]]
    OBVIOUS
  <2> HIDE DEF c
  <2>4. c = [i \in 1..n |-> Budget(list, available, c, i)]
    BY <2>2, <2>3
  <2>5. QED
    BY <2>4
<1>3. \A n \in 0..Len(list) : n \in S
  <2> HIDE DEF S
  <2>1. QED
    BY <1>1, <1>2, ReachesAll
<1>4. Len(list) \in S
  BY <1>3
<1>5. QED
  BY <1>4

LEMMA BudgetsAre ==
  ASSUME NEW list \in Seq(EditorRow), NEW available
  PROVE  \A i \in 1..Len(list) : Split!Budgets(list, available)[i] = Budget(list, available, Split!Budgets(list, available), i)
<1> DEFINE b == CHOOSE f : f = [i \in 1..Len(list) |-> Budget(list, available, f, i)]
<1>1. DOMAIN list = 1..Len(list) /\ Len(list) \in Nat
  OBVIOUS
<1>2. b = [i \in 1..Len(list) |-> Budget(list, available, b, i)]
  BY <1>1, BudgetsFilled
<1>3. Split!Budgets(list, available) = b
  BY <1>1 DEF Split!Budgets, Budget
<1> HIDE DEF b
<1>4. QED
  BY <1>2, <1>3

\* Every row has minutes, and a row without an estimate of its own has some.
LEMMA BudgetsCount ==
  ASSUME NEW list \in Seq(EditorRow), NEW available \in Nat, NEW b,
         \A i \in 1..Len(list) : b[i] = Budget(list, available, b, i)
  PROVE  \A i \in 1..Len(list) : b[i] \in Nat /\ (list[i].minutes = -1 => b[i] > 0)
<1> DEFINE Bad == {i \in 1..Len(list) : ~ (b[i] \in Nat /\ (list[i].minutes = -1 => b[i] > 0))}
<1>1. DOMAIN list = 1..Len(list) /\ Len(list) \in Nat
  OBVIOUS
<1>2. ASSUME Bad # {} PROVE FALSE
  <2>1. Bad \in SUBSET Nat
    BY <1>1
  <2>2. PICK i \in Bad : \A j \in Bad : i <= j
    <3> HIDE DEF Bad
    <3>1. QED
      BY <1>2, <2>1, LeastNat
  <2>3. i \in 1..Len(list) /\ i \in Nat /\ list[i] \in EditorRow
    BY <1>1, <2>2
  <2> DEFINE p == Split!ParentOf(list, i)
             whole == IF p = 0 THEN available ELSE b[p]
             parts == Split!PartsOf(list, p)
  <2>4. p = 0 \/ p \in 1..(i - 1)
    BY <2>3, ParentAbove
  <2>5. whole \in Nat
    <3>1. CASE p = 0
      BY <3>1
    <3>2. CASE p # 0
      <4>1. p \in 1..Len(list) /\ ~ (i <= p)
        BY <1>1, <2>3, <2>4, <3>2
      <4>2. p \notin Bad
        BY <2>2, <4>1
      <4>3. QED
        BY <3>2, <4>1, <4>2
    <3>3. QED
      BY <3>1, <3>2
  <2>6. list[i].minutes \in Nat \cup {-1}
    BY <2>3 DEF EditorRow
  <2>7. CASE list[i].minutes = -1
    <3>1. i \in Split!Ghosts(list, parts) /\ parts \in SUBSET DOMAIN list
      BY <1>1, <2>3, <2>7 DEF Split!Ghosts, Split!PartsOf, Split!None
    <3>2. b[i] = Split!GhostShare(list, parts, whole, i)
      BY <2>3, <2>7 DEF Budget, Split!None
    <3>3. whole \in Int
      BY <2>5
    <3> HIDE DEF whole, parts
    <3>4. Split!GhostShare(list, parts, whole, i) \in Nat /\ Split!GhostShare(list, parts, whole, i) > 0
      BY <3>1, <3>3, SharesCount
    <3>5. QED
      BY <2>2, <3>2, <3>4
  <2>8. CASE list[i].minutes # -1
    <3>1. b[i] = list[i].minutes
      BY <2>3, <2>8 DEF Budget, Split!None
    <3>2. QED
      BY <2>2, <2>6, <2>8, <3>1
  <2>9. QED
    BY <2>7, <2>8
<1>3. QED
  BY <1>2

\* The shares of any outline add up.
LEMMA OutlineAddsUp ==
  ASSUME NEW list \in Seq(EditorRow), NEW available \in Nat, NEW p \in 0..Len(list), NEW b,
         \A i \in 1..Len(list) : b[i] = Budget(list, available, b, i),
         NEW parts, parts = Split!PartsOf(list, p),
         NEW whole, whole = IF p = 0 THEN available ELSE b[p],
         Split!Ghosts(list, parts) # {},
         Split!Unassigned(list, parts, whole) >= 15 * Cardinality(Split!Ghosts(list, parts))
  PROVE  SumFunctionOnSet(b, parts) = whole
<1>1. DOMAIN list = 1..Len(list) /\ Len(list) \in Nat
  OBVIOUS
<1>2. whole \in Int
  <2>1. p = 0 \/ p \in 1..Len(list)
    BY <1>1
  <2>2. p \in 1..Len(list) => b[p] \in Nat
    BY BudgetsCount
  <2>3. QED
    BY <2>1, <2>2
<1>3. parts \in SUBSET DOMAIN list
  BY DEF Split!PartsOf
<1>4. ASSUME NEW i \in parts
      PROVE  b[i] = IF i \in Split!Ghosts(list, parts) THEN Split!GhostShare(list, parts, whole, i) ELSE list[i].minutes
  <2>1. i \in 1..Len(list) /\ Split!ParentOf(list, i) = p
    BY <1>1 DEF Split!PartsOf
  <2>2. b[i] = Budget(list, available, b, i)
    BY <2>1
  <2>3. Budget(list, available, b, i) = IF list[i].minutes # -1 THEN list[i].minutes
                                        ELSE Split!GhostShare(list, parts, whole, i)
    BY <2>1 DEF Budget, Split!None
  <2>4. i \in Split!Ghosts(list, parts) <=> list[i].minutes = -1
    BY DEF Split!Ghosts, Split!None
  <2>5. QED
    BY <2>2, <2>3, <2>4
<1>5. QED
  BY <1>2, <1>3, <1>4, SharesAre

LEMMA EditorAddsUp ==
  ASSUME rows \in Seq(EditorRow), m3 \in Nat
  PROVE  Split!SharesAddUp
<1> DEFINE available == Split!Available(m2, m3)
           b == Split!Budgets(rows, available)
<1>1. available \in Nat
  BY PagesAssumption DEF Split!Available, Split!EstimateIn
<1>2. DOMAIN rows = 1..Len(rows)
  OBVIOUS
<1>3. \A i \in 1..Len(rows) : b[i] = Budget(rows, available, b, i)
  BY BudgetsAre
<1> DEFINE Adds(parts, whole) ==
             Split!Ghosts(rows, parts) # {}
             /\ Split!Unassigned(rows, parts, whole) >= Split!STEP * Split!Cardinality(Split!Ghosts(rows, parts))
               => Split!SumOver(b, parts) = whole
<1>4. Split!SharesAddUp <=>
        /\ \A i \in Split!Ghosts(rows, DOMAIN rows) : b[i] > 0
        /\ \A p \in 0..Len(rows) : Adds(Split!PartsOf(rows, p), IF p = 0 THEN available ELSE b[p])
  BY Zenon DEF Split!SharesAddUp
<1> HIDE DEF available, b
<1>5. ASSUME NEW i \in Split!Ghosts(rows, DOMAIN rows) PROVE b[i] > 0
  <2>1. i \in 1..Len(rows) /\ rows[i].minutes = -1
    BY <1>2 DEF Split!Ghosts, Split!None
  <2>2. QED
    BY <1>1, <1>3, <2>1, BudgetsCount
<1>6. ASSUME NEW p \in 0..Len(rows) PROVE Adds(Split!PartsOf(rows, p), IF p = 0 THEN available ELSE b[p])
  <2> DEFINE parts == Split!PartsOf(rows, p)
             whole == IF p = 0 THEN available ELSE b[p]
  <2> HIDE DEF parts, whole
  <2>1. ASSUME Split!Ghosts(rows, parts) # {},
               Split!Unassigned(rows, parts, whole) >= 15 * Cardinality(Split!Ghosts(rows, parts))
        PROVE  SumFunctionOnSet(b, parts) = whole
    BY <1>1, <1>3, <2>1, OutlineAddsUp DEF parts, whole
  <2>2. Split!SumOver(b, parts) = SumFunctionOnSet(b, parts)
    BY SameShareSum DEF Split!SumOver
  <2>3. Split!Cardinality(Split!Ghosts(rows, parts)) = Cardinality(Split!Ghosts(rows, parts))
    BY SameShareSum
  <2>4. Adds(parts, whole)
    BY <2>1, <2>2, <2>3 DEF Split!STEP
  <2>5. QED
    BY <2>4 DEF parts, whole
<1> HIDE DEF Adds
<1>7. QED
  BY <1>4, <1>5, <1>6

\* What was worked on the task stays, and an editor that is closed has no rows.
SharesInv == page = "split" => m3 \in Nat /\ (~ editing => rows = <<>>)

LEMMA EditorCloses ==
  ASSUME [Split!Next]_(Split!vars), ~ editing => rows = <<>>
  PROVE  m3' = m3 /\ (~ editing' => rows' = <<>>)
<1>1. CASE UNCHANGED Split!vars
  BY <1>1 DEF Split!vars
<1>2. CASE Split!Cancel \/ \E s \in DOMAIN partSaves : Split!Saved(s)
  BY <1>2 DEF Split!Cancel, Split!Saved, Split!Closed
<1>3. CASE Split!Save \/ Split!AdoptSum \/ \E field \in Typed \cup {Split!Nonsense, Split!None} : Split!TypeTotal(field)
  BY <1>3 DEF Split!Save, Split!AdoptSum, Split!TypeTotal
<1>4. CASE \E s \in DOMAIN partSaves : Split!TagsMade(s) \/ Split!SaveFails(s)
  BY <1>4 DEF Split!TagsMade, Split!SaveFails
<1>5. ASSUME editing, Split!Elsewhere PROVE m3' = m3 /\ (~ editing' => rows' = <<>>)
  BY <1>5 DEF Split!Elsewhere
<1>6. CASE \/ Split!Enter \/ Split!Tab \/ Split!ShiftTab \/ Split!AltUp \/ Split!AltDown \/ Split!Backspace
           \/ \E lines \in {<<0, 0>>, <<0, 1>>} : Split!Paste(lines)
           \/ \E text \in {"empty", "plain", "tokens", "broken"} : Split!TypeName(text)
  BY <1>5, <1>6 DEF Split!Enter, Split!Tab, Split!ShiftTab, Split!AltUp, Split!AltDown, Split!Backspace, Split!Paste,
                    Split!TypeName, Split!AtRow
<1>7. CASE \/ \E i \in 0..Len(rows) : Split!Focus(i)
           \/ \E i \in DOMAIN rows, minutes \in Typed \cup {Split!Nonsense, Split!None} : Split!TypeEstimate(i, minutes)
  BY <1>5, <1>7 DEF Split!Focus, Split!TypeEstimate
<1>8. QED
  BY <1>1, <1>2, <1>3, <1>4, <1>6, <1>7 DEF Split!Next

\* However the rows are edited: while there is a step for each of them, the rows
\* without an estimate share exactly what is left of the budget above them, and
\* each of them gets something.
THEOREM SharesAreExact == Spec => []SharesAddUp
<1>1. Init => SplitInv /\ SharesInv
  <2> SUFFICES ASSUME Init, page = "split" PROVE EditorInv /\ m3 \in Nat /\ editing
    BY DEF SplitInv, SharesInv
  <2>1. Split!Init
    BY PageInit
  <2>2. m3 \in Spent /\ editing
    BY <2>1 DEF Split!Init
  <2>3. m3 \in Nat
    BY <2>2, PagesAssumption
  <2>4. QED
    BY <2>1, <2>2, <2>3, EditorStarts
<1>2. SplitInv /\ SharesInv /\ [Next]_vars => (SplitInv /\ SharesInv)'
  <2> SUFFICES ASSUME SplitInv, SharesInv, [Next]_vars, page' = "split"
               PROVE  (editing' => EditorInv') /\ m3' \in Nat /\ (~ editing' => rows' = <<>>)
    BY DEF SplitInv, SharesInv
  <2>1. page = "split" /\ [Split!Next]_(Split!vars)
    BY PageNext
  <2>2. m3' \in Nat /\ (~ editing' => rows' = <<>>)
    BY <2>1, EditorCloses DEF SharesInv
  <2>3. editing' => EditorInv'
    BY <2>1, EditorStaysClosed, EditorStep DEF SplitInv
  <2>4. QED
    BY <2>2, <2>3
<1>3. SplitInv /\ SharesInv => SharesAddUp
  <2> SUFFICES ASSUME SplitInv, SharesInv, page = "split" PROVE Split!SharesAddUp
    BY DEF SharesAddUp
  <2>1. <<>> \in Seq(EditorRow)
    OBVIOUS
  <2>2. rows \in Seq(EditorRow)
    BY <2>1 DEF SplitInv, SharesInv, EditorInv
  <2>3. m3 \in Nat
    BY DEF SharesInv
  <2>4. QED
    BY <2>2, <2>3, EditorAddsUp
<1>4. QED
  BY <1>1, <1>2, <1>3, PTL DEF Spec

-----------------------------------------------------------------------------
(* The week: cards side by side.                                           *)

\* The instance counts as FiniteSets does.
LEMMA SameCardinality == \A S : Planned!Cardinality(S) = Cardinality(S)
BY DEF Planned!Cardinality, Cardinality

\* The instance sorts as Sorting does, and has the same least and greatest.
LEMMA SameSorted == \A S, before : Planned!Sorted(S, before) = Sorted(S, before)
<1> TAKE S, before
<1> DEFINE N == Cardinality(S)
           F(line) == [n \in 0..N |-> IF n = 0 THEN <<>>
                         ELSE Append(line[n - 1], Planned!First(S \ Planned!ToSet(line[n - 1]), before))]
           G(line) == [n \in 0..N |-> IF n = 0 THEN <<>>
                         ELSE Append(line[n - 1], First(S \ ToSet(line[n - 1]), before))]
           lineF == CHOOSE line : line = F(line)
           lineG == CHOOSE line : line = G(line)
<1>1. Planned!Sorted(S, before) = lineF[N]
  BY SameCardinality DEF Planned!Sorted
<1>2. Sorted(S, before) = lineG[N]
  BY DEF Sorted
<1>3. \A T : Planned!First(T, before) = First(T, before)
  BY DEF Planned!First, First
<1>4. \A q : Planned!ToSet(q) = ToSet(q)
  BY DEF Planned!ToSet, ToSet
<1>5. \A line : F(line) = G(line)
  BY <1>3, <1>4
<1> HIDE DEF F, G
<1>6. lineF = lineG
  BY <1>5
<1>7. QED
  BY <1>1, <1>2, <1>6

LEMMA SameExtremes == \A S : Planned!Max(S) = Max(S) /\ Planned!Min(S) = Min(S)
BY DEF Planned!Max, Max, Planned!Min, Min

\* What the lanes need of a card.
IsCard(c) == c.start \in Nat /\ c.length \in Int

\* A card ends for overlapLanes no earlier than a touch before its end.
LEMMA LaneEndIs ==
  ASSUME NEW c, IsCard(c)
  PROVE  Planned!LaneEnd(c) \in Int /\ Planned!LaneEnd(c) >= (c.start + c.length) - Touching
<1> DEFINE a == c.start
           b == (c.start + c.length) - Touching
<1>1. a \in Int /\ b \in Int
  BY PlansAssumption DEF IsCard
<1>2. Planned!LaneEnd(c) = Max({a, b})
  <2>1. Planned!LaneEnd(c) = Planned!Max({a, b})
    BY DEF Planned!LaneEnd, Planned!EndOf
  <2> HIDE DEF a, b
  <2>2. QED
    BY <2>1, SameExtremes
<1> HIDE DEF a, b
<1>3. Max({a, b}) \in Int /\ Max({a, b}) >= b
  BY <1>1, MaxOfTwo
<1>4. QED
  BY <1>2, <1>3 DEF b

\* A finite plan has finitely many cards on a day, each of which starts somewhere.
LEMMA SegmentsAre ==
  ASSUME NEW c, c.start \in Nat, c.length \in Nat
  PROVE  IsFiniteSet(Planned!Segments(c)) /\ \A s \in Planned!Segments(c) : IsCard(s)
<1> DEFINE fromOn(day) == Planned!Max({c.start, day * PageDay})
           untilOn(day) == Planned!Min({Planned!EndOf(c), (day + 1) * PageDay})
           part(day) == [task |-> c.task, start |-> fromOn(day), length |-> untilOn(day) - fromOn(day)]
           days == Planned!DayOf(c.start)..Planned!DayOf(Planned!EndOf(c) - 1)
           f == [day \in days |-> part(day)]
<1>1. PageDay \in Nat \ {0}
  BY PlansAssumption
<1>2. Planned!EndOf(c) \in Nat
  BY DEF Planned!EndOf
<1>3. Planned!DayOf(c.start) \in Int /\ Planned!DayOf(Planned!EndOf(c) - 1) \in Int
  BY <1>1, <1>2 DEF Planned!DayOf
<1>4. IsFiniteSet(days)
  BY <1>3, FS_Interval
<1>5. Planned!Segments(c) = {f[day] : day \in days}
  BY DEF Planned!Segments
<1>6. ASSUME NEW day \in days PROVE IsCard(part(day))
  <2> DEFINE b == day * PageDay
             d == (day + 1) * PageDay
             e == Planned!EndOf(c)
             a == c.start
  <2>1. b \in Int /\ d \in Int /\ e \in Int /\ a \in Nat
    BY <1>1, <1>2, <1>3
  <2>2. fromOn(day) = Max({a, b}) /\ untilOn(day) = Min({e, d})
    BY SameExtremes
  <2> HIDE DEF a, b, d, e
  <2>3. Max({a, b}) \in Int /\ Max({a, b}) >= a /\ Min({e, d}) \in Int
    <3>1. a \in Int /\ b \in Int /\ d \in Int /\ e \in Int
      BY <2>1
    <3>2. Max({a, b}) \in Int /\ Max({a, b}) >= a
      BY <3>1, MaxOfTwo
    <3>3. Min({e, d}) \in Int
      BY <3>1, MinOfTwo
    <3>4. QED
      BY <3>2, <3>3
  <2>4. Max({a, b}) \in Nat
    BY <2>1, <2>3
  <2> HIDE DEF fromOn, untilOn
  <2>5. part(day).start \in Nat /\ part(day).length \in Int
    BY <2>2, <2>3, <2>4
  <2>6. QED
    BY <2>5 DEF IsCard
<1> HIDE DEF part, days
<1>7. IsFiniteSet({f[day] : day \in days})
  <2> HIDE DEF f
  <2>1. QED
    BY <1>4, FiniteImage
<1>8. QED
  BY <1>5, <1>6, <1>7

LEMMA CardsAre ==
  ASSUME NEW p \in Plans, NEW day
  PROVE  IsFiniteSet(Planned!CardsOn(day, p)) /\ \A c \in Planned!CardsOn(day, p) : IsCard(c)
<1> DEFINE all == Planned!Cards(p)
           f == [c \in all |-> Planned!Segments(c)]
           some == {f[c] : c \in all}
<1>1. IsFiniteSet(all) /\ \A c \in all : c.start \in Nat /\ c.length \in Nat
  BY PlansAssumption
<1>2. \A c \in all : IsFiniteSet(f[c]) /\ \A s \in f[c] : IsCard(s)
  BY <1>1, SegmentsAre
<1>3. Planned!CardsOn(day, p) \subseteq UNION some
  BY DEF Planned!CardsOn
<1> HIDE DEF all, f
<1>4. IsFiniteSet(some)
  BY <1>1, FiniteImage
<1>5. IsFiniteSet(UNION some)
  BY <1>2, <1>4, FS_UNION
<1>6. QED
  BY <1>2, <1>3, <1>5, FS_Subset

\* The order in which overlapLanes places cards.
InTurn(cards) == {p \in cards \X cards : Planned!Before(p[1], p[2])}

\* Of some cards there is always one to be placed first.
LEMMA CardsHaveFirst ==
  ASSUME NEW cards, IsFiniteSet(cards), \A c \in cards : IsCard(c)
  PROVE  HasFirst(cards, InTurn(cards))
<1> SUFFICES ASSUME NEW T \in SUBSET cards, T # {}
             PROVE  \E x \in T : \A y \in T : ~Planned!Before(y, x)
  BY DEF HasFirst, InTurn
<1> DEFINE starts == {c.start : c \in T}
<1>1. starts \in SUBSET Nat /\ starts # {}
  BY DEF IsCard
<1>2. PICK m \in starts : \A y \in starts : m <= y
  <2> HIDE DEF starts
  <2>1. QED
    BY <1>1, LeastNat
<1> DEFINE now == {c \in T : c.start = m}
           end == [c \in now |-> Planned!LaneEnd(c)]
<1>3. now # {} /\ IsFiniteSet(now) /\ \A c \in now : end[c] \in Int
  BY <1>2, LaneEndIs, FS_Subset
<1>4. PICK b \in Nat : \A c \in now : end[c] <= b
  <2> HIDE DEF now, end
  <2>1. QED
    BY <1>3, BoundedImage
<1> DEFINE leftover == {b - end[c] : c \in now}
<1>5. leftover \in SUBSET Nat /\ leftover # {}
  <2> HIDE DEF now, end
  <2>1. \A c \in now : b - end[c] \in Nat
    BY <1>3, <1>4
  <2>2. QED
    BY <1>3, <2>1
<1>6. PICK l \in leftover : \A y \in leftover : l <= y
  <2> HIDE DEF leftover
  <2>1. QED
    BY <1>5, LeastNat
<1>7. PICK x \in now : \A y \in now : end[y] <= end[x]
  <2> HIDE DEF now, end
  <2>1. PICK x \in now : l = b - end[x]
    BY <1>6
  <2>2. \A y \in now : b - end[x] <= b - end[y]
    BY <1>6, <2>1
  <2>3. \A y \in now : end[y] <= end[x]
    BY <1>3, <2>2
  <2>4. QED
    BY <2>3
<1>8. ASSUME NEW y \in T, Planned!Before(y, x) PROVE FALSE
  <2>1. y.start \in Nat /\ m <= y.start /\ m \in Nat
    BY <1>1, <1>2 DEF IsCard
  <2>2. x.start = m
    OBVIOUS
  <2>3. y.start = m /\ Planned!LaneEnd(y) > Planned!LaneEnd(x)
    BY <1>8, <2>1, <2>2 DEF Planned!Before
  <2>4. end[y] <= end[x]
    BY <1>7, <2>3
  <2>5. Planned!LaneEnd(y) \in Int /\ Planned!LaneEnd(x) \in Int
    BY LaneEndIs
  <2>6. QED
    BY <2>3, <2>4, <2>5
<1>9. QED
  BY <1>7, <1>8

\* What overlapLanes knows after some cards of cards.
LaneStates(cards) ==
  [placed : Seq([card : cards, group : Nat, lane : Nat]), ends : Seq(Int), group : Nat, until : Int]

\* Two cards have lanes beside each other.
BesideEachOther(p, q) == p.group = q.group /\ p.lane # q.lane

\* After n cards of a line each of which the last one overlaps is in the
\* group under way, at the end of its lane.
Beside(cards, line, n) ==
  {s \in LaneStates(cards) :
     /\ Len(s.placed) = n
     /\ \A i \in 1..n : s.placed[i].card = line[i] /\ Planned!LaneEnd(line[i]) <= s.until
     /\ \A i \in 1..n : Planned!LaneEnd(line[i]) > line[n].start =>
          /\ s.placed[i].group = s.group
          /\ s.placed[i].lane \in 1..Len(s.ends)
          /\ s.ends[s.placed[i].lane] = Planned!LaneEnd(line[i])
     /\ \A i, j \in 1..n : i < j /\ Planned!LaneEnd(line[i]) > line[j].start => BesideEachOther(s.placed[i], s.placed[j])}

\* Cards in the order of their starts.
InLine(cards, line, N) ==
  line \in [1..N -> cards] /\ \A i, j \in 1..N : i < j => line[i].start <= line[j].start

\* The lanes that are free again at start, the one a card gets, and where the
\* lanes end when it ends there.
FreeLanes(ends, start) == {i \in DOMAIN ends : ends[i] <= start}
LaneFor(ends, start) == IF FreeLanes(ends, start) = {} THEN Len(ends) + 1 ELSE Planned!Min(FreeLanes(ends, start))
EndsWith(ends, start, end) ==
  IF FreeLanes(ends, start) = {} THEN Append(ends, end) ELSE [ends EXCEPT ![LaneFor(ends, start)] = end]

\* A card gets the first lane that is free again, or a new one behind all others;
\* every other lane stays.
LEMMA LaneIs ==
  ASSUME NEW ends \in Seq(Int), NEW start \in Int, NEW end \in Int
  PROVE  /\ LaneFor(ends, start) \in Nat /\ EndsWith(ends, start, end) \in Seq(Int)
         /\ LaneFor(ends, start) \in 1..Len(EndsWith(ends, start, end))
         /\ EndsWith(ends, start, end)[LaneFor(ends, start)] = end
         /\ \A i \in 1..Len(ends) : ends[i] > start =>
              /\ i # LaneFor(ends, start) /\ i \in 1..Len(EndsWith(ends, start, end))
              /\ EndsWith(ends, start, end)[i] = ends[i]
<1> DEFINE freed == FreeLanes(ends, start)
           lane == LaneFor(ends, start)
           after == EndsWith(ends, start, end)
           size == Len(ends)
<1>1. DOMAIN ends = 1..size /\ size \in Nat /\ \A i \in 1..size : ends[i] \in Int
  OBVIOUS
<1>2. CASE freed = {}
  <2>1. lane = size + 1 /\ after = Append(ends, end)
    BY <1>2 DEF LaneFor, EndsWith
  <2>2. Append(ends, end) \in Seq(Int) /\ Len(Append(ends, end)) = size + 1 /\ Append(ends, end)[size + 1] = end
        /\ \A i \in 1..size : Append(ends, end)[i] = ends[i]
    OBVIOUS
  <2> HIDE DEF lane, after, size
  <2>3. after \in Seq(Int) /\ Len(after) = lane /\ after[lane] = end /\ lane \in Nat \ {0} /\ size < lane
        /\ \A i \in 1..size : after[i] = ends[i]
    BY <1>1, <2>1, <2>2
  <2>4. \A i \in 1..size : i # lane /\ i \in 1..Len(after)
    BY <1>1, <2>3
  <2>5. lane \in 1..Len(after)
    BY <2>3
  <2>6. QED
    BY <2>3, <2>4, <2>5 DEF lane, after, size
<1>3. CASE freed # {}
  <2>1. freed \in SUBSET Int /\ \A x \in freed : 0 <= x
    BY <1>1 DEF FreeLanes
  <2>2. lane = Planned!Min(freed) /\ after = [ends EXCEPT ![lane] = end]
    BY <1>3 DEF LaneFor, EndsWith
  <2>3. freed \subseteq 1..size /\ \A i \in freed : ends[i] <= start
    BY <1>1 DEF FreeLanes
  <2> HIDE DEF lane, after, size, freed
  <2>4. lane \in freed
    <3>1. Min(freed) \in freed
      BY <1>3, <2>1, MinOfMoments, 0 \in Int
    <3>2. QED
      BY <2>2, <3>1, SameExtremes
  <2>5. lane \in 1..size /\ ends[lane] <= start
    BY <2>3, <2>4
  <2>6. ends \in [1..size -> Int]
    BY <1>1
  <2>7. after \in [1..size -> Int] /\ after[lane] = end /\ \A i \in 1..size : i # lane => after[i] = ends[i]
    BY <2>2, <2>5, <2>6
  <2>8. after \in Seq(Int) /\ Len(after) = size
    BY <1>1, <2>7
  <2>9. ASSUME NEW i \in 1..size, ends[i] > start
        PROVE  i # lane /\ after[i] = ends[i]
    <3>1. i # lane
      BY <1>1, <2>5, <2>9
    <3>2. QED
      BY <2>7, <3>1
  <2>10. lane \in Nat
    BY <1>1, <2>5
  <2>11. QED
    BY <2>5, <2>7, <2>8, <2>9, <2>10 DEF lane, after, size
<1>4. QED
  BY <1>2, <1>3

\* Placing a card keeps what is overlapped beside it.
LEMMA PlaceKeeps ==
  ASSUME NEW cards, \A c \in cards : IsCard(c), NEW N \in Nat, NEW line, InLine(cards, line, N), NEW n \in 1..N,
         NEW s \in Beside(cards, line, n - 1)
  PROVE  Planned!Place(s, line[n]) \in Beside(cards, line, n)
<1> DEFINE card == line[n]
           end == Planned!LaneEnd(card)
           opens == card.start >= s.until
           ends == IF opens THEN <<>> ELSE s.ends
           group == IF opens THEN s.group + 1 ELSE s.group
           lane == LaneFor(ends, card.start)
           after == EndsWith(ends, card.start, end)
           placed == Append(s.placed, [card |-> card, group |-> group, lane |-> lane])
           reach == Planned!Max({s.until, end})
           t == [placed |-> placed, ends |-> after, group |-> group, until |-> reach]
<1>1. Planned!Place(s, card) = t
  BY DEF Planned!Place, LaneFor, EndsWith, FreeLanes
<1>2. /\ s \in LaneStates(cards) /\ Len(s.placed) = n - 1
      /\ \A i \in 1..(n - 1) : s.placed[i].card = line[i] /\ Planned!LaneEnd(line[i]) <= s.until
      /\ \A i \in 1..(n - 1) : Planned!LaneEnd(line[i]) > line[n - 1].start =>
           /\ s.placed[i].group = s.group
           /\ s.placed[i].lane \in 1..Len(s.ends)
           /\ s.ends[s.placed[i].lane] = Planned!LaneEnd(line[i])
      /\ \A i, j \in 1..(n - 1) : i < j /\ Planned!LaneEnd(line[i]) > line[j].start
           => BesideEachOther(s.placed[i], s.placed[j])
  BY DEF Beside
<1>3. \A i \in 1..N : line[i] \in cards /\ line[i].start \in Int /\ Planned!LaneEnd(line[i]) \in Int
  <2>1. \A i \in 1..N : line[i] \in cards /\ IsCard(line[i])
    BY DEF InLine
  <2>2. QED
    BY <2>1, LaneEndIs DEF IsCard
<1>4. card \in cards /\ card.start \in Int /\ end \in Int
  BY <1>3
<1>5. s.until \in Int /\ s.group \in Nat /\ s.ends \in Seq(Int) /\ s.placed \in Seq([card : cards, group : Nat, lane : Nat])
  BY <1>2 DEF LaneStates
<1>6. ends \in Seq(Int) /\ group \in Nat
  BY <1>5
<1> HIDE DEF end, ends
<1>7. /\ lane \in Nat /\ after \in Seq(Int)
      /\ lane \in 1..Len(after) /\ after[lane] = end
      /\ \A i \in 1..Len(ends) : ends[i] > card.start => i # lane /\ i \in 1..Len(after) /\ after[i] = ends[i]
  <2> HIDE DEF card
  <2>1. QED
    BY <1>4, <1>6, LaneIs
<1> HIDE DEF lane, after
<1>8. reach \in Int /\ reach >= s.until /\ reach >= end
  <2>1. reach = Max({s.until, end})
    BY SameExtremes
  <2>2. QED
    BY <1>4, <1>5, <2>1, MaxOfTwo
<1> HIDE DEF reach, group
<1>9. /\ placed \in Seq([card : cards, group : Nat, lane : Nat]) /\ Len(placed) = n
      /\ \A i \in 1..(n - 1) : placed[i] = s.placed[i]
      /\ placed[n] = [card |-> card, group |-> group, lane |-> lane]
  <2> DEFINE x == [card |-> card, group |-> group, lane |-> lane]
  <2>1. x \in [card : cards, group : Nat, lane : Nat]
    BY <1>4, <1>6, <1>7
  <2> HIDE DEF x
  <2>2. Len(s.placed) = n - 1 /\ n \in Nat
    BY <1>2
  <2>3. QED
    BY <1>5, <2>1, <2>2 DEF x
<1> HIDE DEF placed
\* A card that the new one overlaps.
<1>10. ASSUME NEW i \in 1..(n - 1), Planned!LaneEnd(line[i]) > card.start
       PROVE  /\ s.placed[i].group = group
              /\ s.placed[i].lane # lane
              /\ s.placed[i].lane \in 1..Len(after)
              /\ after[s.placed[i].lane] = Planned!LaneEnd(line[i])
  <2>1. n \in 1..N /\ n - 1 \in 1..N /\ n - 1 < n /\ i \in 1..N
    OBVIOUS
  <2>2. line[n - 1].start <= card.start
    BY <2>1 DEF InLine
  <2>3. Planned!LaneEnd(line[i]) > line[n - 1].start
    BY <1>3, <1>10, <2>1, <2>2
  <2>4. s.placed[i].group = s.group /\ s.placed[i].lane \in 1..Len(s.ends)
        /\ s.ends[s.placed[i].lane] = Planned!LaneEnd(line[i])
    BY <1>2, <2>3
  <2>5. ~opens
    <3>1. Planned!LaneEnd(line[i]) <= s.until
      BY <1>2
    <3>2. QED
      BY <1>3, <1>5, <1>10, <2>1, <3>1
  <2>6. ends = s.ends /\ group = s.group
    BY <2>5 DEF ends, group
  <2>7. QED
    BY <1>7, <1>10, <2>4, <2>6
<1>11. t \in LaneStates(cards)
  BY <1>6, <1>7, <1>8, <1>9 DEF LaneStates
<1>12. ASSUME NEW i \in 1..n PROVE t.placed[i].card = line[i] /\ Planned!LaneEnd(line[i]) <= t.until
  <2>1. CASE i = n
    BY <1>4, <1>8, <1>9, <2>1 DEF end
  <2>2. CASE i # n
    <3>1. i \in 1..(n - 1) /\ i \in 1..N
      BY <2>2
    <3>2. s.placed[i].card = line[i] /\ Planned!LaneEnd(line[i]) <= s.until
      BY <1>2, <3>1
    <3>3. Planned!LaneEnd(line[i]) <= reach
      BY <1>3, <1>5, <1>8, <3>1, <3>2
    <3>4. QED
      BY <1>9, <3>1, <3>2, <3>3
  <2>3. QED
    BY <2>1, <2>2
<1>13. ASSUME NEW i \in 1..n, Planned!LaneEnd(line[i]) > line[n].start
       PROVE  t.placed[i].group = t.group /\ t.placed[i].lane \in 1..Len(t.ends)
              /\ t.ends[t.placed[i].lane] = Planned!LaneEnd(line[i])
  <2>1. CASE i = n
    BY <1>7, <1>9, <2>1 DEF end
  <2>2. CASE i # n
    <3>1. i \in 1..(n - 1)
      BY <2>2
    <3>2. QED
      BY <1>9, <1>10, <1>13, <3>1
  <2>3. QED
    BY <2>1, <2>2
<1>14. ASSUME NEW i \in 1..n, NEW j \in 1..n, i < j, Planned!LaneEnd(line[i]) > line[j].start
       PROVE  BesideEachOther(t.placed[i], t.placed[j])
  <2>1. i \in 1..(n - 1)
    BY <1>14
  <2>2. CASE j = n
    <3>1. s.placed[i].group = group /\ s.placed[i].lane # lane
      BY <1>10, <1>14, <2>1, <2>2
    <3>2. QED
      BY <1>9, <2>1, <2>2, <3>1 DEF BesideEachOther
  <2>3. CASE j # n
    <3>1. j \in 1..(n - 1)
      BY <2>3
    <3>2. BesideEachOther(s.placed[i], s.placed[j])
      BY <1>2, <1>14, <2>1, <3>1
    <3>3. QED
      BY <1>9, <2>1, <3>1, <3>2
  <2>4. QED
    BY <2>2, <2>3
<1>15. t.placed = placed
  OBVIOUS
<1>16. Len(t.placed) = n
  BY <1>9
<1> HIDE DEF t
<1>17. t \in Beside(cards, line, n)
  BY <1>11, <1>12, <1>13, <1>14, <1>16 DEF Beside
<1>18. QED
  BY <1>1, <1>17

\* What overlapLanes returns is what it knows after the last card.
LEMMA OverlapLanesIs ==
  ASSUME NEW cards, IsFiniteSet(cards), \A c \in cards : IsCard(c)
  PROVE  \E N \in Nat : \E line :
           InLine(cards, line, N) /\ \E s \in Beside(cards, line, N) : Planned!OverlapLanes(cards) = s.placed
<1> DEFINE N == Cardinality(cards)
           line == Sorted(cards, InTurn(cards))
           B == [n \in 0..N |-> Beside(cards, line, n)]
           all == UNION {B[n] : n \in 0..N}
           step(s, n) == Planned!Place(s, line[n])
           F == [p \in all \X (1..N) |-> step(p[1], p[2])]
           lanes == CHOOSE f : f = [n \in 0..N |-> IF n = 0 THEN Planned!NoLanes ELSE step(f[n - 1], n)]
<1>1. N \in Nat
  BY FS_CardinalityType
<1>2. /\ line \in Seq(cards) /\ Len(line) = N /\ line \in Lines(cards, N)
      /\ \A i, j \in 1..N : i < j => <<line[j], line[i]>> \notin InTurn(cards)
  BY CardsHaveFirst, SortedIs
<1>3. InLine(cards, line, N)
  <2> HIDE DEF line, N
  <2>1. line \in [1..N -> cards]
    BY <1>2 DEF Lines
  <2>2. ASSUME NEW i \in 1..N, NEW j \in 1..N, i < j PROVE line[i].start <= line[j].start
    <3>1. line[i] \in cards /\ line[j] \in cards /\ <<line[j], line[i]>> \notin InTurn(cards)
      BY <1>2, <2>1, <2>2
    <3>2. ~(line[j].start < line[i].start)
      BY <3>1 DEF InTurn, Planned!Before
    <3>3. line[i].start \in Nat /\ line[j].start \in Nat
      BY <3>1 DEF IsCard
    <3>4. QED
      BY <3>2, <3>3
  <2>3. QED
    BY <2>1, <2>2 DEF InLine
<1>4. Planned!OverlapLanes(cards) = lanes[N].placed
  <2>1. Planned!Sorted(cards, InTurn(cards)) = line
    BY SameSorted
  <2> HIDE DEF line, N
  <2>2. QED
    BY <1>2, <2>1 DEF Planned!OverlapLanes, InTurn
<1> HIDE DEF line, N
<1>5. Planned!NoLanes \in B[0]
  <2>1. Planned!NoLanes \in Beside(cards, line, 0)
    BY DEF Planned!NoLanes, Beside, LaneStates
  <2>2. QED
    BY <1>1, <2>1
<1>6. \A n \in 1..N : \A s \in B[n - 1] : F[<<s, n>>] = step(s, n) /\ step(s, n) \in B[n]
  <2> SUFFICES ASSUME NEW n \in 1..N, NEW s \in B[n - 1] PROVE F[<<s, n>>] = step(s, n) /\ step(s, n) \in B[n]
    OBVIOUS
  <2>1. n - 1 \in 0..N /\ n \in 0..N
    BY <1>1
  <2>2. s \in Beside(cards, line, n - 1)
    BY <2>1
  <2>3. <<s, n>> \in all \X (1..N)
    BY <2>1
  <2>4. step(s, n) \in Beside(cards, line, n)
    BY <1>1, <1>3, <2>2, PlaceKeeps
  <2> HIDE DEF step, all
  <2>5. QED
    BY <2>1, <2>3, <2>4
<1> HIDE DEF B, step, F, all
<1>7. PICK g : RunsTo(g, F, Planned!NoLanes, N) /\ \A n \in 0..N : g[n] \in B[n]
  <2>1. \A n \in 1..N : \A s \in B[n - 1] : F[<<s, n>>] \in B[n]
    BY <1>6
  <2>2. QED
    BY <1>1, <1>5, <2>1, Recursion
<1>8. \A n \in 1..N : n - 1 \in 0..N /\ F[<<g[n - 1], n>>] = step(g[n - 1], n)
  BY <1>1, <1>6, <1>7
<1>9. g = [n \in 0..N |-> IF n = 0 THEN Planned!NoLanes ELSE step(g[n - 1], n)]
  <2>1. [n \in 0..N |-> IF n = 0 THEN Planned!NoLanes ELSE F[<<g[n - 1], n>>]]
          = [n \in 0..N |-> IF n = 0 THEN Planned!NoLanes ELSE step(g[n - 1], n)]
    BY <1>1, <1>8
  <2>2. QED
    BY <1>7, <2>1 DEF RunsTo
<1>10. lanes = [n \in 0..N |-> IF n = 0 THEN Planned!NoLanes ELSE step(lanes[n - 1], n)]
  BY <1>9
<1> HIDE DEF lanes
<1>11. \A n \in 0..N : lanes[n] \in B[n]
  <2>1. lanes[0] \in B[0]
    BY <1>1, <1>5, <1>10
  <2>2. ASSUME NEW n \in 1..N, lanes[n - 1] \in B[n - 1] PROVE lanes[n] \in B[n]
    <3>1. lanes[n] = step(lanes[n - 1], n)
      BY <1>1, <1>10
    <3>2. QED
      BY <1>6, <2>2, <3>1
  <2>3. QED
    BY <1>1, <2>1, <2>2, RecursionKeeps
<1>12. lanes[N] \in Beside(cards, line, N)
  BY <1>1, <1>11 DEF B
<1>13. QED
  BY <1>1, <1>3, <1>4, <1>12

\* Cards of a plan that overlap by more than a touch lie side by side.
LEMMA OverlapsAreBeside ==
  ASSUME NEW cards, IsFiniteSet(cards), \A c \in cards : IsCard(c), NEW lanes, lanes = Planned!OverlapLanes(cards),
         NEW i \in DOMAIN lanes, NEW j \in DOMAIN lanes, i # j,
         Planned!Max({lanes[i].card.start, lanes[j].card.start}) + Touching
           < Planned!Min({Planned!EndOf(lanes[i].card), Planned!EndOf(lanes[j].card)})
  PROVE  BesideEachOther(lanes[i], lanes[j])
<1>0. PICK N \in Nat : \E line : InLine(cards, line, N) /\ \E s \in Beside(cards, line, N) : lanes = s.placed
  BY OverlapLanesIs
<1>1. PICK line : InLine(cards, line, N) /\ \E s \in Beside(cards, line, N) : lanes = s.placed
  BY <1>0
<1>2. PICK s \in Beside(cards, line, N) : lanes = s.placed
  BY <1>1
<1>3. /\ s \in LaneStates(cards) /\ Len(lanes) = N
      /\ \A k \in 1..N : lanes[k].card = line[k]
      /\ \A k, l \in 1..N : k < l /\ Planned!LaneEnd(line[k]) > line[l].start => BesideEachOther(lanes[k], lanes[l])
  BY <1>2 DEF Beside
<1>4. DOMAIN lanes = 1..N
  <2>1. lanes \in Seq([card : cards, group : Nat, lane : Nat])
    BY <1>2, <1>3 DEF LaneStates
  <2>2. QED
    BY <1>3, <2>1
<1>5. \A k \in 1..N : IsCard(line[k])
  BY <1>1 DEF InLine
<1>6. ASSUME NEW k \in 1..N, NEW l \in 1..N, k < l,
             line[l].start + Touching < line[k].start + line[k].length
      PROVE  BesideEachOther(lanes[k], lanes[l])
  <2>1. /\ Planned!LaneEnd(line[k]) \in Int /\ Planned!LaneEnd(line[k]) >= (line[k].start + line[k].length) - Touching
        /\ line[l].start \in Int /\ line[k].start \in Int /\ line[k].length \in Int /\ Touching \in Int
    BY <1>5, LaneEndIs, PlansAssumption DEF IsCard
  <2>2. Planned!LaneEnd(line[k]) > line[l].start
    BY <1>6, <2>1
  <2>3. QED
    BY <1>3, <1>6, <2>2
<1> DEFINE a == line[i].start
           b == line[j].start
           c == Planned!EndOf(line[i])
           d == Planned!EndOf(line[j])
<1>7. a \in Int /\ b \in Int /\ c \in Int /\ d \in Int /\ Touching \in Int
  BY <1>4, <1>5, PlansAssumption DEF IsCard, Planned!EndOf
<1>8. Planned!Max({a, b}) + Touching < Planned!Min({c, d})
  BY <1>3, <1>4
<1> HIDE DEF a, b, c, d
<1>9. /\ Max({a, b}) \in Int /\ Max({a, b}) >= a /\ Max({a, b}) >= b
      /\ Min({c, d}) \in Int /\ Min({c, d}) <= c /\ Min({c, d}) <= d
  <2>1. Max({a, b}) \in Int /\ Max({a, b}) >= a /\ Max({a, b}) >= b
    BY <1>7, MaxOfTwo
  <2>2. Min({c, d}) \in Int /\ Min({c, d}) <= c /\ Min({c, d}) <= d
    BY <1>7, MinOfTwo
  <2>3. QED
    BY <2>1, <2>2
<1>10. Max({a, b}) + Touching < Min({c, d})
  BY <1>8, SameExtremes
<1>11. b + Touching < c /\ a + Touching < d
  BY <1>7, <1>9, <1>10
<1>12. i \in Int /\ j \in Int /\ (i < j \/ j < i)
  BY <1>4
<1>13. CASE i < j
  BY <1>4, <1>6, <1>11, <1>13 DEF b, c, Planned!EndOf
<1>14. CASE j < i
  <2>1. BesideEachOther(lanes[j], lanes[i])
    BY <1>4, <1>6, <1>11, <1>14 DEF a, d, Planned!EndOf
  <2>2. QED
    BY <2>1 DEF BesideEachOther
<1>15. QED
  BY <1>12, <1>13, <1>14

\* The plan that is shown is one the server answered.
PlannedInv == page = "planned" => m1 \in Plans

\* Whatever plan arrives and whatever week is shown, cards of a day that overlap
\* by more than a touch lie side by side (overlapLanes.ts).
THEOREM CardsLieSideBySide == Spec => []CardsSideBySide
<1>1. Init => PlannedInv
  BY DEF Init, PlannedInv, Planned!Init
<1>2. PlannedInv /\ [Next]_vars => PlannedInv'
  <2> SUFFICES ASSUME PlannedInv, [Next]_vars, page' = "planned" PROVE m1' \in Plans
    BY DEF PlannedInv
  <2>1. CASE UNCHANGED vars
    BY <2>1 DEF vars, PlannedInv
  <2>2. CASE Next
    <3>1. page = "planned" /\ Planned!Next
      BY <2>2 DEF Next, Rest
    <3>2. m1 \in Plans
      BY <3>1 DEF PlannedInv
    <3>3. CASE Planned!PlanArrives
      BY <3>3 DEF Planned!PlanArrives
    <3>4. CASE UNCHANGED m1
      BY <3>2, <3>4
    <3>5. Planned!PlanArrives \/ UNCHANGED m1
      BY <3>1 DEF Planned!Next, Planned!PrevWeek, Planned!NextWeek, Planned!Today, Planned!Show, Planned!Jump, Planned!Pan,
         Planned!Midnight, Planned!PressColumn, Planned!PressSurface, Planned!PressCard, Planned!PressZone, Planned!PressItem,
         Planned!ReleaseSurface, Planned!ClickCard, Planned!ClickZone, Planned!DropItem, Planned!Release,
         Planned!ReleaseOutside, Planned!CloseDraft, Planned!CloseTask, Planned!CloseZone, Planned!SaveZone,
         Planned!SaveAnswered, Planned!ZoneSaved, Planned!SaveFailed, Planned!ZoneRefused
    <3>6. QED
      BY <3>3, <3>4, <3>5
  <2>3. QED
    BY <2>1, <2>2
<1>3. PlannedInv => CardsSideBySide
  <2> SUFFICES ASSUME PlannedInv, page = "planned" PROVE Planned!CardsSideBySide
    BY DEF CardsSideBySide
  <2>1. m1 \in Plans
    BY DEF PlannedInv
  <2>2. ASSUME NEW day \in Planned!DaysShown,
               NEW i \in DOMAIN Planned!OverlapLanes(Planned!CardsOn(day, m1)),
               NEW j \in DOMAIN Planned!OverlapLanes(Planned!CardsOn(day, m1)), i # j
        PROVE  LET lanes == Planned!OverlapLanes(Planned!CardsOn(day, m1)) IN
               Planned!Max({lanes[i].card.start, lanes[j].card.start}) + Touching
                 < Planned!Min({Planned!EndOf(lanes[i].card), Planned!EndOf(lanes[j].card)})
               => BesideEachOther(lanes[i], lanes[j])
    <3> DEFINE cards == Planned!CardsOn(day, m1)
    <3>1. IsFiniteSet(cards) /\ \A c \in cards : IsCard(c)
      BY <2>1, CardsAre
    <3> HIDE DEF cards
    <3>2. QED
      BY <2>2, <3>1, OverlapsAreBeside DEF cards
  <2>3. QED
    BY <2>2 DEF Planned!CardsSideBySide, BesideEachOther
<1>4. QED
  BY <1>1, <1>2, <1>3, PTL DEF Spec

=============================================================================
