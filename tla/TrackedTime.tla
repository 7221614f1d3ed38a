----------------------------- MODULE TrackedTime -----------------------------
(* Correcting tracked time (TrackedTimeDialog.tsx, trackedTime.ts): a row    *)
(* shows a session in whole minutes - a day, a from and an until, the next   *)
(* day's when it is not after the from - and sends both moments back; another*)
(* device may correct the same session.  Below it, time is added.            *)
EXTENDS Integers, Sequences, SequencesExt

CONSTANTS Minute,    \* moments in a minute
          DayLength, \* moments in a day: a multiple of Minute
          Sessions,  \* what may be tracked: records of a start and an end
          Dates,
          MaxEdits

Blank == -1
NoEnd == -1  \* of the session that runs

Clock == 0 .. (DayLength \div Minute) - 1

VARIABLES stored,    \* the session, on the server
          session,   \* as the row has it
          date, from, until, typed, \* the row's fields, and those typed in since it is there
          saves,     \* requests under way, and whether the row that sent it is still there
          error,
          draft, adding, \* "Add time you did not track live"
          edits

row == <<session, date, from, until, typed, error>>
vars == <<stored, row, saves, draft, adding, edits>>

toDateInput(moment) == moment \div DayLength
toTimeInput(moment) == (moment % DayLength) \div Minute
initialUntil(s) == IF s.end = NoEnd THEN Blank ELSE toTimeInput(s.end)

untilNextDay(f, u) == f # Blank /\ u # Blank /\ u <= f

composeSpan(d, f, u) ==
  [start |-> d * DayLength + f * Minute,
   end |-> IF u = Blank THEN NoEnd
           ELSE d * DayLength + u * Minute + (IF untilNextDay(f, u) THEN DayLength ELSE 0)]

\* Faulty: what is sent is what the fields show, in whole minutes.
keepMinutes(moment, original) == moment

\* A minute that is shown as the session has it is sent with its seconds.
keepSeconds(moment, original) ==
  IF original # NoEnd /\ original - (original % Minute) = moment THEN original ELSE moment

dirty == \/ date # toDateInput(session.start) \/ from # toTimeInput(session.start)
         \/ until # initialUntil(session)

\* The fields of a row, when it appears: rows are keyed by what they show.
Shows(s) ==
  /\ session' = s
  /\ date' = toDateInput(s.start) /\ from' = toTimeInput(s.start) /\ until' = initialUntil(s)
  /\ typed' = {} /\ error' = FALSE

Init ==
  /\ stored \in Sessions /\ session = stored
  /\ date = toDateInput(session.start) /\ from = toTimeInput(session.start) /\ until = initialUntil(session)
  /\ typed = {} /\ saves = <<>> /\ error = FALSE
  /\ draft = <<Blank, Blank>> /\ adding = FALSE /\ edits = 0

Edited == edits < MaxEdits /\ edits' = edits + 1

(* --------------------------------- the row -------------------------------- *)
SetDate(d) ==
  /\ date' = d /\ typed' = typed \cup {"date"} /\ Edited
  /\ UNCHANGED <<stored, session, from, until, error, saves, draft, adding>>

SetFrom(f) ==
  /\ from' = f /\ typed' = typed \cup {"from"} /\ Edited
  /\ UNCHANGED <<stored, session, date, until, error, saves, draft, adding>>

SetUntil(u) ==
  /\ until' = u /\ typed' = typed \cup {"until"} /\ Edited
  /\ UNCHANGED <<stored, session, date, from, error, saves, draft, adding>>

Undo ==
  /\ dirty /\ Shows(session)
  /\ UNCHANGED <<stored, saves, draft, adding, edits>>

Pending == \E i \in DOMAIN saves : saves[i].mine

Save ==
  /\ dirty /\ ~Pending
  /\ IF date = Blank \/ from = Blank \/ (until = Blank /\ session.end # NoEnd)
     THEN error' = TRUE /\ UNCHANGED saves
     ELSE LET span == composeSpan(date, from, until)
          IN /\ error' = FALSE
             /\ saves' = Append(saves, [start |-> keepSeconds(span.start, session.start),
                                        end |-> IF span.end = NoEnd THEN NoEnd ELSE keepSeconds(span.end, session.end),
                                        mine |-> TRUE])
  /\ UNCHANGED <<stored, session, date, from, until, typed, draft, adding, edits>>

\* The server takes it when it ends after it began and only an open session
\* stays open (services/sessions.py, Tracking.tla), and refuses it too when it
\* meets other sessions or the future.
Saved(i, taken) ==
  LET s == [start |-> saves[i].start, end |-> saves[i].end]
  IN /\ taken => IF s.end = NoEnd THEN stored.end = NoEnd ELSE s.start < s.end
     /\ stored' = IF taken THEN s ELSE stored
     /\ error' = (error \/ (~taken /\ saves[i].mine))
     /\ saves' = RemoveAt(saves, i)
     /\ UNCHANGED <<session, date, from, until, typed, draft, adding, edits>>

CorrectedElsewhere(s) ==
  /\ s # stored /\ stored' = s /\ Edited
  /\ UNCHANGED <<row, saves, draft, adding>>

Disowned == [i \in DOMAIN saves |-> [saves[i] EXCEPT !.mine = FALSE]]

\* The sessions are read again: a session that changed appears as a new row.
Refetch ==
  /\ session # stored /\ Shows(stored)
  /\ saves' = Disowned
  /\ UNCHANGED <<stored, draft, adding, edits>>

(* ------------------------------- adding time ------------------------------ *)
TypeDraft(f, u) ==
  /\ draft' = <<f, u>> /\ draft' # draft /\ Edited
  /\ UNCHANGED <<stored, row, saves, adding>>

Add ==
  /\ ~adding /\ draft[1] # Blank /\ draft[2] # Blank
  /\ adding' = TRUE
  /\ UNCHANGED <<stored, row, saves, draft, edits>>

\* What was typed meanwhile goes as well.
Added(taken) ==
  /\ adding /\ adding' = FALSE
  /\ draft' = IF taken THEN <<Blank, Blank>> ELSE draft
  /\ UNCHANGED <<stored, row, saves, edits>>

Next ==
  \/ \E d \in Dates \cup {Blank} : SetDate(d)
  \/ \E f \in Clock \cup {Blank} : SetFrom(f) \/ SetUntil(f)
  \/ Undo \/ Save \/ Refetch
  \/ \E i \in DOMAIN saves, taken \in BOOLEAN : Saved(i, taken)
  \/ \E s \in Sessions : CorrectedElsewhere(s)
  \/ \E f, u \in {Blank, 0} : TypeDraft(f, u)
  \/ Add
  \/ \E taken \in BOOLEAN : Added(taken)

Spec == Init /\ [][Next]_vars

(* ------------------------------- properties ------------------------------- *)
\* The row reads a session back as it is, to the minute: not one that begins
\* and ends within a minute (it reads as a whole day), nor one of over a day.
ReadsBack(s) ==
  LET span == composeSpan(toDateInput(s.start), toTimeInput(s.start), initialUntil(s))
  IN s.end # NoEnd /\ span.end = s.end - (s.end % Minute)

Sends == Len(saves') > Len(saves)
Sent == saves'[Len(saves')]

\* What the user left alone, since the row shows the session as it is now, is
\* sent as it was, to the second: the end of a session whose start was
\* corrected within its days, and the start of one whose end was - also when
\* another device corrected the session in between.
KeepsWhatWasLeftAlone ==
  Sends /\ ReadsBack(session) =>
    /\ typed \subseteq {"until"} => Sent.start = session.start
    /\ typed \subseteq {"from"} /\ (untilNextDay(from, until) = untilNextDay(toTimeInput(session.start), until))
         => Sent.end = session.end
=============================================================================
