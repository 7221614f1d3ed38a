------------------------------- MODULE MCWeek -------------------------------
(* Small instances of Week: two days of eight units, two buckets that        *)
(* overlap today and one tomorrow.                                           *)
EXTENDS Week, FiniteSets

CONSTANTS t1, t2, t3, b1, b2, b3

MCFrames == b1 :> Span(1, 5) @@ b2 :> Span(3, 7) @@ b3 :> Span(9, 13)

Work(duration) ==
  [up |-> Null, done |-> FALSE, doneAt |-> NoTime, appointment |-> FALSE, fixed |-> FALSE, unplanned |-> FALSE,
   start |-> NoTime, duration |-> duration, spent |-> 0, tracked |-> NoTime, rest |-> 0, occurrence |-> NoTime]
Meeting(start, duration) == [Work(duration) EXCEPT !.appointment = TRUE, !.fixed = TRUE, !.start = start]

\* Work beside an appointment over midnight; a maybe; a task with a Rest and
\* a recurring one.
MCLists ==
  {t1 :> Work(3) @@ t2 :> Work(2) @@ t3 :> Meeting(6, 3),
   t1 :> Work(2) @@ t2 :> [Work(5) EXCEPT !.spent = 1] @@ t3 :> [Meeting(2, 2) EXCEPT !.unplanned = TRUE],
   t1 :> [Work(3) EXCEPT !.rest = 2] @@ t2 :> [Work(1) EXCEPT !.up = t1] @@ t3 :> [Work(2) EXCEPT !.occurrence = 3]}

MCLinks == {{}, {<<t1, t2>>}, {<<t3, t1>>}}
MCOrders == {<<t1, t2, t3>>, <<t3, t2, t1>>}
=============================================================================
