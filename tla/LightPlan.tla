------------------------------ MODULE LightPlan ------------------------------
(* Planning light (utils/lightPlan.ts): the accepted plan fitted to the      *)
(* tasks and the clock in the browser, without asking the server to plan.    *)
(*                                                                           *)
(* Time is counted in units; interval [from, to) is a record.  A task is a   *)
(* record: up, done and doneAt, appointment, fixed, unplanned, start (NoTime:*)
(* none), duration (the user's default included), spent, tracked (since when,*)
(* or NoTime), rest, and occurrence (of a recurring task, else NoTime).  The *)
(* plan is a set of slices: task, rest, bucket (NoBucket: appointment),      *)
(* start, length (and revived, FALSE until the light plan moves it).         *)
EXTENDS Sorting

CONSTANTS Task, Null, NoBucket,
          Day,        \* units in a day
          MinSlice    \* no work starts in a shorter gap unless it ends there

ASSUME LightPlanConstants ==
  /\ IsFiniteSet(Task) /\ Null \notin Task
  /\ Day \in Nat \ {0} /\ MinSlice \in Nat

NoTime == -1
Span(from, to) == [from |-> from, to |-> to]
Interval == [from : Nat, to : Nat]
TaskRecord ==
  [up : Task \cup {Null}, done : BOOLEAN, doneAt : Nat \cup {NoTime}, appointment : BOOLEAN, fixed : BOOLEAN,
   unplanned : BOOLEAN, start : Nat \cup {NoTime}, duration : Nat, spent : Nat, tracked : Nat \cup {NoTime},
   rest : Nat, occurrence : Nat \cup {NoTime}]
Overlap(a, b) == a.from < b.to /\ b.from < a.to
Moments(times) == UNION {t.from..(t.to - 1) : t \in times}
DayOf(time) == time \div Day
EndOf(slice) == slice.start + slice.length
Larger(a, b) == IF a >= b THEN a ELSE b
Smaller(a, b) == IF a <= b THEN a ELSE b
(* -------------------------------- the tasks -------------------------------- *)
Kids(tasks, t) == {k \in DOMAIN tasks : tasks[k].up = t}
Ancestors(tasks, t) ==
  LET up[n \in 0..Cardinality(Task)] ==
        IF n = 0 THEN {t} ELSE up[n - 1] \cup ({tasks[s].up : s \in up[n - 1]} \ {Null})
  IN up[Cardinality(Task)] \ {t}

\* Faulty: the session under way does not count.
NeededWithoutRunning(task, rest, now) ==
  IF task.done THEN 0 ELSE IF rest THEN task.rest ELSE Larger(0, task.duration - task.spent)

\* The work a planning unit (a task, or a parent's Rest) still needs.
Needed(task, rest, now) ==
  LET running == IF task.tracked = NoTime THEN 0 ELSE Larger(0, now - task.tracked) IN
  IF task.done THEN 0 ELSE IF rest THEN task.rest
  ELSE Larger(0, task.duration - task.spent - running)

\* Faulty: a subtask does not wait for its parent's predecessors.
OwnPredecessors(tasks, dependencies, t) ==
  {d[1] : d \in {e \in dependencies : e[2] = t /\ e[1] \in DOMAIN tasks /\ ~tasks[e[1]].done}}

\* What a task waits for: its own predecessors and those of its ancestors,
\* each with everything below it.
Predecessors(tasks, dependencies, t) ==
  LET waiting == {t} \cup Ancestors(tasks, t)
      open == {d[1] : d \in {e \in dependencies : e[2] \in waiting /\ e[1] \in DOMAIN tasks}}
      first == {p \in open : ~tasks[p].done} IN
  first \cup {k \in DOMAIN tasks : Ancestors(tasks, k) \cap first # {}}

(* --------------------------------- orders --------------------------------- *)
\* The latest of some times, 0 if there is none.
Latest(times) == CHOOSE m \in times \cup {0} : \A x \in times \cup {0} : x <= m

\* Of the buckets bs the one that starts first.
Earliest(bs, frames) == CHOOSE b \in bs : \A c \in bs : frames[b].from <= frames[c].from

ByStart(S) == Sorted(S, {p \in S \X S : p[1].start < p[2].start})

(* ------------------------------- free time ------------------------------- *)
Free(u, occupied) == \A o \in occupied : ~(o.from <= u /\ u < o.to)

\* The gap that begins at u ends where something begins.
Gap(u, until, occupied) ==
  Span(u, CHOOSE b \in (u + 1)..until :
            (b = until \/ ~Free(b, occupied)) /\ \A v \in u..(b - 1) : Free(v, occupied))

GapBegins(u, from, occupied) == Free(u, occupied) /\ (u = from \/ ~Free(u - 1, occupied))

\* What a gap takes of the work that is left.
Take(filled, gap) ==
  LET size == gap.to - gap.from
      take == Smaller(size, filled.left) IN
  IF filled.left > 0 /\ (size >= MinSlice \/ size >= filled.left)
  THEN [pieces |-> filled.pieces \cup {Span(gap.from, gap.from + take)}, left |-> filled.left - take]
  ELSE filled

\* fill: pieces for length units of work, gap by gap, and what is left over.
Fill(length, from, until, occupied) ==
  LET filled[n \in 0..Larger(0, until - from)] ==
        IF n = 0 THEN [pieces |-> {}, left |-> length]
        ELSE IF GapBegins(from + n - 1, from, occupied)
        THEN Take(filled[n - 1], Gap(from + n - 1, until, occupied))
        ELSE filled[n - 1]
  IN filled[Larger(0, until - from)]

(* --------------------- anchored: shown from the tasks --------------------- *)
Planned(plan, t) == \E s \in plan : s.task = t /\ s.bucket # NoBucket
Leaf(tasks, t) == ~tasks[t].done /\ Kids(tasks, t) = {}

IsReminder(tasks, t) == Leaf(tasks, t) /\ tasks[t].unplanned /\ tasks[t].tracked = NoTime
IsWorkedOn(tasks, t) ==
  Leaf(tasks, t) /\ ~IsReminder(tasks, t) /\ tasks[t].tracked # NoTime /\ ~tasks[t].appointment
\* With a time of its own, and neither of those.
IsTimed(tasks, t) ==
  Leaf(tasks, t) /\ ~IsReminder(tasks, t) /\ ~IsWorkedOn(tasks, t) /\ tasks[t].start # NoTime
IsPinned(tasks, t) == IsTimed(tasks, t) /\ ~tasks[t].appointment /\ tasks[t].fixed

\* Pinned or tracked, its time has come, and no slice carries what is left.
Sliding(tasks, plan, now) ==
  {t \in DOMAIN tasks : ~Planned(plan, t) /\
     (IsWorkedOn(tasks, t) \/ (IsPinned(tasks, t) /\ tasks[t].start < now))}

FromTask(tasks, plan, now) ==
  Sliding(tasks, plan, now)
  \cup {t \in DOMAIN tasks : IsReminder(tasks, t) \/ (IsTimed(tasks, t) /\ tasks[t].appointment)
                             \/ (IsPinned(tasks, t) /\ tasks[t].start >= now)}

BlockOf(tasks, t, now) ==
  LET task == tasks[t] IN
  IF IsWorkedOn(tasks, t) THEN Span(task.tracked, now)
  ELSE IF IsTimed(tasks, t) /\ task.appointment THEN Span(task.start, task.start + task.duration)
  ELSE IF IsPinned(tasks, t) /\ task.start >= now THEN Span(task.start, task.start + Needed(task, FALSE, now))
  ELSE Span(0, 0)

Blocks(tasks, now) ==
  {b \in {[task |-> t, at |-> BlockOf(tasks, t, now)] : t \in DOMAIN tasks} : b.at.from < b.at.to}
Reminders(tasks) ==
  {[task |-> t, at |-> Span(tasks[t].start, tasks[t].start + tasks[t].duration)] :
     t \in {s \in DOMAIN tasks : IsReminder(tasks, s) /\ tasks[s].start # NoTime}}

\* What slides goes on from now, today; in the order of the task list.
Slide(state, tasks, t, now) ==
  LET filled == Fill(Needed(tasks[t], FALSE, now), now, (DayOf(now) + 1) * Day, state.occupied) IN
  [occupied |-> state.occupied \cup filled.pieces,
   anchored |-> state.anchored \cup {[task |-> t, at |-> p] : p \in filled.pieces},
   overflow |-> [state.overflow EXCEPT ![t] = filled.left]]

Slid(tasks, plan, now, order) ==
  LET blocks == Blocks(tasks, now)
      slid[n \in 0..Len(order)] ==
        IF n = 0 THEN [occupied |-> {b.at : b \in blocks}, anchored |-> blocks, overflow |-> [t \in DOMAIN tasks |-> 0]]
        ELSE IF order[n] \in Sliding(tasks, plan, now) THEN Slide(slid[n - 1], tasks, order[n], now)
        ELSE slid[n - 1]
  IN slid[Len(order)]

(* ------------------------ planned work: what to place ------------------------ *)
UnitsOf(tasks, plan, now) ==
  {<<s.task, s.rest>> : s \in {p \in plan : p.bucket # NoBucket /\ p.task \in DOMAIN tasks \ FromTask(tasks, plan, now)}}

\* The bucket that is open now or next today, NoBucket if there is none.
FirstOpenToday(frames, now) ==
  LET open == {b \in DOMAIN frames : frames[b].to > now /\ frames[b].from < (DayOf(now) + 1) * Day} IN
  IF open = {} THEN NoBucket ELSE Earliest(open, frames)

SlicesOf(plan, u) == {s \in plan : s.bucket # NoBucket /\ <<s.task, s.rest>> = u}
Ahead(slices, now) == {s \in slices : EndOf(s) > now}
Missed(slices, now) == {s \in slices : EndOf(s) <= now /\ DayOf(s.start) = DayOf(now)}

\* A slice carries what it can of the work that is left.
Carry(state, s) ==
  LET take == Smaller(s.length, state.left) IN
  [left |-> state.left - take, units |-> Append(state.units, [s EXCEPT !.length = take])]
CarryIfAny(state, s) == IF state.left > 0 THEN Carry(state, s) ELSE state

\* The slices that are ahead all stay, those that were missed come back only
\* for work that is left.
CarryAhead(left, slices) ==
  LET carried[n \in 0..Len(slices)] ==
        IF n = 0 THEN [left |-> left, units |-> <<>>] ELSE Carry(carried[n - 1], slices[n])
  IN carried[Len(slices)]
CarryBack(left, slices) ==
  LET carried[n \in 0..Len(slices)] ==
        IF n = 0 THEN [left |-> left, units |-> <<>>] ELSE CarryIfAny(carried[n - 1], slices[n])
  IN carried[Len(slices)]

\* The slices missed today come back in the first bucket that is still open.
Revived(units, bucket) ==
  IF bucket = NoBucket THEN <<>>
  ELSE [i \in DOMAIN units |-> [units[i] EXCEPT !.bucket = bucket, !.revived = TRUE]]

\* More work makes the last slice grow.
Grown(units, left) ==
  IF units = <<>> THEN <<>> ELSE [units EXCEPT ![Len(units)].length = @ + left]

\* What goes back to be placed: the slices that are revived and those planned.
Fitted(task, ahead, back, bucket) ==
  LET revived == Revived(back.units, bucket)
      left == IF task.occurrence # NoTime /\ ~task.appointment THEN 0 ELSE back.left
      place == IF ahead.units = <<>> THEN ToSet(Grown(revived, left))
               ELSE ToSet(revived) \cup ToSet(Grown(ahead.units, left))
  IN [place |-> {u \in place : u.length > 0},
      back |-> {s.start : s \in ToSet(back.units)},
      overflow |-> IF bucket = NoBucket THEN ahead.left - back.left ELSE 0,
      dropped |-> IF place = {} THEN left ELSE 0]

\* The slices of one unit with the work they carry now: those ahead as long
\* as there is work for them, then those missed today.
Carried(task, rest, slices, now, frames) ==
  LET ahead == CarryAhead(Needed(task, rest, now), ByStart(Ahead(slices, now)))
      back == CarryBack(ahead.left, ByStart(Missed(slices, now))) IN
  Fitted(task, ahead, back, FirstOpenToday(frames, now))

(* ------------------------------- the light plan ------------------------------- *)
LaterEnd(ends, t, end) == [ends EXCEPT ![t] = Larger(@, end)]

\* Where a bucket's next slice may start.
BucketFrom(frames, cursor, b, now) == Larger(Larger(frames[b].from, now), cursor[b])

\* Faulty: what is placed does not occupy its time.
OccupyNothing(occupied, pieces) == occupied

Occupy(occupied, pieces) == occupied \cup pieces

\* By the start of the bucket, what was missed first, then as planned.
InOrder(slices, frames) ==
  LET Before(a, b) == LET x == frames[a.bucket].from
                          y == frames[b.bucket].from IN
                      x < y \/ (x = y /\ ((a.revived /\ ~b.revived) \/ (a.revived = b.revived /\ a.start < b.start)))
  IN Sorted(slices, {p \in slices \X slices : Before(p[1], p[2])})

LastEnd(blocks) == Latest({b.to : b \in blocks})

\* What was placed of a slice occupies its time; the rest no longer fits.
Took(state, unit, filled) ==
  LET lastEnd == LastEnd(filled.pieces) IN
  [occupied |-> Occupy(state.occupied, filled.pieces),
   cursor |-> IF filled.pieces = {} THEN state.cursor ELSE [state.cursor EXCEPT ![unit.bucket] = lastEnd],
   ends |-> LaterEnd(state.ends, unit.task, lastEnd),
   placed |-> state.placed \cup {[task |-> unit.task, rest |-> unit.rest, bucket |-> unit.bucket, at |-> p,
                                  planned |-> unit.start, revived |-> unit.revived] : p \in filled.pieces},
   overflow |-> [state.overflow EXCEPT ![<<unit.task, unit.rest>>] = @ + filled.left]]

\* One slice after the other, each from the start of its bucket, after what is
\* placed in it and after everything it waits for.
Place(state, unit, frames, tasks, dependencies, now) ==
  LET t == unit.task
      notBefore == IF tasks[t].appointment THEN NoTime ELSE tasks[t].occurrence
      ended == {state.ends[p] : p \in Predecessors(tasks, dependencies, t)}
      from == Latest(ended \cup {BucketFrom(frames, state.cursor, unit.bucket, now), notBefore}) IN
  Took(state, unit, Fill(unit.length, from, frames[unit.bucket].to, state.occupied))

Placed(slices, frames, tasks, dependencies, now, first) ==
  LET placed[n \in 0..Len(slices)] ==
        IF n = 0 THEN first ELSE Place(placed[n - 1], slices[n], frames, tasks, dependencies, now)
  IN placed[Len(slices)]

\* The past as it was planned, until something else happened then.
History(plan, tasks, now, anchored, carried) ==
  LET past == {s \in plan : s.task \in DOMAIN tasks
                 /\ ~(s.task \in FromTask(tasks, plan, now) /\ ~tasks[s.task].done)
                 /\ IF s.bucket = NoBucket THEN tasks[s.task].done \/ tasks[s.task].start = NoTime
                    ELSE EndOf(s) <= now \/ (tasks[s.task].done /\ s.start < Smaller(now, tasks[s.task].doneAt))}
      Passed(s) == Span(s.start, IF EndOf(s) <= now \/ s.bucket = NoBucket THEN EndOf(s)
                                 ELSE Smaller(now, tasks[s.task].doneAt))
      Back(s) == <<s.task, s.rest>> \in DOMAIN carried /\ s.start \in carried[<<s.task, s.rest>>].back
  IN {[task |-> s.task, at |-> Passed(s)] :
        s \in {r \in past : r.bucket = NoBucket
                 \/ (~Back(r) /\ \A b \in anchored : ~Overlap(b.at, Passed(r)))}}

\* Around what slid, with each unit's slices as they carry their work now.
Around(plan, frames, tasks, dependencies, now, slid, carried) ==
  LET first == [occupied |-> slid.occupied,
                cursor |-> [b \in DOMAIN frames |-> 0],
                ends |-> [t \in DOMAIN tasks |->
                            LastEnd({s.at : s \in {r \in slid.anchored \cup Reminders(tasks) : r.task = t}})],
                placed |-> {},
                overflow |-> [u \in DOMAIN carried |-> carried[u].overflow]]
      toPlace == InOrder(UNION {carried[u].place : u \in DOMAIN carried}, frames)
      Shown(done) ==
        [anchored |-> slid.anchored,
         reminders |-> Reminders(tasks),
         placed |-> done.placed,
         history |-> History(plan, tasks, now, slid.anchored, carried),
         overflow |-> done.overflow,
         slidOver |-> slid.overflow,
         dropped |-> [u \in DOMAIN carried |-> carried[u].dropped]]
  IN Shown(Placed(toPlace, frames, tasks, dependencies, now, first))

Light(plan, frames, tasks, dependencies, now, order) ==
  Around(plan, frames, tasks, dependencies, now, Slid(tasks, plan, now, order),
         [u \in UnitsOf(tasks, plan, now) |-> Carried(tasks[u[1]], u[2], SlicesOf(plan, u), now, frames)])

=============================================================================
