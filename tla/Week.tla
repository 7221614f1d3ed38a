-------------------------------- MODULE Week --------------------------------
(* The Week view (PlannedWeekView.tsx, WeekViewTask.tsx, useVerticalDrag.ts, *)
(* usePlacement.ts): the light plan as time passes and the user works, drags *)
(* cards and plans again.                                                    *)
EXTENDS LightPlan

CONSTANTS Frames,      \* the buckets and their time frames
          Lists,       \* task lists to start from
          Links,       \* sets of dependencies to start from
          Orders,      \* the sequences of all tasks the planner may follow
          Estimates,   \* what an estimate is changed to
          Horizon,     \* the last moment
          MaxOps       \* how often the user does something

ASSUME WeekBounds ==
  /\ IsFiniteSet(DOMAIN Frames) /\ Frames \in [DOMAIN Frames -> Interval]
  /\ \A b \in DOMAIN Frames : b # NoBucket /\ Frames[b].from < Frames[b].to
  /\ Lists \subseteq [Task -> TaskRecord]
  /\ \A list \in Lists : \A t \in Task : list[t].tracked <= 0 /\ (list[t].done => list[t].doneAt # NoTime)
  /\ Orders # {} /\ Orders \subseteq Seq(Task)
  /\ Horizon \in Nat /\ MaxOps \in Nat /\ Estimates \subseteq Nat

VARIABLES tasks, dependencies, plan, now,
          light,     \* useLightPlan's result, as it is shown
          drag,      \* the card pressed, as it was then
          placing,   \* the tasks to come back to when a placement is refused
          ops

vars == <<tasks, dependencies, plan, now, light, drag, placing, ops>>

NoCard == [task |-> Null, at |-> Span(0, 0), mode |-> "none"]

(* ------------------------------ a real plan ------------------------------ *)
\* The planner (allocate_tasks), reduced to what makes plans differ: task after
\* task in an order that follows the dependencies, each as early as it fits,
\* around appointments, pinned tasks and what is done already.
Fits(task, from) == ~task.done /\ ~task.appointment /\ ~task.unplanned /\ ~(task.fixed /\ task.start >= from)

\* The next piece of a task goes into the first bucket not tried yet.
PutIn(state, t, rest, from) ==
  LET b == Earliest(state.buckets, Frames)
      filled == Fill(state.left, Larger(from, state.after), Frames[b].to, state.occupied \cup {Span(0, Frames[b].from)}) IN
  [left |-> filled.left, after |-> state.after, buckets |-> state.buckets \ {b},
   occupied |-> state.occupied \cup filled.pieces,
   slices |-> state.slices \cup {[task |-> t, rest |-> rest, bucket |-> b, start |-> p.from,
                                  length |-> p.to - p.from, revived |-> FALSE] : p \in filled.pieces}]

\* When everything the task waits for has ended.
EndsOf(list, slices, ts, from) ==
  Latest({EndOf(s) : s \in {u \in slices : u.task \in ts}} \cup {BlockOf(list, t, from).to : t \in ts})

PutTask(state, list, links, from, t) ==
  LET rest == Kids(list, t) # {}
      put[n \in 0..Cardinality(DOMAIN Frames)] ==
        IF n = 0
        THEN [left |-> Needed(list[t], rest, from), buckets |-> DOMAIN Frames,
              after |-> Larger(list[t].occurrence, EndsOf(list, state.slices, Predecessors(list, links, t), from)),
              occupied |-> state.occupied, slices |-> state.slices]
        ELSE PutIn(put[n - 1], t, rest, from)
      all == put[Cardinality(DOMAIN Frames)]
  IN [occupied |-> all.occupied, slices |-> all.slices]

Meetings(list) ==
  {[task |-> t, rest |-> FALSE, bucket |-> NoBucket, start |-> list[t].start, length |-> list[t].duration,
    revived |-> FALSE] : t \in {s \in DOMAIN list : list[s].appointment /\ ~list[s].unplanned /\ list[s].start # NoTime}}

Packed(list, links, from, order) ==
  LET packed[n \in 0..Len(order)] ==
        IF n = 0 THEN [occupied |-> {b.at : b \in Blocks(list, from)}, slices |-> {}]
        ELSE IF Fits(list[order[n]], from) THEN PutTask(packed[n - 1], list, links, from, order[n])
        ELSE packed[n - 1]
  IN packed[Len(order)].slices \cup Meetings(list)

Follows(order, links) ==
  \A d \in links : \E i, j \in DOMAIN order : i < j /\ order[i] = d[1] /\ order[j] = d[2]

(* --------------------------------- states --------------------------------- *)
Order == CHOOSE order \in Orders : TRUE
Shown(list, slices, links, time) == Light(slices, Frames, list, links, time, Order)

Slice == [task : Task, rest : BOOLEAN, bucket : DOMAIN Frames \cup {NoBucket}, start : Nat, length : Nat,
          revived : BOOLEAN]
\* What is tracked has been started, what is done was done at some time.
TaskList(list) ==
  /\ list \in [Task -> TaskRecord]
  /\ \A t \in Task : list[t].tracked <= now /\ (list[t].done => list[t].doneAt # NoTime)

TypeOK ==
  /\ TaskList(tasks) /\ (placing # <<>> => TaskList(placing))
  /\ plan \subseteq Slice /\ IsFiniteSet(plan)
  /\ now \in 0..Horizon /\ ops \in 0..MaxOps
  /\ (drag # NoCard => drag.task \in Task) /\ drag.at \in Interval /\ drag.at.from <= drag.at.to

Init ==
  /\ tasks \in Lists /\ dependencies \in Links
  /\ \A d \in dependencies : d[1] \notin Ancestors(tasks, d[2]) /\ d[2] \notin Ancestors(tasks, d[1])
  /\ now = 0
  /\ \E order \in {o \in Orders : Follows(o, dependencies)} : plan = Packed(tasks, dependencies, 0, order)
  /\ light = Shown(tasks, plan, dependencies, 0)
  /\ drag = NoCard /\ placing = <<>> /\ ops = 0

\* The tasks change: the light plan is computed anew.
Becomes(list) ==
  /\ tasks' = list
  /\ light' = Shown(list, plan, dependencies, now)

\* While a placement is on its way only the clock goes on here (QueryCache
\* has what may happen meanwhile).
Acting == ops < MaxOps /\ ops' = ops + 1 /\ drag = NoCard /\ placing = <<>>

\* Every minute, also while a card is being dragged.
Tick ==
  /\ now < Horizon
  /\ now' = now + 1
  /\ light' = Shown(tasks, plan, dependencies, now + 1)
  /\ UNCHANGED <<tasks, dependencies, plan, drag, placing, ops>>

(* ------------------------------ working on tasks ------------------------------ *)
Stopped(list) == [t \in DOMAIN list |->
  IF list[t].tracked = NoTime THEN list[t]
  ELSE [list[t] EXCEPT !.spent = @ + (now - list[t].tracked), !.tracked = NoTime]]

OnTrackStart(t) ==
  /\ Acting
  /\ ~tasks[t].done /\ Kids(tasks, t) = {} /\ tasks[t].tracked = NoTime
  /\ Becomes([Stopped(tasks) EXCEPT ![t].tracked = now])
  /\ UNCHANGED <<dependencies, plan, now, drag, placing>>

OnTrackStop(t) ==
  /\ Acting
  /\ tasks[t].tracked # NoTime
  /\ Becomes(Stopped(tasks))
  /\ UNCHANGED <<dependencies, plan, now, drag, placing>>

OnComplete(t) ==
  /\ Acting
  /\ ~tasks[t].done /\ \A k \in Kids(tasks, t) : tasks[k].done
  /\ Becomes([(IF tasks[t].tracked # NoTime THEN Stopped(tasks) ELSE tasks)
                EXCEPT ![t].done = TRUE, ![t].doneAt = now])
  /\ UNCHANGED <<dependencies, plan, now, drag, placing>>

\* An unplanned appointment is joined: it blocks its time from now on.
OnJoin(t) ==
  /\ Acting
  /\ tasks[t].unplanned
  /\ Becomes([tasks EXCEPT ![t].unplanned = FALSE])
  /\ UNCHANGED <<dependencies, plan, now, drag, placing>>

\* In the task's dialog.
ChangeEstimate(t, duration) ==
  /\ Acting
  /\ ~tasks[t].done /\ Kids(tasks, t) = {}
  /\ Becomes([tasks EXCEPT ![t].duration = duration])
  /\ UNCHANGED <<dependencies, plan, now, drag, placing>>

\* "Re-plan": the server packs what there is now.
RunReplan ==
  /\ Acting
  /\ \E order \in {o \in Orders : Follows(o, dependencies)} : plan' = Packed(tasks, dependencies, now, order)
  /\ light' = Shown(tasks, plan', dependencies, now)
  /\ UNCHANGED <<tasks, dependencies, now, drag, placing>>

(* ------------------------------- dragging cards ------------------------------- *)
Card(t, rest, at) == [task |-> t, rest |-> rest, at |-> at]
Cards ==
  {Card(s.task, FALSE, s.at) : s \in light.anchored \cup light.reminders \cup light.history}
  \cup {Card(s.task, s.rest, s.at) : s \in light.placed}

\* splitTaskAcrossDays: a card over midnight is one card per day.
Segments(card) ==
  {[card EXCEPT !.at = Span(Larger(@.from, d * Day), Smaller(@.to, (d + 1) * Day))] :
     d \in DayOf(card.at.from)..DayOf(card.at.to - 1)}
CanMove(card) == tasks[card.task].appointment
CanResize(card) == ~tasks[card.task].appointment /\ ~card.rest

\* A press remembers where the card is and how long.
StartDrag ==
  /\ ops < MaxOps /\ ops' = ops + 1 /\ drag = NoCard /\ placing = <<>>
  /\ \E card \in UNION {Segments(c) : c \in Cards} :
       \/ CanMove(card) /\ drag' = [task |-> card.task, at |-> card.at, mode |-> "move"]
       \/ CanResize(card) /\ drag' = [task |-> card.task, at |-> card.at, mode |-> "resize-bottom"]
  /\ UNCHANGED <<tasks, dependencies, plan, now, light, placing>>

\* applyDrag: moved within a day, as long as it was; or with another end.
Results ==
  LET length == drag.at.to - drag.at.from
      day == DayOf(drag.at.from) IN
  IF drag.mode = "move"
  THEN {Span(start, start + length) : start \in {s \in 0..Horizon : (s % Day) + length <= Day}}
  ELSE {Span(drag.at.from, to) : to \in Smaller(drag.at.from + MinSlice, (day + 1) * Day)..((day + 1) * Day)} \ {drag.at}

\* Released: the task is pinned there at once (usePlacement).
Drop ==
  /\ drag # NoCard
  /\ \E at \in Results :
       Becomes([tasks EXCEPT ![drag.task].start = at.from, ![drag.task].fixed = TRUE,
                             ![drag.task].duration = at.to - at.from])
  /\ drag' = NoCard /\ placing' = tasks
  /\ UNCHANGED <<dependencies, plan, now, ops>>

\* A press without a move is a click, a resize to the same size nothing.
Click ==
  /\ drag # NoCard
  /\ drag' = NoCard
  /\ UNCHANGED <<tasks, dependencies, plan, now, light, placing, ops>>

PlacementSaved ==
  /\ placing # <<>>
  /\ placing' = <<>>
  /\ UNCHANGED <<tasks, dependencies, plan, now, light, drag, ops>>

\* Refused (e.g. before its predecessor): everything as before.
PlacementRefused ==
  /\ placing # <<>>
  /\ Becomes(placing)
  /\ placing' = <<>>
  /\ UNCHANGED <<dependencies, plan, now, drag, ops>>

Next ==
  \/ Tick \/ RunReplan \/ StartDrag \/ Drop \/ Click \/ PlacementSaved \/ PlacementRefused
  \/ \E t \in DOMAIN tasks :
       \/ OnTrackStart(t) \/ OnTrackStop(t) \/ OnComplete(t) \/ OnJoin(t)
       \/ \E d \in Estimates : ChangeEstimate(t, d)

Spec == Init /\ [][Next]_vars

(* ------------------------------- properties ------------------------------- *)
\* Nothing that planning light places takes the time of something else:
\* another slice, an appointment, what is being tracked or was pinned.
NoDoubleBooking ==
  \A p \in light.placed :
    /\ now <= p.at.from
    /\ \A q \in light.placed \ {p} : ~Overlap(p.at, q.at)
    /\ \A b \in light.anchored : ~Overlap(p.at, b.at)

\* No work is lost or shown twice as time passes: what a task still needs is
\* on its slices, or told ("No longer fits its day", "Its planned days are
\* over").
WorkIsAccounted ==
  /\ \A u \in DOMAIN light.overflow :
       LET task == tasks[u[1]]
           spent == task.spent + (IF task.tracked = NoTime THEN 0 ELSE now - task.tracked)
           needed == IF task.done THEN 0 ELSE IF u[2] THEN task.rest ELSE Larger(0, task.duration - spent)
           shown == Cardinality(Moments({p.at : p \in {q \in light.placed : q.task = u[1] /\ q.rest = u[2]}})) IN
       IF task.occurrence # NoTime THEN shown + light.overflow[u] <= needed
       ELSE shown + light.overflow[u] + light.dropped[u] = needed

\* "never before a predecessor ends" (utils/lightPlan.ts): nor does anything
\* below the successor start before everything below the predecessor ended.
NeverBeforePredecessor ==
  \A d \in dependencies : \A p, q \in light.placed :
    d[1] \in {p.task} \cup Ancestors(tasks, p.task) /\ d[2] \in {q.task} \cup Ancestors(tasks, q.task)
    /\ ~tasks[d[1]].done => p.at.to <= q.at.from

\* "move shifts the start, keeping the duration" (utils/weekDrag.ts)
MoveKeepsDuration ==
  [][\A t \in DOMAIN tasks :
       drag.mode = "move" /\ drag.task = t /\ placing' # placing => tasks'[t].duration = tasks[t].duration]_vars
=============================================================================
