------------------------------ MODULE Tracking ------------------------------
(***************************************************************************)
(* Tracked time: starting and stopping the clock, completing and reopening *)
(* tasks, and correcting sessions in the time sheet (services/tracking.py, *)
(* sessions.py, completion.py, estimates.py).  The tree of tasks and the   *)
(* dependencies are fixed, TaskTree is about how they change.  A request   *)
(* is one step here; TrackingRequests takes requests apart.                *)
(*                                                                         *)
(* Left out: the active project (ActiveProject), estimates, and the PATCH  *)
(* that writes time_spent directly.                                        *)
(***************************************************************************)
EXTENDS TreeShape, Integers, FiniteSets, FiniteSetsExt

CONSTANTS
  Parent,        \* the tree: the parent of every task
  Deps,          \* the dependencies <<predecessor, successor>>
  Session,       \* the sessions that can exist
  Open,          \* the end of the session that runs
  Minute,        \* MINUTE and CLOCK_SLACK, in ticks of the clock
  Ahead,         \* how far clients type times ahead of the server's clock
  PatchedDone,   \* do clients also complete by a PATCH of completed_at, and
  PatchedAhead,  \* how far ahead of the server's clock is that one?
  MaxTime,       \* bound: the clock stops here
  MaxSpent       \* bound: no correction raises a time_spent above it

SessionRecord == [task : Task, start : Int, end : Int \cup {Open}]

ASSUME TreeAssumption == Parent \in [Task -> Task \cup {Null}] /\ Deps \subseteq Task \X Task
ASSUME ClockAssumption == Minute \in Nat \ {0} /\ {Ahead, PatchedAhead, MaxTime, MaxSpent} \subseteq Nat
ASSUME OpenAssumption == Open \notin Int /\ Null \notin SessionRecord
ASSUME SessionAssumption == Null \notin Session
ASSUME PatchedDoneAssumption == PatchedDone \in BOOLEAN

VARIABLES
  now,       \* the server's clock
  sessions,  \* the tracking sessions: task, start and end; Null for none
  spent,     \* time_spent of every task
  done,      \* the tasks with a completed_at
  figures    \* the completion figures of every task; Null for an open one

vars == <<now, sessions, spent, done, figures>>

TypeOK ==
  /\ now \in 0..MaxTime
  /\ sessions \in [Session -> SessionRecord \cup {Null}]
  /\ spent \in [Task -> Int]
  /\ done \subseteq Task
  /\ figures \in [Task -> [own : Int, subtree : Int] \cup {Null}]
  /\ \A t \in Task : figures[t] # Null <=> t \in done

Init ==
  /\ now = 0
  /\ sessions = [i \in Session |-> Null]
  /\ spent = [t \in Task |-> 0]
  /\ done = {}
  /\ figures = [t \in Task |-> Null]

-----------------------------------------------------------------------------
(* Sessions and what is booked for them.                                   *)

Existing == {i \in Session : sessions[i] # Null}

\* The running sessions of the tasks T.
Running(T) == {i \in Existing : sessions[i].end = Open /\ sessions[i].task \in T}

\* filter(end=None).first(): the one with the earliest start, if any.
FirstRunning(T) ==
  IF Running(T) = {} THEN {}
  ELSE {CHOOSE i \in Running(T) : \A j \in Running(T) : sessions[i].start <= sessions[j].start}

\* The moment up to which a session counts.
Until(i) == IF sessions[i].end = Open THEN now ELSE sessions[i].end

\* booked: what a session adds to its task's time.
Booked(s) == IF s = Null \/ s.end = Open THEN 0 ELSE s.end - s.start

\* _close and _close_open_session: the running sessions I, of different tasks,
\* end at the moment at ...
Ended(I, at) ==
  [i \in Session |-> IF i \in I THEN [sessions[i] EXCEPT !.end = at] ELSE sessions[i]]

\* ... and are booked onto their tasks.
SpentWith(I, at) ==
  [t \in Task |->
     IF \E i \in I : sessions[i].task = t
       THEN spent[t] + (at - sessions[CHOOSE i \in I : sessions[i].task = t].start)
       ELSE spent[t]]

\* The first running session of each of the tasks T.
RunningOf(T) == UNION {FirstRunning({t}) : t \in T}

SubtreeSpent(sp, t) == SumFunctionOnSet(sp, Below(Parent, t))

\* write_completion_snapshot, with the tracked time sp.
Snapshot(sp, t) == [own |-> sp[t], subtree |-> SubtreeSpent(sp, t)]

-----------------------------------------------------------------------------
(* Starting and stopping.                                                  *)

Tick ==
  /\ now < MaxTime
  /\ now' = now + 1
  /\ UNCHANGED <<sessions, spent, done, figures>>

\* _unfinished_predecessors: of the task or of a task above it.
Blocked(t) ==
  \E d \in Deps : d[2] \in {t} \cup Ancestors(Parent, t) /\ d[1] \notin done

\* The session that runs for another task is closed first.
StartTracking(t) ==
  /\ t \notin done
  /\ ~ Blocked(t)
  /\ LET stopped == FirstRunning(Task)
     IN  /\ \A i \in stopped : sessions[i].task # t
         /\ \E i \in Session \ Existing :
              sessions' = [Ended(stopped, now) EXCEPT
                             ![i] = [task |-> t, start |-> now, end |-> Open]]
         /\ spent' = SpentWith(stopped, now)
  /\ UNCHANGED <<now, done, figures>>

StopTracking(t) ==
  /\ Running({t}) # {}
  /\ sessions' = Ended(FirstRunning({t}), now)
  /\ spent' = SpentWith(FirstRunning({t}), now)
  /\ UNCHANGED <<now, done, figures>>

-----------------------------------------------------------------------------
(* Completing and reopening.                                               *)

\* The tasks C complete, the sessions I end at the moment at.
Finish(C, I, at) ==
  /\ sessions' = Ended(I, at)
  /\ spent' = SpentWith(I, at)
  /\ done' = done \cup C
  /\ figures' = [x \in Task |-> IF x \in C THEN Snapshot(spent', x) ELSE figures[x]]
  /\ UNCHANGED now

\* Faulty: the sessions of the completed ancestors run on.
CompletesAlone(t) ==
  /\ t \notin done
  /\ Below(Parent, t) \subseteq done
  /\ Finish({t} \cup FinishedAncestors(Parent, done, t), RunningOf({t}), now)

CompleteTask(t) ==
  /\ t \notin done
  /\ Below(Parent, t) \subseteq done
  /\ LET C == {t} \cup FinishedAncestors(Parent, done, t)
     IN  Finish(C, RunningOf(C), now)

\* What a client's clock may say as it completes a task.
Patched == 0..(now + PatchedAhead)

\* PATCH with a completed_at of the client's choice: the ancestors' sessions
\* end then, the task's own runs on.
PatchDone(t, at) ==
  /\ PatchedDone
  /\ t \notin done
  /\ Below(Parent, t) \subseteq done
  /\ LET above == FinishedAncestors(Parent, done, t)
     IN  Finish({t} \cup above, RunningOf(above), at)

ReopenTask(t) ==
  /\ t \in done
  /\ done' = done \ Reopened(Parent, done, t)
  /\ figures' = [x \in Task |-> IF x \in done' THEN figures[x] ELSE Null]
  /\ UNCHANGED <<now, sessions, spent>>

-----------------------------------------------------------------------------
(* The time sheet: sessions are added, changed and removed by hand.        *)

Typed == 0..(now + Ahead)

WholeMinute(m) == m % Minute = 0

\* snap: a start typed in whole minutes joins the session that ended within
\* that minute (i: the session being changed, Null for a new one) ...
SnappedStart(i, start) ==
  LET before == {j \in Existing \ {i} : sessions[j].end \in start..(start + Minute - 1)}
  IN  IF WholeMinute(start) /\ before # {}
        THEN Max({sessions[j].end : j \in before})
        ELSE start

\* ... and an end the one that began within it.
SnappedEnd(i, end) ==
  LET after == {j \in Existing \ {i} : sessions[j].start \in end..(end + Minute - 1)}
  IN  IF end # Open /\ WholeMinute(end) /\ after # {}
        THEN Min({sessions[j].start : j \in after})
        ELSE end

\* Faulty: only the start is kept out of the future.
StartsInPast(start, end) == start <= now + Minute

\* check: no time is in the future, but for the slack, ...
InPast(start, end) ==
  start <= now + Minute /\ (end # Open => end <= now + Minute)

\* Faulty: any session may be left open.
EndsOrNot(i, start, end) == end # Open => start < end

\* ... only the running session may stay open, ...
EndsAfterStart(i, start, end) ==
  IF end = Open THEN i \in Existing /\ sessions[i].end = Open
                ELSE start < end

\* Faulty: only looks for the start in another session.
StartsInNone(i, start, end) ==
  \A j \in Existing \ {i} : sessions[j].start > start \/ Until(j) <= start

\* ... and it overlaps no other one.
OverlapsNone(i, start, end) ==
  \A j \in Existing \ {i} :
    \/ sessions[j].start >= IF end = Open THEN now ELSE end
    \/ Until(j) <= start

Allowed(i, start, end) ==
  InPast(start, end) /\ EndsAfterStart(i, start, end) /\ OverlapsNone(i, start, end)

\* Faulty: the figures of the task alone follow.
BookAlone(t, change) ==
  /\ spent' = [spent EXCEPT ![t] = Max({0, @ + change})]
  /\ spent'[t] <= MaxSpent
  /\ figures' = [x \in Task |-> IF x = t /\ t \in done THEN [figures[x] EXCEPT !.own = spent'[t]]
                                                       ELSE figures[x]]

\* _book: the tracked time of t and the figures of the completed tasks from t
\* up follow.
Book(t, change) ==
  /\ spent' = [spent EXCEPT ![t] = Max({0, @ + change})]
  /\ spent'[t] <= MaxSpent
  /\ figures' = [x \in Task |->
       IF x \in done \cap ({t} \cup Ancestors(Parent, t))
         THEN [own     |-> IF x = t THEN spent'[t] ELSE figures[x].own,
               subtree |-> SubtreeSpent(spent', x)]
         ELSE figures[x]]

AddSession(t, from, to) ==
  LET start == SnappedStart(Null, from)
      end   == SnappedEnd(Null, to)
  IN  /\ Allowed(Null, start, end)
      /\ \E i \in Session \ Existing :
           sessions' = [sessions EXCEPT ![i] = [task |-> t, start |-> start, end |-> end]]
      /\ Book(t, end - start)
      /\ UNCHANGED <<now, done>>

\* Faulty: what was booked is looked up after the change.
ChangedBeforeBooked(i, from, to) ==
  LET start   == SnappedStart(i, from)
      end     == SnappedEnd(i, to)
      changed == [sessions[i] EXCEPT !.start = start, !.end = end]
  IN  /\ Allowed(i, start, end)
      /\ sessions' = [sessions EXCEPT ![i] = changed]
      /\ Book(sessions[i].task, Booked(changed) - Booked(changed))
      /\ UNCHANGED <<now, done>>

ChangeSession(i, from, to) ==
  LET start   == SnappedStart(i, from)
      end     == SnappedEnd(i, to)
      changed == [sessions[i] EXCEPT !.start = start, !.end = end]
  IN  /\ Allowed(i, start, end)
      /\ sessions' = [sessions EXCEPT ![i] = changed]
      /\ Book(sessions[i].task, Booked(changed) - Booked(sessions[i]))
      /\ UNCHANGED <<now, done>>

RemoveSession(i) ==
  /\ sessions' = [sessions EXCEPT ![i] = Null]
  /\ Book(sessions[i].task, - Booked(sessions[i]))
  /\ UNCHANGED <<now, done>>

-----------------------------------------------------------------------------

Next ==
  \/ Tick
  \/ \E t \in Task : StartTracking(t) \/ StopTracking(t)
  \/ \E t \in Task : CompleteTask(t) \/ ReopenTask(t)
  \/ \E t \in Task, at \in Patched : PatchDone(t, at)
  \/ \E t \in Task, from, to \in Typed : AddSession(t, from, to)
  \/ \E i \in Existing, from \in Typed, to \in Typed \cup {Open} : ChangeSession(i, from, to)
  \/ \E i \in Existing : RemoveSession(i)

Spec == Init /\ [][Next]_vars

-----------------------------------------------------------------------------
(* Properties.                                                             *)

\* How long two sessions overlap (below zero: how far they are apart).
Overlap(i, j) ==
  Min({Until(i), Until(j)}) - Max({sessions[i].start, sessions[j].start})

\* What the task's sessions add up to.
SessionTime(t) ==
  MapThenSumSet(LAMBDA i : Booked(sessions[i]), {i \in Existing : sessions[i].task = t})

\* At most one session is open (TrackingSession in models.py), though starting
\* closes but the first one it finds and a change may leave its end open.
OneOpenSession == \A i, j \in Running(Task) : i = j

\* One task at a time (sessions.py): sessions overlap no other one.  It takes
\* clients whose clock is not ahead of the server's.
OneTaskAtATime == \A i, j \in Existing : i # j => Overlap(i, j) <= 0

\* With any client, no two sessions overlap by more than the slack check gives
\* their clocks, however often they are corrected; where a client completes a
\* task at a time of its own choice, by no more than that time was ahead.
OverlapWithinSlack ==
  LET slack == IF PatchedDone /\ PatchedAhead > Minute THEN PatchedAhead ELSE Minute
  IN  \A i, j \in Existing : i # j => Overlap(i, j) <= slack

\* The task being tracked is open: whatever completes it, its own request or
\* that of its last open subtask, ends its session.
TrackedTaskIsOpen == \A i \in Running(Task) : sessions[i].task \notin done

\* time_spent is what the task's sessions add up to, through starting,
\* switching, completing and every correction.
SpentIsBooked == \A t \in Task : spent[t] = SessionTime(t)

\* With any client, time_spent is never below what the sessions add up to:
\* corrections take back no more than was booked.
SpentCoversSessions == \A t \in Task : spent[t] >= SessionTime(t)

\* The completion figures of a completed task are those of the tracked time as
\* it is now, corrected since or not.
FiguresFollow == \A t \in done : figures[t] = Snapshot(spent, t)
=============================================================================
