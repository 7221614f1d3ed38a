-------------------------- MODULE TrackingRequests --------------------------
(***************************************************************************)
(* Tracking with requests that overlap.  A worker of the server (gunicorn  *)
(* runs three) takes a request, reads the task or session it is about      *)
(* (get_object, outside any transaction), then reads what else it needs in *)
(* a transaction, and later commits.  No row is locked for reading: another *)
(* worker may commit between any two of these steps (api.py, tracking.py,  *)
(* sessions.py).                                                           *)
(*                                                                         *)
(* The requests are starting, stopping, completing and changing a session; *)
(* the others of Tracking are left out.  Changing reads its task again     *)
(* right before it writes (_book): that is one step here.                  *)
(***************************************************************************)
EXTENDS Tracking

CONSTANTS
  Worker,       \* the workers of the server
  Together,     \* the kinds of requests sent while others are under way
  SlowCommits   \* may the clock move on before a transaction commits?

Kinds == {"start", "stop", "complete", "change"}

ASSUME RequestAssumption == Together \subseteq Kinds /\ SlowCommits \in BOOLEAN

VARIABLE request   \* what every worker has read and means to write; Null if idle

requestVars == <<vars, request>>

InitRequests == Init /\ request = [w \in Worker |-> Null]

Busy == {w \in Worker : request[w] # Null}

Committing == {w \in Busy : request[w].step = "commit"}

-----------------------------------------------------------------------------
(* Receiving: the view reads the row the request names.                    *)

MayReceive(w, kind) ==
  /\ request[w] = Null
  /\ \A v \in Busy : {kind, request[v].kind} \subseteq Together
  /\ kind = "start" =>   \* bound: a Session is left for every start
       Cardinality({v \in Busy : request[v].kind = "start"}) < Cardinality(Session \ Existing)

ReceiveTask(w, kind, t) ==
  /\ MayReceive(w, kind)
  /\ request' = [request EXCEPT ![w] =
       [step |-> "read", kind |-> kind, task |-> t, isDone |-> t \in done, spent |-> spent[t]]]
  /\ UNCHANGED vars

\* PATCH of a session: fields that are not sent keep the values read here.
ReceiveChange(w, i, from, to) ==
  /\ MayReceive(w, "change")
  /\ request' = [request EXCEPT ![w] =
       [step |-> "read", kind |-> "change", session |-> i, stored |-> sessions[i],
        from |-> from, to |-> to]]
  /\ UNCHANGED vars

-----------------------------------------------------------------------------
(* The reads of the transaction.  What it will write: the sessions ended   *)
(* at the moment at, the task whose session begins, the time_spent of the  *)
(* tasks it saves, those that complete.                                    *)

Refuse(w) == request' = [request EXCEPT ![w] = Null] /\ UNCHANGED vars

Prepare(w, ended, begun, read, saved, completed) ==
  /\ request' = [request EXCEPT ![w] =
       [step |-> "commit", kind |-> request[w].kind, ended |-> ended, at |-> now,
        begun |-> begun, completed |-> completed,
        saved |-> [t \in saved |-> IF \E i \in ended : sessions[i].task = t
                     THEN read[t] + (now - sessions[CHOOSE i \in ended : sessions[i].task = t].start)
                     ELSE read[t]]]]
  /\ UNCHANGED vars

\* The session that runs is read with its task.
TransactStart(w) ==
  LET r == request[w]
      stopped == FirstRunning(Task)
      tasks == {sessions[i].task : i \in stopped}
  IN  IF r.isDone \/ Blocked(r.task) \/ r.task \in tasks
        THEN Refuse(w)
        ELSE Prepare(w, stopped, {r.task}, spent, tasks, {})

\* The time is booked onto the task as the view read it.
TransactStop(w) ==
  LET r == request[w]
      stopped == FirstRunning({r.task})
  IN  IF stopped = {}
        THEN Refuse(w)
        ELSE Prepare(w, stopped, {}, [spent EXCEPT ![r.task] = r.spent], {r.task}, {})

\* Faulty: completes the ancestors whose sessions it leaves running.
TransactCompleteAlone(w) ==
  LET r == request[w]
      C == {r.task} \cup FinishedAncestors(Parent, done, r.task)
  IN  IF r.isDone \/ ~ Below(Parent, r.task) \subseteq done
        THEN Refuse(w)
        ELSE Prepare(w, RunningOf({r.task}), {}, [spent EXCEPT ![r.task] = r.spent], C, C)

\* So it is when completing; the ancestors are read in the transaction.
TransactComplete(w) ==
  LET r == request[w]
      C == {r.task} \cup FinishedAncestors(Parent, done, r.task)
  IN  IF r.isDone \/ ~ Below(Parent, r.task) \subseteq done
        THEN Refuse(w)
        ELSE Prepare(w, RunningOf(C), {}, [spent EXCEPT ![r.task] = r.spent], C, C)

\* check, with the session as the view read it.
TransactChange(w) ==
  LET r     == request[w]
      start == SnappedStart(r.session, r.from)
      end   == SnappedEnd(r.session, r.to)
  IN  IF ~ /\ InPast(start, end)
           /\ IF end = Open THEN r.stored.end = Open ELSE start < end
           /\ OverlapsNone(r.session, start, end)
        THEN Refuse(w)
        ELSE /\ request' = [request EXCEPT ![w] =
                  [step |-> "commit", kind |-> "change", session |-> r.session,
                   stored |-> r.stored, start |-> start, end |-> end]]
             /\ UNCHANGED vars

Transact(w) ==
  /\ w \in Busy \ Committing
  /\ CASE request[w].kind = "start"    -> TransactStart(w)
       [] request[w].kind = "stop"     -> TransactStop(w)
       [] request[w].kind = "complete" -> TransactComplete(w)
       [] request[w].kind = "change"   -> TransactChange(w)

-----------------------------------------------------------------------------
(* Committing: the rows are written, whatever they are by now.             *)

\* time_spent once the transaction of the request r has saved its tasks.
Saved(r) == [t \in Task |-> IF t \in DOMAIN r.saved THEN r.saved[t] ELSE spent[t]]

CommitTracking(w) ==
  /\ w \in Committing
  /\ request[w].kind # "change"
  /\ LET r == request[w]
         ended == Ended(r.ended, r.at)
     IN  /\ IF r.begun = {}
              THEN sessions' = ended
              ELSE \E i \in Session \ Existing, t \in r.begun :
                     sessions' = [ended EXCEPT
                                    ![i] = [task |-> t, start |-> r.at, end |-> Open]]
         /\ spent' = Saved(r)
         /\ done' = done \cup r.completed
         /\ figures' = [t \in Task |-> IF t \in r.completed THEN Snapshot(spent', t)
                                                            ELSE figures[t]]
  /\ request' = [request EXCEPT ![w] = Null]
  /\ UNCHANGED now

\* What the session added before is what the view read.
CommitChange(w) ==
  /\ w \in Committing
  /\ request[w].kind = "change"
  /\ LET r       == request[w]
         changed == [sessions[r.session] EXCEPT !.start = r.start, !.end = r.end]
     IN  /\ sessions' = [sessions EXCEPT ![r.session] = changed]
         /\ Book(changed.task, Booked(changed) - Booked(r.stored))
  /\ request' = [request EXCEPT ![w] = Null]
  /\ UNCHANGED <<now, done>>

-----------------------------------------------------------------------------

TickRequests ==
  /\ SlowCommits \/ Committing = {}
  /\ Tick
  /\ UNCHANGED request

NextRequests ==
  \/ TickRequests
  \/ \E w \in Worker, t \in Task, kind \in Kinds \ {"change"} : ReceiveTask(w, kind, t)
  \/ \E w \in Worker, i \in Existing, from \in Typed, to \in Typed \cup {Open} :
       ReceiveChange(w, i, from, to)
  \/ \E w \in Worker : Transact(w) \/ CommitTracking(w) \/ CommitChange(w)

RequestSpec == InitRequests /\ [][NextRequests]_requestVars

-----------------------------------------------------------------------------
(* Properties.                                                             *)

\* Tracking as the service functions say it, each request a single step.
Atomic == INSTANCE Tracking WITH
  now <- now, sessions <- sessions, spent <- spent, done <- done, figures <- figures

\* One request after the other - but for stops, which a browser may send
\* again -, tracking is what Tracking says it is: the steps of a request
\* (api.py) are one step of Tracking, or none if it is refused.
OneByOne == Atomic!Spec

=============================================================================
