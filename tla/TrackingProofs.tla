--------------------------- MODULE TrackingProofs ---------------------------
(***************************************************************************)
(* Time tracking, for any tree of tasks and any number of sessions:        *)
(*  - at most one session is open, it is on an open task, and sessions do  *)
(*    not overlap, or by no more than the slack clients have;              *)
(*  - time adds up: what is booked on a task covers its sessions and       *)
(*    equals them as long as clients' clocks are no further than the       *)
(*    server's, and the completion figures of a completed task are those   *)
(*    of the time tracked on it and below it;                              *)
(*  - requests that do not overlap - but for stops - implement Tracking:   *)
(*    for any number of workers and any clock, the step in which a request *)
(*    commits is one step of Tracking, every other one changes nothing.    *)
(*                                                                         *)
(* Sums are folds over sets of sessions.  What a fold computes is proved   *)
(* without induction: a set of numbers for which a claim fails would have  *)
(* a least element.                                                        *)
(***************************************************************************)
EXTENDS TrackingRequests, TreeProofs, DataProofs

-----------------------------------------------------------------------------
(* The invariant, as facts about sessions ss and a clock n.                *)

Sessions(ss) == ss \in [Session -> SessionRecord \cup {Null}]

IsOpen(ss, i) == ss[i] # Null /\ ss[i].end = Open

Single(ss) == \A i, j \in Session : IsOpen(ss, i) /\ IsOpen(ss, j) => i = j

\* No session is in the future or ends before it began.
TimelyOne(r, n) ==
  r.start <= n /\ (r.end # Open => r.start <= r.end /\ r.end <= n)

Timely(ss, n) == \A i \in Session : ss[i] # Null => TimelyOne(ss[i], n)

Counts(r, n) == IF r.end = Open THEN n ELSE r.end

\* One is over when the other begins, or one is empty.
Apart(r, s, n) ==
  \/ Counts(r, n) <= s.start \/ Counts(s, n) <= r.start
  \/ Counts(r, n) <= r.start \/ Counts(s, n) <= s.start

Disjoint(ss, n) ==
  \A i, j \in Session : ss[i] # Null /\ ss[j] # Null /\ i # j => Apart(ss[i], ss[j], n)

\* The sessions ss with those of I ended at the moment n.
EndedIn(ss, I, n) == [i \in Session |-> IF i \in I THEN [ss[i] EXCEPT !.end = n] ELSE ss[i]]

LEMMA NullIsNone == Null \notin SessionRecord /\ Open \notin Int
BY OpenAssumption

LEMMA EndedFields ==
  ASSUME NEW ss, Sessions(ss), NEW I, NEW n \in Int, \A i \in I \cap Session : IsOpen(ss, i)
  PROVE  /\ Sessions(EndedIn(ss, I, n))
         /\ \A i \in Session :
              /\ EndedIn(ss, I, n)[i] = Null <=> ss[i] = Null
              /\ ss[i] # Null =>
                   /\ EndedIn(ss, I, n)[i].start = ss[i].start
                   /\ EndedIn(ss, I, n)[i].task = ss[i].task
                   /\ i \in I => EndedIn(ss, I, n)[i].end = n
                   /\ i \notin I => EndedIn(ss, I, n)[i].end = ss[i].end
BY NullIsNone DEF Sessions, SessionRecord, EndedIn, IsOpen

\* Ending open sessions now keeps the sessions single, timely and disjoint.
LEMMA EndingKeeps ==
  ASSUME NEW ss, Sessions(ss), NEW I, NEW n \in Int, \A i \in I \cap Session : IsOpen(ss, i),
         Single(ss)
  PROVE  /\ Single(EndedIn(ss, I, n))
         /\ \A i \in Session : IsOpen(EndedIn(ss, I, n), i) => i \notin I /\ IsOpen(ss, i)
         /\ Timely(ss, n) => Timely(EndedIn(ss, I, n), n)
         /\ Disjoint(ss, n) => Disjoint(EndedIn(ss, I, n), n)
<1> DEFINE es == EndedIn(ss, I, n)
<1>1. \A i \in Session :
        /\ es[i] = Null <=> ss[i] = Null
        /\ ss[i] # Null => /\ es[i].start = ss[i].start
                           /\ i \in I => es[i].end = n /\ ss[i].end = Open
                           /\ i \notin I => es[i].end = ss[i].end
  BY EndedFields DEF IsOpen
<1> HIDE DEF es
<1>2. \A i \in Session : IsOpen(es, i) => i \notin I /\ IsOpen(ss, i)
  BY <1>1, NullIsNone DEF IsOpen
<1>3. Single(es)
  BY <1>2 DEF Single
<1>4. ASSUME Timely(ss, n) PROVE Timely(es, n)
  <2>1. ASSUME NEW i \in Session, es[i] # Null PROVE TimelyOne(es[i], n)
    <3>1. TimelyOne(ss[i], n) /\ ss[i].start \in Int
      BY <1>1, <1>4, <2>1 DEF Timely, Sessions, SessionRecord
    <3>2. CASE i \in I
      BY <1>1, <2>1, <3>1, <3>2 DEF TimelyOne
    <3>3. CASE i \notin I
      BY <1>1, <2>1, <3>1, <3>3 DEF TimelyOne
    <3>4. QED
      BY <3>2, <3>3
  <2>2. QED
    BY <2>1 DEF Timely
<1>5. ASSUME Disjoint(ss, n) PROVE Disjoint(es, n)
  <2>1. \A i \in Session : es[i] # Null => Counts(es[i], n) = Counts(ss[i], n)
    BY <1>1, NullIsNone DEF Counts
  <2>2. ASSUME NEW i \in Session, NEW j \in Session, es[i] # Null, es[j] # Null, i # j
        PROVE  Apart(es[i], es[j], n)
    <3>1. Apart(ss[i], ss[j], n)
      BY <1>1, <1>5, <2>2 DEF Disjoint
    <3>2. QED
      BY <1>1, <2>1, <2>2, <3>1 DEF Apart
  <2>3. QED
    BY <2>2 DEF Disjoint
<1>6. QED
  BY <1>2, <1>3, <1>4, <1>5 DEF es

\* So does putting a session r that is timely and apart from the others.
LEMMA PuttingKeeps ==
  ASSUME NEW ss, Sessions(ss), NEW i \in Session, NEW r \in SessionRecord, NEW n \in Int,
         Single(ss),
         r.end = Open => \A j \in Session \ {i} : ~ IsOpen(ss, j)
  PROVE  LET ps == [ss EXCEPT ![i] = r]
         IN  /\ Sessions(ps)
             /\ Single(ps)
             /\ Timely(ss, n) /\ TimelyOne(r, n) => Timely(ps, n)
             /\ Disjoint(ss, n) /\ (\A j \in Session \ {i} : ss[j] # Null => Apart(r, ss[j], n))
                  => Disjoint(ps, n)
<1> DEFINE ps == [ss EXCEPT ![i] = r]
<1>1. Sessions(ps)
  BY DEF Sessions
<1>2. ps[i] = r /\ \A j \in Session \ {i} : ps[j] = ss[j]
  BY DEF Sessions
<1> HIDE DEF ps
<1>3. Single(ps)
  BY <1>2 DEF Single, IsOpen
<1>4. Timely(ss, n) /\ TimelyOne(r, n) => Timely(ps, n)
  BY <1>2 DEF Timely
<1>5. ASSUME Disjoint(ss, n), \A j \in Session \ {i} : ss[j] # Null => Apart(r, ss[j], n)
      PROVE  Disjoint(ps, n)
  <2>1. \A j \in Session \ {i} : ss[j] # Null => Apart(ss[j], r, n)
    BY <1>5 DEF Apart
  <2>2. QED
    BY <1>2, <1>5, <2>1 DEF Disjoint
<1>6. QED
  BY <1>1, <1>3, <1>4, <1>5 DEF ps

-----------------------------------------------------------------------------
(* What the operators of Tracking return.                                  *)

LEMMA RunningSessions ==
  ASSUME Sessions(sessions), Single(sessions), NEW T \in SUBSET Task
  PROVE  /\ Running(T) = {i \in Session : IsOpen(sessions, i) /\ sessions[i].task \in T}
         /\ FirstRunning(T) = Running(T)
         /\ RunningOf(T) = Running(T)
<1>1. \A S : Running(S) = {i \in Session : IsOpen(sessions, i) /\ sessions[i].task \in S}
  BY DEF Running, Existing, IsOpen
<1>2. ASSUME NEW S PROVE FirstRunning(S) = Running(S)
  <2>1. CASE Running(S) = {}
    BY <2>1 DEF FirstRunning
  <2>2. CASE Running(S) # {}
    <3>1. PICK i \in Running(S) : TRUE
      BY <2>2
    <3>2. Running(S) = {i}
      BY <1>1, <3>1 DEF Single
    <3>3. sessions[i].start \in Int
      BY <1>1, <3>1 DEF Sessions, SessionRecord, IsOpen
    <3>4. i = CHOOSE x \in Running(S) :
                \A j \in Running(S) : sessions[x].start <= sessions[j].start
      BY <3>2, <3>3
    <3>5. QED
      BY <2>2, <3>2, <3>4 DEF FirstRunning
  <2>3. QED
    BY <2>1, <2>2
<1>3. RunningOf(T) = UNION {Running({t}) : t \in T}
  BY <1>2 DEF RunningOf
<1>4. UNION {Running({t}) : t \in T} = Running(T)
  <2>1. \A t \in T : Running({t}) \subseteq Running(T)
    BY <1>1
  <2>2. ASSUME NEW i \in Running(T) PROVE \E t \in T : i \in Running({t})
    <3>1. i \in Session /\ IsOpen(sessions, i) /\ sessions[i].task \in T
      BY <1>1
    <3>2. i \in Running({sessions[i].task})
      BY <1>1, <3>1
    <3>3. QED
      BY <3>1, <3>2
  <2>3. QED
    BY <2>1, <2>2
<1>5. QED
  BY <1>1, <1>2, <1>3, <1>4

LEMMA SnappedTimes ==
  ASSUME Sessions(sessions), now \in Nat, NEW i,
         NEW from \in Typed, NEW to \in Typed \cup {Open}
  PROVE  /\ SnappedStart(i, from) \in Int
         /\ SnappedEnd(i, to) \in Int \cup {Open}
         /\ to # Open => SnappedEnd(i, to) # Open
         /\ Ahead = 0 /\ Timely(sessions, now) =>
              /\ SnappedStart(i, from) <= now
              /\ SnappedEnd(i, to) # Open => SnappedEnd(i, to) <= now
<1>1. Typed \in SUBSET Int /\ (Ahead = 0 => \A m \in Typed : m <= now) /\ Minute \in Int
  BY ClockAssumption DEF Typed
<1>2. SnappedStart(i, from) = from \/
        \E j \in Session : /\ sessions[j] # Null /\ sessions[j].end \in Int
                           /\ SnappedStart(i, from) = sessions[j].end
  <2> DEFINE before == {j \in Existing \ {i} : sessions[j].end \in from..(from + Minute - 1)}
             ends   == {sessions[j].end : j \in before}
  <2>1. CASE WholeMinute(from) /\ before # {}
    <3>1. ends \in SUBSET Int /\ ends # {} /\ \A x \in ends : x <= from + Minute - 1
      BY <1>1, <2>1
    <3>2. from + Minute - 1 \in Int
      BY <1>1
    <3> HIDE DEF ends
    <3>3. Max(ends) \in ends
      BY <3>1, <3>2, MaxOfMoments
    <3>4. SnappedStart(i, from) = Max(ends)
      BY <2>1 DEF SnappedStart, ends
    <3>5. \E j \in before : Max(ends) = sessions[j].end
      BY <3>3 DEF ends
    <3>6. QED
      BY <3>1, <3>3, <3>4, <3>5 DEF Existing
  <2>2. CASE ~ (WholeMinute(from) /\ before # {})
    BY <2>2 DEF SnappedStart
  <2>3. QED
    BY <2>1, <2>2
<1>3. SnappedEnd(i, to) = to \/
        /\ to # Open
        /\ \E j \in Session : sessions[j] # Null /\ SnappedEnd(i, to) = sessions[j].start
  <2> DEFINE after  == {j \in Existing \ {i} : sessions[j].start \in to..(to + Minute - 1)}
             starts == {sessions[j].start : j \in after}
  <2>1. CASE to # Open /\ WholeMinute(to) /\ after # {}
    <3>1. to \in Int
      BY <1>1, <2>1
    <3>2. starts \in SUBSET Int /\ starts # {} /\ \A x \in starts : to <= x
      BY <1>1, <2>1, <3>1
    <3> HIDE DEF starts
    <3>3. Min(starts) \in starts
      BY <3>1, <3>2, MinOfMoments
    <3>4. SnappedEnd(i, to) = Min(starts)
      BY <2>1 DEF SnappedEnd, starts
    <3>5. \E j \in after : Min(starts) = sessions[j].start
      BY <3>3 DEF starts
    <3>6. QED
      BY <2>1, <3>4, <3>5 DEF Existing
  <2>2. CASE ~ (to # Open /\ WholeMinute(to) /\ after # {})
    BY <2>2 DEF SnappedEnd
  <2>3. QED
    BY <2>1, <2>2
<1>4. \A j \in Session : sessions[j] # Null =>
        /\ sessions[j].start \in Int
        /\ Timely(sessions, now) =>
             /\ sessions[j].start <= now
             /\ sessions[j].end \in Int => sessions[j].end <= now
  BY NullIsNone DEF Sessions, SessionRecord, Timely, TimelyOne
<1>5. QED
  BY <1>1, <1>2, <1>3, <1>4, NullIsNone

-----------------------------------------------------------------------------
(* The inductive invariant.  Clients whose clock is ahead or that choose   *)
(* when a task was completed can make sessions overlap; at most one session *)
(* is open with any client.                                                *)

TaskOpen(ss, dn) == \A i \in Session : IsOpen(ss, i) => ss[i].task \notin dn

SafeClients == ~ PatchedDone /\ Ahead = 0

IInv(ss, n, dn) ==
  /\ n \in Nat /\ Sessions(ss) /\ dn \subseteq Task
  /\ Single(ss)
  /\ ~ PatchedDone => TaskOpen(ss, dn)
  /\ SafeClients => Timely(ss, n) /\ Disjoint(ss, n)

Inv == IInv(sessions, now, done)

LEMMA InitInv == Init => Inv
BY DEF Init, Inv, IInv, Sessions, Single, TaskOpen, Timely, Disjoint, IsOpen

LEMMA TickInv == Inv /\ Tick => Inv'
<1> SUFFICES ASSUME Inv, Tick PROVE Inv'
  OBVIOUS
<1>1. sessions' = sessions /\ done' = done /\ now' = now + 1 /\ now \in Nat
  BY DEF Tick, Inv, IInv
<1>2. ASSUME Timely(sessions, now), Disjoint(sessions, now)
      PROVE  Timely(sessions, now + 1) /\ Disjoint(sessions, now + 1)
  <2>1. \A i \in Session : sessions[i] # Null =>
          sessions[i].start \in Int /\ (sessions[i].end # Open => sessions[i].end \in Int)
    BY NullIsNone DEF Inv, IInv, Sessions, SessionRecord
  <2>2. Timely(sessions, now + 1)
    BY <1>1, <1>2, <2>1 DEF Timely, TimelyOne
  <2>3. ASSUME NEW i \in Session, NEW j \in Session,
               sessions[i] # Null, sessions[j] # Null, i # j
        PROVE  Apart(sessions[i], sessions[j], now + 1)
    <3>1. Apart(sessions[i], sessions[j], now)
      BY <1>2, <2>3 DEF Disjoint
    <3>2. TimelyOne(sessions[i], now) /\ TimelyOne(sessions[j], now)
      BY <1>2, <2>3 DEF Timely
    <3>3. sessions[i].end # Open \/ sessions[j].end # Open
      BY <2>3 DEF Inv, IInv, Single, IsOpen
    <3>4. QED
      BY <1>1, <2>1, <2>3, <3>1, <3>2, <3>3 DEF Apart, Counts, TimelyOne
  <2>4. QED
    BY <2>2, <2>3 DEF Disjoint
<1>3. QED
  BY <1>1, <1>2 DEF Inv, IInv

LEMMA StartInv == ASSUME NEW t \in Task PROVE Inv /\ StartTracking(t) => Inv'
<1> SUFFICES ASSUME Inv, StartTracking(t) PROVE Inv'
  OBVIOUS
<1> DEFINE es == EndedIn(sessions, Running(Task), now)
           r  == [task |-> t, start |-> now, end |-> Open]
<1>1. now \in Nat /\ Sessions(sessions) /\ Single(sessions)
  BY DEF Inv, IInv
<1>2. /\ Running(Task) = {i \in Session : IsOpen(sessions, i) /\ sessions[i].task \in Task}
      /\ FirstRunning(Task) = Running(Task)
  BY <1>1, RunningSessions
<1>3. PICK i \in Session : sessions' = [es EXCEPT ![i] = r]
  <2>1. Ended(FirstRunning(Task), now) = es
    BY <1>2 DEF Ended, EndedIn
  <2>2. \E i \in Session : sessions' = [Ended(FirstRunning(Task), now) EXCEPT ![i] = r]
    BY DEF StartTracking
  <2>3. QED
    BY <2>1, <2>2
<1>4. now' = now /\ done' = done /\ t \notin done
  BY DEF StartTracking
<1>5. \A j \in Running(Task) \cap Session : IsOpen(sessions, j)
  BY <1>2
<1>6. Sessions(es) /\ Single(es)
  BY <1>1, <1>5, EndedFields, EndingKeeps
<1>7. \A j \in Session : ~ IsOpen(es, j)
  <2>1. \A j \in Session : IsOpen(es, j) => j \notin Running(Task) /\ IsOpen(sessions, j)
    BY <1>1, <1>5, EndingKeeps
  <2>2. \A j \in Session : IsOpen(sessions, j) => sessions[j].task \in Task
    BY <1>1 DEF Sessions, SessionRecord, IsOpen
  <2>3. QED
    BY <1>2, <2>1, <2>2
<1>8. r \in SessionRecord /\ r.end = Open /\ r.start = now /\ r.task = t
  BY <1>1 DEF SessionRecord
<1>9. TimelyOne(r, now) /\ \A s : Apart(r, s, now)
  BY <1>1, <1>8 DEF TimelyOne, Apart, Counts
<1>10. Timely(sessions, now) /\ Disjoint(sessions, now) => Timely(es, now) /\ Disjoint(es, now)
  BY <1>1, <1>5, EndingKeeps
<1>11. sessions'[i] = r /\ \A j \in Session \ {i} : sessions'[j] = es[j]
  <2> HIDE DEF r
  <2>1. QED
    BY <1>3, <1>6 DEF Sessions
<1> HIDE DEF es, r
<1>12. /\ Sessions(sessions') /\ Single(sessions')
       /\ Timely(es, now) => Timely(sessions', now)
       /\ Disjoint(es, now) => Disjoint(sessions', now)
  <2>1. \A j \in Session \ {i} : ~ IsOpen(es, j) /\ Apart(r, es[j], now)
    BY <1>7, <1>9
  <2>2. LET ps == [es EXCEPT ![i] = r]
        IN  /\ Sessions(ps) /\ Single(ps)
            /\ Timely(es, now) => Timely(ps, now)
            /\ Disjoint(es, now) => Disjoint(ps, now)
    BY <1>1, <1>6, <1>8, <1>9, <2>1, PuttingKeeps
  <2>3. QED
    BY <1>3, <2>2
<1>13. TaskOpen(sessions', done')
  BY <1>4, <1>7, <1>8, <1>11 DEF TaskOpen, IsOpen
<1>14. QED
  BY <1>1, <1>4, <1>10, <1>12, <1>13 DEF Inv, IInv

\* Ending the running sessions of T now, where the tasks that complete are in T.
LEMMA EndInv ==
  ASSUME Inv, NEW T \in SUBSET Task, NEW dn \in SUBSET Task, dn \subseteq done \cup T
  PROVE  IInv(EndedIn(sessions, Running(T), now), now, dn)
<1> DEFINE es == EndedIn(sessions, Running(T), now)
<1>1. now \in Nat /\ Sessions(sessions) /\ Single(sessions)
  BY DEF Inv, IInv
<1>2. Running(T) = {i \in Session : IsOpen(sessions, i) /\ sessions[i].task \in T}
  BY <1>1, RunningSessions
<1>3. \A i \in Running(T) \cap Session : IsOpen(sessions, i)
  BY <1>2
<1>4. /\ Sessions(es) /\ Single(es)
      /\ \A i \in Session : IsOpen(es, i) => i \notin Running(T) /\ IsOpen(sessions, i)
      /\ Timely(sessions, now) /\ Disjoint(sessions, now) => Timely(es, now) /\ Disjoint(es, now)
  BY <1>1, <1>3, EndedFields, EndingKeeps
<1>5. \A i \in Session : IsOpen(sessions, i) => es[i].task = sessions[i].task
  BY <1>1, <1>3, EndedFields DEF IsOpen
<1> HIDE DEF es
<1>6. TaskOpen(sessions, done) => TaskOpen(es, dn)
  BY <1>2, <1>4, <1>5 DEF TaskOpen
<1>7. IInv(es, now, dn)
  BY <1>1, <1>4, <1>6 DEF Inv, IInv
<1>8. QED
  BY <1>7 DEF es

LEMMA StopInv == ASSUME NEW t \in Task PROVE Inv /\ StopTracking(t) => Inv'
<1> SUFFICES ASSUME Inv, StopTracking(t) PROVE Inv'
  OBVIOUS
<1>1. FirstRunning({t}) = Running({t})
  BY RunningSessions DEF Inv, IInv
<1>2. sessions' = EndedIn(sessions, Running({t}), now) /\ now' = now /\ done' = done
  BY <1>1 DEF StopTracking, Ended, EndedIn
<1>3. IInv(EndedIn(sessions, Running({t}), now), now, done)
  BY EndInv DEF Inv, IInv
<1>4. QED
  BY <1>2, <1>3 DEF Inv

LEMMA CompleteInv == ASSUME NEW t \in Task PROVE Inv /\ CompleteTask(t) => Inv'
<1> SUFFICES ASSUME Inv, CompleteTask(t) PROVE Inv'
  OBVIOUS
<1> DEFINE C == {t} \cup FinishedAncestors(Parent, done, t)
<1>1. C \in SUBSET Task
  BY DEF FinishedAncestors, Ancestors
<1> HIDE DEF C
<1>2. RunningOf(C) = Running(C)
  BY <1>1, RunningSessions DEF Inv, IInv
<1>3. sessions' = EndedIn(sessions, Running(C), now) /\ now' = now /\ done' = done \cup C
  BY <1>2 DEF CompleteTask, Finish, Ended, EndedIn, C
<1>4. IInv(EndedIn(sessions, Running(C), now), now, done \cup C)
  BY <1>1, EndInv DEF Inv, IInv
<1>5. QED
  BY <1>3, <1>4 DEF Inv

LEMMA PatchInv ==
  ASSUME NEW t \in Task, NEW at \in Patched PROVE Inv /\ PatchDone(t, at) => Inv'
<1> SUFFICES ASSUME Inv, PatchDone(t, at) PROVE Inv'
  OBVIOUS
<1> DEFINE above == FinishedAncestors(Parent, done, t)
<1>1. above \in SUBSET Task
  BY DEF FinishedAncestors, Ancestors
<1> HIDE DEF above
<1>2. now \in Nat /\ Sessions(sessions) /\ Single(sessions) /\ done \subseteq Task
  BY DEF Inv, IInv
<1>3. at \in Int
  BY <1>2, ClockAssumption DEF Patched
<1>4. /\ RunningOf(above) = Running(above)
      /\ \A i \in Running(above) \cap Session : IsOpen(sessions, i)
  BY <1>1, <1>2, RunningSessions
<1>5. /\ sessions' = EndedIn(sessions, Running(above), at) /\ now' = now
      /\ done' = done \cup {t} \cup above /\ PatchedDone
  BY <1>4 DEF PatchDone, Finish, Ended, EndedIn, above
<1>6. Sessions(sessions') /\ Single(sessions')
  BY <1>2, <1>3, <1>4, <1>5, EndedFields, EndingKeeps
<1>7. QED
  BY <1>1, <1>2, <1>5, <1>6 DEF Inv, IInv, SafeClients

LEMMA ReopenInv == ASSUME NEW t \in Task PROVE Inv /\ ReopenTask(t) => Inv'
<1> SUFFICES ASSUME Inv, ReopenTask(t) PROVE Inv'
  OBVIOUS
<1>1. now' = now /\ sessions' = sessions /\ done' \subseteq done
  BY DEF ReopenTask
<1>2. QED
  BY <1>1 DEF Inv, IInv, TaskOpen

-----------------------------------------------------------------------------
(* The time sheet.                                                         *)

\* Putting a session that check allows.
LEMMA AllowedInv ==
  ASSUME Inv, NEW i \in Session, NEW r \in SessionRecord, NEW k,
         Existing \ {k} = Existing \ {i},
         Allowed(k, r.start, r.end),
         r.end = Open => IsOpen(sessions, i) /\ r.task = sessions[i].task,
         SafeClients => r.start <= now /\ (r.end # Open => r.end <= now)
  PROVE  IInv([sessions EXCEPT ![i] = r], now, done)
<1> DEFINE ps == [sessions EXCEPT ![i] = r]
<1>1. now \in Nat /\ Sessions(sessions) /\ Single(sessions) /\ done \subseteq Task
  BY DEF Inv, IInv
<1>2. \A j \in Session \ {i} : sessions[j] # Null => Apart(r, sessions[j], now)
  <2>1. OverlapsNone(k, r.start, r.end)
    BY DEF Allowed
  <2>2. \A j \in Existing : Until(j) = Counts(sessions[j], now)
    BY DEF Until, Counts
  <2>3. \A j \in Session \ {i} : sessions[j] # Null => j \in Existing \ {k}
    BY DEF Existing
  <2>4. ASSUME NEW j \in Session \ {i}, sessions[j] # Null PROVE Apart(r, sessions[j], now)
    <3>1. \/ sessions[j].start >= IF r.end = Open THEN now ELSE r.end
          \/ Until(j) <= r.start
      BY <2>1, <2>3, <2>4 DEF OverlapsNone
    <3>2. sessions[j].start \in Int /\ r.start \in Int /\ r.end \in Int \cup {Open}
      BY <1>1, <2>4 DEF Sessions, SessionRecord
    <3>3. QED
      BY <1>1, <2>2, <2>3, <2>4, <3>1, <3>2 DEF Apart, Counts
  <2>5. QED
    BY <2>4
<1>3. SafeClients => TimelyOne(r, now)
  <2>1. r.end # Open => r.start < r.end
    BY DEF Allowed, EndsAfterStart
  <2>2. r.start \in Int /\ r.end \in Int \cup {Open}
    BY DEF SessionRecord
  <2>3. QED
    BY <2>1, <2>2 DEF TimelyOne
<1>4. r.end = Open => \A j \in Session \ {i} : ~ IsOpen(sessions, j)
  BY <1>1 DEF Single
<1>5. /\ Sessions(ps) /\ Single(ps)
      /\ Timely(sessions, now) /\ TimelyOne(r, now) => Timely(ps, now)
      /\ Disjoint(sessions, now) => Disjoint(ps, now)
  BY <1>1, <1>2, <1>4, PuttingKeeps
<1>6. ps[i] = r /\ \A j \in Session \ {i} : ps[j] = sessions[j]
  BY <1>1 DEF Sessions
<1> HIDE DEF ps
<1>7. TaskOpen(sessions, done) => TaskOpen(ps, done)
  BY <1>6 DEF TaskOpen, IsOpen
<1>8. IInv(ps, now, done)
  BY <1>1, <1>3, <1>5, <1>7 DEF Inv, IInv
<1>9. QED
  BY <1>8 DEF ps

LEMMA AddInv ==
  ASSUME NEW t \in Task, NEW from \in Typed, NEW to \in Typed
  PROVE  Inv /\ AddSession(t, from, to) => Inv'
<1> SUFFICES ASSUME Inv, AddSession(t, from, to) PROVE Inv'
  OBVIOUS
<1> DEFINE start == SnappedStart(Null, from)
           end   == SnappedEnd(Null, to)
           r     == [task |-> t, start |-> start, end |-> end]
<1>1. now \in Nat /\ Sessions(sessions) /\ done \subseteq Task
  BY DEF Inv, IInv
<1>2. to # Open
  BY <1>1, NullIsNone, ClockAssumption DEF Typed
<1>3. /\ start \in Int /\ end \in Int /\ end # Open
      /\ SafeClients => start <= now /\ end <= now
  BY <1>1, <1>2, SnappedTimes DEF Inv, IInv, SafeClients
<1>4. PICK i \in Session \ Existing : sessions' = [sessions EXCEPT ![i] = r]
  BY DEF AddSession
<1>5. now' = now /\ done' = done /\ Allowed(Null, start, end)
  BY DEF AddSession
<1> HIDE DEF start, end
<1>6. r \in SessionRecord /\ r.start = start /\ r.end = end
  BY <1>3 DEF SessionRecord
<1> HIDE DEF r
<1>7. Existing \ {Null} = Existing \ {i}
  BY <1>4, SessionAssumption DEF Existing
<1>8. IInv([sessions EXCEPT ![i] = r], now, done)
  BY <1>3, <1>4, <1>5, <1>6, <1>7, AllowedInv
<1>9. QED
  BY <1>4, <1>5, <1>8 DEF Inv

LEMMA ChangeInv ==
  ASSUME NEW i \in Existing, NEW from \in Typed, NEW to \in Typed \cup {Open}
  PROVE  Inv /\ ChangeSession(i, from, to) => Inv'
<1> SUFFICES ASSUME Inv, ChangeSession(i, from, to) PROVE Inv'
  OBVIOUS
<1> DEFINE start == SnappedStart(i, from)
           end   == SnappedEnd(i, to)
           r     == [sessions[i] EXCEPT !.start = start, !.end = end]
<1>1. now \in Nat /\ Sessions(sessions) /\ done \subseteq Task
  BY DEF Inv, IInv
<1>2. /\ start \in Int /\ end \in Int \cup {Open}
      /\ SafeClients => start <= now /\ (end # Open => end <= now)
  BY <1>1, SnappedTimes DEF Inv, IInv, SafeClients
<1>3. sessions' = [sessions EXCEPT ![i] = r]
  BY DEF ChangeSession
<1>4. now' = now /\ done' = done /\ Allowed(i, start, end)
  BY DEF ChangeSession
<1> HIDE DEF start, end
<1>5. sessions[i] \in SessionRecord /\ i \in Session
  BY <1>1 DEF Sessions, Existing
<1>6. r \in SessionRecord /\ r.start = start /\ r.end = end /\ r.task = sessions[i].task
  BY <1>2, <1>5 DEF SessionRecord
<1> HIDE DEF r
<1>7. r.end = Open => IsOpen(sessions, i)
  BY <1>4, <1>6 DEF Allowed, EndsAfterStart, IsOpen, Existing
<1>8. IInv([sessions EXCEPT ![i] = r], now, done)
  BY <1>2, <1>4, <1>5, <1>6, <1>7, AllowedInv
<1>9. QED
  BY <1>3, <1>4, <1>8 DEF Inv

LEMMA RemoveInv == ASSUME NEW i \in Existing PROVE Inv /\ RemoveSession(i) => Inv'
<1> SUFFICES ASSUME Inv, RemoveSession(i) PROVE Inv'
  OBVIOUS
<1>1. Sessions(sessions) /\ i \in Session
  BY DEF Inv, IInv, Existing
<1>2. now' = now /\ done' = done /\ sessions' = [sessions EXCEPT ![i] = Null]
  BY DEF RemoveSession
<1>3. Sessions(sessions')
  BY <1>1, <1>2 DEF Sessions
<1>4. sessions'[i] = Null /\ \A j \in Session \ {i} : sessions'[j] = sessions[j]
  BY <1>1, <1>2 DEF Sessions
<1>5. Single(sessions) => Single(sessions')
  BY <1>4 DEF Single, IsOpen
<1>6. TaskOpen(sessions, done) => TaskOpen(sessions', done)
  BY <1>4 DEF TaskOpen, IsOpen
<1>7. Timely(sessions, now) => Timely(sessions', now)
  BY <1>4 DEF Timely
<1>8. Disjoint(sessions, now) => Disjoint(sessions', now)
  BY <1>4 DEF Disjoint
<1>9. QED
  BY <1>2, <1>3, <1>5, <1>6, <1>7, <1>8 DEF Inv, IInv

LEMMA NextInv == Inv /\ [Next]_vars => Inv'
<1> SUFFICES ASSUME Inv, [Next]_vars PROVE Inv'
  OBVIOUS
<1>1. CASE Tick
  BY <1>1, TickInv
<1>2. CASE \E t \in Task : StartTracking(t) \/ StopTracking(t)
  BY <1>2, StartInv, StopInv
<1>3. CASE \E t \in Task : CompleteTask(t) \/ ReopenTask(t)
  BY <1>3, CompleteInv, ReopenInv
<1>4. CASE \E t \in Task, at \in Patched : PatchDone(t, at)
  BY <1>4, PatchInv
<1>5. CASE \E t \in Task, from, to \in Typed : AddSession(t, from, to)
  BY <1>5, AddInv
<1>6. CASE \E i \in Existing, from \in Typed, to \in Typed \cup {Open} : ChangeSession(i, from, to)
  BY <1>6, ChangeInv
<1>7. CASE \E i \in Existing : RemoveSession(i)
  BY <1>7, RemoveInv
<1>8. CASE UNCHANGED vars
  BY <1>8 DEF vars, Inv
<1>9. QED
  BY <1>1, <1>2, <1>3, <1>4, <1>5, <1>6, <1>7, <1>8 DEF Next

LEMMA SpecInv == Spec => []Inv
BY InitInv, NextInv, PTL DEF Spec

-----------------------------------------------------------------------------
(* Theorems.                                                               *)

\* At most one session is ever open, whatever times clients send.
THEOREM OneOpen == Spec => []OneOpenSession
<1>1. Inv => OneOpenSession
  BY DEF Inv, IInv, Single, IsOpen, OneOpenSession, Running, Existing
<1>2. QED
  BY <1>1, SpecInv, PTL

\* If tasks are completed by their own request only, the task being tracked is
\* open.
THEOREM TrackedOpen == ASSUME ~ PatchedDone PROVE Spec => []TrackedTaskIsOpen
<1>1. Inv => TrackedTaskIsOpen
  BY DEF Inv, IInv, TaskOpen, IsOpen, TrackedTaskIsOpen, Running, Existing
<1>2. QED
  BY <1>1, SpecInv, PTL

\* If moreover no client's clock is ahead of the server's, no two sessions
\* overlap.
THEOREM OneAtATime == ASSUME SafeClients PROVE Spec => []OneTaskAtATime
<1>1. ASSUME Inv, NEW i \in Existing, NEW j \in Existing, i # j PROVE Overlap(i, j) <= 0
  <2> DEFINE ui == Until(i)
             uj == Until(j)
             si == sessions[i].start
             sj == sessions[j].start
  <2>1. now \in Int /\ sessions[i] \in SessionRecord /\ sessions[j] \in SessionRecord
    BY <1>1 DEF Inv, IInv, Sessions, Existing
  <2>2. ui \in Int /\ uj \in Int /\ si \in Int /\ sj \in Int
    BY <2>1 DEF SessionRecord, Until
  <2>3. Apart(sessions[i], sessions[j], now)
    BY <1>1 DEF Inv, IInv, Disjoint, Existing
  <2>4. ui <= sj \/ uj <= si \/ ui <= si \/ uj <= sj
    BY <2>3 DEF Apart, Counts, Until
  <2> HIDE DEF ui, uj, si, sj
  <2>5. Min({ui, uj}) <= ui /\ Min({ui, uj}) <= uj /\ Min({ui, uj}) \in Int
    BY <2>2, MinOfTwo
  <2>6. Max({si, sj}) >= si /\ Max({si, sj}) >= sj /\ Max({si, sj}) \in Int
    BY <2>2, MaxOfTwo
  <2>7. Min({ui, uj}) - Max({si, sj}) <= 0
    BY <2>2, <2>4, <2>5, <2>6
  <2>8. QED
    BY <2>7 DEF Overlap, ui, uj, si, sj
<1>2. Inv => OneTaskAtATime
  BY <1>1 DEF OneTaskAtATime
<1>3. QED
  BY <1>2, SpecInv, PTL

-----------------------------------------------------------------------------
(* Whatever clients send: two sessions overlap by no more than the slack   *)
(* their clocks are given.                                                 *)

Slack == IF PatchedDone /\ PatchedAhead > Minute THEN PatchedAhead ELSE Minute

LEMMA SlackIsNat == Slack \in Nat /\ Minute <= Slack /\ (PatchedDone => PatchedAhead <= Slack)
BY ClockAssumption DEF Slack

-----------------------------------------------------------------------------
(* The invariant.  That two sessions overlap by no more than the slack is   *)
(* not inductive, for one of them may grow with the clock.  It will not     *)
(* grow too far: one of the two has an end that is at most the slack after  *)
(* one of the beginnings, and no end is further ahead of the clock.         *)

EndsBy(r, m) == r.end # Open /\ r.end <= m

Common(r, s) ==
  \/ EndsBy(r, r.start + Slack) \/ EndsBy(r, s.start + Slack)
  \/ EndsBy(s, r.start + Slack) \/ EndsBy(s, s.start + Slack)

SlackInv(ss, n) ==
  /\ \A i \in Session : ss[i] # Null => ss[i].end = Open \/ ss[i].end <= n + Slack
  /\ \A i, j \in Session : i # j /\ ss[i] # Null /\ ss[j] # Null => Common(ss[i], ss[j])

\* Ending open sessions at a moment no further ahead than the slack keeps it.
LEMMA EndingKeepsSlack ==
  ASSUME NEW ss, Sessions(ss), NEW I, \A i \in I \cap Session : IsOpen(ss, i),
         NEW n \in Int, NEW at \in Int, at <= n + Slack, SlackInv(ss, n)
  PROVE  SlackInv(EndedIn(ss, I, at), n)
<1> DEFINE es == EndedIn(ss, I, at)
<1>1. \A i \in Session :
        /\ es[i] = Null <=> ss[i] = Null
        /\ ss[i] # Null => /\ es[i].start = ss[i].start
                           /\ i \in I => es[i].end = at /\ ss[i].end = Open
                           /\ i \notin I => es[i].end = ss[i].end
  BY EndedFields DEF IsOpen
<1> HIDE DEF es
<1>2. \A i \in Session : es[i] # Null => es[i].end = Open \/ es[i].end <= n + Slack
  BY <1>1 DEF SlackInv
<1>3. ASSUME NEW i \in Session, NEW j \in Session, i # j, es[i] # Null, es[j] # Null
      PROVE  Common(es[i], es[j])
  <2>1. Common(ss[i], ss[j])
    BY <1>1, <1>3 DEF SlackInv
  <2>2. QED
    BY <1>1, <1>3, <2>1 DEF Common, EndsBy
<1>4. SlackInv(es, n)
  BY <1>2, <1>3 DEF SlackInv
<1>5. QED
  BY <1>4 DEF es

\* So does putting a session that has no more than the slack in common with
\* any other one.
LEMMA PuttingKeepsSlack ==
  ASSUME NEW ss, Sessions(ss), NEW i \in Session, NEW r \in SessionRecord, NEW n \in Int,
         SlackInv(ss, n), r.end = Open \/ r.end <= n + Slack,
         \A j \in Session \ {i} : ss[j] # Null => Common(r, ss[j])
  PROVE  SlackInv([ss EXCEPT ![i] = r], n)
<1> DEFINE ps == [ss EXCEPT ![i] = r]
<1>1. ps[i] = r /\ \A j \in Session \ {i} : ps[j] = ss[j]
  BY DEF Sessions
<1> HIDE DEF ps
<1>2. \A j \in Session \ {i} : ss[j] # Null => Common(ss[j], r)
  BY DEF Common
<1>3. SlackInv(ps, n)
  BY <1>1, <1>2 DEF SlackInv
<1>4. QED
  BY <1>3 DEF ps

-----------------------------------------------------------------------------
(* The steps.                                                              *)

AllInv == Inv /\ SlackInv(sessions, now)

LEMMA TickSlack == AllInv /\ Tick => SlackInv(sessions', now')
<1> SUFFICES ASSUME AllInv, Tick PROVE SlackInv(sessions', now')
  OBVIOUS
<1>1. /\ now' = now + 1 /\ sessions' = sessions /\ now \in Nat
      /\ \A i \in Session : sessions[i] # Null => sessions[i].end \in Int \cup {Open}
  BY NullIsNone DEF AllInv, Inv, IInv, Sessions, SessionRecord, Tick
<1>2. QED
  BY <1>1, SlackIsNat DEF AllInv, SlackInv

LEMMA StartSlack ==
  ASSUME NEW t \in Task PROVE AllInv /\ StartTracking(t) => SlackInv(sessions', now')
<1> SUFFICES ASSUME AllInv, StartTracking(t) PROVE SlackInv(sessions', now')
  OBVIOUS
<1> DEFINE es == EndedIn(sessions, Running(Task), now)
           r  == [task |-> t, start |-> now, end |-> Open]
<1>1. now \in Nat /\ Sessions(sessions) /\ Single(sessions) /\ SlackInv(sessions, now)
  BY DEF AllInv, Inv, IInv
<1>2. /\ Running(Task) = {i \in Session : IsOpen(sessions, i) /\ sessions[i].task \in Task}
      /\ FirstRunning(Task) = Running(Task)
  BY <1>1, RunningSessions
<1>3. PICK i \in Session : sessions' = [es EXCEPT ![i] = r]
  <2>1. Ended(FirstRunning(Task), now) = es
    BY <1>2 DEF Ended, EndedIn
  <2>2. \E i \in Session : sessions' = [Ended(FirstRunning(Task), now) EXCEPT ![i] = r]
    BY DEF StartTracking
  <2>3. QED
    BY <2>1, <2>2
<1>4. \A j \in Running(Task) \cap Session : IsOpen(sessions, j)
  BY <1>2
<1>5. Sessions(es) /\ SlackInv(es, now)
  BY <1>1, <1>4, EndedFields, EndingKeepsSlack, SlackIsNat
<1>6. \A j \in Session : es[j] # Null => es[j].end # Open
  <2>1. \A j \in Session : IsOpen(es, j) => j \notin Running(Task) /\ IsOpen(sessions, j)
    BY <1>1, <1>4, EndingKeeps
  <2>2. \A j \in Session : IsOpen(sessions, j) => sessions[j].task \in Task
    BY <1>1 DEF Sessions, SessionRecord, IsOpen
  <2>3. QED
    BY <1>2, <2>1, <2>2 DEF IsOpen
<1>7. r \in SessionRecord /\ r.end = Open /\ r.start = now
  BY <1>1 DEF SessionRecord
<1>8. now' = now
  BY DEF StartTracking
<1> HIDE DEF es, r
<1>9. ASSUME NEW j \in Session \ {i}, es[j] # Null PROVE Common(r, es[j])
  BY <1>5, <1>6, <1>7, <1>9 DEF SlackInv, Common, EndsBy
<1>10. now \in Int /\ (r.end = Open \/ r.end <= now + Slack)
  BY <1>1, <1>7
<1>11. SlackInv([es EXCEPT ![i] = r], now)
  BY <1>5, <1>7, <1>9, <1>10, PuttingKeepsSlack
<1>12. QED
  BY <1>3, <1>8, <1>11

\* Ending the running sessions of the tasks T.
LEMMA EndSlack ==
  ASSUME AllInv, NEW T \in SUBSET Task, NEW at \in Int, at <= now + Slack
  PROVE  /\ RunningOf(T) = Running(T) /\ FirstRunning(T) = Running(T)
         /\ SlackInv(Ended(Running(T), at), now)
<1>1. now \in Nat /\ Sessions(sessions) /\ Single(sessions) /\ SlackInv(sessions, now)
  BY DEF AllInv, Inv, IInv
<1>2. /\ RunningOf(T) = Running(T) /\ FirstRunning(T) = Running(T)
      /\ \A i \in Running(T) \cap Session : IsOpen(sessions, i)
  BY <1>1, RunningSessions
<1>3. SlackInv(EndedIn(sessions, Running(T), at), now)
  BY <1>1, <1>2, EndingKeepsSlack
<1>4. Ended(Running(T), at) = EndedIn(sessions, Running(T), at)
  BY DEF Ended, EndedIn
<1>5. QED
  BY <1>2, <1>3, <1>4

LEMMA NowIsNear == AllInv => now \in Int /\ now <= now + Slack
BY SlackIsNat DEF AllInv, Inv, IInv

LEMMA StopSlack ==
  ASSUME NEW t \in Task PROVE AllInv /\ StopTracking(t) => SlackInv(sessions', now')
BY EndSlack, NowIsNear DEF StopTracking

LEMMA CompleteSlack ==
  ASSUME NEW t \in Task PROVE AllInv /\ CompleteTask(t) => SlackInv(sessions', now')
<1> DEFINE C == {t} \cup FinishedAncestors(Parent, done, t)
<1>1. C \in SUBSET Task
  BY DEF FinishedAncestors, Ancestors
<1>2. CompleteTask(t) => sessions' = Ended(RunningOf(C), now) /\ now' = now
  BY DEF CompleteTask, Finish
<1> HIDE DEF C
<1>3. QED
  BY <1>1, <1>2, EndSlack, NowIsNear

LEMMA PatchSlack ==
  ASSUME NEW t \in Task, NEW at \in Patched
  PROVE  AllInv /\ PatchDone(t, at) => SlackInv(sessions', now')
<1> SUFFICES ASSUME AllInv, PatchDone(t, at) PROVE SlackInv(sessions', now')
  OBVIOUS
<1> DEFINE above == FinishedAncestors(Parent, done, t)
<1>1. above \in SUBSET Task
  BY DEF FinishedAncestors, Ancestors
<1>2. sessions' = Ended(RunningOf(above), at) /\ now' = now /\ PatchedDone
  BY DEF PatchDone, Finish
<1> HIDE DEF above
<1>3. at \in Int /\ at <= now + Slack
  BY <1>2, SlackIsNat, ClockAssumption DEF Patched, AllInv, Inv, IInv
<1>4. QED
  BY <1>1, <1>2, <1>3, EndSlack

\* Putting a session that check allows.
LEMMA AllowedSlack ==
  ASSUME AllInv, NEW i \in Session, NEW r \in SessionRecord, NEW k,
         Existing \ {k} = Existing \ {i},
         Allowed(k, r.start, r.end),
         r.end = Open => IsOpen(sessions, i)
  PROVE  SlackInv([sessions EXCEPT ![i] = r], now)
<1>1. now \in Nat /\ Sessions(sessions) /\ Single(sessions) /\ SlackInv(sessions, now)
  BY DEF AllInv, Inv, IInv
<1>2. r.start \in Int /\ r.end \in Int \cup {Open}
  BY DEF SessionRecord
<1>3. r.end = Open \/ r.end <= now + Minute
  BY DEF Allowed, InPast
<1>4. ASSUME NEW j \in Session \ {i}, sessions[j] # Null PROVE Common(r, sessions[j])
  <2> DEFINE s == sessions[j]
  <2>1. s.start \in Int /\ s.end \in Int \cup {Open}
    BY <1>1, <1>4 DEF Sessions, SessionRecord
  <2>2. j \in Existing \ {k}
    BY <1>4 DEF Existing
  <2>3. \/ s.start >= IF r.end = Open THEN now ELSE r.end
        \/ (IF s.end = Open THEN now ELSE s.end) <= r.start
    BY <2>2 DEF Allowed, OverlapsNone, Until
  <2>4. s.end = Open \/ s.end <= now + Slack
    BY <1>1, <1>4 DEF SlackInv
  <2>5. r.end = Open => s.end # Open
    BY <1>1, <1>4 DEF Single, IsOpen
  <2> HIDE DEF s
  <2>6. Common(r, s)
    BY <1>1, <1>2, <1>3, <2>1, <2>3, <2>4, <2>5, SlackIsNat, NullIsNone, ClockAssumption
    DEF Common, EndsBy
  <2>7. QED
    BY <2>6 DEF s
<1>5. r.end = Open \/ r.end <= now + Slack
  BY <1>1, <1>2, <1>3, SlackIsNat, ClockAssumption
<1>6. QED
  BY <1>1, <1>4, <1>5, PuttingKeepsSlack

LEMMA AddSlack ==
  ASSUME NEW t \in Task, NEW from \in Typed, NEW to \in Typed
  PROVE  AllInv /\ AddSession(t, from, to) => SlackInv(sessions', now')
<1> SUFFICES ASSUME AllInv, AddSession(t, from, to) PROVE SlackInv(sessions', now')
  OBVIOUS
<1> DEFINE start == SnappedStart(Null, from)
           end   == SnappedEnd(Null, to)
           r     == [task |-> t, start |-> start, end |-> end]
<1>1. now \in Nat /\ Sessions(sessions)
  BY DEF AllInv, Inv, IInv
<1>2. to # Open
  BY <1>1, NullIsNone, ClockAssumption DEF Typed
<1>3. start \in Int /\ end \in Int /\ end # Open
  BY <1>1, <1>2, SnappedTimes
<1>4. PICK i \in Session \ Existing : sessions' = [sessions EXCEPT ![i] = r]
  BY DEF AddSession
<1>5. now' = now /\ Allowed(Null, start, end)
  BY DEF AddSession
<1> HIDE DEF start, end
<1>6. r \in SessionRecord /\ r.start = start /\ r.end = end
  BY <1>3 DEF SessionRecord
<1> HIDE DEF r
<1>7. Existing \ {Null} = Existing \ {i}
  BY <1>4, SessionAssumption DEF Existing
<1>8. SlackInv([sessions EXCEPT ![i] = r], now)
  BY <1>3, <1>4, <1>5, <1>6, <1>7, AllowedSlack
<1>9. QED
  BY <1>4, <1>5, <1>8

LEMMA ChangeSlack ==
  ASSUME NEW i \in Existing, NEW from \in Typed, NEW to \in Typed \cup {Open}
  PROVE  AllInv /\ ChangeSession(i, from, to) => SlackInv(sessions', now')
<1> SUFFICES ASSUME AllInv, ChangeSession(i, from, to) PROVE SlackInv(sessions', now')
  OBVIOUS
<1> DEFINE start == SnappedStart(i, from)
           end   == SnappedEnd(i, to)
           r     == [sessions[i] EXCEPT !.start = start, !.end = end]
<1>1. now \in Nat /\ Sessions(sessions)
  BY DEF AllInv, Inv, IInv
<1>2. start \in Int /\ end \in Int \cup {Open}
  BY <1>1, SnappedTimes
<1>3. sessions' = [sessions EXCEPT ![i] = r] /\ now' = now /\ Allowed(i, start, end)
  BY DEF ChangeSession
<1> HIDE DEF start, end
<1>4. sessions[i] \in SessionRecord /\ i \in Session
  BY <1>1 DEF Sessions, Existing
<1>5. r \in SessionRecord /\ r.start = start /\ r.end = end
  BY <1>2, <1>4 DEF SessionRecord
<1> HIDE DEF r
<1>6. r.end = Open => IsOpen(sessions, i)
  BY <1>3, <1>5 DEF Allowed, EndsAfterStart, IsOpen, Existing
<1>7. QED
  BY <1>3, <1>4, <1>5, <1>6, AllowedSlack

LEMMA RemoveSlack ==
  ASSUME NEW i \in Existing PROVE AllInv /\ RemoveSession(i) => SlackInv(sessions', now')
<1> SUFFICES ASSUME AllInv, RemoveSession(i) PROVE SlackInv(sessions', now')
  OBVIOUS
<1>1. Sessions(sessions) /\ i \in Session /\ now' = now /\ sessions' = [sessions EXCEPT ![i] = Null]
  BY DEF AllInv, Inv, IInv, Existing, RemoveSession
<1>2. sessions'[i] = Null /\ \A j \in Session \ {i} : sessions'[j] = sessions[j]
  BY <1>1 DEF Sessions
<1>3. QED
  BY <1>1, <1>2 DEF AllInv, SlackInv

LEMMA NextSlack == AllInv /\ [Next]_vars => AllInv'
<1> SUFFICES ASSUME AllInv, [Next]_vars PROVE SlackInv(sessions', now')
  BY NextInv DEF AllInv
<1>1. CASE Tick
  BY <1>1, TickSlack
<1>2. CASE \E t \in Task : StartTracking(t) \/ StopTracking(t)
  BY <1>2, StartSlack, StopSlack
<1>3. CASE \E t \in Task : CompleteTask(t) \/ ReopenTask(t)
  BY <1>3, CompleteSlack DEF ReopenTask, AllInv
<1>4. CASE \E t \in Task, at \in Patched : PatchDone(t, at)
  BY <1>4, PatchSlack
<1>5. CASE \E t \in Task, from, to \in Typed : AddSession(t, from, to)
  BY <1>5, AddSlack
<1>6. CASE \E i \in Existing, from \in Typed, to \in Typed \cup {Open} : ChangeSession(i, from, to)
  BY <1>6, ChangeSlack
<1>7. CASE \E i \in Existing : RemoveSession(i)
  BY <1>7, RemoveSlack
<1>8. CASE UNCHANGED vars
  BY <1>8 DEF vars, AllInv
<1>9. QED
  BY <1>1, <1>2, <1>3, <1>4, <1>5, <1>6, <1>7, <1>8 DEF Next

-----------------------------------------------------------------------------
(* The theorem.                                                            *)

\* With any client, however its clock is set and whatever it corrects, no two
\* sessions overlap by more than the slack check gives its clock, or by more
\* than a PATCH of completed_at may be ahead (sessions.py, completion.py).
THEOREM OverlapBounded == Spec => []OverlapWithinSlack
<1>1. Init => AllInv
  BY InitInv DEF Init, AllInv, SlackInv
<1>2. ASSUME AllInv, NEW i \in Existing, NEW j \in Existing, i # j PROVE Overlap(i, j) <= Slack
  <2> DEFINE ui == Until(i)
             uj == Until(j)
             si == sessions[i].start
             sj == sessions[j].start
  <2>1. now \in Int /\ sessions[i] \in SessionRecord /\ sessions[j] \in SessionRecord
    BY <1>2 DEF AllInv, Inv, IInv, Sessions, Existing
  <2>2. ui \in Int /\ uj \in Int /\ si \in Int /\ sj \in Int
    BY <2>1 DEF SessionRecord, Until
  <2>3. Common(sessions[i], sessions[j])
    BY <1>2 DEF AllInv, SlackInv, Existing
  <2>4. \/ ui <= si + Slack \/ ui <= sj + Slack
        \/ uj <= si + Slack \/ uj <= sj + Slack
    BY <2>3 DEF Common, EndsBy, Until
  <2> HIDE DEF ui, uj, si, sj
  <2>5. Min({ui, uj}) <= ui /\ Min({ui, uj}) <= uj /\ Min({ui, uj}) \in Int
    BY <2>2, MinOfTwo
  <2>6. Max({si, sj}) >= si /\ Max({si, sj}) >= sj /\ Max({si, sj}) \in Int
    BY <2>2, MaxOfTwo
  <2>7. Min({ui, uj}) - Max({si, sj}) <= Slack
    BY <2>2, <2>4, <2>5, <2>6, SlackIsNat
  <2>8. QED
    BY <2>7 DEF Overlap, ui, uj, si, sj
<1>3. AllInv => OverlapWithinSlack
  BY <1>2 DEF OverlapWithinSlack, Slack
<1>4. QED
  BY <1>1, <1>3, NextSlack, PTL DEF Spec

-----------------------------------------------------------------------------
(* Time booked.                                                            *)

\* The sessions of the task t, and the time booked for those of ss.
Of(ss, t) == {i \in Session : ss[i] # Null /\ ss[i].task = t}

TimeOf(ss, t) == SumFunctionOnSet([i \in Session |-> Booked(ss[i])], Of(ss, t))

LEMMA SessionTimeIs == \A t : SessionTime(t) = TimeOf(sessions, t)
<1> TAKE t
<1> DEFINE f == [i \in Session |-> Booked(sessions[i])]
           S == {i \in Existing : sessions[i].task = t}
           some(s) == CHOOSE x \in s : TRUE
           F(sum) == [s \in SUBSET S |-> IF s = {} THEN 0
                                         ELSE f[some(s)] + sum[s \ {some(s)}]]
           G(sum) == [s \in SUBSET S |-> IF s = {} THEN 0
                                         ELSE Booked(sessions[some(s)]) + sum[s \ {some(s)}]]
           sumF == CHOOSE sum : sum = F(sum)
           sumG == CHOOSE sum : sum = G(sum)
<1>1. SumFunctionOnSet(f, S) = sumF[S]
  BY DEF SumFunctionOnSet, FoldFunctionOnSet, MapThenFoldSet
<1>2. SessionTime(t) = sumG[S]
  BY DEF SessionTime, MapThenSumSet, MapThenFoldSet
<1>3. \A sum : F(sum) = G(sum)
  <2>1. ASSUME NEW s \in SUBSET S, s # {} PROVE f[some(s)] = Booked(sessions[some(s)])
    <3>1. some(s) \in Session
      BY <2>1 DEF Existing
    <3>2. QED
      BY <3>1
  <2>2. QED
    BY <2>1
<1>4. Of(sessions, t) = S
  BY DEF Of, Existing
<1> HIDE DEF F, G, f, S
<1>5. sumF = sumG
  BY <1>3
<1>6. SumFunctionOnSet(f, S) = SessionTime(t)
  BY <1>1, <1>2, <1>5
<1>7. TimeOf(sessions, t) = SumFunctionOnSet(f, S)
  BY <1>4 DEF TimeOf, f
<1>8. QED
  BY <1>6, <1>7

\* A part of the time of t.
Part(r, t) == IF r # Null /\ r.task = t THEN Booked(r) ELSE 0

FinitelyMany(ss) == IsFiniteSet({i \in Session : ss[i] # Null})

LEMMA BookedIsInt == \A r \in SessionRecord \cup {Null} : Booked(r) \in Int
BY DEF Booked, SessionRecord

LEMMA TimeIsInt ==
  ASSUME NEW ss, Sessions(ss), FinitelyMany(ss), NEW t
  PROVE  TimeOf(ss, t) \in Int /\ IsFiniteSet(Of(ss, t))
<1> DEFINE f == [i \in Session |-> Booked(ss[i])]
<1>1. IsFiniteSet(Of(ss, t))
  BY FS_Subset DEF FinitelyMany, Of
<1>2. \A i \in Of(ss, t) : f[i] \in Int
  BY BookedIsInt DEF Of, Sessions
<1> HIDE DEF f
<1>3. SumFunctionOnSet(f, Of(ss, t)) \in Int
  BY <1>1, <1>2, SumTakesOut
<1>4. QED
  BY <1>1, <1>3 DEF TimeOf, f

\* The time of a task is that of one session and that of the others.
LEMMA TimeWithout ==
  ASSUME NEW ss, Sessions(ss), FinitelyMany(ss), NEW t, NEW i \in Session
  PROVE  LET rest == SumFunctionOnSet([j \in Session |-> Booked(ss[j])], Of(ss, t) \ {i})
         IN  rest \in Int /\ TimeOf(ss, t) = Part(ss[i], t) + rest
<1> DEFINE f == [j \in Session |-> Booked(ss[j])]
           rest == SumFunctionOnSet(f, Of(ss, t) \ {i})
<1>1. IsFiniteSet(Of(ss, t)) /\ IsFiniteSet(Of(ss, t) \ {i}) /\ TimeOf(ss, t) \in Int
  BY TimeIsInt, FS_Subset
<1>2. \A j \in Of(ss, t) : f[j] \in Int
  BY BookedIsInt DEF Of, Sessions
<1>3. f[i] = Booked(ss[i])
  OBVIOUS
<1>4. TimeOf(ss, t) = SumFunctionOnSet(f, Of(ss, t))
  BY DEF TimeOf
<1> HIDE DEF f
<1>5. rest \in Int
  BY <1>1, <1>2, SumTakesOut
<1>6. CASE i \in Of(ss, t)
  <2>1. TimeOf(ss, t) = f[i] + rest
    BY <1>1, <1>2, <1>4, <1>6, SumTakesOut
  <2>2. f[i] = Part(ss[i], t)
    BY <1>3, <1>6 DEF Part, Of
  <2>3. QED
    BY <1>5, <2>1, <2>2 DEF f
<1>7. CASE i \notin Of(ss, t)
  <2>1. Of(ss, t) \ {i} = Of(ss, t)
    BY <1>7
  <2>2. Part(ss[i], t) = 0
    BY <1>7 DEF Part, Of
  <2>3. TimeOf(ss, t) = rest
    BY <1>4, <2>1
  <2>4. QED
    BY <1>1, <2>2, <2>3, <1>5 DEF f
<1>8. QED
  BY <1>6, <1>7

\* Where one session changes, the time of each task changes by its part.
LEMMA TimeChanges ==
  ASSUME NEW ss, NEW rs, Sessions(ss), Sessions(rs), FinitelyMany(ss), NEW i \in Session,
         \A j \in Session \ {i} : rs[j] = ss[j]
  PROVE  /\ FinitelyMany(rs)
         /\ \A t : TimeOf(rs, t) = TimeOf(ss, t) + (Part(rs[i], t) - Part(ss[i], t))
<1>1. FinitelyMany(rs)
  <2>1. {j \in Session : rs[j] # Null} \subseteq {j \in Session : ss[j] # Null} \cup {i}
    OBVIOUS
  <2>2. IsFiniteSet({j \in Session : ss[j] # Null} \cup {i})
    BY FS_AddElement DEF FinitelyMany
  <2>3. QED
    BY <2>1, <2>2, FS_Subset DEF FinitelyMany
<1>2. ASSUME NEW t PROVE TimeOf(rs, t) = TimeOf(ss, t) + (Part(rs[i], t) - Part(ss[i], t))
  <2> DEFINE f == [j \in Session |-> Booked(ss[j])]
             g == [j \in Session |-> Booked(rs[j])]
             rest == SumFunctionOnSet(f, Of(ss, t) \ {i})
  <2>1. rest \in Int /\ TimeOf(ss, t) = Part(ss[i], t) + rest
    BY TimeWithout
  <2>2. TimeOf(rs, t) = Part(rs[i], t) + SumFunctionOnSet(g, Of(rs, t) \ {i})
    BY <1>1, TimeWithout
  <2>3. Of(rs, t) \ {i} = Of(ss, t) \ {i}
    BY DEF Of
  <2>4. \A j \in Of(ss, t) \ {i} : g[j] = f[j]
    BY DEF Of
  <2> HIDE DEF f, g
  <2>5. SumFunctionOnSet(g, Of(ss, t) \ {i}) = rest
    BY <2>4, SumAgrees
  <2>6. Part(rs[i], t) \in Int /\ Part(ss[i], t) \in Int
    BY BookedIsInt DEF Part, Sessions
  <2> HIDE DEF rest
  <2>7. TimeOf(rs, t) = Part(rs[i], t) + rest
    BY <2>2, <2>3, <2>5
  <2>8. QED
    BY <2>1, <2>6, <2>7
<1>3. QED
  BY <1>1, <1>2

\* No time is booked below zero.
LEMMA TimeIsNotNegative ==
  ASSUME NEW ss, Sessions(ss), FinitelyMany(ss),
         \A i \in Session : Booked(ss[i]) >= 0, NEW t
  PROVE  TimeOf(ss, t) >= 0
<1> DEFINE f == [i \in Session |-> Booked(ss[i])]
           S == Of(ss, t)
           Bad == {Cardinality(s) : s \in {u \in SUBSET S : ~ (SumFunctionOnSet(f, u) >= 0)}}
<1>1. \A i \in S : f[i] \in Int /\ f[i] >= 0
  BY BookedIsInt DEF Of, Sessions
<1>2. IsFiniteSet(S)
  BY TimeIsInt
<1> HIDE DEF f, S
<1>3. \A s \in SUBSET S : IsFiniteSet(s) /\ Cardinality(s) \in Nat
  BY <1>2, FS_Subset, FS_CardinalityType
<1>4. Bad \subseteq Nat
  BY <1>3
<1>5. ASSUME Bad # {} PROVE FALSE
  <2>1. PICK m \in Bad : \A n \in Bad : m <= n
    BY <1>4, <1>5, LeastNat
  <2>2. PICK s \in SUBSET S : Cardinality(s) = m /\ ~ (SumFunctionOnSet(f, s) >= 0)
    BY <2>1
  <2>3. PICK x \in s : TRUE
    BY <2>2, SumOverEmpty
  <2>4. Cardinality(s \ {x}) = Cardinality(s) - 1
    BY <1>3, <2>3, FS_RemoveElement
  <2>5. Cardinality(s \ {x}) \notin Bad
    BY <1>3, <2>1, <2>2, <2>4
  <2>6. SumFunctionOnSet(f, s \ {x}) >= 0
    BY <2>5
  <2>7. SumFunctionOnSet(f, s) = f[x] + SumFunctionOnSet(f, s \ {x})
    BY <1>1, <1>3, <2>3, SumTakesOut
  <2>8. SumFunctionOnSet(f, s \ {x}) \in Int
    BY <1>1, <1>3, SumTakesOut
  <2>9. QED
    BY <1>1, <2>2, <2>3, <2>6, <2>7, <2>8
<1>6. SumFunctionOnSet(f, S) >= 0
  BY <1>5
<1>7. QED
  BY <1>6 DEF TimeOf, f, S

-----------------------------------------------------------------------------
(* Tracked time and sessions: what every step does to both.                *)

\* The tracked times sp are at least the time booked for ss, and just that one
\* where clients are safe.
SpentOf(ss, sp) ==
  /\ FinitelyMany(ss)
  /\ sp \in [Task -> Int]
  /\ \A t \in Task : /\ sp[t] >= TimeOf(ss, t)
                     /\ SafeClients => sp[t] = TimeOf(ss, t)

SpentInv == SpentOf(sessions, spent)

\* Ending the running session of some tasks books it.
LEMMA EndSpent ==
  ASSUME Inv, SpentInv, NEW T \in SUBSET Task, NEW at \in Int
  PROVE  /\ FirstRunning(T) = Running(T) /\ RunningOf(T) = Running(T)
         /\ Sessions(Ended(Running(T), at))
         /\ SpentOf(Ended(Running(T), at), SpentWith(Running(T), at))
<1> DEFINE es == Ended(Running(T), at)
           sp == SpentWith(Running(T), at)
<1>1. Sessions(sessions) /\ Single(sessions)
  BY DEF Inv, IInv
<1>2. /\ FirstRunning(T) = Running(T) /\ RunningOf(T) = Running(T)
      /\ Running(T) = {i \in Session : IsOpen(sessions, i) /\ sessions[i].task \in T}
  BY <1>1, RunningSessions
<1>3. Sessions(es)
  <2>1. Ended(Running(T), at) = EndedIn(sessions, Running(T), at)
    BY DEF Ended, EndedIn
  <2>2. QED
    BY <1>1, <1>2, <2>1, EndedFields
<1>4. CASE Running(T) = {}
  <2>1. es = sessions
    BY <1>1, <1>4 DEF Ended, Sessions
  <2>2. sp = spent
    BY <1>4 DEF SpentWith, SpentInv, SpentOf
  <2>3. QED
    BY <1>2, <1>3, <2>1, <2>2 DEF SpentInv
<1>5. CASE Running(T) # {}
  <2>1. PICK i \in Running(T) : TRUE
    BY <1>5
  <2>2. Running(T) = {i} /\ i \in Session /\ IsOpen(sessions, i)
    BY <1>1, <1>2, <2>1 DEF Single
  <2> DEFINE r == sessions[i]
             e == es[i]
  <2>3. /\ r \in SessionRecord /\ r # Null /\ r.end = Open
        /\ r.start \in Int /\ r.task \in Task
    BY <1>1, <2>2 DEF Sessions, SessionRecord, IsOpen
  <2>4. e # Null /\ e.end = at /\ e.start = r.start /\ e.task = r.task
    <3>1. e = [sessions[i] EXCEPT !.end = at]
      BY <2>2 DEF Ended
    <3>2. e \in SessionRecord
      BY <2>3, <3>1 DEF SessionRecord
    <3>3. QED
      BY <2>3, <3>1, <3>2, NullIsNone DEF SessionRecord
  <2>5. \A j \in Session \ {i} : es[j] = sessions[j]
    BY <2>2 DEF Ended
  <2>6. \A t \in Task : sp[t] = IF r.task = t THEN spent[t] + (at - r.start) ELSE spent[t]
    BY <2>2 DEF SpentWith
  <2>7. sp = [t \in Task |-> sp[t]] /\ FinitelyMany(sessions)
    BY DEF SpentWith, SpentInv, SpentOf
  <2> HIDE DEF sp, es
  <2>8. /\ FinitelyMany(es)
        /\ \A t : TimeOf(es, t) = TimeOf(sessions, t) + (Part(es[i], t) - Part(sessions[i], t))
    BY <1>1, <1>3, <2>2, <2>5, <2>7, TimeChanges
  <2>9. \A t : Part(es[i], t) - Part(sessions[i], t) = IF r.task = t THEN at - r.start ELSE 0
    <3>1. at # Open
      BY NullIsNone
    <3>2. \A t : Part(sessions[i], t) = 0
      BY <2>3 DEF Part, Booked
    <3>3. \A t : Part(es[i], t) = IF r.task = t THEN at - r.start ELSE 0
      BY <2>4, <3>1 DEF Part, Booked
    <3>4. at - r.start \in Int
      BY <2>3
    <3> HIDE DEF r
    <3>5. QED
      BY <3>2, <3>3, <3>4
  <2>10. \A t \in Task : spent[t] \in Int /\ TimeOf(sessions, t) \in Int
    BY <1>1, TimeIsInt DEF SpentInv, SpentOf
  <2>11. ASSUME NEW t \in Task
         PROVE  /\ sp[t] \in Int
                /\ sp[t] >= TimeOf(es, t)
                /\ SafeClients => sp[t] = TimeOf(es, t)
    <3> DEFINE d == IF r.task = t THEN at - r.start ELSE 0
    <3>1. d \in Int
      BY <2>3
    <3>2. sp[t] = spent[t] + d
      BY <2>6, <2>10
    <3>3. TimeOf(es, t) = TimeOf(sessions, t) + d
      BY <2>8, <2>9
    <3>4. spent[t] >= TimeOf(sessions, t) /\ (SafeClients => spent[t] = TimeOf(sessions, t))
      BY DEF SpentInv, SpentOf
    <3> HIDE DEF d
    <3>5. QED
      BY <2>10, <3>1, <3>2, <3>3, <3>4
  <2>12. SpentOf(es, sp)
    BY <2>7, <2>8, <2>11 DEF SpentOf
  <2>13. QED
    BY <1>2, <1>3, <2>12 DEF sp, es
<1>6. QED
  BY <1>4, <1>5

\* A correction books the difference, but no more than was booked.
LEMMA BookSpent ==
  ASSUME Inv, SpentInv, NEW i \in Session, NEW t \in Task, NEW change \in Int,
         NEW rs, Sessions(rs), \A j \in Session \ {i} : rs[j] = sessions[j],
         \A u : Part(rs[i], u) - Part(sessions[i], u) = IF u = t THEN change ELSE 0,
         SafeClients => \A j \in Session : Booked(rs[j]) >= 0,
         Book(t, change)
  PROVE  SpentOf(rs, spent')
<1>1. Sessions(sessions) /\ FinitelyMany(sessions) /\ spent \in [Task -> Int]
  BY DEF Inv, IInv, SpentInv, SpentOf
<1>2. /\ FinitelyMany(rs)
      /\ \A u : TimeOf(rs, u) = TimeOf(sessions, u) + (IF u = t THEN change ELSE 0)
  BY <1>1, TimeChanges
<1>3. \A u : TimeOf(sessions, u) \in Int /\ TimeOf(rs, u) \in Int
  BY <1>1, <1>2, TimeIsInt
<1> DEFINE m == Max({0, spent[t] + change})
<1>4. spent' = [spent EXCEPT ![t] = m]
  BY DEF Book
<1>5. spent[t] + change \in Int
  BY <1>1
<1>6. m \in {0, spent[t] + change} /\ m >= 0 /\ m >= spent[t] + change
  <2> DEFINE c == spent[t] + change
  <2>1. c \in Int /\ 0 \in Int
    BY <1>5
  <2> HIDE DEF c
  <2>2. Max({0, c}) \in {0, c} /\ Max({0, c}) >= 0 /\ Max({0, c}) >= c
    BY <2>1, MaxOfTwo
  <2>3. QED
    BY <2>2 DEF c
<1> HIDE DEF m
<1>7. spent' \in [Task -> Int] /\ spent'[t] = m /\ \A u \in Task \ {t} : spent'[u] = spent[u]
  BY <1>1, <1>4, <1>5, <1>6
<1>8. \A u \in Task : spent[u] >= TimeOf(sessions, u) /\ (SafeClients => spent[u] = TimeOf(sessions, u))
  BY DEF SpentInv, SpentOf
<1>9. spent'[t] >= TimeOf(rs, t) /\ (SafeClients => spent'[t] = TimeOf(rs, t))
  <2>1. TimeOf(rs, t) = TimeOf(sessions, t) + change
    BY <1>2
  <2>2. SafeClients => TimeOf(rs, t) >= 0
    BY <1>2, TimeIsNotNegative
  <2>3. QED
    BY <1>1, <1>3, <1>5, <1>6, <1>7, <1>8, <2>1, <2>2
<1>10. \A u \in Task \ {t} : TimeOf(rs, u) = TimeOf(sessions, u)
  BY <1>2, <1>3
<1>11. QED
  BY <1>2, <1>7, <1>8, <1>9, <1>10 DEF SpentOf

\* Safe clients book no time below zero.
LEMMA BookedNotNegative ==
  ASSUME NEW ss, NEW n, Sessions(ss), Timely(ss, n)
  PROVE  \A j \in Session : Booked(ss[j]) >= 0
<1> SUFFICES ASSUME NEW j \in Session, ss[j] # Null, ss[j].end # Open
             PROVE  ss[j].end - ss[j].start >= 0
  BY DEF Booked
<1>1. ss[j].start \in Int /\ ss[j].end \in Int
  BY DEF Sessions, SessionRecord
<1>2. ss[j].start <= ss[j].end
  BY DEF Timely, TimelyOne
<1>3. QED
  BY <1>1, <1>2

\* Starting ends what runs and opens a session, for which nothing is booked yet.
LEMMA StartSpent ==
  ASSUME Inv, SpentInv, NEW t \in Task, StartTracking(t) PROVE SpentInv'
<1> DEFINE es == Ended(Running(Task), now)
           r == [task |-> t, start |-> now, end |-> Open]
<1>1. now \in Int
  BY DEF Inv, IInv
<1>2. FirstRunning(Task) = Running(Task) /\ Sessions(es) /\ SpentOf(es, SpentWith(Running(Task), now))
  BY <1>1, EndSpent
<1>3. PICK i \in Session \ Existing : sessions' = [es EXCEPT ![i] = r]
  BY <1>2 DEF StartTracking
<1>4. spent' = SpentWith(Running(Task), now)
  BY <1>2 DEF StartTracking
<1>5. es[i] = Null
  <2>1. i \notin Running(Task) /\ sessions[i] = Null /\ i \in Session
    BY <1>3 DEF Running, Existing
  <2>2. QED
    BY <2>1 DEF Ended
<1>6. Sessions(sessions')
  BY NextInv DEF Inv, IInv, Next
<1> HIDE DEF es
<1>7. /\ sessions'[i] = r /\ \A j \in Session \ {i} : sessions'[j] = es[j]
  BY <1>2, <1>3 DEF Sessions
<1>8. \A u : Part(sessions'[i], u) = 0 /\ Part(es[i], u) = 0
  BY <1>5, <1>7 DEF Part, Booked
<1>9. FinitelyMany(es) /\ Sessions(es) /\ i \in Session
  BY <1>2, <1>3 DEF SpentOf
<1>10. /\ FinitelyMany(sessions')
      /\ \A u : TimeOf(sessions', u) = TimeOf(es, u) + (Part(sessions'[i], u) - Part(es[i], u))
  BY <1>6, <1>7, <1>9, TimeChanges
<1>11. \A u : TimeOf(sessions', u) = TimeOf(es, u)
  BY <1>2, <1>8, <1>10, TimeIsInt DEF SpentOf
<1>12. SpentOf(sessions', spent')
  BY <1>2, <1>4, <1>10, <1>11 DEF SpentOf
<1>13. QED
  BY <1>12 DEF SpentInv

LEMMA EndingSpent ==
  ASSUME Inv, SpentInv, NEW t \in Task, NEW at \in Patched,
         StopTracking(t) \/ CompleteTask(t) \/ PatchDone(t, at)
  PROVE  SpentInv'
<1>1. now \in Int /\ at \in Int
  BY DEF Inv, IInv, Patched
<1>2. \A x \in Task : FinishedAncestors(Parent, done, x) \in SUBSET Task
  BY DEF FinishedAncestors, Ancestors
<1>3. PICK T \in SUBSET Task, m \in {now, at} :
        sessions' = Ended(Running(T), m) /\ spent' = SpentWith(Running(T), m)
  <2>1. CASE StopTracking(t)
    BY <1>1, <2>1, EndSpent DEF StopTracking
  <2>2. CASE CompleteTask(t)
    <3>1. {t} \cup FinishedAncestors(Parent, done, t) \in SUBSET Task
      BY <1>2
    <3>2. QED
      BY <1>1, <2>2, <3>1, EndSpent DEF CompleteTask, Finish
  <2>3. CASE PatchDone(t, at)
    BY <1>1, <1>2, <2>3, EndSpent DEF PatchDone, Finish
  <2>4. QED
    BY <2>1, <2>2, <2>3
<1>4. QED
  BY <1>1, <1>3, EndSpent DEF SpentInv

LEMMA AddSpent ==
  ASSUME Inv, SpentInv, NEW t \in Task, NEW from \in Typed, NEW to \in Typed,
         AddSession(t, from, to)
  PROVE  SpentInv'
<1> DEFINE start == SnappedStart(Null, from)
           end   == SnappedEnd(Null, to)
           r     == [task |-> t, start |-> start, end |-> end]
<1>1. now \in Nat /\ Sessions(sessions)
  BY DEF Inv, IInv
<1>2. start \in Int /\ end \in Int /\ end # Open
  <2>1. to # Open
    BY <1>1, NullIsNone, ClockAssumption DEF Typed
  <2>2. QED
    BY <1>1, <2>1, SnappedTimes
<1>3. PICK i \in Session \ Existing : sessions' = [sessions EXCEPT ![i] = r]
  BY DEF AddSession
<1>4. Book(t, end - start)
  BY DEF AddSession
<1>5. Inv'
  BY NextInv DEF Next
<1> HIDE DEF start, end
<1>6. /\ sessions'[i] = r /\ sessions[i] = Null
      /\ \A j \in Session \ {i} : sessions'[j] = sessions[j]
  BY <1>1, <1>3 DEF Sessions, Existing
<1>7. \A u : Part(sessions'[i], u) - Part(sessions[i], u) = IF u = t THEN end - start ELSE 0
  <2>1. r # Null /\ r.task = t /\ r.start = start /\ r.end = end
    BY <1>2, NullIsNone DEF SessionRecord
  <2> HIDE DEF r
  <2>2. \A u : Part(sessions[i], u) = 0
    BY <1>6 DEF Part
  <2>3. \A u : Part(sessions'[i], u) = IF u = t THEN end - start ELSE 0
    BY <1>2, <1>6, <2>1 DEF Part, Booked
  <2>4. end - start \in Int
    BY <1>2
  <2>5. QED
    BY <2>2, <2>3, <2>4
<1>8. SafeClients => \A j \in Session : Booked(sessions'[j]) >= 0
  BY <1>5, BookedNotNegative DEF Inv, IInv
<1>9. Sessions(sessions') /\ end - start \in Int
  BY <1>2, <1>5 DEF Inv, IInv
<1>10. SpentOf(sessions', spent')
  BY <1>3, <1>4, <1>6, <1>7, <1>8, <1>9, BookSpent
<1>11. QED
  BY <1>10 DEF SpentInv

\* The session i becomes r, or none, for the same task.
LEMMA ReplaceSpent ==
  ASSUME Inv, SpentInv, Inv', NEW i \in Existing, NEW r \in SessionRecord \cup {Null},
         r = Null \/ r.task = sessions[i].task,
         sessions' = [sessions EXCEPT ![i] = r],
         Book(sessions[i].task, Booked(r) - Booked(sessions[i]))
  PROVE  SpentInv'
<1>1. /\ Sessions(sessions) /\ i \in Session /\ sessions[i] # Null
      /\ sessions[i] \in SessionRecord /\ sessions[i].task \in Task
  BY DEF Inv, IInv, Sessions, SessionRecord, Existing
<1>2. sessions'[i] = r /\ \A j \in Session \ {i} : sessions'[j] = sessions[j]
  BY <1>1 DEF Sessions
<1>3. Booked(r) \in Int /\ Booked(sessions[i]) \in Int
  BY <1>1, BookedIsInt
<1>4. \A u : Part(sessions'[i], u) - Part(sessions[i], u)
               = IF u = sessions[i].task THEN Booked(r) - Booked(sessions[i]) ELSE 0
  <2>1. r = Null => Booked(r) = 0
    BY DEF Booked
  <2>2. QED
    BY <1>1, <1>2, <1>3, <2>1 DEF Part
<1>5. SafeClients => \A j \in Session : Booked(sessions'[j]) >= 0
  BY BookedNotNegative DEF Inv, IInv
<1>6. Sessions(sessions') /\ Booked(r) - Booked(sessions[i]) \in Int
  BY <1>3 DEF Inv, IInv
<1>7. SpentOf(sessions', spent')
  BY <1>1, <1>2, <1>4, <1>5, <1>6, BookSpent
<1>8. QED
  BY <1>7 DEF SpentInv

LEMMA ChangeSpent ==
  ASSUME Inv, SpentInv, NEW i \in Existing, NEW from \in Typed, NEW to \in Typed \cup {Open},
         ChangeSession(i, from, to)
  PROVE  SpentInv'
<1> DEFINE start == SnappedStart(i, from)
           end   == SnappedEnd(i, to)
           r     == [sessions[i] EXCEPT !.start = start, !.end = end]
<1>1. start \in Int /\ end \in Int \cup {Open}
  BY SnappedTimes DEF Inv, IInv
<1>2. sessions[i] \in SessionRecord
  BY DEF Inv, IInv, Sessions, Existing
<1>3. /\ sessions' = [sessions EXCEPT ![i] = r]
      /\ Book(sessions[i].task, Booked(r) - Booked(sessions[i]))
  BY DEF ChangeSession
<1>4. Inv'
  BY NextInv DEF Next
<1> HIDE DEF start, end
<1>5. r \in SessionRecord /\ r.task = sessions[i].task
  BY <1>1, <1>2 DEF SessionRecord
<1> HIDE DEF r
<1>6. QED
  BY <1>3, <1>4, <1>5, ReplaceSpent

LEMMA RemoveSpent ==
  ASSUME Inv, SpentInv, NEW i \in Existing, RemoveSession(i) PROVE SpentInv'
<1>1. /\ sessions' = [sessions EXCEPT ![i] = Null]
      /\ Book(sessions[i].task, - Booked(sessions[i]))
  BY DEF RemoveSession
<1>2. - Booked(sessions[i]) = Booked(Null) - Booked(sessions[i])
  <2>1. Booked(sessions[i]) \in Int
    BY BookedIsInt DEF Inv, IInv, Sessions, Existing
  <2>2. Booked(Null) = 0
    BY DEF Booked
  <2>3. QED
    BY <2>1, <2>2
<1>3. Inv'
  BY NextInv DEF Next
<1>4. QED
  BY <1>1, <1>2, <1>3, ReplaceSpent

LEMMA NextSpent == Inv /\ SpentInv /\ [Next]_vars => SpentInv'
<1> SUFFICES ASSUME Inv, SpentInv, [Next]_vars PROVE SpentInv'
  OBVIOUS
<1>1. CASE Tick \/ (\E t \in Task : ReopenTask(t)) \/ UNCHANGED vars
  <2>1. sessions' = sessions /\ spent' = spent
    BY <1>1 DEF Tick, ReopenTask, vars
  <2>2. QED
    BY <2>1 DEF SpentInv
<1>2. CASE \E t \in Task : StartTracking(t)
  BY <1>2, StartSpent
<1>3. CASE \E t \in Task : StopTracking(t) \/ CompleteTask(t)
  <2>1. 0 \in Patched
    BY ClockAssumption DEF Patched, Inv, IInv
  <2>2. QED
    BY <1>3, <2>1, EndingSpent
<1>4. CASE \E t \in Task, at \in Patched : PatchDone(t, at)
  BY <1>4, EndingSpent
<1>5. CASE \E t \in Task, from, to \in Typed : AddSession(t, from, to)
  BY <1>5, AddSpent
<1>6. CASE \E i \in Existing, from \in Typed, to \in Typed \cup {Open} : ChangeSession(i, from, to)
  BY <1>6, ChangeSpent
<1>7. CASE \E i \in Existing : RemoveSession(i)
  BY <1>7, RemoveSpent
<1>8. QED
  BY <1>1, <1>2, <1>3, <1>4, <1>5, <1>6, <1>7 DEF Next

LEMMA InitSpent == Init => SpentInv
<1> SUFFICES ASSUME Init PROVE SpentInv
  OBVIOUS
<1>1. FinitelyMany(sessions)
  <2>1. {i \in Session : sessions[i] # Null} = {}
    BY DEF Init
  <2>2. QED
    BY <2>1, FS_EmptySet DEF FinitelyMany
<1>2. ASSUME NEW t \in Task PROVE TimeOf(sessions, t) = 0
  <2>1. Of(sessions, t) = {}
    BY DEF Init, Of
  <2>2. QED
    BY <2>1, SumOverEmpty DEF TimeOf
<1>3. spent = [t \in Task |-> 0]
  BY DEF Init
<1>4. QED
  BY <1>1, <1>2, <1>3 DEF SpentInv, SpentOf

LEMMA SpecSpent == Spec => []SpentInv
BY InitInv, NextInv, InitSpent, NextSpent, PTL DEF Spec

\* The time tracked on a task is never less than the time of its sessions,
\* whatever clients send: no start, stop, completion or correction of a session
\* loses booked time (tracking.py, sessions.py).
THEOREM CoversSessions == Spec => []SpentCoversSessions
<1>1. SpentInv => SpentCoversSessions
  BY SessionTimeIs DEF SpentInv, SpentOf, SpentCoversSessions
<1>2. QED
  BY <1>1, SpecSpent, PTL

\* It is just that time where clients' clocks are no further than the server's:
\* a session ended early by a correction is never booked below zero (_book).
THEOREM IsBooked == ASSUME SafeClients PROVE Spec => []SpentIsBooked
<1>1. SpentInv => SpentIsBooked
  BY SessionTimeIs DEF SpentInv, SpentOf, SpentIsBooked
<1>2. QED
  BY <1>1, SpecSpent, PTL

-----------------------------------------------------------------------------
(* Completion figures.                                                     *)

\* The figures of a task follow from the time tracked on it and below it.
LEMMA SnapshotAgrees ==
  ASSUME NEW f, NEW g, NEW t, \A x \in Below(Parent, t) \cup {t} : f[x] = g[x]
  PROVE  Snapshot(f, t) = Snapshot(g, t)
<1>1. SubtreeSpent(f, t) = SubtreeSpent(g, t)
  BY SumAgrees DEF SubtreeSpent
<1>2. QED
  BY <1>1 DEF Snapshot

FiguresOf(fg, sp, dn) == \A t \in dn : fg[t] = Snapshot(sp, t)

\* With the figures, what is below a completed task is completed, so that no
\* time is booked there without a correction.
FInv ==
  /\ spent = [t \in Task |-> spent[t]]
  /\ DownClosed(Parent, done)
  /\ FiguresOf(figures, spent, done)

\* Time that is booked on open tasks leaves the figures of the others true.
LEMMA OpenTimeKeeps ==
  ASSUME NEW fg, NEW sp, NEW sq, NEW dn, DownClosed(Parent, dn), FiguresOf(fg, sp, dn),
         \A x \in dn : sq[x] = sp[x]
  PROVE  FiguresOf(fg, sq, dn)
<1>1. ASSUME NEW t \in dn PROVE Snapshot(sq, t) = Snapshot(sp, t)
  <2>1. \A x \in Below(Parent, t) \cup {t} : sq[x] = sp[x]
    BY DEF DownClosed
  <2>2. QED
    BY <2>1, SnapshotAgrees
<1>2. QED
  BY <1>1 DEF FiguresOf

\* Ending running sessions books time on open tasks only.
LEMMA RunningIsOpen ==
  ASSUME Inv, FInv, ~ PatchedDone, NEW T \in SUBSET Task
  PROVE  /\ FirstRunning(T) = Running(T) /\ RunningOf(T) = Running(T)
         /\ \A x \in done : SpentWith(Running(T), now)[x] = spent[x]
<1>1. Sessions(sessions) /\ Single(sessions) /\ TaskOpen(sessions, done) /\ done \subseteq Task
  BY DEF Inv, IInv
<1>2. /\ FirstRunning(T) = Running(T) /\ RunningOf(T) = Running(T)
      /\ \A i \in Running(T) : i \in Session /\ IsOpen(sessions, i)
  BY <1>1, RunningSessions
<1>3. \A i \in Running(T) : sessions[i].task \notin done
  BY <1>1, <1>2 DEF TaskOpen
<1>4. QED
  BY <1>1, <1>2, <1>3 DEF SpentWith

LEMMA StartFigures ==
  ASSUME Inv, FInv, ~ PatchedDone, NEW t \in Task, StartTracking(t) \/ StopTracking(t)
  PROVE  FInv'
<1>1. PICK T \in SUBSET Task : spent' = SpentWith(FirstRunning(T), now)
  BY DEF StartTracking, StopTracking
<1>2. spent' = SpentWith(Running(T), now) /\ \A x \in done : spent'[x] = spent[x]
  BY <1>1, RunningIsOpen
<1>3. done' = done /\ figures' = figures
  BY DEF StartTracking, StopTracking
<1>4. spent' = [x \in Task |-> spent'[x]]
  BY <1>2 DEF SpentWith
<1>5. FiguresOf(figures, spent', done)
  BY <1>2, OpenTimeKeeps DEF FInv
<1>6. QED
  BY <1>3, <1>4, <1>5 DEF FInv

LEMMA CompleteFigures ==
  ASSUME Inv, FInv, ~ PatchedDone, NEW t \in Task, CompleteTask(t)
  PROVE  FInv'
<1> DEFINE C == {t} \cup FinishedAncestors(Parent, done, t)
<1>1. C \in SUBSET Task /\ done \in SUBSET Task
  BY DEF FinishedAncestors, Ancestors, Inv, IInv
<1>2. /\ Below(Parent, t) \subseteq done
      /\ spent' = SpentWith(RunningOf(C), now) /\ done' = done \cup C
      /\ figures' = [x \in Task |-> IF x \in C THEN Snapshot(spent', x) ELSE figures[x]]
  BY DEF CompleteTask, Finish
<1>3. done' = done \cup {t} \cup FinishedAncestors(Parent, done, t)
  BY <1>2
<1>4. DownClosed(Parent, done')
  BY <1>1, <1>2, <1>3, CompleteDownClosed, TreeAssumption DEF FInv
<1> HIDE DEF C
<1>5. spent' = SpentWith(Running(C), now) /\ \A x \in done : spent'[x] = spent[x]
  BY <1>1, <1>2, RunningIsOpen
<1>6. spent' = [x \in Task |-> spent'[x]]
  BY <1>5 DEF SpentWith
<1>7. FiguresOf(figures, spent', done)
  BY <1>5, OpenTimeKeeps DEF FInv
<1>8. FiguresOf(figures', spent', done')
  BY <1>1, <1>2, <1>7 DEF FiguresOf
<1>9. QED
  BY <1>4, <1>6, <1>8 DEF FInv

LEMMA ReopenFigures == ASSUME Inv, FInv, NEW t \in Task, ReopenTask(t) PROVE FInv'
<1>1. /\ done' = done \ Reopened(Parent, done, t) /\ spent' = spent
      /\ figures' = [x \in Task |-> IF x \in done' THEN figures[x] ELSE Null]
  BY DEF ReopenTask
<1>2. done \in SUBSET Task
  BY DEF Inv, IInv
<1>3. DownClosed(Parent, done')
  BY <1>1, <1>2, ReopenDownClosed, TreeAssumption DEF FInv
<1>4. FiguresOf(figures', spent', done')
  BY <1>1, <1>2 DEF FInv, FiguresOf
<1>5. QED
  BY <1>1, <1>3, <1>4 DEF FInv

\* A correction writes the figures of every completed task it is below of.
LEMMA BookFigures ==
  ASSUME Inv, FInv, NEW t \in Task, NEW change, Book(t, change), done' = done
  PROVE  FInv'
<1>1. spent' = [spent EXCEPT ![t] = Max({0, spent[t] + change})]
  BY DEF Book
<1>2. /\ spent' = [x \in Task |-> spent'[x]]
      /\ \A x \in Task \ {t} : spent'[x] = spent[x]
  BY <1>1 DEF FInv
<1>3. ASSUME NEW x \in done PROVE figures'[x] = Snapshot(spent', x)
  <2>1. x \in Task /\ figures[x] = Snapshot(spent, x)
    BY DEF FInv, FiguresOf, Inv, IInv
  <2>2. CASE x \in {t} \cup Ancestors(Parent, t)
    <3>1. figures'[x] = [own     |-> IF x = t THEN spent'[t] ELSE figures[x].own,
                         subtree |-> SubtreeSpent(spent', x)]
      BY <2>1, <2>2 DEF Book
    <3>2. x # t => figures[x].own = spent'[x]
      BY <1>2, <2>1 DEF Snapshot
    <3>3. QED
      BY <3>1, <3>2 DEF Snapshot
  <2>3. CASE x \notin {t} \cup Ancestors(Parent, t)
    <3>1. figures'[x] = figures[x]
      BY <2>1, <2>3 DEF Book
    <3>2. \A y \in Below(Parent, x) \cup {x} : y \in Task \ {t}
      BY <2>1, <2>3 DEF Below
    <3>3. Snapshot(spent', x) = Snapshot(spent, x)
      BY <1>2, <3>2, SnapshotAgrees
    <3>4. QED
      BY <2>1, <3>1, <3>3
  <2>4. QED
    BY <2>2, <2>3
<1>4. QED
  BY <1>2, <1>3 DEF FInv, FiguresOf

LEMMA CorrectionFigures ==
  ASSUME Inv, FInv,
         \/ \E t \in Task, from, to \in Typed : AddSession(t, from, to)
         \/ \E i \in Existing, from \in Typed, to \in Typed \cup {Open} : ChangeSession(i, from, to)
         \/ \E i \in Existing : RemoveSession(i)
  PROVE  FInv'
<1>1. \A i \in Existing : sessions[i].task \in Task
  BY DEF Inv, IInv, Sessions, SessionRecord, Existing
<1>2. \E t \in Task : \E change : Book(t, change) /\ done' = done
  <2>1. CASE \E t \in Task, from, to \in Typed : AddSession(t, from, to)
    BY <2>1 DEF AddSession
  <2>2. CASE \E i \in Existing, from \in Typed, to \in Typed \cup {Open} : ChangeSession(i, from, to)
    BY <1>1, <2>2 DEF ChangeSession
  <2>3. CASE \E i \in Existing : RemoveSession(i)
    BY <1>1, <2>3 DEF RemoveSession
  <2>4. QED
    BY <2>1, <2>2, <2>3
<1>3. QED
  BY <1>2, BookFigures

LEMMA NextFigures ==
  ASSUME Inv, FInv, ~ PatchedDone, [Next]_vars
  PROVE  FInv'
<1>1. CASE Tick
  BY <1>1 DEF Tick, FInv
<1>2. CASE \E t \in Task : StartTracking(t) \/ StopTracking(t)
  BY <1>2, StartFigures
<1>3. CASE \E t \in Task : CompleteTask(t) \/ ReopenTask(t)
  BY <1>3, CompleteFigures, ReopenFigures
<1>4. CASE \E t \in Task, at \in Patched : PatchDone(t, at)
  BY <1>4 DEF PatchDone
<1>5. CASE \/ \E t \in Task, from, to \in Typed : AddSession(t, from, to)
           \/ \E i \in Existing, from \in Typed, to \in Typed \cup {Open} : ChangeSession(i, from, to)
           \/ \E i \in Existing : RemoveSession(i)
  BY <1>5, CorrectionFigures
<1>6. CASE UNCHANGED vars
  BY <1>6 DEF vars, FInv
<1>7. QED
  BY <1>1, <1>2, <1>3, <1>4, <1>5, <1>6 DEF Next

\* If tasks are completed by their own request only, the figures of a completed
\* task are those of the time tracked on it and below it as it is now, through
\* completing, reopening and every correction (estimates.py, sessions.py).
THEOREM FiguresAreCurrent == ASSUME ~ PatchedDone PROVE Spec => []FiguresFollow
<1>1. Init => Inv /\ FInv
  BY InitInv DEF Init, FInv, DownClosed, FiguresOf
<1>2. Inv /\ FInv /\ [Next]_vars => Inv' /\ FInv'
  BY NextInv, NextFigures
<1>3. FInv => FiguresFollow
  BY DEF FInv, FiguresOf, FiguresFollow
<1>4. QED
  BY <1>1, <1>2, <1>3, PTL DEF Spec

-----------------------------------------------------------------------------
(* Requests that do not overlap - but for stops - implement Tracking.      *)

\* Requests overlap no other one, but for stops that are sent again, and the
\* clock does not move on between the reads of a transaction and its commit.
Orderly == Together \subseteq {"stop"} /\ ~ SlowCommits

-----------------------------------------------------------------------------
(* The operators of Tracking, of sessions ss, tracked times sp, completed  *)
(* tasks dn and the moment n.                                              *)

RunningIn(ss, T) == {i \in Session : IsOpen(ss, i) /\ ss[i].task \in T}

SpentIn(ss, sp, I, n) ==
  [t \in Task |->
     IF \E i \in I : ss[i].task = t
       THEN sp[t] + (n - ss[CHOOSE i \in I : ss[i].task = t].start)
       ELSE sp[t]]

SavedIn(r, sp) == [t \in Task |-> IF t \in DOMAIN r.saved THEN r.saved[t] ELSE sp[t]]

BlockedIn(dn, t) == \E d \in Deps : d[2] \in {t} \cup Ancestors(Parent, t) /\ d[1] \notin dn

ExistingIn(ss) == {i \in Session : ss[i] # Null}

StartIn(ss, i, start) ==
  LET before == {j \in ExistingIn(ss) \ {i} : ss[j].end \in start..(start + Minute - 1)}
  IN  IF WholeMinute(start) /\ before # {} THEN Max({ss[j].end : j \in before}) ELSE start

EndIn(ss, i, end) ==
  LET after == {j \in ExistingIn(ss) \ {i} : ss[j].start \in end..(end + Minute - 1)}
  IN  IF end # Open /\ WholeMinute(end) /\ after # {} THEN Min({ss[j].start : j \in after}) ELSE end

AllowedIn(ss, n, i, start, end) ==
  /\ start <= n + Minute /\ (end # Open => end <= n + Minute)
  /\ IF end = Open THEN i \in ExistingIn(ss) /\ ss[i].end = Open ELSE start < end
  /\ \A j \in ExistingIn(ss) \ {i} :
       \/ ss[j].start >= IF end = Open THEN n ELSE end
       \/ (IF ss[j].end = Open THEN n ELSE ss[j].end) <= start

LEMMA SameTimes ==
  ASSUME NEW i, NEW from, NEW to, NEW start, NEW end
  PROVE  /\ SnappedStart(i, from) = StartIn(sessions, i, from)
         /\ SnappedEnd(i, to) = EndIn(sessions, i, to)
         /\ Allowed(i, start, end) <=> AllowedIn(sessions, now, i, start, end)
<1>1. SnappedStart(i, from) = StartIn(sessions, i, from)
  BY DEF SnappedStart, StartIn, Existing, ExistingIn
<1>2. SnappedEnd(i, to) = EndIn(sessions, i, to)
  BY DEF SnappedEnd, EndIn, Existing, ExistingIn
<1>3. Allowed(i, start, end) <=> AllowedIn(sessions, now, i, start, end)
  BY DEF Allowed, AllowedIn, InPast, EndsAfterStart, OverlapsNone, Until, Existing, ExistingIn
<1>4. QED
  BY <1>1, <1>2, <1>3

LEMMA SameOperators ==
  ASSUME Sessions(sessions), Single(sessions), NEW T \in SUBSET Task, NEW I, NEW n, NEW r, NEW t
  PROVE  /\ Running(T) = RunningIn(sessions, T)
         /\ FirstRunning(T) = RunningIn(sessions, T)
         /\ RunningOf(T) = RunningIn(sessions, T)
         /\ Ended(I, n) = EndedIn(sessions, I, n)
         /\ SpentWith(I, n) = SpentIn(sessions, spent, I, n)
         /\ Saved(r) = SavedIn(r, spent)
         /\ Blocked(t) <=> BlockedIn(done, t)
<1>1. /\ Running(T) = RunningIn(sessions, T)
      /\ FirstRunning(T) = RunningIn(sessions, T)
      /\ RunningOf(T) = RunningIn(sessions, T)
  BY RunningSessions DEF RunningIn
<1>2. Ended(I, n) = EndedIn(sessions, I, n)
  BY DEF Ended, EndedIn
<1>3. SpentWith(I, n) = SpentIn(sessions, spent, I, n)
  BY DEF SpentWith, SpentIn
<1>4. Saved(r) = SavedIn(r, spent)
  BY DEF Saved, SavedIn
<1>5. Blocked(t) <=> BlockedIn(done, t)
  BY DEF Blocked, BlockedIn
<1>6. QED
  BY <1>1, <1>2, <1>3, <1>4, <1>5

-----------------------------------------------------------------------------
(* The invariant: what a request has read is still so - but for a stop,    *)
(* which may find its session ended by another one, and what it means to   *)
(* write is what Tracking would write now.                                 *)

Reads(r, ss, sp, dn, n) ==
  /\ r.step = "read"
  /\ r.kind \in {"start", "stop", "complete"} => r.task \in Task
  /\ r.kind \in {"start", "complete"} => (r.isDone <=> r.task \in dn)
  /\ r.kind = "complete" => r.spent = sp[r.task]
  /\ r.kind = "stop" => RunningIn(ss, {r.task}) = {} \/ r.spent = sp[r.task]
  /\ r.kind = "change" =>
       /\ r.session \in ExistingIn(ss) /\ r.stored = ss[r.session]
       /\ r.from \in 0..(n + Ahead) /\ r.to \in 0..(n + Ahead) \cup {Open}

Books(r, I, ss, sp, n) == r.ended = I /\ r.at = n /\ SavedIn(r, sp) = SpentIn(ss, sp, I, n)

CommitsStart(r, ss, sp, dn, n) ==
  /\ r.completed = {}
  /\ Books(r, RunningIn(ss, Task), ss, sp, n)
  /\ \E t \in Task :
       /\ t \notin dn /\ ~ BlockedIn(dn, t) /\ r.begun = {t}
       /\ \A i \in RunningIn(ss, Task) : ss[i].task # t

CommitsStop(r, ss, sp, n) ==
  /\ r.completed = {} /\ r.begun = {}
  /\ \/ \E t \in Task : RunningIn(ss, {t}) # {} /\ Books(r, RunningIn(ss, {t}), ss, sp, n)
     \/ RunningIn(ss, Task) = {} /\ EndedIn(ss, r.ended, r.at) = ss /\ SavedIn(r, sp) = sp

CommitsComplete(r, ss, sp, dn, n) ==
  /\ r.begun = {}
  /\ \E t \in Task :
       /\ t \notin dn /\ Below(Parent, t) \subseteq dn
       /\ r.completed = {t} \cup FinishedAncestors(Parent, dn, t)
       /\ Books(r, RunningIn(ss, r.completed), ss, sp, n)

CommitsChange(r, ss, n) ==
  /\ r.session \in ExistingIn(ss) /\ r.stored = ss[r.session]
  /\ \E from \in 0..(n + Ahead), to \in 0..(n + Ahead) \cup {Open} :
       r.start = StartIn(ss, r.session, from) /\ r.end = EndIn(ss, r.session, to)
  /\ AllowedIn(ss, n, r.session, r.start, r.end)

Commits(r, ss, sp, dn, n) ==
  /\ r.step = "commit"
  /\ r.kind = "start"    => CommitsStart(r, ss, sp, dn, n)
  /\ r.kind = "stop"     => CommitsStop(r, ss, sp, n)
  /\ r.kind = "complete" => CommitsComplete(r, ss, sp, dn, n)
  /\ r.kind = "change"   => CommitsChange(r, ss, n)

OnTasks(f) == f = [t \in Task |-> f[t]]

RequestInv ==
  /\ DOMAIN request = Worker
  /\ OnTasks(spent) /\ OnTasks(figures)
  /\ \A v, w \in Busy : v # w => request[v].kind = "stop" /\ request[w].kind = "stop"
  /\ \A w \in Busy :
       /\ request[w].kind \in Kinds
       /\ \/ Reads(request[w], sessions, spent, done, now)
          \/ Commits(request[w], sessions, spent, done, now)

LEMMA InitRequestInv == InitRequests => RequestInv
BY DEF InitRequests, Init, RequestInv, OnTasks, Busy

-----------------------------------------------------------------------------
(* Steps that change nothing of Tracking, or only its clock.               *)

\* What stays true of the requests under way when the worker w goes on and
\* what Tracking knows stays as it is.
LEMMA OthersStay ==
  ASSUME RequestInv, NEW w \in Worker, NEW r,
         request' = [request EXCEPT ![w] = r], UNCHANGED vars,
         r # Null =>
           /\ r.kind \in Kinds
           /\ \A v \in Busy \ {w} : request[v].kind = "stop" /\ r.kind = "stop"
           /\ \/ Reads(r, sessions, spent, done, now)
              \/ Commits(r, sessions, spent, done, now)
  PROVE  RequestInv'
<1>1. DOMAIN request' = Worker /\ request'[w] = r /\ \A v \in Worker \ {w} : request'[v] = request[v]
  BY DEF RequestInv
<1>2. sessions' = sessions /\ spent' = spent /\ done' = done /\ now' = now /\ figures' = figures
  BY DEF vars
<1>3. /\ Busy \in SUBSET Worker /\ Busy' \in SUBSET Worker
      /\ \A v \in Worker \ {w} : v \in Busy' <=> v \in Busy
      /\ w \in Busy' => r # Null
  BY <1>1 DEF Busy
<1>4. \A u, v \in Busy' : u # v => request'[u].kind = "stop" /\ request'[v].kind = "stop"
  BY <1>1, <1>3 DEF RequestInv
<1>5. ASSUME NEW v \in Busy'
      PROVE  /\ request'[v].kind \in Kinds
             /\ \/ Reads(request'[v], sessions', spent', done', now')
                \/ Commits(request'[v], sessions', spent', done', now')
  <2>1. CASE v = w
    BY <1>1, <1>2, <1>3, <1>5, <2>1
  <2>2. CASE v # w
    BY <1>1, <1>2, <1>3, <1>5, <2>2 DEF RequestInv
  <2>3. QED
    BY <2>1, <2>2
<1>6. OnTasks(spent)' /\ OnTasks(figures)'
  BY <1>2 DEF RequestInv, OnTasks
<1>7. QED
  BY <1>1, <1>4, <1>5, <1>6 DEF RequestInv

\* A request that is taken runs alone, or is one stop among others.
LEMMA Received ==
  ASSUME Orderly, RequestInv, NEW w \in Worker, NEW kind \in Kinds, MayReceive(w, kind)
  PROVE  w \notin Busy /\ \A v \in Busy : request[v].kind = "stop" /\ kind = "stop"
BY DEF Orderly, MayReceive, Busy

LEMMA ReceiveTaskKeeps ==
  ASSUME Orderly, Inv, RequestInv, NEW w \in Worker, NEW t \in Task, NEW kind \in Kinds \ {"change"},
         ReceiveTask(w, kind, t)
  PROVE  RequestInv'
<1> DEFINE r == [step |-> "read", kind |-> kind, task |-> t, isDone |-> t \in done, spent |-> spent[t]]
<1>1. request' = [request EXCEPT ![w] = r] /\ UNCHANGED vars /\ MayReceive(w, kind)
  BY DEF ReceiveTask
<1>2. r.kind = kind /\ Reads(r, sessions, spent, done, now)
  BY DEF Reads
<1> HIDE DEF r
<1>3. \A v \in Busy \ {w} : request[v].kind = "stop" /\ r.kind = "stop"
  BY <1>1, <1>2, Received
<1>4. QED
  BY <1>1, <1>2, <1>3, OthersStay

LEMMA ReceiveChangeKeeps ==
  ASSUME Orderly, Inv, RequestInv, NEW w \in Worker, NEW i \in Existing,
         NEW from \in Typed, NEW to \in Typed \cup {Open}, ReceiveChange(w, i, from, to)
  PROVE  RequestInv'
<1> DEFINE r == [step |-> "read", kind |-> "change", session |-> i, stored |-> sessions[i],
                 from |-> from, to |-> to]
<1>1. request' = [request EXCEPT ![w] = r] /\ UNCHANGED vars /\ MayReceive(w, "change")
  BY DEF ReceiveChange
<1>2. r.kind = "change" /\ Reads(r, sessions, spent, done, now)
  BY DEF Reads, ExistingIn, Existing, Typed
<1> HIDE DEF r
<1>3. \A v \in Busy \ {w} : request[v].kind = "stop" /\ r.kind = "stop"
  BY <1>1, <1>2, Received DEF Kinds
<1>4. QED
  BY <1>1, <1>2, <1>3, OthersStay DEF Kinds

LEMMA RefuseKeeps ==
  ASSUME RequestInv, NEW w \in Worker, Refuse(w)
  PROVE  RequestInv'
BY OthersStay DEF Refuse

\* The clock goes on while requests have only read.
LEMMA TickKeeps == ASSUME Orderly, Inv, RequestInv, TickRequests PROVE RequestInv'
<1>1. /\ Committing = {} /\ request' = request /\ now' = now + 1 /\ now \in Nat
      /\ UNCHANGED <<sessions, spent, done, figures>>
  BY DEF Orderly, TickRequests, Tick, Inv, IInv
<1>2. Busy' = Busy
  BY <1>1 DEF Busy
<1>3. ASSUME NEW r, Reads(r, sessions, spent, done, now)
      PROVE  Reads(r, sessions, spent, done, now + 1)
  <2>1. 0..(now + Ahead) \subseteq 0..(now + 1 + Ahead)
    BY <1>1, ClockAssumption
  <2>2. QED
    BY <1>3, <2>1 DEF Reads
<1>4. \A v \in Busy : Reads(request[v], sessions, spent, done, now)
  BY <1>1 DEF RequestInv, Committing, Commits
<1>5. \A v \in Busy' : Reads(request'[v], sessions', spent', done', now')
  BY <1>1, <1>2, <1>3, <1>4
<1>6. OnTasks(spent)' /\ OnTasks(figures)'
  BY <1>1 DEF RequestInv, OnTasks
<1>7. QED
  BY <1>1, <1>2, <1>5, <1>6 DEF RequestInv

-----------------------------------------------------------------------------
(* The reads of a transaction.                                             *)

\* What a worker means to save is what Tracking books for the sessions I.
LEMMA PreparedBooks ==
  ASSUME NEW ss, NEW sp, NEW n, NEW I, NEW S, NEW read, NEW r,
         \A t \in S : read[t] = sp[t],
         \A i \in I : ss[i].task \in S,
         r.ended = I, r.at = n,
         r.saved = [t \in S |-> IF \E i \in I : ss[i].task = t
                                  THEN read[t] + (n - ss[CHOOSE i \in I : ss[i].task = t].start)
                                  ELSE read[t]]
  PROVE  Books(r, I, ss, sp, n)
<1>1. ASSUME NEW t \in Task PROVE SavedIn(r, sp)[t] = SpentIn(ss, sp, I, n)[t]
  <2>1. CASE t \in S
    BY <2>1 DEF SavedIn, SpentIn
  <2>2. CASE t \notin S
    BY <2>2 DEF SavedIn, SpentIn
  <2>3. QED
    BY <2>1, <2>2
<1>2. SavedIn(r, sp) = SpentIn(ss, sp, I, n)
  BY <1>1 DEF SavedIn, SpentIn
<1>3. QED
  BY <1>2 DEF Books

\* A worker that has read keeps the invariant if what it means to write is
\* what Tracking would write.
LEMMA PreparedKeeps ==
  ASSUME RequestInv, NEW w \in Busy, NEW I, NEW B, NEW read, NEW S, NEW C,
         Prepare(w, I, B, read, S, C),
         \A t \in S : read[t] = spent[t],
         \A i \in I : sessions[i].task \in S,
         \A r : /\ r.step = "commit" /\ r.kind = request[w].kind
                /\ r.begun = B /\ r.completed = C
                /\ Books(r, I, sessions, spent, now)
                => Commits(r, sessions, spent, done, now)
  PROVE  RequestInv'
<1> DEFINE r == [step |-> "commit", kind |-> request[w].kind, ended |-> I, at |-> now,
                 begun |-> B, completed |-> C,
                 saved |-> [t \in S |-> IF \E i \in I : sessions[i].task = t
                     THEN read[t] + (now - sessions[CHOOSE i \in I : sessions[i].task = t].start)
                     ELSE read[t]]]
<1>1. request' = [request EXCEPT ![w] = r] /\ UNCHANGED vars
  BY DEF Prepare
<1>2. Books(r, I, sessions, spent, now)
  BY PreparedBooks
<1>3. r.step = "commit" /\ r.kind = request[w].kind /\ r.begun = B /\ r.completed = C
  OBVIOUS
<1> HIDE DEF r
<1>4. Commits(r, sessions, spent, done, now)
  BY <1>2, <1>3
<1>5. r.kind \in Kinds /\ \A v \in Busy \ {w} : request[v].kind = "stop" /\ r.kind = "stop"
  BY <1>3 DEF RequestInv
<1>6. w \in Worker
  BY DEF Busy
<1>7. QED
  BY <1>1, <1>4, <1>5, <1>6, OthersStay

\* What a worker that goes on to read has read before.
LEMMA HasRead ==
  ASSUME RequestInv, NEW w \in Busy \ Committing
  PROVE  Reads(request[w], sessions, spent, done, now)
BY DEF RequestInv, Committing, Commits

LEMMA TransactStartKeeps ==
  ASSUME Inv, RequestInv, NEW w \in Busy \ Committing, request[w].kind = "start", TransactStart(w)
  PROVE  RequestInv'
<1> DEFINE t == request[w].task
           I  == FirstRunning(Task)
           S  == {sessions[i].task : i \in I}
<1>1. Sessions(sessions) /\ Single(sessions)
  BY DEF Inv, IInv
<1>2. I = RunningIn(sessions, Task) /\ (Blocked(t) <=> BlockedIn(done, t))
  BY <1>1, SameOperators
<1>3. t \in Task /\ (request[w].isDone <=> t \in done)
  BY HasRead DEF Reads
<1>4. CASE Refuse(w)
  BY <1>4, RefuseKeeps DEF Busy
<1>5. CASE /\ Prepare(w, I, {t}, spent, S, {})
           /\ ~ request[w].isDone /\ ~ Blocked(t) /\ t \notin S
  <2>1. ASSUME NEW r, r.step = "commit", r.kind = "start", r.begun = {t}, r.completed = {},
               Books(r, I, sessions, spent, now)
        PROVE  Commits(r, sessions, spent, done, now)
    <3>1. \A i \in RunningIn(sessions, Task) : sessions[i].task # t
      BY <1>2, <1>5
    <3>2. CommitsStart(r, sessions, spent, done, now)
      BY <1>2, <1>3, <1>5, <2>1, <3>1 DEF CommitsStart
    <3>3. QED
      BY <2>1, <3>2 DEF Commits
  <2>2. \A i \in I : sessions[i].task \in S
    OBVIOUS
  <2> HIDE DEF t, I, S
  <2>3. QED
    BY <1>5, <2>1, <2>2, PreparedKeeps
<1>6. QED
  BY <1>4, <1>5 DEF TransactStart

LEMMA TransactStopKeeps ==
  ASSUME Inv, RequestInv, NEW w \in Busy \ Committing, request[w].kind = "stop", TransactStop(w)
  PROVE  RequestInv'
<1> DEFINE t == request[w].task
           I  == FirstRunning({t})
           read == [spent EXCEPT ![t] = request[w].spent]
<1>1. Sessions(sessions) /\ Single(sessions)
  BY DEF Inv, IInv
<1>2. t \in Task /\ (RunningIn(sessions, {t}) = {} \/ request[w].spent = spent[t])
  BY HasRead DEF Reads
<1>3. I = RunningIn(sessions, {t})
  BY <1>1, <1>2, SameOperators
<1>4. CASE Refuse(w)
  BY <1>4, RefuseKeeps DEF Busy
<1>5. CASE Prepare(w, I, {}, read, {t}, {}) /\ I # {}
  <2>1. ASSUME NEW r, r.step = "commit", r.kind = "stop", r.begun = {}, r.completed = {},
               Books(r, I, sessions, spent, now)
        PROVE  Commits(r, sessions, spent, done, now)
    <3>1. CommitsStop(r, sessions, spent, now)
      BY <1>2, <1>3, <1>5, <2>1 DEF CommitsStop
    <3>2. QED
      BY <2>1, <3>1 DEF Commits
  <2>2. \A i \in I : sessions[i].task \in {t}
    BY <1>3 DEF RunningIn
  <2>3. \A x \in {t} : read[x] = spent[x]
    BY <1>2, <1>3, <1>5 DEF RequestInv, OnTasks
  <2> HIDE DEF t, I, read
  <2>4. QED
    BY <1>5, <2>1, <2>2, <2>3, PreparedKeeps
<1>6. QED
  BY <1>4, <1>5 DEF TransactStop

LEMMA TransactCompleteKeeps ==
  ASSUME Inv, RequestInv, NEW w \in Busy \ Committing, request[w].kind = "complete",
         TransactComplete(w)
  PROVE  RequestInv'
<1> DEFINE t == request[w].task
           C == {t} \cup FinishedAncestors(Parent, done, t)
           I == RunningOf(C)
           read == [spent EXCEPT ![t] = request[w].spent]
<1>1. Sessions(sessions) /\ Single(sessions)
  BY DEF Inv, IInv
<1>2. t \in Task /\ (request[w].isDone <=> t \in done) /\ request[w].spent = spent[t]
  BY HasRead DEF Reads
<1>3. C \subseteq Task
  BY <1>2 DEF FinishedAncestors, Ancestors
<1>4. I = RunningIn(sessions, C)
  BY <1>1, <1>3, SameOperators
<1>5. CASE Refuse(w)
  BY <1>5, RefuseKeeps DEF Busy
<1>6. CASE /\ Prepare(w, I, {}, read, C, C)
           /\ ~ request[w].isDone /\ Below(Parent, t) \subseteq done
  <2>1. ASSUME NEW r, r.step = "commit", r.kind = "complete", r.begun = {}, r.completed = C,
               Books(r, I, sessions, spent, now)
        PROVE  Commits(r, sessions, spent, done, now)
    <3>1. Books(r, RunningIn(sessions, r.completed), sessions, spent, now)
      BY <1>4, <2>1
    <3>2. r.completed = {t} \cup FinishedAncestors(Parent, done, t)
      BY <2>1
    <3> HIDE DEF t, C, I
    <3>3. CommitsComplete(r, sessions, spent, done, now)
      BY <1>2, <1>6, <2>1, <3>1, <3>2 DEF CommitsComplete
    <3>4. QED
      BY <2>1, <3>3 DEF Commits
  <2>2. \A i \in I : sessions[i].task \in C
    BY <1>4 DEF RunningIn
  <2>3. \A x \in C : read[x] = spent[x]
    BY <1>2 DEF RequestInv, OnTasks
  <2> HIDE DEF t, C, I, read
  <2>4. QED
    BY <1>6, <2>1, <2>2, <2>3, PreparedKeeps
<1>7. QED
  BY <1>5, <1>6 DEF TransactComplete

LEMMA TransactChangeKeeps ==
  ASSUME Inv, RequestInv, NEW w \in Busy \ Committing, request[w].kind = "change",
         TransactChange(w)
  PROVE  RequestInv'
<1> DEFINE i     == request[w].session
           start == SnappedStart(i, request[w].from)
           end   == SnappedEnd(i, request[w].to)
           r     == [step |-> "commit", kind |-> "change", session |-> i,
                     stored |-> request[w].stored, start |-> start, end |-> end]
<1>1. /\ i \in ExistingIn(sessions) /\ request[w].stored = sessions[i]
      /\ request[w].from \in 0..(now + Ahead) /\ request[w].to \in 0..(now + Ahead) \cup {Open}
  BY HasRead DEF Reads
<1>2. CASE Refuse(w)
  BY <1>2, RefuseKeeps DEF Busy
<1>3. CASE /\ InPast(start, end)
           /\ IF end = Open THEN request[w].stored.end = Open ELSE start < end
           /\ OverlapsNone(i, start, end)
           /\ request' = [request EXCEPT ![w] = r] /\ UNCHANGED vars
  <2>1. Allowed(i, start, end)
    BY <1>1, <1>3 DEF Allowed, EndsAfterStart, Existing, ExistingIn
  <2>2. AllowedIn(sessions, now, i, start, end)
    BY <2>1, SameTimes
  <2>3. /\ start = StartIn(sessions, i, request[w].from)
        /\ end = EndIn(sessions, i, request[w].to)
    BY SameTimes
  <2>4. /\ r.step = "commit" /\ r.kind = "change" /\ r.session = i /\ r.stored = request[w].stored
        /\ r.start = start /\ r.end = end
    OBVIOUS
  <2> HIDE DEF r, start, end
  <2>5. CommitsChange(r, sessions, now)
    BY <1>1, <2>2, <2>3, <2>4 DEF CommitsChange
  <2>6. Commits(r, sessions, spent, done, now)
    BY <2>4, <2>5 DEF Commits
  <2>7. r.kind \in Kinds /\ \A v \in Busy \ {w} : request[v].kind = "stop" /\ r.kind = "stop"
    BY <2>4 DEF RequestInv, Kinds
  <2>8. w \in Worker
    BY DEF Busy
  <2>9. QED
    BY <1>3, <2>6, <2>7, <2>8, OthersStay
<1>4. QED
  BY <1>2, <1>3 DEF TransactChange

LEMMA TransactKeeps ==
  ASSUME Inv, RequestInv, NEW w \in Worker, Transact(w)
  PROVE  RequestInv' /\ UNCHANGED vars
<1>1. w \in Busy \ Committing /\ request[w].kind \in Kinds
  BY DEF Transact, RequestInv
<1>2. CASE request[w].kind = "start"
  <2>1. TransactStart(w)
    BY <1>2 DEF Transact
  <2>2. UNCHANGED vars
    BY <2>1 DEF TransactStart, Refuse, Prepare
  <2>3. QED
    BY <1>1, <1>2, <2>1, <2>2, TransactStartKeeps
<1>3. CASE request[w].kind = "stop"
  <2>1. TransactStop(w)
    BY <1>3 DEF Transact
  <2>2. UNCHANGED vars
    BY <2>1 DEF TransactStop, Refuse, Prepare
  <2>3. QED
    BY <1>1, <1>3, <2>1, <2>2, TransactStopKeeps
<1>4. CASE request[w].kind = "complete"
  <2>1. TransactComplete(w)
    BY <1>4 DEF Transact
  <2>2. UNCHANGED vars
    BY <2>1 DEF TransactComplete, Refuse, Prepare
  <2>3. QED
    BY <1>1, <1>4, <2>1, <2>2, TransactCompleteKeeps
<1>5. CASE request[w].kind = "change"
  <2>1. TransactChange(w)
    BY <1>5 DEF Transact
  <2>2. UNCHANGED vars
    BY <2>1 DEF TransactChange, Refuse
  <2>3. QED
    BY <1>1, <1>5, <2>1, <2>2, TransactChangeKeeps
<1>6. QED
  BY <1>1, <1>2, <1>3, <1>4, <1>5 DEF Kinds

-----------------------------------------------------------------------------
(* The commits.                                                            *)

\* A request of any other kind than a stop was alone.
LEMMA AloneKeeps ==
  ASSUME RequestInv, NEW w \in Busy, request[w].kind # "stop",
         request' = [request EXCEPT ![w] = Null], OnTasks(spent)', OnTasks(figures)'
  PROVE  RequestInv'
<1>1. Busy = {w}
  BY DEF RequestInv
<1>2. w \in Worker /\ DOMAIN request' = Worker
  BY DEF RequestInv, Busy
<1>3. Busy' = {}
  BY <1>1, <1>2 DEF Busy, RequestInv
<1>4. QED
  BY <1>2, <1>3 DEF RequestInv

LEMMA CommitStart ==
  ASSUME Inv, RequestInv, NEW w \in Worker, request[w].kind = "start", CommitTracking(w)
  PROVE  Next /\ RequestInv'
<1> DEFINE r == request[w]
           I == FirstRunning(Task)
<1>1. Sessions(sessions) /\ Single(sessions)
  BY DEF Inv, IInv
<1>2. CommitsStart(r, sessions, spent, done, now) /\ w \in Busy
  BY DEF CommitTracking, Committing, RequestInv, Reads, Commits
<1>3. /\ I = RunningIn(sessions, Task)
      /\ Ended(I, now) = EndedIn(sessions, I, now)
      /\ SpentWith(I, now) = SpentIn(sessions, spent, I, now)
      /\ Ended(r.ended, r.at) = EndedIn(sessions, r.ended, r.at)
      /\ Saved(r) = SavedIn(r, spent)
      /\ \A t : Blocked(t) <=> BlockedIn(done, t)
  BY <1>1, SameOperators
<1>4. PICK t \in Task : /\ t \notin done /\ ~ BlockedIn(done, t) /\ r.begun = {t}
                        /\ \A i \in RunningIn(sessions, Task) : sessions[i].task # t
  BY <1>2 DEF CommitsStart
<1>5. /\ r.ended = I /\ r.at = now /\ r.completed = {}
      /\ SavedIn(r, spent) = SpentIn(sessions, spent, I, now)
  BY <1>2, <1>3 DEF CommitsStart, Books
<1>6. /\ \E i \in Session \ Existing :
           sessions' = [Ended(I, now) EXCEPT ![i] = [task |-> t, start |-> now, end |-> Open]]
      /\ spent' = SpentWith(I, now)
  BY <1>3, <1>4, <1>5 DEF CommitTracking
<1>7. done' = done /\ figures' = figures /\ now' = now
  BY <1>5 DEF CommitTracking, RequestInv, OnTasks
<1>8. StartTracking(t)
  BY <1>3, <1>4, <1>6, <1>7 DEF StartTracking
<1>9. OnTasks(spent)' /\ OnTasks(figures)'
  BY <1>6, <1>7 DEF RequestInv, OnTasks, SpentWith
<1>10. request' = [request EXCEPT ![w] = Null]
  BY DEF CommitTracking
<1>11. QED
  BY <1>2, <1>8, <1>9, <1>10, AloneKeeps DEF Next

LEMMA CommitComplete ==
  ASSUME Inv, RequestInv, NEW w \in Worker, request[w].kind = "complete", CommitTracking(w)
  PROVE  Next /\ RequestInv'
<1> DEFINE r == request[w]
           C == r.completed
           I == RunningOf(C)
<1>1. Sessions(sessions) /\ Single(sessions)
  BY DEF Inv, IInv
<1>2. CommitsComplete(r, sessions, spent, done, now) /\ w \in Busy
  BY DEF CommitTracking, Committing, RequestInv, Reads, Commits
<1>3. PICK t \in Task : /\ t \notin done /\ Below(Parent, t) \subseteq done
                        /\ C = {t} \cup FinishedAncestors(Parent, done, t)
                        /\ Books(r, RunningIn(sessions, C), sessions, spent, now)
  BY <1>2 DEF CommitsComplete
<1>4. C \in SUBSET Task /\ r.begun = {}
  BY <1>2, <1>3 DEF FinishedAncestors, Ancestors, CommitsComplete
<1> HIDE DEF C
<1>5. /\ I = RunningIn(sessions, C)
      /\ SpentWith(I, now) = SpentIn(sessions, spent, I, now)
      /\ Saved(r) = SavedIn(r, spent)
  BY <1>1, <1>4, SameOperators
<1>6. r.ended = I /\ r.at = now /\ Saved(r) = SpentWith(I, now)
  BY <1>3, <1>5 DEF Books
<1>7. Finish(C, I, now)
  <2>1. sessions' = Ended(I, now) /\ spent' = SpentWith(I, now)
    BY <1>4, <1>6 DEF CommitTracking
  <2>2. /\ done' = done \cup C /\ now' = now
        /\ figures' = [x \in Task |-> IF x \in C THEN Snapshot(spent', x) ELSE figures[x]]
    BY DEF CommitTracking, C
  <2>3. QED
    BY <2>1, <2>2 DEF Finish
<1>8. CompleteTask(t)
  BY <1>3, <1>7 DEF CompleteTask
<1>9. OnTasks(spent)' /\ OnTasks(figures)'
  BY <1>7 DEF Finish, OnTasks, SpentWith
<1>10. request' = [request EXCEPT ![w] = Null]
  BY DEF CommitTracking
<1>11. QED
  BY <1>2, <1>8, <1>9, <1>10, AloneKeeps DEF Next

LEMMA CommitChangeIs ==
  ASSUME Inv, RequestInv, NEW w \in Worker, CommitChange(w)
  PROVE  Next /\ RequestInv'
<1> DEFINE r == request[w]
           i == r.session
<1>1. CommitsChange(r, sessions, now) /\ w \in Busy /\ r.kind = "change"
  BY DEF CommitChange, Committing, RequestInv, Reads, Commits
<1>2. i \in Existing /\ r.stored = sessions[i]
  BY <1>1 DEF CommitsChange, Existing, ExistingIn
<1>3. PICK from \in Typed, to \in Typed \cup {Open} :
        r.start = SnappedStart(i, from) /\ r.end = SnappedEnd(i, to)
  BY <1>1, SameTimes DEF CommitsChange, Typed
<1>4. Allowed(i, r.start, r.end)
  BY <1>1, SameTimes DEF CommitsChange
<1> DEFINE changed == [sessions[i] EXCEPT !.start = r.start, !.end = r.end]
<1>5. /\ sessions' = [sessions EXCEPT ![i] = changed]
      /\ Book(changed.task, Booked(changed) - Booked(sessions[i]))
      /\ UNCHANGED <<now, done>>
      /\ request' = [request EXCEPT ![w] = Null]
  BY <1>2 DEF CommitChange
<1>6. changed.task = sessions[i].task
  OBVIOUS
<1>7. ChangeSession(i, from, to)
  BY <1>3, <1>4, <1>5, <1>6 DEF ChangeSession
<1>8. Next
  BY <1>2, <1>3, <1>7 DEF Next
<1> HIDE DEF changed
<1>9. OnTasks(spent)' /\ OnTasks(figures)'
  BY <1>5 DEF Book, OnTasks, RequestInv
<1>10. QED
  BY <1>1, <1>5, <1>8, <1>9, AloneKeeps

\* Once a stop has ended the running session, none runs; the other stops under
\* way have it ended already, or find none.
LEMMA StoppedKeeps ==
  ASSUME Inv, RequestInv, NEW w \in Busy, NEW t \in Task, request[w].kind = "stop",
         RunningIn(sessions, {t}) # {},
         sessions' = EndedIn(sessions, RunningIn(sessions, {t}), now),
         spent' = SpentIn(sessions, spent, RunningIn(sessions, {t}), now),
         UNCHANGED <<now, done, figures>>,
         request' = [request EXCEPT ![w] = Null]
  PROVE  RequestInv'
<1> DEFINE I == RunningIn(sessions, {t})
<1>1. Sessions(sessions) /\ Single(sessions) /\ now \in Int
  BY DEF Inv, IInv
<1>2. \A i \in I \cap Session : IsOpen(sessions, i)
  BY DEF RunningIn
<1>3. \A T : RunningIn(sessions', T) = {}
  <2>1. \A i \in Session : IsOpen(sessions', i) => i \notin I /\ IsOpen(sessions, i)
    BY <1>1, <1>2, EndingKeeps
  <2>2. QED
    BY <1>1, <2>1 DEF RunningIn, Single
<1>4. \A x \in Task : RunningIn(sessions, {x}) # {} => RunningIn(sessions, {x}) = I
  BY <1>1 DEF RunningIn, Single
<1>5. RunningIn(sessions, Task) # {}
  BY DEF RunningIn
<1>6. EndedIn(sessions', I, now) = sessions'
  <2>1. \A i \in Session : EndedIn(sessions', I, now)[i] = sessions'[i]
    BY DEF EndedIn
  <2>2. QED
    BY <2>1 DEF EndedIn
<1>7. ASSUME NEW r, SavedIn(r, spent) = spent' PROVE SavedIn(r, spent') = spent'
  <2>1. spent' = [x \in Task |-> spent'[x]]
    BY DEF SpentIn
  <2>2. \A x \in Task : SavedIn(r, spent')[x] = spent'[x]
    BY <1>7 DEF SavedIn
  <2>3. QED
    BY <2>1, <2>2 DEF SavedIn
<1>8. w \in Worker /\ DOMAIN request' = Worker /\ request'[w] = Null
      /\ \A v \in Worker \ {w} : request'[v] = request[v]
  BY DEF Busy, RequestInv
<1>9. \A v \in Busy' : v \in Busy /\ v # w /\ request'[v] = request[v]
  BY <1>8 DEF Busy
<1>10. ASSUME NEW v \in Busy'
       PROVE  /\ request'[v].kind = "stop"
              /\ \/ Reads(request'[v], sessions', spent', done', now')
                 \/ Commits(request'[v], sessions', spent', done', now')
  <2> DEFINE r == request[v]
  <2>1. r.kind = "stop" /\ request'[v] = r /\ v \in Busy
    BY <1>9 DEF RequestInv
  <2>2. CASE Reads(r, sessions, spent, done, now)
    BY <1>3, <2>1, <2>2 DEF Reads
  <2>3. CASE Commits(r, sessions, spent, done, now)
    <3>1. r.step = "commit" /\ CommitsStop(r, sessions, spent, now)
      BY <2>1, <2>3 DEF Commits
    <3>2. /\ r.completed = {} /\ r.begun = {}
          /\ \E x \in Task : /\ RunningIn(sessions, {x}) # {}
                             /\ Books(r, RunningIn(sessions, {x}), sessions, spent, now)
      BY <1>5, <3>1 DEF CommitsStop
    <3>3. Books(r, I, sessions, spent, now)
      BY <1>4, <3>2
    <3>4. EndedIn(sessions', r.ended, r.at) = sessions' /\ SavedIn(r, spent') = spent'
      BY <1>6, <1>7, <3>3 DEF Books
    <3>5. CommitsStop(r, sessions', spent', now')
      BY <1>3, <3>2, <3>4 DEF CommitsStop
    <3>6. QED
      BY <2>1, <3>1, <3>5 DEF Commits
  <2>4. QED
    BY <2>1, <2>2, <2>3 DEF RequestInv
<1>11. OnTasks(spent)' /\ OnTasks(figures)'
  BY DEF RequestInv, OnTasks, SpentIn
<1>12. QED
  BY <1>8, <1>10, <1>11 DEF RequestInv, Kinds

LEMMA CommitStop ==
  ASSUME Inv, RequestInv, NEW w \in Worker, request[w].kind = "stop", CommitTracking(w)
  PROVE  [Next]_vars /\ RequestInv'
<1> DEFINE r == request[w]
<1>1. Sessions(sessions) /\ Single(sessions)
  BY DEF Inv, IInv
<1>2. CommitsStop(r, sessions, spent, now) /\ w \in Busy
  BY DEF CommitTracking, Committing, RequestInv, Reads, Commits
<1>3. /\ sessions' = EndedIn(sessions, r.ended, r.at)
      /\ spent' = SavedIn(r, spent)
      /\ UNCHANGED <<now, done, figures>>
      /\ request' = [request EXCEPT ![w] = Null]
  <2>1. r.begun = {} /\ r.completed = {}
    BY <1>2 DEF CommitsStop
  <2>2. Ended(r.ended, r.at) = EndedIn(sessions, r.ended, r.at) /\ Saved(r) = SavedIn(r, spent)
    BY <1>1, SameOperators
  <2>3. figures = [t \in Task |-> figures[t]]
    BY DEF RequestInv, OnTasks
  <2>4. QED
    BY <2>1, <2>2, <2>3 DEF CommitTracking
<1>4. CASE RunningIn(sessions, Task) = {} /\ EndedIn(sessions, r.ended, r.at) = sessions
           /\ SavedIn(r, spent) = spent
  <2>1. UNCHANGED vars
    BY <1>3, <1>4 DEF vars
  <2>2. QED
    BY <1>3, <2>1, OthersStay
<1>5. ASSUME NEW t \in Task, RunningIn(sessions, {t}) # {},
             Books(r, RunningIn(sessions, {t}), sessions, spent, now)
      PROVE  [Next]_vars /\ RequestInv'
  <2> DEFINE I == FirstRunning({t})
  <2>1. /\ I = RunningIn(sessions, {t}) /\ Running({t}) = I
        /\ Ended(I, now) = EndedIn(sessions, I, now)
        /\ SpentWith(I, now) = SpentIn(sessions, spent, I, now)
    BY <1>1, SameOperators
  <2>2. /\ sessions' = EndedIn(sessions, RunningIn(sessions, {t}), now)
        /\ spent' = SpentIn(sessions, spent, RunningIn(sessions, {t}), now)
    BY <1>3, <1>5 DEF Books
  <2>3. StopTracking(t)
    BY <1>3, <1>5, <2>1, <2>2 DEF StopTracking
  <2>4. RequestInv'
    BY <1>2, <1>3, <1>5, <2>2, StoppedKeeps
  <2>5. QED
    BY <2>3, <2>4 DEF Next
<1>6. QED
  BY <1>2, <1>4, <1>5 DEF CommitsStop

-----------------------------------------------------------------------------
(* Every step implements Tracking.                                         *)

LEMMA StepImplements ==
  ASSUME Orderly, Inv, RequestInv, NextRequests
  PROVE  [Next]_vars /\ RequestInv'
<1>1. CASE TickRequests
  BY <1>1, TickKeeps DEF TickRequests, Next
<1>2. ASSUME NEW w \in Worker, NEW t \in Task, NEW kind \in Kinds \ {"change"},
             ReceiveTask(w, kind, t)
      PROVE  [Next]_vars /\ RequestInv'
  BY <1>2, ReceiveTaskKeeps DEF ReceiveTask
<1>3. ASSUME NEW w \in Worker, NEW i \in Existing, NEW from \in Typed, NEW to \in Typed \cup {Open},
             ReceiveChange(w, i, from, to)
      PROVE  [Next]_vars /\ RequestInv'
  BY <1>3, ReceiveChangeKeeps DEF ReceiveChange
<1>4. ASSUME NEW w \in Worker, Transact(w) PROVE [Next]_vars /\ RequestInv'
  BY <1>4, TransactKeeps
<1>5. ASSUME NEW w \in Worker, CommitTracking(w) PROVE [Next]_vars /\ RequestInv'
  <2>1. request[w].kind \in {"start", "stop", "complete"}
    BY <1>5 DEF CommitTracking, Committing, RequestInv, Kinds
  <2>2. QED
    BY <1>5, <2>1, CommitStart, CommitStop, CommitComplete
<1>6. ASSUME NEW w \in Worker, CommitChange(w) PROVE [Next]_vars /\ RequestInv'
  BY <1>6, CommitChangeIs
<1>7. QED
  BY <1>1, <1>2, <1>3, <1>4, <1>5, <1>6 DEF NextRequests

LEMMA StayKeeps == ASSUME RequestInv, UNCHANGED requestVars PROVE RequestInv'
<1>1. /\ request' = request /\ sessions' = sessions /\ spent' = spent
      /\ done' = done /\ now' = now /\ figures' = figures
  BY DEF requestVars, vars
<1>2. Busy' = Busy
  BY <1>1 DEF Busy
<1>3. QED
  BY <1>1, <1>2 DEF RequestInv, OnTasks

LEMMA RequestsAreSteps == ASSUME Orderly PROVE RequestSpec => Spec
<1>1. InitRequests => Init /\ Inv /\ RequestInv
  BY InitInv, InitRequestInv DEF InitRequests
<1>2. Inv /\ RequestInv /\ [NextRequests]_requestVars => [Next]_vars /\ Inv' /\ RequestInv'
  <2> SUFFICES ASSUME Inv, RequestInv, [NextRequests]_requestVars
               PROVE  [Next]_vars /\ Inv' /\ RequestInv'
    OBVIOUS
  <2>1. [Next]_vars /\ RequestInv'
    <3>1. CASE NextRequests
      BY <3>1, StepImplements
    <3>2. CASE UNCHANGED requestVars
      BY <3>2, StayKeeps DEF requestVars
    <3>3. QED
      BY <3>1, <3>2
  <2>2. QED
    BY <2>1, NextInv
<1>3. QED
  BY <1>1, <1>2, PTL DEF RequestSpec, Spec

-----------------------------------------------------------------------------
(* The instance Atomic says of the variables what Tracking says of them.   *)

LEMMA SameSum == \A f, S : Atomic!SumFunctionOnSet(f, S) = SumFunctionOnSet(f, S)
BY DEF Atomic!SumFunctionOnSet, SumFunctionOnSet, Atomic!FoldFunctionOnSet, FoldFunctionOnSet,
       Atomic!MapThenFoldSet, MapThenFoldSet

LEMMA SameTree ==
  /\ \A p, t : Atomic!Ancestors(p, t) = Ancestors(p, t)
  /\ \A p, t : Atomic!Below(p, t) = Below(p, t)
  /\ \A p, d, t : Atomic!FinishedAncestors(p, d, t) = FinishedAncestors(p, d, t)
  /\ \A p, d, t : Atomic!Reopened(p, d, t) = Reopened(p, d, t)
BY DEF Atomic!Ancestors, Ancestors, Atomic!Below, Below, Atomic!Children, Children,
       Atomic!Between, Between, Atomic!FinishedAncestors, FinishedAncestors,
       Atomic!Reopened, Reopened

LEMMA SameMax == \A S : Atomic!Max(S) = Max(S) /\ Atomic!Min(S) = Min(S)
BY DEF Atomic!Max, Max, Atomic!Min, Min

LEMMA SameSnapshot == \A sp, t : Atomic!Snapshot(sp, t) = Snapshot(sp, t)
BY SameSum, SameTree DEF Atomic!Snapshot, Snapshot, Atomic!SubtreeSpent, SubtreeSpent

LEMMA SameRunning ==
  \A T : /\ Atomic!Running(T) = Running(T)
         /\ Atomic!FirstRunning(T) = FirstRunning(T)
         /\ Atomic!RunningOf(T) = RunningOf(T)
BY DEF Atomic!Running, Running, Atomic!Existing, Existing, Atomic!FirstRunning, FirstRunning,
       Atomic!RunningOf, RunningOf

LEMMA SameEnded ==
  \A I, n : Atomic!Ended(I, n) = Ended(I, n) /\ Atomic!SpentWith(I, n) = SpentWith(I, n)
BY DEF Atomic!Ended, Ended, Atomic!SpentWith, SpentWith

LEMMA SameSnap ==
  \A i, m : /\ Atomic!SnappedStart(i, m) = SnappedStart(i, m)
            /\ Atomic!SnappedEnd(i, m) = SnappedEnd(i, m)
BY SameMax DEF Atomic!SnappedStart, SnappedStart, Atomic!SnappedEnd, SnappedEnd,
               Atomic!Existing, Existing, Atomic!WholeMinute, WholeMinute

LEMMA SameAllowed == \A i, m, n : Atomic!Allowed(i, m, n) <=> Allowed(i, m, n)
BY DEF Atomic!Allowed, Allowed, Atomic!InPast, InPast, Atomic!EndsAfterStart, EndsAfterStart,
       Atomic!OverlapsNone, OverlapsNone, Atomic!Until, Until, Atomic!Existing, Existing

LEMMA SameBook == \A t, c : Book(t, c) <=> Atomic!Book(t, c)
BY SameMax, SameSum, SameTree DEF Atomic!Book, Book, Atomic!SubtreeSpent, SubtreeSpent

LEMMA SameFinish == \A C, I, n : Finish(C, I, n) <=> Atomic!Finish(C, I, n)
BY SameSnapshot, SameEnded DEF Atomic!Finish, Finish

LEMMA SameActions ==
  /\ Tick <=> Atomic!Tick
  /\ \A t : StartTracking(t) <=> Atomic!StartTracking(t)
  /\ \A t : StopTracking(t) <=> Atomic!StopTracking(t)
  /\ \A t : CompleteTask(t) <=> Atomic!CompleteTask(t)
  /\ \A t : ReopenTask(t) <=> Atomic!ReopenTask(t)
  /\ \A t, at : PatchDone(t, at) <=> Atomic!PatchDone(t, at)
<1>1. Tick <=> Atomic!Tick
  BY DEF Tick, Atomic!Tick
<1>2. \A t : Blocked(t) <=> Atomic!Blocked(t)
  BY SameTree DEF Blocked, Atomic!Blocked
<1>3. \A t : StartTracking(t) <=> Atomic!StartTracking(t)
  BY <1>2, SameRunning, SameEnded
  DEF StartTracking, Atomic!StartTracking, Existing, Atomic!Existing
<1>4. \A t : StopTracking(t) <=> Atomic!StopTracking(t)
  BY SameRunning, SameEnded DEF StopTracking, Atomic!StopTracking
<1>5. \A t : CompleteTask(t) <=> Atomic!CompleteTask(t)
  BY SameTree, SameRunning, SameFinish DEF CompleteTask, Atomic!CompleteTask
<1>6. \A t : ReopenTask(t) <=> Atomic!ReopenTask(t)
  BY SameTree DEF ReopenTask, Atomic!ReopenTask
<1>7. \A t, at : PatchDone(t, at) <=> Atomic!PatchDone(t, at)
  BY SameTree, SameRunning, SameFinish DEF PatchDone, Atomic!PatchDone
<1>8. QED
  BY <1>1, <1>3, <1>4, <1>5, <1>6, <1>7

LEMMA SameCorrections ==
  /\ \A t, from, to : AddSession(t, from, to) <=> Atomic!AddSession(t, from, to)
  /\ \A i, from, to : ChangeSession(i, from, to) <=> Atomic!ChangeSession(i, from, to)
  /\ \A i : RemoveSession(i) <=> Atomic!RemoveSession(i)
<1>1. \A s : Booked(s) = Atomic!Booked(s)
  BY DEF Booked, Atomic!Booked
<1>2. \A t, from, to : AddSession(t, from, to) <=> Atomic!AddSession(t, from, to)
  BY SameSnap, SameAllowed, SameBook DEF AddSession, Atomic!AddSession, Existing, Atomic!Existing
<1>3. \A i, from, to : ChangeSession(i, from, to) <=> Atomic!ChangeSession(i, from, to)
  BY <1>1, SameSnap, SameAllowed, SameBook DEF ChangeSession, Atomic!ChangeSession
<1>4. \A i : RemoveSession(i) <=> Atomic!RemoveSession(i)
  BY <1>1, SameBook DEF RemoveSession, Atomic!RemoveSession
<1>5. QED
  BY <1>2, <1>3, <1>4

LEMMA SameSpec == Spec => Atomic!Spec
<1>1. Init => Atomic!Init
  BY DEF Init, Atomic!Init
<1>2. Next => Atomic!Next
  <2>1. Typed = Atomic!Typed /\ Patched = Atomic!Patched /\ Existing = Atomic!Existing
    BY DEF Typed, Atomic!Typed, Patched, Atomic!Patched, Existing, Atomic!Existing
  <2>2. QED
    BY <2>1, SameActions, SameCorrections DEF Next, Atomic!Next
<1>3. [Next]_vars => [Atomic!Next]_Atomic!vars
  BY <1>2 DEF vars, Atomic!vars
<1>4. QED
  BY <1>1, <1>3, PTL DEF Spec, Atomic!Spec

\* One request after the other - but for stops, which a browser may send again -,
\* the workers implement Tracking: whatever they have read before (api.py,
\* tracking.py, sessions.py), what they commit is one step of it, or none.
THEOREM RequestsOneByOne == ASSUME Orderly PROVE RequestSpec => OneByOne
BY RequestsAreSteps, SameSpec DEF OneByOne
=============================================================================
