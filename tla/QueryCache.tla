------------------------------ MODULE QueryCache ------------------------------
(* What the browser shows and what the server holds (queries.tsx, api.ts).   *)
(* Every list on screen is one entry of the query cache.  A change is sent   *)
(* by a hook, which says what it fetches again afterwards, what it takes     *)
(* from the answer, and what it shows before the answer.  Here the content   *)
(* of a list is only compared with the server's: "current", "old" (the       *)
(* server's has changed since) or "none".                                    *)
(*                                                                           *)
(* The hooks are the program's; the rules of the cache itself (Fetched,      *)
(* Invalidated, Cancelled, PutInto) are TanStack Query's.                    *)
EXTENDS FiniteSets, Naturals

CONSTANTS Call,          \* the changes of one session at the screen, each made once
          MaxWatched,    \* how many lists are looked at in a behaviour
          MaxFaults,     \* how many fetches fail and answers are lost
          MaxOthers,     \* how many changes another device makes
          PlanAccepted,  \* a plan is stored (else GET plan/ computes one each time)
          LoadedFirst,   \* changes begin once every list has been loaded
          LeavesEarly    \* a page is left while its list is being fetched

ASSUME CacheBounds ==
  /\ MaxWatched \in Nat /\ MaxFaults \in Nat /\ MaxOthers \in Nat
  /\ {PlanAccepted, LoadedFirst, LeavesEarly} \subseteq BOOLEAN

VARIABLES watched,   \* the lists this behaviour looks at
          mounted,   \* those of them some component on screen uses
          cache,     \* key -> entry
          calls,     \* call -> where the change is
          missed,    \* lists changed by something nobody fetches them for
          faults, others

vars == <<watched, mounted, cache, calls, missed, faults, others>>

Key == {"plan", "tasks", "dependencies", "tags", "bucketTypes", "settings", "markers", "calendars",
        "timeSheet", "sessions", "savedFilters"}

\* The header (tracker, light plan, zone) uses these on every page.
Header == {"plan", "tasks", "dependencies", "settings"}

(* ------------------------------ the hooks ------------------------------ *)
(* then: fetched again after the change; always: also after a refusal;      *)
(* puts: taken from the answer; guesses: shown before the answer; waits:    *)
(* the guess waits for the cancelled fetch.                                 *)
Refetching(keys) == [then |-> keys, always |-> FALSE, puts |-> {}, guesses |-> {}, waits |-> FALSE]
Putting(keys) == [Refetching({}) EXCEPT !.puts = keys]
\* Faulty: the list is fetched again only when the change was accepted.
GuessingOnSuccess(key, keys) == [Refetching(keys) EXCEPT !.guesses = {key}]

Guessing(key, keys) == [Refetching(keys) EXCEPT !.always = TRUE, !.guesses = {key}]

CalendarData == {"calendars", "tasks", "markers", "bucketTypes", "plan"}
\* Faulty: the tasks' time spent is forgotten.
TrackedTimeAlone == {"sessions", "timeSheet"}

TrackedTime == {"sessions", "tasks", "timeSheet"}

PlanHooks ==
  [useReplan |-> Putting({"plan"}), useAcceptPlan |-> Refetching({"plan"})]

TrackingHooks ==
  [useStartTracking |-> [Refetching(TrackedTime) EXCEPT !.puts = {"settings"}],
   useSplitTask     |-> Refetching({"tasks", "dependencies"}),
   useUpdateSettings |-> Putting({"settings"}),
   useStopTracking  |-> Refetching(TrackedTime),
   useCompleteTask  |-> Refetching(TrackedTime \cup {"settings"}),
   useReopenTask    |-> Refetching({"tasks", "settings"})]

TaskHooks ==
  [useCreateTask  |-> Refetching({"tasks"}),
   useUpdateTask  |-> Refetching(TrackedTime),
   useSetPriority |-> Guessing("tasks", {"tasks"}),
   useMoveTask    |-> Guessing("tasks", {"tasks", "settings"}),
   useDeleteTask  |-> Refetching(TrackedTime \cup {"dependencies"}),
   useMergeTasks  |-> Refetching(TrackedTime \cup {"dependencies", "settings"})]

DependencyHooks ==
  [useCreateDependency |-> [Guessing("dependencies", {"dependencies"}) EXCEPT !.waits = TRUE],
   useDeleteDependency |-> Refetching({"dependencies"})]

MasterDataHooks ==
  [useCreateTag |-> Refetching({"tags"}),
   useUpdateTag |-> Refetching({"tags"}),
   useDeleteTag |-> Refetching({"tags", "tasks", "bucketTypes"}),
   useCreateBucketType |-> Refetching({"plan", "bucketTypes"}),
   useUpdateBucketType |-> Refetching({"plan", "bucketTypes"}),
   useDeleteBucketType |-> Refetching({"plan", "bucketTypes"})]

CalendarHooks ==
  [useCreateMarker  |-> Refetching({"markers"}),
   useUpdateMarker  |-> Refetching({"markers", "tasks"}),
   useDeleteMarker  |-> Refetching({"markers", "tasks"}),
   useConvertMarker |-> Refetching({"markers", "bucketTypes", "tasks", "plan"}),
   useCreateCalendar |-> Refetching(CalendarData),
   useUpdateCalendar |-> Refetching(CalendarData),
   useDeleteCalendar |-> Refetching(CalendarData),
   useSyncCalendars  |-> Refetching(CalendarData)]

\* The timed read of the calendars: what changed is fetched again, else the
\* answer says how the calendars are.
SyncHooks ==
  [useCalendarSyncChanged |-> Refetching(CalendarData), useCalendarSyncIdle |-> Putting({"calendars"})]

SessionHooks ==
  [useCreateSession |-> Refetching(TrackedTime),
   useUpdateSession |-> Refetching(TrackedTime),
   useDeleteSession |-> Refetching(TrackedTime)]

FilterHooks ==
  [useSaveFilter |-> Refetching({"savedFilters"}), useDeleteSavedFilter |-> Refetching({"savedFilters"})]

\* The device's zone is sent once, as a change of the settings.
ZoneHooks == [useTimeZoneSync |-> [Putting({"settings"}) EXCEPT !.then = {"plan"}]]

\* The entries of two tables.
Joined(f, g) == [h \in DOMAIN f \cup DOMAIN g |-> IF h \in DOMAIN f THEN f[h] ELSE g[h]]

Hooks ==
  Joined(PlanHooks, Joined(TrackingHooks, Joined(TaskHooks, Joined(DependencyHooks,
    Joined(MasterDataHooks, Joined(CalendarHooks, Joined(SyncHooks,
      Joined(SessionHooks, Joined(FilterHooks, ZoneHooks)))))))))
Hook == DOMAIN Hooks

(* ------------------- what each request changes at the server ------------------- *)
Booked == {"sessions", "tasks", "timeSheet"}

PlanChanges == [useReplan |-> {"plan"}, useAcceptPlan |-> {"plan"}]

TrackingChanges ==
  [useStartTracking |-> Booked \cup {"settings"},
   useSplitTask     |-> {"tasks", "dependencies", "settings"},
   useUpdateSettings |-> {"settings"},
   useStopTracking  |-> Booked,
   useCompleteTask  |-> Booked \cup {"settings"},
   useReopenTask    |-> {"tasks", "settings"}]

TaskChanges ==
  [useCreateTask  |-> {"tasks", "markers"},
   useUpdateTask  |-> Booked \cup {"markers"},
   useSetPriority |-> {"tasks"},
   useMoveTask    |-> {"tasks", "settings", "timeSheet"},
   useDeleteTask  |-> Booked \cup {"dependencies", "settings", "markers"},
   useMergeTasks  |-> Booked \cup {"dependencies", "settings", "markers"}]

DependencyChanges ==
  [useCreateDependency |-> {"dependencies"}, useDeleteDependency |-> {"dependencies"}]

\* Events come and go: markers, tasks and types for them.
Synced == {"calendars", "tasks", "markers", "bucketTypes", "plan"}

MasterDataChanges ==
  [useCreateTag |-> {"tags"},
   useUpdateTag |-> {"tags", "tasks", "bucketTypes", "timeSheet", "sessions"},
   useDeleteTag |-> {"tags", "tasks", "bucketTypes", "timeSheet", "sessions"},
   useCreateBucketType |-> {"bucketTypes", "plan"},
   useUpdateBucketType |-> {"bucketTypes", "plan"},
   useDeleteBucketType |-> {"bucketTypes", "plan"}]

CalendarChanges ==
  [useCreateMarker  |-> {"markers"},
   useUpdateMarker  |-> {"markers", "tasks"},
   useDeleteMarker  |-> {"markers", "tasks"},
   useConvertMarker |-> {"markers", "tasks", "bucketTypes", "plan"},
   useCreateCalendar |-> Synced,
   useUpdateCalendar |-> Synced,
   useDeleteCalendar |-> Synced,
   useSyncCalendars  |-> Synced]

SyncChanges == [useCalendarSyncChanged |-> Synced, useCalendarSyncIdle |-> {}]

SessionChanges == [useCreateSession |-> Booked, useUpdateSession |-> Booked, useDeleteSession |-> Booked]

FilterChanges == [useSaveFilter |-> {"savedFilters"}, useDeleteSavedFilter |-> {"savedFilters"}]

ZoneChanges == [useTimeZoneSync |-> {"settings", "plan"}]

Stored ==
  Joined(PlanChanges, Joined(TrackingChanges, Joined(TaskChanges, Joined(DependencyChanges,
    Joined(MasterDataChanges, Joined(CalendarChanges, Joined(SyncChanges,
      Joined(SessionChanges, Joined(FilterChanges, ZoneChanges)))))))))

\* Without an accepted plan GET plan/ packs the tasks as they are now.
Scheduled == {"tasks", "dependencies", "bucketTypes"}
Changes(h) == Stored[h] \cup (IF ~PlanAccepted /\ Stored[h] \cap Scheduled # {} THEN {"plan"} ELSE {})

(* Lists a change alters without fetching them again: a tag's new name on    *)
(* the tasks, types and sessions that bear it; a time sheet whose task moved *)
(* below another tag; how many deadlines hang on a marker; the active        *)
(* project that went with a deleted or split task (the poll finds that).     *)
NotFollowed(h) ==
  {k \in Key :
     \/ h = "useUpdateTag" /\ k \in {"tasks", "bucketTypes", "timeSheet", "sessions"}
     \/ h = "useDeleteTag" /\ k \in {"timeSheet", "sessions"}
     \/ h = "useMoveTask" /\ k = "timeSheet"
     \/ h \in {"useCreateTask", "useUpdateTask", "useMergeTasks"} /\ k = "markers"
     \/ h = "useDeleteTask" /\ k \in {"settings", "markers"}
     \/ h = "useSplitTask" /\ k = "settings"}

(* ----------------------------- one cache entry ----------------------------- *)
(* data: what is shown; guesses: the changes shown before their answer;        *)
(* invalid: known to be out of date; fresh: younger than staleTime;            *)
(* fetch: "asked" until the server reads, then what it read.                   *)
Entry == [data : {"none", "current", "old"}, guesses : SUBSET Call, invalid : BOOLEAN, fresh : BOOLEAN,
          fetch : {"idle", "asked", "current", "old"}]
EmptyEntry == [data |-> "none", guesses |-> {}, invalid |-> FALSE, fresh |-> FALSE, fetch |-> "idle"]

Aged(content) == IF content = "current" THEN "old" ELSE content
ChangedBehind(e) == [e EXCEPT !.data = Aged(@), !.fetch = Aged(@)]

\* A fetch that runs already is not started twice.
Fetched(e) == IF e.fetch = "idle" THEN [e EXCEPT !.fetch = "asked"] ELSE e
Cancelled(e) == [e EXCEPT !.fetch = "idle"]
PutInto(e, content, shown) ==
  [e EXCEPT !.data = content, !.guesses = shown, !.invalid = FALSE, !.fresh = TRUE]

\* invalidateQueries: a running fetch is started again, except the first one;
\* a list that no component uses is fetched when one does again.
Invalidated(k, e) ==
  LET marked == [e EXCEPT !.invalid = (e # EmptyEntry)] IN
  IF k \notin mounted THEN marked
  ELSE IF e.data = "none" THEN Fetched(marked)
  ELSE [marked EXCEPT !.fetch = "asked"]

(* -------------------------------- the calls -------------------------------- *)
CallState ==
  [hook : Hook \cup {"none"},
   phase : {"unused", "preparing", "sent", "applied", "refused", "done"},
   before : [data : {"none", "current", "old"}, guesses : SUBSET Call],
   answer : {"none", "current", "old"}]
Unused == [hook |-> "none", phase |-> "unused", before |-> [data |-> "none", guesses |-> {}], answer |-> "none"]

TypeOK ==
  /\ watched \subseteq Key /\ mounted \subseteq watched
  /\ cache \in [watched -> Entry]
  /\ calls \in [Call -> CallState]
  /\ missed \subseteq watched
  /\ faults \in 0..MaxFaults /\ others \in 0..MaxOthers

Init ==
  /\ watched \in {W \in SUBSET Key : Cardinality(W) = MaxWatched}
  /\ mounted = watched
  /\ cache = [k \in watched |-> Fetched(EmptyEntry)]
  /\ calls = [c \in Call |-> Unused]
  /\ missed = {} /\ faults = 0 /\ others = 0

Concerns(h) == (Changes(h) \cup Hooks[h].then \cup Hooks[h].puts) \cap watched # {}
Running(c) == calls[c].phase \in {"preparing", "sent", "applied", "refused"}

\* "Re-plan" is disabled while it runs, as are these others.
Disabled(h) ==
  /\ h \in {"useReplan", "useAcceptPlan", "useSyncCalendars", "useSaveFilter", "useDeleteSavedFilter"}
  /\ \E c \in Call : Running(c) /\ calls[c].hook = h

\* What is shown at once, and kept to come back to.
Guessed(c, e) ==
  IF e.data = "none" THEN e ELSE PutInto(e, e.data, e.guesses \cup {c})
Shown(e) == [data |-> e.data, guesses |-> e.guesses]

\* mutate(): the optimistic hooks cancel the fetch under way and show their
\* change; useCreateDependency waits in between.
Mutate(c, h) ==
  LET guessed == Hooks[h].guesses \cap watched IN
  /\ calls[c].phase = "unused"
  /\ Concerns(h) /\ ~Disabled(h)
  /\ LoadedFirst => \A k \in watched : cache[k].data # "none"
  /\ IF Hooks[h].waits
     THEN /\ cache' = [k \in watched |-> IF k \in guessed THEN Cancelled(cache[k]) ELSE cache[k]]
          /\ calls' = [calls EXCEPT ![c] = [Unused EXCEPT !.hook = h, !.phase = "preparing"]]
     ELSE /\ cache' = [k \in watched |->
                         IF k \in guessed THEN Guessed(c, Cancelled(cache[k])) ELSE cache[k]]
          /\ calls' = [calls EXCEPT ![c] =
                         [Unused EXCEPT !.hook = h, !.phase = "sent",
                                        !.before = IF guessed = {} THEN @
                                                   ELSE Shown(cache[CHOOSE k \in guessed : TRUE])]]
  /\ UNCHANGED <<watched, mounted, missed, faults, others>>

\* useCreateDependency after the wait: the new edge joins what is there, or
\* stands alone when nothing is.
Prepared(c) ==
  LET guessed == Hooks[calls[c].hook].guesses \cap watched
      WithEdge(e) == PutInto(e, IF e.data = "none" THEN "old" ELSE e.data, e.guesses \cup {c}) IN
  /\ calls[c].phase = "preparing"
  /\ cache' = [k \in watched |-> IF k \in guessed THEN WithEdge(cache[k]) ELSE cache[k]]
  /\ calls' = [calls EXCEPT ![c].phase = "sent",
                            ![c].before = IF guessed = {} THEN @
                                          ELSE Shown(cache[CHOOSE k \in guessed : TRUE])]
  /\ UNCHANGED <<watched, mounted, missed, faults, others>>

\* Everything read before a change is old after it: lists, fetches under way,
\* snapshots to come back to and answers on their way.
ChangeServer(keys) ==
  cache' = [k \in watched |-> IF k \in keys THEN ChangedBehind(cache[k]) ELSE cache[k]]
AgedShown(shown) == [shown EXCEPT !.data = Aged(@)]
AgedCall(c, keys) ==
  LET about == Hooks[calls[c].hook].guesses \cup Hooks[calls[c].hook].puts IN
  IF Running(c) /\ about \cap keys \cap watched # {}
  THEN [calls[c] EXCEPT !.before = AgedShown(@), !.answer = Aged(@)]
  ELSE calls[c]

Apply(c) ==
  LET keys == Changes(calls[c].hook) IN
  /\ calls[c].phase = "sent"
  /\ ChangeServer(keys)
  /\ calls' = [d \in Call |-> IF d = c THEN [AgedCall(c, keys) EXCEPT !.phase = "applied", !.answer = "current"]
                                       ELSE AgedCall(d, keys)]
  /\ missed' = missed \cup (NotFollowed(calls[c].hook) \cap watched)
  /\ UNCHANGED <<watched, mounted, faults, others>>

\* The server refuses, or the request never reaches it.
Refuse(c) ==
  /\ calls[c].phase = "sent"
  /\ calls' = [calls EXCEPT ![c].phase = "refused"]
  /\ UNCHANGED <<watched, mounted, cache, missed, faults, others>>

\* The change was made, but its answer is lost: the hook sees an error.
LoseAnswer(c) ==
  LET h == calls[c].hook IN
  /\ calls[c].phase = "applied"
  /\ faults < MaxFaults
  /\ faults' = faults + 1
  /\ calls' = [calls EXCEPT ![c].phase = "refused"]
  /\ missed' = IF Hooks[h].always THEN missed ELSE missed \cup (Changes(h) \cap watched)
  /\ UNCHANGED <<watched, mounted, cache, others>>

\* onSuccess, then onSettled.
Answered(c) ==
  LET h == calls[c].hook
      Taken(k) == IF k \in Hooks[h].puts THEN PutInto(cache[k], calls[c].answer, {}) ELSE cache[k] IN
  /\ calls[c].phase = "applied"
  /\ cache' = [k \in watched |-> IF k \in Hooks[h].then THEN Invalidated(k, Taken(k)) ELSE Taken(k)]
  /\ calls' = [calls EXCEPT ![c] = [Unused EXCEPT !.phase = "done"]]
  /\ UNCHANGED <<watched, mounted, missed, faults, others>>

\* onError puts the snapshot back (setting nothing when there was none).
RolledBack(e, before) ==
  IF before.data = "none" THEN e ELSE PutInto(e, before.data, before.guesses)

Failed(c) ==
  LET h == calls[c].hook
      Back(k) == IF k \in Hooks[h].guesses THEN RolledBack(cache[k], calls[c].before) ELSE cache[k] IN
  /\ calls[c].phase = "refused"
  /\ cache' = [k \in watched |-> IF Hooks[h].always /\ k \in Hooks[h].then
                                 THEN Invalidated(k, Back(k)) ELSE Back(k)]
  /\ calls' = [calls EXCEPT ![c] = [Unused EXCEPT !.phase = "done"]]
  /\ UNCHANGED <<watched, mounted, missed, faults, others>>

(* ------------------------------- the fetches ------------------------------- *)
ServerReads(k) ==
  /\ cache[k].fetch = "asked"
  /\ cache' = [cache EXCEPT ![k].fetch = "current"]
  /\ UNCHANGED <<watched, mounted, calls, missed, faults, others>>

Arrives(k) ==
  /\ cache[k].fetch \in {"current", "old"}
  /\ cache' = [cache EXCEPT ![k] = Cancelled(PutInto(@, @.fetch, {}))]
  /\ missed' = IF cache[k].fetch = "current" THEN missed \ {k} ELSE missed
  /\ UNCHANGED <<watched, mounted, calls, faults, others>>

\* Every retry failed: the list stays as it is and counts as out of date.
FetchFails(k) ==
  /\ cache[k].fetch # "idle" /\ faults < MaxFaults
  /\ cache' = [cache EXCEPT ![k].fetch = "idle", ![k].invalid = TRUE]
  /\ faults' = faults + 1
  /\ UNCHANGED <<watched, mounted, calls, missed, others>>

\* Other devices change the settings; every 30 s they are asked for.
OtherDevice ==
  /\ others < MaxOthers /\ others' = others + 1
  /\ ChangeServer({"settings"})
  /\ calls' = [c \in Call |-> IF Running(c) THEN AgedCall(c, {"settings"}) ELSE calls[c]]
  /\ UNCHANGED <<watched, mounted, missed, faults>>

Poll ==
  /\ "settings" \in mounted
  /\ cache["settings"].fetch = "idle"
  /\ cache' = [cache EXCEPT !["settings"].fetch = "asked"]
  /\ UNCHANGED <<watched, mounted, calls, missed, faults, others>>

(* -------------------------- pages come and go -------------------------- *)
Ages(k) ==
  /\ cache[k].fresh
  /\ cache' = [cache EXCEPT ![k].fresh = FALSE]
  /\ UNCHANGED <<watched, mounted, calls, missed, faults, others>>

Leave(k) ==
  /\ k \in mounted \ Header
  /\ LeavesEarly \/ cache[k].fetch = "idle"
  /\ mounted' = mounted \ {k}
  /\ UNCHANGED <<watched, cache, calls, missed, faults, others>>

Visit(k) ==
  LET e == cache[k] IN
  /\ k \in watched \ mounted
  /\ mounted' = mounted \cup {k}
  /\ cache' = [cache EXCEPT ![k] = IF e.data = "none" \/ e.invalid \/ ~e.fresh THEN Fetched(e) ELSE e]
  /\ UNCHANGED <<watched, calls, missed, faults, others>>

Next ==
  \/ \E c \in Call, h \in Hook : Mutate(c, h)
  \/ \E c \in Call : Prepared(c) \/ Apply(c) \/ Refuse(c) \/ LoseAnswer(c) \/ Answered(c) \/ Failed(c)
  \/ \E k \in watched : ServerReads(k) \/ Arrives(k) \/ FetchFails(k) \/ Ages(k) \/ Leave(k) \/ Visit(k)
  \/ OtherDevice \/ Poll

(* A call that was made gets on, a fetch is answered, the timer of the       *)
(* settings fires.  Users and other devices need not do anything.            *)
Fairness ==
  /\ \A c \in Call : WF_vars(Prepared(c)) /\ WF_vars(Apply(c) \/ Refuse(c)) /\ WF_vars(Answered(c) \/ Failed(c))
  /\ \A k \in Key : WF_vars(k \in watched /\ (ServerReads(k) \/ Arrives(k)))
  /\ WF_vars(Poll)

Spec == Init /\ [][Next]_vars /\ Fairness

(* ------------------------------- properties ------------------------------- *)
\* Lists that only fetches and guesses fill: not taken from other answers.
Listed == Key \ {"plan", "settings", "calendars"}

OnItsWay(k) ==
  \/ cache[k].invalid
  \/ cache[k].fetch \in {"asked", "current"}
  \/ \E c \in Call : Running(c) /\ k \in Hooks[calls[c].hook].then \cup Hooks[calls[c].hook].puts

\* A list on screen is never silently out of date: while the server holds
\* something newer that this browser changed, the list is marked, being
\* fetched, or a change under way will fetch it (queries.tsx, rule A7 and the
\* hooks' invalidations), but for the lists NotFollowed and LoseAnswer name.
StaleIsKnown ==
  \A k \in Listed \cap mounted : cache[k].data = "old" => OnItsWay(k) \/ k \in missed

\* Once the changes end, each list shows what the server holds, or says that
\* its last fetch failed.
SettlesDown ==
  <>[](\A k \in Listed \cap mounted :
         cache[k].data = "current" \/ cache[k].invalid \/ k \in missed)

=============================================================================
