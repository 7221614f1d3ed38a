-------------------------- MODULE QueryCacheProofs --------------------------
(* No list on screen is silently out of date, whatever lists are looked at,  *)
(* however many changes are under way at once, and however many fetches and  *)
(* answers are lost.                                                         *)
(*                                                                           *)
(* The table of the hooks is read once: every hook fetches again what its    *)
(* change alters (HooksFollow).  The invariant then says of each list why it *)
(* will be put right (KeptUp).                                               *)
EXTENDS QueryCache, TLAPS

-----------------------------------------------------------------------------
(* One hook and what its change alters: what is shown before the answer is   *)
(* fetched again whatever becomes of the change, no list is taken from the   *)
(* answer, and each list that was altered is fetched again or is one of      *)
(* those the hook forgets (NotFollowed).                                     *)
Follows(h, hook, changes) ==
  /\ \A k \in hook.guesses : hook.always /\ k \in hook.then
  /\ hook.puts \cap Listed = {}
  /\ changes \cap Listed \subseteq hook.then \cup NotFollowed(h)

Row(hooks, changes, h) == Follows(h, hooks[h], changes[h])

AllFollow(hooks, changes) ==
  /\ DOMAIN hooks = DOMAIN changes
  /\ \A h \in DOMAIN hooks : Row(hooks, changes, h)

\* A hook of each kind.
LEMMA FollowsWhenRefetched ==
  ASSUME NEW h, NEW keys, NEW changes, changes \cap Listed \subseteq keys \cup NotFollowed(h)
  PROVE  Follows(h, Refetching(keys), changes)
BY DEF Follows, Refetching

LEMMA FollowsWhenPut ==
  ASSUME NEW h, NEW keys, NEW changes, keys \cap Listed = {}, changes \cap Listed \subseteq NotFollowed(h)
  PROVE  Follows(h, Putting(keys), changes)
BY DEF Follows, Refetching, Putting

LEMMA FollowsWhenBoth ==
  ASSUME NEW h, NEW keys, NEW taken, NEW changes,
         taken \cap Listed = {}, changes \cap Listed \subseteq keys \cup NotFollowed(h)
  PROVE  /\ Follows(h, [Refetching(keys) EXCEPT !.puts = taken], changes)
         /\ Follows(h, [Putting(taken) EXCEPT !.then = keys], changes)
BY DEF Follows, Refetching, Putting

LEMMA FollowsWhenGuessed ==
  ASSUME NEW h, NEW key, NEW keys, NEW changes,
         key \in keys, changes \cap Listed \subseteq keys \cup NotFollowed(h)
  PROVE  Follows(h, Guessing(key, keys), changes)
BY DEF Follows, Refetching, Guessing

LEMMA FollowsWhenWaiting ==
  ASSUME NEW h, NEW key, NEW keys, NEW changes,
         key \in keys, changes \cap Listed \subseteq keys \cup NotFollowed(h)
  PROVE  Follows(h, [Guessing(key, keys) EXCEPT !.waits = TRUE], changes)
BY DEF Follows, Refetching, Guessing

\* The hooks of each table.
LEMMA PlanFollow == AllFollow(PlanHooks, PlanChanges)
<1>1. DOMAIN PlanHooks = DOMAIN PlanChanges
  BY DEF PlanHooks, PlanChanges
<1>2. /\ Row(PlanHooks, PlanChanges, "useReplan")
      /\ Row(PlanHooks, PlanChanges, "useAcceptPlan")
  BY FollowsWhenRefetched, FollowsWhenPut, FollowsWhenBoth, FollowsWhenGuessed
     DEF Row, PlanHooks, PlanChanges, NotFollowed, Key, Listed
<1>3. QED
  BY <1>1, <1>2 DEF AllFollow, PlanHooks

LEMMA TrackingFollow == AllFollow(TrackingHooks, TrackingChanges)
<1>1. DOMAIN TrackingHooks = DOMAIN TrackingChanges
  BY DEF TrackingHooks, TrackingChanges
<1>2. /\ Row(TrackingHooks, TrackingChanges, "useStartTracking")
      /\ Row(TrackingHooks, TrackingChanges, "useSplitTask")
      /\ Row(TrackingHooks, TrackingChanges, "useUpdateSettings")
      /\ Row(TrackingHooks, TrackingChanges, "useStopTracking")
      /\ Row(TrackingHooks, TrackingChanges, "useCompleteTask")
      /\ Row(TrackingHooks, TrackingChanges, "useReopenTask")
  BY FollowsWhenRefetched, FollowsWhenPut, FollowsWhenBoth, FollowsWhenGuessed
     DEF Row, TrackingHooks, TrackingChanges, Booked, TrackedTime, NotFollowed, Key, Listed
<1>3. QED
  BY <1>1, <1>2 DEF AllFollow, TrackingHooks

LEMMA TaskFollow == AllFollow(TaskHooks, TaskChanges)
<1>1. DOMAIN TaskHooks = DOMAIN TaskChanges
  BY DEF TaskHooks, TaskChanges
<1>2. /\ Row(TaskHooks, TaskChanges, "useCreateTask")
      /\ Row(TaskHooks, TaskChanges, "useUpdateTask")
      /\ Row(TaskHooks, TaskChanges, "useDeleteTask")
      /\ Row(TaskHooks, TaskChanges, "useMergeTasks")
  BY FollowsWhenRefetched
     DEF Row, TaskHooks, TaskChanges, Booked, TrackedTime, NotFollowed, Key, Listed
<1>3. Row(TaskHooks, TaskChanges, "useSetPriority")
  <2>1. {"tasks"} \cap Listed \subseteq {"tasks"} \cup NotFollowed("useSetPriority")
    OBVIOUS
  <2>2. Follows("useSetPriority", Guessing("tasks", {"tasks"}), {"tasks"})
    BY <2>1, FollowsWhenGuessed
  <2>3. QED
    BY <2>2 DEF Row, TaskHooks, TaskChanges
<1>4. Row(TaskHooks, TaskChanges, "useMoveTask")
  <2>1. {"tasks", "settings", "timeSheet"} \cap Listed
          \subseteq {"tasks", "settings"} \cup NotFollowed("useMoveTask")
    BY DEF NotFollowed, Key, Listed
  <2>2. Follows("useMoveTask", Guessing("tasks", {"tasks", "settings"}),
                {"tasks", "settings", "timeSheet"})
    BY <2>1, FollowsWhenGuessed
  <2>3. QED
    BY <2>2 DEF Row, TaskHooks, TaskChanges
<1>5. QED
  BY <1>1, <1>2, <1>3, <1>4 DEF AllFollow, TaskHooks

LEMMA DependencyFollow == AllFollow(DependencyHooks, DependencyChanges)
<1>1. DOMAIN DependencyHooks = DOMAIN DependencyChanges
  BY DEF DependencyHooks, DependencyChanges
<1>2. Row(DependencyHooks, DependencyChanges, "useDeleteDependency")
  BY FollowsWhenRefetched DEF Row, DependencyHooks, DependencyChanges
<1>3. Row(DependencyHooks, DependencyChanges, "useCreateDependency")
  <2>1. Follows("useCreateDependency",
                [Guessing("dependencies", {"dependencies"}) EXCEPT !.waits = TRUE],
                {"dependencies"})
    BY FollowsWhenWaiting
  <2>2. QED
    BY <2>1 DEF Row, DependencyHooks, DependencyChanges
<1>4. QED
  BY <1>1, <1>2, <1>3 DEF AllFollow, DependencyHooks

LEMMA MasterDataFollow == AllFollow(MasterDataHooks, MasterDataChanges)
<1>1. DOMAIN MasterDataHooks = DOMAIN MasterDataChanges
  BY DEF MasterDataHooks, MasterDataChanges
<1>2. /\ Row(MasterDataHooks, MasterDataChanges, "useCreateTag")
      /\ Row(MasterDataHooks, MasterDataChanges, "useUpdateTag")
      /\ Row(MasterDataHooks, MasterDataChanges, "useDeleteTag")
      /\ Row(MasterDataHooks, MasterDataChanges, "useCreateBucketType")
      /\ Row(MasterDataHooks, MasterDataChanges, "useUpdateBucketType")
      /\ Row(MasterDataHooks, MasterDataChanges, "useDeleteBucketType")
  BY FollowsWhenRefetched, FollowsWhenPut, FollowsWhenBoth, FollowsWhenGuessed
     DEF Row, MasterDataHooks, MasterDataChanges, NotFollowed, Key, Listed
<1>3. QED
  BY <1>1, <1>2 DEF AllFollow, MasterDataHooks

LEMMA CalendarFollow == AllFollow(CalendarHooks, CalendarChanges)
<1>1. DOMAIN CalendarHooks = DOMAIN CalendarChanges
  BY DEF CalendarHooks, CalendarChanges
<1>2. /\ Row(CalendarHooks, CalendarChanges, "useCreateMarker")
      /\ Row(CalendarHooks, CalendarChanges, "useUpdateMarker")
      /\ Row(CalendarHooks, CalendarChanges, "useDeleteMarker")
      /\ Row(CalendarHooks, CalendarChanges, "useConvertMarker")
      /\ Row(CalendarHooks, CalendarChanges, "useCreateCalendar")
      /\ Row(CalendarHooks, CalendarChanges, "useUpdateCalendar")
      /\ Row(CalendarHooks, CalendarChanges, "useDeleteCalendar")
      /\ Row(CalendarHooks, CalendarChanges, "useSyncCalendars")
  BY FollowsWhenRefetched, FollowsWhenPut, FollowsWhenBoth, FollowsWhenGuessed
     DEF Row, CalendarHooks, CalendarChanges, CalendarData, Synced, NotFollowed, Key, Listed
<1>3. QED
  BY <1>1, <1>2 DEF AllFollow, CalendarHooks

LEMMA SyncFollow == AllFollow(SyncHooks, SyncChanges)
<1>1. DOMAIN SyncHooks = DOMAIN SyncChanges
  BY DEF SyncHooks, SyncChanges
<1>2. /\ Row(SyncHooks, SyncChanges, "useCalendarSyncChanged")
      /\ Row(SyncHooks, SyncChanges, "useCalendarSyncIdle")
  BY FollowsWhenRefetched, FollowsWhenPut, FollowsWhenBoth, FollowsWhenGuessed
     DEF Row, SyncHooks, SyncChanges, CalendarData, Synced, NotFollowed, Key, Listed
<1>3. QED
  BY <1>1, <1>2 DEF AllFollow, SyncHooks

LEMMA SessionFollow == AllFollow(SessionHooks, SessionChanges)
<1>1. DOMAIN SessionHooks = DOMAIN SessionChanges
  BY DEF SessionHooks, SessionChanges
<1>2. /\ Row(SessionHooks, SessionChanges, "useCreateSession")
      /\ Row(SessionHooks, SessionChanges, "useUpdateSession")
      /\ Row(SessionHooks, SessionChanges, "useDeleteSession")
  BY FollowsWhenRefetched, FollowsWhenPut, FollowsWhenBoth, FollowsWhenGuessed
     DEF Row, SessionHooks, SessionChanges, Booked, TrackedTime, NotFollowed, Key, Listed
<1>3. QED
  BY <1>1, <1>2 DEF AllFollow, SessionHooks

LEMMA FilterFollow == AllFollow(FilterHooks, FilterChanges)
<1>1. DOMAIN FilterHooks = DOMAIN FilterChanges
  BY DEF FilterHooks, FilterChanges
<1>2. /\ Row(FilterHooks, FilterChanges, "useSaveFilter")
      /\ Row(FilterHooks, FilterChanges, "useDeleteSavedFilter")
  BY FollowsWhenRefetched, FollowsWhenPut, FollowsWhenBoth, FollowsWhenGuessed
     DEF Row, FilterHooks, FilterChanges, NotFollowed, Key, Listed
<1>3. QED
  BY <1>1, <1>2 DEF AllFollow, FilterHooks

LEMMA ZoneFollow == AllFollow(ZoneHooks, ZoneChanges)
<1>1. DOMAIN ZoneHooks = DOMAIN ZoneChanges
  BY DEF ZoneHooks, ZoneChanges
<1>2. /\ Row(ZoneHooks, ZoneChanges, "useTimeZoneSync")
  BY FollowsWhenRefetched, FollowsWhenPut, FollowsWhenBoth, FollowsWhenGuessed
     DEF Row, ZoneHooks, ZoneChanges, NotFollowed, Key, Listed
<1>3. QED
  BY <1>1, <1>2 DEF AllFollow, ZoneHooks

\* And of all tables.
LEMMA JoinedFollow ==
  ASSUME NEW f, NEW g, NEW cf, NEW cg, AllFollow(f, cf), AllFollow(g, cg)
  PROVE  AllFollow(Joined(f, g), Joined(cf, cg))
BY DEF AllFollow, Row, Joined

LEMMA HooksFollow == AllFollow(Hooks, Stored)
<1> DEFINE
     FromFilterHooks == Joined(FilterHooks, ZoneHooks)
     FromFilterChanges == Joined(FilterChanges, ZoneChanges)
     FromSessionHooks == Joined(SessionHooks, FromFilterHooks)
     FromSessionChanges == Joined(SessionChanges, FromFilterChanges)
     FromSyncHooks == Joined(SyncHooks, FromSessionHooks)
     FromSyncChanges == Joined(SyncChanges, FromSessionChanges)
     FromCalendarHooks == Joined(CalendarHooks, FromSyncHooks)
     FromCalendarChanges == Joined(CalendarChanges, FromSyncChanges)
     FromMasterDataHooks == Joined(MasterDataHooks, FromCalendarHooks)
     FromMasterDataChanges == Joined(MasterDataChanges, FromCalendarChanges)
     FromDependencyHooks == Joined(DependencyHooks, FromMasterDataHooks)
     FromDependencyChanges == Joined(DependencyChanges, FromMasterDataChanges)
     FromTaskHooks == Joined(TaskHooks, FromDependencyHooks)
     FromTaskChanges == Joined(TaskChanges, FromDependencyChanges)
     FromTrackingHooks == Joined(TrackingHooks, FromTaskHooks)
     FromTrackingChanges == Joined(TrackingChanges, FromTaskChanges)
<1>1. AllFollow(FromFilterHooks, FromFilterChanges)
  BY FilterFollow, ZoneFollow, JoinedFollow
<1>2. AllFollow(FromSessionHooks, FromSessionChanges)
  BY SessionFollow, <1>1, JoinedFollow
<1>3. AllFollow(FromSyncHooks, FromSyncChanges)
  BY SyncFollow, <1>2, JoinedFollow
<1>4. AllFollow(FromCalendarHooks, FromCalendarChanges)
  BY CalendarFollow, <1>3, JoinedFollow
<1>5. AllFollow(FromMasterDataHooks, FromMasterDataChanges)
  BY MasterDataFollow, <1>4, JoinedFollow
<1>6. AllFollow(FromDependencyHooks, FromDependencyChanges)
  BY DependencyFollow, <1>5, JoinedFollow
<1>7. AllFollow(FromTaskHooks, FromTaskChanges)
  BY TaskFollow, <1>6, JoinedFollow
<1>8. AllFollow(FromTrackingHooks, FromTrackingChanges)
  BY TrackingFollow, <1>7, JoinedFollow
<1>9. AllFollow(Joined(PlanHooks, FromTrackingHooks), Joined(PlanChanges, FromTrackingChanges))
  BY PlanFollow, <1>8, JoinedFollow
<1>10. QED
  BY <1>9 DEF Hooks, Stored

-----------------------------------------------------------------------------
(* What each rule of the cache makes of an entry.                            *)
Content == {"none", "current", "old"}

LEMMA EntryShape ==
  ASSUME NEW e \in Entry
  PROVE  /\ e.data \in Content /\ e.guesses \subseteq Call
         /\ e.invalid \in BOOLEAN /\ e.fresh \in BOOLEAN
         /\ e.fetch \in {"idle", "asked", "current", "old"}
BY DEF Entry, Content

LEMMA AgedContent ==
  /\ \A content \in Content : Aged(content) \in Content /\ (content # "none" => Aged(content) # "none")
  /\ \A fetch \in {"idle", "asked", "current", "old"} : Aged(fetch) \in {"idle", "asked", "current", "old"}
BY DEF Aged, Content

LEMMA EntryRules ==
  ASSUME NEW e \in Entry
  PROVE  /\ ChangedBehind(e) \in Entry
         /\ ChangedBehind(e).data = Aged(e.data) /\ ChangedBehind(e).fetch = Aged(e.fetch)
         /\ ChangedBehind(e).invalid = e.invalid
         /\ Fetched(e) \in Entry /\ Fetched(e).data = e.data /\ Fetched(e).invalid = e.invalid
         /\ e.fetch = "idle" => Fetched(e).fetch = "asked"
         /\ e.fetch # "idle" => Fetched(e).fetch = e.fetch
         /\ Cancelled(e) \in Entry /\ Cancelled(e).data = e.data /\ Cancelled(e).fetch = "idle"
         /\ Cancelled(e).invalid = e.invalid /\ Cancelled(e).guesses = e.guesses
<1>1. Aged(e.data) \in Content /\ Aged(e.fetch) \in {"idle", "asked", "current", "old"}
  BY EntryShape, AgedContent
<1>2. QED
  BY <1>1 DEF ChangedBehind, Fetched, Cancelled, Entry, Content

LEMMA PutRule ==
  ASSUME NEW e \in Entry, NEW content \in Content, NEW shown \in SUBSET Call
  PROVE  /\ PutInto(e, content, shown) \in Entry
         /\ PutInto(e, content, shown).data = content
         /\ PutInto(e, content, shown).fetch = e.fetch
BY DEF PutInto, Entry, Content

LEMMA InvalidatedRule ==
  ASSUME NEW e \in Entry, NEW k
  PROVE  /\ Invalidated(k, e) \in Entry
         /\ Invalidated(k, e).data = e.data
         /\ k \in mounted /\ e.data # "none" => Invalidated(k, e).fetch = "asked"
         /\ k \notin mounted => Invalidated(k, e).fetch = e.fetch
         /\ k \notin mounted /\ e.data # "none" => Invalidated(k, e).invalid
<1> DEFINE marked == [e EXCEPT !.invalid = (e # EmptyEntry)]
<1>1. marked \in Entry /\ marked.data = e.data /\ marked.fetch = e.fetch /\ marked.invalid = (e # EmptyEntry)
  BY DEF Entry
<1>2. e.data # "none" => e # EmptyEntry
  BY DEF EmptyEntry
<1>3. Fetched(marked) \in Entry /\ Fetched(marked).data = e.data
  BY <1>1, EntryRules
<1>4. [marked EXCEPT !.fetch = "asked"] \in Entry
  BY <1>1 DEF Entry
<1>5. [marked EXCEPT !.fetch = "asked"].data = e.data /\ [marked EXCEPT !.fetch = "asked"].fetch = "asked"
  BY <1>1 DEF Entry
<1> HIDE DEF marked
<1>6. Invalidated(k, e) = IF k \notin mounted THEN marked
                          ELSE IF e.data = "none" THEN Fetched(marked)
                          ELSE [marked EXCEPT !.fetch = "asked"]
  BY DEF Invalidated, marked
<1>7. CASE k \notin mounted
  BY <1>1, <1>2, <1>6, <1>7
<1>8. CASE k \in mounted /\ e.data = "none"
  BY <1>3, <1>6, <1>8
<1>9. CASE k \in mounted /\ e.data # "none"
  BY <1>4, <1>5, <1>6, <1>9
<1>10. QED
  BY <1>7, <1>8, <1>9

LEMMA GuessedRule ==
  ASSUME NEW e \in Entry, NEW c \in Call
  PROVE  /\ Guessed(c, e) \in Entry
         /\ Guessed(c, e).data = e.data /\ Guessed(c, e).fetch = e.fetch
<1>1. e.data \in Content /\ e.guesses \cup {c} \in SUBSET Call
  BY EntryShape
<1>2. QED
  BY <1>1, PutRule DEF Guessed

Snapshot == [data : Content, guesses : SUBSET Call]

LEMMA RolledBackRule ==
  ASSUME NEW e \in Entry, NEW before \in Snapshot
  PROVE  /\ RolledBack(e, before) \in Entry
         /\ e.data # "none" => RolledBack(e, before).data # "none"
         /\ RolledBack(e, before).fetch = e.fetch
<1>1. before.data \in Content /\ before.guesses \in SUBSET Call
  BY DEF Snapshot
<1>2. QED
  BY <1>1, PutRule DEF RolledBack

-----------------------------------------------------------------------------
(* The changes under way.                                                    *)
Phase == {"unused", "preparing", "sent", "applied", "refused", "done"}

LEMMA CallShape ==
  ASSUME NEW r \in CallState
  PROVE  /\ r.hook \in Hook \cup {"none"} /\ r.phase \in Phase
         /\ r.before \in Snapshot /\ r.answer \in Content
BY DEF CallState, Phase, Snapshot, Content

LEMMA CallStateIs ==
  CallState = [hook : Hook \cup {"none"}, phase : Phase, before : Snapshot, answer : Content]
BY DEF CallState, Phase, Snapshot, Content

LEMMA UnusedShape == Unused \in CallState /\ Unused.before \in Snapshot
BY DEF CallState, Unused, Snapshot, Content

\* The changes on their way keep their hook and their phase when others are made.
LEMMA AgedCallRule ==
  ASSUME NEW c \in Call, calls[c] \in CallState, NEW keys
  PROVE  AgedCall(c, keys) \in CallState /\ AgedCall(c, keys).hook = calls[c].hook
           /\ AgedCall(c, keys).phase = calls[c].phase
<1> DEFINE r == calls[c]
<1>1. r.before.data \in Content /\ r.before \in Snapshot /\ r.answer \in Content
  BY CallShape DEF Snapshot
<1>2. AgedShown(r.before) \in Snapshot
  BY <1>1, AgedContent DEF AgedShown, Snapshot
<1>3. Aged(r.answer) \in Content
  BY <1>1, AgedContent
<1>4. \A before \in Snapshot, answer \in Content :
        LET on == [r EXCEPT !.before = before, !.answer = answer] IN
        on \in CallState /\ on.hook = r.hook /\ on.phase = r.phase
  BY DEF CallState, Snapshot, Content
<1>5. LET on == [r EXCEPT !.before = AgedShown(r.before), !.answer = Aged(r.answer)] IN
        on \in CallState /\ on.hook = r.hook /\ on.phase = r.phase
  BY <1>2, <1>3, <1>4
<1>6. QED
  BY <1>5 DEF AgedCall

-----------------------------------------------------------------------------
(* Types.  A change that was made belongs to a hook.                         *)
CacheTypes == TypeOK /\ \A c \in Call : Running(c) => calls[c].hook \in Hook

LEMMA TypesAtFirst == Init => CacheTypes
<1> SUFFICES ASSUME Init PROVE CacheTypes
  OBVIOUS
<1>1. Fetched(EmptyEntry) \in Entry
  BY EntryRules DEF EmptyEntry, Entry
<1>2. \A c \in Call : calls[c].phase = "unused"
  BY DEF Init, Unused
<1>3. QED
  BY <1>1, <1>2, UnusedShape, CacheBounds DEF Init, CacheTypes, TypeOK, Running

LEMMA TypesKept ==
  ASSUME CacheTypes, [Next]_vars
  PROVE  CacheTypes'
<1> USE DEF CacheTypes, TypeOK
<1>1. ASSUME NEW c \in Call, NEW h \in Hook, Mutate(c, h) PROVE CacheTypes'
  <2> DEFINE guessed == Hooks[h].guesses \cap watched
  <2>1. \A k \in watched : Cancelled(cache[k]) \in Entry /\ Guessed(c, Cancelled(cache[k])) \in Entry
    BY EntryRules, GuessedRule
  <2>2. cache' \in [watched -> Entry]
    BY <1>1, <2>1 DEF Mutate
  <2>3. \A k \in watched : Shown(cache[k]) \in Snapshot
    BY EntryShape DEF Shown, Snapshot
  <2>4. guessed # {} => Shown(cache[CHOOSE k \in guessed : TRUE]) \in Snapshot
    BY <2>3
  <2>5. /\ calls'[c] \in CallState /\ calls'[c].hook = h
        /\ calls' = [calls EXCEPT ![c] = calls'[c]]
    <3>1. CASE Hooks[h].waits
      <4>1. calls' = [calls EXCEPT ![c] = [Unused EXCEPT !.hook = h, !.phase = "preparing"]]
        BY <1>1, <3>1 DEF Mutate
      <4>2. [Unused EXCEPT !.hook = h, !.phase = "preparing"] \in CallState
            /\ [Unused EXCEPT !.hook = h, !.phase = "preparing"].hook = h
        BY DEF Unused, CallState
      <4>3. QED
        BY <4>1, <4>2
    <3>2. CASE ~Hooks[h].waits
      <4> DEFINE before == IF guessed = {} THEN Unused.before ELSE Shown(cache[CHOOSE k \in guessed : TRUE])
      <4>1. calls' = [calls EXCEPT ![c] = [Unused EXCEPT !.hook = h, !.phase = "sent", !.before = before]]
        BY <1>1, <3>2 DEF Mutate
      <4>2. before \in Snapshot
        BY <2>4, UnusedShape
      <4> HIDE DEF before
      <4>3. [Unused EXCEPT !.hook = h, !.phase = "sent", !.before = before] \in CallState
            /\ [Unused EXCEPT !.hook = h, !.phase = "sent", !.before = before].hook = h
        BY <4>2 DEF Unused, CallState, Snapshot, Content
      <4>4. QED
        BY <4>1, <4>3
    <3>3. QED
      BY <3>1, <3>2
  <2>6. QED
    BY <1>1, <2>2, <2>5 DEF Mutate, Running
<1>2. ASSUME NEW c \in Call, Prepared(c) PROVE CacheTypes'
  <2> DEFINE guessed == Hooks[calls[c].hook].guesses \cap watched
             before == IF guessed = {} THEN calls[c].before
                       ELSE Shown(cache[CHOOSE k \in guessed : TRUE])
  <2>1. \A k \in watched :
          PutInto(cache[k], IF cache[k].data = "none" THEN "old" ELSE cache[k].data,
                  cache[k].guesses \cup {c}) \in Entry
    <3> TAKE k \in watched
    <3>1. (IF cache[k].data = "none" THEN "old" ELSE cache[k].data) \in Content
          /\ cache[k].guesses \cup {c} \in SUBSET Call
      BY EntryShape DEF Content
    <3>2. QED
      BY <3>1, PutRule
  <2>2. cache' \in [watched -> Entry]
    BY <1>2, <2>1 DEF Prepared
  <2>3. \A k \in watched : Shown(cache[k]) \in Snapshot
    BY EntryShape DEF Shown, Snapshot
  <2>4. before \in Snapshot
    BY <2>3, CallShape
  <2>5. calls' = [calls EXCEPT ![c] = [calls[c] EXCEPT !.phase = "sent", !.before = before]]
    BY <1>2 DEF Prepared
  <2> HIDE DEF before
  <2>6. [calls[c] EXCEPT !.phase = "sent", !.before = before] \in CallState
        /\ [calls[c] EXCEPT !.phase = "sent", !.before = before].hook = calls[c].hook
    BY <2>4, CallStateIs DEF Phase
  <2>7. Running(c) /\ UNCHANGED <<watched, mounted, missed, faults, others>>
    BY <1>2 DEF Prepared, Running
  <2>8. calls' \in [Call -> CallState]
    BY <2>5, <2>6
  <2>9. \A d \in Call : calls'[d].hook = calls[d].hook /\ (d # c => calls'[d] = calls[d])
    BY <2>5, <2>6
  <2>10. QED
    BY <2>2, <2>7, <2>8, <2>9 DEF Running
<1>3. ASSUME NEW c \in Call, Apply(c) PROVE CacheTypes'
  <2> DEFINE keys == Changes(calls[c].hook)
  <2>1. cache' \in [watched -> Entry]
    BY <1>3, EntryRules DEF Apply, ChangeServer
  <2>2. \A d \in Call : AgedCall(d, keys) \in CallState /\ AgedCall(d, keys).hook = calls[d].hook
                        /\ AgedCall(d, keys).phase = calls[d].phase
    BY AgedCallRule
  <2>3. LET r == [AgedCall(c, keys) EXCEPT !.phase = "applied", !.answer = "current"] IN
          r \in CallState /\ r.hook = calls[c].hook
    BY <2>2 DEF CallState
  <2>4. Running(c)
    BY <1>3 DEF Apply, Running
  <2>5. calls' \in [Call -> CallState] /\ \A d \in Call : Running(d)' => calls'[d].hook \in Hook
    BY <1>3, <2>2, <2>3, <2>4 DEF Apply, Running
  <2>6. QED
    BY <1>3, <2>1, <2>5 DEF Apply
<1>4. ASSUME NEW c \in Call, Refuse(c) PROVE CacheTypes'
  <2>1. calls' = [calls EXCEPT ![c] = [calls[c] EXCEPT !.phase = "refused"]] /\ Running(c)
    BY <1>4 DEF Refuse, Running
  <2>2. [calls[c] EXCEPT !.phase = "refused"] \in CallState
        /\ [calls[c] EXCEPT !.phase = "refused"].hook = calls[c].hook
    BY DEF CallState
  <2>3. QED
    BY <1>4, <2>1, <2>2 DEF Refuse, Running
<1>5. ASSUME NEW c \in Call, LoseAnswer(c) PROVE CacheTypes'
  <2>1. calls' = [calls EXCEPT ![c] = [calls[c] EXCEPT !.phase = "refused"]] /\ Running(c)
    BY <1>5 DEF LoseAnswer, Running
  <2>2. [calls[c] EXCEPT !.phase = "refused"] \in CallState
        /\ [calls[c] EXCEPT !.phase = "refused"].hook = calls[c].hook
    BY DEF CallState
  <2>3. QED
    BY <1>5, <2>1, <2>2, CacheBounds DEF LoseAnswer, Running
<1>6. ASSUME NEW c \in Call, Answered(c) PROVE CacheTypes'
  <2>1. calls[c].answer \in Content /\ {} \in SUBSET Call
    BY CallShape
  <2>2. \A k \in watched : PutInto(cache[k], calls[c].answer, {}) \in Entry
    BY <2>1, PutRule
  <2>3. \A k \in watched : \A e \in Entry : Invalidated(k, e) \in Entry
    BY InvalidatedRule
  <2>4. cache' \in [watched -> Entry]
    BY <1>6, <2>2, <2>3 DEF Answered
  <2>5. calls' = [calls EXCEPT ![c] = [Unused EXCEPT !.phase = "done"]]
    BY <1>6 DEF Answered
  <2>6. [Unused EXCEPT !.phase = "done"] \in CallState /\ [Unused EXCEPT !.phase = "done"].phase = "done"
    BY UnusedShape DEF CallState
  <2>7. QED
    BY <1>6, <2>4, <2>5, <2>6 DEF Answered, Running
<1>7. ASSUME NEW c \in Call, Failed(c) PROVE CacheTypes'
  <2>1. calls[c].before \in Snapshot
    BY CallShape
  <2>2. \A k \in watched : RolledBack(cache[k], calls[c].before) \in Entry
    BY <2>1, RolledBackRule
  <2>3. \A k \in watched : \A e \in Entry : Invalidated(k, e) \in Entry
    BY InvalidatedRule
  <2>4. cache' \in [watched -> Entry]
    BY <1>7, <2>2, <2>3 DEF Failed
  <2>5. calls' = [calls EXCEPT ![c] = [Unused EXCEPT !.phase = "done"]]
    BY <1>7 DEF Failed
  <2>6. [Unused EXCEPT !.phase = "done"] \in CallState /\ [Unused EXCEPT !.phase = "done"].phase = "done"
    BY UnusedShape DEF CallState
  <2>7. QED
    BY <1>7, <2>4, <2>5, <2>6 DEF Failed, Running
<1>8. ASSUME NEW k \in watched, ServerReads(k) PROVE CacheTypes'
  <2>1. [cache[k] EXCEPT !.fetch = "current"] \in Entry
    BY DEF Entry
  <2>2. QED
    BY <1>8, <2>1 DEF ServerReads, Running
<1>9. ASSUME NEW k \in watched, Arrives(k) PROVE CacheTypes'
  <2>1. cache[k].fetch \in Content /\ {} \in SUBSET Call
    BY <1>9 DEF Arrives, Content
  <2>2. Cancelled(PutInto(cache[k], cache[k].fetch, {})) \in Entry
    BY <2>1, PutRule, EntryRules
  <2>3. QED
    BY <1>9, <2>2 DEF Arrives, Running
<1>10. ASSUME NEW k \in watched, FetchFails(k) PROVE CacheTypes'
  <2>1. [cache[k] EXCEPT !.fetch = "idle", !.invalid = TRUE] \in Entry
    BY DEF Entry
  <2>2. cache' = [cache EXCEPT ![k] = [cache[k] EXCEPT !.fetch = "idle", !.invalid = TRUE]]
    BY <1>10 DEF FetchFails
  <2>3. QED
    BY <1>10, <2>1, <2>2, CacheBounds DEF FetchFails, Running
<1>11. ASSUME NEW k \in watched, Ages(k) PROVE CacheTypes'
  <2>1. [cache[k] EXCEPT !.fresh = FALSE] \in Entry
    BY DEF Entry
  <2>2. QED
    BY <1>11, <2>1 DEF Ages, Running
<1>12. ASSUME NEW k \in watched, Leave(k) PROVE CacheTypes'
  BY <1>12 DEF Leave, Running
<1>13. ASSUME NEW k \in watched, Visit(k) PROVE CacheTypes'
  BY <1>13, EntryRules DEF Visit, Running
<1>14. CASE OtherDevice
  <2>1. cache' \in [watched -> Entry]
    BY <1>14, EntryRules DEF OtherDevice, ChangeServer
  <2>2. \A d \in Call : AgedCall(d, {"settings"}) \in CallState
                        /\ AgedCall(d, {"settings"}).hook = calls[d].hook
                        /\ AgedCall(d, {"settings"}).phase = calls[d].phase
    BY AgedCallRule
  <2>3. calls' \in [Call -> CallState] /\ \A d \in Call : Running(d)' => calls'[d].hook \in Hook
    BY <1>14, <2>2 DEF OtherDevice, Running
  <2>4. QED
    BY <1>14, <2>1, <2>3, CacheBounds DEF OtherDevice
<1>15. CASE Poll
  <2>1. "settings" \in watched /\ [cache["settings"] EXCEPT !.fetch = "asked"] \in Entry
    BY <1>15 DEF Poll, Entry
  <2>2. QED
    BY <1>15, <2>1 DEF Poll, Running
<1>16. CASE UNCHANGED vars
  BY <1>16 DEF vars, Running
<1>17. QED
  BY <1>1, <1>2, <1>3, <1>4, <1>5, <1>6, <1>7, <1>8, <1>9, <1>10, <1>11, <1>12, <1>13,
     <1>14, <1>15, <1>16 DEF Next

-----------------------------------------------------------------------------
(* The invariant.                                                            *)

\* What follows for a hook and one list.
LEMMA HookFollows ==
  ASSUME NEW h \in Hook, NEW k \in Listed
  PROVE  /\ k \in Hooks[h].guesses => Hooks[h].always /\ k \in Hooks[h].then
         /\ k \notin Hooks[h].puts
         /\ k \in Changes(h) => k \in Hooks[h].then \/ k \in NotFollowed(h)
<1>1. Follows(h, Hooks[h], Stored[h])
  BY HooksFollow DEF AllFollow, Row, Hook
<1>2. k # "plan"
  BY DEF Listed
<1>3. QED
  BY <1>1, <1>2 DEF Follows, Changes

(* A change will see to it that k is fetched again: from its beginning when  *)
(* the hook fetches k after a refusal too, else once the server made it (a k *)
(* it altered: those LoseAnswer names should the answer be lost).            *)
Recovers(c, k) ==
  /\ Running(c)
  /\ k \in Hooks[calls[c].hook].then
  /\ \/ Hooks[calls[c].hook].always
     \/ calls[c].phase = "applied" /\ k \in Changes(calls[c].hook)

Cared(k) == k \in missed \/ \E c \in Call : Recovers(c, k)

(* An old list is put right by a mark, a fetch or a change; an answer that   *)
(* was read too early only by a change, for when it arrives it clears the    *)
(* mark.  The change restarts that fetch only if the list is on screen and   *)
(* has been loaded: hence the other two conjuncts.                           *)
KeptUp(k) ==
  /\ cache[k].data = "old" => cache[k].invalid \/ cache[k].fetch \in {"asked", "current"} \/ Cared(k)
  /\ cache[k].fetch = "old" => Cared(k)
  /\ k \notin mounted => cache[k].fetch = "idle"
  /\ (\E c \in Call : calls[c].phase # "unused") => cache[k].data # "none"

LEMMA StaysKeptUp ==
  ASSUME CacheTypes, LoadedFirst, ~LeavesEarly, NEW k \in Listed \cap watched, KeptUp(k), [Next]_vars
  PROVE  KeptUp(k)'
<1> USE DEF KeptUp
<1>0. cache \in [watched -> Entry] /\ calls \in [Call -> CallState] /\ cache[k] \in Entry
  BY DEF CacheTypes, TypeOK
<1>1. ASSUME NEW c \in Call, NEW h \in Hook, Mutate(c, h) PROVE KeptUp(k)'
  <2>1. calls[c].phase = "unused" /\ cache[k].data # "none"
    BY <1>1 DEF Mutate
  <2>2. Cared(k) => Cared(k)'
    <3>1. \A d \in Call : Recovers(d, k) => d # c
      BY <2>1 DEF Recovers, Running
    <3>2. \A d \in Call : d # c => calls'[d] = calls[d]
      BY <1>0, <1>1 DEF Mutate
    <3>3. missed' = missed
      BY <1>1 DEF Mutate
    <3>4. QED
      BY <3>1, <3>2, <3>3 DEF Cared, Recovers, Running
  <2>3. /\ calls'[c].hook = h /\ calls'[c].phase \in {"preparing", "sent"}
    <3>1. CASE Hooks[h].waits
      <4>1. calls' = [calls EXCEPT ![c] = [Unused EXCEPT !.hook = h, !.phase = "preparing"]]
        BY <1>1, <3>1 DEF Mutate
      <4>2. QED
        BY <1>0, <4>1 DEF Unused
    <3>2. CASE ~Hooks[h].waits
      <4> DEFINE guessed == Hooks[h].guesses \cap watched
                 before == IF guessed = {} THEN Unused.before
                           ELSE Shown(cache[CHOOSE l \in guessed : TRUE])
      <4>1. calls' = [calls EXCEPT ![c] = [Unused EXCEPT !.hook = h, !.phase = "sent", !.before = before]]
        BY <1>1, <3>2 DEF Mutate
      <4> HIDE DEF before
      <4>2. QED
        BY <1>0, <4>1 DEF Unused
    <3>3. QED
      BY <3>1, <3>2
  <2>4. CASE k \in Hooks[h].guesses
    <3>1. Hooks[h].always /\ k \in Hooks[h].then
      BY <2>4, HookFollows
    <3>2. Cared(k)'
      BY <2>3, <3>1 DEF Cared, Recovers, Running
    <3>3. Cancelled(cache[k]) \in Entry /\ Cancelled(cache[k]).fetch = "idle"
          /\ Cancelled(cache[k]).data = cache[k].data
      BY <1>0, EntryRules
    <3>4. /\ Guessed(c, Cancelled(cache[k])).fetch = "idle"
          /\ Guessed(c, Cancelled(cache[k])).data = cache[k].data
      BY <3>3, GuessedRule
    <3>5. cache'[k] \in {Cancelled(cache[k]), Guessed(c, Cancelled(cache[k]))}
      BY <1>1, <2>4 DEF Mutate
    <3>6. QED
      BY <2>1, <3>2, <3>3, <3>4, <3>5
  <2>5. CASE k \notin Hooks[h].guesses
    <3>1. cache'[k] = cache[k] /\ mounted' = mounted
      BY <1>1, <2>5 DEF Mutate
    <3>2. QED
      BY <2>1, <2>2, <3>1
  <2>6. QED
    BY <2>4, <2>5
<1>2. ASSUME NEW c \in Call, Prepared(c) PROVE KeptUp(k)'
  <2> DEFINE h == calls[c].hook
  <2>1. calls[c].phase = "preparing" /\ Running(c) /\ h \in Hook
    BY <1>2 DEF Prepared, Running, CacheTypes
  <2>2. cache[k].data # "none"
    BY <2>1
  <2>3. /\ \A d \in Call : d # c => calls'[d] = calls[d]
        /\ calls'[c].hook = h /\ calls'[c].phase = "sent"
    <3>1. calls[c] \in CallState
      BY <1>0
    <3>2. QED
      BY <1>0, <1>2, <3>1 DEF Prepared, CallState
  <2>4. Cared(k) => Cared(k)'
    BY <1>2, <2>1, <2>3 DEF Cared, Recovers, Running, Prepared
  <2>5. CASE k \in Hooks[h].guesses
    <3>1. Hooks[h].always /\ k \in Hooks[h].then
      BY <2>1, <2>5, HookFollows
    <3>2. Cared(k)'
      BY <2>3, <3>1 DEF Cared, Recovers, Running
    <3>3. cache[k].data \in Content /\ cache[k].guesses \cup {c} \in SUBSET Call
      BY <1>0, EntryShape
    <3>4. cache'[k] = PutInto(cache[k], cache[k].data, cache[k].guesses \cup {c})
      BY <1>2, <2>2, <2>5 DEF Prepared
    <3>5. cache'[k].data = cache[k].data /\ cache'[k].fetch = cache[k].fetch
      BY <1>0, <3>3, <3>4, PutRule
    <3>6. QED
      BY <1>2, <2>2, <3>2, <3>5 DEF Prepared
  <2>6. CASE k \notin Hooks[h].guesses
    <3>1. cache'[k] = cache[k] /\ mounted' = mounted
      BY <1>2, <2>6 DEF Prepared
    <3>2. QED
      BY <2>2, <2>4, <3>1
  <2>7. QED
    BY <2>5, <2>6
<1>3. ASSUME NEW c \in Call, Apply(c) PROVE KeptUp(k)'
  <2> DEFINE h == calls[c].hook
             keys == Changes(h)
  <2>1. calls[c].phase = "sent" /\ Running(c) /\ h \in Hook
    BY <1>3 DEF Apply, Running, CacheTypes
  <2>2. cache[k].data # "none"
    BY <2>1
  <2>3. \A d \in Call : AgedCall(d, keys) \in CallState /\ AgedCall(d, keys).hook = calls[d].hook
                        /\ AgedCall(d, keys).phase = calls[d].phase
    BY <1>0, AgedCallRule
  <2>4. /\ \A d \in Call : d # c => calls'[d].hook = calls[d].hook /\ calls'[d].phase = calls[d].phase
        /\ calls'[c].hook = h /\ calls'[c].phase = "applied"
    BY <1>3, <2>3 DEF Apply, CallState
  <2>5. Cared(k) => Cared(k)'
    BY <1>3, <2>1, <2>4 DEF Cared, Recovers, Running, Apply
  <2>6. CASE k \in keys
    <3>1. k \in Hooks[h].then \/ k \in NotFollowed(h)
      BY <2>1, <2>6, HookFollows
    <3>2. Cared(k)'
      BY <1>3, <2>4, <2>6, <3>1 DEF Cared, Recovers, Running, Apply
    <3>3. cache'[k] = ChangedBehind(cache[k])
      BY <1>3, <2>6 DEF Apply, ChangeServer
    <3>4. cache'[k].data = Aged(cache[k].data) /\ cache'[k].fetch = Aged(cache[k].fetch)
      BY <1>0, <3>3, EntryRules
    <3>5. QED
      BY <1>3, <2>2, <3>2, <3>4 DEF Aged, Apply
  <2>7. CASE k \notin keys
    <3>1. cache'[k] = cache[k] /\ mounted' = mounted
      BY <1>3, <2>7 DEF Apply, ChangeServer
    <3>2. QED
      BY <2>2, <2>5, <3>1
  <2>8. QED
    BY <2>6, <2>7
<1>4. ASSUME NEW c \in Call, Refuse(c) PROVE KeptUp(k)'
  <2>1. /\ calls[c].phase = "sent" /\ Running(c)
        /\ \A d \in Call : d # c => calls'[d] = calls[d]
        /\ calls'[c].hook = calls[c].hook /\ calls'[c].phase = "refused"
    BY <1>0, <1>4 DEF Refuse, Running, CallState
  <2>2. Cared(k) => Cared(k)'
    BY <1>4, <2>1 DEF Cared, Recovers, Running, Refuse
  <2>3. QED
    BY <1>4, <2>1, <2>2 DEF Refuse
<1>5. ASSUME NEW c \in Call, LoseAnswer(c) PROVE KeptUp(k)'
  <2>1. /\ calls[c].phase = "applied" /\ Running(c)
        /\ \A d \in Call : d # c => calls'[d] = calls[d]
        /\ calls'[c].hook = calls[c].hook /\ calls'[c].phase = "refused"
    BY <1>0, <1>5 DEF LoseAnswer, Running, CallState
  <2>2. Cared(k) => Cared(k)'
    BY <1>5, <2>1 DEF Cared, Recovers, Running, LoseAnswer
  <2>3. QED
    BY <1>5, <2>1, <2>2 DEF LoseAnswer
<1>6. ASSUME NEW c \in Call, Answered(c) PROVE KeptUp(k)'
  <2> DEFINE h == calls[c].hook
  <2>1. calls[c].phase = "applied" /\ Running(c) /\ h \in Hook
    BY <1>6 DEF Answered, Running, CacheTypes
  <2>2. cache[k].data # "none" /\ k \notin Hooks[h].puts
    BY <2>1, HookFollows
  <2>3. \A d \in Call : d # c => calls'[d] = calls[d]
    BY <1>0, <1>6 DEF Answered
  <2>4. mounted' = mounted /\ missed' = missed
    BY <1>6 DEF Answered
  <2>5. CASE k \in Hooks[h].then
    <3>1. cache'[k] = Invalidated(k, cache[k])
      BY <1>6, <2>2, <2>5 DEF Answered
    <3>2. /\ cache'[k].data = cache[k].data
          /\ k \in mounted => cache'[k].fetch = "asked"
          /\ k \notin mounted => cache'[k].fetch = cache[k].fetch /\ cache'[k].invalid
      BY <1>0, <2>2, <3>1, InvalidatedRule
    <3>3. QED
      BY <2>2, <2>4, <3>2
  <2>6. CASE k \notin Hooks[h].then
    <3>1. cache'[k] = cache[k]
      BY <1>6, <2>2, <2>6 DEF Answered
    <3>2. Cared(k) => Cared(k)'
      BY <2>3, <2>4, <2>6 DEF Cared, Recovers, Running
    <3>3. QED
      BY <2>2, <2>4, <3>1, <3>2
  <2>7. QED
    BY <2>5, <2>6
<1>7. ASSUME NEW c \in Call, Failed(c) PROVE KeptUp(k)'
  <2> DEFINE h == calls[c].hook
             back == IF k \in Hooks[h].guesses THEN RolledBack(cache[k], calls[c].before) ELSE cache[k]
  <2>1. calls[c].phase = "refused" /\ Running(c) /\ h \in Hook
    BY <1>7 DEF Failed, Running, CacheTypes
  <2>2. cache[k].data # "none"
    BY <2>1
  <2>3. \A d \in Call : d # c => calls'[d] = calls[d]
    BY <1>0, <1>7 DEF Failed
  <2>4. mounted' = mounted /\ missed' = missed
    BY <1>7 DEF Failed
  <2>5. back \in Entry /\ back.data # "none" /\ back.fetch = cache[k].fetch
    BY <1>0, <2>2, CallShape, RolledBackRule
  <2>6. CASE Hooks[h].always /\ k \in Hooks[h].then
    <3>1. cache'[k] = Invalidated(k, back)
      BY <1>7, <2>6 DEF Failed
    <3> HIDE DEF back
    <3>2. /\ cache'[k].data = back.data
          /\ k \in mounted => cache'[k].fetch = "asked"
          /\ k \notin mounted => cache'[k].fetch = cache[k].fetch /\ cache'[k].invalid
      BY <2>5, <3>1, InvalidatedRule
    <3>3. QED
      BY <2>4, <2>5, <3>2
  <2>7. CASE ~(Hooks[h].always /\ k \in Hooks[h].then)
    <3>1. k \notin Hooks[h].guesses
      BY <2>1, <2>7, HookFollows
    <3>2. cache'[k] = cache[k]
      BY <1>7, <2>7, <3>1 DEF Failed
    <3>3. ~Recovers(c, k)
      BY <2>1, <2>7 DEF Recovers
    <3>4. Cared(k) => Cared(k)'
      BY <2>3, <2>4, <3>3 DEF Cared, Recovers, Running
    <3>5. QED
      BY <2>2, <2>4, <3>2, <3>4
  <2>8. QED
    BY <2>6, <2>7
<1>8. ASSUME UNCHANGED <<calls, missed>> PROVE Cared(k)' = Cared(k)
  BY <1>8 DEF Cared, Recovers, Running
<1>9. ASSUME NEW l \in watched, ServerReads(l) PROVE KeptUp(k)'
  <2>1. k = l => /\ cache[k].fetch = "asked" /\ cache'[k].fetch = "current"
                 /\ cache'[k].data = cache[k].data
    BY <1>0, <1>9 DEF ServerReads, Entry
  <2>2. k # l => cache'[k] = cache[k]
    BY <1>0, <1>9 DEF ServerReads
  <2>3. QED
    BY <1>8, <1>9, <2>1, <2>2 DEF ServerReads
<1>10. ASSUME NEW l \in watched, Arrives(l) PROVE KeptUp(k)'
  <2>1. CASE k = l
    <3>1. cache[k].fetch \in Content /\ {} \in SUBSET Call /\ cache[k].fetch \in {"current", "old"}
      BY <1>10, <2>1 DEF Arrives, Content
    <3>2. cache'[k] = Cancelled(PutInto(cache[k], cache[k].fetch, {}))
      BY <1>0, <1>10, <2>1 DEF Arrives
    <3>3. cache'[k].data = cache[k].fetch /\ cache'[k].fetch = "idle"
      BY <1>0, <3>1, <3>2, PutRule, EntryRules
    <3>4. cache[k].fetch = "old" => Cared(k)'
      BY <1>8, <1>10, <2>1 DEF Arrives
    <3>5. QED
      BY <3>1, <3>3, <3>4
  <2>2. CASE k # l
    <3>1. cache'[k] = cache[k] /\ mounted' = mounted
      BY <1>0, <1>10, <2>2 DEF Arrives
    <3>2. Cared(k) => Cared(k)'
      BY <1>10, <2>2 DEF Arrives, Cared, Recovers, Running
    <3>3. QED
      BY <1>10, <3>1, <3>2 DEF Arrives
  <2>3. QED
    BY <2>1, <2>2
<1>11. ASSUME NEW l \in watched, FetchFails(l) PROVE KeptUp(k)'
  <2>1. k = l => cache'[k].invalid /\ cache'[k].fetch = "idle" /\ cache'[k].data = cache[k].data
    <3>1. cache' = [cache EXCEPT ![l] = [cache[l] EXCEPT !.fetch = "idle", !.invalid = TRUE]]
      BY <1>11 DEF FetchFails
    <3>2. QED
      BY <1>0, <3>1 DEF Entry
  <2>2. k # l => cache'[k] = cache[k]
    BY <1>0, <1>11 DEF FetchFails
  <2>3. QED
    BY <1>8, <1>11, <2>1, <2>2 DEF FetchFails
<1>12. ASSUME NEW l \in watched, Ages(l) PROVE KeptUp(k)'
  <2>1. cache'[k].invalid = cache[k].invalid /\ cache'[k].fetch = cache[k].fetch
        /\ cache'[k].data = cache[k].data
    BY <1>0, <1>12 DEF Ages, Entry
  <2>2. QED
    BY <1>8, <1>12, <2>1 DEF Ages
<1>13. ASSUME NEW l \in watched, Leave(l) PROVE KeptUp(k)'
  BY <1>8, <1>13 DEF Leave
<1>14. ASSUME NEW l \in watched, Visit(l) PROVE KeptUp(k)'
  <2>1. k # l => cache'[k] = cache[k]
    BY <1>0, <1>14 DEF Visit
  <2>2. k = l => /\ cache'[k].data = cache[k].data
                 /\ cache'[k] \in {cache[k], Fetched(cache[k])}
    BY <1>0, <1>14, EntryRules DEF Visit
  <2>3. k \in mounted' \/ k # l
    BY <1>14 DEF Visit
  <2>4. Fetched(cache[k]).fetch = IF cache[k].fetch = "idle" THEN "asked" ELSE cache[k].fetch
    BY <1>0, EntryRules
  <2>5. Fetched(cache[k]).invalid = cache[k].invalid
    BY <1>0, EntryRules
  <2>6. QED
    BY <1>8, <1>14, <2>1, <2>2, <2>3, <2>4, <2>5 DEF Visit
<1>15. CASE OtherDevice
  <2>1. cache'[k] = cache[k]
    BY <1>15 DEF OtherDevice, ChangeServer, Listed
  <2>2. \A d \in Call : calls'[d].hook = calls[d].hook /\ calls'[d].phase = calls[d].phase
    BY <1>0, <1>15, AgedCallRule DEF OtherDevice
  <2>3. Cared(k) => Cared(k)'
    BY <1>15, <2>2 DEF OtherDevice, Cared, Recovers, Running
  <2>4. QED
    BY <1>15, <2>1, <2>2, <2>3 DEF OtherDevice
<1>16. CASE Poll
  <2>1. cache'[k] = cache[k]
    BY <1>0, <1>16 DEF Poll, Listed
  <2>2. QED
    BY <1>8, <1>16, <2>1 DEF Poll
<1>17. CASE UNCHANGED vars
  BY <1>8, <1>17 DEF vars
<1>18. QED
  BY <1>1, <1>2, <1>3, <1>4, <1>5, <1>6, <1>7, <1>9, <1>10, <1>11, <1>12, <1>13,
     <1>14, <1>15, <1>16, <1>17 DEF Next

-----------------------------------------------------------------------------
(* Every entry of the cache and every change under way is of its type.       *)
THEOREM CacheTypeOK == Spec => []TypeOK
<1>1. CacheTypes => TypeOK
  BY DEF CacheTypes
<1>2. QED
  BY TypesAtFirst, TypesKept, <1>1, PTL DEF Spec

(* A list on screen is never silently out of date (queries.tsx: each hook's  *)
(* onMutate, onError, onSuccess and onSettled), when changes begin once the  *)
(* lists are loaded and no page is left during a fetch: for any number of    *)
(* lists, changes, failures and other devices, with a stored plan or not.    *)
THEOREM NoSilentStaleness ==
  ASSUME LoadedFirst, ~LeavesEarly
  PROVE  Spec => []StaleIsKnown
<1> DEFINE Inv == CacheTypes /\ \A k \in Listed \cap watched : KeptUp(k)
<1>1. Init => Inv
  <2> SUFFICES ASSUME Init PROVE Inv
    OBVIOUS
  <2>1. EmptyEntry \in Entry /\ EmptyEntry.data = "none"
    BY DEF EmptyEntry, Entry
  <2>2. Fetched(EmptyEntry) \in Entry /\ Fetched(EmptyEntry).data = "none"
        /\ Fetched(EmptyEntry).fetch = "asked"
    BY <2>1, EntryRules DEF EmptyEntry
  <2>3. \A c \in Call : calls[c].phase = "unused"
    BY DEF Init, Unused
  <2>4. CacheTypes
    BY TypesAtFirst
  <2>5. \A k \in watched : cache[k] = Fetched(EmptyEntry) /\ k \in mounted
    BY DEF Init
  <2>6. QED
    BY <2>2, <2>3, <2>4, <2>5 DEF KeptUp
<1>2. Inv /\ [Next]_vars => Inv'
  <2> SUFFICES ASSUME Inv, [Next]_vars PROVE Inv'
    OBVIOUS
  <2>1. CacheTypes'
    BY TypesKept
  <2>2. watched' = watched
    BY DEF Next, vars, Mutate, Prepared, Apply, Refuse, LoseAnswer, Answered, Failed, ServerReads,
           Arrives, FetchFails, Ages, Leave, Visit, OtherDevice, Poll
  <2>3. \A k \in Listed \cap watched : KeptUp(k)'
    BY StaysKeptUp
  <2>4. QED
    BY <2>1, <2>2, <2>3
<1>3. Inv => StaleIsKnown
  BY DEF KeptUp, Cared, Recovers, StaleIsKnown, OnItsWay, CacheTypes, TypeOK
<1>4. QED
  BY <1>1, <1>2, <1>3, PTL DEF Spec
=============================================================================
