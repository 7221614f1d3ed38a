------------------------------- MODULE FilterBar -------------------------------
(* The filter bar (TaskFilterBar.tsx, useTaskFilter.ts) with the saved       *)
(* filters (SavedFilters.tsx), on one device.  The filter is kept in the     *)
(* browser and shared by the Tasks tab and the dependency editor; saved      *)
(* filters live on the server, where another device changes them too.        *)
EXTENDS TaskFilter, SequencesExt

CONSTANTS Words,      \* what may be searched for
          Offered,    \* the choices of each kind: a function of the kinds but the priority
          Ranges,     \* the ranges the slider is set to
          Names,      \* what a filter may be called
          MaxEdits, MaxElsewhere

VARIABLES filter,     \* the filter that is on
          stored,     \* the browser's copy, read when a tab is opened
          saved,      \* the saved filters on the server: id -> name and filter
          given,      \* the number of ids it has given out, none of them twice
          known,      \* the list this device has
          dialog,     \* the open dialog: saving or deleting, NoDialog if none
          requests,   \* saves and deletions under way, in the order they were sent
          edits, elsewhere

vars == <<filter, stored, saved, given, known, dialog, requests, edits, elsewhere>>

NoDialog == [kind |-> "none"]
NoId == -1
NoFilters == [id \in {} |-> EmptyFilter]

Init ==
  /\ filter = EmptyFilter /\ stored = EmptyFilter
  /\ saved = NoFilters /\ given = 0 /\ known = NoFilters
  /\ dialog = NoDialog /\ requests = <<>>
  /\ edits = 0 /\ elsewhere = 0

(* ------------------------------- the filter ------------------------------- *)
Counted == edits < MaxEdits /\ edits' = edits + 1
SavedPart == <<saved, given, known, dialog, requests, elsewhere>>

\* Every change is kept in the browser at once.  A dialog is in front of the bar.
Change(next) ==
  /\ dialog = NoDialog /\ next # filter
  /\ filter' = next /\ stored' = next
  /\ Counted
  /\ UNCHANGED SavedPart

Search == \E words \in SUBSET Words : Change([filter EXCEPT !.search = words])
Choose == \E kind \in DOMAIN Offered : \E choice \in Offered[kind] :
            Change([filter EXCEPT ![kind] = Toggled(filter[kind], choice)])
Slide == \E range \in Ranges : Change([filter EXCEPT !.priority = range])
ClearKind == \E kind \in Kinds : IsOn(filter, kind) /\ Change(WithoutKind(filter, kind))
ClearAll == IsFiltering(filter) /\ Change(EmptyFilter)

\* The other tab is opened: it starts with what the browser kept.
SwitchTab ==
  /\ filter' = Normalized(stored) /\ dialog' = NoDialog
  /\ dialog # NoDialog \/ filter' # filter
  /\ UNCHANGED <<stored, saved, given, known, requests, edits, elsewhere>>

(* ---------------------------- the saved filters ---------------------------- *)
\* The saved filter that is on, if one is.
Current == {id \in DOMAIN known : FiltersEqual(known[id].filter, filter)}
Apply(id) == Change(Normalized(known[id].filter))

Opened(next) ==
  /\ dialog = NoDialog
  /\ Counted
  /\ dialog' = next
  /\ UNCHANGED <<filter, stored, saved, given, known, requests, elsewhere>>

OpenSaving ==
  /\ IsFiltering(filter) /\ Current = {}
  /\ Opened([kind |-> "saving", number |-> edits, name |-> "", error |-> FALSE])
OpenDeleting(id) ==
  Opened([kind |-> "deleting", number |-> edits, id |-> id, error |-> FALSE])

Cancel ==
  /\ dialog # NoDialog /\ dialog' = NoDialog
  /\ UNCHANGED <<filter, stored, saved, given, known, requests, edits, elsewhere>>

TypeName(name) ==
  /\ dialog.kind = "saving" /\ dialog.name # name
  /\ dialog' = [dialog EXCEPT !.name = name, !.error = FALSE]
  /\ Counted
  /\ UNCHANGED <<filter, stored, saved, given, known, requests, elsewhere>>

Send(request) ==
  /\ requests' = Append(requests, request @@ [of |-> dialog.number, answer |-> "open"])
  /\ Counted
  /\ UNCHANGED <<filter, stored, saved, given, known, elsewhere>>

\* The button waits for the save under way; Enter sends it again.
Existing == {id \in DOMAIN known : known[id].name = dialog.name}
SubmitUnnamed ==
  /\ dialog.kind = "saving" /\ dialog.name = "" /\ ~dialog.error
  /\ dialog' = [dialog EXCEPT !.error = TRUE]
  /\ UNCHANGED <<filter, stored, saved, given, known, requests, edits, elsewhere>>
Submit ==
  /\ dialog.kind = "saving" /\ dialog.name # ""
  /\ Len(SelectSeq(requests, LAMBDA r : r.of = dialog.number)) < 2
  /\ Send([kind |-> "save", name |-> dialog.name, filter |-> Normalized(filter),
           id |-> IF Existing = {} THEN NoId ELSE CHOOSE id \in Existing : TRUE])
  /\ UNCHANGED dialog
ConfirmDelete ==
  /\ dialog.kind = "deleting"
  /\ \A i \in DOMAIN requests : requests[i].of # dialog.number
  /\ Send([kind |-> "delete", id |-> dialog.id])
  /\ UNCHANGED dialog

(* -------------------------------- the server -------------------------------- *)
\* A name belongs to one filter; a filter that is gone is neither changed nor deleted.
Acceptable(request) ==
  IF request.kind = "delete" THEN request.id \in DOMAIN saved
  ELSE /\ request.id = NoId \/ request.id \in DOMAIN saved
       /\ \A id \in DOMAIN saved : saved[id].name = request.name => id = request.id

Without(list, id) == [other \in DOMAIN list \ {id} |-> list[other]]
With(list, id, name, content) == (id :> [name |-> name, filter |-> content]) @@ list
NewId == given + 1

Served(i) ==
  LET request == requests[i] IN
  /\ request.answer = "open"
  /\ requests' = [requests EXCEPT ![i].answer = IF Acceptable(request) THEN "done" ELSE "refused"]
  /\ saved' = CASE ~Acceptable(request) -> saved
                [] request.kind = "delete" -> Without(saved, request.id)
                [] OTHER -> With(saved, IF request.id = NoId THEN NewId ELSE request.id, request.name, request.filter)
  /\ given' = Cardinality(1..given \cup DOMAIN saved')
  /\ UNCHANGED <<filter, stored, known, dialog, edits, elsewhere>>

\* Another device saves or deletes one.
Elsewhere ==
  /\ elsewhere < MaxElsewhere /\ elsewhere' = elsewhere + 1
  /\ \/ \E id \in DOMAIN saved : saved' = Without(saved, id)
     \/ \E id \in DOMAIN saved \cup {NewId}, name \in Names :
          /\ \A other \in DOMAIN saved : saved[other].name = name => id = other
          /\ id \in DOMAIN saved => saved[id].name = name
          /\ saved' = With(saved, id, name, [EmptyFilter EXCEPT !.priority = <<12, 7>>])
  /\ given' = Cardinality(1..given \cup DOMAIN saved')
  /\ UNCHANGED <<filter, stored, known, dialog, requests, edits>>

Latest(i) == \A j \in DOMAIN requests : requests[j].of = requests[i].of => j <= i

\* Faulty: an answer is taken for the dialog on screen, whichever sent it.
AnsweredAnyDialog(i) ==
  LET request == requests[i] IN
  /\ request.answer # "open"
  /\ requests' = RemoveAt(requests, i)
  /\ dialog' = IF dialog = NoDialog THEN dialog
               ELSE IF request.answer = "done" THEN NoDialog ELSE [dialog EXCEPT !.error = TRUE]
  /\ UNCHANGED <<filter, stored, saved, given, known, edits, elsewhere>>

\* The answer: its own dialog closes or says that it failed, if it is still
\* open and has sent nothing since.
Answered(i) ==
  LET request == requests[i] IN
  /\ request.answer # "open"
  /\ requests' = RemoveAt(requests, i)
  /\ dialog' = IF dialog = NoDialog \/ ~Latest(i) \/ dialog.number # request.of THEN dialog
               ELSE IF request.answer = "done" THEN NoDialog ELSE [dialog EXCEPT !.error = TRUE]
  /\ UNCHANGED <<filter, stored, saved, given, known, edits, elsewhere>>

\* The list is read again: after a change here, or when the page is opened.
Fetched ==
  /\ known # saved /\ known' = saved
  /\ UNCHANGED <<filter, stored, saved, given, dialog, requests, edits, elsewhere>>

Next ==
  \/ Search \/ Choose \/ Slide \/ ClearKind \/ ClearAll \/ SwitchTab
  \/ \E id \in DOMAIN known : Apply(id) \/ OpenDeleting(id)
  \/ OpenSaving \/ Cancel \/ SubmitUnnamed \/ Submit \/ ConfirmDelete \/ Elsewhere \/ Fetched
  \/ \E name \in Names : TypeName(name)
  \/ \E i \in DOMAIN requests : Served(i) \/ Answered(i)

Spec == Init /\ [][Next]_vars

(* -------------------------------- properties -------------------------------- *)
\* An answer that comes late leaves the dialog opened since alone: one closes
\* by itself only when what it sent was done, and says it failed only then.
HearsItsOwn ==
  \A i \in DOMAIN requests :
    Answered(i) /\ dialog' # dialog =>
      /\ requests[i].of = dialog.number
      /\ dialog' = NoDialog => requests[i].answer = "done"
================================================================================
