------------------------------- MODULE TaskForm -------------------------------
(* The task form (TaskFormDialog.tsx, taskFormValidation.ts): what is typed  *)
(* is checked here before it is sent and again by the server, the fields     *)
(* stay open while a save is under way, and Alt+up and Alt+down walk to the  *)
(* neighbouring tasks, saving first.                                         *)
EXTENDS Integers, Sequences, FiniteSets, SequencesExt

CONSTANTS Task,        \* the tasks there are
          NewTask,     \* the one the form can create
          NoTask,
          Known,       \* how they are to begin with
          Walk,        \* the order they are walked through
          Headers, Hours, Deadlines, Starts,  \* what is typed
          Now,
          MaxEdits, MaxNumber

None == -1
Bad == -2      \* typed, but no duration; or half a date
Untouched == "untouched"

VARIABLES tasks,       \* on the server
          known,       \* as this page knows them
          activeTask,  \* the active project: where a new task goes
          form,        \* the form, NoForm if none is open
          requests,    \* saves under way
          edits

vars == <<tasks, known, activeTask, form, requests, edits>>

NoForm == [number |-> 0]

(* ------------------------------ the validation ------------------------------ *)
\* A task of the list with what it is below.
Lineage(list, id) ==
  LET up[n \in 0..Cardinality(DOMAIN list)] ==
        IF n = 0 THEN {id} \cap DOMAIN list
        ELSE up[n - 1] \cup ({list[a].parent : a \in up[n - 1]} \cap DOMAIN list)
  IN up[Cardinality(DOMAIN list)]

ParentOptions(list, id) == {other \in DOMAIN list : ~list[other].done /\ id \notin Lineage(list, other)}

\* The deadlines a task's own one must not be later than.
ParentDeadline(list, parent) == {list[a].deadline : a \in Lineage(list, parent)} \ {None}

EndOf(values) == IF values.start # None /\ values.hours \in Nat THEN values.start + values.hours ELSE None

\* The fields that are wrong, for a task that has this deadline already.
ValidateTaskForm(values, parent, list, id, original) ==
  {field \in {"header", "hours", "start", "deadline", "parent"} :
     \/ field = "header" /\ values.header = ""
     \/ field = "hours" /\ (values.hours = Bad \/ values.hours = 0 \/ (values.hours = None /\ values.appointment))
     \/ field = "start" /\ values.appointment /\ values.start \in {None, Bad}
     \/ /\ field = "deadline" /\ values.deadline # None
        /\ \/ values.deadline = Bad
           \/ values.deadline # original /\ values.deadline < Now
           \/ values.appointment /\ EndOf(values) # None /\ values.deadline < EndOf(values)
           \/ \E limit \in ParentDeadline(list, parent) : values.deadline > limit
     \/ field = "parent" /\ parent # NoTask /\ parent \notin ParentOptions(list, id)}

\* What the server looks at: the deadlines above, and that no task becomes part of itself.
ServerErrors(values, parent, list, id) ==
  {field \in {"deadline", "parent"} :
     \/ field = "deadline" /\ values.deadline # None
        /\ \E a \in Lineage(list, parent) : list[a].deadline # None /\ values.deadline > list[a].deadline
     \/ field = "parent" /\ parent # NoTask /\ (parent \notin DOMAIN list \/ id \in Lineage(list, parent))}

(* --------------------------------- the form --------------------------------- *)
ValuesOf(task) ==
  [header |-> task.header, hours |-> task.hours, deadline |-> task.deadline, parent |-> Untouched,
   appointment |-> task.appointment, start |-> task.start]
Blank == [header |-> "", hours |-> None, deadline |-> None, parent |-> Untouched, appointment |-> FALSE, start |-> None]

FormFor(id, number) ==
  LET values == IF id = NewTask THEN Blank ELSE ValuesOf(known[id]) IN
  [number |-> number, task |-> id, values |-> values, initial |-> values, attempts |-> 0,
   serverErrors |-> {}, failed |-> FALSE]

IsOpen == form # NoForm
Dirty == form.values # form.initial
\* The parent a form stands for: an untouched one is the task's own, or the
\* active project for a new task - as they are at this moment.
ParentId ==
  IF form.values.parent # Untouched THEN form.values.parent
  ELSE IF form.task = NewTask THEN activeTask ELSE known[form.task].parent
Original == IF form.task = NewTask THEN None ELSE known[form.task].deadline
FormErrors == ValidateTaskForm(form.values, ParentId, known, form.task, Original)
Mine(request) == request.form = form.number
Pending == requests # <<>> /\ \E i \in DOMAIN requests :
             Mine(requests[i]) /\ \A j \in DOMAIN requests : Mine(requests[j]) => j <= i

Init ==
  /\ tasks = Known /\ known = Known /\ activeTask \in {NoTask, Walk[1]}
  /\ form = NoForm /\ requests = <<>> /\ edits = 0

Counted == edits < MaxEdits /\ edits' = edits + 1
Numbers == {0, form.number} \cup {requests[i].form : i \in DOMAIN requests}
NextNumber == 1 + (CHOOSE n \in Numbers : \A m \in Numbers : m <= n)

Open(id) ==
  /\ ~IsOpen /\ id \in DOMAIN known \cup {NewTask} /\ NextNumber <= MaxNumber
  /\ form' = FormFor(id, NextNumber)
  /\ UNCHANGED <<tasks, known, activeTask, requests, edits>>

\* Cancel, and "Split into subtasks", leave what was typed behind.
Cancel == IsOpen /\ form' = NoForm /\ UNCHANGED <<tasks, known, activeTask, requests, edits>>

\* Typing in a field takes the server's word on it away - and is possible
\* while a save is under way, too.
Type(field, value) ==
  /\ IsOpen /\ form.values[field] # value /\ Counted
  /\ form' = [form EXCEPT !.values[field] = value, !.serverErrors = @ \ {field}]
  /\ UNCHANGED <<tasks, known, activeTask, requests>>
TypeHeader == \E text \in Headers : Type("header", text)
TypeHours == \E text \in Hours : Type("hours", text)
TypeDeadline == \E date \in Deadlines : Type("deadline", date)
ChooseParent == \E parent \in ParentOptions(known, form.task) \cup {NoTask} : Type("parent", parent)
CheckAppointment == Type("appointment", ~form.values.appointment)
TypeStart == form.values.appointment /\ \E date \in Starts : Type("start", date)

\* Nothing is sent while a field is wrong.
Submit(after) ==
  /\ Counted
  /\ form' = [form EXCEPT !.attempts = 1, !.failed = FALSE]
  /\ requests' = IF FormErrors # {} THEN requests
                 ELSE Append(requests, [form |-> form.number, task |-> form.task, values |-> form.values,
                                        parent |-> ParentId, seen |-> known, after |-> after,
                                        answer |-> "open", fields |-> {}])
  /\ UNCHANGED <<tasks, known, activeTask>>

Save == IsOpen /\ ~Pending /\ Submit(0)

\* The form of a neighbour: a new one, with that task's values.
Neighbour(id, direction) ==
  LET at == CHOOSE i \in DOMAIN Walk : Walk[i] = id
  IN IF at + direction \in DOMAIN Walk THEN Walk[at + direction] ELSE NoTask
WalkTo(id, direction) == form' = FormFor(Neighbour(id, direction), NextNumber)

Navigate(direction) ==
  /\ IsOpen /\ form.task # NewTask /\ Neighbour(form.task, direction) # NoTask /\ NextNumber <= MaxNumber
  /\ IF Dirty THEN Submit(direction)
     ELSE WalkTo(form.task, direction) /\ UNCHANGED <<tasks, known, activeTask, requests, edits>>

(* -------------------------------- the server -------------------------------- *)
Stored(list, request) ==
  LET task == [header |-> request.values.header, hours |-> request.values.hours, deadline |-> request.values.deadline,
               parent |-> request.parent, done |-> FALSE,
               appointment |-> request.values.appointment, start |-> request.values.start]
  IN [id \in DOMAIN list \cup {request.task} |->
        IF id # request.task THEN list[id]
        ELSE IF id \in DOMAIN list THEN [task EXCEPT !.done = list[id].done] ELSE task]

Served(i) ==
  LET request == requests[i]
      wrong == ServerErrors(request.values, request.parent, tasks, request.task)
  IN
  /\ request.answer = "open"
  /\ IF wrong = {}
     THEN tasks' = Stored(tasks, request) /\ requests' = [requests EXCEPT ![i].answer = "done"]
     ELSE UNCHANGED tasks /\ requests' = [requests EXCEPT ![i].answer = "refused", ![i].fields = wrong]
  /\ UNCHANGED <<known, activeTask, form, edits>>

\* A save that does not get through: the form says so and keeps everything.
Lost(i) ==
  /\ requests[i].answer = "open"
  /\ requests' = [requests EXCEPT ![i].answer = "refused"]
  /\ UNCHANGED <<tasks, known, activeTask, form, edits>>

Latest(i) == \A j \in DOMAIN requests : requests[j].form = requests[i].form => j <= i

After(request) ==
  IF request.answer # "done"
  THEN form' = [form EXCEPT !.serverErrors = request.fields, !.failed = (request.fields = {})]
  ELSE IF request.after = 0 THEN form' = NoForm ELSE WalkTo(request.task, request.after)

\* Faulty: the answer to any save of this form counts, not only to the last.
AnsweredAny(i) ==
  /\ requests[i].answer # "open"
  /\ requests' = RemoveAt(requests, i)
  /\ IF Mine(requests[i]) THEN After(requests[i]) ELSE UNCHANGED form
  /\ UNCHANGED <<tasks, known, activeTask, edits>>

\* The answer: of the last save of the form that is still open it closes the
\* form or walks on, or shows what is wrong.
Answered(i) ==
  /\ requests[i].answer # "open"
  /\ requests' = RemoveAt(requests, i)
  /\ IF Mine(requests[i]) /\ Latest(i) THEN After(requests[i]) ELSE UNCHANGED form
  /\ UNCHANGED <<tasks, known, activeTask, edits>>

Refetch == known # tasks /\ known' = tasks /\ UNCHANGED <<tasks, activeTask, form, requests, edits>>

\* Another device completes a task, or moves a deadline.
Elsewhere ==
  /\ Counted
  /\ \E id \in DOMAIN tasks :
       \/ tasks' = [tasks EXCEPT ![id].done = ~@]
       \/ \E date \in Deadlines \ {Bad} : tasks' = [tasks EXCEPT ![id].deadline = date]
  /\ UNCHANGED <<known, activeTask, form, requests>>
SwitchProject ==
  /\ Counted /\ activeTask' = IF activeTask = NoTask THEN Walk[1] ELSE NoTask
  /\ UNCHANGED <<tasks, known, form, requests>>

Next ==
  \/ \E id \in Task \cup {NewTask} : Open(id)
  \/ Cancel \/ Save \/ Refetch \/ Elsewhere \/ SwitchProject
  \/ IsOpen /\ (TypeHeader \/ TypeHours \/ TypeDeadline \/ ChooseParent \/ CheckAppointment \/ TypeStart)
  \/ \E direction \in {-1, 1} : Navigate(direction)
  \/ \E i \in DOMAIN requests : Served(i) \/ Lost(i) \/ Answered(i)

Spec == Init /\ [][Next]_vars

(* -------------------------------- properties -------------------------------- *)
\* A form goes by itself, or makes way for the next task, only without changes
\* or after the last save of it was done - whichever answers are still out.
GoesOnlySaved ==
  IsOpen /\ form'.number # form.number /\ ~Cancel =>
    \/ ~Dirty
    \/ \E i \in DOMAIN requests : Mine(requests[i]) /\ Latest(i) /\ requests[i].answer = "done"
===============================================================================
