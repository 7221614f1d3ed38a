------------------------------ MODULE TaskFilter ------------------------------
(* The filter of the Tasks tab and of the dependency editor (taskFilter.ts): *)
(* which tasks pass, which are only shown around them, when two filters are  *)
(* the same, and what the filter bar says of each kind.                      *)
EXTENDS Integers, Sequences, FiniteSets

None == -1            \* no estimate, no active project
ActiveProject == -10  \* "the active project", as a project choice
NoTag == -11          \* "no tag", as a tag choice

\* A filter: the words searched for, the choices of each kind and a range.
EmptyFilter ==
  [search |-> {}, projects |-> {}, tags |-> {}, estimates |-> {}, worked |-> {}, priority |-> <<0, 10>>]
Kinds == {"projects", "tags", "estimates", "worked", "priority"}

IsFiltering(filter) == filter # EmptyFilter
IsOn(filter, kind) == filter[kind] # EmptyFilter[kind]
WithoutKind(filter, kind) == [filter EXCEPT ![kind] = EmptyFilter[kind]]
Toggled(choices, choice) == IF choice \in choices THEN choices \ {choice} ELSE choices \cup {choice}

\* What a stored or saved filter is read as: its range put in order and in
\* bounds, choices nobody knows any more dropped.
Normalized(filter) ==
  LET low == IF filter.priority[1] <= filter.priority[2] THEN filter.priority[1] ELSE filter.priority[2]
      high == IF filter.priority[1] <= filter.priority[2] THEN filter.priority[2] ELSE filter.priority[1]
  IN [filter EXCEPT !.priority = <<IF low > 0 THEN low ELSE 0, IF high < 10 THEN high ELSE 10>>,
                    !.estimates = @ \cap {"le15", "le60", "1to4", "gt4", "none"},
                    !.worked = @ \cap {"not_started", "started", "over"}]
FiltersEqual(a, b) == Normalized(a) = Normalized(b)

(* ------------------------------ passing ------------------------------ *)
MatchesEstimate(task, preset) ==
  \/ preset = "none" /\ task.minutes = None
  \/ /\ task.minutes # None
     /\ \/ preset = "le15" /\ task.minutes <= 15
        \/ preset = "le60" /\ task.minutes <= 60
        \/ preset = "1to4" /\ task.minutes > 60 /\ task.minutes <= 240
        \/ preset = "gt4" /\ task.minutes > 240

MatchesWorked(task, preset, default) ==
  LET started == task.spent > 0 \/ task.running IN
  \/ preset = "not_started" /\ ~started
  \/ preset = "started" /\ started
  \/ preset = "over" /\ task.spent > (IF task.minutes = None THEN default ELSE task.minutes)

\* Different kinds must all hold, the choices within one are alternatives.
MatchesTask(tasks, id, filter, active, default) ==
  LET task == tasks[id]
      chosen == {IF p = ActiveProject THEN active ELSE p : p \in filter.projects} \ {None}
  IN /\ filter.search \subseteq task.words
     /\ filter.projects # {} => chosen \cap ({id} \cup task.above) # {}
     /\ filter.tags # {} => filter.tags \cap (IF task.tags = {} THEN {NoTag} ELSE task.tags) # {}
     /\ filter.estimates # {} => \E preset \in filter.estimates : MatchesEstimate(task, preset)
     /\ filter.worked # {} => \E preset \in filter.worked : MatchesWorked(task, preset, default)
     /\ task.priority >= filter.priority[1] /\ task.priority <= filter.priority[2]

Matching(tasks, filter, active, default) ==
  {id \in DOMAIN tasks : MatchesTask(tasks, id, filter, active, default)}

(* ------------------------------ the graph ------------------------------ *)
\* The tasks one dependency away from those that pass.
Linked(dependencies, matching) ==
  (UNION {{edge[1], edge[2]} : edge \in {e \in dependencies : {e[1], e[2]} \cap matching # {}}}) \ matching

FilterGraph(tasks, dependencies, matching, showLinked) ==
  matching \cup (IF showLinked THEN Linked(dependencies, matching) \cap DOMAIN tasks ELSE {})
===============================================================================
