------------------------------ MODULE MCPages ------------------------------
(* Instances of the pages: a few tasks, rows, plans or sessions, and a bound *)
(* on what is done.                                                          *)
EXTENDS Pages, TLC

CONSTANTS p1, p2, p3, r1, r2, grand, sub, step, holiday

MCMaxEdits ==
  [p \in {"split", "graph", "form"} |-> 3] @@ [p \in {"time", "merging"} |-> 2] @@ ("filters" :> 6)

\* Three parts of a task of 100 minutes: none yet, nested, or one done.
None == -1
MCOutlines ==
  {<<>>, << <<p1, 0, 40, FALSE>>, <<p2, 1, None, FALSE>> >>,
   << <<p1, 0, 20, TRUE>>, <<p2, 0, None, FALSE>>, <<p3, 1, 20, FALSE>> >>}

\* One choice of a tag, two names for filters; one filter is saved elsewhere.
NoTag == -11
MCOffered == [kind \in {"projects", "tags", "estimates", "worked"} |-> IF kind = "tags" THEN {NoTag} ELSE {}]
MCRanges == {<<7, 10>>}

\* Three tasks in a chain, and a filter only the last of them passes.
Filterable(priority) ==
  [above |-> {}, words |-> {}, tags |-> {}, minutes |-> 30, spent |-> 0, running |-> FALSE, priority |-> priority]
NoFilter == [search |-> {}, projects |-> {}, tags |-> {}, estimates |-> {}, worked |-> {}, priority |-> <<0, 10>>]
MCLinked == 1 :> Filterable(5) @@ 2 :> Filterable(5) @@ 3 :> Filterable(9)
MCDependencies == {<<1, 2>>, <<2, 3>>}
MCFilters == {NoFilter, [NoFilter EXCEPT !.priority = <<7, 10>>]}

\* A project with a deadline, a sub-project and a step in it.
InForm(header, deadline, parent) ==
  [header |-> header, hours |-> 2, deadline |-> deadline, parent |-> parent, done |-> FALSE,
   appointment |-> FALSE, start |-> None]
Bad == -2
MCWalk == <<grand, sub, step>>
MCKnown == grand :> InForm("g", 30, NoTask) @@ sub :> InForm("p", None, grand) @@ step :> InForm("t", 5, sub)
MCHours == {None, Bad}
MCFormDeadlines == {None, 20, 40}

\* A day of 24 units, a time frame within it and one round the clock.
MCFrames == {[start |-> 8, end |-> 16], [start |-> 12, end |-> 12]}

\* A Monday with a long card over two short ones and one over midnight, or a
\* free Tuesday behind an appointment.
Card(task, start, length) == [task |-> task, start |-> start, length |-> length]
Bucket(start, length, items) == [start |-> start, length |-> length, items |-> items]
MCPlans ==
  {[appointments |-> {Card(1, 0, 8), Card(2, 1, 2)},
    buckets |-> <<Bucket(4, 4, {Card(3, 4, 3), Card(4, 12, 6)}), Bucket(20, 4, {})>>],
   [appointments |-> {Card(1, 2, 2), Card(2, 3, 2)},
    buckets |-> <<Bucket(14, 4, {}), Bucket(150, 4, {})>>]}

\* Days of three minutes of two moments each: sessions within a minute, within
\* a day, over midnight, of over a day, and one that runs.
MCSessions ==
  {[start |-> 1, end |-> 3], [start |-> 0, end |-> 5], [start |-> 3, end |-> 7],
   [start |-> 4, end |-> 5], [start |-> 1, end |-> 9], [start |-> 5, end |-> None]}

MCDateOf == holiday :> 1
=============================================================================
