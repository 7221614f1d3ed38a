--------------------------- MODULE DependencyEditor ---------------------------
(* The dependency editor (DependencyEditor.tsx, useDependencyEditing.ts,     *)
(* dependencyGraph.ts): server -> cache -> graph -> the canvas.  A new edge  *)
(* is shown at once and taken back when the server refuses it, with the      *)
(* cycle it would close in red; the canvas takes deleted edges and nodes     *)
(* away itself and is only set again when the graph changes.                 *)
EXTENDS TaskFilter, SequencesExt

CONSTANTS Tasks,       \* the tasks with what the filter looks at
          Known,       \* the dependencies there are to begin with
          Filters,     \* the filters that are set
          Default,     \* the user's default duration
          MaxEdits     \* connections, deletions and changes of the view, in all

VARIABLES server,      \* the dependencies on the server
          cache,       \* those this page knows: <<from, to, number>>, the number 0 or that of
                       \* the request that is to make it
          nodes, edges,\* what is on the canvas
          requests,    \* under way
          tries,       \* the connections made so far
          cycle,       \* the tasks of the cycle shown in red, and of which try it is
          toast,
          filter, showLinked,
          edits

vars == <<server, cache, nodes, edges, requests, tries, cycle, toast, filter, showLinked, edits>>

NoCycle == [path |-> <<>>, of |-> 0]

\* The chains from one task to another.
Chains(from, to, dependencies) ==
  {chain \in UNION {[1..n -> DOMAIN Tasks] : n \in 2..Cardinality(DOMAIN Tasks)} :
     /\ chain[1] = from /\ chain[Len(chain)] = to
     /\ \A i \in 1..(Len(chain) - 1) : <<chain[i], chain[i + 1]>> \in dependencies}

Passing(f) == Matching(Tasks, f, None, Default)
Pairs(dependencies) == {<<d[1], d[2]>> : d \in dependencies}
Shown(f, linked, dependencies) ==
  IF IsFiltering(f) THEN FilterGraph(Tasks, Pairs(dependencies), Passing(f), linked) ELSE DOMAIN Tasks
FlowEdges(shown, dependencies) == {d \in dependencies : d[1] \in shown /\ d[2] \in shown}

\* The canvas is set again when what the graph is made from has changed.
Rebuilt ==
  LET shown == Shown(filter', showLinked', cache') IN
  IF <<cache', filter', showLinked', cycle'>> # <<cache, filter, showLinked, cycle>>
  THEN nodes' = shown /\ edges' = FlowEdges(shown, cache')
  ELSE UNCHANGED <<nodes, edges>>

Init ==
  /\ server = Known /\ cache = {<<d[1], d[2], 0>> : d \in Known}
  /\ requests = <<>> /\ tries = 0 /\ cycle = NoCycle /\ toast = FALSE
  /\ filter \in Filters /\ showLinked \in BOOLEAN
  /\ nodes = Shown(filter, showLinked, cache) /\ edges = FlowEdges(nodes, cache)
  /\ edits = 0

(* ------------------------------- on the canvas ------------------------------- *)
Counted == edits < MaxEdits /\ edits' = edits + 1
NoFetch == SelectSeq(requests, LAMBDA r : r.kind # "fetch")

\* A new edge: the reads under way are dropped, the cache is kept for the case
\* that it is refused, and the red of the try before goes.
OnConnect(from, to) ==
  /\ {from, to} \subseteq nodes /\ from # to
  /\ tries' = tries + 1 /\ Counted
  /\ cycle' = NoCycle
  /\ requests' = Append(NoFetch, [kind |-> "create", edge |-> <<from, to>>, number |-> tries', previous |-> cache,
                                  answer |-> "open", path |-> <<>>])
  /\ cache' = cache \cup {<<from, to, tries'>>}
  /\ UNCHANGED <<server, toast, filter, showLinked>>
  /\ Rebuilt

\* Deleting what is selected: an edge, or a node and the edges at it.  The
\* canvas drops them; only edges the server has are deleted there.
Removed(gone, goneNodes) ==
  LET known == {d \in gone : d[3] = 0} IN
  /\ edges' = edges \ gone /\ nodes' = nodes \ goneNodes
  /\ Counted
  /\ requests' = requests \o [i \in 1..Cardinality(known) |->
                               [kind |-> "delete", edge |-> SetToSeq(Pairs(known))[i], number |-> 0, previous |-> {},
                                answer |-> "open", path |-> <<>>]]
  /\ UNCHANGED <<server, cache, tries, cycle, toast, filter, showLinked>>
OnEdgesDelete == \E edge \in edges : Removed({edge}, {})
DeleteNode == \E node \in nodes : Removed({edge \in edges : node \in {edge[1], edge[2]}}, {node})

CloseToast ==
  /\ toast /\ toast' = FALSE /\ cycle' = NoCycle
  /\ UNCHANGED <<server, cache, requests, tries, filter, showLinked, edits>>
  /\ Rebuilt

View == Counted /\ UNCHANGED <<server, cache, requests, tries, cycle, toast>> /\ Rebuilt
SetFilter == \E f \in Filters : f # filter /\ filter' = f /\ UNCHANGED showLinked /\ View
ToggleLinked == showLinked' = ~showLinked /\ UNCHANGED filter /\ View

(* -------------------------------- the server -------------------------------- *)
\* A dependency that exists is refused without a cycle, one that would close a
\* cycle with it.
Served(i) ==
  LET request == requests[i]
      back == Chains(request.edge[2], request.edge[1], server)
      answer(a, path) == [requests EXCEPT ![i].answer = a, ![i].path = path]
  IN
  /\ request.kind \in {"create", "delete"} /\ request.answer = "open"
  /\ \/ /\ request.kind = "create" /\ request.edge \notin server /\ back = {}
        /\ server' = server \cup {request.edge} /\ requests' = answer("done", <<>>)
     \/ /\ request.kind = "create" /\ request.edge \notin server /\ UNCHANGED server
        /\ \E chain \in back : requests' = answer("refused", chain)
     \/ /\ request.kind = "create" /\ request.edge \in server /\ UNCHANGED server
        /\ requests' = answer("refused", <<>>)
     \/ /\ request.kind = "delete" /\ request.edge \in server
        /\ server' = server \ {request.edge} /\ requests' = answer("done", <<>>)
     \/ /\ request.kind = "delete" /\ UNCHANGED server /\ requests' = answer("refused", <<>>)
  /\ UNCHANGED <<cache, nodes, edges, tries, cycle, toast, filter, showLinked, edits>>

Elsewhere ==
  /\ Counted
  /\ \E d \in server : server' = server \ {d}
  /\ UNCHANGED <<cache, nodes, edges, requests, tries, cycle, toast, filter, showLinked>>

Fetch(number) ==
  [kind |-> "fetch", edge |-> <<>>, number |-> number, previous |-> server, answer |-> "done", path |-> <<>>]
Invalidated(rest, number) == Append(SelectSeq(rest, LAMBDA r : r.kind # "fetch"), Fetch(number))

\* The answer to a new edge: refused, the cache is put back as it was when the
\* edge was drawn.  Either way the dependencies are read again.
Created(i) ==
  LET request == requests[i] IN
  /\ request.kind = "create" /\ request.answer \in {"done", "refused"}
  /\ IF request.answer = "refused"
     THEN cache' = request.previous /\ requests' = Invalidated([requests EXCEPT ![i].answer = "settling"], request.number)
     ELSE UNCHANGED cache /\ requests' = Invalidated(RemoveAt(requests, i), 0)
  /\ UNCHANGED <<server, tries, cycle, toast, filter, showLinked, edits>>
  /\ Rebuilt

\* Faulty: every refusal is shown, also that of a try before the last.
ToldAnyTry(i) ==
  LET request == requests[i] IN
  /\ request.kind = "create" /\ request.answer = "settling"
  /\ \A j \in DOMAIN requests : requests[j].kind = "fetch" => requests[j].number # request.number
  /\ requests' = RemoveAt(requests, i)
  /\ cycle' = [path |-> request.path, of |-> request.number] /\ toast' = TRUE
  /\ UNCHANGED <<server, cache, tries, filter, showLinked, edits>>
  /\ Rebuilt

\* When that has been done, or was dropped, the message is shown and the cycle
\* in red: of the last try only.
Told(i) ==
  LET request == requests[i] IN
  /\ request.kind = "create" /\ request.answer = "settling"
  /\ \A j \in DOMAIN requests : requests[j].kind = "fetch" => requests[j].number # request.number
  /\ requests' = RemoveAt(requests, i)
  /\ IF request.number = tries
     THEN cycle' = [path |-> request.path, of |-> request.number] /\ toast' = TRUE
     ELSE UNCHANGED <<cycle, toast>>
  /\ UNCHANGED <<server, cache, tries, filter, showLinked, edits>>
  /\ Rebuilt

\* Only a deletion that was done makes the dependencies be read again.
Deleted(i) ==
  LET request == requests[i] IN
  /\ request.kind = "delete" /\ request.answer # "open"
  /\ IF request.answer = "refused"
     THEN toast' = TRUE /\ requests' = RemoveAt(requests, i)
     ELSE UNCHANGED toast /\ requests' = Invalidated(RemoveAt(requests, i), 0)
  /\ UNCHANGED <<server, cache, nodes, edges, tries, cycle, filter, showLinked, edits>>

Fetched(i) ==
  /\ requests[i].kind = "fetch"
  /\ cache' = {<<d[1], d[2], 0>> : d \in requests[i].previous}
  /\ requests' = RemoveAt(requests, i)
  /\ UNCHANGED <<server, tries, cycle, toast, filter, showLinked, edits>>
  /\ Rebuilt

Next ==
  \/ \E from, to \in DOMAIN Tasks : OnConnect(from, to)
  \/ OnEdgesDelete \/ DeleteNode \/ CloseToast \/ SetFilter \/ ToggleLinked \/ Elsewhere
  \/ \E i \in DOMAIN requests : Served(i) \/ Created(i) \/ Told(i) \/ Deleted(i) \/ Fetched(i)

Spec == Init /\ [][Next]_vars

(* -------------------------------- properties -------------------------------- *)
\* "The user sees exactly the loop the server rejected": what is red is the
\* cycle the newest line would have closed, never that of a line drawn before,
\* in whatever order the answers come.
RedIsTheLastRefusal == cycle.path # <<>> => cycle.of = tries

===============================================================================
