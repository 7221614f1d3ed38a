------------------------ MODULE MCTrackingRequests ------------------------
(* TrackingRequests on a project and a task in it. *)
EXTENDS TrackingRequests, TLC

CONSTANTS Project, Design

Tree     == [t \in Task |-> IF t = Project THEN Null ELSE Project]
NoSteps  == {}

Symmetry == Permutations(Session) \cup Permutations(Worker)
=============================================================================
