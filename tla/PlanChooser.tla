----------------------------- MODULE PlanChooser -----------------------------
(* "Plan my week" (PlanChooserDialog.tsx) and the plans the server stores    *)
(* (plan_store.py): opening the dialog computes candidates and stores them   *)
(* in place of the ones that were not accepted, a click accepts one, and the *)
(* only one there is accepts itself.  Requests are handled in any order,     *)
(* each in the steps in which it reads and writes, and an answer may be lost.*)
EXTENDS Naturals, FiniteSets, Sequences, SequencesExt

CONSTANTS MaxAlternatives,  \* of one computation (MAX_PLAN_ALTERNATIVES)
          MaxComputed,      \* how often plans are computed
          MaxOpened         \* how often the dialog opens

VARIABLES candidates, accepted,  \* the plans stored
          computed,              \* computations so far: the numbers of the plans
          requests,              \* under way, with the step they have come to
          open, autoAccepted, acceptInFlight,
          compute,               \* the computation the dialog follows
          accepting,             \* "Choose this plan" is drawn disabled
          week,                  \* the app shows the week
          opened

server == <<candidates, accepted, computed>>
dialog == <<open, autoAccepted, acceptInFlight, compute, accepting, week, opened>>
vars == <<server, requests, dialog>>

Idle == [status |-> "idle", alternatives |-> <<>>]
NoPlan == <<0, 0>>

\* A plan is told by the computation that made it and its place; `work` says
\* that it puts work anywhere.
hasScheduledWork(alternative) == alternative.work

Computed(number) ==
  {[i \in 1 .. count |-> [id |-> <<number, i>>, work |-> works[i]]] :
     count \in 0 .. MaxAlternatives, works \in [1 .. MaxAlternatives -> BOOLEAN]}

Ids(alternatives) == {alternatives[i].id : i \in DOMAIN alternatives}

Init ==
  /\ candidates = {} /\ accepted = {} /\ computed = 0
  /\ requests = <<>>
  /\ open = FALSE /\ autoAccepted = FALSE /\ acceptInFlight = FALSE /\ compute = Idle
  /\ accepting = FALSE /\ week = FALSE /\ opened = 0

Accepting == \E i \in DOMAIN requests : requests[i].kind = "accept"

(* ------------------------------- the dialog ------------------------------- *)
Open ==
  /\ ~open /\ open' = TRUE
  /\ opened < MaxOpened /\ opened' = opened + 1
  /\ autoAccepted' = FALSE
  /\ compute' = [status |-> "pending", alternatives |-> <<>>]
  /\ requests' = Append(requests, [kind |-> "compute", step |-> "sent", followed |-> TRUE, seen |-> {}, plan |-> NoPlan, answer |-> <<>>])
  /\ week' = FALSE
  /\ UNCHANGED <<server, acceptInFlight, accepting>>

\* compute.reset(): an answer that is still on its way is nobody's any more.
Unfollowed == [i \in DOMAIN requests |-> IF requests[i].kind = "compute"
                                          THEN [requests[i] EXCEPT !.followed = FALSE] ELSE requests[i]]

\* Faulty: closing leaves the computation to its answer.
CloseUnreset ==
  /\ open /\ open' = FALSE
  /\ UNCHANGED <<server, requests, compute, autoAccepted, acceptInFlight, accepting, week, opened>>

Close ==
  /\ open /\ open' = FALSE
  /\ compute' = Idle
  /\ requests' = Unfollowed
  /\ UNCHANGED <<server, autoAccepted, acceptInFlight, accepting, week, opened>>

Accept(id) == [kind |-> "accept", step |-> "sent", followed |-> TRUE, seen |-> {}, plan |-> id, answer |-> <<>>]

nothingSchedulable ==
  /\ compute.status = "success" /\ compute.alternatives # <<>>
  /\ \A i \in DOMAIN compute.alternatives : ~hasScheduledWork(compute.alternatives[i])

showCards == compute.status = "success" /\ Len(compute.alternatives) > 1 /\ ~nothingSchedulable

Choose(i) ==
  /\ open /\ showCards /\ ~accepting
  /\ ~acceptInFlight /\ acceptInFlight' = TRUE
  /\ requests' = Append(requests, Accept(compute.alternatives[i].id))
  /\ UNCHANGED <<server, open, autoAccepted, compute, accepting, week, opened>>

Draw ==
  /\ accepting # Accepting /\ accepting' = Accepting
  /\ UNCHANGED <<server, requests, open, autoAccepted, acceptInFlight, compute, week, opened>>

(* ------------------------------- the server ------------------------------- *)
At(i, kind, step) == requests[i].kind = kind /\ requests[i].step = step
Stored(i) == requests[i].plan \in candidates \cup accepted

\* The plans that are not accepted are read first and then deleted by their ids.
ReadUnaccepted(i) ==
  /\ At(i, "compute", "sent")
  /\ requests' = [requests EXCEPT ![i].step = "read", ![i].seen = candidates]
  /\ UNCHANGED <<server, dialog>>

StoreAlternatives(i) ==
  /\ At(i, "compute", "read")
  /\ computed < MaxComputed /\ computed' = computed + 1
  /\ accepted' = accepted \ requests[i].seen
  /\ \E alternatives \in Computed(computed + 1) :
       /\ candidates' = (candidates \ requests[i].seen) \cup Ids(alternatives)
       /\ requests' = [requests EXCEPT ![i].step = "done", ![i].answer = alternatives]
  /\ UNCHANGED dialog

GetPlan(i) ==
  /\ At(i, "accept", "sent") /\ Stored(i)
  /\ requests' = [requests EXCEPT ![i].step = "read"]
  /\ UNCHANGED <<server, dialog>>

\* Faulty: saving a plan that is gone stores it again.
AcceptAnyway(i) ==
  /\ At(i, "accept", "read")
  /\ accepted' = {requests[i].plan} /\ candidates' = {}
  /\ requests' = [requests EXCEPT ![i].step = "done"]
  /\ UNCHANGED <<computed, dialog>>

\* The plan is accepted and all others are deleted, in one transaction.
AcceptPlan(i) ==
  /\ At(i, "accept", "read") /\ Stored(i)
  /\ accepted' = {requests[i].plan} /\ candidates' = {}
  /\ requests' = [requests EXCEPT ![i].step = "done"]
  /\ UNCHANGED <<computed, dialog>>

(* ------------------------------- the answers ------------------------------ *)
\* An only plan that puts work somewhere is accepted without being shown, once
\* for an opening, unless another is just being accepted.
Answered(i) ==
  /\ At(i, "compute", "done")
  /\ LET alternatives == requests[i].answer
         silent == /\ requests[i].followed /\ ~autoAccepted
                   /\ Len(alternatives) = 1 /\ hasScheduledWork(alternatives[1])
     IN /\ compute' = IF requests[i].followed
                      THEN [status |-> "success", alternatives |-> alternatives] ELSE compute
        /\ autoAccepted' = (autoAccepted \/ silent)
        /\ acceptInFlight' = (acceptInFlight \/ silent)
        /\ requests' = RemoveAt(requests, i) \o
                         IF silent /\ ~acceptInFlight THEN <<Accept(alternatives[1].id)>> ELSE <<>>
  /\ UNCHANGED <<server, open, accepting, week, opened>>

\* The app shows the week and closes the dialog, which drops its computation.
Accepted(i) ==
  /\ At(i, "accept", "done")
  /\ requests' = RemoveAt(Unfollowed, i)
  /\ acceptInFlight' = FALSE /\ open' = FALSE /\ week' = TRUE /\ compute' = Idle
  /\ UNCHANGED <<server, autoAccepted, accepting, opened>>

\* A request or its answer is lost, or the plan is gone: nobody is told that
\* an accept failed.
Failed(i) ==
  /\ requests' = RemoveAt(requests, i)
  /\ IF requests[i].kind = "accept" THEN acceptInFlight' = FALSE /\ UNCHANGED compute
     ELSE /\ compute' = IF requests[i].followed THEN [Idle EXCEPT !.status = "error"] ELSE compute
          /\ UNCHANGED acceptInFlight
  /\ UNCHANGED <<server, open, autoAccepted, accepting, week, opened>>

\* Another device plans, or accepts a plan.
Elsewhere ==
  /\ \/ /\ computed < MaxComputed /\ computed' = computed + 1
        /\ candidates' = {<<computed + 1, 1>>} /\ UNCHANGED accepted
     \/ /\ \E id \in candidates : accepted' = {id}
        /\ candidates' = {} /\ UNCHANGED computed
  /\ UNCHANGED <<requests, dialog>>

Next ==
  \/ Open \/ Close \/ Draw \/ Elsewhere
  \/ \E i \in DOMAIN compute.alternatives : Choose(i)
  \/ \E i \in DOMAIN requests :
       \/ ReadUnaccepted(i) \/ StoreAlternatives(i) \/ GetPlan(i) \/ AcceptPlan(i)
       \/ Answered(i) \/ Accepted(i) \/ Failed(i)

Spec == Init /\ [][Next]_vars

(* ------------------------------- properties ------------------------------- *)
\* A candidate that newer ones, or another plan, have replaced is not accepted
\* any more, also when it was still there as the request began: its buckets
\* and entries are gone.
StoredOnly == accepted' \subseteq accepted \cup candidates

\* Closing the dialog while it computes plans nothing: no plan is accepted on
\* an answer that comes afterwards.
AcceptsWhileOpen == Accepting' /\ ~Accepting => open
=============================================================================
