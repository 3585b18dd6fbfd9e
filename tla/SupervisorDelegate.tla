--------------------------- MODULE SupervisorDelegate ---------------------------
(***************************************************************************)
(* models/supervisor_delegate_contract.py: work a supervisor delegates,    *)
(* what the delegate returned and the supervisor's review of it.           *)
(* Accepts(e) says whether an envelope with the parts e can be             *)
(* constructed; conventions as in ClarificationResolution and              *)
(* ParallelWorkJoin.  The identifiers of the assignment that the return    *)
(* and the review bear, and the constraint must_not_delegate_further, are  *)
(* compared with nothing and left out.                                     *)
(***************************************************************************)
CONSTANTS ReturnId

DelegationStatus == {"draft", "assigned", "running", "returned", "accepted",
                     "rejected", "rerouted", "cancelled", "expired"}
ReviewedStatuses == {"accepted", "rejected", "rerouted"}
ReturnDisposition == {"accept", "accept_with_modification",
                      "retry_same_delegate", "reroute_to_other_delegate",
                      "escalate", "discard"}
AcceptDispositions == {"accept", "accept_with_modification"}

DelegationRequest == [acceptance_criteria : BOOLEAN]
ContextSlice == [self_contained : BOOLEAN, refs : BOOLEAN]
DelegateSelection == [selected_delegate : BOOLEAN]
DelegationAssignment == [request : DelegationRequest, slice : ContextSlice,
                         selection : DelegateSelection,
                         status : DelegationStatus]
DelegationReturn == [return_id : ReturnId]
SupervisorReview == [return_id : ReturnId, disposition : ReturnDisposition,
                     outputs_or_notes : BOOLEAN, retry_reason : BOOLEAN,
                     reroute_reason : BOOLEAN]

Optional(S) == {{}} \cup {{x} : x \in S}

(* The request stands in the envelope and again in its assignment; the two *)
(* are not compared.                                                       *)
Envelope == [request : DelegationRequest, assignment : DelegationAssignment,
             returned : Optional(DelegationReturn),
             review : Optional(SupervisorReview)]

-----------------------------------------------------------------------------
(* The validators of a record. *)

AcceptanceCriteriaRequired(r) == r.acceptance_criteria

AtLeastOneRefUnlessSelfContained(s) == s.self_contained \/ s.refs

RunningStatusRequiresSelected(a) ==
    a.status = "running" => a.selection.selected_delegate

AcceptRequiresOutputsOrNotes(s) ==
    s.disposition \in AcceptDispositions => s.outputs_or_notes

RetryRequiresReason(s) ==
    s.disposition = "retry_same_delegate" => s.retry_reason

RerouteRequiresReason(s) ==
    s.disposition = "reroute_to_other_delegate" => s.reroute_reason

(* The validators of the envelope. *)

ReturnedStatusRequiresReturnRecord(e) ==
    e.assignment.status = "returned" => e.returned # {}

ReviewedStatusRequiresSupervisorReview(e) ==
    e.assignment.status \in ReviewedStatuses => e.review # {}

ReturnAndReviewConsistency(e) ==
    \A r \in e.returned, s \in e.review : s.return_id = r.return_id

Accepts(e) ==
    /\ \A r \in {e.request, e.assignment.request} : AcceptanceCriteriaRequired(r)
    /\ AtLeastOneRefUnlessSelfContained(e.assignment.slice)
    /\ RunningStatusRequiresSelected(e.assignment)
    /\ \A s \in e.review : /\ AcceptRequiresOutputsOrNotes(s)
                           /\ RetryRequiresReason(s)
                           /\ RerouteRequiresReason(s)
    /\ ReturnedStatusRequiresReturnRecord(e)
    /\ ReviewedStatusRequiresSupervisorReview(e)
    /\ ReturnAndReviewConsistency(e)

-----------------------------------------------------------------------------
(* What an accepted envelope promises. *)

(* A delegation runs from "RETURN SUBMITTED" to "SUPERVISOR REVIEWS"        *)
(* (primitives/lavish-axi-p46.html:321-322): what a review says it is of   *)
(* was returned.  The code asks this only of a review beside a return.     *)
ReviewsFollowReturns(e) ==
    {s.return_id : s \in e.review} \subseteq {r.return_id : r \in e.returned}

(* The outcome of a delegation rests on a review that says what it took,   *)
(* or why it went back, or gives the delegate's work up.                   *)
GoAheadIsBacked(e) ==
    e.assignment.status \in ReviewedStatuses =>
        \E s \in e.review :
            \/ s.outputs_or_notes \/ s.retry_reason \/ s.reroute_reason
            \/ s.disposition \in {"escalate", "discard"}

(* A delegate that runs may return, a return may be reviewed with whatever *)
(* the disposition asks for, and a review may be acted on as it disposes:  *)
(* to retry or to escalate leaves the work returned.                       *)
AsStatus(e, status) == [e EXCEPT !.assignment.status = status]
Reviewed(e, s) == [e EXCEPT !.review = {s}]

Outcome(disposition) ==
    CASE disposition \in AcceptDispositions -> "accepted"
      [] disposition = "discard" -> "rejected"
      [] disposition = "reroute_to_other_delegate" -> "rerouted"
      [] OTHER -> "returned"

ProgressIsAccepted(e) ==
    /\ (e.assignment.status = "running" /\ e.review = {}) =>
          \A id \in ReturnId :
             Accepts([AsStatus(e, "returned") EXCEPT
                         !.returned = {[return_id |-> id]}])
    /\ e.assignment.status = "returned" =>
          \A s \in SupervisorReview :
             (/\ s.outputs_or_notes /\ s.retry_reason /\ s.reroute_reason
              /\ [return_id |-> s.return_id] \in e.returned)
                => \A status \in {"returned", Outcome(s.disposition)} :
                      Accepts(AsStatus(Reviewed(e, s), status))
=============================================================================
