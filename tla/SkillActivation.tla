---------------------------- MODULE SkillActivation ----------------------------
(***************************************************************************)
(* models/skill_manifest_activation_contract.py: a skill, what it may      *)
(* touch, the request to activate it, the decision on the request and the  *)
(* record of the activation.  Accepts(e) says whether an envelope with the *)
(* parts e can be constructed; conventions as in ClarificationResolution.  *)
(* The manifest's status is read by validators without effect: a disabled  *)
(* skill activates like any other.  Inputs, outputs, dependencies, rules   *)
(* and the skill's own identifier are read by no rule.                     *)
(***************************************************************************)
CONSTANTS RequestId

ActivationStatus == {"requested", "approved", "loaded", "executed", "rejected",
                     "deferred", "failed"}
LoadedOrExecuted == {"loaded", "executed"}

PermissionProfile == [tool_list : BOOLEAN, sensitive_access : BOOLEAN]
ActivationRequest == [request_id : RequestId]
ActivationDecision == [request_id : RequestId, approved : BOOLEAN]
ActivationRecord == [request_id : RequestId, status : ActivationStatus,
                     failure_reason : BOOLEAN]

Optional(S) == {x \in SUBSET S : \A a, b \in x : a = b}

Envelope == [permission_profile : PermissionProfile,
             activation_request : Optional(ActivationRequest),
             activation_decision : Optional(ActivationDecision),
             activation_record : Optional(ActivationRecord)]

-----------------------------------------------------------------------------
(* The validators of a record. *)

(* An allow-list or a deny-list is what makes a profile restricted.        *)
NoSilentUnrestrictedAccess(p) == p.sensitive_access => p.tool_list

FailedStatusNeedsFailureReason(r) == r.status = "failed" => r.failure_reason

(* The validators of the envelope. *)

ExecutionRequiresApprovedDecision(e) ==
    \A r \in e.activation_record :
        r.status \in LoadedOrExecuted =>
            \E d \in e.activation_decision : d.approved

(* mutant: a decision is matched when there is an activation to match too. *)
ActivatedDecisionMatchesRequest(e) ==
    \A q \in e.activation_request, d \in e.activation_decision :
        (\E r \in e.activation_record : r.status = "requested")
            => d.request_id = q.request_id

ActivationDecisionMatchesRequest(e) ==
    \A q \in e.activation_request, d \in e.activation_decision :
        d.request_id = q.request_id

ActivationRecordMatchesRequest(e) ==
    \A q \in e.activation_request, r \in e.activation_record :
        r.request_id = q.request_id

Accepts(e) ==
    /\ NoSilentUnrestrictedAccess(e.permission_profile)
    /\ \A r \in e.activation_record : FailedStatusNeedsFailureReason(r)
    /\ ExecutionRequiresApprovedDecision(e)
    /\ ActivationDecisionMatchesRequest(e)
    /\ ActivationRecordMatchesRequest(e)

-----------------------------------------------------------------------------
(* What an accepted envelope promises. *)

(* With a request on file, decision and activation are about that request, *)
(* and so about each other.  (Without one they may name two requests.)     *)
ReferencesResolve(e) ==
    e.activation_request # {} =>
        \A d \in e.activation_decision, r \in e.activation_record :
            d.request_id = r.request_id

(* A skill that is loaded was let in, by a decision on this very request.  *)
GoAheadIsBacked(e) ==
    \A q \in e.activation_request, r \in e.activation_record :
        r.status \in LoadedOrExecuted =>
            \E d \in e.activation_decision :
                d.approved /\ d.request_id = q.request_id

(* A request can be decided either way, and once it is approved loaded,    *)
(* executed and reported as failed.                                        *)
Decided(e, q, approved) ==
    [e EXCEPT !.activation_decision =
        {[request_id |-> q.request_id, approved |-> approved]}]
Activated(e, q, status) ==
    [Decided(e, q, TRUE) EXCEPT !.activation_record =
        {[request_id |-> q.request_id, status |-> status,
          failure_reason |-> status = "failed"]}]

ProgressIsAccepted(e) ==
    \A q \in e.activation_request :
        /\ e.activation_record = {} =>
              \A approved \in BOOLEAN : Accepts(Decided(e, q, approved))
        /\ \A status \in ActivationStatus : Accepts(Activated(e, q, status))
=============================================================================
