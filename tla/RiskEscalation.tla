----------------------------- MODULE RiskEscalation -----------------------------
(***************************************************************************)
(* models/risk_escalation_approval_contract.py: a risk that was assessed,  *)
(* the policy it is held against, the approvals it needs and got, and the  *)
(* decision.  Accepts(e) says whether an envelope with the parts e can be  *)
(* constructed; conventions as in ClarificationResolution.  An approval    *)
(* record is told from another by its place in the list: its identifier is *)
(* compared with nothing, like every reference between these parts, and    *)
(* one approver may sign twice.  Scores, scopes, deadlines, the approvers  *)
(* of an escalation path and the escalation request are read by no rule,   *)
(* and neither is allow_parallel_approval, whose validator has no effect.  *)
(* Whether a path names fallback approvers is kept for TimedOutHasFallback.*)
(***************************************************************************)
EXTENDS Naturals, FiniteSets

CONSTANTS Place         \* places in the list of approval records

RiskLevel == {"low", "medium", "high", "critical"}
ApprovalStatus == {"not_required", "pending", "approved", "rejected",
                   "timed_out", "withdrawn"}
EscalationDisposition == {"proceed", "proceed_with_constraints",
                          "pause_for_review", "return_for_rework", "reject",
                          "escalate_further"}

RiskThresholdPolicy == [minimum_risk_level : RiskLevel,
                        requires_human_approval : BOOLEAN,
                        default_disposition : EscalationDisposition \cup {"none"}]
ApprovalRequirement == [required_approver_count : Nat \ {0}]
HumanApproval == [place : Place, status : ApprovalStatus, approver : BOOLEAN,
                  decision_notes : BOOLEAN]
EscalationPath == [auto_escalate_on_timeout : BOOLEAN, sla : BOOLEAN,
                   fallback : BOOLEAN]
EscalationDecision == [approval_status : ApprovalStatus,
                       disposition : EscalationDisposition,
                       decider : BOOLEAN, reason : BOOLEAN,
                       resume_constraints : BOOLEAN]

Optional(S) == {x \in SUBSET S : \A a, b \in x : a = b}
RecordsInPlaces == {s \in SUBSET HumanApproval :
                      /\ IsFiniteSet(s)
                      /\ \A a, b \in s : a.place = b.place => a = b}

Envelope == [threshold_policy : Optional(RiskThresholdPolicy),
             approval_requirement : Optional(ApprovalRequirement),
             approval_records : RecordsInPlaces,
             escalation_path : Optional(EscalationPath),
             decision : Optional(EscalationDecision)]

-----------------------------------------------------------------------------
(* The validators of a record. *)

RequiresApprovalBlocksAutoProceed(p) ==
    p.requires_human_approval => p.default_disposition # "proceed"

HighCriticalRequireHumanApproval(p) ==
    p.minimum_risk_level \in {"high", "critical"} => p.requires_human_approval

ApprovedOrRejectedRequiresApproverAndReason(r) ==
    r.status \in {"approved", "rejected"} => r.approver /\ r.decision_notes

TimeoutPathNeedsSla(x) == x.auto_escalate_on_timeout => x.sla

ApprovedRejectedRequiresDeciderAndReason(d) ==
    d.approval_status \in {"approved", "rejected"} => d.decider /\ d.reason

ProceedWithConstraintsRequiresResumeConstraints(d) ==
    d.disposition = "proceed_with_constraints" => d.resume_constraints

(* The validators of the envelope. *)

Approved(e) == {r \in e.approval_records : r.status = "approved"}
Needed(e) ==
    IF e.approval_requirement = {} THEN 1
    ELSE (CHOOSE q \in e.approval_requirement : TRUE).required_approver_count

(* mutant: every record on file counts as an approval.                     *)
RequiresHumanAnswerBlocksAutoProceed(e) ==
    (/\ \E p \in e.threshold_policy : p.requires_human_approval
     /\ \E d \in e.decision : d.disposition = "proceed")
        => Cardinality(e.approval_records) >= Needed(e)

RequiresHumanApprovalBlocksAutoProceed(e) ==
    (/\ \E p \in e.threshold_policy : p.requires_human_approval
     /\ \E d \in e.decision : d.disposition = "proceed")
        => Cardinality(Approved(e)) >= Needed(e)

TimedOutRequiresEscalationPath(e) ==
    (\E r \in e.approval_records : r.status = "timed_out")
        => e.escalation_path # {}

Accepts(e) ==
    /\ \A p \in e.threshold_policy : /\ RequiresApprovalBlocksAutoProceed(p)
                                     /\ HighCriticalRequireHumanApproval(p)
    /\ \A r \in e.approval_records :
          ApprovedOrRejectedRequiresApproverAndReason(r)
    /\ \A x \in e.escalation_path : TimeoutPathNeedsSla(x)
    /\ \A d \in e.decision : /\ ApprovedRejectedRequiresDeciderAndReason(d)
                             /\ ProceedWithConstraintsRequiresResumeConstraints(d)
    /\ RequiresHumanApprovalBlocksAutoProceed(e)
    /\ TimedOutRequiresEscalationPath(e)

-----------------------------------------------------------------------------
(* What an accepted envelope promises. *)

(* An action that is held against a high or critical threshold and         *)
(* proceeds was approved by somebody who signed and said why: the policy   *)
(* asks for approval, the approval is counted, the record is signed.       *)
GoAheadIsBacked(e) ==
    (/\ \E p \in e.threshold_policy : p.minimum_risk_level \in {"high", "critical"}
     /\ \E d \in e.decision : d.disposition = "proceed")
        => \E r \in Approved(e) : r.approver /\ r.decision_notes

(* "Timed-out approvals require an escalation path with fallback"          *)
(* (risk/RISK_APPROVAL.md:75); the code does not look at the fallback.      *)
TimedOutHasFallback(e) ==
    (\E r \in e.approval_records : r.status = "timed_out") =>
        \E x \in e.escalation_path : x.fallback

(* One more signed approval is never one too many, and a decision to stop  *)
(* can always be recorded: a refusal with its decider and reason, a pause  *)
(* or an escalation while the approval is pending.                         *)
Free(e) == {place \in Place : \A r \in e.approval_records : r.place # place}

Signed(e, place) ==
    [e EXCEPT !.approval_records = @ \cup
        {[place |-> place, status |-> "approved", approver |-> TRUE,
          decision_notes |-> TRUE]}]
Stopped(e, status, disposition) ==
    [e EXCEPT !.decision = {[approval_status |-> status,
        disposition |-> disposition, decider |-> TRUE, reason |-> TRUE,
        resume_constraints |-> FALSE]}]

ProgressIsAccepted(e) ==
    /\ \A place \in Free(e) : Accepts(Signed(e, place))
    /\ \A disposition \in {"reject", "return_for_rework"} :
          Accepts(Stopped(e, "rejected", disposition))
    /\ \A disposition \in {"pause_for_review", "escalate_further"} :
          Accepts(Stopped(e, "pending", disposition))
=============================================================================
