--------------------------- MODULE StepTurnLifecycle ---------------------------
(***************************************************************************)
(* models/step_turn_lifecycle_contract.py: one step of an agent's loop,    *)
(* what it was meant to do, what it did, and how that was verified.        *)
(* Accepts(e) says whether a step with the parts e can be constructed;     *)
(* conventions as in ClarificationResolution.  The phase a step is in, and *)
(* the order of the phases, are read by no rule, nor is the context it was *)
(* selected in.  Confidence is in percent; NaN is the float that is        *)
(* neither below nor above a bound.                                        *)
(***************************************************************************)
EXTENDS Integers

CONSTANTS NaN

StepStatus == {"ready", "running", "paused", "blocked", "completed", "failed",
               "cancelled"}
TerminalStatuses == {"completed", "failed", "cancelled"}
StepOutcome == {"none", "success", "partial", "failure", "no_progress",
                "handoff_required", "approval_required"}
StopReason == {"none", "verified_success", "verification_failed",
               "tool_failure", "policy_block", "budget_exceeded",
               "needs_human_input", "needs_subagent", "repeated_no_progress",
               "loop_termination", "external_blocker"}

(* The artifacts an update is counted for, and those it is not.            *)
CountedArtifacts == {"loop_execution", "loop_memory", "todo", "features",
                     "lessons", "state"}
Artifacts == CountedArtifacts \cup {"prompts", "agent_rules", "git_policy"}

Intent == [acceptance_criteria : BOOLEAN, delegation_allowed : BOOLEAN]
Action == [action_type : {"delegation_request", "other"}]
Verification == [passed : BOOLEAN, confidence : Int \cup {NaN}]

Optional(S) == {x \in SUBSET S : \A a, b \in x : a = b}

Envelope == [status : StepStatus, outcome : StepOutcome, intent : Intent,
             actions : SUBSET Action, verification : Optional(Verification),
             state_delta : BOOLEAN, artifact_updates : SUBSET Artifacts,
             ended_at : BOOLEAN, stop_reason : StopReason,
             next_step_hint : BOOLEAN]

-----------------------------------------------------------------------------
(* The validators of a record. *)

AcceptanceCriteriaRequired(i) == i.acceptance_criteria

InRange(v) == v.confidence # NaN => v.confidence \in 0..100

PassedNeedsConfidence(v) ==
    (v.passed /\ v.confidence # NaN) => v.confidence >= 50

(* The validators of the step. *)

TerminalStatusRequiresEndedAt(e) == e.status \in TerminalStatuses => e.ended_at

CompletedSuccessNeedsVerification(e) ==
    (e.status = "completed" /\ e.outcome = "success") =>
        \E v \in e.verification : v.passed

FailureOutcomeNeedsStopReason(e) ==
    e.outcome \in {"failure", "no_progress"} => e.stop_reason # "none"

NoProgressNeedsNextStepHint(e) == e.outcome = "no_progress" => e.next_step_hint

StateDeltaRequiresArtifactUpdates(e) ==
    e.state_delta => e.artifact_updates \cap CountedArtifacts # {}

DelegationRequestNeedsAllowed(e) ==
    \A a \in e.actions :
        a.action_type = "delegation_request" => e.intent.delegation_allowed

Accepts(e) ==
    /\ AcceptanceCriteriaRequired(e.intent)
    /\ \A v \in e.verification : InRange(v) /\ PassedNeedsConfidence(v)
    /\ TerminalStatusRequiresEndedAt(e)
    /\ CompletedSuccessNeedsVerification(e)
    /\ FailureOutcomeNeedsStopReason(e)
    /\ NoProgressNeedsNextStepHint(e)
    /\ StateDeltaRequiresArtifactUpdates(e)
    /\ DelegationRequestNeedsAllowed(e)

-----------------------------------------------------------------------------
(* What an accepted envelope promises. *)

(* A step that is reported as completed with success was held against      *)
(* criteria and passed, not with a confidence that is known to be below    *)
(* one half; and what it changed is recorded where the next step reads it. *)
GoAheadIsBacked(e) ==
    (e.status = "completed" /\ e.outcome = "success") =>
        /\ e.intent.acceptance_criteria /\ e.ended_at
        /\ \E v \in e.verification : v.passed /\ v.confidence \in (50..100) \cup {NaN}
        /\ e.state_delta => \E a \in e.artifact_updates : a \in CountedArtifacts

(* A step can always be ended: as failed, for a reason and with a hint     *)
(* what to do next, or as a success once its verification has passed.      *)
Ended(e, status, outcome, reason) ==
    [e EXCEPT !.status = status, !.outcome = outcome, !.ended_at = TRUE,
              !.stop_reason = reason, !.next_step_hint = TRUE]

ProgressIsAccepted(e) ==
    /\ \A outcome \in {"failure", "no_progress", "partial"} :
          \A reason \in StopReason \ {"none"} :
             Accepts(Ended(e, "failed", outcome, reason))
    /\ (\E v \in e.verification : v.passed) =>
          Accepts(Ended(e, "completed", "success", "verified_success"))
    /\ e.intent.delegation_allowed =>
          \A a \in Action : Accepts([e EXCEPT !.actions = @ \cup {a}])
=============================================================================
