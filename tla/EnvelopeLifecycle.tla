--------------------------- MODULE EnvelopeLifecycle ---------------------------
(***************************************************************************)
(* What becomes of an envelope of models/ after its construction, for      *)
(* twelve contracts that are not in EnvelopeConstruction.  The validators  *)
(* run when an envelope is constructed and when it is loaded from a dump;  *)
(* a client that assigns to a field or appends to a list in between meets  *)
(* none of them (no model sets validate_assignment), though a record it    *)
(* appends has met its own.  The synthesis contract alone has a check to   *)
(* be called later, check_all_envelope_rules.                              *)
(*                                                                         *)
(* The client holds one envelope at a time.  A refused one (the            *)
(* ValidationError) is kept until it is let go, so that properties can     *)
(* speak about what is refused.                                            *)
(***************************************************************************)
EXTENDS Integers, Sequences

CONSTANTS
    Nothing,        \* no envelope is held
    MaxAttempts,    \* bound: retry attempts appended in place
    MaxCycles       \* bound: cycles of a loop appended in place

CONSTANTS ActionId, OfferedRetries, OfferedActions
CONSTANTS AgentId, NoAgent, ReturnId, OfferedHandoffs
CONSTANTS Place, OfferedRisks
CONSTANTS RequirementId, GapId, OfferedNegotiations, OfferedRequirements
CONSTANTS RequestId, OfferedSkills
CONSTANTS CandidateId, NoRoute, Blank, OfferedRoutes
CONSTANTS FieldName, OfferedIntakes
CONSTANTS SourceId, ConflictId, OfferedSyntheses
CONSTANTS Target, Never, OfferedMessages
CONSTANTS NaN, OfferedSteps
CONSTANTS Tool, OfferedRoles
CONSTANTS OfferedLoops

VARIABLE held       \* the envelope, its contract, and what it went through

Retry == INSTANCE RetryRecoveryCompensation
Handoff == INSTANCE HandoffReturn
Risk == INSTANCE RiskEscalation
Capability == INSTANCE CapabilityNegotiation
Skill == INSTANCE SkillActivation
Routing == INSTANCE RoutingArbitration
Intake == INSTANCE TaskIntake
Synthesis == INSTANCE SynthesisFinalization
Messaging == INSTANCE CrossAgentMessaging
Step == INSTANCE StepTurnLifecycle
Role == INSTANCE RoleSpecialization
Loop == INSTANCE RunningLoop

ASSUME NamesAssumption ==
    /\ NoAgent \notin AgentId
    /\ NoRoute \notin CandidateId /\ Blank \notin CandidateId
    /\ NoRoute # Blank
    /\ NaN \notin Int /\ Never \notin Nat

ASSUME OfferedAssumption ==
    /\ OfferedRetries \subseteq Retry!Envelope
    /\ OfferedActions \subseteq Retry!CompensationAction
    /\ OfferedHandoffs \subseteq Handoff!Envelope
    /\ OfferedRisks \subseteq Risk!Envelope
    /\ OfferedNegotiations \subseteq Capability!Envelope
    /\ OfferedRequirements \subseteq Capability!Requirement
    /\ OfferedSkills \subseteq Skill!Envelope
    /\ OfferedRoutes \subseteq Routing!Envelope
    /\ OfferedIntakes \subseteq Intake!Envelope
    /\ OfferedSyntheses \subseteq Synthesis!Envelope
    /\ OfferedMessages \subseteq Messaging!Envelope
    /\ OfferedSteps \subseteq Step!Envelope
    /\ OfferedRoles \subseteq Role!Envelope
    /\ OfferedLoops \subseteq Loop!Envelope

Held(contract, e, state) == [contract |-> contract, envelope |-> e, state |-> state]

-----------------------------------------------------------------------------
(* Construction. *)

LifecycleInit == held = Held("none", Nothing, "nothing")

Verdict(accepted) == IF accepted THEN "checked" ELSE "refused"

Build(contract, offered, Accepts(_)) ==
    /\ held.state = "nothing"
    /\ \E e \in offered : held' = Held(contract, e, Verdict(Accepts(e)))

BuildRetry == Build("retry", OfferedRetries, Retry!Accepts)
BuildHandoff == Build("handoff", OfferedHandoffs, Handoff!Accepts)
BuildRisk == Build("risk", OfferedRisks, Risk!Accepts)
BuildNegotiation == Build("negotiation", OfferedNegotiations, Capability!Accepts)
BuildRequirement ==
    Build("requirement", OfferedRequirements, Capability!VersionConstraintsCoherent)
BuildSkill == Build("skill", OfferedSkills, Skill!Accepts)
BuildRoute == Build("route", OfferedRoutes, Routing!Accepts)
BuildIntake == Build("intake", OfferedIntakes, Intake!Accepts)
BuildSynthesis == Build("synthesis", OfferedSyntheses, Synthesis!Accepts)
BuildMessage == Build("message", OfferedMessages, Messaging!Accepts)
BuildStep == Build("step", OfferedSteps, Step!Accepts)
BuildRole == Build("role", OfferedRoles, Role!Accepts)
BuildLoop == Build("loop", OfferedLoops, Loop!Accepts)

BuildAny ==
    \/ BuildRetry \/ BuildHandoff \/ BuildRisk \/ BuildNegotiation
    \/ BuildRequirement \/ BuildSkill \/ BuildRoute \/ BuildIntake
    \/ BuildSynthesis \/ BuildMessage \/ BuildStep \/ BuildRole \/ BuildLoop

-----------------------------------------------------------------------------
(* Changes in place, of the contracts whose work goes on. *)

Exists == held.state \in {"checked", "changed", "rechecked"}

Change(contract, e) == held' = Held(contract, e, "changed")

(* A source turns out to be of no use after all.                           *)
WithdrawSource ==
    /\ Exists /\ held.contract = "synthesis"
    /\ \E s \in held.envelope.sources :
          /\ s.eligible
          /\ Change("synthesis", [held.envelope EXCEPT
                !.sources = (@ \ {s}) \cup {[s EXCEPT !.eligible = FALSE]}])

AppendAttempt ==
    /\ Exists /\ held.contract = "retry"
    /\ held.envelope.retry_attempts < MaxAttempts
    /\ Change("retry", [held.envelope EXCEPT !.retry_attempts = @ + 1])

(* The plan of an envelope, with other actions or another status.          *)
ChangePlan(c) ==
    Change("retry", [held.envelope EXCEPT !.compensation_plan = {c}])

(* An action that met its own rules is appended: nobody compares its order *)
(* with those of the others.                                               *)
AppendAction ==
    /\ Exists /\ held.contract = "retry"
    /\ \E c \in held.envelope.compensation_plan, a \in OfferedActions :
          /\ \A b \in c.actions : b.action_id # a.action_id
          /\ Retry!InProgressOrFailedRequiresNotes(a)
          /\ ChangePlan([c EXCEPT !.actions = @ \cup {a}])

AssignActionStatus ==
    /\ Exists /\ held.contract = "retry"
    /\ \E c \in held.envelope.compensation_plan : \E a \in c.actions :
          \E status \in {"completed", "failed"} :
             ChangePlan([c EXCEPT !.actions =
                (@ \ {a}) \cup {[a EXCEPT !.status = status]}])

AssignPlanStatus ==
    /\ Exists /\ held.contract = "retry"
    /\ \E c \in held.envelope.compensation_plan :
          ChangePlan([c EXCEPT !.plan_status = "completed"])

AppendApproval ==
    /\ Exists /\ held.contract = "risk"
    /\ \E r \in [place : Risk!Free(held.envelope),
                 status : {"approved", "timed_out"},
                 approver : BOOLEAN, decision_notes : {TRUE}] :
          /\ Risk!ApprovedOrRejectedRequiresApproverAndReason(r)
          /\ Change("risk", [held.envelope EXCEPT !.approval_records = @ \cup {r}])

(* A record is answered, or its answer taken back, whoever signed it.      *)
AssignApprovalStatus ==
    /\ Exists /\ held.contract = "risk"
    /\ \E r \in held.envelope.approval_records :
          \E status \in {"approved", "withdrawn", "timed_out"} :
             Change("risk", [held.envelope EXCEPT !.approval_records =
                (@ \ {r}) \cup {[r EXCEPT !.status = status]}])

AppendCycle ==
    /\ Exists /\ held.contract = "loop"
    /\ Len(held.envelope.cycles) < MaxCycles
    /\ \E c \in Loop!Cycle :
          Change("loop", [held.envelope EXCEPT !.cycles = Append(@, c)])

(* Status and stop reason are two fields: a loop is stopped in two steps,  *)
(* in either order, or in one of them only.                                *)
AssignLoopStatus ==
    /\ Exists /\ held.contract = "loop"
    /\ \E status \in Loop!Status :
          Change("loop", [held.envelope EXCEPT !.status = status])

AssignStopReason ==
    /\ Exists /\ held.contract = "loop"
    /\ \E reason \in Loop!StopReason \cup {"none"} :
          Change("loop", [held.envelope EXCEPT !.stop_reason = reason])

ChangeInPlace ==
    \/ WithdrawSource
    \/ AppendAttempt \/ AppendAction \/ AssignActionStatus \/ AssignPlanStatus
    \/ AppendApproval \/ AssignApprovalStatus
    \/ AppendCycle \/ AssignLoopStatus \/ AssignStopReason

-----------------------------------------------------------------------------
(* Looking again. *)

(* check_all_envelope_rules of the synthesis contract: one rule of those   *)
(* there are.                                                              *)
Recheck ==
    /\ held.state = "changed" /\ held.contract = "synthesis"
    /\ held' = [held EXCEPT !.state =
          IF Synthesis!RejectedOnlyCannotApprove(held.envelope)
          THEN "rechecked" ELSE "refused"]

Reloaded(contract, Accepts(_)) ==
    /\ held.contract = contract
    /\ held' = [held EXCEPT !.state = Verdict(Accepts(held.envelope))]

(* model_validate of what model_dump wrote.                                *)
Reload ==
    /\ held.state \in {"changed", "rechecked"}
    /\ \/ Reloaded("synthesis", Synthesis!Accepts)
       \/ Reloaded("retry", Retry!Accepts)
       \/ Reloaded("risk", Risk!Accepts)
       \/ Reloaded("loop", Loop!Accepts)

LetGo ==
    /\ held.state # "nothing"
    /\ held' = Held("none", Nothing, "nothing")

LifecycleNext == BuildAny \/ ChangeInPlace \/ Recheck \/ Reload \/ LetGo

LifecycleSpec == LifecycleInit /\ [][LifecycleNext]_held

-----------------------------------------------------------------------------
(* Checked(c, P): the held envelope, if it is of contract c and the        *)
(* validators looked at it after its last change, has P.                   *)
Checked(contract, P(_)) ==
    (held.contract = contract /\ held.state = "checked") => P(held.envelope)

(* What one part of an envelope names in another is there, and what two    *)
(* parts say about a third agrees.                                         *)
ReferencesResolve ==
    /\ Checked("skill", Skill!ReferencesResolve)
    /\ Checked("route", Routing!ReferencesResolve)
    /\ Checked("intake", Intake!ReferencesResolve)

(* A decision to go ahead (to load a skill, to take a route, to proceed    *)
(* against a risk or without a capability, to release an output, to call a *)
(* step a success, to assign a role, to write to handed-over work, to wait *)
(* for an answer) rests on something recorded in the same envelope.        *)
GoAheadIsBacked ==
    /\ Checked("handoff", Handoff!GoAheadIsBacked)
    /\ Checked("risk", Risk!GoAheadIsBacked)
    /\ Checked("negotiation", Capability!GoAheadIsBacked)
    /\ Checked("skill", Skill!GoAheadIsBacked)
    /\ Checked("route", Routing!GoAheadIsBacked)
    /\ Checked("intake", Intake!GoAheadIsBacked)
    /\ Checked("synthesis", Synthesis!GoAheadIsBacked)
    /\ Checked("message", Messaging!GoAheadIsBacked)
    /\ Checked("step", Step!GoAheadIsBacked)
    /\ Checked("role", Role!GoAheadIsBacked)

(* Something that went wrong in one part (an action that failed, a         *)
(* requirement nobody meets, a conflict, a cycle whose verification was    *)
(* never recorded) is not reported as fine by another, however the         *)
(* envelope came to be: constructed, or changed in place and reloaded.     *)
BadNewsIsKept ==
    /\ Checked("retry", Retry!BadNewsIsKept)
    /\ Checked("negotiation", Capability!BadNewsIsKept)
    /\ Checked("route", Routing!BadNewsIsKept)
    /\ Checked("synthesis", Synthesis!BadNewsIsKept)
    /\ Checked("loop", Loop!BadNewsIsKept)

(* The validators never refuse the next version of an envelope that only   *)
(* records progress, where the documents name a next step: no legal        *)
(* envelope is a dead end for its work.                                    *)
ProgressIsAccepted ==
    /\ Checked("retry", Retry!ProgressIsAccepted)
    /\ Checked("handoff", Handoff!ProgressIsAccepted)
    /\ Checked("risk", Risk!ProgressIsAccepted)
    /\ Checked("negotiation", Capability!ProgressIsAccepted)
    /\ Checked("skill", Skill!ProgressIsAccepted)
    /\ Checked("route", Routing!ProgressIsAccepted)
    /\ Checked("intake", Intake!ProgressIsAccepted)
    /\ Checked("synthesis", Synthesis!ProgressIsAccepted)
    /\ Checked("message", Messaging!ProgressIsAccepted)
    /\ Checked("step", Step!ProgressIsAccepted)
    /\ Checked("role", Role!ProgressIsAccepted)
    /\ Checked("loop", Loop!ProgressIsAccepted)

(* Sources that are withdrawn in place are seen by the check that is       *)
(* called later: an approved or released output that passes it has a       *)
(* source that is still eligible, and the rest of what a release needs was *)
(* not lost on the way.                                                    *)
WithdrawnSourcesAreCaught ==
    (held.contract = "synthesis" /\ held.state \in {"checked", "rechecked"}) =>
        /\ held.envelope.finalization.status \in {"approved", "released"} =>
              \E s \in held.envelope.sources : s.eligible
        /\ Synthesis!GoAheadIsBacked(held.envelope)

(* How far the comparison as text can be trusted: the verdict on a range   *)
(* of versions is wrong, in either direction, exactly when digits mislead. *)
RangesAreMisjudgedByDigits ==
    (held.contract = "requirement" /\ held.state \in {"checked", "refused"}) =>
        (Capability!DigitsMislead(held.envelope) <=>
            held.state = Verdict(Capability!RefusedRangeIsEmpty(held.envelope)))

-----------------------------------------------------------------------------
(* What documents say of an envelope and the code does not keep.           *)

(* "Version constraints must be coherent (min <= max)"                     *)
(* (capabilities/CAPABILITIES.md:53): no other requirement is refused.     *)
RefusedRangesAreEmpty ==
    (held.contract = "requirement" /\ held.state = "refused") =>
        Capability!RefusedRangeIsEmpty(held.envelope)

(* "All cycles completed with PASS verification" (loop.md:46): the code    *)
(* asks for a verification result and does not look at what it says.       *)
CompletedLoopsPassed == Checked("loop", Loop!CompletedLoopsPassed)

(* "max_iterations reached" is a stop condition (loop_rules.md:39):        *)
(* enforce_max_iterations returns the cycles as they came.                 *)
CyclesAreBounded == Checked("loop", Loop!CyclesAreBounded)

(* "apply retry policy ... with max_attempts ceiling" (loop_rules.md:64):  *)
(* attempts are counted for the strategy none only.                        *)
AttemptsAreBounded == Checked("retry", Retry!AttemptsAreBounded)

(* "Timed-out approvals require an escalation path with fallback"          *)
(* (risk/RISK_APPROVAL.md:75): any path will do for the code.              *)
TimedOutHasFallback == Checked("risk", Risk!TimedOutHasFallback)
=============================================================================
