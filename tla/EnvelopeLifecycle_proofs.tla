----------------------- MODULE EnvelopeLifecycle_proofs -----------------------
(***************************************************************************)
(* Theorems about envelopes that are constructed, changed in place and     *)
(* looked at again, for all identifiers, bounds and parts clients offer.   *)
(***************************************************************************)
EXTENDS EnvelopeLifecycle, FiniteSetTheorems, SequenceTheorems, TLAPS

-----------------------------------------------------------------------------
(* The inductive invariant.  Shape and IsTyped say what is held;           *)
(* CheckedIsAccepted that a checked envelope passed its validators; and    *)
(* ChangedKeeps which rules of a synthesis its change in place leaves      *)
(* alone.  The changes of the other contracts leave no rule alone: what    *)
(* they break is found when the envelope is reloaded, or not at all.       *)

Shape == held = Held(held.contract, held.envelope, held.state)

IsTyped ==
    held.state # "nothing" =>
        /\ held.contract = "retry" => held.envelope \in Retry!Envelope
        /\ held.contract = "handoff" => held.envelope \in Handoff!Envelope
        /\ held.contract = "risk" => held.envelope \in Risk!Envelope
        /\ held.contract = "negotiation" => held.envelope \in Capability!Envelope
        /\ held.contract = "skill" => held.envelope \in Skill!Envelope
        /\ held.contract = "route" => held.envelope \in Routing!Envelope
        /\ held.contract = "intake" => held.envelope \in Intake!Envelope
        /\ held.contract = "synthesis" => held.envelope \in Synthesis!Envelope
        /\ held.contract = "message" => held.envelope \in Messaging!Envelope
        /\ held.contract = "step" => held.envelope \in Step!Envelope
        /\ held.contract = "role" => held.envelope \in Role!Envelope
        /\ held.contract = "loop" => held.envelope \in Loop!Envelope

CheckedIsAccepted ==
    held.state = "checked" =>
        /\ held.contract = "retry" => Retry!Accepts(held.envelope)
        /\ held.contract = "handoff" => Handoff!Accepts(held.envelope)
        /\ held.contract = "risk" => Risk!Accepts(held.envelope)
        /\ held.contract = "negotiation" => Capability!Accepts(held.envelope)
        /\ held.contract = "skill" => Skill!Accepts(held.envelope)
        /\ held.contract = "route" => Routing!Accepts(held.envelope)
        /\ held.contract = "intake" => Intake!Accepts(held.envelope)
        /\ held.contract = "synthesis" => Synthesis!Accepts(held.envelope)
        /\ held.contract = "message" => Messaging!Accepts(held.envelope)
        /\ held.contract = "step" => Step!Accepts(held.envelope)
        /\ held.contract = "role" => Role!Accepts(held.envelope)
        /\ held.contract = "loop" => Loop!Accepts(held.envelope)

ReleaseIsKept(e) ==
    /\ Synthesis!ValidateFinalization(e.finalization)
    /\ Synthesis!AcceptDispositionRequiresFinalOutputRefs(e)

ChangedKeeps ==
    (Exists /\ held.contract = "synthesis") =>
        /\ ReleaseIsKept(held.envelope)
        /\ held.state = "rechecked" =>
              Synthesis!RejectedOnlyCannotApprove(held.envelope)

LifecycleInv == Shape /\ IsTyped /\ CheckedIsAccepted /\ ChangedKeeps

(* Whatever the validators accept satisfies what the changes keep.         *)
LEMMA AcceptedKeeps == \A e : Synthesis!Accepts(e) => ReleaseIsKept(e)
BY DEF Synthesis!Accepts, ReleaseIsKept

(* Construction: what is built was offered, and is checked if accepted.    *)
LEMMA BuildKeepsInv == ASSUME LifecycleInv, BuildAny PROVE LifecycleInv'
<1> USE OfferedAssumption, AcceptedKeeps
    DEF LifecycleInv, Shape, IsTyped, CheckedIsAccepted, ChangedKeeps, Exists,
        Build, Held, Verdict
<1>1. CASE BuildRetry
  BY <1>1 DEF BuildRetry
<1>2. CASE BuildHandoff
  BY <1>2 DEF BuildHandoff
<1>3. CASE BuildRisk
  BY <1>3 DEF BuildRisk
<1>4. CASE BuildNegotiation
  BY <1>4 DEF BuildNegotiation
<1>5. CASE BuildRequirement
  BY <1>5 DEF BuildRequirement
<1>6. CASE BuildSkill
  BY <1>6 DEF BuildSkill
<1>7. CASE BuildRoute
  BY <1>7 DEF BuildRoute
<1>8. CASE BuildIntake
  BY <1>8 DEF BuildIntake
<1>9. CASE BuildSynthesis
  BY <1>9 DEF BuildSynthesis
<1>10. CASE BuildMessage
  BY <1>10 DEF BuildMessage
<1>11. CASE BuildStep
  BY <1>11 DEF BuildStep
<1>12. CASE BuildRole
  BY <1>12 DEF BuildRole
<1>13. CASE BuildLoop
  BY <1>13 DEF BuildLoop
<1> QED
  BY <1>1, <1>2, <1>3, <1>4, <1>5, <1>6, <1>7, <1>8, <1>9, <1>10, <1>11,
     <1>12, <1>13 DEF BuildAny

-----------------------------------------------------------------------------
(* Changes in place. *)

(* A source that is withdrawn changes no rule but the one on sources.      *)
LEMMA WithdrawKeepsInv ==
    ASSUME LifecycleInv, WithdrawSource PROVE LifecycleInv'
<1>1. PICK s \in held.envelope.sources :
          held' = Held("synthesis", [held.envelope EXCEPT
                    !.sources = (@ \ {s}) \cup {[s EXCEPT !.eligible = FALSE]}],
                    "changed")
  BY DEF WithdrawSource, Change
<1> DEFINE d == [s EXCEPT !.eligible = FALSE]
           f == [held.envelope EXCEPT !.sources = (@ \ {s}) \cup {d}]
<1>2. held.contract = "synthesis" /\ held.state # "nothing" /\ Exists
  BY DEF WithdrawSource, Exists
<1>3. held.envelope \in Synthesis!Envelope /\ ReleaseIsKept(held.envelope)
  BY <1>2 DEF LifecycleInv, IsTyped, ChangedKeeps
<1>4. d \in Synthesis!Source
  BY <1>3 DEF Synthesis!Envelope, Synthesis!Source
<1>5. f \in Synthesis!Envelope
  BY <1>3, <1>4 DEF Synthesis!Envelope
<1>6. /\ f.finalization = held.envelope.finalization
      /\ f.final_output_refs = held.envelope.final_output_refs
  BY <1>3 DEF Synthesis!Envelope
<1> HIDE DEF f, d
<1>7. ReleaseIsKept(f)
  BY <1>3, <1>6 DEF ReleaseIsKept, Synthesis!ValidateFinalization,
                    Synthesis!AcceptDispositionRequiresFinalOutputRefs
<1>8. held' = Held("synthesis", f, "changed")
  BY <1>1 DEF f, d
<1> QED
  BY <1>5, <1>7, <1>8 DEF LifecycleInv, Shape, IsTyped, CheckedIsAccepted,
                          ChangedKeeps, Exists, Held

(* A change in place that keeps the type is all the invariant asks of the  *)
(* contracts other than the synthesis.                                     *)
LEMMA TypedChangeKeepsInv ==
    ASSUME LifecycleInv,
           \/ \E f \in Retry!Envelope : held' = Held("retry", f, "changed")
           \/ \E f \in Risk!Envelope : held' = Held("risk", f, "changed")
           \/ \E f \in Loop!Envelope : held' = Held("loop", f, "changed")
    PROVE  LifecycleInv'
BY DEF LifecycleInv, Shape, IsTyped, CheckedIsAccepted, ChangedKeeps, Exists, Held

LEMMA AttemptKeepsInv ==
    ASSUME LifecycleInv, AppendAttempt PROVE LifecycleInv'
<1> DEFINE f == [held.envelope EXCEPT !.retry_attempts = @ + 1]
<1>1. held' = Held("retry", f, "changed") /\ held.contract = "retry" /\ Exists
  BY DEF AppendAttempt, Change
<1>2. held.envelope \in Retry!Envelope
  BY <1>1 DEF LifecycleInv, IsTyped, Exists
<1>3. f \in Retry!Envelope
  BY <1>2 DEF Retry!Envelope
<1> HIDE DEF f
<1> QED
  BY <1>1, <1>3, TypedChangeKeepsInv

(* An envelope keeps its type with another well-formed plan.               *)
LEMMA PlanChangeKeepsInv ==
    ASSUME LifecycleInv, Exists, held.contract = "retry",
           NEW c \in Retry!CompensationPlan, ChangePlan(c)
    PROVE  LifecycleInv'
<1> DEFINE f == [held.envelope EXCEPT !.compensation_plan = {c}]
<1>1. held' = Held("retry", f, "changed")
  BY DEF ChangePlan, Change
<1>2. held.envelope \in Retry!Envelope
  BY DEF LifecycleInv, IsTyped, Exists
<1>3. {c} \in Retry!Optional(Retry!CompensationPlan)
  BY DEF Retry!Optional
<1>4. f \in Retry!Envelope
  BY <1>2, <1>3 DEF Retry!Envelope
<1> HIDE DEF f
<1> QED
  BY <1>1, <1>4, TypedChangeKeepsInv

LEMMA PlansAreTyped ==
    ASSUME LifecycleInv, Exists, held.contract = "retry"
    PROVE  held.envelope.compensation_plan \subseteq Retry!CompensationPlan
<1>1. held.envelope \in Retry!Envelope
  BY DEF LifecycleInv, IsTyped, Exists
<1> QED
  BY <1>1 DEF Retry!Envelope, Retry!Optional

LEMMA PlanKeepsInv ==
    ASSUME LifecycleInv, AppendAction \/ AssignActionStatus \/ AssignPlanStatus
    PROVE  LifecycleInv'
<1>1. CASE AppendAction
  <2>1. PICK c \in held.envelope.compensation_plan, a \in OfferedActions :
            /\ \A b \in c.actions : b.action_id # a.action_id
            /\ ChangePlan([c EXCEPT !.actions = @ \cup {a}])
    BY <1>1 DEF AppendAction
  <2>2. c \in Retry!CompensationPlan /\ a \in Retry!CompensationAction
    BY <1>1, PlansAreTyped, OfferedAssumption DEF AppendAction
  <2>3. c.actions \cup {a} \in Retry!ActionsInPlaces
    BY <2>1, <2>2 DEF Retry!CompensationPlan, Retry!ActionsInPlaces
  <2>4. [c EXCEPT !.actions = @ \cup {a}] \in Retry!CompensationPlan
    BY <2>2, <2>3 DEF Retry!CompensationPlan
  <2> QED
    BY <1>1, <2>1, <2>4, PlanChangeKeepsInv DEF AppendAction
<1>2. CASE AssignActionStatus
  <2>0. PICK c \in held.envelope.compensation_plan :
            \E a \in c.actions : \E status \in {"completed", "failed"} :
               ChangePlan([c EXCEPT !.actions =
                   (@ \ {a}) \cup {[a EXCEPT !.status = status]}])
    BY <1>2 DEF AssignActionStatus
  <2>1. PICK a \in c.actions, status \in {"completed", "failed"} :
            ChangePlan([c EXCEPT !.actions =
                (@ \ {a}) \cup {[a EXCEPT !.status = status]}])
    BY <2>0
  <2> DEFINE b == [a EXCEPT !.status = status]
  <2>2. c \in Retry!CompensationPlan
    BY <1>2, PlansAreTyped DEF AssignActionStatus
  <2>3. /\ c.actions \subseteq Retry!CompensationAction
        /\ \A x, y \in c.actions : x.action_id = y.action_id => x = y
    BY <2>2 DEF Retry!CompensationPlan, Retry!ActionsInPlaces
  <2>4. b \in Retry!CompensationAction /\ b.action_id = a.action_id
    BY <2>3 DEF Retry!CompensationAction, Retry!CompensationStatus
  <2> HIDE DEF b
  <2>5. (c.actions \ {a}) \cup {b} \in Retry!ActionsInPlaces
    BY <2>3, <2>4 DEF Retry!ActionsInPlaces
  <2>6. [c EXCEPT !.actions = (@ \ {a}) \cup {b}] \in Retry!CompensationPlan
    BY <2>2, <2>5 DEF Retry!CompensationPlan
  <2>7. ChangePlan([c EXCEPT !.actions = (@ \ {a}) \cup {b}])
    BY <2>1 DEF b
  <2> QED
    BY <1>2, <2>6, <2>7, PlanChangeKeepsInv DEF AssignActionStatus
<1>3. CASE AssignPlanStatus
  <2>1. PICK c \in held.envelope.compensation_plan :
            ChangePlan([c EXCEPT !.plan_status = "completed"])
    BY <1>3 DEF AssignPlanStatus
  <2>2. c \in Retry!CompensationPlan
    BY <1>3, PlansAreTyped DEF AssignPlanStatus
  <2>3. [c EXCEPT !.plan_status = "completed"] \in Retry!CompensationPlan
    BY <2>2 DEF Retry!CompensationPlan, Retry!CompensationStatus
  <2> QED
    BY <1>3, <2>1, <2>3, PlanChangeKeepsInv DEF AssignPlanStatus
<1> QED
  BY <1>1, <1>2, <1>3

(* The operators on finite sets are the same seen through the contract.    *)
LEMMA RiskCounts ==
    \A S : /\ Risk!IsFiniteSet(S) <=> IsFiniteSet(S)
           /\ Risk!Cardinality(S) = Cardinality(S)
<1>1. \A S : Risk!IsFiniteSet(S) <=> IsFiniteSet(S)
  BY DEF Risk!IsFiniteSet, IsFiniteSet
<1>2. \A S : Risk!Cardinality(S) = Cardinality(S)
  BY DEF Risk!Cardinality, Cardinality
<1> QED
  BY <1>1, <1>2

LEMMA RecordsAreFinite ==
    ASSUME NEW e \in Risk!Envelope
    PROVE  /\ e.approval_records \subseteq Risk!HumanApproval
           /\ IsFiniteSet(e.approval_records)
           /\ \A a, b \in e.approval_records : a.place = b.place => a = b
           /\ IsFiniteSet(Risk!Approved(e))
<1>1. /\ e.approval_records \subseteq Risk!HumanApproval
      /\ IsFiniteSet(e.approval_records)
      /\ \A a, b \in e.approval_records : a.place = b.place => a = b
  BY RiskCounts DEF Risk!Envelope, Risk!RecordsInPlaces
<1>2. Risk!Approved(e) \subseteq e.approval_records
  BY DEF Risk!Approved
<1> QED
  BY <1>1, <1>2, FS_Subset

LEMMA NeededIsPositive ==
    ASSUME NEW e \in Risk!Envelope
    PROVE  Risk!Needed(e) \in Nat \ {0}
<1>1. CASE e.approval_requirement = {}
  BY <1>1 DEF Risk!Needed
<1>2. CASE e.approval_requirement # {}
  <2>1. (CHOOSE q \in e.approval_requirement : TRUE) \in e.approval_requirement
    BY <1>2
  <2>2. e.approval_requirement \subseteq Risk!ApprovalRequirement
    BY DEF Risk!Envelope, Risk!Optional
  <2> QED
    BY <1>2, <2>1, <2>2 DEF Risk!Needed, Risk!ApprovalRequirement
<1> QED
  BY <1>1, <1>2

(* More records never make fewer approvals.                                *)
LEMMA ApprovalsGrow ==
    ASSUME NEW e \in Risk!Envelope, NEW f \in Risk!Envelope,
           e.approval_records \subseteq f.approval_records,
           f.approval_requirement = e.approval_requirement,
           f.threshold_policy = e.threshold_policy, f.decision = e.decision,
           Risk!RequiresHumanApprovalBlocksAutoProceed(e)
    PROVE  Risk!RequiresHumanApprovalBlocksAutoProceed(f)
<1>1. Risk!Approved(e) \subseteq Risk!Approved(f)
  BY DEF Risk!Approved
<1>2. /\ Cardinality(Risk!Approved(e)) \in Nat
      /\ Cardinality(Risk!Approved(f)) \in Nat
      /\ Cardinality(Risk!Approved(e)) <= Cardinality(Risk!Approved(f))
  BY <1>1, RecordsAreFinite, FS_Subset, FS_CardinalityType
<1>3. Risk!Needed(e) = Risk!Needed(f) /\ Risk!Needed(e) \in Nat
  BY NeededIsPositive DEF Risk!Needed
<1> QED
  BY <1>2, <1>3, RiskCounts DEF Risk!RequiresHumanApprovalBlocksAutoProceed

(* A record that is appended takes a place of its own, and one that is     *)
(* changed keeps its place.                                                *)
LEMMA RecordTakesItsPlace ==
    ASSUME NEW e \in Risk!Envelope, NEW r \in Risk!HumanApproval,
           NEW gone \in SUBSET e.approval_records,
           \A x \in e.approval_records \ gone : x.place # r.place
    PROVE  [e EXCEPT !.approval_records = (@ \ gone) \cup {r}] \in Risk!Envelope
<1> DEFINE records == (e.approval_records \ gone) \cup {r}
<1>1. IsFiniteSet(records)
  BY RecordsAreFinite, FS_Difference, FS_Subset, FS_AddElement
<1>2. records \in Risk!RecordsInPlaces
  BY <1>1, RecordsAreFinite, RiskCounts DEF Risk!RecordsInPlaces
<1> HIDE DEF records
<1>3. [e EXCEPT !.approval_records = records] \in Risk!Envelope
  BY <1>2 DEF Risk!Envelope
<1> QED
  BY <1>3 DEF records

LEMMA ApprovalKeepsInv ==
    ASSUME LifecycleInv, AppendApproval \/ AssignApprovalStatus
    PROVE  LifecycleInv'
<1> DEFINE e == held.envelope
<1>1. e \in Risk!Envelope
  BY DEF AppendApproval, AssignApprovalStatus, Exists, LifecycleInv, IsTyped
<1>2. CASE AppendApproval
  <2>1. PICK r \in [place : Risk!Free(e), status : {"approved", "timed_out"},
                    approver : BOOLEAN, decision_notes : {TRUE}] :
            held' = Held("risk", [e EXCEPT !.approval_records = @ \cup {r}],
                         "changed")
    BY <1>2 DEF AppendApproval, Change
  <2>2. /\ r \in Risk!HumanApproval
        /\ \A x \in e.approval_records \ {} : x.place # r.place
    BY DEF Risk!HumanApproval, Risk!ApprovalStatus, Risk!Free
  <2>3. [e EXCEPT !.approval_records = (@ \ {}) \cup {r}] \in Risk!Envelope
    BY <1>1, <2>2, RecordTakesItsPlace
  <2>4. [e EXCEPT !.approval_records = (@ \ {}) \cup {r}]
           = [e EXCEPT !.approval_records = @ \cup {r}]
    OBVIOUS
  <2> QED
    BY <2>1, <2>3, <2>4, TypedChangeKeepsInv
<1>3. CASE AssignApprovalStatus
  <2>1. PICK r \in e.approval_records, status \in {"approved", "withdrawn", "timed_out"} :
            held' = Held("risk", [e EXCEPT !.approval_records =
                      (@ \ {r}) \cup {[r EXCEPT !.status = status]}], "changed")
    BY <1>3 DEF AssignApprovalStatus, Change
  <2> DEFINE d == [r EXCEPT !.status = status]
  <2>2. r \in Risk!HumanApproval
    BY <1>1, RecordsAreFinite
  <2>3. d \in Risk!HumanApproval /\ d.place = r.place
    BY <2>2 DEF Risk!HumanApproval, Risk!ApprovalStatus
  <2>4. \A x \in e.approval_records \ {r} : x.place # d.place
    BY <1>1, <2>3, RecordsAreFinite
  <2> HIDE DEF d
  <2>5. [e EXCEPT !.approval_records = (@ \ {r}) \cup {d}] \in Risk!Envelope
    BY <1>1, <2>3, <2>4, RecordTakesItsPlace
  <2>6. held' = Held("risk", [e EXCEPT !.approval_records = (@ \ {r}) \cup {d}],
                     "changed")
    BY <2>1 DEF d
  <2> QED
    BY <2>5, <2>6, TypedChangeKeepsInv
<1> QED
  BY <1>2, <1>3

LEMMA LoopChangeKeepsInv ==
    ASSUME LifecycleInv, AppendCycle \/ AssignLoopStatus \/ AssignStopReason
    PROVE  LifecycleInv'
<1>1. held.contract = "loop" /\ held.envelope \in Loop!Envelope
  BY DEF AppendCycle, AssignLoopStatus, AssignStopReason, Exists, LifecycleInv,
         IsTyped
<1>2. \E f \in Loop!Envelope : held' = Held("loop", f, "changed")
  <2>1. CASE AppendCycle
    <3>1. PICK c \in Loop!Cycle :
              held' = Held("loop", [held.envelope EXCEPT !.cycles = Append(@, c)],
                           "changed")
      BY <2>1 DEF AppendCycle, Change
    <3>2. Append(held.envelope.cycles, c) \in Seq(Loop!Cycle)
      BY <1>1, AppendProperties DEF Loop!Envelope
    <3> QED
      BY <1>1, <3>1, <3>2 DEF Loop!Envelope
  <2>2. CASE AssignLoopStatus
    BY <1>1, <2>2 DEF AssignLoopStatus, Change, Loop!Envelope
  <2>3. CASE AssignStopReason
    BY <1>1, <2>3 DEF AssignStopReason, Change, Loop!Envelope
  <2> QED
    BY <2>1, <2>2, <2>3
<1> QED
  BY <1>2, TypedChangeKeepsInv

-----------------------------------------------------------------------------
(* Looking again. *)

LEMMA RecheckKeepsInv == ASSUME LifecycleInv, Recheck PROVE LifecycleInv'
BY DEF Recheck, LifecycleInv, Shape, IsTyped, CheckedIsAccepted,
       ChangedKeeps, Exists, Held

LEMMA ReloadKeepsInv == ASSUME LifecycleInv, Reload PROVE LifecycleInv'
BY AcceptedKeeps
   DEF Reload, Reloaded, Verdict, LifecycleInv, Shape, IsTyped,
       CheckedIsAccepted, ChangedKeeps, Exists, Held

LEMMA InvHolds == LifecycleSpec => []LifecycleInv
<1>1. LifecycleInit => LifecycleInv
  BY DEF LifecycleInit, LifecycleInv, Shape, IsTyped, CheckedIsAccepted,
         ChangedKeeps, Exists, Held
<1>2. ASSUME LifecycleInv, [LifecycleNext]_held PROVE LifecycleInv'
  <2>1. CASE BuildAny
    BY <1>2, <2>1, BuildKeepsInv
  <2>2. CASE WithdrawSource
    BY <1>2, <2>2, WithdrawKeepsInv
  <2>3. CASE AppendAttempt
    BY <1>2, <2>3, AttemptKeepsInv
  <2>4. CASE AppendApproval \/ AssignApprovalStatus
    BY <1>2, <2>4, ApprovalKeepsInv
  <2>10. CASE AppendAction \/ AssignActionStatus \/ AssignPlanStatus
    BY <1>2, <2>10, PlanKeepsInv
  <2>5. CASE AppendCycle \/ AssignLoopStatus \/ AssignStopReason
    BY <1>2, <2>5, LoopChangeKeepsInv
  <2>6. CASE Recheck
    BY <1>2, <2>6, RecheckKeepsInv
  <2>7. CASE Reload
    BY <1>2, <2>7, ReloadKeepsInv
  <2>8. CASE LetGo
    BY <2>8 DEF LetGo, LifecycleInv, Shape, IsTyped, CheckedIsAccepted,
                ChangedKeeps, Exists, Held
  <2>9. CASE UNCHANGED held
    BY <1>2, <2>9 DEF LifecycleInv, Shape, IsTyped, CheckedIsAccepted,
                      ChangedKeeps, Exists
  <2> QED
    BY <1>2, <2>1, <2>2, <2>3, <2>4, <2>5, <2>6, <2>7, <2>8, <2>9, <2>10
       DEF LifecycleNext, ChangeInPlace
<1> QED
  BY <1>1, <1>2, PTL DEF LifecycleSpec

-----------------------------------------------------------------------------
(* What acceptance means, contract by contract. *)

LEMMA RetryIsSound ==
    ASSUME NEW e \in Retry!Envelope, Retry!Accepts(e)
    PROVE  Retry!BadNewsIsKept(e)
<1>1. ASSUME NEW c \in e.compensation_plan, NEW a \in c.actions,
             a.status = "failed"
      PROVE  a.action_notes /\ c.plan_status \notin {"completed", "not_required"}
  BY <1>1 DEF Retry!Accepts, Retry!InProgressOrFailedRequiresNotes,
              Retry!SideEffectsRequireCompensation,
              Retry!CompensationFailuresRemainVisible
<1> QED
  BY <1>1 DEF Retry!BadNewsIsKept, Retry!Accepts,
              Retry!UnknownStateBlocksSafeDispositions

LEMMA HandoffIsSound ==
    ASSUME NEW e \in Handoff!Envelope, Handoff!Accepts(e)
    PROVE  Handoff!GoAheadIsBacked(e)
<1>1. ASSUME NEW o \in e.ownership
      PROVE  o.writer \in AgentId <=>
                o.ownership_mode \notin Handoff!ReadOnlyOwnershipModes
  <2>1. o \in Handoff!OwnershipRecord
    BY DEF Handoff!Envelope, Handoff!Optional
  <2>2. /\ Handoff!ValidateWriteOwnership(o) /\ Handoff!ValidateReadOnlyAssist(o)
        /\ Handoff!ValidateReviewOnly(o)
    BY DEF Handoff!Accepts
  <2> QED
    BY <2>1, <2>2, NamesAssumption
       DEF Handoff!OwnershipRecord, Handoff!OwnershipMode,
           Handoff!ValidateWriteOwnership, Handoff!ValidateReadOnlyAssist,
           Handoff!ValidateReviewOnly, Handoff!WriteOwnershipModes,
           Handoff!ReadOnlyOwnershipModes
<1> QED
  BY <1>1 DEF Handoff!GoAheadIsBacked

LEMMA RiskIsSound ==
    ASSUME NEW e \in Risk!Envelope, Risk!Accepts(e)
    PROVE  Risk!GoAheadIsBacked(e)
<1>1. ASSUME NEW p \in e.threshold_policy,
             p.minimum_risk_level \in {"high", "critical"},
             NEW d \in e.decision, d.disposition = "proceed"
      PROVE  \E r \in Risk!Approved(e) : r.approver /\ r.decision_notes
  <2>1. Cardinality(Risk!Approved(e)) >= Risk!Needed(e)
    BY <1>1, RiskCounts DEF Risk!Accepts, Risk!HighCriticalRequireHumanApproval,
                            Risk!RequiresHumanApprovalBlocksAutoProceed
  <2>2. Risk!Approved(e) # {}
    BY <2>1, FS_EmptySet, NeededIsPositive
  <2>3. PICK r \in Risk!Approved(e) : TRUE
    BY <2>2
  <2>4. r.status = "approved" /\ r \in e.approval_records
    BY <2>3 DEF Risk!Approved
  <2>5. r.approver /\ r.decision_notes
    BY <2>4 DEF Risk!Accepts, Risk!ApprovedOrRejectedRequiresApproverAndReason
  <2> QED
    BY <2>3, <2>5
<1> QED
  BY <1>1 DEF Risk!GoAheadIsBacked

LEMMA CapabilityIsSound ==
    ASSUME NEW e \in Capability!Envelope, Capability!Accepts(e)
    PROVE  Capability!GoAheadIsBacked(e) /\ Capability!BadNewsIsKept(e)
<1>1. Capability!GoAheadIsBacked(e)
  BY DEF Capability!GoAheadIsBacked, Capability!Accepts,
         Capability!IncompatibleNoProceedWithoutOverride,
         Capability!ProceedWithFallbacksRequiresFallbacks,
         Capability!ProceedWithFallbacksNeedsGaps
<1>2. Capability!BadNewsIsKept(e)
  BY DEF Capability!BadNewsIsKept, Capability!Accepts,
         Capability!CompatibleRequiresNoUnmatchedRequired,
         Capability!IncompatibleMustHaveUnmatched
<1> QED
  BY <1>1, <1>2

LEMMA SkillIsSound ==
    ASSUME NEW e \in Skill!Envelope, Skill!Accepts(e)
    PROVE  Skill!ReferencesResolve(e) /\ Skill!GoAheadIsBacked(e)
BY DEF Skill!ReferencesResolve, Skill!GoAheadIsBacked, Skill!Accepts,
       Skill!ActivationDecisionMatchesRequest,
       Skill!ActivationRecordMatchesRequest,
       Skill!ExecutionRequiresApprovedDecision

LEMMA RouteIsSound ==
    ASSUME NEW e \in Routing!Envelope, Routing!Accepts(e)
    PROVE  /\ Routing!ReferencesResolve(e)
           /\ Routing!GoAheadIsBacked(e)
           /\ Routing!BadNewsIsKept(e)
<1>1. Routing!ReferencesResolve(e)
  BY DEF Routing!ReferencesResolve, Routing!Accepts,
         Routing!SelectedCandidateMustExist
<1>2. \A d, x \in e.decision : d = x
  BY DEF Routing!Envelope, Routing!Optional
<1>3. Routing!BadNewsIsKept(e)
  BY DEF Routing!BadNewsIsKept, Routing!Accepts,
         Routing!AtLeastOneCandidateUnlessNoRoute,
         Routing!BlockedOrNoRouteNeedsReason
<1>4. Routing!GoAheadIsBacked(e)
  BY <1>2, <1>3 DEF Routing!GoAheadIsBacked, Routing!BadNewsIsKept,
         Routing!Accepts, Routing!SelectedCandidateMustExist,
         Routing!SelectedHasCandidate
<1> QED
  BY <1>1, <1>3, <1>4

LEMMA IntakeIsSound ==
    ASSUME NEW e \in Intake!Envelope, Intake!Accepts(e)
    PROVE  Intake!ReferencesResolve(e) /\ Intake!GoAheadIsBacked(e)
<1>1. Intake!ReferencesResolve(e)
  BY DEF Intake!ReferencesResolve, Intake!Accepts, Intake!FieldNames,
         Intake!AmbiguitiesMustReferenceValidFields
<1>2. Intake!GoAheadIsBacked(e)
  BY DEF Intake!GoAheadIsBacked, Intake!Accepts, Intake!AcceptedDispositions,
         Intake!RawContentMustExist, Intake!ValidateDecision,
         Intake!AcceptedRequiresSchemaValid,
         Intake!MissingRequiredFieldsBlockUnconditionalAcceptance
<1> QED
  BY <1>1, <1>2

LEMMA SynthesisIsSound ==
    ASSUME NEW e \in Synthesis!Envelope, Synthesis!Accepts(e)
    PROVE  Synthesis!RejectedOnlyCannotApprove(e) /\ Synthesis!BadNewsIsKept(e)
BY DEF Synthesis!Accepts, Synthesis!RejectedOnlyCannotApprove,
       Synthesis!BadNewsIsKept, Synthesis!UnresolvedConflictsForceReviewOrBlock

(* What the later check finds in order is in order, also of sources that   *)
(* were changed meanwhile.                                                 *)
LEMMA ReleaseIsSound ==
    ASSUME NEW e \in Synthesis!Envelope, ReleaseIsKept(e),
           Synthesis!RejectedOnlyCannotApprove(e)
    PROVE  /\ Synthesis!GoAheadIsBacked(e)
           /\ e.finalization.status \in {"approved", "released"} =>
                 \E s \in e.sources : s.eligible
BY DEF ReleaseIsKept, Synthesis!GoAheadIsBacked,
       Synthesis!RejectedOnlyCannotApprove, Synthesis!AtLeastOneEligibleSource,
       Synthesis!ValidateFinalization, Synthesis!AcceptDispositions,
       Synthesis!AcceptDispositionRequiresFinalOutputRefs

LEMMA MessageIsSound ==
    ASSUME NEW e \in Messaging!Envelope, Messaging!Accepts(e)
    PROVE  Messaging!GoAheadIsBacked(e)
<1>1. e.header \in Messaging!Header /\ e.audience \in Messaging!Audience
  BY DEF Messaging!Envelope
<1>2. Messaging!AliveAt(e.header, e.header.created_at)
  BY <1>1 DEF Messaging!AliveAt, Messaging!Header, Messaging!Accepts,
              Messaging!ExpiresAfterCreated
<1>3. \E target \in Target : target \in Messaging!Targets(e.audience)
  BY <1>1 DEF Messaging!Accepts, Messaging!AudienceMustBeSpecified,
              Messaging!Targets, Messaging!Audience
<1> QED
  BY <1>1, <1>2, <1>3 DEF Messaging!GoAheadIsBacked, Messaging!Accepts,
     Messaging!FireAndForgetNoAck, Messaging!Header, Messaging!TransportMode

LEMMA StepIsSound ==
    ASSUME NEW e \in Step!Envelope, Step!Accepts(e)
    PROVE  Step!GoAheadIsBacked(e)
<1> SUFFICES ASSUME e.status = "completed", e.outcome = "success"
             PROVE  /\ e.intent.acceptance_criteria /\ e.ended_at
                    /\ \E v \in e.verification :
                          v.passed /\ v.confidence \in (50..100) \cup {NaN}
                    /\ e.state_delta =>
                          \E a \in e.artifact_updates : a \in Step!CountedArtifacts
  BY DEF Step!GoAheadIsBacked
<1>1. PICK v \in e.verification : v.passed
  BY DEF Step!Accepts, Step!CompletedSuccessNeedsVerification
<1>2. v \in Step!Verification
  BY DEF Step!Envelope, Step!Optional
<1>3. v.confidence \in (50..100) \cup {NaN}
  BY <1>1, <1>2, NamesAssumption DEF Step!Verification, Step!Accepts,
     Step!InRange, Step!PassedNeedsConfidence
<1> QED
  BY <1>1, <1>3 DEF Step!Accepts, Step!AcceptanceCriteriaRequired,
     Step!TerminalStatusRequiresEndedAt, Step!TerminalStatuses,
     Step!StateDeltaRequiresArtifactUpdates

LEMMA RoleIsSound ==
    ASSUME NEW e \in Role!Envelope, Role!Accepts(e)
    PROVE  Role!GoAheadIsBacked(e)
<1> SUFFICES ASSUME e.assignment_record
             PROVE  \E c \in e.capability_profile, k \in e.constraint_profile :
                      /\ \A t \in c.allowed_tools : t \notin k.forbidden_tools
                      /\ c.can_modify_artifacts =>
                            c.can_verify \/ k.must_not_write_without_verification
  BY DEF Role!GoAheadIsBacked
<1>1. PICK c \in e.capability_profile, k \in e.constraint_profile : TRUE
  BY DEF Role!Accepts, Role!AssignmentMustReferenceActiveRole,
         Role!ActiveRoleRequiresCapabilityAndConstraint
<1>2. \A x \in e.constraint_profile : x = k
  BY <1>1 DEF Role!Envelope, Role!Optional
<1>3. \A t \in c.allowed_tools : t \notin k.forbidden_tools
  BY <1>1 DEF Role!Accepts, Role!ForbiddenToolsNotInAllowed
<1>4. c.can_modify_artifacts =>
          c.can_verify \/ k.must_not_write_without_verification
  BY <1>1, <1>2 DEF Role!Accepts,
                    Role!ArtifactModifyingRolesNeedVerificationBoundary
<1> QED
  BY <1>1, <1>3, <1>4

LEMMA LoopIsSound ==
    ASSUME NEW e \in Loop!Envelope, Loop!Accepts(e)
    PROVE  Loop!BadNewsIsKept(e)
BY DEF Loop!BadNewsIsKept, Loop!Accepts, Loop!StopReasonAlignedWithStatus,
       Loop!VerificationForCompletedCycles, Loop!TerminalStatuses, Loop!Verified

-----------------------------------------------------------------------------
(* Acceptance is kept by progress, contract by contract. *)

LEMMA RetryProgress ==
    ASSUME NEW e \in Retry!Envelope, Retry!Accepts(e)
    PROVE  Retry!ProgressIsAccepted(e)
<1>0. Retry!CanRetry(e) => \A p \in e.retry_policy : p.retry_strategy # "none"
  BY DEF Retry!CanRetry, Retry!Envelope, Retry!Optional
<1>1. ASSUME Retry!CanRetry(e)
      PROVE  Retry!Accepts([e EXCEPT !.retry_attempts = @ + 1])
  <2> DEFINE f == [e EXCEPT !.retry_attempts = @ + 1]
  <2>1. /\ f.unknown_state = e.unknown_state /\ f.retry_policy = e.retry_policy
        /\ f.recovery_plan = e.recovery_plan
        /\ f.compensation_plan = e.compensation_plan
        /\ f.failure_disposition = e.failure_disposition
    BY DEF Retry!Envelope
  <2> HIDE DEF f
  <2>2. Retry!Accepts(f)
    BY <1>0, <1>1, <2>1 DEF Retry!Accepts, Retry!NoneStrategyNoAttempts,
       Retry!UnknownStateBlocksSafeDispositions,
       Retry!CompensationFailuresRemainVisible
  <2> QED
    BY <2>2 DEF f
<1>2. ASSUME NEW c \in e.compensation_plan, NEW a \in Retry!Open(c),
             NEW status \in {"completed", "failed"},
             NEW plan \in {c.plan_status, "failed"},
             status = "failed" => plan = "failed"
      PROVE  Retry!Accepts(Retry!Ran(e, c, a, status, plan))
  <2> DEFINE d == [a EXCEPT !.status = status, !.action_notes = TRUE]
             k == [actions |-> (c.actions \ {a}) \cup {d}, plan_status |-> plan]
             f == Retry!Ran(e, c, a, status, plan)
  <2>1. a \in c.actions /\ a \in Retry!CompensationAction
    BY DEF Retry!Open, Retry!Envelope, Retry!Optional, Retry!CompensationPlan,
           Retry!ActionsInPlaces
  <2>2. /\ d.status = status /\ d.action_notes = TRUE
        /\ d.execution_order = a.execution_order
    BY <2>1 DEF Retry!CompensationAction
  <2>3. /\ f.unknown_state = e.unknown_state /\ f.retry_policy = e.retry_policy
        /\ f.retry_attempts = e.retry_attempts
        /\ f.recovery_plan = e.recovery_plan /\ f.compensation_plan = {k}
        /\ f.failure_disposition = e.failure_disposition
    BY DEF Retry!Ran, Retry!Envelope
  <2>4. k.actions = (c.actions \ {a}) \cup {d} /\ k.plan_status = plan
    OBVIOUS
  <2> HIDE DEF d, k, f
  <2>5. \A x \in k.actions : Retry!InProgressOrFailedRequiresNotes(x)
    BY <2>2, <2>4 DEF Retry!Accepts, Retry!InProgressOrFailedRequiresNotes
  <2>6. Retry!DeterministicExecutionOrder(k)
    BY <2>1, <2>2, <2>4 DEF Retry!Accepts, Retry!DeterministicExecutionOrder
  <2>7. Retry!SideEffectsRequireCompensation(k)
    BY <2>1, <2>4 DEF Retry!Accepts, Retry!SideEffectsRequireCompensation
  <2>8. (\E x \in k.actions : x.status = "failed") => k.plan_status # "completed"
    BY <1>2, <2>2, <2>4 DEF Retry!Accepts, Retry!CompensationFailuresRemainVisible
  <2>9. Retry!CompensationFailuresRemainVisible(f)
    BY <2>3, <2>8 DEF Retry!CompensationFailuresRemainVisible
  <2>10. /\ Retry!NoneStrategyNoAttempts(f)
         /\ Retry!UnknownStateBlocksSafeDispositions(f)
    BY <2>3 DEF Retry!Accepts, Retry!NoneStrategyNoAttempts,
                Retry!UnknownStateBlocksSafeDispositions
  <2>11. Retry!Accepts(f)
    BY <2>3, <2>5, <2>6, <2>7, <2>9, <2>10 DEF Retry!Accepts
  <2> QED
    BY <2>11 DEF f
<1>3. ASSUME NEW d \in {"retrying", "escalated", "aborted", "terminated"}
      PROVE  Retry!Accepts([e EXCEPT !.failure_disposition = d])
  <2> DEFINE f == [e EXCEPT !.failure_disposition = d]
  <2>1. /\ f.retry_policy = e.retry_policy /\ f.retry_attempts = e.retry_attempts
        /\ f.recovery_plan = e.recovery_plan
        /\ f.compensation_plan = e.compensation_plan /\ f.failure_disposition = d
    BY DEF Retry!Envelope
  <2> HIDE DEF f
  <2>2. Retry!Accepts(f)
    BY <2>1 DEF Retry!Accepts, Retry!NoneStrategyNoAttempts,
       Retry!UnknownStateBlocksSafeDispositions,
       Retry!CompensationFailuresRemainVisible
  <2> QED
    BY <2>2 DEF f
<1> QED
  BY <1>1, <1>2, <1>3 DEF Retry!ProgressIsAccepted, Retry!Due

LEMMA HandoffProgress ==
    ASSUME NEW e \in Handoff!Envelope, Handoff!Accepts(e)
    PROVE  Handoff!ProgressIsAccepted(e)
<1>1. ASSUME NEW f, f.request = e.request, f.ownership = e.ownership
      PROVE  Handoff!Accepts(f)
  BY <1>1 DEF Handoff!Accepts
<1>2. ASSUME NEW p \in Handoff!ReturnPayload, NEW v \in Handoff!ReturnReview
      PROVE  Handoff!Accepts([e EXCEPT !.returned = {p}, !.review = {v}])
  BY <1>1 DEF Handoff!Envelope
<1>3. ASSUME NEW m, Handoff!ValidateWriteOwnership(m),
             Handoff!ValidateReadOnlyAssist(m), Handoff!ValidateReviewOnly(m)
      PROVE  Handoff!Accepts([e EXCEPT !.ownership = {m}])
  <2> DEFINE f == [e EXCEPT !.ownership = {m}]
  <2>1. f.request = e.request /\ f.ownership = {m}
    BY DEF Handoff!Envelope
  <2> HIDE DEF f
  <2>2. Handoff!Accepts(f)
    BY <1>3, <2>1 DEF Handoff!Accepts
  <2> QED
    BY <2>2 DEF f
<1>4. ASSUME NEW o \in e.ownership, o.writer \in AgentId
      PROVE  Handoff!Accepts([e EXCEPT !.ownership =
                                {[o EXCEPT !.ownership_mode = "full_transfer"]}])
  <2> DEFINE m == [o EXCEPT !.ownership_mode = "full_transfer"]
  <2>1. o \in Handoff!OwnershipRecord
    BY DEF Handoff!Envelope, Handoff!Optional
  <2>2. m.ownership_mode = "full_transfer" /\ m.writer = o.writer
    BY <2>1 DEF Handoff!OwnershipRecord
  <2> HIDE DEF m
  <2>3. Handoff!Accepts([e EXCEPT !.ownership = {m}])
    BY <1>3, <1>4, <2>2, NamesAssumption
       DEF Handoff!ValidateWriteOwnership, Handoff!ValidateReadOnlyAssist,
           Handoff!ValidateReviewOnly
  <2> QED
    BY <2>3 DEF m
<1>5. Handoff!Accepts([e EXCEPT !.ownership =
          {[ownership_mode |-> "review_only", writer |-> NoAgent]}])
  BY <1>3 DEF Handoff!ValidateWriteOwnership, Handoff!ValidateReadOnlyAssist,
              Handoff!ValidateReviewOnly, Handoff!WriteOwnershipModes
<1> QED
  BY <1>2, <1>4, <1>5 DEF Handoff!ProgressIsAccepted

LEMMA RiskProgress ==
    ASSUME NEW e \in Risk!Envelope, Risk!Accepts(e)
    PROVE  Risk!ProgressIsAccepted(e)
<1>1. ASSUME NEW place \in Risk!Free(e) PROVE Risk!Accepts(Risk!Signed(e, place))
  <2> DEFINE r == [place |-> place, status |-> "approved", approver |-> TRUE,
                   decision_notes |-> TRUE]
             f == Risk!Signed(e, place)
  <2>1. /\ f.approval_records = e.approval_records \cup {r}
        /\ f.threshold_policy = e.threshold_policy
        /\ f.approval_requirement = e.approval_requirement
        /\ f.escalation_path = e.escalation_path /\ f.decision = e.decision
    BY DEF Risk!Signed, Risk!Envelope
  <2>2. /\ r \in Risk!HumanApproval /\ r.status = "approved"
        /\ Risk!ApprovedOrRejectedRequiresApproverAndReason(r)
    BY DEF Risk!HumanApproval, Risk!ApprovalStatus, Risk!Free,
           Risk!ApprovedOrRejectedRequiresApproverAndReason
  <2>3. [e EXCEPT !.approval_records = (@ \ {}) \cup {r}] \in Risk!Envelope
    BY <2>2, RecordTakesItsPlace DEF Risk!Free
  <2>4. f \in Risk!Envelope
    BY <2>3 DEF Risk!Signed
  <2> HIDE DEF f, r
  <2>5. Risk!RequiresHumanApprovalBlocksAutoProceed(f)
    BY <2>1, <2>4, ApprovalsGrow DEF Risk!Accepts
  <2>6. Risk!TimedOutRequiresEscalationPath(f)
    BY <2>1, <2>2 DEF Risk!Accepts, Risk!TimedOutRequiresEscalationPath
  <2>7. Risk!Accepts(f)
    BY <2>1, <2>2, <2>5, <2>6 DEF Risk!Accepts
  <2> QED
    BY <2>7 DEF f
<1>2. ASSUME NEW status \in {"rejected", "pending"},
             NEW disposition \in {"pause_for_review", "return_for_rework",
                                  "reject", "escalate_further"}
      PROVE  Risk!Accepts(Risk!Stopped(e, status, disposition))
  <2> DEFINE d == [approval_status |-> status, disposition |-> disposition,
                   decider |-> TRUE, reason |-> TRUE,
                   resume_constraints |-> FALSE]
             f == Risk!Stopped(e, status, disposition)
  <2>1. /\ f.approval_records = e.approval_records
        /\ f.threshold_policy = e.threshold_policy
        /\ f.escalation_path = e.escalation_path /\ f.decision = {d}
    BY DEF Risk!Stopped, Risk!Envelope
  <2>2. /\ d.disposition \notin {"proceed", "proceed_with_constraints"}
        /\ Risk!ApprovedRejectedRequiresDeciderAndReason(d)
        /\ Risk!ProceedWithConstraintsRequiresResumeConstraints(d)
    BY DEF Risk!ApprovedRejectedRequiresDeciderAndReason,
           Risk!ProceedWithConstraintsRequiresResumeConstraints
  <2> HIDE DEF f, d
  <2>3. Risk!Accepts(f)
    BY <2>1, <2>2 DEF Risk!Accepts, Risk!TimedOutRequiresEscalationPath,
                      Risk!RequiresHumanApprovalBlocksAutoProceed
  <2> QED
    BY <2>3 DEF f
<1> QED
  BY <1>1, <1>2 DEF Risk!ProgressIsAccepted

LEMMA CapabilityProgress ==
    ASSUME NEW e \in Capability!Envelope, Capability!Accepts(e)
    PROVE  Capability!ProgressIsAccepted(e)
<1>1. ASSUME NEW g \in Capability!Gap
      PROVE  Capability!Accepts([e EXCEPT !.gaps = @ \cup {g}])
  <2> DEFINE f == [e EXCEPT !.gaps = @ \cup {g}]
  <2>1. /\ f.gaps = e.gaps \cup {g} /\ f.evaluation = e.evaluation
        /\ f.decision = e.decision
    BY DEF Capability!Envelope
  <2> HIDE DEF f
  <2>2. Capability!Accepts(f)
    BY <2>1 DEF Capability!Accepts, Capability!ProceedWithFallbacksNeedsGaps,
                Capability!IncompatibleNoProceedWithoutOverride
  <2> QED
    BY <2>2 DEF f
<1>2. Capability!Accepts([e EXCEPT !.evaluation =
          [compatibility_status |-> "compatible",
           unmatched_requirement_ids |-> {}]])
  <2> DEFINE v == [compatibility_status |-> "compatible",
                   unmatched_requirement_ids |-> {}]
             f == [e EXCEPT !.evaluation = v]
  <2>1. f.evaluation = v /\ f.gaps = e.gaps /\ f.decision = e.decision
    BY DEF Capability!Envelope
  <2>2. v.compatibility_status = "compatible" /\ v.unmatched_requirement_ids = {}
    OBVIOUS
  <2> HIDE DEF f, v
  <2>3. Capability!Accepts(f)
    BY <2>1, <2>2 DEF Capability!Accepts,
       Capability!CompatibleRequiresNoUnmatchedRequired,
       Capability!IncompatibleMustHaveUnmatched,
       Capability!ProceedWithFallbacksNeedsGaps,
       Capability!IncompatibleNoProceedWithoutOverride
  <2> QED
    BY <2>3 DEF f, v
<1>3. ASSUME NEW disposition \in {"reroute", "reject", "escalate"}
      PROVE  Capability!Accepts([e EXCEPT !.decision =
                {[disposition |-> disposition, reason |-> TRUE,
                  selected_fallbacks |-> FALSE,
                  approved_override_ref |-> FALSE]}])
  <2> DEFINE d == [disposition |-> disposition, reason |-> TRUE,
                   selected_fallbacks |-> FALSE, approved_override_ref |-> FALSE]
             f == [e EXCEPT !.decision = {d}]
  <2>1. f.evaluation = e.evaluation /\ f.gaps = e.gaps /\ f.decision = {d}
    BY DEF Capability!Envelope
  <2>2. d.reason /\ d.disposition \notin {"proceed", "proceed_with_fallbacks"}
    OBVIOUS
  <2> HIDE DEF f, d
  <2>3. Capability!Accepts(f)
    BY <2>1, <2>2 DEF Capability!Accepts,
       Capability!ProceedWithFallbacksRequiresFallbacks,
       Capability!RerouteOrRejectRequiresReason,
       Capability!ProceedWithFallbacksNeedsGaps,
       Capability!IncompatibleNoProceedWithoutOverride
  <2> QED
    BY <2>3 DEF f, d
<1> QED
  BY <1>1, <1>2, <1>3 DEF Capability!ProgressIsAccepted

LEMMA SkillProgress ==
    ASSUME NEW e \in Skill!Envelope, Skill!Accepts(e)
    PROVE  Skill!ProgressIsAccepted(e)
<1> SUFFICES ASSUME NEW q \in e.activation_request
             PROVE  /\ e.activation_record = {} =>
                          \A approved \in BOOLEAN :
                             Skill!Accepts(Skill!Decided(e, q, approved))
                    /\ \A status \in Skill!ActivationStatus :
                          Skill!Accepts(Skill!Activated(e, q, status))
  BY DEF Skill!ProgressIsAccepted
<1>1. \A x \in e.activation_request : x = q
  BY DEF Skill!Envelope, Skill!Optional
<1>2. ASSUME NEW approved \in BOOLEAN, e.activation_record = {}
      PROVE  Skill!Accepts(Skill!Decided(e, q, approved))
  <2> DEFINE f == Skill!Decided(e, q, approved)
             d == [request_id |-> q.request_id, approved |-> approved]
  <2>1. /\ f.permission_profile = e.permission_profile
        /\ f.activation_request = e.activation_request
        /\ f.activation_decision = {d} /\ f.activation_record = {}
        /\ d.request_id = q.request_id
    BY <1>2 DEF Skill!Decided, Skill!Envelope
  <2> HIDE DEF f, d
  <2>2. Skill!Accepts(f)
    BY <1>1, <2>1 DEF Skill!Accepts, Skill!ExecutionRequiresApprovedDecision,
       Skill!ActivationDecisionMatchesRequest,
       Skill!ActivationRecordMatchesRequest
  <2> QED
    BY <2>2 DEF f
<1>3. ASSUME NEW status \in Skill!ActivationStatus
      PROVE  Skill!Accepts(Skill!Activated(e, q, status))
  <2> DEFINE f == Skill!Activated(e, q, status)
             d == [request_id |-> q.request_id, approved |-> TRUE]
             r == [request_id |-> q.request_id, status |-> status,
                   failure_reason |-> status = "failed"]
  <2>1. /\ f.permission_profile = e.permission_profile
        /\ f.activation_request = e.activation_request
        /\ f.activation_decision = {d} /\ f.activation_record = {r}
    BY DEF Skill!Activated, Skill!Decided, Skill!Envelope
  <2>2. /\ d.request_id = q.request_id /\ d.approved
        /\ r.request_id = q.request_id /\ r.status = status
    OBVIOUS
  <2>3. Skill!FailedStatusNeedsFailureReason(r)
    BY DEF Skill!FailedStatusNeedsFailureReason
  <2> HIDE DEF f, d, r
  <2>4. Skill!Accepts(f)
    BY <1>1, <2>1, <2>2, <2>3
       DEF Skill!Accepts, Skill!ExecutionRequiresApprovedDecision,
           Skill!ActivationDecisionMatchesRequest,
           Skill!ActivationRecordMatchesRequest
  <2> QED
    BY <2>4 DEF f
<1> QED
  BY <1>2, <1>3

LEMMA RouteProgress ==
    ASSUME NEW e \in Routing!Envelope, Routing!Accepts(e)
    PROVE  Routing!ProgressIsAccepted(e)
<1>1. ASSUME NEW choice, NEW status \in {"selected", "dispatched", "blocked"},
             \/ choice \in e.candidates /\ status # "blocked"
             \/ choice = NoRoute /\ status = "blocked"
      PROVE  Routing!Accepts(Routing!Decided(e, choice, status))
  <2> DEFINE d == [selected_candidate_id |-> choice, status |-> status,
                   reason |-> TRUE]
             f == Routing!Decided(e, choice, status)
  <2>1. /\ f.candidates = e.candidates /\ f.decision = {d}
        /\ f.arbitration = e.arbitration /\ f.fallback = e.fallback
    BY DEF Routing!Decided, Routing!Envelope
  <2>2. d.selected_candidate_id = choice /\ d.status = status /\ d.reason
    OBVIOUS
  <2>3. e.candidates \subseteq CandidateId
    BY DEF Routing!Envelope
  <2> HIDE DEF f, d
  <2>4. /\ Routing!SelectedHasCandidate(d) /\ Routing!BlockedOrNoRouteNeedsReason(d)
    BY <1>1, <2>2, <2>3, NamesAssumption
       DEF Routing!SelectedHasCandidate, Routing!BlockedOrNoRouteNeedsReason
  <2>5. /\ Routing!AtLeastOneCandidateUnlessNoRoute(f)
        /\ Routing!SelectedCandidateMustExist(f)
        /\ Routing!FallbackRequiresDecision(f)
    BY <1>1, <2>1, <2>2 DEF Routing!AtLeastOneCandidateUnlessNoRoute,
       Routing!SelectedCandidateMustExist, Routing!FallbackRequiresDecision
  <2>6. Routing!Accepts(f)
    BY <2>1, <2>4, <2>5 DEF Routing!Accepts
  <2> QED
    BY <2>6 DEF f
<1>2. ASSUME NEW c \in CandidateId
      PROVE  Routing!Accepts([e EXCEPT !.candidates = @ \cup {c}])
  <2> DEFINE f == [e EXCEPT !.candidates = @ \cup {c}]
  <2>1. /\ f.candidates = e.candidates \cup {c} /\ f.decision = e.decision
        /\ f.arbitration = e.arbitration /\ f.fallback = e.fallback
    BY DEF Routing!Envelope
  <2> HIDE DEF f
  <2>2. Routing!Accepts(f)
    BY <2>1 DEF Routing!Accepts, Routing!AtLeastOneCandidateUnlessNoRoute,
       Routing!SelectedCandidateMustExist, Routing!FallbackRequiresDecision
  <2> QED
    BY <2>2 DEF f
<1> QED
  BY <1>1, <1>2 DEF Routing!ProgressIsAccepted

LEMMA IntakeProgress ==
    ASSUME NEW e \in Intake!Envelope, Intake!Accepts(e)
    PROVE  Intake!ProgressIsAccepted(e)
<1>1. ASSUME NEW x \in e.fields PROVE Intake!Accepts(Intake!Filled(e, x))
  <2> DEFINE d == [x EXCEPT !.status = "explicit", !.value_ref = TRUE]
             f == Intake!Filled(e, x)
  <2>1. x \in Intake!ExtractedField
    BY DEF Intake!Envelope
  <2>2. d.field_name = x.field_name /\ d.status = "explicit"
    BY <2>1 DEF Intake!ExtractedField
  <2>3. /\ f.raw_intake = e.raw_intake /\ f.fields = (e.fields \ {x}) \cup {d}
        /\ f.ambiguities = e.ambiguities /\ f.decision = e.decision
        /\ f.clarification_request = e.clarification_request
        /\ f.validation.schema_valid = e.validation.schema_valid
        /\ f.validation.missing_required_fields =
              e.validation.missing_required_fields \ {x.field_name}
    BY DEF Intake!Filled, Intake!Envelope, Intake!IntakeValidation
  <2> HIDE DEF f, d
  <2>4. Intake!MissingFieldNotResolved(d)
    BY <2>2 DEF Intake!MissingFieldNotResolved
  <2>5. Intake!FieldNames(f) = Intake!FieldNames(e)
    BY <2>2, <2>3 DEF Intake!FieldNames
  <2>6. Intake!AmbiguitiesMustReferenceValidFields(f)
    BY <2>3, <2>5 DEF Intake!Accepts, Intake!AmbiguitiesMustReferenceValidFields
  <2>7. /\ Intake!AcceptedRequiresSchemaValid(f)
        /\ Intake!ClarificationRequiresRequest(f)
        /\ Intake!MissingRequiredFieldsBlockUnconditionalAcceptance(f)
    BY <2>3 DEF Intake!Accepts, Intake!AcceptedRequiresSchemaValid,
       Intake!ClarificationRequiresRequest,
       Intake!MissingRequiredFieldsBlockUnconditionalAcceptance
  <2>8. Intake!Accepts(f)
    BY <2>3, <2>4, <2>6, <2>7 DEF Intake!Accepts
  <2> QED
    BY <2>8 DEF f
<1>2. ASSUME NEW name \in e.ambiguities
      PROVE  Intake!Accepts([e EXCEPT !.ambiguities = @ \ {name}])
  <2> DEFINE f == [e EXCEPT !.ambiguities = @ \ {name}]
  <2>1. /\ f.raw_intake = e.raw_intake /\ f.fields = e.fields
        /\ f.ambiguities = e.ambiguities \ {name} /\ f.decision = e.decision
        /\ f.clarification_request = e.clarification_request
        /\ f.validation = e.validation
    BY DEF Intake!Envelope
  <2> HIDE DEF f
  <2>2. Intake!Accepts(f)
    BY <2>1 DEF Intake!Accepts, Intake!FieldNames,
       Intake!AmbiguitiesMustReferenceValidFields,
       Intake!AcceptedRequiresSchemaValid, Intake!ClarificationRequiresRequest,
       Intake!MissingRequiredFieldsBlockUnconditionalAcceptance
  <2> QED
    BY <2>2 DEF f
<1>3. ASSUME NEW disposition \in {"rejected", "escalated"}
      PROVE  Intake!Accepts([e EXCEPT !.decision.disposition = disposition])
  <2> DEFINE f == [e EXCEPT !.decision.disposition = disposition]
  <2>1. /\ f.raw_intake = e.raw_intake /\ f.fields = e.fields
        /\ f.ambiguities = e.ambiguities /\ f.validation = e.validation
        /\ f.decision.disposition = disposition
    BY DEF Intake!Envelope, Intake!IntakeDecision
  <2> HIDE DEF f
  <2>2. Intake!Accepts(f)
    BY <2>1 DEF Intake!Accepts, Intake!FieldNames, Intake!ValidateDecision,
       Intake!AmbiguitiesMustReferenceValidFields, Intake!AcceptedDispositions,
       Intake!AcceptedRequiresSchemaValid, Intake!ClarificationRequiresRequest,
       Intake!MissingRequiredFieldsBlockUnconditionalAcceptance
  <2> QED
    BY <2>2 DEF f
<1> QED
  BY <1>1, <1>2, <1>3 DEF Intake!ProgressIsAccepted

LEMMA SynthesisProgress ==
    ASSUME NEW e \in Synthesis!Envelope, Synthesis!Accepts(e)
    PROVE  Synthesis!ProgressIsAccepted(e)
<1>1. ASSUME NEW c \in e.conflicts
      PROVE  Synthesis!Accepts(Synthesis!Settled(e, c))
  <2> DEFINE d == [c EXCEPT !.resolved = TRUE]
             f == Synthesis!Settled(e, c)
  <2>1. c \in Synthesis!Conflict
    BY DEF Synthesis!Envelope
  <2>2. d.source_ids = c.source_ids /\ d.resolved = TRUE
    BY <2>1 DEF Synthesis!Conflict
  <2>3. /\ f.sources = e.sources /\ f.conflicts = (e.conflicts \ {c}) \cup {d}
        /\ f.review_required = e.review_required
        /\ f.finalization = e.finalization
        /\ f.final_output_refs = e.final_output_refs
    BY DEF Synthesis!Settled, Synthesis!Envelope
  <2> HIDE DEF f, d
  <2>4. Synthesis!ConflictSourceIdsMustBeUnique(d)
    BY <2>2 DEF Synthesis!Accepts, Synthesis!ConflictSourceIdsMustBeUnique
  <2>5. Synthesis!UnresolvedConflictsForceReviewOrBlock(f)
    BY <2>2, <2>3 DEF Synthesis!Accepts,
                      Synthesis!UnresolvedConflictsForceReviewOrBlock
  <2>6. Synthesis!Accepts(f)
    BY <2>3, <2>4, <2>5 DEF Synthesis!Accepts, Synthesis!AtLeastOneEligibleSource,
       Synthesis!AcceptDispositionRequiresFinalOutputRefs
  <2> QED
    BY <2>6 DEF f
<1>2. ASSUME NEW s \in Synthesis!Source
      PROVE  Synthesis!Accepts([e EXCEPT !.sources = @ \cup {s}])
  <2> DEFINE f == [e EXCEPT !.sources = @ \cup {s}]
  <2>1. /\ f.sources = e.sources \cup {s} /\ f.conflicts = e.conflicts
        /\ f.review_required = e.review_required
        /\ f.finalization = e.finalization
        /\ f.final_output_refs = e.final_output_refs
    BY DEF Synthesis!Envelope
  <2> HIDE DEF f
  <2>2. Synthesis!Accepts(f)
    BY <2>1 DEF Synthesis!Accepts, Synthesis!AtLeastOneEligibleSource,
       Synthesis!AcceptDispositionRequiresFinalOutputRefs,
       Synthesis!UnresolvedConflictsForceReviewOrBlock
  <2> QED
    BY <2>2 DEF f
<1>3. Synthesis!Accepts(Synthesis!SentBack(e))
  <2> DEFINE x == [status |-> "needs_rework", disposition |-> "return_for_rework",
                   approval_reason |-> TRUE, release_ready |-> FALSE]
             f == Synthesis!SentBack(e)
  <2>1. /\ f.sources = e.sources /\ f.conflicts = e.conflicts
        /\ f.review_required = e.review_required /\ f.finalization = x
    BY DEF Synthesis!SentBack, Synthesis!Envelope
  <2>2. /\ Synthesis!ValidateFinalization(x)
        /\ x.disposition \notin Synthesis!AcceptDispositions
    BY DEF Synthesis!ValidateFinalization, Synthesis!AcceptDispositions
  <2> HIDE DEF f, x
  <2>3. Synthesis!Accepts(f)
    BY <2>1, <2>2 DEF Synthesis!Accepts, Synthesis!AtLeastOneEligibleSource,
       Synthesis!AcceptDispositionRequiresFinalOutputRefs,
       Synthesis!UnresolvedConflictsForceReviewOrBlock
  <2> QED
    BY <2>3 DEF f
<1> QED
  BY <1>1, <1>2, <1>3 DEF Synthesis!ProgressIsAccepted

LEMMA MessageProgress ==
    ASSUME NEW e \in Messaging!Envelope, Messaging!Accepts(e)
    PROVE  Messaging!ProgressIsAccepted(e)
<1>1. ASSUME NEW f, f.header = e.header,
             Messaging!Targets(e.audience) \subseteq Messaging!Targets(f.audience),
             f.delivery_policy.requires_ack = e.delivery_policy.requires_ack
      PROVE  Messaging!Accepts(f)
  BY <1>1 DEF Messaging!Accepts, Messaging!AudienceMustBeSpecified,
              Messaging!BroadcastLimitedMustBeBounded,
              Messaging!FireAndForgetNoAck
<1>2. ASSUME NEW a \in Messaging!Acknowledgement
      PROVE  Messaging!Accepts([e EXCEPT !.acknowledgement = {a}])
  <2> DEFINE f == [e EXCEPT !.acknowledgement = {a}]
  <2>1. /\ f.header = e.header /\ f.audience = e.audience
        /\ f.delivery_policy = e.delivery_policy
    BY DEF Messaging!Envelope
  <2> HIDE DEF f
  <2>2. Messaging!Accepts(f)
    BY <1>1, <2>1
  <2> QED
    BY <2>2 DEF f
<1>3. Messaging!Accepts([e EXCEPT !.failure_record = TRUE,
                                  !.delivery_policy.max_retries = @ + 1])
  <2> DEFINE f == [e EXCEPT !.failure_record = TRUE,
                            !.delivery_policy.max_retries = @ + 1]
  <2>1. /\ f.header = e.header /\ f.audience = e.audience
        /\ f.delivery_policy.requires_ack = e.delivery_policy.requires_ack
    BY DEF Messaging!Envelope, Messaging!DeliveryPolicy
  <2> HIDE DEF f
  <2>2. Messaging!Accepts(f)
    BY <1>1, <2>1
  <2> QED
    BY <2>2 DEF f
<1>4. ASSUME NEW target \in Target
      PROVE  Messaging!Accepts(Messaging!Forwarded(e, target))
  <2> DEFINE f == Messaging!Forwarded(e, target)
  <2>1. /\ f.header = e.header /\ f.delivery_policy = e.delivery_policy
        /\ f.audience.target_agent_ids =
              e.audience.target_agent_ids \cup {target}
        /\ f.audience.target_role_ids = e.audience.target_role_ids
        /\ f.audience.target_node_ids = e.audience.target_node_ids
    BY DEF Messaging!Forwarded, Messaging!Envelope, Messaging!Audience
  <2> HIDE DEF f
  <2>2. Messaging!Accepts(f)
    BY <1>1, <2>1 DEF Messaging!Targets
  <2> QED
    BY <2>2 DEF f
<1> QED
  BY <1>2, <1>3, <1>4 DEF Messaging!ProgressIsAccepted

LEMMA StepProgress ==
    ASSUME NEW e \in Step!Envelope, Step!Accepts(e)
    PROVE  Step!ProgressIsAccepted(e)
<1>1. ASSUME NEW status, NEW outcome, NEW reason \in Step!StopReason \ {"none"},
             outcome = "success" => \E v \in e.verification : v.passed
      PROVE  Step!Accepts(Step!Ended(e, status, outcome, reason))
  <2> DEFINE f == Step!Ended(e, status, outcome, reason)
  <2>1. /\ f.status = status /\ f.outcome = outcome /\ f.ended_at = TRUE
        /\ f.stop_reason = reason /\ f.next_step_hint = TRUE
        /\ f.intent = e.intent /\ f.actions = e.actions
        /\ f.verification = e.verification /\ f.state_delta = e.state_delta
        /\ f.artifact_updates = e.artifact_updates
    BY DEF Step!Ended, Step!Envelope
  <2> HIDE DEF f
  <2>2. /\ Step!TerminalStatusRequiresEndedAt(f)
        /\ Step!CompletedSuccessNeedsVerification(f)
        /\ Step!FailureOutcomeNeedsStopReason(f)
        /\ Step!NoProgressNeedsNextStepHint(f)
    BY <1>1, <2>1 DEF Step!TerminalStatusRequiresEndedAt,
       Step!CompletedSuccessNeedsVerification,
       Step!FailureOutcomeNeedsStopReason, Step!NoProgressNeedsNextStepHint
  <2>3. /\ Step!StateDeltaRequiresArtifactUpdates(f)
        /\ Step!DelegationRequestNeedsAllowed(f)
    BY <2>1 DEF Step!Accepts, Step!StateDeltaRequiresArtifactUpdates,
                Step!DelegationRequestNeedsAllowed
  <2>4. Step!Accepts(f)
    BY <2>1, <2>2, <2>3 DEF Step!Accepts
  <2> QED
    BY <2>4 DEF f
<1>2. ASSUME NEW a \in Step!Action, e.intent.delegation_allowed
      PROVE  Step!Accepts([e EXCEPT !.actions = @ \cup {a}])
  <2> DEFINE f == [e EXCEPT !.actions = @ \cup {a}]
  <2>1. /\ f.status = e.status /\ f.outcome = e.outcome
        /\ f.ended_at = e.ended_at /\ f.stop_reason = e.stop_reason
        /\ f.next_step_hint = e.next_step_hint /\ f.intent = e.intent
        /\ f.verification = e.verification /\ f.state_delta = e.state_delta
        /\ f.artifact_updates = e.artifact_updates
    BY DEF Step!Envelope
  <2> HIDE DEF f
  <2>2. Step!DelegationRequestNeedsAllowed(f)
    BY <1>2, <2>1 DEF Step!DelegationRequestNeedsAllowed
  <2>3. Step!Accepts(f)
    BY <2>1, <2>2 DEF Step!Accepts, Step!TerminalStatusRequiresEndedAt,
       Step!CompletedSuccessNeedsVerification,
       Step!FailureOutcomeNeedsStopReason, Step!NoProgressNeedsNextStepHint,
       Step!StateDeltaRequiresArtifactUpdates
  <2> QED
    BY <2>3 DEF f
<1>3. "verified_success" \in Step!StopReason \ {"none"}
  BY DEF Step!StopReason
<1> QED
  BY <1>1, <1>2, <1>3 DEF Step!ProgressIsAccepted

LEMMA RoleProgress ==
    ASSUME NEW e \in Role!Envelope, Role!Accepts(e)
    PROVE  Role!ProgressIsAccepted(e)
<1>1. ASSUME NEW c \in e.capability_profile, NEW k \in e.constraint_profile,
             NEW t \in Tool
      PROVE  Role!Accepts(Role!Forbidden(e, c, k, t))
  <2> DEFINE a == [c EXCEPT !.allowed_tools = @ \ {t}]
             b == [k EXCEPT !.forbidden_tools = @ \cup {t}]
             f == Role!Forbidden(e, c, k, t)
  <2>1. /\ c \in Role!CapabilityProfile /\ k \in Role!ConstraintProfile
        /\ \A x \in e.constraint_profile : x = k
    BY DEF Role!Envelope, Role!Optional
  <2>2. /\ a.allowed_tools = c.allowed_tools \ {t}
        /\ a.can_delegate = c.can_delegate
        /\ a.delegation_boundaries = c.delegation_boundaries
        /\ a.can_verify = c.can_verify
        /\ a.can_modify_artifacts = c.can_modify_artifacts
        /\ b.forbidden_tools = k.forbidden_tools \cup {t}
        /\ b.must_not_write_without_verification =
              k.must_not_write_without_verification
    BY <2>1 DEF Role!CapabilityProfile, Role!ConstraintProfile
  <2>3. /\ f.role_definition = e.role_definition
        /\ f.assignment_record = e.assignment_record
        /\ f.capability_profile = {a} /\ f.constraint_profile = {b}
    BY DEF Role!Forbidden, Role!Envelope
  <2> HIDE DEF f, a, b
  <2>4. Role!ValidateDelegationBoundaries(a)
    BY <2>2 DEF Role!Accepts, Role!ValidateDelegationBoundaries
  <2>5. Role!ArtifactModifyingRolesNeedVerificationBoundary(f)
    BY <2>1, <2>2, <2>3 DEF Role!Accepts,
       Role!ArtifactModifyingRolesNeedVerificationBoundary
  <2>6. Role!ForbiddenToolsNotInAllowed(f)
    BY <2>2, <2>3 DEF Role!Accepts, Role!ForbiddenToolsNotInAllowed
  <2>7. Role!Accepts(f)
    BY <2>3, <2>4, <2>5, <2>6
       DEF Role!Accepts, Role!ActiveRoleRequiresCapabilityAndConstraint,
           Role!AssignmentMustReferenceActiveRole
  <2> QED
    BY <2>7 DEF f
<1>2. ASSUME NEW status \in {"deprecated", "disabled"}
      PROVE  Role!Accepts(Role!Retired(e, status))
  <2> DEFINE f == Role!Retired(e, status)
  <2>1. /\ f.role_definition.status = status /\ f.assignment_record = FALSE
        /\ f.role_definition.role_type = e.role_definition.role_type
        /\ f.role_definition.autonomy_level = e.role_definition.autonomy_level
        /\ f.capability_profile = e.capability_profile
        /\ f.constraint_profile = e.constraint_profile
    BY DEF Role!Retired, Role!Envelope, Role!RoleDefinition
  <2> HIDE DEF f
  <2>2. Role!Accepts(f)
    BY <2>1 DEF Role!Accepts, Role!ValidateSupervisoryAutonomy,
       Role!ActiveRoleRequiresCapabilityAndConstraint,
       Role!ArtifactModifyingRolesNeedVerificationBoundary,
       Role!ForbiddenToolsNotInAllowed, Role!AssignmentMustReferenceActiveRole
  <2> QED
    BY <2>2 DEF f
<1> QED
  BY <1>1, <1>2 DEF Role!ProgressIsAccepted

LEMMA LoopProgress ==
    ASSUME NEW e \in Loop!Envelope, Loop!Accepts(e)
    PROVE  Loop!ProgressIsAccepted(e)
<1>1. ASSUME NEW c \in Loop!Cycle, e.status \notin Loop!TerminalStatuses
      PROVE  Loop!Accepts([e EXCEPT !.cycles = Append(@, c)])
  <2> DEFINE f == [e EXCEPT !.cycles = Append(@, c)]
  <2>1. /\ f.status = e.status /\ f.stop_reason = e.stop_reason
        /\ f.next_action = e.next_action
    BY DEF Loop!Envelope
  <2> HIDE DEF f
  <2>2. Loop!Accepts(f)
    BY <1>1, <2>1 DEF Loop!Accepts, Loop!StopReasonAlignedWithStatus,
       Loop!ActiveLoopHasNextAction, Loop!VerificationForCompletedCycles,
       Loop!TerminalStatuses
  <2> QED
    BY <2>2 DEF f
<1>2. ASSUME NEW status \in {"paused", "blocked"},
             e.status \notin Loop!TerminalStatuses
      PROVE  Loop!Accepts([e EXCEPT !.status = status])
  <2> DEFINE f == [e EXCEPT !.status = status]
  <2>1. f.status = status /\ f.stop_reason = e.stop_reason
    BY DEF Loop!Envelope
  <2> HIDE DEF f
  <2>2. Loop!Accepts(f)
    BY <1>2, <2>1 DEF Loop!Accepts, Loop!StopReasonAlignedWithStatus,
       Loop!ActiveLoopHasNextAction, Loop!VerificationForCompletedCycles,
       Loop!TerminalStatuses
  <2> QED
    BY <2>2 DEF f
<1>3. ASSUME NEW reason \in Loop!StopReason, NEW status \in Loop!TerminalStatuses,
             status = "failed" \/ Loop!Verified(e)
      PROVE  Loop!Accepts(Loop!Stopped(e, status, reason))
  <2> DEFINE f == Loop!Stopped(e, status, reason)
  <2>1. /\ f.status = status /\ f.stop_reason = reason /\ f.cycles = e.cycles
        /\ f.plan = e.plan
    BY DEF Loop!Stopped, Loop!Envelope
  <2> HIDE DEF f
  <2>2. Loop!Accepts(f)
    BY <1>3, <2>1 DEF Loop!Accepts, Loop!StopReasonAlignedWithStatus,
       Loop!ActiveLoopHasNextAction, Loop!VerificationForCompletedCycles,
       Loop!TerminalStatuses, Loop!StopReason, Loop!Verified
  <2> QED
    BY <2>2 DEF f
<1>4. Loop!Passed(e) => Loop!Verified(e)
  BY DEF Loop!Passed, Loop!Verified
<1>5. /\ "verification_failed" \in Loop!StopReason
      /\ {"success", "no_work"} \subseteq Loop!StopReason
      /\ "max_iterations" \in Loop!StopReason
  BY DEF Loop!StopReason
<1> QED
  BY <1>1, <1>2, <1>3, <1>4, <1>5 DEF Loop!ProgressIsAccepted, Loop!TerminalStatuses

-----------------------------------------------------------------------------
(* The theorems. *)

(* References between the parts of a checked envelope resolve.             *)
THEOREM CheckedReferencesResolve == LifecycleSpec => []ReferencesResolve
<1>1. LifecycleInv => ReferencesResolve
  BY SkillIsSound, RouteIsSound, IntakeIsSound
     DEF LifecycleInv, IsTyped, CheckedIsAccepted, ReferencesResolve, Checked
<1> QED
  BY <1>1, InvHolds, PTL

(* A go-ahead in a checked envelope is backed.                             *)
THEOREM CheckedGoAheadIsBacked == LifecycleSpec => []GoAheadIsBacked
<1>1. LifecycleInv => GoAheadIsBacked
  BY HandoffIsSound, RiskIsSound, CapabilityIsSound, SkillIsSound, RouteIsSound,
     IntakeIsSound, SynthesisIsSound, ReleaseIsSound, AcceptedKeeps,
     MessageIsSound, StepIsSound, RoleIsSound
     DEF LifecycleInv, IsTyped, CheckedIsAccepted, GoAheadIsBacked, Checked
<1> QED
  BY <1>1, InvHolds, PTL

(* Bad news in a checked envelope is not reported as fine: a failed        *)
(* compensation, an unmet requirement, an open conflict, a cycle whose     *)
(* verification was never recorded.                                        *)
THEOREM CheckedBadNewsIsKept == LifecycleSpec => []BadNewsIsKept
<1>1. LifecycleInv => BadNewsIsKept
  BY RetryIsSound, CapabilityIsSound, RouteIsSound, SynthesisIsSound, LoopIsSound
     DEF LifecycleInv, IsTyped, CheckedIsAccepted, BadNewsIsKept, Checked
<1> QED
  BY <1>1, InvHolds, PTL

(* No checked envelope of the twelve contracts is a dead end for the next  *)
(* steps the documents name.                                               *)
THEOREM CheckedProgressIsAccepted == LifecycleSpec => []ProgressIsAccepted
<1>1. LifecycleInv => ProgressIsAccepted
  BY RetryProgress, HandoffProgress, RiskProgress, CapabilityProgress,
     SkillProgress, RouteProgress, IntakeProgress, SynthesisProgress,
     MessageProgress, StepProgress, RoleProgress, LoopProgress
     DEF LifecycleInv, IsTyped, CheckedIsAccepted, ProgressIsAccepted, Checked
<1> QED
  BY <1>1, InvHolds, PTL

(* The later check of a synthesis sees the sources that were withdrawn.    *)
THEOREM WithdrawalsAreCaught == LifecycleSpec => []WithdrawnSourcesAreCaught
<1>1. LifecycleInv => WithdrawnSourcesAreCaught
  BY ReleaseIsSound, SynthesisIsSound, AcceptedKeeps
     DEF LifecycleInv, IsTyped, CheckedIsAccepted, ChangedKeeps, Exists,
         WithdrawnSourcesAreCaught
<1> QED
  BY <1>1, InvHolds, PTL

-----------------------------------------------------------------------------
(* Versions compared as text. *)

(* Two texts of one digit or two are compared by at most two digits.       *)
LEMMA TextsOfVersions ==
    ASSUME NEW a \in Capability!Version, NEW b \in Capability!Version
    PROVE  Capability!TextGreater(Capability!Text(a), Capability!Text(b)) <=>
              IF a < 10
              THEN IF b < 10 THEN a > b ELSE a > b \div 10
              ELSE IF b < 10 THEN a \div 10 >= b
                   ELSE \/ a \div 10 > b \div 10
                        \/ a \div 10 = b \div 10 /\ a % 10 > b % 10
<1> USE DEF Capability!Version
<1> DEFINE s == Capability!Text(a)
           t == Capability!Text(b)
           Greater == Capability!TextGreater(s, t)
<1>1. CASE a < 10 /\ b < 10
  <2>1. /\ s = <<a>> /\ t = <<b>>
    BY <1>1 DEF Capability!Text
  <2>2. DOMAIN s = {1} /\ DOMAIN t = {1} /\ Len(s) = 1 /\ Len(t) = 1
        /\ s[1] = a /\ t[1] = b
    BY <2>1
  <2>3. Greater <=> s[1] > t[1]
    BY <2>2 DEF Capability!TextGreater
  <2> QED
    BY <1>1, <2>2, <2>3
<1>2. CASE a < 10 /\ ~(b < 10)
  <2>1. /\ s = <<a>> /\ t = <<b \div 10, b % 10>>
    BY <1>2 DEF Capability!Text
  <2>2. DOMAIN s = {1} /\ DOMAIN t = {1, 2} /\ Len(s) = 1 /\ Len(t) = 2
        /\ s[1] = a /\ t[1] = b \div 10
    BY <2>1
  <2>3. Greater <=> s[1] > t[1]
    BY <2>2 DEF Capability!TextGreater
  <2> QED
    BY <1>2, <2>2, <2>3
<1>3. CASE ~(a < 10) /\ b < 10
  <2>1. /\ s = <<a \div 10, a % 10>> /\ t = <<b>>
    BY <1>3 DEF Capability!Text
  <2>2. DOMAIN s = {1, 2} /\ DOMAIN t = {1} /\ Len(s) = 2 /\ Len(t) = 1
        /\ s[1] = a \div 10 /\ t[1] = b
    BY <2>1
  <2>3. Greater <=> s[1] > t[1] \/ s[1] = t[1]
    BY <2>2 DEF Capability!TextGreater
  <2>4. a \div 10 \in Nat /\ b \in Nat
    OBVIOUS
  <2> QED
    BY <1>3, <2>2, <2>3, <2>4
<1>4. CASE ~(a < 10) /\ ~(b < 10)
  <2>1. /\ s = <<a \div 10, a % 10>> /\ t = <<b \div 10, b % 10>>
    BY <1>4 DEF Capability!Text
  <2>2. DOMAIN s = {1, 2} /\ DOMAIN t = {1, 2} /\ Len(s) = 2 /\ Len(t) = 2
        /\ s[1] = a \div 10 /\ s[2] = a % 10
        /\ t[1] = b \div 10 /\ t[2] = b % 10
    BY <2>1
  <2>3. Greater <=> s[1] > t[1] \/ (s[1] = t[1] /\ s[2] > t[2])
    BY <2>2 DEF Capability!TextGreater
  <2> QED
    BY <1>4, <2>2, <2>3
<1> QED
  BY <1>1, <1>2, <1>3, <1>4

(* The comparison as text errs exactly where the digits mislead: over      *)
(* versions of the same number of digits it is the order of the numbers.   *)
LEMMA TextErrsByDigits ==
    ASSUME NEW q \in Capability!Requirement
    PROVE  Capability!DigitsMislead(q) <=>
              (Capability!VersionConstraintsCoherent(q) <=>
                  Capability!RefusedRangeIsEmpty(q))
<1> DEFINE a == q.minimum_version
           b == q.maximum_version
<1>1. a \in 0..99 /\ b \in 0..99
  BY DEF Capability!Requirement, Capability!Version
<1>2. /\ a = 10 * (a \div 10) + (a % 10) /\ a \div 10 \in 0..9 /\ a % 10 \in 0..9
      /\ b = 10 * (b \div 10) + (b % 10) /\ b \div 10 \in 0..9 /\ b % 10 \in 0..9
  BY <1>1
<1>3. Capability!VersionConstraintsCoherent(q)
        <=> ~Capability!TextGreater(Capability!Text(a), Capability!Text(b))
  BY DEF Capability!VersionConstraintsCoherent
<1>4. Capability!RefusedRangeIsEmpty(q) <=> a > b
  BY DEF Capability!RefusedRangeIsEmpty
<1>5. Capability!DigitsMislead(q) <=>
        \/ a < 10 /\ 10 <= b /\ b \div 10 < a
        \/ b < 10 /\ 10 <= a /\ a \div 10 < b
  BY DEF Capability!DigitsMislead
<1> HIDE DEF a, b
<1>6. a \in Capability!Version /\ b \in Capability!Version
  BY <1>1 DEF Capability!Version
<1>7. CASE a < 10 /\ b < 10
  BY <1>1, <1>3, <1>4, <1>5, <1>6, <1>7, TextsOfVersions
<1>8. CASE a < 10 /\ ~(b < 10)
  BY <1>1, <1>2, <1>3, <1>4, <1>5, <1>6, <1>8, TextsOfVersions
<1>9. CASE ~(a < 10) /\ b < 10
  BY <1>1, <1>2, <1>3, <1>4, <1>5, <1>6, <1>9, TextsOfVersions
<1>10. CASE ~(a < 10) /\ ~(b < 10)
  BY <1>1, <1>2, <1>3, <1>4, <1>5, <1>6, <1>10, TextsOfVersions
<1> QED
  BY <1>1, <1>7, <1>8, <1>9, <1>10

(* What is held of a requirement is what was offered, with its verdict.    *)
RequirementInv ==
    (held.contract = "requirement" /\ held.state # "nothing") =>
        /\ held.envelope \in Capability!Requirement
        /\ held.state = Verdict(Capability!VersionConstraintsCoherent(held.envelope))

(* The verdict on a range of versions is wrong exactly when digits mislead, *)
(* whatever versions below a hundred a requirement names.                   *)
THEOREM DigitsDecideRanges == LifecycleSpec => []RangesAreMisjudgedByDigits
<1>1. LifecycleInit => RequirementInv
  BY DEF LifecycleInit, RequirementInv, Held
<1>2. LifecycleInv /\ RequirementInv /\ [LifecycleNext]_held => RequirementInv'
  <2> SUFFICES ASSUME LifecycleInv, RequirementInv, [LifecycleNext]_held
               PROVE  RequirementInv'
    OBVIOUS
  <2>1. CASE BuildAny
    BY <2>1, OfferedAssumption
    DEF BuildAny, Build, Held, RequirementInv, BuildRetry, BuildHandoff, BuildRisk,
        BuildNegotiation, BuildRequirement, BuildSkill, BuildRoute, BuildIntake,
        BuildSynthesis, BuildMessage, BuildStep, BuildRole, BuildLoop
  <2>2. CASE ChangeInPlace
    <3>1. \E contract, e : contract # "requirement" /\ held' = Held(contract, e, "changed")
      <4>1. CASE WithdrawSource
        BY <4>1 DEF WithdrawSource, Change
      <4>2. CASE AppendApproval \/ AssignApprovalStatus
        BY <4>2 DEF AppendApproval, AssignApprovalStatus, Change
      <4>3. CASE AppendCycle \/ AssignLoopStatus \/ AssignStopReason
        BY <4>3 DEF AppendCycle, AssignLoopStatus, AssignStopReason, Change
      <4>4. CASE AppendAttempt
        BY <4>4 DEF AppendAttempt, Change
      <4>5. CASE AppendAction \/ AssignActionStatus \/ AssignPlanStatus
        BY <4>5 DEF AppendAction, AssignActionStatus, AssignPlanStatus,
                    ChangePlan, Change
      <4> QED
        BY <2>2, <4>1, <4>2, <4>3, <4>4, <4>5 DEF ChangeInPlace
    <3> QED
      BY <3>1 DEF Held, RequirementInv
  <2>3. CASE Recheck \/ Reload
    <3>1. held.contract # "requirement" /\ held'.contract = held.contract
      BY <2>3 DEF Recheck, Reload, Reloaded, LifecycleInv, Shape, Held
    <3> QED
      BY <3>1 DEF RequirementInv
  <2>4. CASE LetGo \/ UNCHANGED held
    BY <2>4 DEF LetGo, Held, RequirementInv
  <2> QED
    BY <2>1, <2>2, <2>3, <2>4 DEF LifecycleNext
<1>3. RequirementInv => RangesAreMisjudgedByDigits
  BY TextErrsByDigits DEF RequirementInv, RangesAreMisjudgedByDigits, Verdict
<1> QED
  BY <1>1, <1>2, <1>3, InvHolds, PTL DEF LifecycleSpec
=============================================================================
