----------------------------- MODULE AcceptanceDone -----------------------------
(***************************************************************************)
(* models/acceptance_done_contract.py: the acceptance criteria of a task,  *)
(* the definition-of-done checks, the evidence, and the decision whether   *)
(* the task is complete.  Accepts(e) says whether an envelope with the     *)
(* parts e can be constructed; conventions as in ClarificationResolution.  *)
(* The counts of the assessment are compared with nothing and left out.    *)
(***************************************************************************)
CONSTANTS CriterionId, CheckId, NoRef

CriterionStatus == {"not_started", "in_progress", "met", "failed", "waived"}
DoneCheckType == {"quality_gate", "verification_gate", "documentation_gate",
                  "policy_gate", "release_gate"}
DoneStatus == {"not_checked", "passed", "failed", "waived"}
Disposition == {"accepted", "accepted_with_caveats", "needs_rework",
                "rejected", "deferred"}

AcceptanceCriterion == [criterion_id : CriterionId, required : BOOLEAN,
                        status : CriterionStatus, notes : BOOLEAN]
DoneCheck == [done_check_id : CheckId, type : DoneCheckType,
              required : BOOLEAN, status : DoneStatus, notes : BOOLEAN]
Evidence == [ref : CriterionId \cup CheckId \cup {NoRef}]
Decision == [disposition : Disposition, reason : BOOLEAN,
             followup : BOOLEAN, release_ready : BOOLEAN]

Envelope == [criteria : SUBSET AcceptanceCriterion, checks : SUBSET DoneCheck,
             evidence : SUBSET Evidence, decision : Decision]

-----------------------------------------------------------------------------
(* The validators of a record. *)

RequiredNotWaivedWithoutNotes(item) ==
    item.required /\ item.status = "waived" => item.notes

RejectedOrNeedsReworkNeedsReason(d) ==
    d.disposition \in {"rejected", "needs_rework"} => d.reason

AcceptedWithCaveatsNeedsFollowup(d) ==
    d.disposition = "accepted_with_caveats" => d.followup \/ d.reason

(* The validators of the envelope. *)

EvidenceReferencesValidCriterionOrCheck(e) ==
    {x.ref : x \in e.evidence} \ {NoRef}
        \subseteq {c.criterion_id : c \in e.criteria}
                    \cup {k.done_check_id : k \in e.checks}

AcceptedRequiresRequiredCriteriaAndChecks(e) ==
    e.decision.disposition = "accepted" =>
        /\ \A c \in e.criteria : c.required =>
              c.status = "met" \/ (c.status = "waived" /\ c.notes)
        /\ \A k \in e.checks : k.required =>
              k.status = "passed" \/ (k.status = "waived" /\ k.notes)

AcceptedWithCaveatsRequiresActions(e) ==
    e.decision.disposition = "accepted_with_caveats" => e.decision.followup

ReleaseReadyRequiresPassedReleaseGates(e) ==
    e.decision.release_ready =>
        \A k \in e.checks :
            (k.type = "release_gate" /\ k.required) => k.status = "passed"

Accepts(e) ==
    /\ \A c \in e.criteria : RequiredNotWaivedWithoutNotes(c)
    /\ \A k \in e.checks : RequiredNotWaivedWithoutNotes(k)
    /\ RejectedOrNeedsReworkNeedsReason(e.decision)
    /\ AcceptedWithCaveatsNeedsFollowup(e.decision)
    /\ EvidenceReferencesValidCriterionOrCheck(e)
    /\ AcceptedRequiresRequiredCriteriaAndChecks(e)
    /\ AcceptedWithCaveatsRequiresActions(e)
    /\ ReleaseReadyRequiresPassedReleaseGates(e)

-----------------------------------------------------------------------------
(* What an accepted envelope promises. *)

(* Evidence that names something names a criterion or a check on record.   *)
CheckedReferencesResolve(e) ==
    \A x \in e.evidence :
        \/ x.ref = NoRef
        \/ \E c \in e.criteria : c.criterion_id = x.ref
        \/ \E k \in e.checks : k.done_check_id = x.ref

(* Nothing required is left behind by a decision to accept: what is not    *)
(* achieved was waived and the waiver explained; a release gate of an      *)
(* accepted and releasable task has passed, and no waiver stands for it.   *)
GoAheadIsBacked(e) ==
    e.decision.disposition = "accepted" =>
        /\ \A item \in e.criteria \cup e.checks :
              (item.required /\ item.status \notin {"met", "passed"})
                  => item.status = "waived" /\ item.notes
        /\ \A k \in e.checks :
              (k.required /\ k.type = "release_gate" /\ k.status = "waived")
                  => ~e.decision.release_ready

(* Achieving one more item never makes an acceptable envelope refused.     *)
Met(e, c) == [e EXCEPT !.criteria = (@ \ {c}) \cup {[c EXCEPT !.status = "met"]}]
Passed(e, k) == [e EXCEPT !.checks = (@ \ {k}) \cup {[k EXCEPT !.status = "passed"]}]

ProgressIsAccepted(e) ==
    /\ \A c \in e.criteria : Accepts(Met(e, c))
    /\ \A k \in e.checks : Accepts(Passed(e, k))

=============================================================================
