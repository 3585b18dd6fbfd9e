----------------------- MODULE ClarificationResolution -----------------------
(***************************************************************************)
(* models/clarification_resolution_contract.py: what is missing from a     *)
(* task, what was asked and tried about it, and the decision whether to go *)
(* ahead.  Accepts(e) says whether an envelope with the parts e can be     *)
(* constructed: one conjunct per validator that relates two fields.        *)
(*                                                                         *)
(* A list is the set of its records.  An optional text is the boolean      *)
(* whether it is given.  The rules on a single value (a blank identifier,  *)
(* a confidence outside 0..1, an unknown session status) are left out, and *)
(* so are fields nothing is compared with: the name of the field a gap, a  *)
(* question and a policy are about, and whether a policy allows a default. *)
(***************************************************************************)
CONSTANTS GapId, QuestionId

GapSeverity == {"low", "medium", "high", "blocking"}
ResolutionMethod == {"ask_user", "infer_from_context", "apply_default",
                     "manual_override", "defer", "escalate"}
ResolutionStatus == {"open", "question_issued", "answered", "resolved",
                     "deferred", "escalated", "closed_unresolved"}
ClosingStatus == {"resolved", "deferred", "escalated", "closed_unresolved"}
Disposition == {"ready_to_proceed", "proceed_with_gaps", "awaiting_response",
                "rejected", "escalated"}
Proceeding == {"ready_to_proceed", "proceed_with_gaps"}

MissingInfoGap == [gap_id : GapId, severity : GapSeverity, blocking : BOOLEAN]
ClarificationQuestion == [question_id : QuestionId, gap_id : GapId]
ResolutionAttempt == [gap_id : GapId, method : ResolutionMethod,
                      proposed_value : BOOLEAN]
FieldResolution == [gap_id : GapId, status : ResolutionStatus,
                    value : BOOLEAN, notes : BOOLEAN]
ResolutionPolicy == [required : BOOLEAN, allow_defer : BOOLEAN,
                     escalation_threshold : BOOLEAN]
Session == [related_gap_ids : SUBSET GapId,
            active_question_ids : SUBSET QuestionId,
            completed_question_ids : SUBSET QuestionId]
Decision == [disposition : Disposition, open_gap_ids : SUBSET GapId,
             reason : BOOLEAN]

Envelope == [gaps : SUBSET MissingInfoGap,
             questions : SUBSET ClarificationQuestion,
             attempts : SUBSET ResolutionAttempt,
             field_resolutions : SUBSET FieldResolution,
             policies : SUBSET ResolutionPolicy,
             session : Session, decision : Decision]

-----------------------------------------------------------------------------
(* The validators of a record. *)

BlockingSeverityConsistency(g) == g.severity = "blocking" => g.blocking

ResolvedAttemptNeedsValue(a) ==
    a.method \in {"ask_user", "infer_from_context", "apply_default",
                  "manual_override"} => a.proposed_value

ResolvedStatusNeedsValueOrNotes(r) ==
    r.status \in ClosingStatus => r.value \/ r.notes

RequiredFieldDisallowsDeferWithoutPolicy(p) ==
    p.required /\ p.allow_defer => p.escalation_threshold

NoOverlapInQuestionIds(s) ==
    s.active_question_ids \cap s.completed_question_ids = {}

RejectedOrEscalatedNeedsReason(d) ==
    d.disposition \in {"rejected", "escalated"} => d.reason

(* The validators of the envelope, which refer from part to part. *)

ValidGapIds(e) == {g.gap_id : g \in e.gaps}
ValidQuestionIds(e) == {q.question_id : q \in e.questions}

QuestionsReferenceValidGaps(e) ==
    {q.gap_id : q \in e.questions} \subseteq ValidGapIds(e)

RecordsReferenceValidGaps(e) ==
    /\ {a.gap_id : a \in e.attempts} \subseteq ValidGapIds(e)
    /\ {r.gap_id : r \in e.field_resolutions} \subseteq ValidGapIds(e)
    /\ e.session.related_gap_ids \subseteq ValidGapIds(e)
    /\ e.decision.open_gap_ids \subseteq ValidGapIds(e)

SessionQuestionsReferenceValidQuestions(e) ==
    e.session.active_question_ids \cup e.session.completed_question_ids
        \subseteq ValidQuestionIds(e)

AwaitingResponseNeedsOpenQuestions(e) ==
    e.decision.disposition = "awaiting_response"
        => e.session.active_question_ids # {}

\* mutant
ReadyToProceedWhenNothingIsOpen(e) ==
    e.decision.disposition \in Proceeding =>
        \A g \in e.gaps : g.blocking =>
            \A r \in e.field_resolutions :
                r.gap_id = g.gap_id => r.status \in ClosingStatus

ReadyToProceedNoUnresolvedBlockingGaps(e) ==
    e.decision.disposition \in Proceeding =>
        \A g \in e.gaps : g.blocking =>
            \E r \in e.field_resolutions :
                r.gap_id = g.gap_id /\ r.status \in ClosingStatus

Accepts(e) ==
    /\ \A g \in e.gaps : BlockingSeverityConsistency(g)
    /\ \A a \in e.attempts : ResolvedAttemptNeedsValue(a)
    /\ \A r \in e.field_resolutions : ResolvedStatusNeedsValueOrNotes(r)
    /\ \A p \in e.policies : RequiredFieldDisallowsDeferWithoutPolicy(p)
    /\ NoOverlapInQuestionIds(e.session)
    /\ RejectedOrEscalatedNeedsReason(e.decision)
    /\ QuestionsReferenceValidGaps(e)
    /\ RecordsReferenceValidGaps(e)
    /\ SessionQuestionsReferenceValidQuestions(e)
    /\ AwaitingResponseNeedsOpenQuestions(e)
    /\ ReadyToProceedNoUnresolvedBlockingGaps(e)

-----------------------------------------------------------------------------
(* What an accepted envelope promises. *)

(* Every question the session counts, open or done, was asked about a gap  *)
(* on record, and everything tried, settled or left open is about one.     *)
CheckedReferencesResolve(e) ==
    /\ \A q \in e.session.active_question_ids
                    \cup e.session.completed_question_ids :
          \E x \in e.questions, g \in e.gaps :
              x.question_id = q /\ x.gap_id = g.gap_id
    /\ \A x \in e.attempts \cup e.field_resolutions :
          \E g \in e.gaps : g.gap_id = x.gap_id
    /\ \A id \in e.decision.open_gap_ids : \E g \in e.gaps : g.gap_id = id

(* A decision to go ahead rests on a closed resolution, with a value or a  *)
(* note, of every gap whose severity is blocking.                          *)
GoAheadIsBacked(e) ==
    e.decision.disposition \in Proceeding =>
        \A g \in e.gaps : g.severity = "blocking" =>
            \E r \in e.field_resolutions :
                /\ r.gap_id = g.gap_id /\ r.status \in ClosingStatus
                /\ r.value \/ r.notes

(* Settling a gap never makes an acceptable envelope refused, nor does the *)
(* answer to a question, save the last one of a decision that waits for it. *)
Settled(e, id) ==
    [e EXCEPT !.field_resolutions =
        @ \cup {[gap_id |-> id, status |-> "resolved",
                 value |-> TRUE, notes |-> FALSE]}]

Answered(e, q) ==
    [e EXCEPT !.session.active_question_ids = @ \ {q},
              !.session.completed_question_ids = @ \cup {q}]

ProgressIsAccepted(e) ==
    /\ \A id \in ValidGapIds(e) : Accepts(Settled(e, id))
    /\ \A q \in e.session.active_question_ids :
          \/ Accepts(Answered(e, q))
          \/ /\ e.decision.disposition = "awaiting_response"
             /\ e.session.active_question_ids = {q}

=============================================================================
