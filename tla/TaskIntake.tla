------------------------------- MODULE TaskIntake -------------------------------
(***************************************************************************)
(* models/hybrid_task_intake_contract.py: a task as it came in, the fields *)
(* that were extracted from it, what is ambiguous, and the decision to     *)
(* take it on.  Accepts(e) says whether an envelope with the parts e can   *)
(* be constructed; conventions as in ClarificationResolution.  The         *)
(* structured extraction, the questions of a clarification request and the *)
(* intake identifiers of the parts are read by no rule.                    *)
(***************************************************************************)
CONSTANTS FieldName

FieldResolutionStatus == {"explicit", "inferred", "missing", "ambiguous",
                          "invalid"}
IntakeDisposition == {"accepted", "accepted_with_gaps",
                      "clarification_required", "rejected", "escalated"}
AcceptedDispositions == {"accepted", "accepted_with_gaps"}

RawIntake == [raw_text : BOOLEAN, raw_artifact_refs : BOOLEAN]
ExtractedField == [field_name : FieldName, status : FieldResolutionStatus,
                   value_ref : BOOLEAN]
IntakeValidation == [schema_valid : BOOLEAN,
                     missing_required_fields : SUBSET FieldName]
IntakeDecision == [disposition : IntakeDisposition, reason : BOOLEAN]

Envelope == [raw_intake : RawIntake, fields : SUBSET ExtractedField,
             ambiguities : SUBSET FieldName, clarification_request : BOOLEAN,
             validation : IntakeValidation, decision : IntakeDecision]

-----------------------------------------------------------------------------
(* The validators of a record. *)

RawContentMustExist(w) == w.raw_text \/ w.raw_artifact_refs

MissingFieldNotResolved(f) == f.status = "missing" => ~f.value_ref

ValidateDecision(d) == d.disposition \in AcceptedDispositions => d.reason

(* The validators of the envelope. *)

FieldNames(e) == {f.field_name : f \in e.fields}

(* An envelope without any field is not looked at.                         *)
AmbiguitiesMustReferenceValidFields(e) ==
    e.fields # {} => e.ambiguities \subseteq FieldNames(e)

AcceptedRequiresSchemaValid(e) ==
    e.decision.disposition \in AcceptedDispositions => e.validation.schema_valid

ClarificationRequiresRequest(e) ==
    e.decision.disposition = "clarification_required" => e.clarification_request

MissingRequiredFieldsBlockUnconditionalAcceptance(e) ==
    e.decision.disposition = "accepted" =>
        e.validation.missing_required_fields = {}

Accepts(e) ==
    /\ RawContentMustExist(e.raw_intake)
    /\ \A f \in e.fields : MissingFieldNotResolved(f)
    /\ ValidateDecision(e.decision)
    /\ AmbiguitiesMustReferenceValidFields(e)
    /\ AcceptedRequiresSchemaValid(e)
    /\ ClarificationRequiresRequest(e)
    /\ MissingRequiredFieldsBlockUnconditionalAcceptance(e)

-----------------------------------------------------------------------------
(* What an accepted envelope promises. *)

(* An ambiguity is about a field on record, once there is a field at all.  *)
ReferencesResolve(e) ==
    e.fields # {} =>
        \A name \in e.ambiguities : \E f \in e.fields : f.field_name = name

(* A task that is taken on came with something, fits its schema, and lacks *)
(* nothing that is required unless it was taken on with gaps.              *)
GoAheadIsBacked(e) ==
    e.decision.disposition \in AcceptedDispositions =>
        /\ e.raw_intake.raw_text \/ e.raw_intake.raw_artifact_refs
        /\ e.validation.schema_valid /\ e.decision.reason
        /\ e.validation.missing_required_fields # {} =>
              e.decision.disposition = "accepted_with_gaps"

(* A field that was missing can be filled in, and then no longer counts as *)
(* missing; an ambiguity can be settled; the task can be turned away.      *)
Filled(e, f) ==
    [e EXCEPT
        !.fields = (@ \ {f}) \cup {[f EXCEPT !.status = "explicit",
                                            !.value_ref = TRUE]},
        !.validation.missing_required_fields = @ \ {f.field_name}]

ProgressIsAccepted(e) ==
    /\ \A f \in e.fields : Accepts(Filled(e, f))
    /\ \A name \in e.ambiguities :
          Accepts([e EXCEPT !.ambiguities = @ \ {name}])
    /\ \A disposition \in {"rejected", "escalated"} :
          Accepts([e EXCEPT !.decision.disposition = disposition])
=============================================================================
