------------------------- MODULE SynthesisFinalization -------------------------
(***************************************************************************)
(* models/synthesis_finalization_contract.py: the sources of a synthesis,  *)
(* the conflicts between them, the summary of the validation, and the      *)
(* finalization of the output.  Accepts(e) says whether an envelope with   *)
(* the parts e can be constructed; conventions as in                       *)
(* ClarificationResolution.  RejectedOnlyCannotApprove is no validator: it *)
(* is what check_all_envelope_rules tests when a client asks for it.  The  *)
(* decision and the normalizations name sources that are compared with     *)
(* nothing and left out, like scores and the wording of the output.        *)
(***************************************************************************)
EXTENDS Naturals, Sequences

CONSTANTS SourceId, ConflictId

FinalizationStatus == {"draft", "in_synthesis", "validated", "approved",
                       "rejected", "needs_rework", "released"}
FinalDisposition == {"accept", "accept_with_caveats", "return_for_rework",
                     "reject", "escalate"}
AcceptDispositions == {"accept", "accept_with_caveats"}

Source == [source_id : SourceId, eligible : BOOLEAN]
Conflict == [conflict_id : ConflictId, source_ids : Seq(SourceId),
             resolved : BOOLEAN]
Finalization == [status : FinalizationStatus, disposition : FinalDisposition,
                 approval_reason : BOOLEAN, release_ready : BOOLEAN]

Envelope == [sources : SUBSET Source, conflicts : SUBSET Conflict,
             review_required : BOOLEAN, finalization : Finalization,
             final_output_refs : BOOLEAN]

-----------------------------------------------------------------------------
(* The validators of a record. *)

ConflictSourceIdsMustBeUnique(c) ==
    /\ Len(c.source_ids) >= 2
    /\ \A i, j \in DOMAIN c.source_ids :
          c.source_ids[i] = c.source_ids[j] => i = j

ValidateFinalization(f) ==
    /\ f.disposition # "escalate" => f.approval_reason
    /\ f.status = "released" => f.release_ready

(* The validators of the envelope. *)

AtLeastOneEligibleSource(e) == \E s \in e.sources : s.eligible

AcceptDispositionRequiresFinalOutputRefs(e) ==
    e.finalization.disposition \in AcceptDispositions => e.final_output_refs

UnresolvedConflictsForceReviewOrBlock(e) ==
    (\E c \in e.conflicts : ~c.resolved) => e.review_required

Accepts(e) ==
    /\ \A c \in e.conflicts : ConflictSourceIdsMustBeUnique(c)
    /\ ValidateFinalization(e.finalization)
    /\ AtLeastOneEligibleSource(e)
    /\ AcceptDispositionRequiresFinalOutputRefs(e)
    /\ UnresolvedConflictsForceReviewOrBlock(e)

(* mutant: the check knows only the status approved.                       *)
RejectedOnlyCannotBeApproved(e) ==
    ~AtLeastOneEligibleSource(e) => e.finalization.status # "approved"

RejectedOnlyCannotApprove(e) ==
    ~AtLeastOneEligibleSource(e) =>
        e.finalization.status \notin {"approved", "released"}

-----------------------------------------------------------------------------
(* What an accepted envelope promises. *)

(* An output that is accepted and released has something to release, a     *)
(* reason, a source that was eligible, and was declared ready.             *)
GoAheadIsBacked(e) ==
    (/\ e.finalization.status = "released"
     /\ e.finalization.disposition \in AcceptDispositions)
        => /\ \E s \in e.sources : s.eligible
           /\ e.final_output_refs
           /\ e.finalization.approval_reason /\ e.finalization.release_ready

(* An open conflict, whatever else was settled, asks for a review.         *)
BadNewsIsKept(e) ==
    ~e.review_required => \A c \in e.conflicts : c.resolved

(* Conflicts can be settled, sources added, and the work sent back.        *)
Settled(e, c) ==
    [e EXCEPT !.conflicts = (@ \ {c}) \cup {[c EXCEPT !.resolved = TRUE]}]
SentBack(e) ==
    [e EXCEPT !.finalization =
        [status |-> "needs_rework", disposition |-> "return_for_rework",
         approval_reason |-> TRUE, release_ready |-> FALSE]]

ProgressIsAccepted(e) ==
    /\ \A c \in e.conflicts : Accepts(Settled(e, c))
    /\ \A s \in Source : Accepts([e EXCEPT !.sources = @ \cup {s}])
    /\ Accepts(SentBack(e))
=============================================================================
