----------------------------- MODULE HandoffReturn -----------------------------
(***************************************************************************)
(* models/handoff_return_envelope_contract.py: work handed from one agent  *)
(* to another, who owns it meanwhile, what came back, and the review of    *)
(* that.  Accepts(e) says whether an envelope with the parts e can be      *)
(* constructed; conventions as in ClarificationResolution.  The context,   *)
(* the constraints and the actions of a handoff are read by no rule; four  *)
(* validators of the envelope have no effect, and the fifth repeats the    *)
(* rule of the ownership record.                                           *)
(***************************************************************************)
CONSTANTS AgentId, NoAgent, ReturnId

HandoffType == {"delegate_work", "transfer_control", "request_review",
                "request_verification", "request_retrieval",
                "return_to_supervisor"}
OwnershipMode == {"full_transfer", "temporary_execution", "read_only_assist",
                  "review_only"}
ReturnStatus == {"submitted", "reviewed", "accepted", "rejected",
                 "needs_followup"}
WriteOwnershipModes == {"full_transfer", "temporary_execution"}
ReadOnlyOwnershipModes == {"read_only_assist", "review_only"}

HandoffRequest == [to_agent_id : BOOLEAN, target_role : BOOLEAN,
                   handoff_type : HandoffType, acceptance_criteria : BOOLEAN]
OwnershipRecord == [ownership_mode : OwnershipMode,
                    writer : AgentId \cup {NoAgent}]
ReturnPayload == [return_id : ReturnId, return_status : ReturnStatus]
ReturnReview == [return_id : ReturnId, decision : ReturnStatus]

Optional(S) == {x \in SUBSET S : \A a, b \in x : a = b}

Envelope == [request : HandoffRequest, ownership : Optional(OwnershipRecord),
             returned : Optional(ReturnPayload), review : Optional(ReturnReview)]

-----------------------------------------------------------------------------
(* The validators of a record. *)

ValidateTarget(r) == r.to_agent_id \/ r.target_role

AcceptanceCriteriaGiven(r) == r.acceptance_criteria

ValidateWriteOwnership(o) ==
    o.ownership_mode \in WriteOwnershipModes => o.writer # NoAgent

ValidateReadOnlyAssist(o) ==
    o.ownership_mode = "read_only_assist" => o.writer = NoAgent

ValidateReviewOnly(o) ==
    o.ownership_mode = "review_only" => o.writer = NoAgent

Accepts(e) ==
    /\ ValidateTarget(e.request)
    /\ AcceptanceCriteriaGiven(e.request)
    /\ \A o \in e.ownership : /\ ValidateWriteOwnership(o)
                              /\ ValidateReadOnlyAssist(o)
                              /\ ValidateReviewOnly(o)

-----------------------------------------------------------------------------
(* What an accepted envelope promises. *)

(* Whoever reads the mode of ownership knows whether somebody may write:   *)
(* exactly one agent in a mode that transfers the work, nobody in one that *)
(* assists or reviews.                                                     *)
GoAheadIsBacked(e) ==
    \A o \in e.ownership :
        o.writer \in AgentId <=> o.ownership_mode \notin ReadOnlyOwnershipModes

(* Work under way can be returned and reviewed, and ownership taken back:  *)
(* to the writer for good, or to nobody for a review.                      *)
ProgressIsAccepted(e) ==
    /\ \A p \in ReturnPayload, v \in ReturnReview :
          Accepts([e EXCEPT !.returned = {p}, !.review = {v}])
    /\ \A o \in e.ownership :
          /\ o.writer \in AgentId =>
                Accepts([e EXCEPT !.ownership =
                            {[o EXCEPT !.ownership_mode = "full_transfer"]}])
          /\ Accepts([e EXCEPT !.ownership =
                         {[ownership_mode |-> "review_only", writer |-> NoAgent]}])
=============================================================================
