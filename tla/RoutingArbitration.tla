--------------------------- MODULE RoutingArbitration ---------------------------
(***************************************************************************)
(* models/routing_arbitration_contract.py: the candidates for a route, the *)
(* decision, the arbitration between them, and the fallback.  Accepts(e)   *)
(* says whether an envelope with the parts e can be constructed;           *)
(* conventions as in ClarificationResolution.  Scores, constraints, the    *)
(* fallback's and the arbitration's candidates are compared with nothing,  *)
(* and the rules on verification and on a dispatched decision have no      *)
(* effect.  The identifier of a selected candidate is the one that no      *)
(* validator keeps from being empty text: Blank is told apart from NoRoute *)
(* (None), because one rule asks "is None" and the next asks for its truth.*)
(***************************************************************************)
EXTENDS Sequences, Naturals

CONSTANTS CandidateId, NoRoute, Blank

DecisionStatus == {"draft", "evaluated", "selected", "dispatched", "rerouted",
                   "rejected", "blocked"}

Choice == CandidateId \cup {NoRoute, Blank}
RoutingDecision == [selected_candidate_id : Choice, status : DecisionStatus,
                    reason : BOOLEAN]
Arbitration == [competing : Seq(CandidateId), selected_candidate_id : Choice,
                tie_break_reason : BOOLEAN]

Optional(S) == {x \in SUBSET S : \A a, b \in x : a = b}

Envelope == [candidates : SUBSET CandidateId,
             decision : Optional(RoutingDecision),
             arbitration : Optional(Arbitration), fallback : BOOLEAN]

-----------------------------------------------------------------------------
(* The validators of a record. *)

SelectedHasCandidate(d) ==
    d.status \in {"selected", "dispatched"} => d.selected_candidate_id # NoRoute

BlockedOrNoRouteNeedsReason(d) == d.status \in {"blocked", "rejected"} => d.reason

RequiresAtLeastTwoCompeting(a) == Len(a.competing) >= 2

TieBreakNeedsReason(a) ==
    a.selected_candidate_id \notin {NoRoute, Blank} => a.tie_break_reason

(* The validators of the envelope. *)

AtLeastOneCandidateUnlessNoRoute(e) ==
    e.candidates = {} => \E d \in e.decision : d.status = "blocked"

SelectedCandidateMustExist(e) ==
    \A d \in e.decision :
        d.selected_candidate_id \notin {NoRoute, Blank} =>
            d.selected_candidate_id \in e.candidates

FallbackRequiresDecision(e) == e.fallback => e.decision # {}

Accepts(e) ==
    /\ \A d \in e.decision : /\ SelectedHasCandidate(d)
                             /\ BlockedOrNoRouteNeedsReason(d)
    /\ \A a \in e.arbitration : /\ RequiresAtLeastTwoCompeting(a)
                                /\ TieBreakNeedsReason(a)
    /\ AtLeastOneCandidateUnlessNoRoute(e)
    /\ SelectedCandidateMustExist(e)
    /\ FallbackRequiresDecision(e)

-----------------------------------------------------------------------------
(* What an accepted envelope promises. *)

(* A candidate that is named as selected was a candidate.                  *)
ReferencesResolve(e) ==
    \A d \in e.decision :
        d.selected_candidate_id \in CandidateId \ {NoRoute, Blank} =>
            d.selected_candidate_id \in e.candidates

(* A route that is taken leads to a candidate that was offered, unless the *)
(* decision names the empty text; without candidates nothing is taken.     *)
GoAheadIsBacked(e) ==
    \A d \in e.decision :
        /\ d.status \in {"selected", "dispatched"} =>
              d.selected_candidate_id \in e.candidates \cup {Blank}
        /\ e.candidates = {} => d.status = "blocked"

(* Whoever finds nothing to route to says why.                             *)
BadNewsIsKept(e) ==
    e.candidates = {} => \E d \in e.decision : d.status = "blocked" /\ d.reason

(* Any candidate can be selected and then dispatched, more candidates can  *)
(* turn up, and routing can always be given up.                            *)
Decided(e, choice, status) ==
    [e EXCEPT !.decision = {[selected_candidate_id |-> choice,
                             status |-> status, reason |-> TRUE]}]

ProgressIsAccepted(e) ==
    /\ \A c \in e.candidates : \A status \in {"selected", "dispatched"} :
          Accepts(Decided(e, c, status))
    /\ \A c \in CandidateId : Accepts([e EXCEPT !.candidates = @ \cup {c}])
    /\ Accepts(Decided(e, NoRoute, "blocked"))
=============================================================================
