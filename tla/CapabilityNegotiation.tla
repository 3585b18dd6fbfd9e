------------------------- MODULE CapabilityNegotiation -------------------------
(***************************************************************************)
(* models/capability_negotiation_contract.py: what one party requires of   *)
(* another, how the two compare, the gaps that were found and the decision *)
(* what to do.  Accepts(e) says whether an envelope with the parts e can   *)
(* be constructed; conventions as in ClarificationResolution.  The         *)
(* negotiated set, and the identifiers that tie the parts to one           *)
(* evaluation, are read by no rule.  A requirement is a record of its own  *)
(* that no envelope holds.                                                 *)
(*                                                                         *)
(* Versions are text, and a range of versions is compared as text: Text(v) *)
(* is the decimal form of the number v < 100 that stands for a version.    *)
(***************************************************************************)
EXTENDS Naturals, Sequences

CONSTANTS RequirementId, GapId

CompatibilityStatus == {"compatible", "partially_compatible", "incompatible",
                        "unknown"}
NegotiationDisposition == {"proceed", "proceed_with_fallbacks", "reroute",
                           "reject", "escalate"}

Version == 0..99
Text(v) == IF v < 10 THEN <<v>> ELSE <<v \div 10, v % 10>>
TextGreater(s, t) ==
    \/ \E i \in (DOMAIN s) \cap (DOMAIN t) :
          s[i] > t[i] /\ \A j \in 1..(i - 1) : s[j] = t[j]
    \/ Len(s) > Len(t) /\ \A j \in DOMAIN t : s[j] = t[j]

Requirement == [minimum_version : Version, maximum_version : Version]
Evaluation == [compatibility_status : CompatibilityStatus,
               unmatched_requirement_ids : SUBSET RequirementId]
Gap == [gap_id : GapId, blocking : BOOLEAN]
Decision == [disposition : NegotiationDisposition, reason : BOOLEAN,
             selected_fallbacks : BOOLEAN, approved_override_ref : BOOLEAN]

Optional(S) == {x \in SUBSET S : \A a, b \in x : a = b}

Envelope == [evaluation : Evaluation, gaps : SUBSET Gap,
             decision : Optional(Decision)]

-----------------------------------------------------------------------------
(* The validators of a record. *)

\* mutant
VersionConstraintsDiffer(q) ==
    /\ ~TextGreater(Text(q.minimum_version), Text(q.maximum_version))
    /\ q.minimum_version # q.maximum_version

VersionConstraintsCoherent(q) ==
    ~TextGreater(Text(q.minimum_version), Text(q.maximum_version))

CompatibleRequiresNoUnmatchedRequired(v) ==
    v.compatibility_status = "compatible" => v.unmatched_requirement_ids = {}

IncompatibleMustHaveUnmatched(v) ==
    v.compatibility_status = "incompatible" => v.unmatched_requirement_ids # {}

ProceedWithFallbacksRequiresFallbacks(d) ==
    d.disposition = "proceed_with_fallbacks" => d.selected_fallbacks

RerouteOrRejectRequiresReason(d) ==
    d.disposition \in {"reroute", "reject"} => d.reason

(* The validators of the envelope. *)

IncompatibleNoProceedWithoutOverride(e) ==
    e.evaluation.compatibility_status = "incompatible" =>
        \A d \in e.decision : d.disposition = "proceed" => d.approved_override_ref

ProceedWithFallbacksNeedsGaps(e) ==
    \A d \in e.decision :
        d.disposition = "proceed_with_fallbacks" => e.gaps # {}

Accepts(e) ==
    /\ CompatibleRequiresNoUnmatchedRequired(e.evaluation)
    /\ IncompatibleMustHaveUnmatched(e.evaluation)
    /\ \A d \in e.decision : /\ ProceedWithFallbacksRequiresFallbacks(d)
                             /\ RerouteOrRejectRequiresReason(d)
    /\ IncompatibleNoProceedWithoutOverride(e)
    /\ ProceedWithFallbacksNeedsGaps(e)

-----------------------------------------------------------------------------
(* What an accepted envelope promises. *)

(* Work that goes ahead although the evaluation found a party incompatible *)
(* rests on an override, or on fallbacks for gaps that are on record.      *)
GoAheadIsBacked(e) ==
    \A d \in e.decision :
        (/\ d.disposition \in {"proceed", "proceed_with_fallbacks"}
         /\ e.evaluation.compatibility_status = "incompatible")
            => \/ d.approved_override_ref
               \/ d.selected_fallbacks /\ e.gaps # {}

(* A verdict agrees with what it is a verdict on.                          *)
BadNewsIsKept(e) ==
    /\ e.evaluation.unmatched_requirement_ids # {} =>
          e.evaluation.compatibility_status # "compatible"
    /\ e.evaluation.compatibility_status = "incompatible" =>
          e.evaluation.unmatched_requirement_ids # {}

(* One more gap can always be recorded, every requirement can come to be   *)
(* matched, and the negotiation can always be given up or handed on.       *)
ProgressIsAccepted(e) ==
    /\ \A g \in Gap : Accepts([e EXCEPT !.gaps = @ \cup {g}])
    /\ Accepts([e EXCEPT !.evaluation =
          [compatibility_status |-> "compatible",
           unmatched_requirement_ids |-> {}]])
    /\ \A disposition \in {"reroute", "reject", "escalate"} :
          Accepts([e EXCEPT !.decision =
             {[disposition |-> disposition, reason |-> TRUE,
               selected_fallbacks |-> FALSE, approved_override_ref |-> FALSE]}])

(* "Version constraints must be coherent (min <= max)"                     *)
(* (capabilities/CAPABILITIES.md:53): a requirement that is refused asks   *)
(* for a maximum below its minimum.                                        *)
RefusedRangeIsEmpty(q) == q.minimum_version > q.maximum_version

(* When the text misleads: one version has two digits, the other has one   *)
(* that is greater than the first of the two.                              *)
DigitsMislead(q) ==
    LET lo == q.minimum_version
        hi == q.maximum_version
    IN  \/ lo < 10 /\ 10 <= hi /\ hi \div 10 < lo
        \/ hi < 10 /\ 10 <= lo /\ lo \div 10 < hi
=============================================================================
