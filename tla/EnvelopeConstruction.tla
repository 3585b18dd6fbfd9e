------------------------- MODULE EnvelopeConstruction -------------------------
(***************************************************************************)
(* The contracts of models/ are pydantic models: a client builds an        *)
(* envelope from parts, and the validators either let it exist or raise.   *)
(* Each contract has a module that says what its validators accept.  Here  *)
(* a client constructs one envelope at a time out of the parts it may      *)
(* offer, of any contract, and lets it go again; "refused" stands for the  *)
(* ValidationError.                                                        *)
(*                                                                         *)
(* The properties hold of every envelope that exists, of any contract:     *)
(* they are what the rest of a harness may rely on when it is handed one.  *)
(***************************************************************************)
EXTENDS Naturals

CONSTANTS
    Nothing,        \* no envelope is held
    Refused         \* the construction raised

CONSTANTS GapId, QuestionId, OfferedClarifications
CONSTANTS CriterionId, CheckId, NoRef, OfferedAcceptances
CONSTANTS BudgetId, LineId, NaN, OfferedBudgets
CONSTANTS NodeId, EdgeId, GraphId, NoNode, OfferedGraphs
CONSTANTS BranchId, NoCount, OfferedParallelWork
CONSTANTS ReturnId, OfferedDelegations

VARIABLE held       \* the envelope the client holds, and its contract

Clarification == INSTANCE ClarificationResolution
Acceptance == INSTANCE AcceptanceDone
Budget == INSTANCE ExecutionBudget
Session == INSTANCE SessionGraph
Parallel == INSTANCE ParallelWorkJoin
Delegation == INSTANCE SupervisorDelegate

ASSUME OfferedAssumption ==
    /\ OfferedClarifications \subseteq Clarification!Envelope
    /\ OfferedAcceptances \subseteq Acceptance!Envelope
    /\ OfferedBudgets \subseteq Budget!Envelope
    /\ OfferedGraphs \subseteq Session!Graph
    /\ OfferedParallelWork \subseteq Parallel!Envelope
    /\ OfferedDelegations \subseteq Delegation!Envelope

Envelope(contract, e) == [contract |-> contract, envelope |-> e]

-----------------------------------------------------------------------------
ConstructInit == held = Envelope("none", Nothing)

Empty == held.contract = "none"

(* The parts are valid and the envelope exists, or nothing does.           *)
Construct(contract, e, accepted) ==
    held' = IF accepted THEN Envelope(contract, e) ELSE Envelope("none", Refused)

BuildClarification ==
    /\ Empty
    /\ \E e \in OfferedClarifications :
          Construct("clarification", e, Clarification!Accepts(e))

BuildAcceptance ==
    /\ Empty
    /\ \E e \in OfferedAcceptances :
          Construct("acceptance", e, Acceptance!Accepts(e))

BuildBudget ==
    /\ Empty
    /\ \E e \in OfferedBudgets : Construct("budget", e, Budget!Accepts(e))

BuildGraph ==
    /\ Empty
    /\ \E g \in OfferedGraphs : Construct("session_graph", g, Session!Accepts(g))

BuildParallelWork ==
    /\ Empty
    /\ \E e \in OfferedParallelWork :
          Construct("parallel_join", e, Parallel!Accepts(e))

BuildDelegation ==
    /\ Empty
    /\ \E e \in OfferedDelegations :
          Construct("delegation", e, Delegation!Accepts(e))

LetGo == ~Empty /\ held' = Envelope("none", Nothing)

ConstructNext ==
    \/ BuildClarification \/ BuildAcceptance \/ BuildBudget
    \/ BuildGraph \/ BuildParallelWork \/ BuildDelegation
    \/ LetGo

ConstructSpec == ConstructInit /\ [][ConstructNext]_held

-----------------------------------------------------------------------------
(* Holds(c, P) says that the held envelope, if it is of contract c, has P. *)
Holds(contract, P(_)) == held.contract = contract => P(held.envelope)

(* The references the documents say are checked find what they name, in    *)
(* every existing envelope: the validators check them list by list, and a  *)
(* chain of references (a session's question, the gap it is about) must    *)
(* not break at a list that was checked against the wrong one.  What a     *)
(* checkpoint captured, the done nodes of branches and joins, the terminal *)
(* nodes of the metadata, the branches a join requires and a review        *)
(* without a return are not among them.                                    *)
CheckedReferencesResolve ==
    /\ Holds("clarification", Clarification!CheckedReferencesResolve)
    /\ Holds("acceptance", Acceptance!CheckedReferencesResolve)
    /\ Holds("budget", Budget!CheckedReferencesResolve)
    /\ Holds("session_graph", Session!CheckedReferencesResolve)
    /\ Holds("parallel_join", Parallel!CheckedReferencesResolve)

(* A decision to go ahead (with a task that has gaps, with a release, with *)
(* what a delegate returned) rests on something recorded in the envelope.  *)
GoAheadIsBacked ==
    /\ Holds("clarification", Clarification!GoAheadIsBacked)
    /\ Holds("acceptance", Acceptance!GoAheadIsBacked)
    /\ Holds("delegation", Delegation!GoAheadIsBacked)

(* The validators never refuse the next version of an envelope that only   *)
(* records progress the documents allow: no legal envelope is a dead end   *)
(* for its work.                                                           *)
ProgressIsAccepted ==
    /\ Holds("clarification", Clarification!ProgressIsAccepted)
    /\ Holds("acceptance", Acceptance!ProgressIsAccepted)
    /\ Holds("budget", Budget!ProgressIsAccepted)
    /\ Holds("session_graph", Session!ProgressIsAccepted)
    /\ Holds("parallel_join", Parallel!ProgressIsAccepted)
    /\ Holds("delegation", Delegation!ProgressIsAccepted)

(* The runtime check of a parallel join repeats rules of its constructor   *)
(* in other words; it passes every envelope the constructor let through.   *)
RecheckAgrees == Holds("parallel_join", Parallel!RecheckAgrees)

-----------------------------------------------------------------------------
(* What documents say of an accepted envelope and the code does not keep.  *)

(* "NaN/Inf amounts rejected" (budget/PROTOCOL.md:18).                      *)
AmountsAreNumbers == Holds("budget", Budget!AmountsAreNumbers)

(* "wait_for_all requires all required branches to complete before merge"   *)
(* (parallel/PARALLEL.md:91).                                              *)
MergeWaitsForAll == Holds("parallel_join", Parallel!MergeWaitsForAll)

(* "RETURN SUBMITTED", then "SUPERVISOR REVIEWS"                            *)
(* (primitives/lavish-axi-p46.html:321-322).                               *)
ReviewsFollowReturns == Holds("delegation", Delegation!ReviewsFollowReturns)

(* "Checkpoints capture active/waiting/blocked nodes for recovery"          *)
(* (graphs/SESSION_GRAPH.md:38).                                           *)
CheckpointsCaptureNodes == Holds("session_graph", Session!CheckpointsCaptureNodes)
=============================================================================
