---------------------- MODULE EnvelopeConstruction_proofs ----------------------
(***************************************************************************)
(* Theorems about the envelopes that exist, for all identifiers and        *)
(* whatever parts clients offer.                                           *)
(***************************************************************************)
EXTENDS EnvelopeConstruction, SequenceTheorems, TLAPS

(* The inductive invariant: what is held was offered and accepted.         *)
AcceptedOnly ==
    \/ \E x \in {Nothing, Refused} : held = Envelope("none", x)
    \/ \E e \in OfferedClarifications :
          held = Envelope("clarification", e) /\ Clarification!Accepts(e)
    \/ \E e \in OfferedAcceptances :
          held = Envelope("acceptance", e) /\ Acceptance!Accepts(e)
    \/ \E e \in OfferedBudgets : held = Envelope("budget", e) /\ Budget!Accepts(e)
    \/ \E g \in OfferedGraphs :
          held = Envelope("session_graph", g) /\ Session!Accepts(g)
    \/ \E e \in OfferedParallelWork :
          held = Envelope("parallel_join", e) /\ Parallel!Accepts(e)
    \/ \E e \in OfferedDelegations :
          held = Envelope("delegation", e) /\ Delegation!Accepts(e)

LEMMA AcceptedOnlyHolds == ConstructSpec => []AcceptedOnly
<1>1. ConstructInit => AcceptedOnly
  BY DEF ConstructInit, AcceptedOnly
<1>2. ASSUME AcceptedOnly, [ConstructNext]_held PROVE AcceptedOnly'
  <2>1. CASE BuildClarification
    BY <2>1 DEF BuildClarification, Construct, AcceptedOnly
  <2>2. CASE BuildAcceptance
    BY <2>2 DEF BuildAcceptance, Construct, AcceptedOnly
  <2>3. CASE BuildBudget
    BY <2>3 DEF BuildBudget, Construct, AcceptedOnly
  <2>4. CASE BuildGraph
    BY <2>4 DEF BuildGraph, Construct, AcceptedOnly
  <2>5. CASE BuildParallelWork
    BY <2>5 DEF BuildParallelWork, Construct, AcceptedOnly
  <2>6. CASE BuildDelegation
    BY <2>6 DEF BuildDelegation, Construct, AcceptedOnly
  <2>7. CASE LetGo
    BY <2>7 DEF LetGo, AcceptedOnly
  <2>8. CASE UNCHANGED held
    BY <1>2, <2>8 DEF AcceptedOnly
  <2> QED
    BY <1>2, <2>1, <2>2, <2>3, <2>4, <2>5, <2>6, <2>7, <2>8 DEF ConstructNext
<1> QED
  BY <1>1, <1>2, PTL DEF ConstructSpec

(* A held envelope of a contract was accepted by the validators of that    *)
(* contract and by no other.                                               *)
LEMMA HeldIsAccepted ==
    ASSUME AcceptedOnly
    PROVE  /\ held.contract = "clarification" =>
                 /\ held.envelope \in Clarification!Envelope
                 /\ Clarification!Accepts(held.envelope)
           /\ held.contract = "acceptance" =>
                 /\ held.envelope \in Acceptance!Envelope
                 /\ Acceptance!Accepts(held.envelope)
           /\ held.contract = "budget" =>
                 /\ held.envelope \in Budget!Envelope
                 /\ Budget!Accepts(held.envelope)
           /\ held.contract = "session_graph" =>
                 /\ held.envelope \in Session!Graph
                 /\ Session!Accepts(held.envelope)
           /\ held.contract = "parallel_join" =>
                 /\ held.envelope \in Parallel!Envelope
                 /\ Parallel!Accepts(held.envelope)
           /\ held.contract = "delegation" =>
                 /\ held.envelope \in Delegation!Envelope
                 /\ Delegation!Accepts(held.envelope)
BY OfferedAssumption DEF AcceptedOnly, Envelope

-----------------------------------------------------------------------------
(* What acceptance means, contract by contract. *)

LEMMA ClarificationIsSound ==
    ASSUME NEW e \in Clarification!Envelope, Clarification!Accepts(e)
    PROVE  Clarification!CheckedReferencesResolve(e) /\ Clarification!GoAheadIsBacked(e)
<1>1. Clarification!CheckedReferencesResolve(e)
  BY DEF Clarification!CheckedReferencesResolve, Clarification!Accepts,
         Clarification!Envelope, Clarification!ValidGapIds,
         Clarification!ValidQuestionIds,
         Clarification!QuestionsReferenceValidGaps,
         Clarification!RecordsReferenceValidGaps,
         Clarification!SessionQuestionsReferenceValidQuestions
<1>2. Clarification!GoAheadIsBacked(e)
  BY DEF Clarification!GoAheadIsBacked, Clarification!Accepts,
         Clarification!BlockingSeverityConsistency,
         Clarification!ResolvedStatusNeedsValueOrNotes,
         Clarification!ReadyToProceedNoUnresolvedBlockingGaps
<1> QED
  BY <1>1, <1>2

LEMMA AcceptanceIsSound ==
    ASSUME NEW e \in Acceptance!Envelope, Acceptance!Accepts(e)
    PROVE  Acceptance!CheckedReferencesResolve(e) /\ Acceptance!GoAheadIsBacked(e)
<1>1. Acceptance!CheckedReferencesResolve(e)
  BY DEF Acceptance!CheckedReferencesResolve, Acceptance!Accepts,
         Acceptance!EvidenceReferencesValidCriterionOrCheck
<1>2. Acceptance!GoAheadIsBacked(e)
  BY DEF Acceptance!GoAheadIsBacked, Acceptance!Accepts,
         Acceptance!AcceptedRequiresRequiredCriteriaAndChecks,
         Acceptance!ReleaseReadyRequiresPassedReleaseGates
<1> QED
  BY <1>1, <1>2

LEMMA BudgetIsSound ==
    ASSUME NEW e \in Budget!Envelope, Budget!Accepts(e)
    PROVE  Budget!CheckedReferencesResolve(e)
BY DEF Budget!CheckedReferencesResolve, Budget!Accepts, Budget!Charges,
       Budget!ChargesReferenceValidBudgetLines,
       Budget!BudgetLinesMatchEnvelopeBudgetId

LEMMA SessionIsSound ==
    ASSUME NEW g \in Session!Graph, Session!Accepts(g)
    PROVE  Session!CheckedReferencesResolve(g)
<1>1. Session!Mentioned(g) \subseteq Session!NodeIds(g)
  BY DEF Session!Mentioned, Session!Accepts, Session!ValidateIds,
         Session!NodesAreSound, Session!EdgesAreSound,
         Session!BranchesAreSound, Session!JoinsAreSound
<1>2. \A m, n \in g.nodes : m.node_id = n.node_id => m = n
  BY DEF Session!Accepts, Session!ValidateIds, Session!NodesAreSound
<1> QED
  BY <1>1, <1>2 DEF Session!CheckedReferencesResolve, Session!NodeIds

LEMMA ParallelIsSound ==
    ASSUME NEW e \in Parallel!Envelope, Parallel!Accepts(e)
    PROVE  Parallel!CheckedReferencesResolve(e)
<1>1. ASSUME NEW o \in e.branch_outputs
      PROVE  \E b \in e.branch_assignments :
                /\ b.branch_id = o.branch_id
                /\ \A x \in e.branch_assignments : x.branch_id = o.branch_id => x = b
  BY DEF Parallel!Accepts, Parallel!BranchIdsMustBeUnique,
         Parallel!OutputBranchIdsMustExist, Parallel!BranchIds
<1>2. ASSUME NEW c \in e.conflicts
      PROVE  \E i, j \in DOMAIN c.branch_ids :
                \E a, b \in e.branch_assignments :
                   /\ a # b
                   /\ a.branch_id = c.branch_ids[i] /\ b.branch_id = c.branch_ids[j]
  <2>1. c.branch_ids \in Seq(BranchId)
    BY DEF Parallel!Envelope, Parallel!BranchConflict
  <2>2. Len(c.branch_ids) >= 2 /\ Parallel!ConflictBranchIdsMustBeUnique(c)
    BY DEF Parallel!Accepts, Parallel!ConflictBranchIdsMustBeUnique
  <2>3. 1 \in DOMAIN c.branch_ids /\ 2 \in DOMAIN c.branch_ids
    BY <2>1, <2>2, LenProperties
  <2>4. c.branch_ids[1] # c.branch_ids[2]
    BY <2>2, <2>3 DEF Parallel!ConflictBranchIdsMustBeUnique
  <2>5. {c.branch_ids[1], c.branch_ids[2]} \subseteq
            {b.branch_id : b \in e.branch_assignments}
    BY <2>3 DEF Parallel!Accepts, Parallel!ConflictBranchIdsMustExist,
                Parallel!BranchIds
  <2>6. PICK a, b \in e.branch_assignments :
            a.branch_id = c.branch_ids[1] /\ b.branch_id = c.branch_ids[2]
    BY <2>5
  <2> QED
    BY <2>3, <2>4, <2>6
<1> QED
  BY <1>1, <1>2 DEF Parallel!CheckedReferencesResolve

LEMMA ParallelAgrees ==
    ASSUME NEW e \in Parallel!Envelope, Parallel!Accepts(e)
    PROVE  Parallel!RecheckAgrees(e)
<1> DEFINE count == e.join_requirements.required_completion_count
           n == Len(e.join_requirements.required_branch_ids)
<1>1. n \in Nat /\ count \in Int \cup {NoCount}
  BY LenProperties DEF Parallel!Envelope, Parallel!JoinRequirement
<1>2. Parallel!ValidateJoinRequirements(e)
  BY <1>1 DEF Parallel!Accepts, Parallel!ValidateJoinRequirementsField,
              Parallel!ValidateJoinRequirements
<1>3. Parallel!CheckMergeRequiresCompletedJoin(e)
  BY DEF Parallel!Accepts, Parallel!MergeRequiresCompletedOrPartialJoin,
         Parallel!CheckMergeRequiresCompletedJoin
<1> QED
  BY <1>2, <1>3 DEF Parallel!RecheckAgrees, Parallel!CheckAllEnvelopeRules

LEMMA DelegationIsSound ==
    ASSUME NEW e \in Delegation!Envelope, Delegation!Accepts(e)
    PROVE  Delegation!GoAheadIsBacked(e)
<1>1. ASSUME e.assignment.status \in Delegation!ReviewedStatuses
      PROVE  \E s \in e.review :
                \/ s.outputs_or_notes \/ s.retry_reason \/ s.reroute_reason
                \/ s.disposition \in {"escalate", "discard"}
  <2>1. PICK s \in e.review : TRUE
    BY <1>1 DEF Delegation!Accepts,
                Delegation!ReviewedStatusRequiresSupervisorReview
  <2>2. s \in Delegation!SupervisorReview
    BY <2>1 DEF Delegation!Envelope, Delegation!Optional
  <2>3. s.disposition \in Delegation!ReturnDisposition
    BY <2>2 DEF Delegation!SupervisorReview
  <2>4. /\ Delegation!AcceptRequiresOutputsOrNotes(s)
        /\ Delegation!RetryRequiresReason(s)
        /\ Delegation!RerouteRequiresReason(s)
    BY <2>1 DEF Delegation!Accepts
  <2> QED
    BY <2>1, <2>3, <2>4
       DEF Delegation!ReturnDisposition, Delegation!AcceptDispositions,
           Delegation!AcceptRequiresOutputsOrNotes,
           Delegation!RetryRequiresReason, Delegation!RerouteRequiresReason
<1> QED
  BY <1>1 DEF Delegation!GoAheadIsBacked

-----------------------------------------------------------------------------
(* Acceptance is kept by progress, contract by contract. *)

LEMMA SettlingIsAccepted ==
    ASSUME NEW e \in Clarification!Envelope, Clarification!Accepts(e),
           NEW id \in Clarification!ValidGapIds(e)
    PROVE  Clarification!Accepts(Clarification!Settled(e, id))
<1> DEFINE new == [gap_id |-> id, status |-> "resolved",
                   value |-> TRUE, notes |-> FALSE]
           f == Clarification!Settled(e, id)
<1>1. /\ f.field_resolutions = e.field_resolutions \cup {new}
      /\ f.gaps = e.gaps /\ f.questions = e.questions
      /\ f.attempts = e.attempts /\ f.policies = e.policies
      /\ f.session = e.session /\ f.decision = e.decision
  BY DEF Clarification!Settled, Clarification!Envelope
<1>2. Clarification!ResolvedStatusNeedsValueOrNotes(new)
  BY DEF Clarification!ResolvedStatusNeedsValueOrNotes
<1>3. Clarification!RecordsReferenceValidGaps(f)
  BY <1>1 DEF Clarification!Accepts, Clarification!RecordsReferenceValidGaps,
              Clarification!ValidGapIds
<1>4. Clarification!ReadyToProceedNoUnresolvedBlockingGaps(f)
  BY <1>1 DEF Clarification!Accepts,
              Clarification!ReadyToProceedNoUnresolvedBlockingGaps
<1>5. /\ Clarification!QuestionsReferenceValidGaps(f)
      /\ Clarification!SessionQuestionsReferenceValidQuestions(f)
      /\ Clarification!AwaitingResponseNeedsOpenQuestions(f)
  BY <1>1 DEF Clarification!Accepts, Clarification!QuestionsReferenceValidGaps,
              Clarification!ValidGapIds, Clarification!ValidQuestionIds,
              Clarification!SessionQuestionsReferenceValidQuestions,
              Clarification!AwaitingResponseNeedsOpenQuestions
<1> HIDE DEF f, new
<1>6. Clarification!Accepts(f)
  BY <1>1, <1>2, <1>3, <1>4, <1>5 DEF Clarification!Accepts
<1> QED
  BY <1>6 DEF f

LEMMA AnsweringIsAccepted ==
    ASSUME NEW e \in Clarification!Envelope, Clarification!Accepts(e),
           NEW q \in e.session.active_question_ids,
           \/ e.decision.disposition # "awaiting_response"
           \/ e.session.active_question_ids # {q}
    PROVE  Clarification!Accepts(Clarification!Answered(e, q))
<1> DEFINE f == Clarification!Answered(e, q)
<1>1. /\ f.gaps = e.gaps /\ f.questions = e.questions
      /\ f.attempts = e.attempts /\ f.policies = e.policies
      /\ f.field_resolutions = e.field_resolutions /\ f.decision = e.decision
  BY DEF Clarification!Answered, Clarification!Envelope
<1>2. /\ f.session.active_question_ids = e.session.active_question_ids \ {q}
      /\ f.session.completed_question_ids =
            e.session.completed_question_ids \cup {q}
      /\ f.session.related_gap_ids = e.session.related_gap_ids
  BY DEF Clarification!Answered, Clarification!Envelope, Clarification!Session
<1> HIDE DEF f
<1>3. /\ Clarification!NoOverlapInQuestionIds(f.session)
      /\ Clarification!SessionQuestionsReferenceValidQuestions(f)
      /\ Clarification!AwaitingResponseNeedsOpenQuestions(f)
  BY <1>1, <1>2 DEF Clarification!Accepts, Clarification!NoOverlapInQuestionIds,
              Clarification!ValidQuestionIds,
              Clarification!SessionQuestionsReferenceValidQuestions,
              Clarification!AwaitingResponseNeedsOpenQuestions
<1>4. /\ Clarification!QuestionsReferenceValidGaps(f)
      /\ Clarification!RecordsReferenceValidGaps(f)
      /\ Clarification!ReadyToProceedNoUnresolvedBlockingGaps(f)
  BY <1>1, <1>2 DEF Clarification!Accepts,
              Clarification!QuestionsReferenceValidGaps,
              Clarification!RecordsReferenceValidGaps,
              Clarification!ValidGapIds,
              Clarification!ReadyToProceedNoUnresolvedBlockingGaps
<1>5. Clarification!Accepts(f)
  BY <1>1, <1>3, <1>4 DEF Clarification!Accepts
<1> QED
  BY <1>5 DEF f

LEMMA AchievingIsAccepted ==
    ASSUME NEW e \in Acceptance!Envelope, Acceptance!Accepts(e)
    PROVE  Acceptance!ProgressIsAccepted(e)
<1>1. ASSUME NEW c \in e.criteria PROVE Acceptance!Accepts(Acceptance!Met(e, c))
  <2> DEFINE f == Acceptance!Met(e, c)
             d == [c EXCEPT !.status = "met"]
  <2>1. c \in Acceptance!AcceptanceCriterion
    BY DEF Acceptance!Envelope
  <2>2. /\ d.status = "met" /\ d.criterion_id = c.criterion_id
        /\ d.required = c.required
    BY <2>1 DEF Acceptance!AcceptanceCriterion
  <2>3. /\ f.criteria = (e.criteria \ {c}) \cup {d} /\ f.checks = e.checks
        /\ f.evidence = e.evidence /\ f.decision = e.decision
    BY DEF Acceptance!Met, Acceptance!Envelope
  <2> HIDE DEF f, d
  <2>4. Acceptance!EvidenceReferencesValidCriterionOrCheck(f)
    <3>1. {x.criterion_id : x \in f.criteria} = {x.criterion_id : x \in e.criteria}
      BY <2>2, <2>3
    <3> QED
      BY <2>3, <3>1 DEF Acceptance!Accepts,
                        Acceptance!EvidenceReferencesValidCriterionOrCheck
  <2>5. Acceptance!RequiredNotWaivedWithoutNotes(d)
    BY <2>2 DEF Acceptance!RequiredNotWaivedWithoutNotes
  <2>6. Acceptance!AcceptedRequiresRequiredCriteriaAndChecks(f)
    BY <2>2, <2>3 DEF Acceptance!Accepts,
                      Acceptance!AcceptedRequiresRequiredCriteriaAndChecks
  <2>7. /\ Acceptance!AcceptedWithCaveatsRequiresActions(f)
        /\ Acceptance!ReleaseReadyRequiresPassedReleaseGates(f)
    BY <2>3 DEF Acceptance!Accepts,
                Acceptance!AcceptedWithCaveatsRequiresActions,
                Acceptance!ReleaseReadyRequiresPassedReleaseGates
  <2>8. Acceptance!Accepts(f)
    BY <2>3, <2>4, <2>5, <2>6, <2>7 DEF Acceptance!Accepts
  <2> QED
    BY <2>8 DEF f, d
<1>2. ASSUME NEW k \in e.checks PROVE Acceptance!Accepts(Acceptance!Passed(e, k))
  <2> DEFINE f == Acceptance!Passed(e, k)
             d == [k EXCEPT !.status = "passed"]
  <2>1. k \in Acceptance!DoneCheck
    BY DEF Acceptance!Envelope
  <2>2. /\ d.status = "passed" /\ d.done_check_id = k.done_check_id
        /\ d.required = k.required /\ d.type = k.type
    BY <2>1 DEF Acceptance!DoneCheck
  <2>3. /\ f.checks = (e.checks \ {k}) \cup {d} /\ f.criteria = e.criteria
        /\ f.evidence = e.evidence /\ f.decision = e.decision
    BY DEF Acceptance!Passed, Acceptance!Envelope
  <2> HIDE DEF f, d
  <2>4. Acceptance!EvidenceReferencesValidCriterionOrCheck(f)
    <3>1. {x.done_check_id : x \in f.checks} = {x.done_check_id : x \in e.checks}
      BY <2>2, <2>3
    <3> QED
      BY <2>3, <3>1 DEF Acceptance!Accepts,
                        Acceptance!EvidenceReferencesValidCriterionOrCheck
  <2>5. Acceptance!RequiredNotWaivedWithoutNotes(d)
    BY <2>2 DEF Acceptance!RequiredNotWaivedWithoutNotes
  <2>6. Acceptance!AcceptedRequiresRequiredCriteriaAndChecks(f)
    BY <2>2, <2>3 DEF Acceptance!Accepts,
                      Acceptance!AcceptedRequiresRequiredCriteriaAndChecks
  <2>7. /\ Acceptance!AcceptedWithCaveatsRequiresActions(f)
        /\ Acceptance!ReleaseReadyRequiresPassedReleaseGates(f)
    BY <2>2, <2>3 DEF Acceptance!Accepts,
                Acceptance!AcceptedWithCaveatsRequiresActions,
                Acceptance!ReleaseReadyRequiresPassedReleaseGates
  <2>8. Acceptance!Accepts(f)
    BY <2>3, <2>4, <2>5, <2>6, <2>7 DEF Acceptance!Accepts
  <2> QED
    BY <2>8 DEF f, d
<1> QED
  BY <1>1, <1>2 DEF Acceptance!ProgressIsAccepted

LEMMA UsingIsAccepted ==
    ASSUME NEW e \in Budget!Envelope, Budget!Accepts(e),
           NEW l \in e.budget_lines, l.reserved > 0
    PROVE  Budget!Accepts(Budget!Used(e, l))
<1> DEFINE f == Budget!Used(e, l)
           m == [l EXCEPT !.reserved = @ - 1, !.consumed = @ + 1]
           u == [budget_line_id |-> l.budget_line_id]
<1>1. l \in Budget!BudgetLine
  BY DEF Budget!Envelope
<1>2. /\ m.budget_line_id = l.budget_line_id /\ m.budget_id = l.budget_id
      /\ m.allocated = l.allocated /\ m.remaining = l.remaining
      /\ m.reserved = l.reserved - 1 /\ m.consumed = l.consumed + 1
      /\ l.allocated \in Nat /\ l.reserved \in Nat /\ l.consumed \in Nat
  BY <1>1 DEF Budget!BudgetLine
<1>3. /\ f.budget_lines = (e.budget_lines \ {l}) \cup {m}
      /\ f.usage_records = e.usage_records \cup {u}
      /\ f.budget_id = e.budget_id /\ f.reservations = e.reservations
      /\ f.threshold_policies = e.threshold_policies
      /\ f.alerts = e.alerts /\ f.decisions = e.decisions
  BY DEF Budget!Used, Budget!Envelope
<1> HIDE DEF f, m
<1>4. Budget!RemainingMustBeConsistent(m)
  BY <1>2 DEF Budget!Accepts, Budget!RemainingMustBeConsistent
<1>5. {x.budget_line_id : x \in f.budget_lines} =
          {x.budget_line_id : x \in e.budget_lines}
  BY <1>2, <1>3
<1>6. Budget!ChargesReferenceValidBudgetLines(f)
  BY <1>3, <1>5 DEF Budget!Accepts, Budget!Charges,
                    Budget!ChargesReferenceValidBudgetLines
<1>7. /\ Budget!BudgetLinesMatchEnvelopeBudgetId(f)
      /\ Budget!DecisionsReferenceValidBudget(f)
  BY <1>2, <1>3 DEF Budget!Accepts, Budget!BudgetLinesMatchEnvelopeBudgetId,
                    Budget!DecisionsReferenceValidBudget
<1>8. Budget!Accepts(f)
  BY <1>3, <1>4, <1>6, <1>7 DEF Budget!Accepts
<1> QED
  BY <1>8 DEF f

LEMMA GrowingIsAccepted ==
    ASSUME NEW g \in Session!Graph, Session!Accepts(g),
           NEW parent \in Session!NodeIds(g),
           NEW id \in NodeId \ Session!NodeIds(g),
           NEW edge \in EdgeId \ {x.edge_id : x \in g.edges}
    PROVE  Session!Accepts(Session!Grown(g, parent, id, edge))
<1> DEFINE f == Session!Grown(g, parent, id, edge)
           n == [node_id |-> id, node_type |-> "step", parent |-> parent]
           d == [edge_id |-> edge, from |-> parent, to |-> id]
<1>1. /\ f.nodes = g.nodes \cup {n} /\ f.edges = g.edges \cup {d}
      /\ f.metadata = g.metadata /\ f.branches = g.branches
      /\ f.joins = g.joins /\ f.checkpoints = g.checkpoints
  BY DEF Session!Grown, Session!Graph
<1> HIDE DEF f
<1>2. Session!NodeIds(f) = Session!NodeIds(g) \cup {id}
  <2>1. n.node_id = id
    OBVIOUS
  <2> HIDE DEF n
  <2>2. \A x : x \in Session!NodeIds(f) <=>
                  x \in Session!NodeIds(g) \/ x = id
    BY <1>1, <2>1 DEF Session!NodeIds
  <2> QED
    BY <2>2
<1>3. Session!NodesAreSound(f)
  <2>1. \A x, y \in f.nodes : x.node_id = y.node_id => x = y
    BY <1>1 DEF Session!Accepts, Session!ValidateIds, Session!NodesAreSound,
                Session!NodeIds
  <2>2. {x.parent : x \in f.nodes} \subseteq Session!NodeIds(f) \cup {NoNode}
    BY <1>1, <1>2 DEF Session!Accepts, Session!ValidateIds,
                      Session!NodesAreSound
  <2> QED
    BY <2>1, <2>2 DEF Session!NodesAreSound
<1>4. Session!EdgesAreSound(f)
  BY <1>1, <1>2 DEF Session!Accepts, Session!ValidateIds, Session!EdgesAreSound
<1>5. /\ Session!BranchesAreSound(f)
      /\ Session!JoinsAreSound(f)
      /\ \E x \in f.nodes : x.node_type = "terminal_node"
      /\ f.metadata.entry \in Session!NodeIds(f)
      /\ \A c \in f.checkpoints : c.graph_id = f.metadata.graph_id
  BY <1>1, <1>2 DEF Session!Accepts, Session!ValidateIds,
                    Session!BranchesAreSound, Session!JoinsAreSound
<1>6. Session!Accepts(f)
  BY <1>1, <1>3, <1>4, <1>5 DEF Session!Accepts, Session!ValidateIds
<1> QED
  BY <1>6 DEF f

LEMMA ParallelProgress ==
    ASSUME NEW e \in Parallel!Envelope, Parallel!Accepts(e)
    PROVE  Parallel!ProgressIsAccepted(e)
<1>1. ASSUME NEW b \in Parallel!BranchIds(e), NEW s
      PROVE  Parallel!Accepts([e EXCEPT !.branch_outputs =
                                 @ \cup {[branch_id |-> b, status |-> s]}])
  <2> DEFINE o == [branch_id |-> b, status |-> s]
             f == [e EXCEPT !.branch_outputs = @ \cup {o}]
  <2>1. /\ f.branch_outputs = e.branch_outputs \cup {o} /\ o.branch_id = b
        /\ f.parallel_request = e.parallel_request
        /\ f.branch_assignments = e.branch_assignments
        /\ f.conflicts = e.conflicts
        /\ f.join_requirements = e.join_requirements
        /\ f.join_execution = e.join_execution /\ f.merge_result = e.merge_result
    BY DEF Parallel!Envelope
  <2> HIDE DEF f, o
  <2>2. Parallel!OutputBranchIdsMustExist(f)
    BY <2>1 DEF Parallel!Accepts, Parallel!OutputBranchIdsMustExist,
                Parallel!BranchIds
  <2>3. /\ Parallel!BranchIdsMustBeUnique(f)
        /\ Parallel!ConflictBranchIdsMustExist(f)
        /\ Parallel!ValidateJoinRequirementsField(f)
        /\ Parallel!MergeRequiresCompletedOrPartialJoin(f)
    BY <2>1 DEF Parallel!Accepts, Parallel!BranchIdsMustBeUnique,
                Parallel!ConflictBranchIdsMustExist, Parallel!BranchIds,
                Parallel!ValidateJoinRequirementsField,
                Parallel!MergeRequiresCompletedOrPartialJoin
  <2>4. Parallel!Accepts(f)
    BY <2>1, <2>2, <2>3 DEF Parallel!Accepts
  <2> QED
    BY <2>4 DEF f, o
<1>2. ASSUME NEW a \in Parallel!BranchIds(e), NEW b \in Parallel!BranchIds(e),
             a # b
      PROVE  Parallel!Accepts([e EXCEPT !.conflicts =
                                 @ \cup {[branch_ids |-> <<a, b>>]}])
  <2> DEFINE c == [branch_ids |-> <<a, b>>]
             f == [e EXCEPT !.conflicts = @ \cup {c}]
  <2>1. /\ f.conflicts = e.conflicts \cup {c}
        /\ f.branch_outputs = e.branch_outputs
        /\ f.parallel_request = e.parallel_request
        /\ f.branch_assignments = e.branch_assignments
        /\ f.join_requirements = e.join_requirements
        /\ f.join_execution = e.join_execution /\ f.merge_result = e.merge_result
    BY DEF Parallel!Envelope
  <2>2. /\ Len(c.branch_ids) = 2 /\ DOMAIN c.branch_ids = {1, 2}
        /\ c.branch_ids[1] = a /\ c.branch_ids[2] = b
    OBVIOUS
  <2> HIDE DEF f, c
  <2>3. Parallel!ConflictBranchIdsMustBeUnique(c)
    BY <1>2, <2>2 DEF Parallel!ConflictBranchIdsMustBeUnique
  <2>4. Parallel!ConflictBranchIdsMustExist(f)
    BY <2>1, <2>2 DEF Parallel!Accepts, Parallel!ConflictBranchIdsMustExist,
                      Parallel!BranchIds
  <2>5. /\ Parallel!BranchIdsMustBeUnique(f)
        /\ Parallel!OutputBranchIdsMustExist(f)
        /\ Parallel!ValidateJoinRequirementsField(f)
        /\ Parallel!MergeRequiresCompletedOrPartialJoin(f)
    BY <2>1 DEF Parallel!Accepts, Parallel!BranchIdsMustBeUnique,
                Parallel!OutputBranchIdsMustExist, Parallel!BranchIds,
                Parallel!ValidateJoinRequirementsField,
                Parallel!MergeRequiresCompletedOrPartialJoin
  <2>6. Parallel!Accepts(f)
    BY <2>1, <2>3, <2>4, <2>5 DEF Parallel!Accepts
  <2> QED
    BY <2>6 DEF f, c
<1>3. ASSUME NEW f, f.parallel_request = e.parallel_request,
             f.branch_assignments = e.branch_assignments,
             f.branch_outputs = e.branch_outputs, f.conflicts = e.conflicts,
             f.join_requirements = e.join_requirements,
             Parallel!MergeRequiresCompletedOrPartialJoin(f)
      PROVE  Parallel!Accepts(f)
  BY <1>3 DEF Parallel!Accepts, Parallel!BranchIdsMustBeUnique,
              Parallel!OutputBranchIdsMustExist, Parallel!BranchIds,
              Parallel!ConflictBranchIdsMustExist,
              Parallel!ValidateJoinRequirementsField
<1>4. ASSUME NEW status, e.merge_result = {}
      PROVE  Parallel!Accepts(Parallel!Joined(e, status))
  BY <1>3, <1>4 DEF Parallel!Joined, Parallel!Envelope,
                    Parallel!MergeRequiresCompletedOrPartialJoin
<1>5. Parallel!Accepts([Parallel!Joined(e, "merged") EXCEPT
                           !.merge_result = {[merge_outcome |-> "success"]}])
  <2> DEFINE j == [join_status |-> "merged", done |-> Parallel!Completed(e)]
             f == [Parallel!Joined(e, "merged") EXCEPT
                     !.merge_result = {[merge_outcome |-> "success"]}]
  <2>1. /\ f.parallel_request = e.parallel_request
        /\ f.branch_assignments = e.branch_assignments
        /\ f.branch_outputs = e.branch_outputs /\ f.conflicts = e.conflicts
        /\ f.join_requirements = e.join_requirements
        /\ f.join_execution = {j}
    BY DEF Parallel!Joined, Parallel!Envelope
  <2>2. j.join_status = "merged"
    OBVIOUS
  <2> HIDE DEF f, j
  <2>3. Parallel!MergeRequiresCompletedOrPartialJoin(f)
    BY <2>1, <2>2 DEF Parallel!MergeRequiresCompletedOrPartialJoin
  <2>4. Parallel!Accepts(f)
    BY <1>3, <2>1, <2>3
  <2> QED
    BY <2>4 DEF f, j
<1> QED
  BY <1>1, <1>2, <1>4, <1>5 DEF Parallel!ProgressIsAccepted

LEMMA DelegationProgress ==
    ASSUME NEW e \in Delegation!Envelope, Delegation!Accepts(e)
    PROVE  Delegation!ProgressIsAccepted(e)
<1>1. ASSUME NEW id \in ReturnId, e.assignment.status = "running", e.review = {}
      PROVE  Delegation!Accepts([Delegation!AsStatus(e, "returned") EXCEPT
                                   !.returned = {[return_id |-> id]}])
  <2> DEFINE f == [Delegation!AsStatus(e, "returned") EXCEPT
                     !.returned = {[return_id |-> id]}]
  <2>1. /\ f.request = e.request /\ f.review = {} /\ f.returned # {}
        /\ f.assignment.request = e.assignment.request
        /\ f.assignment.slice = e.assignment.slice
        /\ f.assignment.status = "returned"
    BY <1>1 DEF Delegation!AsStatus, Delegation!Envelope,
                Delegation!DelegationAssignment
  <2> HIDE DEF f
  <2>2. Delegation!Accepts(f)
    BY <2>1 DEF Delegation!Accepts, Delegation!RunningStatusRequiresSelected,
                Delegation!ReturnedStatusRequiresReturnRecord,
                Delegation!ReviewedStatusRequiresSupervisorReview,
                Delegation!ReviewedStatuses,
                Delegation!ReturnAndReviewConsistency
  <2> QED
    BY <2>2 DEF f
<1>2. ASSUME NEW s \in Delegation!SupervisorReview,
             s.outputs_or_notes, s.retry_reason, s.reroute_reason,
             [return_id |-> s.return_id] \in e.returned,
             NEW status \in {"returned", Delegation!Outcome(s.disposition)}
      PROVE  Delegation!Accepts(
                Delegation!AsStatus(Delegation!Reviewed(e, s), status))
  <2> DEFINE f == Delegation!AsStatus(Delegation!Reviewed(e, s), status)
  <2>1. /\ f.request = e.request /\ f.review = {s}
        /\ f.returned = e.returned
        /\ f.assignment.request = e.assignment.request
        /\ f.assignment.slice = e.assignment.slice
        /\ f.assignment.status = status
    BY DEF Delegation!AsStatus, Delegation!Reviewed, Delegation!Envelope,
           Delegation!DelegationAssignment
  <2> HIDE DEF f
  <2>2. e.returned = {[return_id |-> s.return_id]}
    BY <1>2 DEF Delegation!Envelope, Delegation!Optional
  <2>3. Delegation!ReturnAndReviewConsistency(f)
    BY <2>1, <2>2 DEF Delegation!ReturnAndReviewConsistency
  <2>4. /\ Delegation!AcceptRequiresOutputsOrNotes(s)
        /\ Delegation!RetryRequiresReason(s)
        /\ Delegation!RerouteRequiresReason(s)
    BY <1>2 DEF Delegation!AcceptRequiresOutputsOrNotes,
                Delegation!RetryRequiresReason, Delegation!RerouteRequiresReason
  <2>5. status # "running"
    BY DEF Delegation!Outcome
  <2>6. Delegation!Accepts(f)
    BY <2>1, <2>2, <2>3, <2>4, <2>5
       DEF Delegation!Accepts, Delegation!RunningStatusRequiresSelected,
           Delegation!ReturnedStatusRequiresReturnRecord,
           Delegation!ReviewedStatusRequiresSupervisorReview
  <2> QED
    BY <2>6 DEF f
<1> QED
  BY <1>1, <1>2 DEF Delegation!ProgressIsAccepted

-----------------------------------------------------------------------------
(* Whatever identifiers there are and whatever a client offers, each       *)
(* reference that the documents list as checked names a record of its own  *)
(* envelope, through every link of a chain and, for nodes and branches, no *)
(* other record; the references nothing checks are not claimed.            *)
THEOREM CheckedReferencesAlwaysResolve ==
    ConstructSpec => []CheckedReferencesResolve
<1>1. AcceptedOnly => CheckedReferencesResolve
  BY HeldIsAccepted, ClarificationIsSound, AcceptanceIsSound, BudgetIsSound,
     SessionIsSound, ParallelIsSound
     DEF CheckedReferencesResolve, Holds
<1> QED
  BY <1>1, AcceptedOnlyHolds, PTL

(* No decision to go ahead exists without what it rests on: the code's     *)
(* validators of decisions and statuses leave no way around.               *)
THEOREM GoAheadIsAlwaysBacked == ConstructSpec => []GoAheadIsBacked
<1>1. AcceptedOnly => GoAheadIsBacked
  BY HeldIsAccepted, ClarificationIsSound, AcceptanceIsSound, DelegationIsSound
     DEF GoAheadIsBacked, Holds
<1> QED
  BY <1>1, AcceptedOnlyHolds, PTL

(* The runtime check of a parallel join passes whatever was constructed.   *)
THEOREM RecheckAlwaysAgrees == ConstructSpec => []RecheckAgrees
<1>1. AcceptedOnly => RecheckAgrees
  BY HeldIsAccepted, ParallelAgrees DEF RecheckAgrees, Holds
<1> QED
  BY <1>1, AcceptedOnlyHolds, PTL

(* No legal envelope is a dead end: whoever records progress in it that    *)
(* the documents allow gets a legal envelope again.                        *)
THEOREM ProgressIsAlwaysAccepted == ConstructSpec => []ProgressIsAccepted
<1>1. ASSUME NEW e \in Clarification!Envelope, Clarification!Accepts(e)
      PROVE  Clarification!ProgressIsAccepted(e)
  BY <1>1, SettlingIsAccepted, AnsweringIsAccepted
     DEF Clarification!ProgressIsAccepted
<1>2. ASSUME NEW e \in Budget!Envelope, Budget!Accepts(e)
      PROVE  Budget!ProgressIsAccepted(e)
  BY <1>2, UsingIsAccepted DEF Budget!ProgressIsAccepted
<1>3. ASSUME NEW g \in Session!Graph, Session!Accepts(g)
      PROVE  Session!ProgressIsAccepted(g)
  BY <1>3, GrowingIsAccepted DEF Session!ProgressIsAccepted
<1>4. AcceptedOnly => ProgressIsAccepted
  BY <1>1, <1>2, <1>3, HeldIsAccepted, AchievingIsAccepted, ParallelProgress,
     DelegationProgress DEF ProgressIsAccepted, Holds
<1> QED
  BY <1>4, AcceptedOnlyHolds, PTL
=============================================================================
