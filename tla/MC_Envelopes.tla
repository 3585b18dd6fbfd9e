----------------------------- MODULE MC_Envelopes -----------------------------
(* The parts clients offer: two or three records a list, some of them      *)
(* invalid alone, some only beside others.                                 *)
EXTENDS EnvelopeConstruction, Integers, FiniteSets

CONSTANTS g1, g2, q1, q2, c1, c2, k1, k2, b1, b2, l1, l2,
          n1, n2, n3, e1, e2, s1, s2, w1, w2, r1, r2

Gaps == {g1, g2}          Questions == {q1, q2}
Criteria == {c1, c2}      Checks == {k1, k2}
Budgets == {b1, b2}       Lines == {l1, l2}
Nodes == {n1, n2, n3}     Edges == {e1, e2}         GraphIds == {s1, s2}
Branches == {w1, w2}      Returns == {r1, r2}

-----------------------------------------------------------------------------
(* Clarification: a blocking, a minor and a wrongly graded gap; a question  *)
(* about a gap that may be missing; resolutions of each kind.              *)
Gap(id, severity, blocking) ==
    [gap_id |-> id, severity |-> severity, blocking |-> blocking]
Resolution(id, status, value, notes) ==
    [gap_id |-> id, status |-> status, value |-> value, notes |-> notes]
Attempt(id, method, value) ==
    [gap_id |-> id, method |-> method, proposed_value |-> value]
Waiting(active, done) ==
    [related_gap_ids |-> {g1}, active_question_ids |-> active,
     completed_question_ids |-> done]
Verdict(disposition, open, reason) ==
    [disposition |-> disposition, open_gap_ids |-> open, reason |-> reason]

SomeClarifications ==
    [gaps : SUBSET {Gap(g1, "blocking", TRUE), Gap(g2, "low", FALSE),
                    Gap(g2, "blocking", FALSE)},
     questions : SUBSET {[question_id |-> q1, gap_id |-> g1],
                         [question_id |-> q2, gap_id |-> g2]},
     attempts : SUBSET {Attempt(g1, "ask_user", TRUE),
                        Attempt(g2, "apply_default", FALSE)},
     field_resolutions : SUBSET {Resolution(g1, "resolved", TRUE, FALSE),
                                 Resolution(g1, "question_issued", FALSE, FALSE),
                                 Resolution(g2, "deferred", FALSE, FALSE)},
     policies : {{}} \cup {{[required |-> TRUE, allow_defer |-> TRUE,
                             escalation_threshold |-> x]} : x \in BOOLEAN},
     session : {Waiting({}, {}), Waiting({q1}, {}), Waiting({q1}, {q2}),
                Waiting({q1}, {q1})},
     decision : {Verdict("ready_to_proceed", {}, FALSE),
                 Verdict("proceed_with_gaps", {g2}, FALSE),
                 Verdict("awaiting_response", {g1}, FALSE),
                 Verdict("rejected", {}, FALSE), Verdict("escalated", {}, TRUE)}]

-----------------------------------------------------------------------------
(* Acceptance: each criterion and check in the states that matter.         *)
Criterion(id, status, notes) ==
    [criterion_id |-> id, required |-> id = c1, status |-> status,
     notes |-> notes]
Check(id, status, notes) ==
    [done_check_id |-> id, required |-> TRUE, status |-> status, notes |-> notes,
     type |-> IF id = k1 THEN "release_gate" ELSE "quality_gate"]

SomeAcceptances ==
    [criteria : SUBSET {Criterion(c1, "met", FALSE), Criterion(c1, "waived", TRUE),
                        Criterion(c1, "waived", FALSE),
                        Criterion(c2, "failed", FALSE)},
     checks : SUBSET {Check(k1, "passed", FALSE), Check(k1, "waived", TRUE),
                      Check(k2, "not_checked", FALSE)},
     evidence : SUBSET {[ref |-> NoRef], [ref |-> c1], [ref |-> k1]},
     decision : [disposition : Acceptance!Disposition, reason : BOOLEAN,
                 followup : BOOLEAN, release_ready : BOOLEAN]]

-----------------------------------------------------------------------------
(* Budget: lines that add up, that do not, with a NaN and of another       *)
(* budget.                                                                 *)
Line(id, budget, reserved, consumed, remaining) ==
    [budget_line_id |-> id, budget_id |-> budget, allocated |-> 2,
     reserved |-> reserved, consumed |-> consumed, remaining |-> remaining]
Charges == {[budget_line_id |-> id] : id \in Lines}

SomeBudgets ==
    [budget_id : {b1}, budget_status : {"active", "closed"},
     budget_lines : SUBSET {Line(l1, b1, 1, 1, 0), Line(l1, b1, 1, 0, 2),
                            Line(l1, b2, 0, 0, 2), Line(l2, b1, 1, 2, -1),
                            Line(l2, b1, 0, 0, NaN)},
     reservations : SUBSET Charges,
     usage_records : SUBSET Charges,
     threshold_policies : {{}} \cup
         {{[budget_line_id |-> l1, value |-> x, percent |-> y]} :
              x, y \in BOOLEAN},
     alerts : {{}, {[budget_line_id |-> l2]}},
     decisions : {{}} \cup
         {{[budget_id |-> b, disposition |-> d, source |-> x]} :
              b \in Budgets, d \in {"reallocate", "throttle"}, x \in BOOLEAN}]

-----------------------------------------------------------------------------
(* Session graph: three nodes, one of which may be there twice.            *)
Vertex(id, type, parent) ==
    [node_id |-> id, node_type |-> type, parent |-> parent]
Link(id, from, to) == [edge_id |-> id, from |-> from, to |-> to]
JoinAt(incoming, required) ==
    {[join_node |-> n2, incoming |-> incoming, required |-> required,
      done |-> {n3}]}

SomeGraphs ==
    [metadata : [graph_id : {s1}, entry : {n1, n2}, terminals : {{n3}}],
     nodes : SUBSET {Vertex(n1, "step", NoNode), Vertex(n2, "step", n1),
                     Vertex(n2, "terminal_node", n1),
                     Vertex(n3, "terminal_node", n2)},
     edges : SUBSET {Link(e1, n1, n2), Link(e2, n2, n3), Link(e2, n3, n1)},
     branches : {{}, {[entry |-> n1, nodes |-> {n2}, done |-> {n3}]},
                 {[entry |-> n1, nodes |-> {n2, n3}, done |-> {}]}},
     joins : {{}, JoinAt(<<n1>>, 1), JoinAt(<<n1, n1>>, 2), JoinAt(<<n1>>, 2),
              JoinAt(<<n3>>, 0)},
     checkpoints : SUBSET {[graph_id |-> s1, nodes |-> {n1, n3}, edges |-> {e1}],
                           [graph_id |-> s2, nodes |-> {}, edges |-> {}]}]

-----------------------------------------------------------------------------
(* Parallel work: two branches, counts around the length of the list.      *)
SomeParallelWork ==
    [parallel_request : [join_policy : {"wait_for_all", "wait_for_first_success"}],
     branch_assignments : SUBSET {[branch_id |-> w1, status |-> "running"],
                                  [branch_id |-> w1, status |-> "failed"],
                                  [branch_id |-> w2, status |-> "running"]},
     branch_outputs : SUBSET {[branch_id |-> w, status |-> "completed"] :
                                  w \in Branches},
     conflicts : {{}, {[branch_ids |-> <<w1, w2>>]}, {[branch_ids |-> <<w1, w1>>]},
                  {[branch_ids |-> <<w2>>]}},
     join_requirements : [required_branch_ids : {<<>>, <<w1>>, <<w1, w2>>},
                          required_completion_count : {NoCount} \cup 0..3],
     join_execution : {{}} \cup {{[join_status |-> s, done |-> Branches]} :
                           s \in {"waiting", "merged", "partial_merge", "failed"}},
     merge_result : {{}} \cup {{[merge_outcome |-> o]} : o \in {"success"}}]

-----------------------------------------------------------------------------
(* Delegation: every status, disposition and combination of reasons.       *)
SomeDelegations ==
    [request : {[acceptance_criteria |-> TRUE]},
     assignment : [request : Delegation!DelegationRequest,
                   slice : {[self_contained |-> FALSE, refs |-> TRUE],
                            [self_contained |-> FALSE, refs |-> FALSE]},
                   selection : Delegation!DelegateSelection,
                   status : Delegation!DelegationStatus],
     returned : Delegation!Optional(Delegation!DelegationReturn),
     review : Delegation!Optional([return_id : {r1},
                 disposition : Delegation!ReturnDisposition,
                 outputs_or_notes : BOOLEAN, retry_reason : BOOLEAN,
                 reroute_reason : BOOLEAN])]
=============================================================================
