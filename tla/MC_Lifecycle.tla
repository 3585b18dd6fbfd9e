----------------------------- MODULE MC_Lifecycle -----------------------------
(* The parts clients offer: one or two records a list, valid and invalid   *)
(* ones, and each status, disposition and flag a rule reads.               *)
EXTENDS EnvelopeLifecycle, FiniteSets

CONSTANTS a1, a2, g1, p1, p2, r1, r2, c1, c2, f1, f2, s1, s2, t1, t2

Actions == {a1, a2}         Agents == {g1}           Places == {p1, p2}
Requests == {r1, r2}        Candidates == {c1, c2}   Fields == {f1, f2}
Sources == {s1, s2}         Targets == {t1, t2}

Maybe(S) == {{}} \cup {{x} : x \in S}

-----------------------------------------------------------------------------
(* Retry: two actions of the same order or not, one of them failed.        *)
Action(id, order, status, notes) ==
    [action_id |-> id, execution_order |-> order, status |-> status,
     action_notes |-> notes]

SomeActions == {Action(a1, 1, "planned", FALSE), Action(a2, 1, "in_progress", TRUE)}

SomeRetries ==
    [unknown_state : BOOLEAN,
     retry_policy : Maybe([retry_strategy : {"none", "fixed", "manual_retry"},
                           max_attempts : 0..1]),
     retry_attempts : {0},
     recovery_plan : {{}, {[recovery_mode |-> "resume_from_checkpoint",
                            checkpoint_ref |-> FALSE, intent_state_ref |-> TRUE]}},
     compensation_plan : {{}} \cup
         {{[actions |-> A, plan_status |-> x]} :
              A \in {{}} \cup {{a} : a \in SomeActions} \cup
                   {{Action(a1, 1, "planned", FALSE), b} :
                       b \in {Action(a2, 1, "in_progress", TRUE),
                             Action(a2, 2, "in_progress", TRUE),
                             Action(a2, 2, "failed", TRUE)}},
              x \in {"not_required", "in_progress", "completed"}},
     failure_disposition : {"undecided", "recovered"}]

(* Handoff: every mode with and without a writer.                          *)
SomeHandoffs ==
    [request : [to_agent_id : BOOLEAN, target_role : BOOLEAN,
                handoff_type : {"delegate_work", "request_review"},
                acceptance_criteria : BOOLEAN],
     ownership : Maybe(Handoff!OwnershipRecord),
     returned : {{}}, review : {{}}]

(* Risk: two places, records of each kind, one signature or two needed.    *)
Approval(place, status, approver) ==
    [place |-> place, status |-> status, approver |-> approver,
     decision_notes |-> TRUE]

SomeRisks ==
    [threshold_policy : {{}} \cup
         {{[minimum_risk_level |-> l, requires_human_approval |-> x,
            default_disposition |-> d]} :
              l \in {"low", "high"}, x \in BOOLEAN, d \in {"none", "proceed"}},
     approval_requirement : {{}, {[required_approver_count |-> 2]}},
     approval_records : {S \in SUBSET {Approval(p1, "approved", TRUE),
                                      Approval(p2, "approved", FALSE),
                                      Approval(p2, "rejected", TRUE),
                                      Approval(p1, "timed_out", FALSE)} :
                           \A a, b \in S : a.place = b.place => a = b},
     escalation_path : {{}} \cup
         {{[auto_escalate_on_timeout |-> x, sla |-> FALSE, fallback |-> y]} :
              x, y \in BOOLEAN},
     decision : {{}} \cup
         {{[approval_status |-> "approved", disposition |-> d, decider |-> y,
            reason |-> TRUE, resume_constraints |-> FALSE]} :
              y \in BOOLEAN,
              d \in {"proceed", "proceed_with_constraints", "reject"}}]

(* Negotiation: every verdict, decision and override.                      *)
SomeNegotiations ==
    [evaluation : [compatibility_status : Capability!CompatibilityStatus,
                   unmatched_requirement_ids : SUBSET {r1}],
     gaps : SUBSET {[gap_id |-> g1, blocking |-> TRUE]},
     decision : Maybe(Capability!Decision)]

(* Versions around the step from one digit to two.                         *)
SomeRequirements == [minimum_version : 8..11, maximum_version : 8..11]

(* Skill: decision and activation of the same request and of another.      *)
SomeSkills ==
    [permission_profile : Skill!PermissionProfile,
     activation_request : {{}, {[request_id |-> r1]}},
     activation_decision : Maybe(Skill!ActivationDecision),
     activation_record : Maybe(Skill!ActivationRecord)]

(* Route: any candidates, a decision that may name one not among them.     *)
SomeRoutes ==
    [candidates : SUBSET Candidates,
     decision : Maybe([
         selected_candidate_id : {c1, NoRoute, Blank}, reason : BOOLEAN,
         status : {"draft", "selected", "dispatched", "rerouted", "blocked"}]),
     arbitration : {{}} \cup
         {{[competing |-> x, selected_candidate_id |-> y, tie_break_reason |-> z]} :
              x \in {<<c1>>, <<c1, c2>>}, y \in {c1, NoRoute}, z \in BOOLEAN},
     fallback : BOOLEAN]

(* Intake: a field resolved, missing or contradictory; ambiguities.        *)
Extracted(name, status, value) ==
    [field_name |-> name, status |-> status, value_ref |-> value]

SomeIntakes ==
    [raw_intake : Intake!RawIntake,
     fields : SUBSET {Extracted(f1, "explicit", TRUE),
                      Extracted(f2, "missing", FALSE),
                      Extracted(f2, "missing", TRUE)},
     ambiguities : SUBSET Fields,
     clarification_request : BOOLEAN,
     validation : [schema_valid : BOOLEAN, missing_required_fields : SUBSET {f2}],
     decision : [disposition : {"accepted", "accepted_with_gaps",
                                "clarification_required", "rejected"},
                 reason : BOOLEAN]]

(* Synthesis: two sources, conflicts open and settled, a released output   *)
(* and one on the way.                                                     *)
ConflictOn(ids, resolved) ==
    [conflict_id |-> f1, source_ids |-> ids, resolved |-> resolved]

SomeSyntheses ==
    [sources : SUBSET [source_id : Sources, eligible : BOOLEAN],
     conflicts : SUBSET {ConflictOn(<<s1, s2>>, FALSE), ConflictOn(<<s1, s2>>, TRUE),
                         ConflictOn(<<s1, s1>>, TRUE)},
     review_required : BOOLEAN,
     finalization : [status : {"validated", "approved", "released"},
                     disposition : {"accept", "escalate"},
                     approval_reason : BOOLEAN, release_ready : BOOLEAN],
     final_output_refs : BOOLEAN]

(* Message: lifetimes of no, one and unlimited length.                     *)
SomeMessages ==
    [header : [transport_mode : Messaging!TransportMode, created_at : {1},
               expires_at : {1, 2, Never}],
     audience : [audience_type : {"single_agent", "broadcast_limited"},
                 target_agent_ids : SUBSET Targets, target_role_ids : SUBSET {t1},
                 target_node_ids : {{}}],
     delivery_policy : [requires_ack : BOOLEAN, max_retries : {0}],
     acknowledgement : {{}}, failure_record : {FALSE}]

(* Step: confidence on both sides of every bound, and NaN.                 *)
SomeSteps ==
    [status : {"running", "completed", "failed"},
     outcome : {"none", "success", "failure", "no_progress"},
     intent : Step!Intent, actions : SUBSET {[action_type |-> "delegation_request"]},
     verification : {{}} \cup {{[passed |-> x, confidence |-> c]} :
                                  x \in BOOLEAN, c \in {-1, 49, 50, 101, NaN}},
     state_delta : BOOLEAN,
     artifact_updates : {{}, {"todo"}, {"prompts"}},
     ended_at : {TRUE}, stop_reason : {"none", "tool_failure"},
     next_step_hint : {TRUE}]
    \cup
    [status : {"completed"}, outcome : {"partial", "no_progress"},
     intent : {[acceptance_criteria |-> TRUE, delegation_allowed |-> FALSE]},
     actions : {{}}, verification : {{}}, state_delta : {FALSE},
     artifact_updates : {{}}, ended_at : BOOLEAN,
     stop_reason : {"none", "repeated_no_progress"}, next_step_hint : BOOLEAN]

(* Role: every status, with profiles that contradict each other or not.    *)
SomeRoles ==
    [role_definition : [role_type : {"manager", "coder"}, status : Role!RoleStatus,
                        autonomy_level : {"bounded_execution", "supervisory"}],
     capability_profile : {{}} \cup
         {{[allowed_tools |-> A, can_delegate |-> x, delegation_boundaries |-> FALSE,
            can_verify |-> y, can_modify_artifacts |-> z]} :
              A \in SUBSET Targets, x, y, z \in BOOLEAN},
     constraint_profile : {{}} \cup
         {{[forbidden_tools |-> F, must_not_write_without_verification |-> x]} :
              F \in SUBSET {t1}, x \in BOOLEAN},
     assignment_record : BOOLEAN]

(* Loop: up to two cycles to begin with, two being the limit.              *)
SomeLoops ==
    [status : Loop!Status, stop_reason : {"none", "success", "max_iterations"},
     plan : [max_iterations : {2}, verification_required : BOOLEAN],
     cycles : {<<>>} \cup [1..1 -> Loop!Cycle] \cup [1..2 -> Loop!Cycle],
     next_action : BOOLEAN]
=============================================================================
