--------------------------- MODULE RoleSpecialization ---------------------------
(***************************************************************************)
(* models/agent_role_specialization_contract.py: a role agents can be      *)
(* assigned to, what it may use and do, what it must not, and an           *)
(* assignment.  Accepts(e) says whether an envelope with the parts e can   *)
(* be constructed; conventions as in ClarificationResolution.              *)
(* Specialization, prompts and evaluation are read by no rule, the         *)
(* role_id of a profile is compared with nothing, and                      *)
(* must_not_delegate_further is not held against can_delegate.             *)
(***************************************************************************)
CONSTANTS Tool

RoleType == {"manager", "specialist", "planner", "executor", "reviewer",
             "verifier", "retriever", "summarizer", "coder", "tool_operator"}
RoleStatus == {"draft", "active", "deprecated", "disabled"}
AutonomyLevel == {"advisory_only", "bounded_execution", "delegation_allowed",
                  "supervisory"}

RoleDefinition == [role_type : RoleType, status : RoleStatus,
                   autonomy_level : AutonomyLevel]
CapabilityProfile == [allowed_tools : SUBSET Tool, can_delegate : BOOLEAN,
                      delegation_boundaries : BOOLEAN, can_verify : BOOLEAN,
                      can_modify_artifacts : BOOLEAN]
ConstraintProfile == [forbidden_tools : SUBSET Tool,
                      must_not_write_without_verification : BOOLEAN]

Optional(S) == {x \in SUBSET S : \A a, b \in x : a = b}

Envelope == [role_definition : RoleDefinition,
             capability_profile : Optional(CapabilityProfile),
             constraint_profile : Optional(ConstraintProfile),
             assignment_record : BOOLEAN]

-----------------------------------------------------------------------------
(* The validators of a record. *)

ValidateSupervisoryAutonomy(r) ==
    r.autonomy_level = "supervisory" => r.role_type = "manager"

ValidateDelegationBoundaries(c) == c.can_delegate => c.delegation_boundaries

(* The validators of the envelope. *)

ActiveRoleRequiresCapabilityAndConstraint(e) ==
    e.role_definition.status = "active" =>
        e.capability_profile # {} /\ e.constraint_profile # {}

ArtifactModifyingRolesNeedVerificationBoundary(e) ==
    \A c \in e.capability_profile :
        c.can_modify_artifacts =>
            \/ c.can_verify
            \/ \E k \in e.constraint_profile : k.must_not_write_without_verification

ForbiddenToolsNotInAllowed(e) ==
    \A c \in e.capability_profile, k \in e.constraint_profile :
        k.forbidden_tools \cap c.allowed_tools = {}

AssignmentMustReferenceActiveRole(e) ==
    e.assignment_record => e.role_definition.status = "active"

Accepts(e) ==
    /\ ValidateSupervisoryAutonomy(e.role_definition)
    /\ \A c \in e.capability_profile : ValidateDelegationBoundaries(c)
    /\ ActiveRoleRequiresCapabilityAndConstraint(e)
    /\ ArtifactModifyingRolesNeedVerificationBoundary(e)
    /\ ForbiddenToolsNotInAllowed(e)
    /\ AssignmentMustReferenceActiveRole(e)

-----------------------------------------------------------------------------
(* What an accepted envelope promises. *)

(* An agent that is assigned to a role can be told of every tool whether   *)
(* it may use it, because both profiles are there and do not contradict    *)
(* each other; and if it may write, somebody verifies what it wrote.       *)
GoAheadIsBacked(e) ==
    e.assignment_record =>
        \E c \in e.capability_profile, k \in e.constraint_profile :
            /\ \A t \in c.allowed_tools : t \notin k.forbidden_tools
            /\ c.can_modify_artifacts =>
                  c.can_verify \/ k.must_not_write_without_verification

(* A role can always be made stricter, and be retired once nobody is       *)
(* assigned to it.                                                         *)
Forbidden(e, c, k, t) ==
    [e EXCEPT !.capability_profile = {[c EXCEPT !.allowed_tools = @ \ {t}]},
              !.constraint_profile = {[k EXCEPT !.forbidden_tools = @ \cup {t}]}]
Retired(e, status) ==
    [e EXCEPT !.role_definition.status = status, !.assignment_record = FALSE]

ProgressIsAccepted(e) ==
    /\ \A c \in e.capability_profile, k \in e.constraint_profile :
          \A t \in Tool : Accepts(Forbidden(e, c, k, t))
    /\ \A status \in {"deprecated", "disabled"} : Accepts(Retired(e, status))
=============================================================================
