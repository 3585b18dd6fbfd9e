---------------------------- MODULE SafetyPolicy ----------------------------
(***************************************************************************)
(* An approval and safety policy and the decision it yields for an action: *)
(* models/approval_safety.py and _make_safety_decision of                  *)
(* harness/pipeline.py.  A policy is an ordered list of rules; only the    *)
(* name of the action is compared, so the hosts, paths and risk levels a   *)
(* rule carries play no part in the decision and are left out.             *)
(***************************************************************************)
EXTENDS Naturals, Sequences

SafetyAction == {"allow", "require_approval", "block"}

ActionRiskRule(action, safety) ==
    [action_name |-> action, safety_action |-> safety]

(* A policy is a list of rules. *)
IsPolicy(policy) ==
    /\ Len(policy) \in Nat /\ DOMAIN policy = 1..Len(policy)
    /\ \A i \in DOMAIN policy :
          /\ DOMAIN policy[i] = {"action_name", "safety_action"}
          /\ policy[i].safety_action \in SafetyAction

(* The positions of the rules that name the action. *)
MatchingRules(policy, action) ==
    {i \in 1..Len(policy) : policy[i].action_name = action}

\* mutant
LastRuleDecides(policy, action) ==
    LET matching == MatchingRules(policy, action)
        last == CHOOSE i \in matching : \A j \in matching : j <= i
    IN  IF matching = {} THEN "allow" ELSE policy[last].safety_action

(* The first rule that names the action decides; with none, it is allowed. *)
MakeSafetyDecision(policy, action) ==
    LET matching == MatchingRules(policy, action)
        first == CHOOSE i \in matching : \A j \in matching : i <= j
    IN  IF matching = {} THEN "allow" ELSE policy[first].safety_action

(* The policy with another safety action in its rule i. *)
Reworded(policy, i, safety) == [policy EXCEPT ![i].safety_action = safety]

(* A rule is dead if no decision depends on what it says. *)
DeadRules(policy) ==
    {i \in DOMAIN policy :
        \A safety \in SafetyAction, j \in DOMAIN policy :
            MakeSafetyDecision(Reworded(policy, i, safety), policy[j].action_name)
                = MakeSafetyDecision(policy, policy[j].action_name)}

(* A rule is shadowed if a rule before it names the same action. *)
ShadowedRules(policy) ==
    {i \in DOMAIN policy :
        \E j \in 1..(i - 1) : policy[j].action_name = policy[i].action_name}

V1DefaultSafetyPolicy ==
    << ActionRiskRule("read_file", "allow"),
       ActionRiskRule("search_files", "allow"),
       ActionRiskRule("run_command", "allow"),
       ActionRiskRule("edit_file", "require_approval"),
       ActionRiskRule("delete_file", "require_approval"),
       ActionRiskRule("read_secret", "require_approval"),
       ActionRiskRule("network_request", "block"),
       ActionRiskRule("network_request", "allow"),
       ActionRiskRule("deploy", "require_approval"),
       ActionRiskRule("read_file", "block") >>
=============================================================================
