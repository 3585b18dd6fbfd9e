-------------------------- MODULE SafetyPolicy_proofs --------------------------
(***************************************************************************)
(* Theorems about the decisions of a policy, for policies of any length    *)
(* over any names of actions.                                              *)
(***************************************************************************)
EXTENDS SafetyPolicy, WellFoundedInduction, TLAPS

(* A set of positions that is not empty has a first one. *)
LEMMA FirstPosition ==
    ASSUME NEW S \in SUBSET Nat, S # {}
    PROVE  \E i \in S : \A j \in S : i <= j
<1>1. PICK i \in S : \A j \in S : <<j, i>> \notin OpToRel(<, Nat)
  BY NatLessThanWellFounded, WFMin
<1>2. ASSUME NEW j \in S PROVE i <= j
  <2>1. ~(j < i)
    BY <1>1 DEF OpToRel
  <2> QED
    BY <2>1
<1> QED
  BY <1>2

(* What a decision is: with a rule that names the action, the safety action *)
(* of the first such rule.                                                  *)
LEMMA FirstRuleDecides ==
    ASSUME NEW policy, IsPolicy(policy), NEW i \in DOMAIN policy,
           \A j \in 1..(i - 1) : policy[j].action_name # policy[i].action_name
    PROVE  MakeSafetyDecision(policy, policy[i].action_name) = policy[i].safety_action
<1> DEFINE matching == MatchingRules(policy, policy[i].action_name)
           first == CHOOSE k \in matching : \A j \in matching : k <= j
<1>1. matching \subseteq 1..Len(policy) /\ i \in matching /\ Len(policy) \in Nat
  BY DEF MatchingRules, IsPolicy
<1>2. \A j \in matching : i <= j
  BY <1>1 DEF MatchingRules
<1>3. \A k \in matching : (\A j \in matching : k <= j) => k = i
  BY <1>1, <1>2
<1>4. first = i
  <2> HIDE DEF matching
  <2> QED
    BY <1>1, <1>2, <1>3
<1> QED
  BY <1>1, <1>4 DEF MakeSafetyDecision

(* Rewording a rule leaves the names where they are. *)
LEMMA RewordedRules ==
    ASSUME NEW policy, IsPolicy(policy), NEW i \in DOMAIN policy,
           NEW safety \in SafetyAction
    PROVE  LET q == Reworded(policy, i, safety)
           IN  /\ IsPolicy(q) /\ DOMAIN q = DOMAIN policy
               /\ \A j \in DOMAIN policy : q[j].action_name = policy[j].action_name
               /\ \A j \in DOMAIN policy :
                    q[j].safety_action = IF j = i THEN safety ELSE policy[j].safety_action
<1> DEFINE q == Reworded(policy, i, safety)
<1>1. DOMAIN q = 1..Len(policy) /\ Len(policy) \in Nat
  BY DEF Reworded, IsPolicy
<1>2. Len(q) = Len(policy)
  BY <1>1
<1>3. /\ q[i] = [policy[i] EXCEPT !.safety_action = safety]
      /\ \A j \in DOMAIN policy : j # i => q[j] = policy[j]
  BY DEF Reworded
<1>4. DOMAIN policy[i] = {"action_name", "safety_action"}
  BY DEF IsPolicy
<1>5. /\ DOMAIN q[i] = {"action_name", "safety_action"}
      /\ q[i].action_name = policy[i].action_name /\ q[i].safety_action = safety
  BY <1>3, <1>4
<1> HIDE DEF q
<1>6. DOMAIN q = DOMAIN policy
  BY <1>1 DEF IsPolicy
<1>7. IsPolicy(q)
  BY <1>1, <1>2, <1>3, <1>5, <1>6 DEF IsPolicy
<1> QED
  BY <1>3, <1>5, <1>6, <1>7 DEF q

(* Every name of a rule is decided by a first rule that bears it. *)
LEMMA SomeRuleDecides ==
    ASSUME NEW policy, IsPolicy(policy), NEW j \in DOMAIN policy
    PROVE  \E i \in DOMAIN policy :
              /\ policy[i].action_name = policy[j].action_name
              /\ i <= j
              /\ \A k \in 1..(i - 1) : policy[k].action_name # policy[i].action_name
<1> DEFINE matching == MatchingRules(policy, policy[j].action_name)
<1>1. matching \in SUBSET Nat /\ j \in matching /\ matching \subseteq DOMAIN policy
  BY DEF MatchingRules, IsPolicy
<1>2. PICK i \in matching : \A k \in matching : i <= k
  BY <1>1, FirstPosition
<1>3. ASSUME NEW k \in 1..(i - 1), policy[k].action_name = policy[i].action_name
      PROVE  FALSE
  <2>1. k \in matching /\ k < i
    BY <1>3 DEF MatchingRules
  <2> QED
    BY <1>1, <1>2, <2>1
<1> QED
  BY <1>1, <1>2, <1>3 DEF MatchingRules

(* What the dead rules of a policy are, whatever its length and the names   *)
(* its rules bear: those behind another rule for the same action.           *)
THEOREM DeadMeansShadowed ==
    ASSUME NEW policy, IsPolicy(policy)
    PROVE  DeadRules(policy) = ShadowedRules(policy)
<1>1. ASSUME NEW i \in DOMAIN policy, i \in ShadowedRules(policy)
      PROVE  i \in DeadRules(policy)
  <2> SUFFICES ASSUME NEW safety \in SafetyAction, NEW j \in DOMAIN policy
               PROVE  MakeSafetyDecision(Reworded(policy, i, safety), policy[j].action_name)
                        = MakeSafetyDecision(policy, policy[j].action_name)
    BY DEF DeadRules
  <2>1. PICK f \in DOMAIN policy :
          /\ policy[f].action_name = policy[j].action_name
          /\ \A k \in 1..(f - 1) : policy[k].action_name # policy[f].action_name
    BY SomeRuleDecides
  <2>2. f # i
    BY <1>1, <2>1 DEF ShadowedRules
  <2>3. MakeSafetyDecision(policy, policy[f].action_name) = policy[f].safety_action
    BY <2>1, FirstRuleDecides
  <2>4. PICK q : q = Reworded(policy, i, safety)
    OBVIOUS
  <2>5. /\ IsPolicy(q) /\ DOMAIN q = DOMAIN policy
        /\ \A k \in DOMAIN policy : q[k].action_name = policy[k].action_name
        /\ q[f].safety_action = policy[f].safety_action
    BY <2>2, <2>4, RewordedRules
  <2>6. \A k \in 1..(f - 1) : k \in DOMAIN policy
    BY DEF IsPolicy
  <2>7. MakeSafetyDecision(q, q[f].action_name) = q[f].safety_action
    BY <2>1, <2>5, <2>6, FirstRuleDecides
  <2> QED
    BY <2>1, <2>3, <2>4, <2>5, <2>7
<1>2. ASSUME NEW i \in DOMAIN policy, i \notin ShadowedRules(policy)
      PROVE  i \notin DeadRules(policy)
  <2>1. \A k \in 1..(i - 1) : policy[k].action_name # policy[i].action_name
    BY <1>2 DEF ShadowedRules
  <2>2. PICK safety \in SafetyAction : safety # policy[i].safety_action
    BY DEF SafetyAction
  <2>3. MakeSafetyDecision(policy, policy[i].action_name) = policy[i].safety_action
    BY <2>1, FirstRuleDecides
  <2>4. PICK q : q = Reworded(policy, i, safety)
    OBVIOUS
  <2>5. /\ IsPolicy(q) /\ DOMAIN q = DOMAIN policy
        /\ \A k \in DOMAIN policy : q[k].action_name = policy[k].action_name
        /\ q[i].safety_action = safety
    BY <2>4, RewordedRules
  <2>6. \A k \in 1..(i - 1) : k \in DOMAIN policy
    BY DEF IsPolicy
  <2>7. MakeSafetyDecision(q, q[i].action_name) = safety
    BY <2>1, <2>5, <2>6, FirstRuleDecides
  <2> QED
    BY <2>2, <2>3, <2>4, <2>5, <2>7 DEF DeadRules
<1> QED
  BY <1>1, <1>2 DEF DeadRules, ShadowedRules

(* Two rules of the default policy can never decide: the permission for     *)
(* network requests and the block of reads (approval_safety.py:236, 259).   *)
THEOREM DefaultPolicyHasDeadRules ==
    IsPolicy(V1DefaultSafetyPolicy) /\ DeadRules(V1DefaultSafetyPolicy) = {8, 10}
<1> DEFINE p == V1DefaultSafetyPolicy
<1>1. Len(p) = 10 /\ DOMAIN p = 1..10
  BY DEF V1DefaultSafetyPolicy
<1>2. /\ p[1].action_name = "read_file" /\ p[2].action_name = "search_files"
      /\ p[3].action_name = "run_command" /\ p[4].action_name = "edit_file"
      /\ p[5].action_name = "delete_file" /\ p[6].action_name = "read_secret"
      /\ p[7].action_name = "network_request" /\ p[8].action_name = "network_request"
      /\ p[9].action_name = "deploy" /\ p[10].action_name = "read_file"
  BY DEF V1DefaultSafetyPolicy, ActionRiskRule
<1>3. \A i \in 1..10 : i \in {1, 2, 3, 4, 5, 6, 7, 8, 9, 10}
  OBVIOUS
<1>4. \A i \in 1..10 : /\ DOMAIN p[i] = {"action_name", "safety_action"}
                       /\ p[i].safety_action \in SafetyAction
  BY <1>3 DEF V1DefaultSafetyPolicy, ActionRiskRule, SafetyAction
<1> HIDE DEF p
<1>5. IsPolicy(p)
  BY <1>1, <1>4 DEF IsPolicy
<1>6. ShadowedRules(p) = {8, 10}
  <2>1. 8 \in ShadowedRules(p) /\ 10 \in ShadowedRules(p)
    BY <1>1, <1>2 DEF ShadowedRules
  <2>2. \A i \in 1..10 : i \notin {8, 10} =>
          \A j \in 1..(i - 1) : p[j].action_name # p[i].action_name
    BY <1>2, <1>3
  <2> QED
    BY <1>1, <2>1, <2>2 DEF ShadowedRules
<1> QED
  BY <1>5, <1>6, DeadMeansShadowed DEF p
=============================================================================
