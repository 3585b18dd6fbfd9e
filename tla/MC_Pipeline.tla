----------------------------- MODULE MC_Pipeline -----------------------------
(* Instances of the pipeline executor for TLC. *)
EXTENDS PipelineGovernance

DefaultGuards == {"retry_budget_available", "approval_granted_if_required"}

(* Legal machines a caller may supply: without a way into the model, the    *)
(* answer, the tool request, without the approval states, or without a way  *)
(* from approval to the tool.  Each is missing a rule that run() uses.      *)
Without(events) ==
    [DefaultMachine EXCEPT !.transitions =
        {t \in @ : t.event \notin events}]

DefaultOnly == {DefaultMachine}
PartialMachines ==
    {DefaultMachine, Without({"prompt_ready"}),
     Without({"model_response_received"}), Without({"tool_call_requested"}),
     Without({"approval_required", "approval_granted"}),
     Without({"tool_approved_or_not_required"}),
     Without({"approval_granted"}), Without({"approval_rejected"}),
     Without({"verification_passed"})}

NoHistoryBound == [m \in Machines |-> 0]     \* DriverNext is not used

AnyPolicies ==
    {NoPolicy, V1DefaultSafetyPolicy,
     <<ActionRiskRule("mock_tool", "require_approval")>>,
     <<ActionRiskRule("model_generate", "allow"),
       ActionRiskRule("mock_tool", "block")>>,
     <<ActionRiskRule("mock_tool", "allow"),
       ActionRiskRule("model_generate", "require_approval")>>,
     <<ActionRiskRule("model_generate", "block")>>}

FewPolicies ==
    {NoPolicy, <<ActionRiskRule("mock_tool", "block")>>,
     <<ActionRiskRule("mock_tool", "require_approval")>>}

NoBlanks == {{}}
BlankTexts == {{}} \cup {{text} : text \in BlankText}

TwoCriteria == {{"lint"}, {"test", "diff_review"}}
OneCriterion == {{"test"}}
=============================================================================
