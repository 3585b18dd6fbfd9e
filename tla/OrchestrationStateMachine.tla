---------------------- MODULE OrchestrationStateMachine ----------------------
(***************************************************************************)
(* The run lifecycle as data: models/orchestration_state_machine.py.       *)
(*                                                                         *)
(* A machine is a record of an initial state, the terminal states and a    *)
(* set of transition rules.  The list order of the rules is abstracted:    *)
(* the validator NoDuplicateTransitionPairs leaves at most one rule for a  *)
(* state and an event, so "the first match" is "the match".  The guards of *)
(* a rule keep their order, which decides the guard a refusal names.       *)
(***************************************************************************)
EXTENDS Naturals, Sequences

CONSTANT GuardName          \* the names a TransitionGuard may carry

ASSUME GuardNameAssumption ==
    {"retry_budget_available", "approval_granted_if_required"} \subseteq GuardName

RunState == {"created", "assembling_prompt", "model_pending",
             "model_completed", "tool_pending", "tool_running", "verifying",
             "awaiting_approval", "retry_pending",
             "succeeded", "failed", "cancelled"}

RunEvent == {"start_run", "prompt_ready", "model_response_received",
             "tool_call_requested", "no_tool_needed",
             "tool_approved_or_not_required", "approval_required",
             "approval_granted", "approval_rejected", "tool_completed",
             "tool_failed_retryable", "verification_passed",
             "verification_failed_retryable", "verification_failed_terminal",
             "retry_allowed", "cancel_run"}

TransitionRule == [from_state : RunState, event : RunEvent,
                   to_state : RunState, guards : Seq(GuardName)]

Machine == [initial_state : RunState, terminal_states : SUBSET RunState,
            transitions : SUBSET TransitionRule]

-----------------------------------------------------------------------------
(* The validators: a machine that fails one is never constructed. *)

InitialStateNotTerminal(m) == m.initial_state \notin m.terminal_states

NoDuplicateTransitionPairs(m) ==
    \A t, u \in m.transitions :
        (t.from_state = u.from_state /\ t.event = u.event) => t = u

\* mutant
UsedStatesLeft(m) == {m.initial_state} \cup {t.from_state : t \in m.transitions}

UsedStates(m) ==
    {m.initial_state} \cup {t.from_state : t \in m.transitions}
                      \cup {t.to_state : t \in m.transitions}

NonTerminalStatesHaveOutgoing(m) ==
    \A s \in UsedStates(m) \ m.terminal_states :
        \E t \in m.transitions : t.from_state = s

WellFormed(m) ==
    /\ InitialStateNotTerminal(m)
    /\ NoDuplicateTransitionPairs(m)
    /\ NonTerminalStatesHaveOutgoing(m)

-----------------------------------------------------------------------------
(* The machine every run uses unless its caller supplies another. *)

DefaultTerminalStates == {"succeeded", "failed", "cancelled"}

Rule(from, event, to, guards) ==
    [from_state |-> from, event |-> event, to_state |-> to, guards |-> guards]

\* mutant
ApprovalRulesRejectedGoesOn ==
    { Rule("awaiting_approval", "approval_granted", "tool_running",
           <<"approval_granted_if_required">>),
      Rule("awaiting_approval", "approval_rejected", "verifying", <<>>) }

ApprovalRules ==
    { Rule("awaiting_approval", "approval_granted", "tool_running",
           <<"approval_granted_if_required">>),
      Rule("awaiting_approval", "approval_rejected", "failed", <<>>) }

\* mutant
RetryRulesRunTheTool ==
    { Rule("retry_pending", "retry_allowed", "tool_running",
           <<"retry_budget_available">>) }

\* mutant
RetryRulesStartOver ==
    { Rule("retry_pending", "retry_allowed", "created",
           <<"retry_budget_available">>) }

RetryRules ==
    { Rule("retry_pending", "retry_allowed", "assembling_prompt",
           <<"retry_budget_available">>) }

CancelRules ==
    { Rule(s, "cancel_run", "cancelled", <<>>) :
          s \in RunState \ DefaultTerminalStates }

DefaultTransitions ==
    { Rule("created", "start_run", "assembling_prompt", <<>>),
      Rule("assembling_prompt", "prompt_ready", "model_pending", <<>>),
      Rule("model_pending", "model_response_received", "model_completed", <<>>),
      Rule("model_completed", "tool_call_requested", "tool_pending", <<>>),
      Rule("model_completed", "no_tool_needed", "verifying", <<>>),
      Rule("tool_pending", "tool_approved_or_not_required", "tool_running", <<>>),
      Rule("tool_pending", "approval_required", "awaiting_approval", <<>>),
      Rule("tool_running", "tool_completed", "verifying", <<>>),
      Rule("tool_running", "tool_failed_retryable", "retry_pending", <<>>),
      Rule("verifying", "verification_passed", "succeeded", <<>>),
      Rule("verifying", "verification_failed_retryable", "retry_pending", <<>>),
      Rule("verifying", "verification_failed_terminal", "failed", <<>>) }
    \cup ApprovalRules \cup RetryRules \cup CancelRules

DefaultMachine == [initial_state   |-> "created",
                   terminal_states |-> DefaultTerminalStates,
                   transitions     |-> DefaultTransitions]
=============================================================================
