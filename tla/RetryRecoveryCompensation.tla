----------------------- MODULE RetryRecoveryCompensation -----------------------
(***************************************************************************)
(* models/retry_recovery_compensation_contract.py: one failure, the        *)
(* attempts to retry it, the plan to recover from it, the actions that     *)
(* compensate for it, and what became of it.  Accepts(e) says whether an   *)
(* envelope with the parts e can be constructed; conventions as in         *)
(* ClarificationResolution.  Of the attempts only their number is read.    *)
(* The identifiers of the failure and of the plan that the parts bear are  *)
(* compared with nothing, the validators on side effects and on a failed   *)
(* action without a retry policy have no effect, delays and risks are read *)
(* by nothing: all these are left out.                                     *)
(***************************************************************************)
EXTENDS Naturals

CONSTANTS ActionId      \* places in the list of compensation actions

RetryStrategy == {"none", "fixed", "linear_backoff", "exponential_backoff",
                  "manual_retry"}
RecoveryMode == {"resume_from_checkpoint", "replay_last_step",
                 "replay_from_intent", "handoff_recovery", "manual_recovery",
                 "no_recovery"}
CompensationStatus == {"not_required", "planned", "in_progress", "completed",
                       "failed", "escalated"}
FailureDisposition == {"retrying", "recovered", "compensated", "escalated",
                       "aborted", "terminated"}

RetryPolicy == [retry_strategy : RetryStrategy, max_attempts : Nat]
RecoveryPlan == [recovery_mode : RecoveryMode, checkpoint_ref : BOOLEAN,
                 intent_state_ref : BOOLEAN]
CompensationAction == [action_id : ActionId, execution_order : Nat,
                       status : CompensationStatus, action_notes : BOOLEAN]
ActionsInPlaces == {s \in SUBSET CompensationAction :
                      \A a, b \in s : a.action_id = b.action_id => a = b}
CompensationPlan == [actions : ActionsInPlaces, plan_status : CompensationStatus]

Optional(S) == {x \in SUBSET S : \A a, b \in x : a = b}

Envelope == [unknown_state : BOOLEAN, retry_policy : Optional(RetryPolicy),
             retry_attempts : Nat, recovery_plan : Optional(RecoveryPlan),
             compensation_plan : Optional(CompensationPlan),
             failure_disposition : FailureDisposition \cup {"undecided"}]

-----------------------------------------------------------------------------
(* The validators of a record. *)

NoneStrategyRequiresZeroAttempts(p) ==
    p.retry_strategy = "none" => p.max_attempts = 0

ManualRetryRequiresAttempts(p) ==
    p.retry_strategy = "manual_retry" => p.max_attempts # 0

CheckpointRecoveryRequiresRef(r) ==
    r.recovery_mode = "resume_from_checkpoint" => r.checkpoint_ref

IntentReplayRequiresIntentRef(r) ==
    r.recovery_mode = "replay_from_intent" => r.intent_state_ref

InProgressOrFailedRequiresNotes(a) ==
    a.status \in {"in_progress", "failed"} => a.action_notes

DeterministicExecutionOrder(c) ==
    \A a, b \in c.actions : a.execution_order = b.execution_order => a = b

SideEffectsRequireCompensation(c) ==
    c.actions # {} => c.plan_status # "not_required"

(* The validators of the envelope. *)

NoneStrategyNoAttempts(e) ==
    \A p \in e.retry_policy :
        p.retry_strategy = "none" => e.retry_attempts = 0

UnknownStateBlocksSafeDispositions(e) ==
    e.unknown_state => e.failure_disposition \notin {"recovered", "compensated"}

(* mutant: all where the code asks any.                                    *)
OnlyTotalFailuresRemainVisible(e) ==
    \A c \in e.compensation_plan :
        (c.actions # {} /\ \A a \in c.actions : a.status = "failed") =>
            c.plan_status # "completed"

CompensationFailuresRemainVisible(e) ==
    \A c \in e.compensation_plan :
        (\E a \in c.actions : a.status = "failed") => c.plan_status # "completed"

Accepts(e) ==
    /\ \A p \in e.retry_policy : /\ NoneStrategyRequiresZeroAttempts(p)
                                 /\ ManualRetryRequiresAttempts(p)
    /\ \A r \in e.recovery_plan : /\ CheckpointRecoveryRequiresRef(r)
                                  /\ IntentReplayRequiresIntentRef(r)
    /\ \A c \in e.compensation_plan :
          /\ \A a \in c.actions : InProgressOrFailedRequiresNotes(a)
          /\ DeterministicExecutionOrder(c)
          /\ SideEffectsRequireCompensation(c)
    /\ NoneStrategyNoAttempts(e)
    /\ UnknownStateBlocksSafeDispositions(e)
    /\ CompensationFailuresRemainVisible(e)

-----------------------------------------------------------------------------
(* What an accepted envelope promises. *)

(* What did not work is still to be seen at the top of the record: a       *)
(* failed action carries its notes and keeps its plan from being reported  *)
(* as completed, and a failure that left an unknown state is never closed  *)
(* as recovered or compensated.                                            *)
BadNewsIsKept(e) ==
    /\ \A c \in e.compensation_plan : \A a \in c.actions :
          a.status = "failed" =>
              a.action_notes /\ c.plan_status \notin {"completed", "not_required"}
    /\ e.failure_disposition \in {"recovered", "compensated"} => ~e.unknown_state

(* "apply retry policy ... with max_attempts ceiling" (loop_rules.md:64),  *)
(* "explicit backoff strategy with max attempts" (RECOVERY.md:9); the code *)
(* knows the bound zero only, that of the strategy none.                   *)
AttemptsAreBounded(e) ==
    \A p \in e.retry_policy : e.retry_attempts <= p.max_attempts

(* What the documents let happen next to a failure that is still open can  *)
(* be recorded: one more attempt below the ceiling of its policy, unless   *)
(* the state is unknown; the action that is due, run or failed and its     *)
(* plan with it; and a disposition that hands the failure on.              *)
CanRetry(e) ==
    ~e.unknown_state /\ \E p \in e.retry_policy :
        p.retry_strategy # "none" /\ e.retry_attempts < p.max_attempts

Open(c) == {a \in c.actions : a.status \in {"planned", "in_progress"}}
Due(c) == {a \in Open(c) : \A b \in Open(c) :
             a.execution_order <= b.execution_order}
UnderWay(c) == /\ c.plan_status \in {"planned", "in_progress"}
               /\ \A a \in c.actions : a.status # "failed"

Ran(e, c, a, status, plan) ==
    [e EXCEPT !.compensation_plan =
        {[actions |-> (c.actions \ {a}) \cup
                        {[a EXCEPT !.status = status, !.action_notes = TRUE]},
          plan_status |-> plan]}]

ProgressIsAccepted(e) ==
    e.failure_disposition \in {"undecided", "retrying"} =>
        /\ CanRetry(e) =>
              /\ Accepts([e EXCEPT !.retry_attempts = @ + 1])
              /\ Accepts([e EXCEPT !.failure_disposition = "retrying"])
        /\ \A c \in e.compensation_plan : UnderWay(c) => \A a \in Due(c) :
              /\ Accepts(Ran(e, c, a, "completed", c.plan_status))
              /\ Accepts(Ran(e, c, a, "failed", "failed"))
        /\ \A d \in {"escalated", "aborted", "terminated"} :
              Accepts([e EXCEPT !.failure_disposition = d])
=============================================================================
