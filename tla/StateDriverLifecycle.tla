------------------------- MODULE StateDriverLifecycle -------------------------
(***************************************************************************)
(* A driver of the default machine implements RunLifecycle: each state of  *)
(* the machine stands for a stage, and every transition moves the run as   *)
(* the lifecycle allows or within a stage.                                 *)
(***************************************************************************)
EXTENDS StateDriver

StageOf(state) ==
    CASE state = "created" -> "new"
      [] state \in {"assembling_prompt", "model_pending", "model_completed"}
             -> "preparing"
      [] state \in {"tool_pending", "awaiting_approval"} -> "deciding"
      [] state = "tool_running" -> "acting"
      [] state = "verifying" -> "judging"
      [] state = "retry_pending" -> "recovering"
      [] OTHER -> state

(* A driver of another machine promises no lifecycle: its stage rests. *)
Stage == IF machine = DefaultMachine THEN StageOf(current_state_id) ELSE "new"

Lifecycle == INSTANCE RunLifecycle WITH stage <- Stage

(* The driver of the default machine is a run lifecycle: execution only    *)
(* after a decision, a verdict only on an attempt, retries from the start. *)
ImplementsLifecycle == Lifecycle!Spec
=============================================================================
