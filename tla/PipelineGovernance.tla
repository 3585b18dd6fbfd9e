-------------------------- MODULE PipelineGovernance --------------------------
(* PipelineExecutor implements GovernedRun.                                *)
EXTENDS PipelineExecutor

PhaseAt(place) ==
    CASE place = "idle" -> "open"
      [] place \in {"start", "prompt", "model", "request", "govern", "reject",
                    "grant"} -> "weighing"
      [] place \in {"execute", "in_executor"} -> "cleared"
      [] place \in {"complete", "verify"} -> "worked"
      [] OTHER -> "closed"

PhaseOf == PhaseAt(pc)

RulingOf == IF pc = "idle" \/ Ruling # "block" THEN "permit" ELSE "forbid"

VerdictOf == IF Returned THEN result.terminal_status ELSE "none"

Governed == INSTANCE GovernedRun
    WITH phase <- PhaseOf, ruling <- RulingOf, verdict <- VerdictOf

(* A pipeline run is a governed run: work at most once and only when the    *)
(* ruling permits, one verdict, and every submitted run is closed.          *)
ImplementsGovernedRun == Governed!Spec

(* The part of it that says what a step may do. *)
StepsAreGoverned ==
    Governed!Init /\ [][Governed!Next]_<<PhaseOf, RulingOf, VerdictOf>>
=============================================================================
