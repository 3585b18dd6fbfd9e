------------------------------ MODULE RunningLoop ------------------------------
(***************************************************************************)
(* models/running_loop_contract.py: an agent's loop, its plan, the cycles  *)
(* it has been through and why it stopped.  Accepts(e) says whether an     *)
(* envelope with the parts e can be constructed; conventions as in         *)
(* ClarificationResolution.  Phase, goal, trigger, the rules and the       *)
(* progress of a cycle are read by no rule with an effect:                 *)
(* enforce_max_iterations returns the cycles as they came, and             *)
(* repeated_no_progress_enforced refuses nothing.  Cycles are a sequence,  *)
(* since a loop may go through the same cycle again.  The result of a      *)
(* verification is free text, which loop_rules.md:22 fills with PASS or    *)
(* FAIL; "none" stands for one that is absent or blank, which is all that  *)
(* the code tells apart.                                                   *)
(***************************************************************************)
EXTENDS Naturals, Sequences

Status == {"ready", "running", "paused", "blocked", "completed", "exhausted",
           "failed"}
TerminalStatuses == {"completed", "exhausted", "failed"}
StopReason == {"success", "no_work", "blocked_external", "max_iterations",
               "budget_exceeded", "repeated_no_progress", "approval_required",
               "verification_failed"}

VerificationResult == {"none", "PASS", "FAIL"}
Cycle == [verification_result : VerificationResult]
Plan == [max_iterations : Nat \ {0}, verification_required : BOOLEAN]

Envelope == [status : Status, stop_reason : StopReason \cup {"none"}, plan : Plan,
             cycles : Seq(Cycle), next_action : BOOLEAN]

Passed(e) == \A i \in DOMAIN e.cycles : e.cycles[i].verification_result = "PASS"
Verified(e) == \A i \in DOMAIN e.cycles : e.cycles[i].verification_result # "none"

-----------------------------------------------------------------------------
StopReasonAlignedWithStatus(e) ==
    /\ e.status \in TerminalStatuses => e.stop_reason # "none"
    /\ e.stop_reason # "none" => e.status \in TerminalStatuses

ActiveLoopHasNextAction(e) == e.status = "running" => e.next_action

(* mutant: a loop that failed is asked for verification too.              *)
VerificationForStoppedCycles(e) ==
    (e.status \in TerminalStatuses /\ e.plan.verification_required)
        => Verified(e)

VerificationForCompletedCycles(e) ==
    (e.status \in {"completed", "exhausted"} /\ e.plan.verification_required)
        => Verified(e)

Accepts(e) ==
    /\ StopReasonAlignedWithStatus(e)
    /\ ActiveLoopHasNextAction(e)
    /\ VerificationForCompletedCycles(e)

-----------------------------------------------------------------------------
(* What an accepted envelope promises. *)

(* A loop with a cycle for which no verification was recorded, although    *)
(* its plan asks for one, can only be stopped as failed: "Never mark       *)
(* completed without verification evidence" (loop_rules.md:81).  Evidence  *)
(* that says FAIL is evidence here; see CompletedLoopsPassed.              *)
BadNewsIsKept(e) ==
    (e.plan.verification_required /\ ~Verified(e) /\ e.stop_reason # "none")
        => e.status = "failed"

(* A loop that was a success went through no cycle that failed: "All       *)
(* cycles completed with PASS verification" (loop.md:46).  Not in the code. *)
CompletedLoopsPassed(e) ==
    (/\ e.status = "completed" /\ e.stop_reason = "success"
     /\ e.plan.verification_required)
        => Passed(e)

(* A loop stops on "max_iterations reached" and does not "silently         *)
(* continue past a stop condition" (loop_rules.md:39, 44).  Not in the     *)
(* code: enforce_max_iterations refuses nothing.                           *)
CyclesAreBounded(e) == Len(e.cycles) <= e.plan.max_iterations

(* What the documents let a loop do next can be recorded: a running one    *)
(* below its limit goes through one more cycle, whatever its verification  *)
(* says, or is paused or blocked; one with a failed cycle fails for that   *)
(* reason; one that passed throughout is a success or has no work left;    *)
(* and one that is at its limit, every cycle verified, is exhausted.       *)
Stopped(e, status, reason) == [e EXCEPT !.status = status, !.stop_reason = reason]

ProgressIsAccepted(e) ==
    e.status \notin TerminalStatuses =>
        /\ (e.status = "running" /\ Len(e.cycles) < e.plan.max_iterations) =>
              /\ \A c \in Cycle : Accepts([e EXCEPT !.cycles = Append(@, c)])
              /\ \A status \in {"paused", "blocked"} :
                    Accepts([e EXCEPT !.status = status])
        /\ ~Passed(e) => Accepts(Stopped(e, "failed", "verification_failed"))
        /\ Passed(e) => \A reason \in {"success", "no_work"} :
                           Accepts(Stopped(e, "completed", reason))
        /\ (Verified(e) /\ Len(e.cycles) = e.plan.max_iterations) =>
              Accepts(Stopped(e, "exhausted", "max_iterations"))
=============================================================================
