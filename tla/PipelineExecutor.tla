--------------------------- MODULE PipelineExecutor ---------------------------
(***************************************************************************)
(* PipelineExecutor.run of harness/pipeline.py: one task taken from        *)
(* submission to a result.                                                 *)
(*                                                                         *)
(* run() is sequential, but the driver it moves may be the caller's        *)
(* (PipelineInput.state_driver).  The caller can trigger events on it      *)
(* before and after a run and, from inside the tool executor callback, in  *)
(* the middle of one (CallerTrigger).  One step of run() is one action,    *)
(* with the one trigger call it makes; a ValueError of a trigger is        *)
(* caught, swallowed or left to leave run(), as in the code.               *)
(*                                                                         *)
(* Prompts, identifiers, latencies and texts are left out, but for which    *)
(* texts of the input are blank: the input's own validators accept them,   *)
(* and the records run() builds from them do not.  The output of a tool is *)
(* the set of criterion kinds it satisfies.                                *)
(***************************************************************************)
EXTENDS StateDriver, SafetyPolicy, FiniteSets

CONSTANTS NoPolicy,     \* PipelineInput.safety_policy = None
          NoInput,      \* nothing has been submitted yet
          NoResult,     \* run() has not returned
          Policies,     \* safety policies a caller may supply
          Criteria,     \* success criteria (sets of kinds) of a task
          Blanks,       \* which texts of an input may be blank
          MaxRuns,      \* bound: runs submitted
          MaxMeddles    \* bound: events the caller triggers itself

VerificationKind == {"test", "lint", "typecheck", "diff_review"}

(* The texts nobody checks before run() uses them: the task's (task_id,     *)
(* run_id, user_request), the model's name, the target of a criterion.      *)
BlankText == {"task", "model_name", "target"}

ASSUME PipelineAssumption ==
    /\ \A c \in Criteria : c # {} /\ c \subseteq VerificationKind
    /\ \A p \in Policies : p = NoPolicy \/ IsPolicy(p)
    /\ Blanks \subseteq SUBSET BlankText
    /\ DefaultMachine \in Machines      \* run() makes a driver of it
    /\ MaxRuns \in Nat /\ MaxMeddles \in Nat

VARIABLES
    pc,         \* where run() is, or how the last run ended
    input,      \* the pipeline input, and the source of the work
    shared,     \* the caller holds the driver
    quiet,      \* fresh default driver, and untouched by the caller since
    approval,   \* approval_state of the tool invocation
    tool,       \* what the tool or the provider answered
    steps,      \* step_results
    result,     \* the PipelineResult returned
    served,     \* runs of the present driver that returned a result
    runs, meddles

runVars == <<pc, input, approval, tool, steps, result>>
pipelineVars == <<driverVars, runVars, shared, quiet, served, runs, meddles>>

Resting == {"idle", "returned", "raised"}
RunPc == {"start", "prompt", "model", "request", "govern", "reject", "grant",
          "execute", "in_executor", "complete", "verify"}

PipelineInput == [policy : Policies, source : {"provider", "executor"},
                  criteria : Criteria, blank : Blanks]

NoTool == [status |-> "none", satisfied |-> {}]

ToolName == IF input.source = "provider" THEN "model_generate" ELSE "mock_tool"

Ruling == IF input.policy = NoPolicy THEN "allow"
          ELSE MakeSafetyDecision(input.policy, ToolName)

-----------------------------------------------------------------------------
(* _build_result, with the validators of the RunTrace it constructs. *)

\* mutant
StepResultFromOne(index, type, status, invoked) ==
    [step_index |-> index + 1, step_type |-> type, status |-> status,
     invoked |-> invoked]

StepResult(index, type, status, invoked) ==
    [step_index |-> index, step_type |-> type, status |-> status,
     invoked |-> invoked]

CountStatus(ss, status) == Cardinality({i \in 1..Len(ss) : ss[i].status = status})

AtLeastOneStep(ss) == ss # <<>>
StepsHaveMonotonicIndexes(ss) == \A i \in 1..Len(ss) : ss[i].step_index = i - 1
TraceValid(ss) == AtLeastOneStep(ss) /\ StepsHaveMonotonicIndexes(ss)

\* mutant
TerminalStatusOfErrors(state, ss, error) ==
    IF CountStatus(ss, "blocked") > 0 THEN "blocked"
    ELSE IF error THEN "failure" ELSE "success"

TerminalStatus(state, ss, error) ==
    IF CountStatus(ss, "blocked") > 0 THEN "blocked"
    ELSE IF state = "failed" \/ error THEN "failure" ELSE "success"

BuildResult(state, ss, error) ==
    [success           |-> state = "succeeded" /\ ~error,
     terminal_state    |-> state,
     terminal_status   |-> TerminalStatus(state, ss, error),
     verification_pass |-> CountStatus(ss, "failure") = 0,
     total_tool_calls  |-> Cardinality({i \in 1..Len(ss) : ss[i].invoked}),
     error             |-> error]

(* run() ends with a result, or with the ValidationError of an empty trace. *)
Close(ss, error) ==
    /\ steps' = ss
    /\ IF TraceValid(ss)
       THEN /\ pc' = "returned"
            /\ result' = BuildResult(current_state_id', ss, error)
            /\ served' = served + 1
       ELSE pc' = "raised" /\ UNCHANGED <<result, served>>

Goto(place) == pc' = place /\ UNCHANGED <<steps, result, served>>
Raise == Goto("raised")
Log(place, step) ==
    pc' = place /\ steps' = Append(steps, step) /\ UNCHANGED <<result, served>>

(* The trigger call of a step of run(), and what follows it. *)
Call(event, results, onReturn, onRaise) ==
    /\ Trigger(event, results)
    /\ IF outcome' = "returned" THEN onReturn ELSE onRaise

RunFrame == UNCHANGED <<input, shared, quiet, runs, meddles>>

-----------------------------------------------------------------------------
(* The steps of run(). *)

(* The bundle and the prompt of step 0 are built once the driver has moved,  *)
(* outside any try.                                                          *)
StartRun ==
    /\ pc = "start"
    /\ Call("start_run", NoResults,
            IF "task" \in input.blank THEN Raise
            ELSE Log("prompt", StepResult(0, "prompt_assembly", "success", FALSE)),
            Close(steps, TRUE))
    /\ UNCHANGED <<approval, tool>> /\ RunFrame

AdvanceToToolPending ==
    /\ \/ /\ pc = "prompt"
          /\ Call("prompt_ready", NoResults, Goto("model"), Close(steps, TRUE))
       \/ /\ pc = "model"
          /\ Call("model_response_received", NoResults, Goto("request"),
                  Close(steps, TRUE))
       \/ /\ pc = "request"
          /\ Call("tool_call_requested", NoResults, Goto("govern"),
                  Close(steps, TRUE))
    /\ UNCHANGED <<approval, tool>> /\ RunFrame

(* A record run() builds between two calls is refused by its validators.    *)
Refuse(place, text) ==
    /\ pc = place /\ text \in input.blank
    /\ Raise
    /\ UNCHANGED <<driverVars, approval, tool>> /\ RunFrame

(* The ToolInvocation of step 1 names the model; then the ruling of the     *)
(* policy decides.  No ValueError is caught here.                           *)
RefuseInvocation == Refuse("govern", "model_name")

Governing(ruling) ==
    pc = "govern" /\ "model_name" \notin input.blank /\ Ruling = ruling

\* mutant
AllowUnlessApproval ==
    /\ Governing("allow") \/ Governing("block")
    /\ Call("tool_approved_or_not_required", NoResults,
            Log("execute", StepResult(1, "policy_check", "success", TRUE)), Raise)
    /\ approval' = "not_required"
    /\ UNCHANGED tool /\ RunFrame

Allow ==
    /\ Governing("allow")
    /\ Call("tool_approved_or_not_required", NoResults,
            Log("execute",
                StepResult(1, "policy_check",
                           IF input.policy = NoPolicy THEN "skipped"
                           ELSE "success", TRUE)),
            Raise)
    /\ approval' = "not_required"
    /\ UNCHANGED tool /\ RunFrame

\* mutant
RequireApprovalInName ==
    /\ Governing("require_approval")
    /\ Call("tool_approved_or_not_required", NoResults,
            /\ Log("execute", StepResult(1, "approval", "success", TRUE))
            /\ approval' = "pending",
            Raise /\ approval' = "not_required")
    /\ UNCHANGED tool /\ RunFrame

RequireApproval ==
    /\ Governing("require_approval")
    /\ Call("approval_required", NoResults,
            /\ Log("grant", StepResult(1, "approval", "success", TRUE))
            /\ approval' = "pending",
            Raise /\ approval' = "not_required")
    /\ UNCHANGED tool /\ RunFrame

Grant ==
    /\ pc = "grant"
    /\ Call("approval_granted", [g \in {"approval_granted_if_required"} |-> TRUE],
            Goto("execute"), Raise)
    /\ UNCHANGED <<approval, tool>> /\ RunFrame

\* mutant
BlockAtOnce ==
    /\ Governing("block")
    /\ Goto("reject") /\ approval' = "not_required"
    /\ UNCHANGED <<driverVars, tool>> /\ RunFrame

BlockAction ==
    /\ Governing("block")
    /\ Call("approval_required", NoResults, Goto("reject"), Raise)
    /\ approval' = "not_required"
    /\ UNCHANGED tool /\ RunFrame

\* mutant
RejectOffTheRecord ==
    /\ pc = "reject"
    /\ UNCHANGED driverVars
    /\ Close(Append(steps, StepResult(1, "policy_check", "blocked", TRUE)), FALSE)
    /\ UNCHANGED <<approval, tool>> /\ RunFrame

RejectAction ==
    /\ pc = "reject"
    /\ Call("approval_rejected", NoResults,
            Close(Append(steps, StepResult(1, "policy_check", "blocked", TRUE)),
                  FALSE),
            Raise)
    /\ UNCHANGED <<approval, tool>> /\ RunFrame

(* Step 2.  An exception of the provider becomes an error result, unless   *)
(* its text is empty: the ToolResult of an error must carry a message.     *)
(* What a provider returns is never shorter than twenty characters once    *)
(* its three fields are printed, so lint and diff_review always pass.      *)
ProviderOutputs == {s \in SUBSET VerificationKind : {"lint", "diff_review"} \subseteq s}

Answer(place, status, satisfied) ==
    /\ tool' = [status |-> status, satisfied |-> satisfied]
    /\ Goto(place)
    /\ UNCHANGED <<driverVars, approval>> /\ RunFrame

Generate ==
    /\ pc = "execute" /\ input.source = "provider"
    /\ \/ \E s \in ProviderOutputs : Answer("complete", "success", s)
       \/ Answer("complete", "error", {})
       \/ Answer("raised", "silent", {})

EnterExecutor ==
    /\ pc = "execute" /\ input.source = "executor"
    /\ Goto("in_executor")
    /\ UNCHANGED <<driverVars, approval, tool>> /\ RunFrame

(* The executor's output satisfies nothing when it is empty (artifacts     *)
(* alone are a success too) and diff_review whenever it is not.            *)
ExecutorOutputs ==
    {s \in SUBSET VerificationKind : s = {} \/ "diff_review" \in s}

\* mutant
LeaveExecutorOrRetry ==
    /\ pc = "in_executor"
    /\ \/ \E s \in ExecutorOutputs : Answer("complete", "success", s)
       \/ Answer("execute", "error", {})
       \/ Answer("raised", "threw", {})

LeaveExecutor ==
    /\ pc = "in_executor"
    /\ \/ \E s \in ExecutorOutputs : Answer("complete", "success", s)
       \/ \E status \in {"error", "blocked"} : Answer("complete", status, {})
       \/ Answer("raised", "threw", {})

(* The outcome of the trigger is ignored: the ValueError is swallowed.     *)
CompleteTool ==
    /\ pc = "complete" /\ tool.status = "success"
    /\ Trigger("tool_completed", NoResults)
    /\ Log("verify", StepResult(2, "tool_execution", "success", TRUE))
    /\ UNCHANGED <<approval, tool>> /\ RunFrame

FailTool ==
    /\ pc = "complete" /\ tool.status # "success"
    /\ Trigger("tool_failed_retryable", NoResults)
    /\ Close(Append(steps, StepResult(2, "tool_execution", "failure", TRUE)), TRUE)
    /\ UNCHANGED <<approval, tool>> /\ RunFrame

(* Step 3: every criterion is checked on the same output.  The              *)
(* VerificationTrace of a criterion carries its target.                     *)
RefuseCriterion == Refuse("verify", "target")

\* mutant
AnyPasses == input.criteria \cap tool.satisfied # {}

AllPass == input.criteria \subseteq tool.satisfied

Verify ==
    /\ pc = "verify" /\ "target" \notin input.blank
    /\ Call(IF AllPass THEN "verification_passed"
            ELSE "verification_failed_terminal", NoResults,
            Close(Append(steps, StepResult(3, "verification",
                                           IF AllPass THEN "success"
                                           ELSE "failure", FALSE)), FALSE),
            Raise)
    /\ UNCHANGED <<approval, tool>> /\ RunFrame

RunStep == \/ StartRun \/ AdvanceToToolPending
           \/ RefuseInvocation \/ Allow \/ RequireApproval \/ Grant
           \/ BlockAction \/ RejectAction
           \/ Generate \/ EnterExecutor \/ LeaveExecutor
           \/ CompleteTool \/ FailTool \/ RefuseCriterion \/ Verify

-----------------------------------------------------------------------------
(* The caller. *)

FreshDriver(m) ==
    /\ machine' = m
    /\ current_state_id' = "created"
    /\ history' = <<>>
    /\ outcome' = "none"
    /\ served' = 0

(* The caller constructs a driver of its own. *)
NewDriver ==
    /\ pc \in Resting
    /\ \E m \in Machines : FreshDriver(m)
    /\ shared' = TRUE
    /\ UNCHANGED <<runVars, quiet, runs, meddles>>

(* run(input): with the caller's driver, or with one run() makes.          *)
Submit ==
    /\ pc \in Resting /\ runs < MaxRuns
    /\ runs' = runs + 1
    /\ input' \in PipelineInput
    /\ pc' = "start" /\ approval' = "none" /\ tool' = NoTool
    /\ steps' = <<>> /\ result' = NoResult
    /\ \/ /\ shared
          /\ quiet' = (machine = DefaultMachine /\ current_state_id = "created")
          /\ UNCHANGED <<driverVars, shared, served>>
       \/ /\ FreshDriver(DefaultMachine)
          /\ shared' = FALSE /\ quiet' = TRUE
    /\ UNCHANGED meddles

CallerTrigger ==
    /\ shared /\ pc \in Resting \cup {"in_executor"}
    /\ meddles < MaxMeddles /\ meddles' = meddles + 1
    /\ \E event \in RunEvent : \E results \in RelevantResults(event) :
          Trigger(event, results)
    /\ quiet' = (quiet /\ (pc = "in_executor" => outcome' # "returned"))
    /\ UNCHANGED <<runVars, shared, served, runs>>

PipelineInit ==
    /\ DriverInit
    /\ pc = "idle" /\ shared = TRUE /\ quiet = FALSE
    /\ input = NoInput /\ approval = "none" /\ tool = NoTool /\ steps = <<>>
    /\ result = NoResult /\ served = 0 /\ runs = 0 /\ meddles = 0

PipelineNext == RunStep \/ NewDriver \/ Submit \/ CallerTrigger

(* run() keeps executing and the executor returns; the caller need not act. *)
PipelineSpec == PipelineInit /\ [][PipelineNext]_pipelineVars
                             /\ WF_pipelineVars(RunStep)

-----------------------------------------------------------------------------
(* Types *)

StepRecord == [step_index : 0..3,
               step_type : {"prompt_assembly", "policy_check", "approval",
                            "tool_execution", "verification"},
               status : {"success", "failure", "blocked", "skipped"},
               invoked : BOOLEAN]

PipelineTypeOK ==
    /\ TypeOK
    /\ pc \in Resting \cup RunPc
    /\ input \in PipelineInput \cup {NoInput}
    /\ shared \in BOOLEAN /\ quiet \in BOOLEAN
    /\ approval \in {"none", "not_required", "pending"}
    /\ tool.status \in {"none", "success", "error", "blocked", "silent", "threw"}
    /\ tool.satisfied \subseteq VerificationKind
    /\ steps \in Seq(StepRecord)
    /\ served \in Nat /\ runs \in 0..MaxRuns /\ meddles \in 0..MaxMeddles

-----------------------------------------------------------------------------
(* Safety *)

Returned == result # NoResult

(* A result that reports success was earned, whatever the caller did to    *)
(* the driver meanwhile: the ruling did not block, the tool succeeded, its *)
(* output satisfied every criterion, all four steps are in the trace, and  *)
(* the driver stays in succeeded (_build_result reads the state of a       *)
(* driver that others may move).                                           *)
SuccessIsEarned ==
    (Returned /\ result.success) =>
        /\ Ruling # "block"
        /\ tool.status = "success"
        /\ input.criteria \subseteq tool.satisfied
        /\ Len(steps) = 4
        /\ served > 0 => current_state_id = "succeeded"

(* The two verdicts of a result, PipelineResult.success and the trace's    *)
(* terminal_status, are computed from different facts and agree on runs of *)
(* the default machine.                                                    *)
VerdictsAgree ==
    (Returned /\ served > 0 /\ machine = DefaultMachine) =>
        (result.success <=> result.terminal_status = "success")

(* When run() is given a fresh driver of the default machine that nobody    *)
(* else moves, an exception can leave it in five ways only: the callback    *)
(* raises, the provider fails without a message, or a record it builds on   *)
(* its way - the prompt, the invocation, the trace of a criterion - gets a  *)
(* blank text, and then at the step that uses that text and no other.       *)
UndisturbedRunReturns ==
    (pc = "raised" /\ quiet) =>
        \/ tool.status \in {"threw", "silent"}
        \/ "task" \in input.blank /\ steps = <<>>
        \/ "model_name" \in input.blank /\ Len(steps) = 1
        \/ "target" \in input.blank /\ tool.status = "success"

(* The driver's trail holds a move by the event. *)
Happened(event) ==
    \E i \in 1..Len(history) :
        history[i].event = event /\ history[i].decision = "allowed"

(* Work is only done past the clearance its ruling calls for, and the trail *)
(* of the driver shows it: an approval exactly when the policy requires one *)
(* - then the invocation is pending, and nothing else ever becomes of it -  *)
(* or the finding that none is needed.                                      *)
ClearanceIsOnTheTrail ==
    pc \in {"execute", "in_executor", "complete", "verify"} =>
        /\ approval = "pending" <=> Ruling = "require_approval"
        /\ Happened(IF approval = "pending" THEN "approval_granted"
                    ELSE "tool_approved_or_not_required")

(* The rules of the policy a run is governed by that decide nothing are     *)
(* those behind a rule for the same action, and no others: writing a rule   *)
(* behind a broader one changes nothing, in whatever direction it goes.     *)
DeadRulesAreShadowed ==
    (input # NoInput /\ input.policy # NoPolicy) =>
        DeadRules(input.policy) = ShadowedRules(input.policy)

(* What a result says of the end is on the trail of the driver, whoever     *)
(* moved it before or after: the state it names was reached, a success was  *)
(* verified there, a blocked action was rejected there.                     *)
VerdictIsOnTheTrail ==
    (Returned /\ served > 0) =>
        /\ \E n \in 0..Len(history) : StateAfter(n) = result.terminal_state
        /\ result.success => Happened("verification_passed")
        /\ result.terminal_status = "blocked" => Happened("approval_rejected")

(* A driver of the default machine serves one run: no sequence of events   *)
(* brings it back to where a second run() could start and return.          *)
OneResultPerDriver == machine = DefaultMachine => served <= 1

(* Every submitted run ends, with a result or with an exception.           *)
EveryRunEnds == (pc \in RunPc) ~> (pc \in Resting)

-----------------------------------------------------------------------------
(* What the documentation says and run() does not do. *)

(* "Do not proceed while `pending` approval status exists." (loop_rules.md  *)
(* :72; tool_interface.py:70 "set PENDING and approve later").              *)
NoExecutionWhilePending ==
    pc \in {"execute", "in_executor", "complete", "verify"} => approval # "pending"

(* A run that cannot start ends with a result that carries the error: the   *)
(* except branch of START_RUN returns _build_result(..., error=str(e)), and *)
(* P16 lists error among "What comes out" (lavish-axi-p16.html:191-201).    *)
FailedStartReturnsAResult == pc = "raised" => steps # <<>>

(* "failure -> return failed" (primitives/lavish-axi-p16.html:219): a       *)
(* failing provider ends the run with a failed result.                      *)
ProviderFailureReturns ==
    ~(pc = "raised" /\ input.source = "provider" /\ quiet)

(* "verification_pass: did the verification gate pass"                      *)
(* (primitives/lavish-axi-p13.html:280).  The metric counts failed steps,   *)
(* so a run that never came to verification passes it.                      *)
MetricTellsTheGate ==
    (Returned /\ result.verification_pass) =>
        tool.status = "success" /\ input.criteria \subseteq tool.satisfied

(* "Step 0 - load contract + build context + assemble prompt ->             *)
(* PROMPT_ASSEMBLY step" (primitives/lavish-axi-p16.html:209-210): a run    *)
(* on a fresh driver has a step 0, whatever contract was accepted.          *)
PromptIsAssembled == (pc = "raised" /\ quiet) => steps # <<>>

(* "Network requests to allowlisted documentation hosts are permitted."     *)
(* (models/approval_safety.py:240): every rule of the default safety policy  *)
(* decides something.                                                       *)
DefaultRulesDecide ==
    (input # NoInput /\ input.policy = V1DefaultSafetyPolicy) =>
        DeadRules(input.policy) = {}
=============================================================================
