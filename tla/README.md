# Nova Harness in TLA+

This directory specifies Nova Harness in TLA+: the orchestration state machine and
its driver, the pipeline executor with the safety policy it consults, the context
selection policy, and the eighteen contracts of `models/` whose validators relate
the records of an envelope to one another. TLC checks the modules on small instances;
TLAPS proves the theorems of the `*_proofs` modules for every value of the constants.

Paths below are those of the repository (`harness/pipeline.py` is
`src/harness/pipeline.py` for the map in `PROJECT.json`).

## 1. The system

| part | state | operations | how it interacts |
|---|---|---|---|
| `models/orchestration_state_machine.py` | none: a machine is data, with validators and a default machine | `default_transitions`, `default_machine` | read by the driver |
| `harness/state_driver.py` | `current_state_id`, `history` | `trigger`, `is_terminal`, `available_events` | held by `run()` and, if the caller supplied it, by the caller at the same time |
| `harness/pipeline.py` | the local variables of `PipelineExecutor.run` (step results, invocation, tool result) | `run`, which calls `_make_safety_decision`, `_check_criterion`, `_build_result` | moves a driver by triggers, calls a provider (HTTP) or the caller's `tool_executor`, returns a `PipelineResult` whose `RunTrace` validates itself |
| `harness/model_provider.py` | none | `generate` | an external HTTP service; exceptions reach `run()` |
| `models/approval_safety.py` | none: an ordered list of rules | the default policy | read by `run()` |
| `context_selection/` | the local variables of `ContextSelectionPolicy.select` | gather, score, rank, take under caps | reads a task and a list of top paths |
| `models/*_contract.py` and the other envelopes of `models/` (58 modules) | the records of an envelope; pydantic checks it when it is built or loaded, and not when a client assigns to a field or appends to a list | validators; `check_all_envelope_rules` of two contracts, to be called later | built by whoever fills them in; the harness itself builds the tool invocation, the tool result, the trace, the verification report and the benchmark run |
| `integration_slice.py` | none | one straight-line construction of a mock record | uses `models/` |
| `loop.md`, `loop_rules.md`, `primitives/*.html` | prose | - | what the parts are said to do; quoted where the code differs |

### What is hard, and what correct means

*The driver.* `trigger` may be called with any event and any guard results, for
ever. Hard: a refused guard appends a record and then raises, a refused event
raises and appends nothing, guards count only when the caller reports them, and a
machine may have rules that leave a terminal state. Correct: the history replays
to the current state by rules of the machine; the end is final; a run that is not
over can move; one tool request leads to one execution.

*The executor.* `run()` is sequential, but the driver it moves may be shared:
before the run, after it, and, from inside the `tool_executor` callback, in the
middle of it. Of its `trigger` calls four are in a `try` that returns an error
result, two in one that swallows the error, and eight in none, so a refusal
becomes a result, nothing, or an exception, depending on the step. The verdict is computed at the end from the
state of the driver, which others may have moved. Correct: a success was earned;
the two verdicts of a result agree; a run nobody disturbs raises only for reasons that can be
listed; a driver yields one result; each run ends. Hard as well: `run()` builds records
between its triggers (prompt, invocation, the trace of each criterion) whose validators refuse blank
texts that the contract's own validators let through, and it does so outside any `try`.

*Context selection.* Three loops share one total. Correct: no cap is exceeded,
each kind is cut at a rank, every candidate is accounted for, one kind does not
starve another, a path is decided once.

*The envelopes.* Each is a set of records with cross-references whose validators
run once, at construction. Hard: a rule that is skipped when an optional part is
missing, a validator that has no body, a rule written twice, a comparison that a
NaN passes or that compares numbers as text, a chain of references checked list by
list, a change in place that no validator sees. Correct: what one part names in another is
there; a decision to go ahead is backed by what the envelope records; bad news in
one part is not reported as fine by another; the next step the documents name
is never refused; what a later reader relies on survives the changes in place. The code
does not keep all of this: section 3 says which references, bounds and orders it checks
and which it leaves to its callers.

`PROJECT.json` lists every part ("components") and every hazard with its line
("hazards").

## 2. The modules

| module | models | state and actions |
|---|---|---|
| `OrchestrationStateMachine` | `models/orchestration_state_machine.py` | no state: `Machine`, `WellFormed` (one operator per validator), `DefaultMachine` |
| `StateDriver` | `harness/state_driver.py` | `machine`, `current_state_id`, `history` as in the code; `outcome` is what the last call did to its caller. `trigger` is `Trigger`, by the way it ends: `Reject` (raises before the guards), `Block` (a guard was reported false), `Advance` |
| `RunLifecycle` | abstract | `stage`: what a run promises without its twelve states |
| `StateDriverLifecycle` | - | the refinement mapping from the default machine to `RunLifecycle` |
| `SafetyPolicy` | `_make_safety_decision`, `models/approval_safety.py` | no state: the first rule that names an action decides |
| `PipelineExecutor` | `harness/pipeline.py` | `pc` is the place in `run()`; `approval`, `tool`, `steps`, `result` its local variables; the driver's variables are those of `StateDriver`. One action per step of `run()` with its one trigger call and everything that follows up to the next; `Refuse…` where a record it builds is refused before the next trigger; `NewDriver`, `Submit`, `CallerTrigger` are the caller |
| `GovernedRun` | abstract | a request is weighed, worked at once and only if permitted, and closed with one verdict |
| `PipelineGovernance` | - | the refinement mapping from `PipelineExecutor` to `GovernedRun` |
| `ContextSelection` | `context_selection/` | the local variables of `select()`; one candidate per step: `Take`, `Drop`, `NextKind` |
| `ClarificationResolution`, `AcceptanceDone`, `ExecutionBudget`, `SessionGraph`, `ParallelWorkJoin`, `SupervisorDelegate` | the contract of that name in `models/` | no state: the records, one operator per validator, `Accepts` (the envelope can be constructed), and what an accepted envelope promises |
| `EnvelopeConstruction` | the construction of an envelope of any of these contracts | `held`: the envelope a client holds. One `Build` action per contract, which ends with the envelope or with the refusal; `LetGo` |
| `RetryRecoveryCompensation`, `HandoffReturn`, `RiskEscalation`, `CapabilityNegotiation`, `SkillActivation`, `RoutingArbitration`, `TaskIntake`, `SynthesisFinalization`, `CrossAgentMessaging`, `StepTurnLifecycle`, `RoleSpecialization`, `RunningLoop` | the contract of that name in `models/` | as above |
| `EnvelopeLifecycle` | what becomes of an envelope of these twelve contracts | `held`: the envelope and whether the validators looked at it since its last change (`checked`, `changed`, `rechecked`, `refused`). One `Build` action per contract; the changes in place of four contracts: a source withdrawn (`WithdrawSource`), attempts and compensating actions appended, the statuses of actions and of their plan assigned (`AppendAttempt`, `AppendAction`, `AssignActionStatus`, `AssignPlanStatus`), approvals appended, answered or taken back (`AppendApproval`, `AssignApprovalStatus`), cycles appended and the two fields that stop a loop assigned one at a time (`AppendCycle`, `AssignLoopStatus`, `AssignStopReason`); `Recheck` (`check_all_envelope_rules` of the synthesis contract), `Reload` (`model_validate` of a dump), `LetGo` |
| `MC_*` | - | instances for TLC |
| `StateDriver_proofs`, `SafetyPolicy_proofs`, `PipelineExecutor_proofs`, `ContextSelection_proofs`, `ContextGathering_proofs`, `ContextRanking_proofs`, `EnvelopeConstruction_proofs`, `EnvelopeLifecycle_proofs` | - | theorems |

`PipelineExecutor` EXTENDS `StateDriver` and `SafetyPolicy`: `Call` is a trigger
of the driver followed by what `run()` does when it returns and when it raises.
`EnvelopeConstruction` and `EnvelopeLifecycle` INSTANCE the contract modules. A
contract module has no state of its own; its properties are operators of one envelope,
and the properties of the composing module say of which envelopes they hold.

What the models leave out: timestamps, identifiers, descriptions, prompts,
latencies, reasons and message texts. Of the texts of a pipeline input one thing is kept: which
of those that no validator checked before are blank. There are three places where `run()` then
raises, and a blank is named by the place: `task` (`task_id`, `run_id` and the contract's
`user_request`, used when the bundle and the prompt are built, `pipeline.py:171-172`), `model_name` (the
invocation, :189) and `target` (of a criterion, :293; white space, since the empty text is
replaced by the kind). A tool's output is the set of criterion
kinds it satisfies, restricted to the sets `_check_criterion` can produce for what
a provider or an executor returns: a provider's text is never shorter than twenty
characters once printed, an executor's may be empty. A path is a model value; what
the code reads off its text is a set of paths. Drivers are constructed with their
defaults (`StateDriver(machine=m)`), as everywhere in the repository; one could be
constructed in any state with any history. Where two rules of a machine would match, there
are none: `no_duplicate_transition_pairs` makes the rule of a state and an event
unique, so the code's "first match" is the only one.

In the contract modules a list of records is the set of its records where no rule
counts or orders them (records with an identifier of their own are told apart by it, `ActionsInPlaces`); the lists whose length or order a rule reads (the branches a join
requires, the nodes it waits for, the sources of a conflict, the cycles of a loop)
are sequences, approvals are told apart by their place in the list, and of the retry
attempts only the number is kept. An optional text is whether it is
given, an optional record is a set of at most one, a version is a number below 100
whose decimal text is what the code compares; the verification result of a cycle is missing, a pass or a
failure. Rules on one value (a blank identifier, a
number outside a range) are left out: they relate nothing. So are most fields that no
rule compares with anything, and the duplicates a list may hold of one and the
same record. Kept although nothing compares them: what a document says a rule is about - the bounds
of a plan and a policy, the fallback of an escalation path, the nodes of a checkpoint, the
terminal nodes of a graph, the completed branches of a join, the status of a budget.

Definitions preceded by the comment `\* mutant` are deliberately wrong variants of
the definition after them. They are used nowhere in the specification; each shows
that a property fails when the code has that bug.

## 3. What is checked

Runs that pass:

- **driver** (`MC_StateDriver.cfg`) - every sequence of triggers and guard results
  on a driver of the default machine and of every legal machine over three states
  that has an optional guarded rule and an optional cancel from `created`, a rule
  from `verifying`, a rule out of `succeeded`, and several sets of terminal states.
  `AuditTrailReplays`, `TerminalEndsHistory`, `NeverStuck`,
  `EachExecutionIsRequested`; the default machine implements
  `RunLifecycle` (`ImplementsLifecycle`). *Bounds:* `MaxHistory` is 14 for the
  default machine (the first request is the fourth record and a round through
  execution, failure and retry to the next request takes six, so two rounds are
  complete and a third has begun) and 2 for the small machines (enough to enter and leave each state). Deadlock
  is checked: a terminal driver still answers by refusing.
- **pipeline_partial** (`MC_Pipeline_partial.cfg`) - one run, six policies
  (none, the default one, a permission, a block and an approval for each source
  of work), two sets of criteria, every answer of provider and executor, one event
  of the caller at any moment, on the default machine and on eight machines that
  each lack a rule `run()` needs: a success is earned (`SuccessIsEarned`), the rules of a
  policy that decide nothing are those behind a rule for the same action
  (`DeadRulesAreShadowed`), and the run implements `GovernedRun`, its liveness included
  (`ImplementsGovernedRun`).
- **pipeline_shared** (`MC_Pipeline_shared.cfg`) - two runs, which may share a
  driver of the default machine, and four events of the caller before, between
  and in the middle of them: `VerdictsAgree`, `UndisturbedRunReturns`,
  `OneResultPerDriver`, `EveryRunEnds`; the driver's trail shows the clearance a
  ruling calls for before any work (`ClearanceIsOnTheTrail`) and what a result says of
  the end (`VerdictIsOnTheTrail`). `UndisturbedRunReturns` lists the exceptions that leave a run
  on a fresh driver nobody else moves: the callback's own, a provider's without a text, and one for each
  blank text, at the step that uses it and no earlier. Four events are enough to bring a fresh
  driver to `tool_pending` behind the back of a run, or to fail and retry one.
- **selection** (`MC_ContextSelection.cfg`) - every call with up to two named
  files, two top paths (one path in common, one excluded), two failures and two
  logs, with and without keywords, under three policies: a total that covers the
  kinds as the default caps do, a total that binds first, a kind that takes
  nothing. `CapsRespected`, `BestOfKindSelected`, `EveryCandidateDecided`,
  `FilesDecidedOnce` (no path twice, no excluded path, and at the end every other path the
  call named), `DroppedOnlyWhenFull`, `DroppedOnlyByOwnCap`. Two of each kind
  give a first, a second and a refused one under the caps 0, 1 and 2.
- **envelopes** (`MC_Envelopes.cfg`) - every envelope of the six contracts that can
  be built from two or three records a list. The lists mix records that are fine,
  invalid alone, and invalid beside others; about one envelope in thirty exists.
  `GoAheadIsBacked`, `ProgressIsAccepted`, `RecheckAgrees`, and `CheckedReferencesResolve`: the
  references the code checks lead to one record, also along chains (a session's question is about a
  recorded gap, a charge is to a line of this budget, whatever can be reached from the entry of a graph
  is one node). Not among them, because no validator looks them up: the terminal nodes of a
  graph, the active, completed and failed nodes of a branch, the completed nodes of a join,
  everything a checkpoint names but its graph, the branches a join requires or reports as
  completed, and the return a review names when no return is there.
  `ProgressIsAccepted` speaks of the next step a document names and of nothing it forbids: evidence
  and resolutions are added, an active budget is used on a line without a threshold, a graph grows by a
  node and an edge, outputs and conflicts come in before the merge and a merge follows when every
  required branch has completed, without conflicts and in sufficient number, a
  running delegate returns, a return is reviewed and acted on as the review disposes.
  Every rule relates at most two records and a reference, so two of a kind show
  each way to break it; the theorems of section 5 say the same without bounds.
- **lifecycle** (`MC_Lifecycle.cfg`) - every envelope of the twelve other contracts
  that can be built from one or two records a list, valid and invalid ones mixed, and
  four of the contracts changed in place, checked again and reloaded, in every order.
  Of an envelope the validators looked at after its last change: `ReferencesResolve`,
  `GoAheadIsBacked`, `BadNewsIsKept` (a failed compensation, an unmet requirement, nothing to
  route to, an open conflict, a cycle whose verification was never recorded) and `ProgressIsAccepted`:
  one more attempt or cycle below its bound, the compensating action that is due run or failed, a
  signature or a decision to stop, a loop ended for the reason its cycles give. Of one they did not
  look at: the later check of a synthesis sees a withdrawn source
  (`WithdrawnSourcesAreCaught`). The other three contracts have no check for later: what holds of them
  holds again after a reload, and in between nothing is claimed. The verdict on a range of versions is wrong exactly
  where digits mislead (`RangesAreMisjudgedByDigits`): versions 8 to 11 cross the step from
  one digit to two in both directions. *Bounds:* `MaxAttempts` 2 is one more than any offered
  policy allows; `MaxCycles` 3 lets a loop that was built with up to two cycles go on; the
  compensating actions offered can stand at two places in the order;
  two approval places are enough for a requirement of two signatures, met, half met and
  met by records that do not count.

`CHECK_DEADLOCK FALSE` stands in the pipeline and selection runs because there the
system stops: after `MaxRuns` runs, and when the selection is made. `MaxRuns`,
`MaxMeddles` and `MaxHistory` are bounds of the instances and restrict what the
environment does, never what a step of the code does.

Runs that find what a document says of the code and the code does not do:

| run | claim | what TLC shows |
|---|---|---|
| driver_guards_evaluated | guards "Prevent unbounded retries", "approval policy bypass" (`primitives/lavish-axi-p10.html:252, 264`) | a guarded rule is taken when its guard is not mentioned |
| pipeline_pending | "Do not proceed while `pending` approval status exists." (`loop_rules.md:72`) | `run()` grants its own approval and the tool runs with the invocation still pending |
| pipeline_failed_start | a result carries the error (`lavish-axi-p16.html:201`) | a run that cannot start raises instead: the trace of the result it builds has no step |
| pipeline_provider_failure | "failure -> return failed" (`lavish-axi-p16.html:219`) | a provider exception without a text makes `run()` raise |
| envelopes_nan | "NaN/Inf amounts rejected" (`budget/PROTOCOL.md:18`) | a line whose `remaining_amount` is NaN is accepted: a NaN is never more than 0.001 away |
| lifecycle_versions | "Version constraints must be coherent (min <= max)" (`capabilities/CAPABILITIES.md:53`) | a requirement from version 8 to version 10 is refused: the two are compared as text |

Ten more claims of documents are stated in the modules and have no run of their own. TLC refutes each when
it is put in the place of the invariants of the configuration named:

| definition | configuration | claim | what TLC shows |
|---|---|---|---|
| `MetricTellsTheGate` | pipeline_partial | `verification_pass`: "did the verification gate pass" (`lavish-axi-p13.html:280`) | a run that stops before its tool, blocked for one, has no failed step and passes the metric of a gate it never reached |
| `PromptIsAssembled` | pipeline_partial | step 0 loads, builds, assembles and is logged (`lavish-axi-p16.html:209-210`) | a contract with a blank request starts the driver and then raises, without a step or a result |
| `DefaultRulesDecide` | pipeline_partial | "Network requests to allowlisted documentation hosts are permitted." (`models/approval_safety.py:240`) | the rule that says so never decides: the rule before it names the same action, and hosts are not compared |
| `MergeWaitsForAll` | envelopes | "wait_for_all requires all required branches to complete before merge" (`parallel/PARALLEL.md:91`) | a merge is accepted while a required branch has no completed output: the loop that looks for one ends in `pass` |
| `ReviewsFollowReturns` | envelopes | a return is submitted, then reviewed (`lavish-axi-p46.html:321-322`) | a delegation is accepted on the review of a return that is not there |
| `CheckpointsCaptureNodes` | envelopes | "Checkpoints capture active/waiting/blocked nodes for recovery" (`graphs/SESSION_GRAPH.md:38`) | a checkpoint names a node the graph does not have |
| `CompletedLoopsPassed` | lifecycle | "All cycles completed with PASS verification" (`loop.md:46`) | a loop is completed with a cycle whose verification failed: any text that is not blank will do |
| `CyclesAreBounded` | lifecycle | "max_iterations reached." stops a loop (`loop_rules.md:39, 44`) | a loop has more cycles than its plan allows: `enforce_max_iterations` returns what it was given |
| `AttemptsAreBounded` | lifecycle | "apply retry policy … with max_attempts ceiling" (`loop_rules.md:64`) | more attempts are recorded than the policy allows |
| `TimedOutHasFallback` | lifecycle | "Timed-out approvals require an escalation path with fallback" (`risk/RISK_APPROVAL.md:75`) | a path without a fallback will do |

Further observations, which the models show as they stand or which need no model.
*Driver and executor:* a driver starts in
`created` whatever the `initial_state` of its machine is (`state_driver.py:21`; the field is in
`primitives/lavish-axi-p10.html:166`), so a legal machine that starts elsewhere and never uses
`created` has a driver that is stuck, against `:276`; a trigger that no rule matches, or that comes after the end,
raises before it appends to the history (`Reject`), against "Each trigger attempt
logged in history" (`primitives/lavish-axi-p15.html:157`); `ExecutorConfig.max_steps`, "Budgets and
limits" (`lavish-axi-p16.html:153`), is never read; the default policy's second rule for `read_file` (`models/approval_safety.py:259`, which blocks credential files) can
never decide either (`DefaultPolicyHasDeadRules`); `gather_doc_candidates` finds nothing, though
`primitives/lavish-axi-p4.html:262` lists a score for documents; failing tests are not
made unique and every error log bears the same name, so a failure can be both selected and
dropped; `total_tool_calls` counts the policy step; a failed tool is reported
with `retry_pending` as its `terminal_state`, and nothing retries.
*Contracts:* nothing compares the method of an attempt with the policy of its field,
against "`allow_default=False` blocks `apply_default` method"
(`clarification/CLARIFICATION.md:62`); a rejected task may be `release_ready`,
against `completion/COMPLETION.md:56`; the branches a join requires need not exist; an overrun needs no decision
(`execution_budget_resource_contract.py:122`, "allowed if overrun decision exists
at envelope level"); the two copies of a delegation request, and the assignment
identifiers of a return and a review, are compared with nothing; a delegation may be
accepted by a review that discards; a merge result without any join is accepted
(`parallel_work_join_contract.py:354`), against "Merge results require completed or partial
join state" (`parallel/PARALLEL.md:93`).
*The twelve contracts of the lifecycle:* a selected route whose candidate is the empty text passes
both rules on it, since one asks `is None` and the other for its truth
(`routing_arbitration_contract.py:195`); an ambiguity may name any field when the intake lists
none, against `intake/INTAKE.md:89`; the type of a handoff is not held against its
ownership mode, so a reviewer may be given write access, against `handoffs/HANDOFF.md:8`;
`proceed_with_constraints` needs no approval where `proceed` does, and one approver may sign
twice (`risk/RISK_APPROVAL.md:62, 77`); a compensation plan may be completed while some of its actions
were never run, against "All compensations succeeded" (`recovery/RECOVERY.md:53`); the rules of `messaging/MESSAGING.md:76-77` are not in the code, and
an acknowledgement of another message is accepted; without a request, the decision on a skill and the
record of its activation may name different ones, and a disabled skill loads; a confidence that is NaN
passes every range; a loop may give a stop reason only with a terminal status,
so one that waits for an approval cannot say so; the phase of a step is compared with
nothing.

## 4. Fairness

`PipelineSpec` has `WF(RunStep)`: `run()` keeps executing, an HTTP call ends (the
client has a timeout) and the callback returns. The caller is under no
obligation: `Submit`, `NewDriver` and `CallerTrigger` have no fairness.
The driver and the
envelopes have none, since they act only when somebody calls, and the selection needs none: nothing is
claimed of its end but what holds there. `GovernedRun` asks for weak fairness of its own
steps but not of `Submit`, and `pipeline_partial` shows that `PipelineSpec`
provides it.

## 5. What is proved

From the assumptions of `StateDriver` only - the machines are legal
(`MachinesAssumption`) and `MaxHistory` gives each a natural number - for any set of guard
names, machines and any length of history:

- `TypeCorrect`: `DriverSpec => []TypeOK`.
- `HistoryIsSound`: `[](AuditTrailReplays /\ TerminalEndsHistory)`. The two are not
  inductive apart: that nothing follows a terminal record needs that the current state
  is the last record's, and `TypeOK`. `TrailInv` is their conjunction. What one
  trigger does to the trail is said once (`Recorded`, `Records`): it leaves it alone or
  appends one record, which `TriggerRecords` derives from the three outcomes of `trigger`;
  `TrailIsKept` and `RequestIsKept` need nothing else, and so serve the driver on its own as well as
  the one that runs and callers share.
- `RunsAreNeverStuck`: `[]NeverStuck`, under the assumption that every machine's
  `initial_state` is `created`. The invariant (`Used`) is that the current state
  is one the validator `non_terminal_states_have_outgoing` looked at: `created` is
  one, and the target of a rule is one. Without the assumption the
  statement is false: such a driver starts in a state no rule may leave.
- `ExecutionsAreRequested`: `[]EachExecutionIsRequested`. Not inductive: it says
  nothing of a run about to execute. `RequestInv` adds that while the driver is in
  `tool_pending` or `awaiting_approval` the history has a request with no execution after it;
  `WaysToTheTool` reads off the rules of the default machine that `tool_running` is entered
  from these two states only, and these from each other or by a request.
- `DefaultMachineIsLegal`: the default machine passes all the validators of a machine, rule by
  rule, so that `MachinesAssumption` holds of it.
- `DefaultDriverImplementsLifecycle`: `DriverSpec => ImplementsLifecycle`; the
  initial state maps to the initial stage and every step to a step or a stutter.

Of policies of any length, from no assumption (`SafetyPolicy_proofs`):

- `DeadMeansShadowed`: the rules whose safety action no decision depends on are exactly those
  behind a rule that names the same action. A rule with no earlier one of its name decides (`FirstRuleDecides`), every
  name of a rule has such a rule (`SomeRuleDecides`), and rewording a rule leaves the names where
  they are (`RewordedRules`).
- `DefaultPolicyHasDeadRules`: in the default policy these are the rules 8 and 10.

From `PipelineAssumption` - criteria are sets of verification kinds and not empty, a policy
is a list of rules with known safety actions, the default machine is among the machines - and the
assumptions of the driver, for any machines, policies, criteria, runs
and events of the caller (`PipelineExecutor_proofs`):

- `PipelineTypeCorrect`: `[]PipelineTypeOK`. `RunInv` adds to it what ties `pc` to the local
  variables (`RunShape`): nothing was returned and nothing blocked while a run is under way,
  the steps are numbered without a gap and their number goes with the place, work is only
  reached past a ruling that permits it, and verification past a tool that succeeded.
  `RunStepEnds` sums up one step of `run()` - it goes on, raises, fails, is rejected
  or is verified - and the theorems below use this instead of the fifteen actions.
- `SuccessesAreEarned`: `[]SuccessIsEarned`, for machines in which `succeeded` is terminal and
  entered by `verification_passed` only, as in the default one
  (`DefaultSucceedsByVerification`); without that a caller can move the driver there.
- `SharedDriversKeepTheirTrail`: `[](AuditTrailReplays /\ TerminalEndsHistory /\
  EachExecutionIsRequested)` of the driver that runs, callers and callbacks move together: a step
  of the pipeline triggers once, triggers not at all, or puts a fresh driver in place
  (`StepRecords`).
- `EndedDriversAreLeftAlone`: an action property; no step changes a driver at its end.
- `ClearancesAreOnTheTrail`, `VerdictsAreOnTheTrail`: `[]ClearanceIsOnTheTrail` and
  `[]VerdictIsOnTheTrail`. The trail only grows while a run holds the driver (`TrailGrowsOnly`), so what
  happened stays (`HappenedStays`), and what a step of `run()` logs it has just triggered. `ClearanceInv`
  adds that a run that waits at `grant` is pending and was told to. The second is for machines in
  which `succeeded` is terminal and entered by `verification_passed` only; there a
  success comes from the trigger that `verify` makes, and that the state a result names was reached is the
  end of the trail (`SharedTrailInv`).
- `RulesBehindDecideNothing`: `[]DeadRulesAreShadowed`, from `DeadMeansShadowed`.
- `RunsCountDown`: `StepsToGo` is at most ten, is zero exactly when no run is under way, falls with
  each step of `run()` and is left alone by everybody else until the next `Submit`. This is the
  safety half of `EveryRunEnds`; weak fairness of `RunStep` is the other.
- `VerdictsAlwaysAgree`, `DriversServeOneRun`: `[]VerdictsAgree`, `[]OneResultPerDriver`. The
  second is not inductive: `ServedInv` adds that a driver that served, or whose run is under way, has
  left `created`, and `created` is entered by no rule.
- `UndisturbedRunsReturn`: `[]UndisturbedRunReturns`. `OnTrack` says in which state an untouched
  driver is at each place of `run()`; from there each trigger finds its rule, so that what is left are
  the exceptions listed in the property (`Excused`): the callback's, the silent provider's, and that of a
  record refused for a blank text.
- `RunsAreGoverned`: `PipelineSpec => StepsAreGoverned`, the refinement of `GovernedRun`
  without its liveness.

From `PoliciesAssumption` - the caps are natural numbers - and `RequestsAssumption` - a call
passes lists - for any requests of any size, scores and sets of paths:

- `CapsAreRespected`: `[]CapsRespected`, with the shape of the state in the
  invariant `CapsInv`.
- `DropsNeedAFullCap`, `KindsDoNotStarve`: `[]DroppedOnlyWhenFull` and `[]DroppedOnlyByOwnCap`.
  `DropsInv` keeps a cap that was full when a candidate was dropped full. When the total covers the
  kinds, a refusal means that the kind is full (`FullTogether`): otherwise
  one count is below its cap, none exceeds its own, and the sum is below the
  total.
- `RankingIsStableSort`: the ranking of a kind is a permutation of its candidates, by falling score,
  ties in order of gathering. Gathering and ranking put the members of a finite set in an order;
  that each member has a place of its own is shown by counting those before it (`CountBefore`, `InOrderLists`: different members have
  different numbers of predecessors, and there are as many numbers as members), so that no step
  needs an induction.
- `AllCandidatesDecided`: `[]EveryCandidateDecided`.
  `WalkInv` counts: the decisions made are the candidates of the kinds passed and those of the
  present kind before `next`; `DecidedInv` adds that each was made on its own candidate and says what
  became of it.
- `SelectedAreBest`: `[]BestOfKindSelected`.
  `CutInv` says that what is selected of a kind is a head of its ranking, and that a loop
  that has refused once has no room left, so that it never takes again.
- `EachFileDecidedOnce`: `[]FilesDecidedOnce`, from what gathering yields, that ranking permutes it
  and that each of its candidates is decided on once.

From `OfferedAssumption` - what clients offer has the fields of the contract - for
any identifiers and any number of records:

- `CheckedReferencesAlwaysResolve`, `GoAheadIsAlwaysBacked`, `RecheckAlwaysAgrees`,
  `ProgressIsAlwaysAccepted`. The invariant (`AcceptedOnly`) is that what is held
  was accepted by its contract; the work is in the lemmas about one contract each, which
  derive the promise from the validators, and for progress derive every validator
  of the next envelope from those of this one.

From `NamesAssumption` and `OfferedAssumption` of `EnvelopeLifecycle` - the names that stand
for nothing name nothing, and what clients offer has the fields of the contract - for any number of
records and any bounds:

- `CheckedReferencesResolve`, `CheckedGoAheadIsBacked`, `CheckedBadNewsIsKept`,
  `CheckedProgressIsAccepted`, `WithdrawalsAreCaught`. `LifecycleInv` has four parts: the shape of
  what is held, its type, that a checked envelope was accepted by its contract
  (`CheckedIsAccepted`), and what withdrawals cannot lose (`ChangedKeeps`): the parts of a release no
  withdrawal touches (`ReleaseIsKept`), and that a synthesis that passed its later check is one
  the check passes. Without it the property of the changed envelope is not inductive. The first four
  follow from `CheckedIsAccepted` and one lemma per contract; that one more approval never makes a backed
  decision unbacked needs that a finite set of records that gains one does not count fewer
  (`ApprovalsGrow`).

- `DigitsDecideRanges`: `[]RangesAreMisjudgedByDigits`. `TextsOfVersions` computes the
  comparison of two texts of at most two digits, `TextErrsByDigits` compares it with the order
  of the numbers: over versions with the same number of digits the code's rule is the documented
  one, and the ranges it gets wrong are named.

Only model-checked: the liveness properties (`EveryRunEnds` and
the fairness part of `ImplementsGovernedRun`), which the prover does not reach;
`RunsCountDown` and `RunsAreGoverned` are what is left of them without
fairness. Every other property of a passing run is stated by a theorem.

## 6. Not modelled, and why

- Hooks, the quality gate, the approval contract and human approval, the two checkpoint
  contracts, failure recovery, retry policy, durable state and budget policy: their
  validators relate the fields of one record, or one request and the decision on it, and no
  operation changes either after construction. A property of such a model would be
  its own rule again; the relations between records that other contracts have, and the changes
  in place that make a rule worth less than it looks, are absent.
- Contracts whose validators look at one field at a time, or require one field when
  another has a value (environment, logging, feedback, artifact output and others;
  `PROJECT.json` lists each): there is no behaviour and no relation to check.
- Parts of modelled files that the harness does not use: `ApprovalRequest` and
  `ApprovalRequirement` of `approval_safety.py`, the tool registry, suites and aggregates of
  `benchmark.py`.
- `integration_slice.py`: straight-line code.
- `harness/model_provider.py` beyond its answers: HTTP and JSON.
- Changes in place of the other fourteen contracts: the repository itself changes an
  object in place at one point only (`harness/pipeline.py:214`, in `PipelineExecutor`), and
  the four chosen are those whose work grows by appending, or that have a check for later.
- Properties of a compensation plan or of approvals that were changed in place and not looked at
  again. The actions are there (`AppendAction`, `AssignActionStatus`, `AssignPlanStatus`,
  `AssignApprovalStatus`), and they break whatever the validators promised until the next
  reload: two actions may be due at once, a decision may outlive the approvals it rested on.
  That the orders of a plan are distinct after a look at it is the rule itself.
- Validators that refuse nothing (`supervisor_delegate_contract.py:196, 315`,
  `execution_budget_resource_contract.py:122, 304`, `running_loop_contract.py:173` and others): they
  have no conjunct in `Accepts`. Where a document says what such a rule is about, the second table
  of section 3 shows that it is not kept.
- The end of a selection: the loops of `select()` run over finite lists.
- An abstract specification of delegated work that the delegation, handoff and parallel
  contracts would refine: no code connects these envelopes, so the steps between them
  would be invented.
