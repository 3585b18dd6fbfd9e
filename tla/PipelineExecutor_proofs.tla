------------------------ MODULE PipelineExecutor_proofs ------------------------
(***************************************************************************)
(* Theorems about the executor, for every set of legal machines a caller   *)
(* may supply (the default one among them), every policy and set of        *)
(* criteria, any number of runs and any number of events the caller        *)
(* triggers on a driver it shares.                                         *)
(***************************************************************************)
EXTENDS PipelineGovernance, StateDriver_proofs, SafetyPolicy_proofs, FiniteSetTheorems

-----------------------------------------------------------------------------
(* The driver, seen from run(). *)

(* A call moved the driver along a rule of its machine. *)
Moved(event) ==
    /\ ~IsTerminal
    /\ \E t \in machine.transitions :
          /\ t.from_state = current_state_id
          /\ t.event = event
          /\ t.to_state = current_state_id'

(* A call that returns has moved the driver; a call that raises has not. *)
LEMMA TriggerMoves ==
    ASSUME NEW event, NEW results, Trigger(event, results)
    PROVE  /\ machine' = machine
           /\ outcome' = "returned" => Moved(event)
           /\ outcome' # "returned" => current_state_id' = current_state_id
BY DEF Trigger, Reject, Block, Advance, Matches, Moved

(* The results that Grant passes are guard results. *)
LEMMA GrantResultsType ==
    [g \in {"approval_granted_if_required"} |-> TRUE] \in GuardResults
<1>1. /\ {"approval_granted_if_required"} \in SUBSET GuardName
      /\ [g \in {"approval_granted_if_required"} |-> TRUE]
            \in [{"approval_granted_if_required"} -> BOOLEAN]
  BY GuardNameAssumption
<1> QED
  BY <1>1 DEF GuardResults

(* In the default machine the call of an event with a rule for the current  *)
(* state returns, if no guard of the rule is reported false.                *)
LEMMA DefaultReturns ==
    ASSUME machine = DefaultMachine, machine \in Machines,
           NEW event, NEW results, Trigger(event, results),
           NEW t \in DefaultTransitions,
           t.from_state = current_state_id, t.event = event,
           current_state_id \notin DefaultTerminalStates,
           FalseGuards(t, results) = {}
    PROVE  outcome' = "returned" /\ current_state_id' = t.to_state
<1>1. \A u \in Matches(event) : u = t
  BY MachinesAssumption
  DEF Matches, WellFormed, NoDuplicateTransitionPairs, DefaultMachine
<1>2. t \in Matches(event) /\ ~IsTerminal
  BY DEF Matches, IsTerminal, DefaultMachine
<1> QED
  BY <1>1, <1>2 DEF Trigger, Reject, Block, Advance

-----------------------------------------------------------------------------
(* The steps a run has recorded. *)

(* One more record in the list of steps. *)
LEMMA AppendStep ==
    ASSUME NEW ss \in Seq(StepRecord), NEW s \in StepRecord
    PROVE  /\ Append(ss, s) \in Seq(StepRecord) /\ Append(ss, s) # <<>>
           /\ Len(ss) \in Nat
           /\ Len(Append(ss, s)) = Len(ss) + 1
           /\ \A i \in 1..Len(ss) : Append(ss, s)[i] = ss[i]
           /\ Append(ss, s)[Len(ss) + 1] = s
BY AppendProperties, LenProperties

(* What the executor records has the fields of a step. *)
LEMMA StepResultType ==
    ASSUME NEW index \in 0..3,
           NEW type \in {"prompt_assembly", "policy_check", "approval",
                         "tool_execution", "verification"},
           NEW status \in {"success", "failure", "blocked", "skipped"},
           NEW invoked \in BOOLEAN
    PROVE  /\ StepResult(index, type, status, invoked) \in StepRecord
           /\ StepResult(index, type, status, invoked).step_index = index
           /\ StepResult(index, type, status, invoked).status = status
BY DEF StepResult, StepRecord

(* A step that continues the numbering keeps the trace valid. *)
LEMMA NumberedOn ==
    ASSUME NEW ss \in Seq(StepRecord), StepsHaveMonotonicIndexes(ss),
           NEW s \in StepRecord, s.step_index = Len(ss)
    PROVE  TraceValid(Append(ss, s)) /\ StepsHaveMonotonicIndexes(Append(ss, s))
<1>1. \A i \in 1..Len(Append(ss, s)) : Append(ss, s)[i].step_index = i - 1
  BY AppendStep DEF StepsHaveMonotonicIndexes
<1>2. Append(ss, s) # <<>>
  BY AppendStep
<1> QED
  BY <1>1, <1>2 DEF TraceValid, AtLeastOneStep, StepsHaveMonotonicIndexes

Blocked(ss) == \E i \in 1..Len(ss) : ss[i].status = "blocked"

(* The trace counts a blocked step if there is one. *)
LEMMA BlockedCount ==
    ASSUME NEW ss \in Seq(StepRecord)
    PROVE  CountStatus(ss, "blocked") > 0 <=> Blocked(ss)
<1> DEFINE B == {i \in 1..Len(ss) : ss[i].status = "blocked"}
<1>1. Len(ss) \in Nat
  BY LenProperties
<1>2. IsFiniteSet(1..Len(ss))
  BY <1>1, FS_Interval
<1>3. IsFiniteSet(B)
  BY <1>2, FS_Subset
<1>4. Cardinality(B) \in Nat /\ (Cardinality(B) = 0 <=> B = {})
  BY <1>3, FS_CardinalityType, FS_EmptySet
<1> QED
  BY <1>4 DEF CountStatus, Blocked

-----------------------------------------------------------------------------
(* The inductive invariant of a run: what its place says of the steps it   *)
(* has recorded, of the ruling and of the answer of the tool.              *)

StepsTaken ==
    /\ pc = "start" => steps = <<>>
    /\ pc \in {"prompt", "model", "request", "govern", "reject"} => Len(steps) = 1
    /\ pc \in {"grant", "execute", "in_executor", "complete"} => Len(steps) = 2
    /\ pc = "verify" => Len(steps) = 3

Ruled ==
    /\ pc = "reject" => Ruling = "block"
    /\ pc \in {"grant", "execute", "in_executor", "complete", "verify"} =>
            Ruling # "block"

RunShape ==
    /\ pc \in RunPc => result = NoResult /\ ~Blocked(steps)
    /\ StepsHaveMonotonicIndexes(steps)
    /\ StepsTaken
    /\ Ruled
    /\ pc = "verify" => tool.status = "success"

(* The variables that belong to run() alone, and their types. *)
RunTypeOK ==
    /\ pc \in Resting \cup RunPc
    /\ approval \in {"none", "not_required", "pending"}
    /\ tool.status \in {"none", "success", "error", "blocked", "silent", "threw"}
    /\ tool.satisfied \subseteq VerificationKind
    /\ steps \in Seq(StepRecord)
    /\ served \in Nat

RunInv == PipelineTypeOK /\ RunShape

-----------------------------------------------------------------------------
(* The ways a step of run() can end. *)

Arrows ==
    {<<"start", "prompt">>, <<"prompt", "model">>, <<"model", "request">>,
     <<"request", "govern">>, <<"govern", "execute">>, <<"govern", "grant">>,
     <<"grant", "execute">>, <<"govern", "reject">>, <<"execute", "in_executor">>,
     <<"execute", "complete">>, <<"in_executor", "complete">>,
     <<"complete", "verify">>}

GoesOn == <<pc, pc'>> \in Arrows /\ result' = NoResult /\ served' = served

(* An exception leaves run(): that of a call, that of the tool, or that of  *)
(* a record that gets a blank text.                                         *)
MayRaise ==
    \/ outcome' # "returned"
    \/ tool'.status \in {"silent", "threw"}
    \/ pc = "start" /\ "task" \in input.blank
    \/ pc = "govern" /\ "model_name" \in input.blank
    \/ pc = "verify" /\ "target" \in input.blank

Raises == pc' = "raised" /\ result' = NoResult /\ served' = served /\ MayRaise

Returns(error) ==
    /\ pc' = "returned" /\ served' = served + 1
    /\ result' = BuildResult(current_state_id', steps', error)

FailsRun ==
    /\ pc \in {"prompt", "model", "request", "complete"}
    /\ Returns(TRUE) /\ ~Blocked(steps')

RejectsRun ==
    /\ pc = "reject" /\ Returns(FALSE)
    /\ Blocked(steps') /\ Moved("approval_rejected")

VerifiesRun ==
    /\ pc = "verify" /\ Returns(FALSE) /\ UNCHANGED tool
    /\ ~Blocked(steps') /\ Len(steps') = 4
    /\ Moved(IF AllPass THEN "verification_passed"
             ELSE "verification_failed_terminal")

Ends == GoesOn \/ Raises \/ FailsRun \/ RejectsRun \/ VerifiesRun

(* What a tool or a provider answers satisfies kinds of criteria. *)
LEMMA OutputsAreKinds ==
    \A s \in ProviderOutputs \cup ExecutorOutputs \cup {{}} : s \subseteq VerificationKind
BY DEF ProviderOutputs, ExecutorOutputs

(* Where a step of run() is taken. *)
LEMMA RunStepPlace ==
    ASSUME RunStep
    PROVE  pc \in RunPc /\ (pc = "start" => StartRun)
BY DEF RunStep, StartRun, AdvanceToToolPending, Governing, Refuse, RefuseInvocation,
       Allow, RequireApproval, Grant, BlockAction, RejectAction, Generate,
       EnterExecutor, LeaveExecutor, CompleteTool, FailTool, RefuseCriterion, Verify,
       RunPc

(* A step of run() is one call of the driver or none. *)
LEMMA RunStepTriggers ==
    ASSUME RunStep
    PROVE  /\ \/ UNCHANGED driverVars
              \/ \E event \in RunEvent, results \in GuardResults :
                    Trigger(event, results)
           /\ RunFrame
BY NoResultsType, GrantResultsType
DEF RunStep, StartRun, AdvanceToToolPending, Allow, RequireApproval, Grant,
    BlockAction, RejectAction, Generate, EnterExecutor, LeaveExecutor, Answer,
    CompleteTool, FailTool, Verify, Call, RunEvent, Refuse, RefuseInvocation,
    RefuseCriterion

(* The ruling is made for the input of the run. *)
LEMMA RulingStays ==
    ASSUME input' = input
    PROVE  Ruling' = Ruling
BY DEF Ruling, ToolName

(* A step of run() that comes to a place and records n steps. *)
WentTo(place, n) ==
    /\ pc' = place /\ result' = NoResult /\ served' = served /\ served' \in Nat
    /\ steps' \in Seq(StepRecord) /\ Len(steps') = Len(steps) + n
    /\ ~Blocked(steps') /\ StepsHaveMonotonicIndexes(steps')
    /\ Ruling' = Ruling

LEMMA AfterGoto ==
    ASSUME RunInv, pc \in RunPc, NEW place, Goto(place), UNCHANGED input
    PROVE  WentTo(place, 0)
<1>1. Len(steps) \in Nat
  BY LenProperties DEF RunInv, PipelineTypeOK
<1> QED
  BY <1>1, RulingStays DEF RunInv, RunShape, PipelineTypeOK, Goto, WentTo

LEMMA AfterLog ==
    ASSUME RunInv, pc \in RunPc, NEW place, NEW s \in StepRecord,
           s.step_index = Len(steps), s.status # "blocked",
           Log(place, s), UNCHANGED input
    PROVE  WentTo(place, 1)
<1>1. steps' = Append(steps, s) /\ steps \in Seq(StepRecord)
  BY DEF RunInv, PipelineTypeOK, Log
<1>2. ~Blocked(steps')
  BY <1>1, AppendStep DEF Blocked, RunInv, RunShape
<1>3. StepsHaveMonotonicIndexes(steps')
  BY <1>1, NumberedOn DEF RunInv, RunShape
<1> QED
  BY <1>1, <1>2, <1>3, AppendStep, RulingStays
  DEF RunInv, RunShape, PipelineTypeOK, Log, WentTo

(* One that ends the run with a valid trace. *)
LEMMA AfterClose ==
    ASSUME RunInv, NEW ss \in Seq(StepRecord), ss # <<>>,
           StepsHaveMonotonicIndexes(ss), NEW error, Close(ss, error)
    PROVE  /\ Returns(error) /\ steps' = ss /\ served' \in Nat
           /\ steps' \in Seq(StepRecord)
           /\ StepsHaveMonotonicIndexes(steps')
BY DEF Close, Returns, TraceValid, AtLeastOneStep, RunInv, PipelineTypeOK

LEMMA ShapeUnfolds ==
    ASSUME RunInv
    PROVE  /\ RunTypeOK /\ StepsTaken /\ Ruled
           /\ steps \in Seq(StepRecord) /\ StepsHaveMonotonicIndexes(steps)
           /\ pc \in RunPc => result = NoResult /\ ~Blocked(steps)
           /\ pc = "verify" => tool.status = "success"
BY DEF RunInv, RunShape, PipelineTypeOK, RunTypeOK

(* What one more step makes of the steps of a run. *)
LEMMA OneMoreStep ==
    ASSUME RunInv, NEW s \in StepRecord, s.step_index = Len(steps)
    PROVE  /\ Append(steps, s) \in Seq(StepRecord) /\ Append(steps, s) # <<>>
           /\ StepsHaveMonotonicIndexes(Append(steps, s))
           /\ Len(Append(steps, s)) = Len(steps) + 1
           /\ s.status = "blocked" => Blocked(Append(steps, s))
           /\ pc \in RunPc /\ s.status # "blocked" => ~Blocked(Append(steps, s))
BY ShapeUnfolds, AppendStep, NumberedOn DEF Blocked

(* The types of what a step assigns besides. *)
AnswerTypeOK ==
    /\ approval \in {"none", "not_required", "pending"}
    /\ tool.status \in {"none", "success", "error", "blocked", "silent", "threw"}
    /\ tool.satisfied \subseteq VerificationKind

Logging == {<<"start", "prompt">>, <<"govern", "execute">>, <<"govern", "grant">>,
            <<"complete", "verify">>}

(* Going on keeps the invariant if it follows the arrows. *)
LEMMA WentOn ==
    ASSUME RunInv, NEW place, <<pc, place>> \in Arrows,
           WentTo(place, IF <<pc, place>> \in Logging THEN 1 ELSE 0),
           AnswerTypeOK',
           pc = "govern" => (place = "reject" <=> Ruling = "block"),
           place = "verify" => tool'.status = "success"
    PROVE  RunTypeOK' /\ RunShape' /\ GoesOn
<1>1. StepsTaken /\ Ruled
  BY ShapeUnfolds
<1>2. pc' = place /\ pc' \in RunPc
  BY DEF WentTo, Arrows, RunPc
<1>3. StepsTaken'
  <2>1. Len(<<>>) = 0
    OBVIOUS
  <2>2. CASE <<pc, place>> \in Logging
    <3>1. Len(steps') = Len(steps) + 1
      BY <2>2 DEF WentTo
    <3>2. CASE pc = "start" /\ place = "prompt"
      BY <1>1, <1>2, <2>1, <3>1, <3>2 DEF StepsTaken
    <3>3. CASE pc = "govern" /\ place \in {"execute", "grant"}
      <4>1. Len(steps) = 1
        BY <1>1, <3>3 DEF StepsTaken
      <4>2. Len(steps') = 2
        BY <3>1, <4>1
      <4> QED
        BY <1>2, <3>3, <4>2 DEF StepsTaken
    <3>4. CASE pc = "complete" /\ place = "verify"
      <4>1. Len(steps) = 2
        BY <1>1, <3>4 DEF StepsTaken
      <4>2. Len(steps') = 3
        BY <3>1, <4>1
      <4> QED
        BY <1>2, <3>4, <4>2 DEF StepsTaken
    <3> QED
      BY <2>2, <3>2, <3>3, <3>4 DEF Logging
  <2>3. CASE <<pc, place>> \notin Logging
    <3>1. Len(steps') = Len(steps) + 0
      BY <2>3 DEF WentTo
    <3>2. Len(steps) \in {1, 2}
      BY <1>1, <2>3 DEF StepsTaken, Arrows, Logging
    <3>3. Len(steps') = Len(steps)
      BY <3>1, <3>2
    <3> QED
      BY <1>1, <1>2, <2>3, <3>3 DEF StepsTaken, Arrows, Logging
  <2> QED
    BY <2>2, <2>3
<1>4. Ruled'
  BY <1>1, <1>2 DEF Ruled, WentTo, Arrows
<1>5. RunShape'
  BY <1>2, <1>3, <1>4 DEF RunShape, WentTo
<1>6. RunTypeOK'
  BY <1>2 DEF RunTypeOK, AnswerTypeOK, WentTo
<1> QED
  BY <1>2, <1>5, <1>6 DEF GoesOn, WentTo

(* An exception that leaves run(). *)
LEMMA RaisedOut ==
    ASSUME RunInv, pc \in RunPc, Goto("raised"), MayRaise, AnswerTypeOK'
    PROVE  RunTypeOK' /\ RunShape' /\ Raises
BY ShapeUnfolds
DEF Goto, Raises, RunShape, RunTypeOK, AnswerTypeOK, StepsTaken, Ruled, RunPc, Resting

(* A result. *)
LEMMA ReturnedOut ==
    ASSUME RunInv, Returns(FALSE) \/ Returns(TRUE), AnswerTypeOK', served' \in Nat,
           steps' \in Seq(StepRecord), StepsHaveMonotonicIndexes(steps')
    PROVE  RunTypeOK' /\ RunShape'
BY DEF Returns, RunShape, RunTypeOK, AnswerTypeOK, StepsTaken, Ruled, RunPc, Resting

(* The four ways a step of run() can go on, in terms of the invariant. *)
LEMMA GotoEnds ==
    ASSUME RunInv, NEW place, <<pc, place>> \in Arrows \ Logging,
           Goto(place), UNCHANGED input, AnswerTypeOK',
           pc = "govern" => (place = "reject" <=> Ruling = "block"), place # "verify"
    PROVE  RunTypeOK' /\ RunShape' /\ Ends
<1>1. pc \in RunPc
  BY DEF Arrows, RunPc
<1>2. WentTo(place, 0)
  BY <1>1, AfterGoto
<1> QED
  BY <1>2, WentOn DEF Ends

LEMMA LogEnds ==
    ASSUME RunInv, NEW place, <<pc, place>> \in Logging,
           NEW s \in StepRecord, s.step_index = Len(steps), s.status # "blocked",
           Log(place, s), UNCHANGED input, AnswerTypeOK',
           pc = "govern" => Ruling # "block",
           place = "verify" => tool'.status = "success"
    PROVE  RunTypeOK' /\ RunShape' /\ Ends
<1>1. pc \in RunPc /\ <<pc, place>> \in Arrows /\ (pc = "govern" => place # "reject")
  BY DEF Arrows, Logging, RunPc
<1>2. WentTo(place, 1)
  BY <1>1, AfterLog
<1> QED
  BY <1>1, <1>2, WentOn DEF Ends

LEMMA RaiseEnds ==
    ASSUME RunInv, pc \in RunPc, Goto("raised"), MayRaise, AnswerTypeOK'
    PROVE  RunTypeOK' /\ RunShape' /\ Ends
BY RaisedOut DEF Ends

LEMMA CloseEnds ==
    ASSUME RunInv, pc \in RunPc, NEW s \in StepRecord, s.step_index = Len(steps),
           NEW error \in BOOLEAN, Close(Append(steps, s), error), AnswerTypeOK'
    PROVE  /\ RunTypeOK' /\ RunShape' /\ Returns(error)
           /\ Len(steps') = Len(steps) + 1
           /\ Blocked(steps') <=> s.status = "blocked"
<1>1. /\ Append(steps, s) \in Seq(StepRecord) /\ Append(steps, s) # <<>>
      /\ StepsHaveMonotonicIndexes(Append(steps, s))
  BY OneMoreStep
<1>2. /\ Returns(error) /\ steps' = Append(steps, s) /\ served' \in Nat
      /\ steps' \in Seq(StepRecord) /\ StepsHaveMonotonicIndexes(steps')
  BY <1>1, AfterClose
<1>3. RunTypeOK' /\ RunShape'
  BY <1>2, ReturnedOut
<1> QED
  BY <1>2, <1>3, OneMoreStep

(* Each step of run() keeps its part of the invariant and ends in one of    *)
(* the ways above.                                                          *)
LEMMA RunStepEnds ==
    ASSUME RunInv, RunStep
    PROVE  RunTypeOK' /\ RunShape' /\ Ends
<1>0. /\ StepsTaken /\ Ruled /\ AnswerTypeOK
      /\ UNCHANGED <<approval, tool>> => AnswerTypeOK'
  BY ShapeUnfolds DEF RunTypeOK, AnswerTypeOK
<1>1. CASE StartRun
  <2>0. PICK s : s = StepResult(0, "prompt_assembly", "success", FALSE)
    OBVIOUS
  <2>1. /\ pc = "start" /\ UNCHANGED <<input, approval, tool>>
        /\ \/ Log("prompt", s)
           \/ Goto("raised") /\ MayRaise
           \/ Close(steps, TRUE) /\ MayRaise
    BY <1>1, <2>0 DEF StartRun, Call, RunFrame, MayRaise, Raise
  <2>2. s \in StepRecord /\ s.step_index = 0 /\ s.status # "blocked"
    BY <2>0 DEF StepResult, StepRecord
  <2>3. steps = <<>> /\ Len(steps) = 0 /\ pc \in RunPc
    BY <1>0, <2>1 DEF StepsTaken, RunPc
  <2>4. CASE Log("prompt", s)
    BY <1>0, <2>1, <2>2, <2>3, <2>4, LogEnds DEF Logging
  <2>5. CASE Close(steps, TRUE) /\ MayRaise
    <3>1. Goto("raised")
      BY <2>3, <2>5 DEF Close, TraceValid, AtLeastOneStep, Goto
    <3> QED
      BY <1>0, <2>1, <2>3, <2>5, <3>1, RaiseEnds
  <2> QED
    BY <1>0, <2>1, <2>3, <2>4, <2>5, RaiseEnds
<1>2. CASE AdvanceToToolPending
  <2> DEFINE place == CASE pc = "prompt" -> "model" [] pc = "model" -> "request"
                        [] pc = "request" -> "govern"
  <2>1. /\ pc \in {"prompt", "model", "request"}
        /\ UNCHANGED <<input, approval, tool>>
        /\ Goto(place) \/ Close(steps, TRUE)
    BY <1>2 DEF AdvanceToToolPending, Call, RunFrame
  <2>2. pc \in RunPc /\ <<pc, place>> \in Arrows \ Logging
    BY <2>1 DEF RunPc, Arrows, Logging
  <2>3. pc # "govern" /\ place # "verify"
    BY <2>1
  <2> HIDE DEF place
  <2>4. CASE Goto(place)
    BY <1>0, <2>1, <2>2, <2>3, <2>4, GotoEnds
  <2>5. CASE Close(steps, TRUE)
    <3>1. /\ steps # <<>> /\ steps \in Seq(StepRecord) /\ ~Blocked(steps)
          /\ StepsHaveMonotonicIndexes(steps)
      <4>1. Len(steps) = 1 /\ Len(<<>>) = 0
        BY <1>0, <2>1 DEF StepsTaken
      <4> QED
        BY <2>2, <4>1, ShapeUnfolds
    <3>2. Returns(TRUE) /\ steps' = steps /\ served' \in Nat
      BY <2>5, <3>1, AfterClose
    <3>3. ~Blocked(steps') /\ steps' \in Seq(StepRecord)
          /\ StepsHaveMonotonicIndexes(steps')
      BY <3>1, <3>2
    <3> QED
      BY <1>0, <2>1, <3>2, <3>3, ReturnedOut DEF FailsRun, Ends
  <2> QED
    BY <2>1, <2>4, <2>5
<1>3. CASE Allow
  <2>1. PICK s : s = StepResult(1, "policy_check",
                        IF input.policy = NoPolicy THEN "skipped" ELSE "success", TRUE)
    OBVIOUS
  <2>2. /\ pc = "govern" /\ Ruling = "allow" /\ UNCHANGED <<input, tool>>
        /\ approval' = "not_required"
        /\ Log("execute", s) \/ (Goto("raised") /\ MayRaise)
    BY <1>3, <2>1 DEF Allow, Governing, Call, RunFrame, Raise, MayRaise
  <2>3. s \in StepRecord /\ s.step_index = 1 /\ s.status # "blocked"
    BY <2>1 DEF StepResult, StepRecord
  <2>4. Len(steps) = 1 /\ pc \in RunPc /\ <<pc, "execute">> \in Logging
    BY <1>0, <2>2 DEF StepsTaken, RunPc, Logging
  <2>5. AnswerTypeOK'
    BY <1>0, <2>2 DEF AnswerTypeOK
  <2> QED
    BY <2>2, <2>3, <2>4, <2>5, LogEnds, RaiseEnds
<1>4. CASE RequireApproval
  <2>1. PICK s : s = StepResult(1, "approval", "success", TRUE)
    OBVIOUS
  <2>2. /\ pc = "govern" /\ Ruling # "block" /\ UNCHANGED <<input, tool>>
        /\ approval' \in {"pending", "not_required"}
        /\ Log("grant", s) \/ (Goto("raised") /\ MayRaise)
    BY <1>4, <2>1 DEF RequireApproval, Governing, Call, RunFrame, Raise, MayRaise
  <2>3. s \in StepRecord /\ s.step_index = 1 /\ s.status # "blocked"
    BY <2>1 DEF StepResult, StepRecord
  <2>4. Len(steps) = 1 /\ pc \in RunPc /\ <<pc, "grant">> \in Logging
    BY <1>0, <2>2 DEF StepsTaken, RunPc, Logging
  <2>5. AnswerTypeOK'
    BY <1>0, <2>2 DEF AnswerTypeOK
  <2> QED
    BY <2>2, <2>3, <2>4, <2>5, LogEnds, RaiseEnds
<1>5. CASE Grant
  <2>1. /\ pc = "grant" /\ UNCHANGED <<input, approval, tool>>
        /\ Goto("execute") \/ (Goto("raised") /\ MayRaise)
    BY <1>5 DEF Grant, Call, RunFrame, Raise, MayRaise
  <2>2. pc \in RunPc /\ <<pc, "execute">> \in Arrows \ Logging
    BY <2>1 DEF RunPc, Arrows, Logging
  <2> QED
    BY <1>0, <2>1, <2>2, GotoEnds, RaiseEnds
<1>6. CASE BlockAction
  <2>1. /\ pc = "govern" /\ Ruling = "block" /\ UNCHANGED <<input, tool>>
        /\ approval' = "not_required"
        /\ Goto("reject") \/ (Goto("raised") /\ MayRaise)
    BY <1>6 DEF BlockAction, Governing, Call, RunFrame, Raise, MayRaise
  <2>2. pc \in RunPc /\ <<pc, "reject">> \in Arrows \ Logging
    BY <2>1 DEF RunPc, Arrows, Logging
  <2>3. AnswerTypeOK'
    BY <1>0, <2>1 DEF AnswerTypeOK
  <2> QED
    BY <2>1, <2>2, <2>3, GotoEnds, RaiseEnds
<1>7. CASE RejectAction
  <2>1. PICK s : s = StepResult(1, "policy_check", "blocked", TRUE)
    OBVIOUS
  <2>2. /\ pc = "reject" /\ UNCHANGED <<input, approval, tool>>
        /\ \/ Close(Append(steps, s), FALSE) /\ outcome' = "returned"
           \/ (Goto("raised") /\ MayRaise)
        /\ Trigger("approval_rejected", NoResults)
    BY <1>7, <2>1 DEF RejectAction, Call, RunFrame, Raise, MayRaise
  <2>3. s \in StepRecord /\ s.step_index = 1 /\ s.status = "blocked"
    BY <2>1 DEF StepResult, StepRecord
  <2>4. Len(steps) = 1 /\ pc \in RunPc
    BY <1>0, <2>2 DEF StepsTaken, RunPc
  <2>5. CASE Close(Append(steps, s), FALSE) /\ outcome' = "returned"
    BY <1>0, <2>2, <2>3, <2>4, <2>5, CloseEnds, TriggerMoves DEF RejectsRun, Ends
  <2> QED
    BY <1>0, <2>2, <2>4, <2>5, RaiseEnds
<1>8. CASE Generate
  <2>1. /\ pc = "execute" /\ UNCHANGED <<input, approval>>
        /\ tool'.status \in {"success", "error", "silent"}
        /\ tool'.satisfied \in ProviderOutputs \cup {{}}
        /\ Goto("complete") \/ (Goto("raised") /\ MayRaise)
    BY <1>8 DEF Generate, Answer, RunFrame, MayRaise
  <2>2. pc \in RunPc /\ <<pc, "complete">> \in Arrows \ Logging
    BY <2>1 DEF RunPc, Arrows, Logging
  <2>3. AnswerTypeOK'
    BY <1>0, <2>1, OutputsAreKinds DEF AnswerTypeOK
  <2> QED
    BY <2>1, <2>2, <2>3, GotoEnds, RaiseEnds
<1>9. CASE EnterExecutor
  <2>1. /\ pc = "execute" /\ UNCHANGED <<input, approval, tool>>
        /\ Goto("in_executor")
    BY <1>9 DEF EnterExecutor, RunFrame
  <2>2. <<pc, "in_executor">> \in Arrows \ Logging
    BY <2>1 DEF Arrows, Logging
  <2> QED
    BY <1>0, <2>1, <2>2, GotoEnds
<1>10. CASE LeaveExecutor
  <2>1. /\ pc = "in_executor" /\ UNCHANGED <<input, approval>>
        /\ tool'.status \in {"success", "error", "blocked", "threw"}
        /\ tool'.satisfied \in ExecutorOutputs \cup {{}}
        /\ Goto("complete") \/ (Goto("raised") /\ MayRaise)
    BY <1>10 DEF LeaveExecutor, Answer, RunFrame, MayRaise
  <2>2. pc \in RunPc /\ <<pc, "complete">> \in Arrows \ Logging
    BY <2>1 DEF RunPc, Arrows, Logging
  <2>3. AnswerTypeOK'
    BY <1>0, <2>1, OutputsAreKinds DEF AnswerTypeOK
  <2> QED
    BY <2>1, <2>2, <2>3, GotoEnds, RaiseEnds
<1>11. CASE CompleteTool
  <2>1. PICK s : s = StepResult(2, "tool_execution", "success", TRUE)
    OBVIOUS
  <2>2. /\ pc = "complete" /\ tool.status = "success"
        /\ UNCHANGED <<input, approval, tool>> /\ Log("verify", s)
    BY <1>11, <2>1 DEF CompleteTool, RunFrame
  <2>3. s \in StepRecord /\ s.step_index = 2 /\ s.status # "blocked"
    BY <2>1 DEF StepResult, StepRecord
  <2>4. Len(steps) = 2 /\ <<pc, "verify">> \in Logging
    BY <1>0, <2>2 DEF StepsTaken, Logging
  <2> QED
    BY <1>0, <2>2, <2>3, <2>4, LogEnds
<1>12. CASE FailTool
  <2>1. PICK s : s = StepResult(2, "tool_execution", "failure", TRUE)
    OBVIOUS
  <2>2. /\ pc = "complete" /\ UNCHANGED <<input, approval, tool>>
        /\ Close(Append(steps, s), TRUE)
    BY <1>12, <2>1 DEF FailTool, RunFrame
  <2>3. s \in StepRecord /\ s.step_index = 2 /\ s.status # "blocked"
    BY <2>1 DEF StepResult, StepRecord
  <2>4. Len(steps) = 2 /\ pc \in RunPc
    BY <1>0, <2>2 DEF StepsTaken, RunPc
  <2> QED
    BY <1>0, <2>2, <2>3, <2>4, CloseEnds DEF FailsRun, Ends
<1>13. CASE Verify
  <2> DEFINE event == IF AllPass THEN "verification_passed"
                      ELSE "verification_failed_terminal"
  <2>1. PICK s : s = StepResult(3, "verification",
                        IF AllPass THEN "success" ELSE "failure", FALSE)
    OBVIOUS
  <2>2. /\ pc = "verify" /\ UNCHANGED <<input, approval, tool>>
        /\ \/ Close(Append(steps, s), FALSE) /\ outcome' = "returned"
           \/ (Goto("raised") /\ MayRaise)
        /\ Trigger(event, NoResults)
    BY <1>13, <2>1 DEF Verify, Call, RunFrame, Raise, MayRaise
  <2>3. s \in StepRecord /\ s.step_index = 3 /\ s.status # "blocked"
    BY <2>1 DEF StepResult, StepRecord
  <2>4. Len(steps) = 3 /\ pc \in RunPc
    BY <1>0, <2>2 DEF StepsTaken, RunPc
  <2>5. CASE Close(Append(steps, s), FALSE) /\ outcome' = "returned"
    <3>1. /\ RunTypeOK' /\ RunShape' /\ Returns(FALSE)
          /\ Len(steps') = Len(steps) + 1 /\ ~Blocked(steps')
      BY <1>0, <2>2, <2>3, <2>4, <2>5, CloseEnds
    <3>2. Moved(event)
      BY <2>2, <2>5, TriggerMoves
    <3>3. Len(steps') = 4
      BY <2>4, <3>1
    <3> QED
      BY <2>2, <3>1, <3>2, <3>3 DEF VerifiesRun, Ends
  <2> QED
    BY <1>0, <2>2, <2>4, <2>5, RaiseEnds
<1>14. CASE RefuseInvocation \/ RefuseCriterion
  <2>1. /\ pc \in RunPc /\ UNCHANGED <<approval, tool>>
        /\ Goto("raised") /\ MayRaise
    BY <1>14 DEF RefuseInvocation, RefuseCriterion, Refuse, Raise, MayRaise, RunPc
  <2> QED
    BY <1>0, <2>1, RaiseEnds
<1> QED
  BY <1>1, <1>2, <1>3, <1>4, <1>5, <1>6, <1>7, <1>8, <1>9, <1>10, <1>11,
     <1>12, <1>13, <1>14 DEF RunStep

(* Steps that leave the variables of run() alone leave its shape alone. *)
LEMMA ShapeStays ==
    ASSUME RunInv, UNCHANGED runVars
    PROVE  RunShape'
BY RulingStays
DEF RunInv, RunShape, StepsTaken, Ruled, Blocked, StepsHaveMonotonicIndexes, runVars

LEMMA FreshDriverType ==
    ASSUME NEW m \in Machines, FreshDriver(m)
    PROVE  TypeOK' /\ served' = 0
BY DEF FreshDriver, TypeOK, RunState, Outcome

LEMMA RunStepKeepsInv ==
    ASSUME RunInv, RunStep
    PROVE  RunInv'
<1>1. RunTypeOK' /\ RunShape'
  BY RunStepEnds
<1>2. TypeOK /\ PipelineTypeOK
  BY DEF RunInv, PipelineTypeOK
<1>3. TypeOK'
  <2>1. CASE UNCHANGED driverVars
    BY <1>2, <2>1 DEF TypeOK, driverVars
  <2>2. CASE \E event \in RunEvent, results \in GuardResults : Trigger(event, results)
    BY <1>2, <2>2, TriggerKeepsType
  <2> QED
    BY <2>1, <2>2, RunStepTriggers
<1>4. RunFrame
  BY RunStepTriggers
<1> QED
  BY <1>1, <1>2, <1>3, <1>4 DEF RunInv, PipelineTypeOK, RunTypeOK, RunFrame

LEMMA NewDriverKeepsInv ==
    ASSUME RunInv, NewDriver
    PROVE  RunInv'
<1>1. PICK m \in Machines : FreshDriver(m)
  BY DEF NewDriver
<1>2. TypeOK' /\ served' = 0
  BY <1>1, FreshDriverType
<1>3. UNCHANGED runVars /\ shared' = TRUE /\ UNCHANGED <<quiet, runs, meddles>>
  BY DEF NewDriver
<1>4. RunShape'
  BY <1>3, ShapeStays
<1> QED
  BY <1>2, <1>3, <1>4 DEF RunInv, PipelineTypeOK, runVars

LEMMA SubmitKeepsInv ==
    ASSUME RunInv, Submit
    PROVE  RunInv'
<1>1. TypeOK' /\ served' \in Nat
  <2>1. CASE UNCHANGED <<driverVars, shared, served>>
    BY <2>1 DEF RunInv, PipelineTypeOK, TypeOK, driverVars
  <2>2. CASE FreshDriver(DefaultMachine)
    BY <2>2, FreshDriverType, PipelineAssumption
  <2> QED
    BY <2>1, <2>2 DEF Submit
<1>2. shared' \in BOOLEAN /\ quiet' \in BOOLEAN /\ meddles' = meddles
  BY DEF Submit, RunInv, PipelineTypeOK
<1>3. /\ pc' = "start" /\ steps' = <<>> /\ result' = NoResult /\ approval' = "none"
      /\ tool' = NoTool /\ input' \in PipelineInput
      /\ runs' = runs + 1 /\ runs < MaxRuns
  BY DEF Submit
<1>4. runs' \in 0..MaxRuns
  BY <1>3, PipelineAssumption DEF RunInv, PipelineTypeOK
<1>5. steps' \in Seq(StepRecord) /\ Len(steps') = 0
  BY <1>3
<1>6. PipelineTypeOK'
  BY <1>1, <1>2, <1>3, <1>4, <1>5 DEF RunInv, PipelineTypeOK, RunPc, NoTool
<1>7. RunShape'
  BY <1>3, <1>5
  DEF RunShape, StepsTaken, Ruled, Blocked, StepsHaveMonotonicIndexes
<1> QED
  BY <1>6, <1>7 DEF RunInv

LEMMA CallerTriggerKeepsInv ==
    ASSUME RunInv, CallerTrigger
    PROVE  RunInv'
<1>1. PICK event \in RunEvent, results \in GuardResults : Trigger(event, results)
  BY DEF CallerTrigger, RelevantResults
<1>2. TypeOK'
  BY <1>1, TriggerKeepsType DEF RunInv, PipelineTypeOK
<1>3. /\ UNCHANGED <<runVars, shared, served, runs>> /\ quiet' \in BOOLEAN
      /\ meddles < MaxMeddles /\ meddles' = meddles + 1
  BY DEF CallerTrigger
<1>4. meddles' \in 0..MaxMeddles
  BY <1>3, PipelineAssumption DEF RunInv, PipelineTypeOK
<1>5. RunShape'
  BY <1>3, ShapeStays
<1> QED
  BY <1>2, <1>3, <1>4, <1>5 DEF RunInv, PipelineTypeOK, runVars

LEMMA RunInvIsKept ==
    ASSUME RunInv, [PipelineNext]_pipelineVars
    PROVE  RunInv'
<1>1. CASE UNCHANGED pipelineVars
  <2>1. RunShape'
    BY <1>1, ShapeStays DEF pipelineVars
  <2>2. TypeOK'
    BY <1>1 DEF pipelineVars, RunInv, PipelineTypeOK, TypeOK, driverVars
  <2> QED
    BY <1>1, <2>1, <2>2 DEF RunInv, PipelineTypeOK, pipelineVars, runVars
<1> QED
  BY <1>1, RunStepKeepsInv, NewDriverKeepsInv, SubmitKeepsInv, CallerTriggerKeepsInv
  DEF PipelineNext

LEMMA RunInvHolds == PipelineSpec => []RunInv
<1>1. PipelineInit => RunInv
  <2> SUFFICES ASSUME PipelineInit PROVE RunInv
    OBVIOUS
  <2>1. TypeOK
    BY DEF PipelineInit, DriverInit, TypeOK, RunState, Outcome
  <2>2. /\ pc = "idle" /\ shared = TRUE /\ quiet = FALSE /\ input = NoInput
        /\ approval = "none" /\ tool = NoTool /\ steps = <<>> /\ served = 0
        /\ runs = 0 /\ meddles = 0
    BY DEF PipelineInit
  <2>3. 0 \in 0..MaxRuns /\ 0 \in 0..MaxMeddles
    BY PipelineAssumption
  <2>4. PipelineTypeOK
    <3>1. steps \in Seq(StepRecord) /\ served \in Nat
      BY <2>2
    <3>2. tool.status = "none" /\ tool.satisfied = {}
      BY <2>2 DEF NoTool
    <3>3. pc \in Resting \cup RunPc
      BY <2>2 DEF Resting
    <3> QED
      BY <2>1, <2>2, <2>3, <3>1, <3>2, <3>3 DEF PipelineTypeOK
  <2>5. RunShape
    BY <2>2 DEF RunShape, RunPc, StepsTaken, Ruled, StepsHaveMonotonicIndexes
  <2> QED
    BY <2>4, <2>5 DEF RunInv
<1>2. RunInv /\ [PipelineNext]_pipelineVars => RunInv'
  BY RunInvIsKept
<1> QED
  BY <1>1, <1>2, PTL DEF PipelineSpec

(* The variables of the executor keep their types. *)
THEOREM PipelineTypeCorrect == PipelineSpec => []PipelineTypeOK
<1>1. RunInv => PipelineTypeOK
  BY DEF RunInv
<1> QED
  BY <1>1, RunInvHolds, PTL

-----------------------------------------------------------------------------
(* The verdict of a result. *)

(* Machines, the default one among them, in which only a passed             *)
(* verification ends a run in succeeded, for good.                          *)
OnlyVerificationSucceeds(m) ==
    /\ "succeeded" \in m.terminal_states
    /\ \A t \in m.transitions :
          t.to_state = "succeeded" => t.event = "verification_passed"

LEMMA DefaultSucceedsByVerification == OnlyVerificationSucceeds(DefaultMachine)
BY DEF OnlyVerificationSucceeds, DefaultMachine, DefaultTerminalStates,
       DefaultTransitions, ApprovalRules, RetryRules, CancelRules, Rule

LEMMA ResultFields ==
    ASSUME NEW error, Returns(error)
    PROVE  /\ result'.success = (current_state_id' = "succeeded" /\ ~error)
           /\ result'.terminal_state = current_state_id'
           /\ result'.terminal_status = TerminalStatus(current_state_id', steps', error)
BY DEF Returns, BuildResult

LEMMA FrameOfStep ==
    ASSUME RunStep
    PROVE  /\ UNCHANGED <<machine, input, shared, quiet, runs, meddles>>
           /\ Ruling' = Ruling
BY RunStepTriggers, TriggerMoves, RulingStays DEF RunFrame, driverVars

(* Success is earned by what run() did, however the caller moved the driver *)
(* meanwhile, with every machine in which only verification succeeds.       *)
THEOREM SuccessesAreEarned ==
    ASSUME \A m \in Machines : OnlyVerificationSucceeds(m)
    PROVE  PipelineSpec => []SuccessIsEarned
<1>1. PipelineInit => SuccessIsEarned
  BY DEF PipelineInit, SuccessIsEarned, Returned
<1>2. RunInv /\ SuccessIsEarned /\ [PipelineNext]_pipelineVars => SuccessIsEarned'
  <2> SUFFICES ASSUME RunInv, SuccessIsEarned, [PipelineNext]_pipelineVars,
                      Returned', result'.success
               PROVE  /\ Ruling' # "block"
                      /\ tool'.status = "success"
                      /\ input'.criteria \subseteq tool'.satisfied
                      /\ Len(steps') = 4
                      /\ served' > 0 => current_state_id' = "succeeded"
    BY DEF SuccessIsEarned
  <2>0. OnlyVerificationSucceeds(machine)
    BY DEF RunInv, PipelineTypeOK, TypeOK
  <2>1. CASE RunStep
    <3>1. FailsRun \/ RejectsRun \/ VerifiesRun
      BY <2>1, RunStepEnds DEF Ends, GoesOn, Raises, Returned
    <3>2. ~FailsRun
      BY ResultFields DEF FailsRun
    <3>3. ~RejectsRun
      BY <2>0, ResultFields DEF RejectsRun, Moved, OnlyVerificationSucceeds
    <3>4. VerifiesRun /\ current_state_id' = "succeeded"
      BY <3>1, <3>2, <3>3, ResultFields DEF VerifiesRun
    <3>5. AllPass
      BY <2>0, <3>4 DEF VerifiesRun, Moved, OnlyVerificationSucceeds
    <3>6. tool.status = "success" /\ Ruling # "block"
      BY <3>4, ShapeUnfolds DEF VerifiesRun, Ruled
    <3> QED
      BY <2>1, <3>4, <3>5, <3>6, FrameOfStep DEF VerifiesRun, AllPass
  <2>2. CASE NewDriver
    BY <2>2, RulingStays DEF NewDriver, FreshDriver, runVars, SuccessIsEarned, Returned
  <2>3. CASE Submit
    BY <2>3 DEF Submit, Returned
  <2>4. CASE CallerTrigger
    <3>1. UNCHANGED <<runVars, served>>
      BY <2>4 DEF CallerTrigger
    <3>2. served > 0 => current_state_id = "succeeded" /\ IsTerminal
      BY <2>0, <3>1 DEF runVars, SuccessIsEarned, Returned, IsTerminal,
                        OnlyVerificationSucceeds
    <3>3. IsTerminal => current_state_id' = current_state_id
      BY <2>4, TriggerMoves DEF CallerTrigger, Moved
    <3> QED
      BY <3>1, <3>2, <3>3, RulingStays DEF runVars, SuccessIsEarned, Returned
  <2>5. CASE UNCHANGED pipelineVars
    BY <2>5, RulingStays DEF pipelineVars, driverVars, runVars, SuccessIsEarned, Returned
  <2> QED
    BY <2>1, <2>2, <2>3, <2>4, <2>5 DEF PipelineNext
<1> QED
  BY <1>1, <1>2, RunInvHolds, PTL DEF PipelineSpec

(* Where the verdict events lead in the default machine. *)
LEMMA DefaultVerdictMoves ==
    ASSUME machine = DefaultMachine, NEW event, Moved(event)
    PROVE  /\ event = "approval_rejected" => current_state_id' = "failed"
           /\ event = "verification_passed" => current_state_id' = "succeeded"
           /\ event = "verification_failed_terminal" => current_state_id' = "failed"
BY DEF Moved, DefaultMachine, DefaultTransitions, ApprovalRules, RetryRules,
       CancelRules, Rule

(* The two verdicts of a result agree, on runs of the default machine.      *)
THEOREM VerdictsAlwaysAgree == PipelineSpec => []VerdictsAgree
<1>1. PipelineInit => VerdictsAgree
  BY DEF PipelineInit, VerdictsAgree, Returned
<1>2. RunInv /\ RunInv' /\ VerdictsAgree /\ [PipelineNext]_pipelineVars
        => VerdictsAgree'
  <2> SUFFICES ASSUME RunInv, RunInv', VerdictsAgree, [PipelineNext]_pipelineVars,
                      Returned', served' > 0, machine' = DefaultMachine
               PROVE  result'.success <=> result'.terminal_status = "success"
    BY DEF VerdictsAgree
  <2>1. CASE RunStep
    <3>1. machine = DefaultMachine /\ steps' \in Seq(StepRecord)
      BY <2>1, FrameOfStep DEF RunInv, PipelineTypeOK
    <3>2. CountStatus(steps', "blocked") > 0 <=> Blocked(steps')
      BY <3>1, BlockedCount
    <3>3. FailsRun \/ RejectsRun \/ VerifiesRun
      BY <2>1, RunStepEnds DEF Ends, GoesOn, Raises, Returned
    <3>4. CASE FailsRun
      BY <3>4, ResultFields DEF FailsRun, TerminalStatus
    <3>5. CASE RejectsRun
      BY <3>1, <3>2, <3>5, ResultFields, DefaultVerdictMoves DEF RejectsRun, TerminalStatus
    <3>6. CASE VerifiesRun
      <4>1. current_state_id' \in {"succeeded", "failed"}
        BY <3>1, <3>6, DefaultVerdictMoves DEF VerifiesRun
      <4> QED
        BY <3>2, <3>6, <4>1, ResultFields DEF VerifiesRun, TerminalStatus
    <3> QED
      BY <3>3, <3>4, <3>5, <3>6
  <2>2. CASE NewDriver
    BY <2>2 DEF NewDriver, FreshDriver
  <2>3. CASE Submit
    BY <2>3 DEF Submit, Returned
  <2>4. CASE CallerTrigger
    BY <2>4, TriggerMoves DEF CallerTrigger, runVars, VerdictsAgree, Returned
  <2>5. CASE UNCHANGED pipelineVars
    BY <2>5 DEF pipelineVars, driverVars, runVars, VerdictsAgree, Returned
  <2> QED
    BY <2>1, <2>2, <2>3, <2>4, <2>5 DEF PipelineNext
<1> QED
  BY <1>1, <1>2, RunInvHolds, PTL DEF PipelineSpec

-----------------------------------------------------------------------------
(* The trail of a driver, seen from the executor. *)

(* A step of the executor is on the record of the driver, or it leaves the  *)
(* driver as it was, or it puts a fresh one in its place.                   *)
Replaces == pc \in Resting /\ \E m \in Machines : FreshDriver(m)

LEMMA StepRecords ==
    ASSUME RunInv, [PipelineNext]_pipelineVars
    PROVE  Records \/ Replaces
<1>0. TypeOK
  BY DEF RunInv, PipelineTypeOK
<1>1. CASE UNCHANGED driverVars
  BY <1>1 DEF Records, driverVars
<1>2. CASE \E event \in RunEvent, results \in GuardResults : Trigger(event, results)
  BY <1>0, <1>2, TriggerRecords
<1>3. CASE RunStep
  BY <1>1, <1>2, <1>3, RunStepTriggers
<1>4. CASE NewDriver
  BY <1>4 DEF NewDriver, Replaces
<1>5. CASE Submit
  <2>1. UNCHANGED driverVars \/ FreshDriver(DefaultMachine)
    BY <1>5 DEF Submit
  <2> QED
    BY <1>1, <1>5, <2>1, PipelineAssumption DEF Submit, Replaces
<1>6. CASE CallerTrigger
  BY <1>2, <1>6 DEF CallerTrigger, RelevantResults
<1> QED
  BY <1>1, <1>3, <1>4, <1>5, <1>6 DEF PipelineNext, pipelineVars

(* A fresh driver has an empty trail, which replays. *)
LEMMA FreshTrail ==
    ASSUME NEW m, FreshDriver(m)
    PROVE  AuditTrailReplays' /\ TerminalEndsHistory' /\ RequestInv'
BY DEF FreshDriver, AuditTrailReplays, TerminalEndsHistory, StateAfter, RequestInv,
       EachExecutionIsRequested

(* What the driver promises of its trail holds of every driver the executor *)
(* moves, shared or its own, replaced or not.                               *)
SharedTrailInv == AuditTrailReplays /\ TerminalEndsHistory /\ RequestInv

LEMMA SharedTrailHolds == PipelineSpec => []SharedTrailInv
<1>1. PipelineInit => SharedTrailInv
  BY DEF PipelineInit, DriverInit, SharedTrailInv, AuditTrailReplays, TerminalEndsHistory,
         StateAfter, RequestInv, EachExecutionIsRequested
<1>2. RunInv /\ SharedTrailInv /\ [PipelineNext]_pipelineVars => SharedTrailInv'
  <2> SUFFICES ASSUME RunInv, SharedTrailInv, [PipelineNext]_pipelineVars
               PROVE  SharedTrailInv'
    OBVIOUS
  <2>1. TypeOK
    BY DEF RunInv, PipelineTypeOK
  <2>2. CASE Records
    BY <2>1, <2>2, TrailIsKept, RequestIsKept DEF SharedTrailInv, TrailInv
  <2>3. CASE Replaces
    BY <2>3, FreshTrail DEF Replaces, SharedTrailInv
  <2> QED
    BY <2>2, <2>3, StepRecords
<1> QED
  BY <1>1, <1>2, RunInvHolds, PTL DEF PipelineSpec

(* The trail of a driver replays, ends at the first terminal state and      *)
(* answers one request by one execution, also when run() and its caller     *)
(* move the driver in turns.                                                *)
THEOREM SharedDriversKeepTheirTrail ==
    PipelineSpec => [](AuditTrailReplays /\ TerminalEndsHistory /\ EachExecutionIsRequested)
<1>1. SharedTrailInv => AuditTrailReplays /\ TerminalEndsHistory /\ EachExecutionIsRequested
  BY DEF SharedTrailInv, RequestInv
<1> QED
  BY <1>1, SharedTrailHolds, PTL

(* No step of run() or of its caller moves a driver that has come to its    *)
(* end or adds to its history; only the caller may put a fresh one there.   *)
THEOREM EndedDriversAreLeftAlone ==
    PipelineSpec =>
        [][IsTerminal => \/ UNCHANGED <<machine, current_state_id, history>>
                         \/ Replaces]_pipelineVars
<1>1. RunInv /\ [PipelineNext]_pipelineVars =>
        [IsTerminal => \/ UNCHANGED <<machine, current_state_id, history>>
                       \/ Replaces]_pipelineVars
  BY StepRecords DEF Records, Recorded
<1> QED
  BY <1>1, RunInvHolds, PTL DEF PipelineSpec

(* What has happened stays on the trail. *)
LEMMA TrailGrowsOnly ==
    ASSUME TypeOK, Records
    PROVE  /\ Len(history) \in Nat /\ Len(history') \in Nat
           /\ Len(history) <= Len(history')
           /\ \A i \in 1..Len(history) : history'[i] = history[i]
<1>1. CASE UNCHANGED <<machine, current_state_id, history>>
  <2>1. Len(history) \in Nat
    BY LenProperties DEF TypeOK
  <2> QED
    BY <1>1, <2>1
<1>2. ASSUME NEW r \in TransitionRecord, Recorded(r)
      PROVE  /\ Len(history) \in Nat /\ Len(history') = Len(history) + 1
             /\ \A i \in 1..Len(history) : history'[i] = history[i]
  BY <1>2, AppendRecord DEF TypeOK, Recorded
<1> QED
  BY <1>1, <1>2 DEF Records

LEMMA HappenedStays ==
    ASSUME TypeOK, Records, NEW event, Happened(event)
    PROVE  Happened(event)'
<1>1. PICK i \in 1..Len(history) :
        history[i].event = event /\ history[i].decision = "allowed"
  BY DEF Happened
<1>2. i \in 1..Len(history') /\ history'[i] = history[i]
  BY <1>1, TrailGrowsOnly
<1> QED
  BY <1>1, <1>2 DEF Happened

LEMMA ReturnedHappened ==
    ASSUME TypeOK, NEW event \in RunEvent, NEW results \in GuardResults,
           Trigger(event, results), outcome' = "returned"
    PROVE  Happened(event)'
<1>1. PICK r \in TransitionRecord :
        Recorded(r) /\ r.event = event /\ r.decision = "allowed"
  BY TriggerRecords
<1>2. /\ Len(history) \in Nat /\ Len(history') = Len(history) + 1
      /\ history'[Len(history) + 1] = r
  BY <1>1, AppendRecord DEF TypeOK, Recorded
<1>3. Len(history) + 1 \in 1..Len(history')
  BY <1>2
<1> QED
  BY <1>1, <1>2, <1>3 DEF Happened

-----------------------------------------------------------------------------
(* What the trail shows of a run. *)

AtWork == {"execute", "in_executor", "complete", "verify"}

(* The strengthening: also where the approval is yet to be granted.         *)
ClearanceInv ==
    /\ ClearanceIsOnTheTrail
    /\ pc = "grant" => approval = "pending" /\ Ruling = "require_approval"

(* How work begins, and how it goes on. *)
LEMMA WorkBegins ==
    ASSUME RunInv, ClearanceInv, RunStep, pc' \in AtWork
    PROVE  \/ /\ pc \in AtWork /\ approval' = approval
           \/ /\ Ruling = "allow" /\ approval' = "not_required"
              /\ Happened("tool_approved_or_not_required")'
           \/ /\ Ruling = "require_approval" /\ approval' = "pending"
              /\ Happened("approval_granted")'
<1> USE DEF AtWork
<1>0. TypeOK
  BY DEF RunInv, PipelineTypeOK
<1>1. CASE StartRun
  BY <1>1 DEF StartRun, Call, Log, Close, Raise, Goto
<1>2. CASE AdvanceToToolPending
  BY <1>2 DEF AdvanceToToolPending, Call, Goto, Close
<1>3. CASE Allow
  <2>1. /\ Ruling = "allow" /\ approval' = "not_required"
        /\ Trigger("tool_approved_or_not_required", NoResults)
        /\ outcome' = "returned"
    BY <1>3 DEF Allow, Governing, Call, Raise, Goto
  <2>2. Happened("tool_approved_or_not_required")'
    BY <1>0, <2>1, NoResultsType, ReturnedHappened DEF RunEvent
  <2> QED
    BY <2>1, <2>2
<1>4. CASE RequireApproval
  BY <1>4 DEF RequireApproval, Call, Log, Raise, Goto
<1>5. CASE Grant
  <2> DEFINE results == [g \in {"approval_granted_if_required"} |-> TRUE]
  <2>1. /\ pc = "grant" /\ approval' = approval
        /\ Trigger("approval_granted", results)
        /\ outcome' = "returned"
    BY <1>5 DEF Grant, Call, Raise, Goto
  <2>2. results \in GuardResults
    BY GrantResultsType
  <2> HIDE DEF results
  <2>3. Happened("approval_granted")'
    BY <1>0, <2>1, <2>2, ReturnedHappened DEF RunEvent
  <2> QED
    BY <2>1, <2>3 DEF ClearanceInv
<1>6. CASE BlockAction \/ RejectAction
  BY <1>6 DEF BlockAction, RejectAction, Call, Close, Raise, Goto
<1>7. CASE Generate \/ EnterExecutor \/ LeaveExecutor
  BY <1>7 DEF Generate, EnterExecutor, LeaveExecutor, Answer
<1>8. CASE CompleteTool \/ FailTool \/ Verify
  BY <1>8 DEF CompleteTool, FailTool, Verify
<1>9. CASE RefuseInvocation \/ RefuseCriterion
  BY <1>9 DEF RefuseInvocation, RefuseCriterion, Refuse, Raise, Goto
<1> QED
  BY <1>1, <1>2, <1>3, <1>4, <1>5, <1>6, <1>7, <1>8, <1>9 DEF RunStep

(* Where the approval is yet to be granted. *)
LEMMA GrantIsAwaited ==
    ASSUME RunInv, RunStep, pc' = "grant"
    PROVE  approval' = "pending" /\ Ruling = "require_approval"
BY DEF RunStep, StartRun, AdvanceToToolPending, Allow, RequireApproval, Grant, BlockAction,
       RejectAction, Generate, EnterExecutor, LeaveExecutor, Answer, CompleteTool, FailTool,
       Verify, Call, Close, Log, Raise, Goto, Governing, Refuse, RefuseInvocation,
       RefuseCriterion

(* Work is cleared as its ruling calls for, the trail shows how, and the    *)
(* invocation of what had to be approved is still pending.                  *)
THEOREM ClearancesAreOnTheTrail == PipelineSpec => []ClearanceIsOnTheTrail
<1>1. PipelineInit => ClearanceInv
  BY DEF PipelineInit, ClearanceInv, ClearanceIsOnTheTrail
<1>2. RunInv /\ ClearanceInv /\ [PipelineNext]_pipelineVars => ClearanceInv'
  <2> SUFFICES ASSUME RunInv, ClearanceInv, [PipelineNext]_pipelineVars
               PROVE  ClearanceInv'
    OBVIOUS
  <2>0. TypeOK
    BY DEF RunInv, PipelineTypeOK
  <2>1. CASE RunStep
    <3>1. Ruling' = Ruling /\ Records
      BY <2>0, <2>1, FrameOfStep, RunStepTriggers, TriggerRecords DEF Records, driverVars
    <3>2. ASSUME pc' \in AtWork
          PROVE  /\ approval' = "pending" <=> Ruling = "require_approval"
                 /\ approval' = "pending" => Happened("approval_granted")'
                 /\ approval' # "pending" => Happened("tool_approved_or_not_required")'
      <4>1. CASE pc \in AtWork /\ approval' = approval
        <5>1. /\ approval = "pending" <=> Ruling = "require_approval"
              /\ approval = "pending" => Happened("approval_granted")
              /\ approval # "pending" => Happened("tool_approved_or_not_required")
          BY <4>1 DEF ClearanceInv, ClearanceIsOnTheTrail, AtWork
        <5> QED
          BY <2>0, <3>1, <4>1, <5>1, HappenedStays
      <4> QED
        BY <2>1, <3>2, <4>1, WorkBegins
    <3> QED
      BY <2>1, <3>1, <3>2, GrantIsAwaited
      DEF ClearanceInv, ClearanceIsOnTheTrail, AtWork
  <2>2. CASE NewDriver
    BY <2>2 DEF NewDriver, runVars, Resting, ClearanceInv, ClearanceIsOnTheTrail
  <2>3. CASE Submit
    BY <2>3 DEF Submit, ClearanceInv, ClearanceIsOnTheTrail
  <2>4. CASE CallerTrigger \/ UNCHANGED pipelineVars
    <3>1. UNCHANGED runVars /\ Ruling' = Ruling
      BY <2>4, RulingStays DEF CallerTrigger, pipelineVars, runVars
    <3>2. Records
      BY <2>0, <2>4, TriggerRecords
      DEF CallerTrigger, RelevantResults, pipelineVars, driverVars, Records
    <3>3. pc \in AtWork =>
            /\ approval = "pending" <=> Ruling = "require_approval"
            /\ approval = "pending" => Happened("approval_granted")
            /\ approval # "pending" => Happened("tool_approved_or_not_required")
      BY DEF ClearanceInv, ClearanceIsOnTheTrail, AtWork
    <3>4. pc \in AtWork =>
            /\ approval = "pending" => Happened("approval_granted")'
            /\ approval # "pending" => Happened("tool_approved_or_not_required")'
      BY <2>0, <3>2, <3>3, HappenedStays
    <3> QED
      BY <3>1, <3>3, <3>4 DEF ClearanceInv, ClearanceIsOnTheTrail, AtWork, runVars
  <2> QED
    BY <2>1, <2>2, <2>3, <2>4 DEF PipelineNext
<1>3. ClearanceInv => ClearanceIsOnTheTrail
  BY DEF ClearanceInv
<1> QED
  BY <1>1, <1>2, <1>3, RunInvHolds, PTL DEF PipelineSpec

(* The call a verdict follows is on the trail. *)
LEMMA VerdictHappened ==
    ASSUME RunInv, RunStep, pc' = "returned"
    PROVE  /\ pc = "reject" => Happened("approval_rejected")'
           /\ pc = "verify" /\ AllPass => Happened("verification_passed")'
<1>0. TypeOK
  BY DEF RunInv, PipelineTypeOK
<1>1. ASSUME pc = "reject" PROVE Happened("approval_rejected")'
  <2>1. RejectAction
    BY <1>1
    DEF RunStep, StartRun, AdvanceToToolPending, Governing, RefuseInvocation, Allow,
        RequireApproval, Grant, BlockAction, Generate, EnterExecutor, LeaveExecutor,
        CompleteTool, FailTool, RefuseCriterion, Refuse, Verify
  <2>2. Trigger("approval_rejected", NoResults) /\ outcome' = "returned"
    BY <2>1 DEF RejectAction, Call, Raise, Goto
  <2> QED
    BY <1>0, <2>2, NoResultsType, ReturnedHappened DEF RunEvent
<1>2. ASSUME pc = "verify", AllPass PROVE Happened("verification_passed")'
  <2>1. Verify
    BY <1>2
    DEF RunStep, StartRun, AdvanceToToolPending, Governing, RefuseInvocation, Allow,
        RequireApproval, Grant, BlockAction, RejectAction, Generate, EnterExecutor,
        LeaveExecutor, CompleteTool, FailTool, RefuseCriterion, Refuse, Raise, Goto
  <2>2. Trigger("verification_passed", NoResults) /\ outcome' = "returned"
    BY <1>2, <2>1 DEF Verify, Call, Raise, Goto
  <2> QED
    BY <1>0, <2>2, NoResultsType, ReturnedHappened DEF RunEvent
<1> QED
  BY <1>1, <1>2

(* What the trail showed of a result it shows for good. *)
LEMMA VerdictStays ==
    ASSUME TypeOK, VerdictIsOnTheTrail, Records, UNCHANGED <<result, served>>
    PROVE  VerdictIsOnTheTrail'
<1> SUFFICES ASSUME Returned, served > 0
             PROVE  /\ \E n \in 0..Len(history') : StateAfter(n)' = result.terminal_state
                    /\ result.success => Happened("verification_passed")'
                    /\ result.terminal_status = "blocked" => Happened("approval_rejected")'
  BY DEF VerdictIsOnTheTrail, Returned
<1>1. PICK n \in 0..Len(history) : StateAfter(n) = result.terminal_state
  BY DEF VerdictIsOnTheTrail
<1>2. n \in 0..Len(history') /\ StateAfter(n)' = StateAfter(n)
  <2>1. n \in 0..Len(history') /\ (n # 0 => n \in 1..Len(history))
    BY TrailGrowsOnly
  <2> QED
    BY <2>1, TrailGrowsOnly DEF StateAfter
<1>3. /\ result.success => Happened("verification_passed")
      /\ result.terminal_status = "blocked" => Happened("approval_rejected")
  BY DEF VerdictIsOnTheTrail
<1> QED
  BY <1>1, <1>2, <1>3, HappenedStays

(* What a result says of the end the trail of the driver bears out, on every *)
(* machine in which only verification succeeds.                              *)
THEOREM VerdictsAreOnTheTrail ==
    ASSUME \A m \in Machines : OnlyVerificationSucceeds(m)
    PROVE  PipelineSpec => []VerdictIsOnTheTrail
<1>1. PipelineInit => VerdictIsOnTheTrail
  BY DEF PipelineInit, VerdictIsOnTheTrail, Returned
<1>2. RunInv /\ RunInv' /\ SharedTrailInv' /\ VerdictIsOnTheTrail
        /\ [PipelineNext]_pipelineVars => VerdictIsOnTheTrail'
  <2> SUFFICES ASSUME RunInv, RunInv', SharedTrailInv', VerdictIsOnTheTrail,
                      [PipelineNext]_pipelineVars
               PROVE  VerdictIsOnTheTrail'
    OBVIOUS
  <2>0. TypeOK /\ TypeOK' /\ OnlyVerificationSucceeds(machine)
    BY DEF RunInv, PipelineTypeOK, TypeOK
  <2>1. ASSUME RunStep, Returned'
        PROVE  /\ \E n \in 0..Len(history') : StateAfter(n)' = result'.terminal_state
               /\ result'.success => Happened("verification_passed")'
               /\ result'.terminal_status = "blocked" => Happened("approval_rejected")'
    <3>1. FailsRun \/ RejectsRun \/ VerifiesRun
      BY <2>1, RunStepEnds DEF Ends, GoesOn, Raises, Returned
    <3>2. pc' = "returned" /\ result'.terminal_state = current_state_id'
      <4>1. PICK error \in BOOLEAN : Returns(error)
        BY <3>1 DEF FailsRun, RejectsRun, VerifiesRun
      <4> QED
        BY <4>1, ResultFields DEF Returns
    <3>3. Len(history') \in 0..Len(history')
          /\ StateAfter(Len(history))' = current_state_id'
      <4>1. Len(history') \in Nat
        BY <2>0, LenProperties DEF TypeOK
      <4> QED
        BY <4>1 DEF SharedTrailInv, AuditTrailReplays
    <3>4. \E n \in 0..Len(history') : StateAfter(n)' = result'.terminal_state
      BY <3>2, <3>3
    <3>5. CountStatus(steps', "blocked") > 0 <=> Blocked(steps')
      BY BlockedCount DEF RunInv, PipelineTypeOK
    <3>6. CASE FailsRun
      BY <3>4, <3>5, <3>6, ResultFields DEF FailsRun, TerminalStatus
    <3>7. CASE RejectsRun
      <4>1. Happened("approval_rejected")'
        BY <2>1, <3>2, <3>7, VerdictHappened DEF RejectsRun
      <4>2. ~result'.success
        BY <2>0, <3>7, ResultFields DEF RejectsRun, Moved, OnlyVerificationSucceeds
      <4> QED
        BY <3>4, <4>1, <4>2
    <3>8. CASE VerifiesRun
      <4>1. result'.terminal_status # "blocked"
        BY <3>5, <3>8, ResultFields DEF VerifiesRun, TerminalStatus
      <4>2. ASSUME result'.success PROVE AllPass
        BY <2>0, <3>8, <4>2, ResultFields DEF VerifiesRun, Moved, OnlyVerificationSucceeds
      <4> QED
        BY <2>1, <3>2, <3>4, <3>8, <4>1, <4>2, VerdictHappened DEF VerifiesRun
    <3> QED
      BY <3>1, <3>6, <3>7, <3>8
  <2>2. CASE RunStep
    BY <2>1, <2>2 DEF VerdictIsOnTheTrail
  <2>3. CASE NewDriver
    BY <2>3 DEF NewDriver, FreshDriver, VerdictIsOnTheTrail
  <2>4. CASE Submit
    BY <2>4 DEF Submit, VerdictIsOnTheTrail, Returned
  <2>5. CASE CallerTrigger \/ UNCHANGED pipelineVars
    <3>1. UNCHANGED <<result, served>>
      BY <2>5 DEF CallerTrigger, pipelineVars, runVars
    <3>2. Records
      BY <2>0, <2>5, TriggerRecords
      DEF CallerTrigger, RelevantResults, pipelineVars, driverVars, Records
    <3> QED
      BY <2>0, <3>1, <3>2, VerdictStays
  <2> QED
    BY <2>2, <2>3, <2>4, <2>5 DEF PipelineNext
<1> QED
  BY <1>1, <1>2, RunInvHolds, SharedTrailHolds, PTL DEF PipelineSpec

(* The rules that decide nothing are those behind a rule for the same       *)
(* action, in every policy a run is given.                                  *)
THEOREM RulesBehindDecideNothing == PipelineSpec => []DeadRulesAreShadowed
<1>1. RunInv => DeadRulesAreShadowed
  BY PipelineAssumption, DeadMeansShadowed
  DEF RunInv, PipelineTypeOK, PipelineInput, DeadRulesAreShadowed
<1> QED
  BY <1>1, RunInvHolds, PTL

-----------------------------------------------------------------------------
(* The end of a run. *)

(* How many steps run() has at most before it is over. *)
StepsToGo ==
    CASE pc = "start" -> 10 [] pc = "prompt" -> 9 [] pc = "model" -> 8
      [] pc = "request" -> 7 [] pc = "govern" -> 6 [] pc \in {"grant", "reject"} -> 5
      [] pc = "execute" -> 4 [] pc = "in_executor" -> 3 [] pc = "complete" -> 2
      [] pc = "verify" -> 1 [] OTHER -> 0

LEMMA StepsToGoAt ==
    /\ pc = "start" => StepsToGo = 10
    /\ pc = "prompt" => StepsToGo = 9
    /\ pc = "model" => StepsToGo = 8
    /\ pc = "request" => StepsToGo = 7
    /\ pc = "govern" => StepsToGo = 6
    /\ pc \in {"grant", "reject"} => StepsToGo = 5
    /\ pc = "execute" => StepsToGo = 4
    /\ pc = "in_executor" => StepsToGo = 3
    /\ pc = "complete" => StepsToGo = 2
    /\ pc = "verify" => StepsToGo = 1
    /\ pc \in Resting => StepsToGo = 0
BY DEF StepsToGo, Resting

LEMMA StepsToGoNext ==
    /\ pc' = "start" => StepsToGo' = 10
    /\ pc' = "prompt" => StepsToGo' = 9
    /\ pc' = "model" => StepsToGo' = 8
    /\ pc' = "request" => StepsToGo' = 7
    /\ pc' = "govern" => StepsToGo' = 6
    /\ pc' \in {"grant", "reject"} => StepsToGo' = 5
    /\ pc' = "execute" => StepsToGo' = 4
    /\ pc' = "in_executor" => StepsToGo' = 3
    /\ pc' = "complete" => StepsToGo' = 2
    /\ pc' = "verify" => StepsToGo' = 1
    /\ pc' \in Resting => StepsToGo' = 0
BY DEF StepsToGo, Resting

(* Every step of run() brings its end nearer, nothing the caller does takes *)
(* it further away, and nothing is left to do exactly when run() is over:   *)
(* the part of EveryRunEnds that does not depend on fairness.               *)
THEOREM RunsCountDown ==
    PipelineSpec =>
        /\ [](StepsToGo \in 0..10 /\ (StepsToGo = 0 <=> pc \in Resting))
        /\ [][\/ RunStep /\ StepsToGo' < StepsToGo
              \/ StepsToGo' = StepsToGo
              \/ StepsToGo = 0 /\ Submit]_pipelineVars
<1>1. RunInv => StepsToGo \in 0..10 /\ (StepsToGo = 0 <=> pc \in Resting)
  BY StepsToGoAt DEF RunInv, PipelineTypeOK, RunPc
<1>2. RunInv /\ [PipelineNext]_pipelineVars =>
        [\/ RunStep /\ StepsToGo' < StepsToGo
         \/ StepsToGo' = StepsToGo
         \/ StepsToGo = 0 /\ Submit]_pipelineVars
  <2> SUFFICES ASSUME RunInv, PipelineNext
               PROVE  \/ RunStep /\ StepsToGo' < StepsToGo
                      \/ StepsToGo' = StepsToGo
                      \/ StepsToGo = 0 /\ Submit
    OBVIOUS
  <2>1. CASE RunStep
    <3>1. Ends /\ pc \in RunPc
      BY <2>1, RunStepPlace, RunStepEnds
    <3>2. CASE GoesOn
      BY <2>1, <3>2, StepsToGoAt, StepsToGoNext DEF GoesOn, Arrows
    <3>3. CASE pc' \in {"raised", "returned"}
      BY <2>1, <3>1, <3>3, StepsToGoAt, StepsToGoNext DEF RunPc, Resting
    <3> QED
      BY <3>1, <3>2, <3>3 DEF Ends, Raises, FailsRun, RejectsRun, VerifiesRun, Returns
  <2>2. CASE Submit
    BY <2>2, StepsToGoAt DEF Submit
  <2>3. CASE NewDriver \/ CallerTrigger
    BY <2>3 DEF NewDriver, CallerTrigger, runVars, StepsToGo
  <2> QED
    BY <2>1, <2>2, <2>3 DEF PipelineNext
<1> QED
  BY <1>1, <1>2, RunInvHolds, PTL DEF PipelineSpec

-----------------------------------------------------------------------------
(* One result per driver. *)

(* In the default machine no rule leads back to created, and a run starts  *)
(* from nowhere else.                                                      *)
LEMMA DefaultStarts ==
    ASSUME machine = DefaultMachine, NEW event, Moved(event)
    PROVE  /\ current_state_id' # "created"
           /\ event = "start_run" => current_state_id = "created"
BY DEF Moved, DefaultMachine, DefaultTransitions, ApprovalRules, RetryRules,
       CancelRules, Rule, RunState

(* The strengthening: a driver that has served a run, or serves one that    *)
(* has begun, has left created.                                             *)
ServedInv ==
    machine = DefaultMachine =>
        /\ served <= 1
        /\ served > 0 => current_state_id # "created"
        /\ pc \in RunPc \ {"start"} => served = 0 /\ current_state_id # "created"

(* A driver of the default machine never serves two runs.                   *)
THEOREM DriversServeOneRun == PipelineSpec => []OneResultPerDriver
<1>1. PipelineInit => ServedInv
  BY DEF PipelineInit, ServedInv, RunPc
<1>2. RunInv /\ ServedInv /\ [PipelineNext]_pipelineVars => ServedInv'
  <2> SUFFICES ASSUME RunInv, ServedInv, [PipelineNext]_pipelineVars,
                      machine' = DefaultMachine
               PROVE  /\ served' <= 1
                      /\ served' > 0 => current_state_id' # "created"
                      /\ pc' \in RunPc \ {"start"} =>
                            served' = 0 /\ current_state_id' # "created"
    BY DEF ServedInv
  <2>0. served \in Nat
    BY DEF RunInv, PipelineTypeOK
  <2>1. CASE RunStep
    <3>1. machine = DefaultMachine
      BY <2>1, FrameOfStep
    <3>2. current_state_id' = current_state_id \/ current_state_id' # "created"
      BY <2>1, <3>1, RunStepTriggers, TriggerMoves, DefaultStarts DEF driverVars
    <3>3. CASE StartRun
      <4>1. pc = "start"
        BY <3>3 DEF StartRun
      <4>2. Goto("raised") \/ (Moved("start_run") /\ pc' = "prompt" /\ served' = served)
        <5>1. Ends /\ steps = <<>>
          BY <2>1, <4>1, RunStepEnds, ShapeUnfolds DEF StepsTaken
        <5> QED
          BY <3>3, <5>1, TriggerMoves
          DEF StartRun, Call, Close, TraceValid, AtLeastOneStep, Goto, Log, Raise
      <4>3. CASE Goto("raised")
        BY <2>0, <3>1, <3>2, <4>3 DEF Goto, ServedInv, RunPc
      <4>4. CASE Moved("start_run") /\ pc' = "prompt" /\ served' = served
        BY <2>0, <3>1, <4>4, DefaultStarts DEF ServedInv
      <4> QED
        BY <4>2, <4>3, <4>4
    <3>4. CASE pc \in RunPc \ {"start"}
      <4>1. served = 0 /\ current_state_id' # "created"
        BY <3>1, <3>2, <3>4 DEF ServedInv
      <4>2. served' = served \/ (served' = served + 1 /\ pc' = "returned")
        BY <2>1, RunStepEnds
        DEF Ends, GoesOn, Raises, FailsRun, RejectsRun, VerifiesRun, Returns
      <4> QED
        BY <4>1, <4>2 DEF RunPc
    <3>5. StartRun \/ pc \in RunPc \ {"start"}
      BY <2>1, RunStepPlace
    <3> QED
      BY <3>3, <3>4, <3>5
  <2>2. CASE NewDriver
    BY <2>2 DEF NewDriver, FreshDriver, runVars, Resting, RunPc
  <2>3. CASE Submit
    <3>1. pc' = "start"
      BY <2>3 DEF Submit
    <3>2. CASE UNCHANGED <<driverVars, shared, served>>
      BY <3>1, <3>2 DEF driverVars, ServedInv
    <3>3. CASE FreshDriver(DefaultMachine)
      BY <3>1, <3>3 DEF FreshDriver
    <3> QED
      BY <2>3, <3>2, <3>3 DEF Submit
  <2>4. CASE CallerTrigger
    <3>1. /\ UNCHANGED <<runVars, served>> /\ machine = DefaultMachine
          /\ current_state_id' = current_state_id \/ current_state_id' # "created"
      BY <2>4, TriggerMoves, DefaultStarts DEF CallerTrigger
    <3> QED
      BY <3>1 DEF ServedInv, runVars
  <2>5. CASE UNCHANGED pipelineVars
    BY <2>5 DEF pipelineVars, driverVars, runVars, ServedInv
  <2> QED
    BY <2>1, <2>2, <2>3, <2>4, <2>5 DEF PipelineNext
<1>3. ServedInv => OneResultPerDriver
  BY DEF ServedInv, OneResultPerDriver
<1> QED
  BY <1>1, <1>2, <1>3, RunInvHolds, PTL DEF PipelineSpec

-----------------------------------------------------------------------------
(* Undisturbed runs. *)

(* The strengthening: on a driver nobody else moves, run() is where the     *)
(* driver is.                                                               *)
OnTrack ==
    /\ pc = "start" => current_state_id = "created"
    /\ pc = "prompt" => current_state_id = "assembling_prompt"
    /\ pc = "model" => current_state_id = "model_pending"
    /\ pc = "request" => current_state_id = "model_completed"
    /\ pc = "govern" => current_state_id = "tool_pending"
    /\ pc \in {"reject", "grant"} => current_state_id = "awaiting_approval"
    /\ pc \in {"execute", "in_executor", "complete"} => current_state_id = "tool_running"
    /\ pc = "verify" => current_state_id = "verifying"

(* The exceptions that may leave such a run. *)
Excused ==
    \/ tool.status \in {"threw", "silent"}
    \/ "task" \in input.blank /\ steps = <<>>
    \/ "model_name" \in input.blank /\ Len(steps) = 1
    \/ "target" \in input.blank /\ tool.status = "success"

QuietInv ==
    quiet => /\ pc \in RunPc => machine = DefaultMachine /\ OnTrack
             /\ pc = "raised" => Excused

(* A call of run() that has a rule for the state of the driver returns.     *)
LEMMA QuietCall ==
    ASSUME RunInv, machine = DefaultMachine, current_state_id \notin DefaultTerminalStates,
           NEW event, NEW to, Rule(current_state_id, event, to, <<>>) \in DefaultTransitions,
           Trigger(event, NoResults)
    PROVE  outcome' = "returned" /\ current_state_id' = to
<1> DEFINE t == Rule(current_state_id, event, to, <<>>)
<1>1. /\ t \in DefaultTransitions /\ t.from_state = current_state_id
      /\ t.event = event /\ t.to_state = to /\ t.guards = <<>>
  BY DEF Rule
<1>2. FalseGuards(t, NoResults) = {}
  BY DEF FalseGuards, NoResults
<1>3. machine \in Machines
  BY DEF RunInv, PipelineTypeOK, TypeOK
<1> HIDE DEF t
<1> QED
  BY <1>1, <1>2, <1>3, DefaultReturns

(* The rules of the default machine that run() calls for. *)
LEMMA DefaultRules ==
    \A r \in { Rule("created", "start_run", "assembling_prompt", <<>>),
               Rule("assembling_prompt", "prompt_ready", "model_pending", <<>>),
               Rule("model_pending", "model_response_received", "model_completed", <<>>),
               Rule("model_completed", "tool_call_requested", "tool_pending", <<>>),
               Rule("tool_pending", "tool_approved_or_not_required", "tool_running", <<>>),
               Rule("tool_pending", "approval_required", "awaiting_approval", <<>>),
               Rule("awaiting_approval", "approval_granted", "tool_running",
                    <<"approval_granted_if_required">>),
               Rule("awaiting_approval", "approval_rejected", "failed", <<>>),
               Rule("tool_running", "tool_completed", "verifying", <<>>),
               Rule("tool_running", "tool_failed_retryable", "retry_pending", <<>>),
               Rule("verifying", "verification_passed", "succeeded", <<>>),
               Rule("verifying", "verification_failed_terminal", "failed", <<>>) } :
        r \in DefaultTransitions
BY DEF DefaultTransitions, ApprovalRules

(* A step of run() on a driver nobody else moves. *)
LEMMA QuietStep ==
    ASSUME RunInv, RunStep, pc \in RunPc, machine = DefaultMachine, OnTrack
    PROVE  /\ pc' \in RunPc => OnTrack'
           /\ pc' = "raised" => Excused'
<1>0. Ends
  BY RunStepEnds
<1>1. CASE StartRun
  <2>1. pc = "start" /\ Trigger("start_run", NoResults) /\ current_state_id = "created"
    BY <1>1 DEF StartRun, Call, OnTrack
  <2>2. outcome' = "returned" /\ current_state_id' = "assembling_prompt"
    BY <2>1, QuietCall, DefaultRules DEF DefaultTerminalStates
  <2>3. CASE "task" \in input.blank
    <3>1. pc' = "raised" /\ UNCHANGED <<input, steps>>
      BY <1>1, <2>2, <2>3 DEF StartRun, Call, Raise, Goto, RunFrame
    <3>2. steps = <<>>
      BY <2>1, ShapeUnfolds DEF StepsTaken
    <3> QED
      BY <2>3, <3>1, <3>2 DEF Excused, RunPc
  <2>4. CASE "task" \notin input.blank
    <3>1. pc' = "prompt"
      BY <1>1, <2>2, <2>4 DEF StartRun, Call, Log
    <3> QED
      BY <2>2, <3>1 DEF OnTrack
  <2> QED
    BY <2>3, <2>4
<1>2. CASE AdvanceToToolPending
  <2>1. CASE pc = "prompt"
    <3>1. Trigger("prompt_ready", NoResults) /\ current_state_id = "assembling_prompt"
      BY <1>2, <2>1 DEF AdvanceToToolPending, Call, OnTrack
    <3>2. outcome' = "returned" /\ current_state_id' = "model_pending"
      BY <3>1, QuietCall, DefaultRules DEF DefaultTerminalStates
    <3>3. pc' = "model"
      BY <1>2, <2>1, <3>2 DEF AdvanceToToolPending, Call, Goto
    <3> QED
      BY <3>2, <3>3 DEF OnTrack
  <2>2. CASE pc = "model"
    <3>1. Trigger("model_response_received", NoResults)
          /\ current_state_id = "model_pending"
      BY <1>2, <2>2 DEF AdvanceToToolPending, Call, OnTrack
    <3>2. outcome' = "returned" /\ current_state_id' = "model_completed"
      BY <3>1, QuietCall, DefaultRules DEF DefaultTerminalStates
    <3>3. pc' = "request"
      BY <1>2, <2>2, <3>2 DEF AdvanceToToolPending, Call, Goto
    <3> QED
      BY <3>2, <3>3 DEF OnTrack
  <2>3. CASE pc = "request"
    <3>1. Trigger("tool_call_requested", NoResults)
          /\ current_state_id = "model_completed"
      BY <1>2, <2>3 DEF AdvanceToToolPending, Call, OnTrack
    <3>2. outcome' = "returned" /\ current_state_id' = "tool_pending"
      BY <3>1, QuietCall, DefaultRules DEF DefaultTerminalStates
    <3>3. pc' = "govern"
      BY <1>2, <2>3, <3>2 DEF AdvanceToToolPending, Call, Goto
    <3> QED
      BY <3>2, <3>3 DEF OnTrack
  <2> QED
    BY <1>2, <2>1, <2>2, <2>3 DEF AdvanceToToolPending
<1>3. CASE Allow
  <2>1. /\ pc = "govern" /\ Trigger("tool_approved_or_not_required", NoResults)
        /\ current_state_id = "tool_pending"
    BY <1>3 DEF Allow, Governing, Call, OnTrack
  <2>2. outcome' = "returned" /\ current_state_id' = "tool_running"
    BY <2>1, QuietCall, DefaultRules DEF DefaultTerminalStates
  <2>3. pc' = "execute"
    BY <1>3, <2>2 DEF Allow, Call, Log
  <2> QED
    BY <2>2, <2>3 DEF OnTrack
<1>4. CASE RequireApproval
  <2>1. /\ pc = "govern" /\ Trigger("approval_required", NoResults)
        /\ current_state_id = "tool_pending"
    BY <1>4 DEF RequireApproval, Governing, Call, OnTrack
  <2>2. outcome' = "returned" /\ current_state_id' = "awaiting_approval"
    BY <2>1, QuietCall, DefaultRules DEF DefaultTerminalStates
  <2>3. pc' = "grant"
    BY <1>4, <2>2 DEF RequireApproval, Call, Log
  <2> QED
    BY <2>2, <2>3 DEF OnTrack
<1>5. CASE Grant
  <2> DEFINE results == [g \in {"approval_granted_if_required"} |-> TRUE]
  <2>1. /\ pc = "grant" /\ Trigger("approval_granted", results)
        /\ current_state_id = "awaiting_approval"
    BY <1>5 DEF Grant, Call, OnTrack
  <2>2. PICK t \in DefaultTransitions :
            t = Rule("awaiting_approval", "approval_granted", "tool_running",
                     <<"approval_granted_if_required">>)
    BY DefaultRules
  <2>3. /\ t.from_state = current_state_id /\ t.event = "approval_granted"
        /\ t.to_state = "tool_running" /\ t.guards = <<"approval_granted_if_required">>
    BY <2>1, <2>2 DEF Rule
  <2>4. FalseGuards(t, results) = {}
    BY <2>3 DEF FalseGuards
  <2>5. machine \in Machines
    BY DEF RunInv, PipelineTypeOK, TypeOK
  <2> HIDE DEF results
  <2>6. outcome' = "returned" /\ current_state_id' = "tool_running"
    BY <2>1, <2>3, <2>4, <2>5, DefaultReturns DEF DefaultTerminalStates
  <2>7. pc' = "execute"
    BY <1>5, <2>6 DEF Grant, Call, Goto
  <2> QED
    BY <2>6, <2>7 DEF OnTrack
<1>6. CASE BlockAction
  <2>1. /\ pc = "govern" /\ Trigger("approval_required", NoResults)
        /\ current_state_id = "tool_pending"
    BY <1>6 DEF BlockAction, Governing, Call, OnTrack
  <2>2. outcome' = "returned" /\ current_state_id' = "awaiting_approval"
    BY <2>1, QuietCall, DefaultRules DEF DefaultTerminalStates
  <2>3. pc' = "reject"
    BY <1>6, <2>2 DEF BlockAction, Call, Goto
  <2> QED
    BY <2>2, <2>3 DEF OnTrack
<1>7. CASE RejectAction
  <2>1. /\ pc = "reject" /\ Trigger("approval_rejected", NoResults)
        /\ current_state_id = "awaiting_approval"
    BY <1>7 DEF RejectAction, Call, OnTrack
  <2>2. outcome' = "returned"
    BY <2>1, QuietCall, DefaultRules DEF DefaultTerminalStates
  <2> QED
    BY <1>0, <2>1, <2>2
    DEF Ends, GoesOn, Arrows, Raises, MayRaise, FailsRun, RejectsRun, VerifiesRun,
        Returns, RunPc, Excused
<1>8. CASE Generate \/ EnterExecutor \/ LeaveExecutor
  <2>1. pc \in {"execute", "in_executor"} /\ UNCHANGED driverVars
    BY <1>8 DEF Generate, EnterExecutor, LeaveExecutor, Answer
  <2>2. pc' \in {"complete", "in_executor", "raised"}
        /\ (pc' = "raised" => tool'.status \in {"threw", "silent"})
    BY <1>8 DEF Generate, EnterExecutor, LeaveExecutor, Answer, Goto
  <2> QED
    BY <2>1, <2>2 DEF OnTrack, Excused, driverVars
<1>9. CASE CompleteTool
  <2>1. /\ pc = "complete" /\ Trigger("tool_completed", NoResults)
        /\ current_state_id = "tool_running"
    BY <1>9 DEF CompleteTool, OnTrack
  <2>2. current_state_id' = "verifying"
    BY <2>1, QuietCall, DefaultRules DEF DefaultTerminalStates
  <2>3. pc' = "verify"
    BY <1>9 DEF CompleteTool, Log
  <2> QED
    BY <2>2, <2>3 DEF OnTrack
<1>10. CASE FailTool
  <2>1. /\ pc = "complete" /\ Trigger("tool_failed_retryable", NoResults)
        /\ current_state_id = "tool_running"
    BY <1>10 DEF FailTool, OnTrack
  <2>2. outcome' = "returned"
    BY <2>1, QuietCall, DefaultRules DEF DefaultTerminalStates
  <2>3. pc' \in {"returned", "raised"}
    BY <1>10 DEF FailTool, Close
  <2> QED
    BY <1>0, <2>1, <2>2, <2>3
    DEF Ends, GoesOn, Arrows, Raises, MayRaise, FailsRun, RejectsRun, VerifiesRun,
        Returns, RunPc, Excused
<1>11. CASE Verify
  <2>1. /\ pc = "verify" /\ current_state_id = "verifying"
        /\ "target" \notin input.blank
        /\ \/ Trigger("verification_passed", NoResults)
           \/ Trigger("verification_failed_terminal", NoResults)
    BY <1>11 DEF Verify, Call, OnTrack
  <2>2. outcome' = "returned"
    BY <2>1, QuietCall, DefaultRules DEF DefaultTerminalStates
  <2> QED
    BY <1>0, <2>1, <2>2
    DEF Ends, GoesOn, Arrows, Raises, MayRaise, FailsRun, RejectsRun, VerifiesRun,
        Returns, RunPc, Excused
<1>12. CASE RefuseInvocation
  <2>1. /\ pc = "govern" /\ pc' = "raised" /\ UNCHANGED <<input, steps>>
        /\ "model_name" \in input.blank
    BY <1>12 DEF RefuseInvocation, Refuse, Raise, Goto, RunFrame
  <2>2. Len(steps) = 1
    BY <2>1, ShapeUnfolds DEF StepsTaken
  <2> QED
    BY <2>1, <2>2 DEF Excused, RunPc
<1>13. CASE RefuseCriterion
  <2>1. /\ pc = "verify" /\ pc' = "raised" /\ UNCHANGED <<input, tool>>
        /\ "target" \in input.blank
    BY <1>13 DEF RefuseCriterion, Refuse, Raise, Goto, RunFrame
  <2>2. tool.status = "success"
    BY <2>1, ShapeUnfolds
  <2> QED
    BY <2>1, <2>2 DEF Excused, RunPc
<1> QED
  BY <1>1, <1>2, <1>3, <1>4, <1>5, <1>6, <1>7, <1>8, <1>9, <1>10, <1>11, <1>12, <1>13
  DEF RunStep

(* Nothing but the callback, the provider and blank texts of the input      *)
(* makes run() raise, whatever the policy, the criteria and the tool, if    *)
(* nobody else moves its driver; and a blank text does so where it is used. *)
THEOREM UndisturbedRunsReturn == PipelineSpec => []UndisturbedRunReturns
<1>1. PipelineInit => QuietInv
  BY DEF PipelineInit, QuietInv
<1>2. RunInv /\ QuietInv /\ [PipelineNext]_pipelineVars => QuietInv'
  <2> SUFFICES ASSUME RunInv, QuietInv, [PipelineNext]_pipelineVars, quiet'
               PROVE  /\ pc' \in RunPc => machine' = DefaultMachine /\ OnTrack'
                      /\ pc' = "raised" => Excused'
    BY DEF QuietInv
  <2>1. CASE RunStep
    <3>1. pc \in RunPc
      BY <2>1, RunStepPlace
    <3>2. quiet /\ machine' = machine
      BY <2>1, FrameOfStep
    <3> QED
      BY <2>1, <3>1, <3>2, QuietStep DEF QuietInv
  <2>2. CASE NewDriver
    BY <2>2 DEF NewDriver, runVars, Resting, RunPc, QuietInv, Excused
  <2>3. CASE Submit
    <3>1. pc' = "start"
      BY <2>3 DEF Submit
    <3>2. machine' = DefaultMachine /\ current_state_id' = "created"
      BY <2>3 DEF Submit, FreshDriver, driverVars
    <3> QED
      BY <3>1, <3>2 DEF OnTrack
  <2>4. CASE CallerTrigger
    <3>1. /\ UNCHANGED runVars /\ quiet /\ machine' = machine
          /\ pc \in Resting \cup {"in_executor"}
          /\ pc = "in_executor" => current_state_id' = current_state_id
      BY <2>4, TriggerMoves DEF CallerTrigger
    <3> QED
      BY <3>1 DEF QuietInv, OnTrack, Excused, runVars, Resting, RunPc
  <2>5. CASE UNCHANGED pipelineVars
    BY <2>5 DEF pipelineVars, driverVars, runVars, QuietInv, OnTrack, Excused
  <2> QED
    BY <2>1, <2>2, <2>3, <2>4, <2>5 DEF PipelineNext
<1>3. QuietInv => UndisturbedRunReturns
  BY DEF QuietInv, Excused, UndisturbedRunReturns
<1> QED
  BY <1>1, <1>2, <1>3, RunInvHolds, PTL DEF PipelineSpec

-----------------------------------------------------------------------------
(* The refinement. *)

(* The phase of a run, by its place. *)
LEMMA Phases ==
    ASSUME NEW place
    PROVE  /\ place = "idle" => PhaseAt(place) = "open"
           /\ place \in {"start", "prompt", "model", "request", "govern", "reject",
                         "grant"} => PhaseAt(place) = "weighing"
           /\ place \in {"execute", "in_executor"} => PhaseAt(place) = "cleared"
           /\ place \in {"complete", "verify"} => PhaseAt(place) = "worked"
           /\ place \in {"returned", "raised"} => PhaseAt(place) = "closed"
BY DEF PhaseAt

(* A step of run() is a step of a governed run or a stutter. *)
LEMMA RunStepIsGoverned ==
    ASSUME RunInv, RunInv', RunStep
    PROVE  [Governed!Next]_<<PhaseOf, RulingOf, VerdictOf>>
<1> USE DEF Governed!Next, Governed!Clear, Governed!Work, Governed!Accept,
            Governed!Refuse, Governed!Fail, Governed!Abort, Governed!CloseWith,
            Governed!Working
<1>1. pc \in RunPc /\ result = NoResult
  <2>1. pc \in RunPc
    BY RunStepPlace
  <2> QED
    BY <2>1, ShapeUnfolds
<1>2. RulingOf' = RulingOf /\ VerdictOf = "none"
  <2>1. pc' # "idle"
    BY RunStepEnds DEF Ends, GoesOn, Arrows, Raises, FailsRun, RejectsRun,
                       VerifiesRun, Returns
  <2> QED
    BY <1>1, <2>1, FrameOfStep DEF RulingOf, VerdictOf, Returned, RunPc
<1>3. PhaseOf = PhaseAt(pc) /\ PhaseOf' = PhaseAt(pc')
  BY DEF PhaseOf
<1>4. PhaseOf \in {"weighing", "cleared", "worked"}
  BY <1>1, <1>3, Phases DEF RunPc
<1>5. Ends
  BY RunStepEnds
<1>6. CASE GoesOn
  <2>1. VerdictOf' = "none"
    BY <1>6 DEF GoesOn, VerdictOf, Returned
  <2>2. CASE <<pc, pc'>> \in {<<"govern", "execute">>, <<"grant", "execute">>}
    <3>1. Ruling # "block"
      BY <1>6, <2>2, FrameOfStep DEF RunInv, RunShape, Ruled
    <3> QED
      BY <1>2, <1>3, <2>1, <2>2, <3>1, Phases DEF RulingOf
  <2>3. CASE <<pc, pc'>> \in {<<"execute", "complete">>, <<"in_executor", "complete">>}
    BY <1>2, <1>3, <2>1, <2>3, Phases
  <2>4. CASE <<pc, pc'>> \notin {<<"govern", "execute">>, <<"grant", "execute">>,
                                 <<"execute", "complete">>, <<"in_executor", "complete">>}
    <3>1. PhaseOf' = PhaseOf
      BY <1>3, <1>6, <2>4, Phases DEF GoesOn, Arrows
    <3> QED
      BY <1>2, <2>1, <3>1
  <2> QED
    BY <2>2, <2>3, <2>4
<1>7. CASE Raises
  <2>1. PhaseOf' = "closed" /\ VerdictOf' = "none"
    BY <1>3, <1>7, Phases DEF Raises, VerdictOf, Returned
  <2> QED
    BY <1>2, <1>4, <2>1
<1>8. CASE FailsRun \/ RejectsRun \/ VerifiesRun
  <2>1. PhaseOf' = "closed" /\ steps' \in Seq(StepRecord)
    BY <1>3, <1>8, Phases
    DEF FailsRun, RejectsRun, VerifiesRun, Returns, RunInv, PipelineTypeOK
  <2>2. CASE ~Returned'
    BY <1>2, <1>4, <2>1, <2>2 DEF VerdictOf
  <2>3. ASSUME Returned' PROVE Governed!Next
    <3>1. VerdictOf' = result'.terminal_status
      BY <2>3 DEF VerdictOf
    <3>2. CountStatus(steps', "blocked") > 0 <=> Blocked(steps')
      BY <2>1, BlockedCount
    <3>3. CASE FailsRun
      <4>1. VerdictOf' = "failure" /\ PhaseOf \in {"weighing", "worked"}
        BY <1>3, <3>1, <3>2, <3>3, ResultFields, Phases DEF FailsRun, TerminalStatus
      <4> QED
        BY <1>2, <2>1, <4>1
    <3>4. CASE RejectsRun
      <4>1. VerdictOf' = "blocked" /\ PhaseOf = "weighing"
        BY <1>3, <3>1, <3>2, <3>4, ResultFields, Phases DEF RejectsRun, TerminalStatus
      <4>2. RulingOf = "forbid"
        <5>1. Ruling = "block"
          BY <3>4, ShapeUnfolds DEF RejectsRun, Ruled
        <5>2. pc # "idle"
          BY <3>4 DEF RejectsRun
        <5> QED
          BY <5>1, <5>2 DEF RulingOf
      <4> QED
        BY <1>2, <2>1, <4>1, <4>2
    <3>5. CASE VerifiesRun
      <4>1. VerdictOf' \in {"success", "failure"} /\ PhaseOf = "worked"
        BY <1>3, <3>1, <3>2, <3>5, ResultFields, Phases DEF VerifiesRun, TerminalStatus
      <4> QED
        BY <1>2, <2>1, <4>1
    <3> QED
      BY <1>8, <3>3, <3>4, <3>5
  <2> QED
    BY <2>2, <2>3
<1> QED
  BY <1>5, <1>6, <1>7, <1>8 DEF Ends

(* Whatever the caller does is a step of the governed run or a stutter.      *)
LEMMA CallerIsGoverned ==
    ASSUME RunInv, NewDriver \/ Submit \/ CallerTrigger \/ UNCHANGED pipelineVars
    PROVE  [Governed!Next]_<<PhaseOf, RulingOf, VerdictOf>>
<1>1. CASE Submit
  <2>1. PhaseOf = PhaseAt(pc) /\ PhaseOf' = PhaseAt(pc')
    BY DEF PhaseOf
  <2>2. PhaseOf \in {"open", "closed"} /\ PhaseOf' = "weighing" /\ VerdictOf' = "none"
    BY <1>1, <2>1, Phases DEF Submit, Resting, VerdictOf, Returned
  <2>3. RulingOf' \in {"permit", "forbid"}
    BY DEF RulingOf
  <2> QED
    BY <2>2, <2>3 DEF Governed!Next, Governed!Submit
<1>2. CASE UNCHANGED runVars
  BY <1>2, RulingStays DEF PhaseOf, RulingOf, VerdictOf, Returned, runVars
<1> QED
  BY <1>1, <1>2 DEF NewDriver, CallerTrigger, pipelineVars

(* A run is weighed, worked at once and only if it may be, and closed with  *)
(* one verdict: the safety part of ImplementsGovernedRun.                   *)
THEOREM RunsAreGoverned == PipelineSpec => StepsAreGoverned
<1>1. PipelineInit => Governed!Init
  BY Phases DEF PipelineInit, Governed!Init, PhaseOf, RulingOf, VerdictOf, Returned
<1>2. RunInv /\ RunInv' /\ [PipelineNext]_pipelineVars
        => [Governed!Next]_<<PhaseOf, RulingOf, VerdictOf>>
  BY RunStepIsGoverned, CallerIsGoverned DEF PipelineNext
<1> QED
  BY <1>1, <1>2, RunInvHolds, PTL DEF PipelineSpec, StepsAreGoverned
=============================================================================
