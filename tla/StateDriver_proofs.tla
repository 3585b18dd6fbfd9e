-------------------------- MODULE StateDriver_proofs --------------------------
(***************************************************************************)
(* Theorems about the driver, for every set of legal machines, every guard *)
(* vocabulary and every bound on the histories.                            *)
(***************************************************************************)
EXTENDS StateDriverLifecycle, SequenceTheorems, TLAPS

USE DEF driverVars

(* A record a driver can write in a legal state is a transition record. *)
LEMMA RecordType ==
    ASSUME current_state_id \in RunState,
           NEW event \in RunEvent, NEW to \in RunState,
           NEW results \in GuardResults, NEW decision \in Decision
    PROVE  Record(event, to, results, decision) \in TransitionRecord
BY DEF Record, TransitionRecord

(* Every rule of a machine of the driver is typed. *)
LEMMA MatchType ==
    ASSUME machine \in Machines, NEW event, NEW t \in Matches(event)
    PROVE  /\ t \in TransitionRule
           /\ t \in machine.transitions
           /\ t.from_state = current_state_id
           /\ t.event = event
           /\ t.to_state \in RunState
           /\ t.guards \in Seq(GuardName)
BY MachinesAssumption DEF Matches, Machine, TransitionRule

(* The results naming one guard that was reported false are guard results. *)
LEMMA SingleResultType ==
    ASSUME NEW g \in GuardName
    PROVE  [h \in {g} |-> FALSE] \in GuardResults
<1>1. {g} \in SUBSET GuardName
  OBVIOUS
<1>2. [h \in {g} |-> FALSE] \in [{g} -> BOOLEAN]
  OBVIOUS
<1> QED
  BY <1>1, <1>2 DEF GuardResults

(* What one record appended to the history does to it. *)
LEMMA AppendRecord ==
    ASSUME history \in Seq(TransitionRecord), NEW r \in TransitionRecord
    PROVE  /\ Append(history, r) \in Seq(TransitionRecord)
           /\ Len(Append(history, r)) = Len(history) + 1
           /\ \A i \in 1..Len(history) : Append(history, r)[i] = history[i]
           /\ Append(history, r)[Len(history) + 1] = r
           /\ Len(history) \in Nat
BY AppendProperties, LenProperties

(* To pass no results is to pass guard results. *)
LEMMA NoResultsType == NoResults \in GuardResults
<1>1. NoResults \in [{} -> BOOLEAN] /\ {} \in SUBSET GuardName
  BY DEF NoResults
<1> QED
  BY <1>1 DEF GuardResults

-----------------------------------------------------------------------------
(* A record the driver wrote: it continues from the current state, obeys a  *)
(* rule whose guards it does not report false if it moved, and stays put    *)
(* if it was refused.                                                       *)
Recorded(r) ==
    /\ ~IsTerminal
    /\ history' = Append(history, r)
    /\ current_state_id' = r.to_state
    /\ machine' = machine
    /\ r.from_state = current_state_id
    /\ r.decision = "allowed" =>
            \E t \in machine.transitions :
                /\ t.from_state = r.from_state
                /\ t.event = r.event
                /\ t.to_state = r.to_state
                /\ FalseGuards(t, r.guard_results) = {}
    /\ r.decision = "blocked" => r.to_state = r.from_state

(* All that may become of a driver nobody replaces. *)
Records ==
    \/ UNCHANGED <<machine, current_state_id, history>>
    \/ \E r \in TransitionRecord : Recorded(r)

(* A call of trigger is on the record, or it left the driver as it was; one *)
(* that returns is on the record as a move by its event.                    *)
LEMMA TriggerRecords ==
    ASSUME TypeOK, NEW event \in RunEvent, NEW results \in GuardResults,
           Trigger(event, results)
    PROVE  /\ Records
           /\ outcome' \in Outcome
           /\ outcome' = "returned" =>
                \E r \in TransitionRecord :
                    Recorded(r) /\ r.event = event /\ r.decision = "allowed"
<1> USE DEF TypeOK
<1>1. CASE Reject(event)
  BY <1>1 DEF Reject, Outcome, Records
<1>2. CASE Block(event, results)
  <2>1. PICK t \in Matches(event) : \E i \in FalseGuards(t, results) :
          history' = Append(history,
                        Record(event, current_state_id,
                               [g \in {t.guards[i]} |-> FALSE], "blocked"))
    BY <1>2 DEF Block
  <2>2. PICK i \in FalseGuards(t, results) :
          history' = Append(history,
                        Record(event, current_state_id,
                               [g \in {t.guards[i]} |-> FALSE], "blocked"))
    BY <2>1
  <2> DEFINE r == Record(event, current_state_id,
                         [g \in {t.guards[i]} |-> FALSE], "blocked")
  <2>3. t.guards[i] \in GuardName
    BY MatchType, <2>2 DEF FalseGuards
  <2>4. r \in TransitionRecord
    BY <2>3, SingleResultType, RecordType DEF Decision
  <2>5. /\ r.from_state = current_state_id /\ r.to_state = current_state_id
        /\ r.decision = "blocked"
    BY DEF Record
  <2>6. /\ ~IsTerminal /\ history' = Append(history, r) /\ machine' = machine
        /\ current_state_id' = current_state_id /\ outcome' = "blocked"
    BY <1>2, <2>2 DEF Block
  <2> HIDE DEF r
  <2> QED
    BY <2>4, <2>5, <2>6 DEF Records, Recorded, Outcome
<1>3. CASE Advance(event, results)
  <2>1. PICK t \in Matches(event) :
          /\ FalseGuards(t, results) = {}
          /\ history' = Append(history,
                           Record(event, t.to_state, results, "allowed"))
          /\ current_state_id' = t.to_state
    BY <1>3 DEF Advance
  <2> DEFINE r == Record(event, t.to_state, results, "allowed")
  <2>2. /\ t \in machine.transitions /\ t.from_state = current_state_id
        /\ t.event = event /\ t.to_state \in RunState
    BY MatchType
  <2>3. r \in TransitionRecord
    BY <2>2, RecordType DEF Decision
  <2>4. /\ r.from_state = current_state_id /\ r.event = event
        /\ r.to_state = t.to_state /\ r.guard_results = results
        /\ r.decision = "allowed"
    BY DEF Record
  <2>5. /\ ~IsTerminal /\ history' = Append(history, r) /\ machine' = machine
        /\ current_state_id' = r.to_state /\ outcome' = "returned"
    BY <1>3, <2>1, <2>4 DEF Advance
  <2> HIDE DEF r
  <2>6. Recorded(r)
    BY <2>1, <2>2, <2>4, <2>5 DEF Recorded
  <2> QED
    BY <2>3, <2>4, <2>5, <2>6 DEF Records, Outcome
<1> QED
  BY <1>1, <1>2, <1>3 DEF Trigger

(* A call of trigger keeps the types, however it ends. *)
LEMMA TriggerKeepsType ==
    ASSUME TypeOK, NEW event \in RunEvent, NEW results \in GuardResults,
           Trigger(event, results)
    PROVE  TypeOK'
<1>1. Records /\ outcome' \in Outcome
  BY TriggerRecords
<1>2. CASE UNCHANGED <<machine, current_state_id, history>>
  BY <1>1, <1>2 DEF TypeOK
<1>3. ASSUME NEW r \in TransitionRecord, Recorded(r) PROVE TypeOK'
  <2>1. r.to_state \in RunState
    BY DEF TransitionRecord
  <2> QED
    BY <1>1, <1>3, <2>1, AppendRecord DEF TypeOK, Recorded
<1> QED
  BY <1>1, <1>2, <1>3 DEF Records

(* A step of a driver is a call of trigger or none. *)
LEMMA DriverStepTriggers ==
    ASSUME [DriverNext]_driverVars
    PROVE  \/ UNCHANGED driverVars
           \/ \E event \in RunEvent, results \in GuardResults :
                 Trigger(event, results)
BY NoResultsType DEF DriverNext, RelevantResults, Trigger

LEMMA DriverStepRecords ==
    ASSUME TypeOK, [DriverNext]_driverVars
    PROVE  TypeOK' /\ Records
<1>1. CASE UNCHANGED driverVars
  BY <1>1 DEF TypeOK, Records
<1>2. CASE \E event \in RunEvent, results \in GuardResults : Trigger(event, results)
  BY <1>2, TriggerKeepsType, TriggerRecords
<1> QED
  BY <1>1, <1>2, DriverStepTriggers

(* The variables keep their types: what a step of the driver writes is a   *)
(* run state of the machine's rules and a well-typed record.               *)
THEOREM TypeCorrect == DriverSpec => []TypeOK
<1>1. DriverInit => TypeOK
  BY DEF DriverInit, TypeOK, RunState, Outcome
<1>2. TypeOK /\ [DriverNext]_driverVars => TypeOK'
  BY DriverStepRecords
<1> QED
  BY <1>1, <1>2, PTL DEF DriverSpec

-----------------------------------------------------------------------------
(* The inductive invariant of the history: TerminalEndsHistory alone is not *)
(* inductive, it needs the link between the last record and the state.      *)
TrailInv == TypeOK /\ AuditTrailReplays /\ TerminalEndsHistory

(* A record that continues from the current state and obeys the machine     *)
(* keeps the history a replayable account.                                  *)
LEMMA TrailGrows ==
    ASSUME TrailInv, NEW r \in TransitionRecord, Recorded(r)
    PROVE  AuditTrailReplays' /\ TerminalEndsHistory'
<1> USE DEF Recorded
<1>0. PICK n \in Nat : n = Len(history)
  BY AppendRecord DEF TrailInv, TypeOK
<1>1. /\ history \in Seq(TransitionRecord)
      /\ Len(history') = n + 1
      /\ \A i \in 1..n : history'[i] = history[i]
      /\ history'[n + 1] = r
  BY <1>0, AppendRecord DEF TrailInv, TypeOK
<1>2. \A i \in 0..n : StateAfter(i)' = StateAfter(i)
  BY <1>1 DEF StateAfter
<1>3. StateAfter(n + 1)' = r.to_state
  BY <1>1 DEF StateAfter
<1>4. r.from_state = StateAfter(n)
  BY <1>0 DEF TrailInv, AuditTrailReplays
<1>5. AuditTrailReplays'
  <2>1. current_state_id' = StateAfter(Len(history))'
    BY <1>1, <1>3
  <2>2. ASSUME NEW i \in 1..n
        PROVE  /\ history'[i].from_state = StateAfter(i - 1)'
               /\ history'[i].decision = "allowed" =>
                    \E t \in machine'.transitions :
                        /\ t.from_state = history'[i].from_state
                        /\ t.event = history'[i].event
                        /\ t.to_state = history'[i].to_state
                        /\ FalseGuards(t, history'[i].guard_results) = {}
               /\ history'[i].decision = "blocked" =>
                    history'[i].to_state = history'[i].from_state
    <3>1. i - 1 \in 0..n /\ history'[i] = history[i]
      BY <1>1
    <3> QED
      BY <1>0, <1>2, <3>1 DEF TrailInv, AuditTrailReplays
  <2>3. r.from_state = StateAfter(n)'
    BY <1>1, <1>2, <1>4
  <2>4. /\ history'[n + 1].from_state = StateAfter((n + 1) - 1)'
        /\ history'[n + 1].decision = "allowed" =>
             \E t \in machine'.transitions :
                 /\ t.from_state = history'[n + 1].from_state
                 /\ t.event = history'[n + 1].event
                 /\ t.to_state = history'[n + 1].to_state
                 /\ FalseGuards(t, history'[n + 1].guard_results) = {}
        /\ history'[n + 1].decision = "blocked" =>
             history'[n + 1].to_state = history'[n + 1].from_state
    <3>1. (n + 1) - 1 = n
      OBVIOUS
    <3> QED
      BY <1>1, <2>3, <3>1
  <2>5. \A i \in 1..(n + 1) : i \in 1..n \/ i = n + 1
    OBVIOUS
  <2> QED
    BY <1>1, <2>1, <2>2, <2>4, <2>5 DEF AuditTrailReplays
<1>6. TerminalEndsHistory'
  <2>1. ASSUME NEW i \in 1..n PROVE history'[i].to_state \notin machine.terminal_states
    <3>1. CASE i = n
      BY <3>1, <1>0, <1>1 DEF TrailInv, AuditTrailReplays, StateAfter, IsTerminal
    <3>2. CASE i # n
      BY <3>2, <1>0, <1>1 DEF TrailInv, TerminalEndsHistory
    <3> QED
      BY <3>1, <3>2
  <2> QED
    BY <1>1, <2>1 DEF TerminalEndsHistory
<1> QED
  BY <1>5, <1>6

LEMMA TrailIsKept ==
    ASSUME TrailInv, Records
    PROVE  AuditTrailReplays' /\ TerminalEndsHistory'
<1>1. CASE UNCHANGED <<machine, current_state_id, history>>
  BY <1>1 DEF TrailInv, AuditTrailReplays, TerminalEndsHistory, StateAfter, FalseGuards
<1> QED
  BY <1>1, TrailGrows DEF Records

(* The history replays to the current state and ends at the first terminal  *)
(* state, for every legal machine and every sequence of calls.              *)
THEOREM HistoryIsSound == DriverSpec => [](AuditTrailReplays /\ TerminalEndsHistory)
<1>1. DriverInit => AuditTrailReplays /\ TerminalEndsHistory
  BY DEF DriverInit, AuditTrailReplays, TerminalEndsHistory, StateAfter
<1>2. TypeOK /\ AuditTrailReplays /\ TerminalEndsHistory /\ [DriverNext]_driverVars
        => (AuditTrailReplays /\ TerminalEndsHistory)'
  BY DriverStepRecords, TrailIsKept DEF TrailInv
<1> QED
  BY <1>1, <1>2, TypeCorrect, PTL DEF DriverSpec

-----------------------------------------------------------------------------
(* The states a run visits are states its machine uses.  The machine's      *)
(* validator says those have a way out or are terminal.                     *)
Used == current_state_id \in UsedStates(machine)

(* A run is never stuck, provided the machine it was given starts in the    *)
(* state the driver starts in; without that condition it may be (the run    *)
(* "review" of the project).                                                *)
THEOREM RunsAreNeverStuck ==
    ASSUME \A m \in Machines : m.initial_state = "created"
    PROVE  DriverSpec => []NeverStuck
<1>1. DriverInit => Used
  BY DEF DriverInit, Used, UsedStates
<1>2. Used /\ [DriverNext]_driverVars => Used'
  <2> SUFFICES ASSUME Used, [DriverNext]_driverVars PROVE Used'
    OBVIOUS
  <2>1. ASSUME UNCHANGED <<machine, current_state_id>> PROVE Used'
    BY <2>1 DEF Used
  <2>2. ASSUME NEW event, NEW results, Advance(event, results) PROVE Used'
    BY <2>2 DEF Advance, Matches, Used, UsedStates
  <2> QED
    BY <2>1, <2>2 DEF DriverNext, Reject, Block
<1>3. TypeOK /\ Used => NeverStuck
  BY MachinesAssumption
  DEF TypeOK, Used, NeverStuck, WellFormed, NonTerminalStatesHaveOutgoing,
      AvailableEvents, IsTerminal
<1> QED
  BY <1>1, <1>2, <1>3, TypeCorrect, PTL DEF DriverSpec

-----------------------------------------------------------------------------
(* The default machine. *)

(* The rules of the default machine are typed and leave no terminal state.  *)
LEMMA DefaultRuleType ==
    ASSUME NEW t \in DefaultTransitions
    PROVE  t \in TransitionRule /\ t.from_state \notin DefaultTerminalStates
<1> DEFINE Open == RunState \ DefaultTerminalStates
           Guards == {<<>>, <<"approval_granted_if_required">>,
                      <<"retry_budget_available">>}
<1>1. PICK from \in Open, event \in RunEvent, to \in RunState, guards \in Guards :
        t = Rule(from, event, to, guards)
  <2>1. CASE t \in CancelRules
    <3>1. PICK from \in Open : t = Rule(from, "cancel_run", "cancelled", <<>>)
      BY <2>1 DEF CancelRules
    <3> QED
      BY <3>1 DEF RunEvent, RunState
  <2>2. CASE t \in ApprovalRules \cup RetryRules
    BY <2>2 DEF ApprovalRules, RetryRules, RunState, RunEvent, DefaultTerminalStates
  <2>3. CASE t \notin CancelRules \cup ApprovalRules \cup RetryRules
    BY <2>3 DEF DefaultTransitions, RunState, RunEvent, DefaultTerminalStates
  <2> QED
    BY <2>1, <2>2, <2>3
<1>2. guards \in Seq(GuardName)
  <2>1. \A g \in GuardName : <<g>> \in Seq(GuardName)
    OBVIOUS
  <2>2. <<>> \in Seq(GuardName)
    OBVIOUS
  <2> QED
    BY <2>1, <2>2, GuardNameAssumption
<1> QED
  BY <1>1, <1>2 DEF Rule, TransitionRule

(* At most one rule of the default machine answers an event in a state. *)
LEMMA DefaultRulesAreDistinct ==
    ASSUME NEW t \in DefaultTransitions, NEW u \in DefaultTransitions,
           t.from_state = u.from_state, t.event = u.event
    PROVE  t = u
<1>1. CASE t \in CancelRules /\ u \in CancelRules
  BY <1>1 DEF CancelRules, Rule
<1>2. CASE t \in CancelRules <=> u \notin CancelRules
  BY <1>2 DEF DefaultTransitions, CancelRules, ApprovalRules, RetryRules, Rule
<1>3. CASE t \notin CancelRules /\ u \notin CancelRules
  BY <1>3 DEF DefaultTransitions, ApprovalRules, RetryRules, Rule
<1> QED
  BY <1>1, <1>2, <1>3

(* The default machine passes its own validators, with any vocabulary of    *)
(* guards that has the two it uses: the assumptions under which drivers are *)
(* considered here admit the machine every run uses.                        *)
THEOREM DefaultMachineIsLegal ==
    DefaultMachine \in Machine /\ WellFormed(DefaultMachine)
<1>1. DefaultMachine \in Machine
  BY DefaultRuleType DEF DefaultMachine, Machine, RunState, DefaultTerminalStates
<1>2. InitialStateNotTerminal(DefaultMachine)
  BY DEF InitialStateNotTerminal, DefaultMachine, DefaultTerminalStates
<1>3. NoDuplicateTransitionPairs(DefaultMachine)
  BY DefaultRulesAreDistinct DEF NoDuplicateTransitionPairs, DefaultMachine
<1>4. NonTerminalStatesHaveOutgoing(DefaultMachine)
  <2>1. UsedStates(DefaultMachine) \subseteq RunState
    BY DefaultRuleType DEF UsedStates, DefaultMachine, TransitionRule, RunState
  <2>2. \A s \in RunState \ DefaultTerminalStates :
            \E t \in CancelRules : t.from_state = s
    <3> SUFFICES ASSUME NEW s \in RunState \ DefaultTerminalStates
                 PROVE  \E t \in CancelRules : t.from_state = s
      OBVIOUS
    <3>1. Rule(s, "cancel_run", "cancelled", <<>>) \in CancelRules
      BY DEF CancelRules
    <3>2. Rule(s, "cancel_run", "cancelled", <<>>).from_state = s
      BY DEF Rule
    <3> QED
      BY <3>1, <3>2
  <2>3. CancelRules \subseteq DefaultTransitions
    BY DEF DefaultTransitions
  <2> QED
    BY <2>1, <2>2, <2>3 DEF NonTerminalStatesHaveOutgoing, DefaultMachine
<1> QED
  BY <1>1, <1>2, <1>3, <1>4 DEF WellFormed

(* A move of the driver of the default machine obeys a default rule.        *)
LEMMA DefaultMove ==
    ASSUME machine = DefaultMachine, NEW event, NEW results,
           Advance(event, results)
    PROVE  \E t \in DefaultTransitions :
                /\ t.from_state = current_state_id
                /\ t.event = event
                /\ t.to_state = current_state_id'
                /\ history' = Append(history,
                                  Record(event, t.to_state, results, "allowed"))
BY DEF Advance, Matches, DefaultMachine

(* Only two states lead to tool_running, and only a tool call request or    *)
(* the first of the two leads to them.                                      *)
LEMMA WaysToTheTool ==
    ASSUME NEW t \in DefaultTransitions
    PROVE  /\ t.to_state = "tool_running" =>
                t.from_state \in {"tool_pending", "awaiting_approval"}
           /\ t.to_state = "tool_pending" => t.event = "tool_call_requested"
           /\ t.to_state = "awaiting_approval" => t.from_state = "tool_pending"
BY DEF DefaultTransitions, ApprovalRules, RetryRules, CancelRules, Rule

(* The strengthening: while a run waits for its tool, the history holds a   *)
(* request that no execution has answered yet.                              *)
Unanswered(h, n) ==
    \E k \in 1..n :
        /\ h[k].event = "tool_call_requested"
        /\ h[k].decision = "allowed"
        /\ \A j \in (k + 1)..n : h[j].to_state # "tool_running"

RequestInv ==
    /\ EachExecutionIsRequested
    /\ (machine = DefaultMachine
            /\ current_state_id \in {"tool_pending", "awaiting_approval"})
         => Unanswered(history, Len(history))

(* A record appended keeps the earlier executions answered for, and answers *)
(* for itself if a request was open when it started an execution.           *)
LEMMA RequestGrows ==
    ASSUME TypeOK, RequestInv, machine = DefaultMachine,
           NEW r \in TransitionRecord, Recorded(r)
    PROVE  RequestInv'
<1>a. machine' = machine /\ history' = Append(history, r)
  BY DEF Recorded
<1>b. (r.to_state = "tool_running" /\ r.decision = "allowed")
          => Unanswered(history, Len(history))
  BY WaysToTheTool DEF Recorded, DefaultMachine, RequestInv
<1>c. current_state_id' \in {"tool_pending", "awaiting_approval"} =>
          \/ r.event = "tool_call_requested" /\ r.decision = "allowed"
          \/ r.to_state # "tool_running" /\ Unanswered(history, Len(history))
  <2>1. r.decision \in Decision
    BY DEF TransitionRecord
  <2> QED
    BY <2>1, WaysToTheTool DEF Decision, Recorded, DefaultMachine, RequestInv
<1>1. PICK n \in Nat :
        /\ n = Len(history)
        /\ Len(history') = n + 1
        /\ \A i \in 1..n : history'[i] = history[i]
        /\ history'[n + 1] = r
  BY <1>a, AppendRecord DEF TypeOK
<1>2. ASSUME NEW i \in 1..(n + 1), Unanswered(history, i - 1)
      PROVE  Unanswered(history', i - 1)
  BY <1>1, <1>2 DEF Unanswered
<1>3. ASSUME NEW i \in 1..(n + 1),
             history'[i].to_state = "tool_running", history'[i].decision = "allowed"
      PROVE  Unanswered(history', i - 1)
  <2>1. CASE i = n + 1
    BY <1>1, <1>2, <1>3, <1>b, <2>1
  <2>2. CASE i \in 1..n
    <3>1. Unanswered(history, i - 1)
      BY <1>1, <1>3, <1>a, <2>2 DEF RequestInv, EachExecutionIsRequested, Unanswered
    <3> QED
      BY <1>2, <3>1
  <2> QED
    BY <2>1, <2>2
<1>4. EachExecutionIsRequested'
  BY <1>1, <1>3 DEF EachExecutionIsRequested, Unanswered
<1>5. ASSUME current_state_id' \in {"tool_pending", "awaiting_approval"}
      PROVE  Unanswered(history', n + 1)
  <2>1. CASE r.event = "tool_call_requested" /\ r.decision = "allowed"
    BY <1>1, <2>1 DEF Unanswered
  <2>2. CASE r.to_state # "tool_running" /\ Unanswered(history, n)
    <3>1. PICK k \in 1..n :
            /\ history[k].event = "tool_call_requested"
            /\ history[k].decision = "allowed"
            /\ \A j \in (k + 1)..n : history[j].to_state # "tool_running"
      BY <2>2 DEF Unanswered
    <3>2. \A j \in (k + 1)..(n + 1) : history'[j].to_state # "tool_running"
      BY <1>1, <2>2, <3>1
    <3> QED
      BY <1>1, <3>1, <3>2 DEF Unanswered
  <2> QED
    BY <1>1, <1>5, <1>c, <2>1, <2>2
<1> QED
  BY <1>1, <1>4, <1>5 DEF RequestInv

LEMMA RequestIsKept ==
    ASSUME TypeOK, RequestInv, Records
    PROVE  RequestInv'
<1>1. CASE UNCHANGED <<machine, current_state_id, history>>
  BY <1>1 DEF RequestInv, EachExecutionIsRequested, Unanswered
<1>2. CASE machine # DefaultMachine
  BY <1>2 DEF Records, Recorded, RequestInv, EachExecutionIsRequested
<1> QED
  BY <1>1, <1>2, RequestGrows DEF Records

(* In the default machine every execution answers a tool call request of    *)
(* its own, in histories of any length.                                     *)
THEOREM ExecutionsAreRequested == DriverSpec => []EachExecutionIsRequested
<1>1. DriverInit => RequestInv
  BY DEF DriverInit, RequestInv, EachExecutionIsRequested
<1>2. TypeOK /\ RequestInv /\ [DriverNext]_driverVars => RequestInv'
  BY DriverStepRecords, RequestIsKept
<1>3. RequestInv => EachExecutionIsRequested
  BY DEF RequestInv
<1> QED
  BY <1>1, <1>2, <1>3, TypeCorrect, PTL DEF DriverSpec

(* Every driver of the default machine implements the lifecycle.            *)
THEOREM DefaultDriverImplementsLifecycle == DriverSpec => ImplementsLifecycle
<1>1. DriverInit => Lifecycle!Init
  BY DEF DriverInit, Lifecycle!Init, Stage, StageOf
<1>2. [DriverNext]_driverVars /\ TypeOK => [Lifecycle!Next]_Stage
  <2> SUFFICES ASSUME TypeOK, [DriverNext]_driverVars
               PROVE  Lifecycle!Next \/ UNCHANGED Stage
    OBVIOUS
  <2>1. ASSUME UNCHANGED <<machine, current_state_id>> PROVE UNCHANGED Stage
    BY <2>1 DEF Stage, StageOf
  <2>2. ASSUME machine # DefaultMachine, machine' = machine PROVE UNCHANGED Stage
    BY <2>2 DEF Stage
  <2>3. ASSUME machine = DefaultMachine, machine' = machine,
               NEW event, NEW results, Advance(event, results)
        PROVE  Lifecycle!Next \/ UNCHANGED Stage
    <3>1. PICK t \in DefaultTransitions :
            t.from_state = current_state_id /\ t.to_state = current_state_id'
      BY <2>3, DefaultMove
    <3>2. Stage = StageOf(current_state_id) /\ Stage' = StageOf(current_state_id')
      BY <2>3 DEF Stage, StageOf
    <3>3. CASE t \in CancelRules
      BY <3>1, <3>2, <3>3
      DEF CancelRules, Rule, RunState, DefaultTerminalStates, StageOf,
          Lifecycle!Next, Lifecycle!Cancel, Lifecycle!Open
    <3>4. CASE t \notin CancelRules
      BY <3>1, <3>2, <3>4
      DEF DefaultTransitions, ApprovalRules, RetryRules, Rule, StageOf,
          Lifecycle!Next, Lifecycle!Move, Lifecycle!Start, Lifecycle!Propose,
          Lifecycle!Skip, Lifecycle!Clear, Lifecycle!Refuse, Lifecycle!Finish,
          Lifecycle!Falter, Lifecycle!Retry, Lifecycle!Accept,
          Lifecycle!Dismiss
    <3> QED
      BY <3>3, <3>4
  <2> QED
    BY <2>1, <2>2, <2>3 DEF DriverNext, Reject, Block, Advance
<1> QED
  BY <1>1, <1>2, TypeCorrect, PTL DEF DriverSpec, ImplementsLifecycle, Lifecycle!Spec
=============================================================================
