----------------------------- MODULE StateDriver -----------------------------
(***************************************************************************)
(* The run-time driver of a machine: harness/state_driver.py.              *)
(*                                                                         *)
(* A driver holds a machine, the current state and the history of its      *)
(* transition records.  Its one operation, trigger, either raises before   *)
(* it looks at the guards (Reject), raises because a guard was reported    *)
(* false (Block), or takes the transition (Advance).  Whoever holds the    *)
(* driver may trigger any event with any guard results at any moment.      *)
(*                                                                         *)
(* Timestamps are left out.  "outcome" is what the last call did to its    *)
(* caller, and stands for the return value or the exception.               *)
(***************************************************************************)
EXTENDS OrchestrationStateMachine

CONSTANTS Machines,       \* the machines a driver may be constructed with
          MaxHistory      \* bound: records a driver of a machine accumulates

ASSUME MachinesAssumption ==
    /\ Machines \subseteq Machine
    /\ \A m \in Machines : WellFormed(m)

ASSUME MaxHistoryAssumption == MaxHistory \in [Machines -> Nat]

VARIABLES machine, current_state_id, history, outcome

driverVars == <<machine, current_state_id, history, outcome>>

(* guard_results: a partial map from guard names to booleans. *)
GuardResults == UNION {[S -> BOOLEAN] : S \in SUBSET GuardName}
NoResults == [g \in {} |-> TRUE]

Decision == {"allowed", "blocked"}

TransitionRecord == [from_state : RunState, event : RunEvent,
                     to_state : RunState, guard_results : GuardResults,
                     decision : Decision]

Outcome == {"none", "returned", "rejected", "blocked"}

TypeOK ==
    /\ machine \in Machines
    /\ current_state_id \in RunState
    /\ history \in Seq(TransitionRecord)
    /\ outcome \in Outcome

(* The driver ignores machine.initial_state: a run starts in "created". *)
DriverInit ==
    /\ machine \in Machines
    /\ current_state_id = "created"
    /\ history = <<>>
    /\ outcome = "none"

IsTerminal == current_state_id \in machine.terminal_states

Matches(event) ==
    {t \in machine.transitions :
        t.from_state = current_state_id /\ t.event = event}

AvailableEvents ==
    IF IsTerminal THEN {}
    ELSE {t.event : t \in {u \in machine.transitions :
                               u.from_state = current_state_id}}

(* The positions of the guards of rule t that the results report false. *)
FalseGuards(t, results) ==
    {i \in 1..Len(t.guards) :
        t.guards[i] \in DOMAIN results /\ ~results[t.guards[i]]}

\* mutant
RecordUndecided(event, to, results, decision) ==
    [from_state |-> current_state_id, event |-> event, to_state |-> to,
     guard_results |-> results, decision |-> ""]

Record(event, to, results, decision) ==
    [from_state |-> current_state_id, event |-> event, to_state |-> to,
     guard_results |-> results, decision |-> decision]

-----------------------------------------------------------------------------
(* trigger(event, guard_results), by the way it ends. *)

Reject(event) ==
    /\ IsTerminal \/ Matches(event) = {}
    /\ outcome' = "rejected"
    /\ UNCHANGED <<machine, current_state_id, history>>

\* mutant
BlockNamingTheTarget(event, results) ==
    /\ ~IsTerminal
    /\ \E t \in Matches(event) : \E i \in FalseGuards(t, results) :
          history' = Append(history, Record(event, t.to_state,
                                [g \in {t.guards[i]} |-> FALSE], "blocked"))
    /\ outcome' = "blocked"
    /\ UNCHANGED <<machine, current_state_id>>

Block(event, results) ==
    /\ ~IsTerminal
    /\ \E t \in Matches(event) : \E i \in FalseGuards(t, results) :
          /\ \A j \in FalseGuards(t, results) : i <= j
          /\ history' = Append(history,
                               Record(event, current_state_id,
                                      [g \in {t.guards[i]} |-> FALSE],
                                      "blocked"))
    /\ outcome' = "blocked"
    /\ UNCHANGED <<machine, current_state_id>>

\* mutant
AdvanceFromTerminal(event, results) ==
    /\ \E t \in Matches(event) :
          /\ FalseGuards(t, results) = {}
          /\ history' = Append(history,
                               Record(event, t.to_state, results, "allowed"))
          /\ current_state_id' = t.to_state
    /\ outcome' = "returned"
    /\ UNCHANGED machine

Advance(event, results) ==
    /\ ~IsTerminal
    /\ \E t \in Matches(event) :
          /\ FalseGuards(t, results) = {}
          /\ history' = Append(history,
                               Record(event, t.to_state, results, "allowed"))
          /\ current_state_id' = t.to_state
    /\ outcome' = "returned"
    /\ UNCHANGED machine

Trigger(event, results) ==
    \/ Reject(event)
    \/ Block(event, results)
    \/ Advance(event, results)

(* The results worth passing: a name that no guard of the matching rule    *)
(* bears is ignored by the decision and only stored.                       *)
RelevantResults(event) ==
    {results \in GuardResults :
        \A g \in DOMAIN results : \E t \in Matches(event) :
            \E i \in 1..Len(t.guards) : t.guards[i] = g}

DriverNext ==
    \E event \in RunEvent :
        \/ Reject(event)
        \/ \E results \in RelevantResults(event) :
              /\ Len(history) < MaxHistory[machine]
              /\ Block(event, results) \/ Advance(event, results)

DriverSpec == DriverInit /\ [][DriverNext]_driverVars

-----------------------------------------------------------------------------
(* Safety *)

StateAfter(n) == IF n = 0 THEN "created" ELSE history[n].to_state

(* The history is a complete account of the moves of the driver: replaying *)
(* it from "created" passes through every state it records and ends in the *)
(* current state; a record that moved the run obeyed a rule of the machine *)
(* whose guards it does not report false; a refusal stayed put (trigger    *)
(* appends one record before each raise on a guard and each move).         *)
AuditTrailReplays ==
    /\ current_state_id = StateAfter(Len(history))
    /\ \A i \in 1..Len(history) :
        /\ history[i].from_state = StateAfter(i - 1)
        /\ history[i].decision = "allowed" =>
             \E t \in machine.transitions :
                /\ t.from_state = history[i].from_state
                /\ t.event = history[i].event
                /\ t.to_state = history[i].to_state
                /\ FalseGuards(t, history[i].guard_results) = {}
        /\ history[i].decision = "blocked" =>
             history[i].to_state = history[i].from_state

(* Nothing is recorded after the run has reached a terminal state, in any  *)
(* machine, also one with rules that leave a terminal state: the terminal  *)
(* check of trigger comes before the rules are looked at.                  *)
TerminalEndsHistory ==
    \A i \in 1..(Len(history) - 1) :
        history[i].to_state \notin machine.terminal_states

(* A run that is not over always has a transition to take.  The validators *)
(* of the machine promise it for the states the machine uses, seen from    *)
(* its initial_state; the driver starts in "created" whatever that is.     *)
NeverStuck == IsTerminal \/ AvailableEvents # {}

(* In the default machine each entry to tool_running answers a request of  *)
(* its own: between two executions the run has come back through           *)
(* tool_pending by a new tool_call_requested, so no retry and no approval  *)
(* lets one request run twice.                                             *)
EachExecutionIsRequested ==
    machine = DefaultMachine =>
        \A i \in 1..Len(history) :
            (history[i].to_state = "tool_running" /\ history[i].decision = "allowed")
            => \E k \in 1..(i - 1) :
                 /\ history[k].event = "tool_call_requested"
                 /\ history[k].decision = "allowed"
                 /\ \A j \in (k + 1)..(i - 1) : history[j].to_state # "tool_running"

-----------------------------------------------------------------------------
(* What the documentation says and the driver does not do. *)

(* "Prevents unbounded retries", "Prevents approval policy bypass"          *)
(* (primitives/lavish-axi-p10.html:252, 264): a transition with a guard is  *)
(* taken only when the guard was evaluated and held.                        *)
GuardsAreEvaluated ==
    \A i \in 1..Len(history) :
        history[i].decision = "allowed" =>
            \A t \in machine.transitions :
                (t.from_state = history[i].from_state /\ t.event = history[i].event)
                => \A g \in 1..Len(t.guards) :
                     /\ t.guards[g] \in DOMAIN history[i].guard_results
                     /\ history[i].guard_results[t.guards[g]]
=============================================================================
