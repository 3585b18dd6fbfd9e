--------------------------- MODULE MC_StateDriver ---------------------------
(* Instances of the driver for TLC. *)
EXTENDS StateDriverLifecycle

DefaultGuards == {"retry_budget_available", "approval_granted_if_required"}

DefaultOnly == {DefaultMachine}
UpTo9 == [m \in DefaultOnly |-> 9]

(* Every legal machine over the states created, verifying and succeeded:   *)
(* an optional guarded rule and an optional cancel from created, a rule    *)
(* from verifying, a way out of succeeded (which may be terminal), and     *)
(* several sets of terminal states.                                        *)
Used == {"created", "verifying", "succeeded"}
Optional(from, event, guards) ==
    {{}} \cup {{Rule(from, event, to, gs)} : to \in Used, gs \in guards}

CustomMachines ==
    {m \in {[initial_state |-> "created", terminal_states |-> ts,
             transitions |-> a \cup b \cup c \cup d] :
                ts \in {{}, {"succeeded"}, {"succeeded", "verifying"}},
                a \in Optional("created", "start_run",
                               {<<>>, <<"retry_budget_available",
                                        "approval_granted_if_required">>}),
                b \in Optional("created", "cancel_run", {<<>>}),
                c \in Optional("verifying", "start_run", {<<>>}),
                d \in {{}, {Rule("succeeded", "start_run", "verifying", <<>>)}}} :
        WellFormed(m)}

AllMachines == CustomMachines \cup {DefaultMachine}
(* Fourteen records hold two rounds of request, execution and retry of the *)
(* default machine and begin a third; two are enough to enter and leave    *)
(* every state of a custom machine.                                        *)
FourteenOrTwo == [m \in AllMachines |-> IF m = DefaultMachine THEN 14 ELSE 2]
=============================================================================
