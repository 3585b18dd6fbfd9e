----------------------------- MODULE RunLifecycle -----------------------------
(***************************************************************************)
(* What the lifecycle of a run promises, without its twelve states: an     *)
(* action is taken only after it was decided on, a verdict is passed only  *)
(* on a finished attempt, a failed attempt starts over from preparation    *)
(* and has to be decided on again, and the three ends are final.           *)
(***************************************************************************)
VARIABLE stage

Open == {"new", "preparing", "deciding", "acting", "judging", "recovering"}
Closed == {"succeeded", "failed", "cancelled"}

Init == stage = "new"

Move(from, to) == stage = from /\ stage' = to

Start   == Move("new", "preparing")
Propose == Move("preparing", "deciding")
Skip    == Move("preparing", "judging")
Clear   == Move("deciding", "acting")
Refuse  == Move("deciding", "failed")
Finish  == Move("acting", "judging")
Falter  == Move("acting", "recovering") \/ Move("judging", "recovering")
Retry   == Move("recovering", "preparing")
Accept  == Move("judging", "succeeded")
Dismiss == Move("judging", "failed")
Cancel  == stage \in Open /\ stage' = "cancelled"

Next == \/ Start \/ Propose \/ Skip \/ Clear \/ Refuse \/ Finish
        \/ Falter \/ Retry \/ Accept \/ Dismiss \/ Cancel

Spec == Init /\ [][Next]_stage
=============================================================================
