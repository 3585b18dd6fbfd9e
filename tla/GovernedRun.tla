------------------------------ MODULE GovernedRun ------------------------------
(***************************************************************************)
(* What a pipeline run promises: a submitted request is weighed, worked at *)
(* most once and only if the ruling permits it, and closed with one        *)
(* verdict; success is a verdict on finished work only.  A run may be      *)
(* aborted at any point, and then it has no verdict.                       *)
(***************************************************************************)
VARIABLES phase, ruling, verdict

govVars == <<phase, ruling, verdict>>

Working == {"weighing", "cleared", "worked"}

Init == phase = "open" /\ ruling = "permit" /\ verdict = "none"

Submit ==
    /\ phase \in {"open", "closed"}
    /\ phase' = "weighing" /\ verdict' = "none"
    /\ ruling' \in {"permit", "forbid"}

Clear == /\ phase = "weighing" /\ ruling = "permit"
         /\ phase' = "cleared" /\ UNCHANGED <<ruling, verdict>>

Work == /\ phase = "cleared" /\ phase' = "worked"
        /\ UNCHANGED <<ruling, verdict>>

CloseWith(from, v) == /\ phase \in from /\ phase' = "closed"
                      /\ verdict' = v /\ UNCHANGED ruling

Accept == CloseWith({"worked"}, "success")
Refuse == ruling = "forbid" /\ CloseWith({"weighing"}, "blocked")
Fail   == CloseWith({"weighing", "worked"}, "failure")
Abort  == CloseWith(Working, "none")

Next == Submit \/ Clear \/ Work \/ Accept \/ Refuse \/ Fail \/ Abort

Spec == Init /\ [][Next]_govVars /\ WF_govVars(Clear \/ Work \/ Accept \/ Refuse \/ Fail \/ Abort)
=============================================================================
