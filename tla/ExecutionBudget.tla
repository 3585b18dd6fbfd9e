---------------------------- MODULE ExecutionBudget ----------------------------
(***************************************************************************)
(* models/execution_budget_resource_contract.py: a budget, its lines, and  *)
(* what is reserved, used, watched and decided against them.  Accepts(e)   *)
(* says whether an envelope with the parts e can be constructed;           *)
(* conventions as in ClarificationResolution.  Amounts are whole units, so *)
(* the tolerance of 0.001 is equality; NaN is the float that compares      *)
(* false with everything.                                                  *)
(***************************************************************************)
EXTENDS Integers

CONSTANTS BudgetId, LineId, NaN

OverrunDisposition == {"continue_with_warning", "throttle", "require_approval",
                       "reallocate", "stop_execution"}

(* Amounts are finite and not negative; the remaining amount is any float. *)
BudgetLine == [budget_line_id : LineId, budget_id : BudgetId,
               allocated : Nat, reserved : Nat, consumed : Nat,
               remaining : Int \cup {NaN}]
Charge == [budget_line_id : LineId]     \* what names a line: see Envelope
Threshold == [budget_line_id : LineId, value : BOOLEAN, percent : BOOLEAN]
BudgetDecision == [budget_id : BudgetId, disposition : OverrunDisposition,
                   source : BOOLEAN]

BudgetStatus == {"planned", "active", "warning", "exhausted", "overrun", "closed",
                 "cancelled"}

(* The status is compared with nothing; see ProgressIsAccepted.            *)
Envelope == [budget_id : BudgetId, budget_status : BudgetStatus,
             budget_lines : SUBSET BudgetLine,
             reservations : SUBSET Charge, usage_records : SUBSET Charge,
             threshold_policies : SUBSET Threshold, alerts : SUBSET Charge,
             decisions : SUBSET BudgetDecision]

-----------------------------------------------------------------------------
\* mutant
RemainingIgnoresReservations(l) ==
    \/ l.remaining = NaN
    \/ l.remaining = l.allocated - l.consumed

(* abs(remaining - expected) > 0.001 refuses; it is false of NaN.          *)
RemainingMustBeConsistent(l) ==
    \/ l.remaining = NaN
    \/ l.remaining = l.allocated - l.reserved - l.consumed

MustHaveThresholdValueOrPercent(t) == t.value \/ t.percent

ReallocateRequiresSource(d) == d.disposition = "reallocate" => d.source

Charges(e) == e.reservations \cup e.usage_records \cup e.alerts

(* Reservations, usage, thresholds and alerts name lines of the envelope.  *)
ChargesReferenceValidBudgetLines(e) ==
    {c.budget_line_id : c \in Charges(e) \cup e.threshold_policies}
        \subseteq {l.budget_line_id : l \in e.budget_lines}

DecisionsReferenceValidBudget(e) ==
    \A d \in e.decisions : d.budget_id = e.budget_id

BudgetLinesMatchEnvelopeBudgetId(e) ==
    \A l \in e.budget_lines : l.budget_id = e.budget_id

Accepts(e) ==
    /\ \A l \in e.budget_lines : RemainingMustBeConsistent(l)
    /\ \A t \in e.threshold_policies : MustHaveThresholdValueOrPercent(t)
    /\ \A d \in e.decisions : ReallocateRequiresSource(d)
    /\ ChargesReferenceValidBudgetLines(e)
    /\ DecisionsReferenceValidBudget(e)
    /\ BudgetLinesMatchEnvelopeBudgetId(e)

-----------------------------------------------------------------------------
(* What an accepted envelope promises. *)

(* Whatever is reserved, used, watched or reported is charged to a line of *)
(* this budget, and every line that bears the name is one of this budget.  *)
CheckedReferencesResolve(e) ==
    \A c \in Charges(e) \cup e.threshold_policies :
        /\ \E l \in e.budget_lines : l.budget_line_id = c.budget_line_id
        /\ \A l \in e.budget_lines :
              l.budget_line_id = c.budget_line_id => l.budget_id = e.budget_id

(* While a budget is active, using up what was reserved on a line that no  *)
(* threshold guards never makes an acceptable envelope refused.            *)
Used(e, l) ==
    [e EXCEPT !.budget_lines =
        (@ \ {l}) \cup {[l EXCEPT !.reserved = @ - 1, !.consumed = @ + 1]},
              !.usage_records = @ \cup {[budget_line_id |-> l.budget_line_id]}]

ProgressIsAccepted(e) ==
    e.budget_status = "active" =>
        \A l \in e.budget_lines :
            (/\ l.reserved > 0
             /\ \A t \in e.threshold_policies : t.budget_line_id # l.budget_line_id)
                => Accepts(Used(e, l))

(* "NaN/Inf amounts rejected" (budget/PROTOCOL.md:18): no line of an        *)
(* accepted budget has an amount that is not a number.                      *)
AmountsAreNumbers(e) == \A l \in e.budget_lines : l.remaining # NaN
=============================================================================
