------------------------ MODULE CashFlowsProperties ------------------------
(* What CashFlows must guarantee. *)
EXTENDS CashFlows

(* "Deposits and withdrawals issue/redeem units instead of creating fake    *)
(* performance": the multiplier seen/units every decision sizes by is the   *)
(* true NAV of a unit relative to that at the baseline - as long as no run  *)
(* crashed, no operator recorded a flow, every event has a history point    *)
(* and every snapshot is consistent.  sync, record_external_flow, decision. *)
NoFakePerformance ==
    pc = "decide" /\ units # NoUnits /\ ~disturbed =>
        units.n * seenPerformance = seen * units.d * baseline

(* A recognized flow changes the units once, "leaving the performance index *)
(* unchanged" however often the run that found it is repeated.              *)
UnitizedOnce == \A t \in Times : unitized[t] <= 1

(* "Recognized ... ledger flows are synced automatically": once the cursor  *)
(* is past a recognized flow, the flow is in the units.                     *)
FlowsUnitized ==
    \A t \in Times :
        Flow(events[t]) # 0 /\ cursorStart < t /\ t <= cursor =>
            unitized[t] >= 1

(* Since it was initialized, the cursor has not passed an event that left   *)
(* no row: an event can be stored and never applied, but never overlooked - *)
(* whatever crashes and whatever the portfolio history lacks.               *)
NothingSkipped ==
    \A t \in Times :
        events[t] # NoEvent /\ cursorStart < t /\ t <= cursor =>
            rows[t] # "absent"

(* A row marked applied stands for a change of the units that was made.     *)
AppliedWereUnitized ==
    \A t \in Times : rows[t] = "applied" => unitized[t] >= 1

(* Fail closed: while an event waits for manual review, neither the units   *)
(* nor the cursor move, except by a rebase or a flow an operator records.   *)
ManualReviewBlocks ==
    [][Unresolved # {} /\ (units' # units \/ cursor' # cursor) =>
         pc \in {"rebase", "rebaseCursor", "record"}]_vars
=============================================================================
