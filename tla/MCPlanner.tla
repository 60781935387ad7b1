----------------------------- MODULE MCPlanner -----------------------------
(* An instance of Planner for TLC: beyond every limit, and near zero.      *)
EXTENDS PlannerProperties

MCSignals == {-9, 0, 1, 6}
MCHoldings == {-3, 0, 1}
=============================================================================
