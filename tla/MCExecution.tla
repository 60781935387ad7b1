---------------------------- MODULE MCExecution ----------------------------
(* Instances of Execution for TLC.  "Z" is in no run's targets.           *)
EXTENDS ExecutionProperties

Leg(ticker, side, quantity, reduceOnly, closes, refDust) ==
    [ticker |-> ticker, side |-> side, quantity |-> quantity,
     reduceOnly |-> reduceOnly, closes |-> closes, refDust |-> refDust]

MCTickers == {"A", "B", "Z"}
Flat == [t \in MCTickers |-> 0]

\* A: short 1 -> long 2, a reduce-only close and then an opening leg, planned
\* at a higher price than the run is quoted.
FlipCurrent == [Flat EXCEPT !["A"] = -1]
FlipDestination == [t \in {"A"} |-> 2]
FlipPlan == <<Leg("A", "BUY", 1, TRUE, TRUE, 1),
              Leg("A", "BUY", 2, FALSE, FALSE, 0)>>

\* A: flat -> long 2, B: flat -> short 1; the first, planned at a lower price
\* than the run is quoted, may end as dust.
PairDestination == [t \in {"A", "B"} |-> IF t = "A" THEN 2 ELSE -1]
PairPlan == <<Leg("A", "BUY", 2, FALSE, FALSE, 1),
              Leg("B", "SELL", 1, FALSE, FALSE, 0)>>

\* A: long 3 -> long 1, a partial reduction.
TrimCurrent == [Flat EXCEPT !["A"] = 3]
TrimDestination == [t \in {"A"} |-> 1]
TrimPlan == <<Leg("A", "SELL", 2, TRUE, FALSE, 1)>>
=============================================================================
