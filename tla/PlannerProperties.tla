------------------------- MODULE PlannerProperties -------------------------
(* What Planner must guarantee. *)
EXTENDS Planner

Planned == stage \notin {"inputs", "targets", "failed"}
Built == stage \in {"execute", "attention", "complete"}

NearestEdge(t) ==
    LET lot == Weight(t, 1)
        band == HalfBuffer * whole
        before == Weight(t, held[t]) - target[t]
        after == Weight(t, Destination(t)) - target[t]
    IN
    /\ target[t] >= 0 => Destination(t) >= 0
    /\ target[t] <= 0 => Destination(t) <= 0
    /\ 2 * Absolute(after) <= 2 * band + lot
    /\ trade[t] # 0 =>
        /\ Absolute(after) <= Absolute(before)
        /\ before > 0 => 2 * after >= -lot
        /\ before < 0 => 2 * after <= lot
        /\ edgeMode => 2 * Absolute(after)
                         >= 2 * Smaller(band, Absolute(target[t])) - lot

(* "In edge mode a breach trades only to the nearest edge.  Bands are       *)
(* clipped at zero and a zero target always flattens exactly" (README 421). *)
(* With lots to round to: a trade ends no farther from the target, passes   *)
(* it by half a lot at most, stays on the target's side of zero, leaves     *)
(* nothing outside the band but half a lot, and in edge mode moves no       *)
(* farther into it than that.                                               *)
TradesToNearestEdge == Planned => \A t \in Universe : NearestEdge(t)

LegsOf(t) == {leg \in intents : leg.ticker = t}
Signed(leg) == IF leg.side = "BUY" THEN leg.quantity ELSE -leg.quantity

(* The price the orders of a row are checked at.                           *)
LimitOf(t) ==
    IF t \notin DOMAIN quote THEN Price(t)
    ELSE IF trade[t] > 0 THEN quote[t].bid ELSE quote[t].ask

(* The legs of a row add up to its trade.  What they leave out is below the *)
(* minimum order at the limit they would have (at the mark, in a row that   *)
(* is not quoted), and never part of a close (prelive.py 669, 692-739).     *)
LegsAddUp ==
    Built => \A t \in Rows :
        LET short == trade[t] - MapThenSumSet(Signed, LegsOf(t))
        IN  short # 0 => /\ Destination(t) # 0
                         /\ Absolute(short) * LimitOf(t) < MinOrder

(* "Any trade that only reduces an existing position is sent reduce_only",  *)
(* and nothing else is; a target across zero is reached by a close and an   *)
(* opening leg (README 193-202), never by one order.                        *)
ReduceOnlyReduces ==
    \A leg \in intents :
        /\ leg.from * leg.to >= 0
        /\ leg.reduceOnly <=> Absolute(leg.to) < Absolute(leg.from)
        /\ leg.from # held[leg.ticker] =>
              Leg(leg.ticker, held[leg.ticker], leg.from, TRUE) \in intents

(* While the intents are worked off one after the other, and wherever the   *)
(* run stops, the account's gross is never above both what it was before    *)
(* and what the gate approved, but for the dust that is left: the reduce-   *)
(* only intents come first (intents_for_run).                               *)
GrossStaysBetween ==
    Built =>
        LET Before == Gross([t \in Rows |-> held[t]])
            Approved == Gross([t \in Rows |-> Destination(t)])
            Settled == {t \in Rows : LegsOf(t) \cap pending = {}}
            Left == MapThenSumSet(
                      LAMBDA t : Absolute(live[t] - Destination(t)) * Price(t),
                      Settled)
        IN  Gross([t \in Rows |-> live[t]]) <= Larger(Before, Approved + Left)

(* When every intent of a run is settled, whatever the books were, how far  *)
(* it is from its destinations is no part of a close and below the minimum  *)
(* order at the limits; and where the final verification, which counts at   *)
(* the marks, fails it nevertheless, the limit was below the mark.          *)
PostcheckForgives ==
    stage \in {"attention", "complete"} /\ pending = {} =>
        \A t \in Rows : live[t] # Destination(t) =>
            /\ Destination(t) # 0
            /\ Absolute(live[t] - Destination(t)) * LimitOf(t) < MinOrder
            /\ ~PostOk(t) => LimitOf(t) < Price(t)
=============================================================================
