------------------------------ MODULE Planner ------------------------------
(***************************************************************************)
(* From the day's signals to orders: build_targets (portfolio.py),         *)
(* plan_trades (planner.py, buffer.py), summarize_post_trade (risk.py),    *)
(* the quotes and build_alo_intents (cli.py, prelive.py), and the order in *)
(* which the executor works the intents off until its final check.  How an *)
(* intent is filled is Execution's; here any part of it may fill.          *)
(*                                                                         *)
(* Money is in whole dollars and a weight is the dollars it stands for.    *)
(* Quantities are whole lots and a price is the price of one lot.  What    *)
(* the scaling to the gross limit divides by is the variable "whole": the  *)
(* weights of a plan are numerators over it.                               *)
(***************************************************************************)
EXTENDS Integers, FiniteSetsExt

CONSTANTS
    Universe,       \* tickers with a signal
    Others,         \* tickers the account may hold besides
    Signals,        \* values of the volatility-scaled signal
    Holdings,       \* positions the account may have
    Marks,          \* mark prices; 0: the exchange has none
    ArrivalPrice,   \* the price in the vendor's payload
    BookPrices,     \* best bids and asks
    MaxAsset,       \* YOLO_MAX_ASSET_WEIGHT
    MaxGross,       \* YOLO_MAX_GROSS_WEIGHT
    MaxMargin,      \* the gross at YOLO_MAX_MARGIN_UTILIZATION
    HalfBuffer,     \* half of YOLO_TRADE_BUFFER
    MinOrder        \* YOLO_MIN_ORDER_USD

Tickers == Universe \cup Others

ASSUME PlannerAssumption ==
    /\ IsFiniteSet(Universe) /\ IsFiniteSet(Others)
    /\ Universe \cap Others = {}
    /\ Signals \subseteq Int
    /\ Holdings \subseteq Int
    /\ Marks \subseteq Nat
    /\ ArrivalPrice \in Nat \ {0}       \* validate_signals
    /\ BookPrices \subseteq Nat \ {0}   \* fetch_bbo
    /\ MaxAsset \in Nat
    /\ MaxGross \in Nat \ {0}
    /\ MaxMargin \in Nat
    /\ HalfBuffer \in Nat               \* "trade buffer must be non-negative"
    /\ MinOrder \in Nat

VARIABLES
    stage,
    longOnly,       \* YOLO_DIRECTION_MODE
    edgeMode,       \* YOLO_BUFFER_MODE: "edge" or "target"
    closeOthers,    \* YOLO_CLOSE_NON_UNIVERSE_POSITIONS
    signal, held, mark,             \* the inputs
    target, whole,                  \* final_weight, times whole
    trade,                          \* trade_quantity, per row of the plan
    reasons,                        \* why the risk gate refuses
    quote,                          \* best bid and ask, per row to trade
    intents,                        \* trade_intents
    pending, live                   \* intents to work off; the positions

settings == <<longOnly, edgeMode, closeOthers>>
inputs == <<signal, held, mark>>
planVars == <<target, whole, trade, reasons>>
orderVars == <<quote, intents>>
liveVars == <<pending, live>>
vars == <<stage, settings, inputs, planVars, orderVars, liveVars>>

Stages == {"inputs", "targets", "risk", "quotes", "build", "execute",
           "failed", "rejected", "missing", "attention", "complete"}

Absolute(x) == IF x < 0 THEN -x ELSE x
Larger(a, b) == IF a < b THEN b ELSE a
Smaller(a, b) == IF a < b THEN a ELSE b

Init ==
    /\ stage = "inputs"
    /\ longOnly \in BOOLEAN /\ edgeMode \in BOOLEAN /\ closeOthers \in BOOLEAN
    /\ signal \in [Universe -> Signals]
    /\ held \in [Tickers -> Holdings]
    /\ mark \in [Tickers -> Marks]
    /\ target = [t \in Universe |-> 0] /\ whole = MaxGross
    /\ trade = <<>>
    /\ reasons = {}
    /\ quote = <<>>
    /\ intents = {} /\ pending = {}
    /\ live = held

-----------------------------------------------------------------------------
(* build_targets *)

Clipped(t) ==
    LET v == Larger(-MaxAsset, Smaller(signal[t], MaxAsset))
    IN  IF longOnly THEN Larger(v, 0) ELSE v

BuildTargets ==
    /\ stage = "inputs"
    /\ stage' = "targets"
    /\ whole' = Larger(MaxGross,
                       MapThenSumSet(LAMBDA t : Absolute(Clipped(t)), Universe))
    /\ target' = [t \in Universe |-> Clipped(t) * MaxGross]
    /\ UNCHANGED <<settings, inputs, trade, reasons, orderVars, liveVars>>

-----------------------------------------------------------------------------
(* plan_trades *)

Exits == IF closeOthers THEN {t \in Others : held[t] # 0} ELSE {}
Rows == Universe \cup Exits

Price(t) == IF t \in Universe /\ mark[t] = 0 THEN ArrivalPrice ELSE mark[t]

\* absolute_buffer_bounds: a zero target has no band, no band crosses zero.
Lower(w) == IF w = 0 THEN 0
            ELSE IF w > 0 THEN Larger(0, w - HalfBuffer * whole)
            ELSE w - HalfBuffer * whole
Upper(w) == IF w = 0 THEN 0
            ELSE IF w < 0 THEN Smaller(0, w + HalfBuffer * whole)
            ELSE w + HalfBuffer * whole

\* Faulty: a breach is traded to the far edge.
BufferedFar(now, w) ==
    IF Lower(w) <= now /\ now <= Upper(w) THEN now
    ELSE IF now < Lower(w) THEN Upper(w) ELSE Lower(w)

\* buffered_destination
Buffered(now, w) ==
    IF Lower(w) <= now /\ now <= Upper(w) THEN now
    ELSE IF ~edgeMode THEN w
    ELSE IF now < Lower(w) THEN Lower(w) ELSE Upper(w)

Weight(t, lots) == lots * Price(t) * whole

\* n / d to the nearest whole number; a tie goes either way in floats.
Nearest(n, d, up) == IF up THEN (2 * n + d) \div (2 * d)
                     ELSE -((d - 2 * n) \div (2 * d))

Rounded(t, up) ==
    Nearest(Buffered(Weight(t, held[t]), target[t]) - Weight(t, held[t]),
            Weight(t, 1), up)

PlanTrades ==
    /\ stage = "targets"
    /\ \A t \in Exits : Price(t) > 0
    /\ stage' = "risk"
    /\ \E up \in SUBSET Universe :
        trade' = [t \in Rows |-> IF t \in Exits THEN -held[t]
                                 ELSE Rounded(t, t \in up)]
    /\ UNCHANGED <<settings, inputs, target, whole, reasons, orderVars,
                   liveVars>>

\* "cannot price non-universe position"
PlanFails ==
    /\ stage = "targets"
    /\ \E t \in Exits : Price(t) = 0
    /\ stage' = "failed"
    /\ UNCHANGED <<settings, inputs, planVars, orderVars, liveVars>>

Destination(t) == held[t] + trade[t]

-----------------------------------------------------------------------------
(* summarize_post_trade *)

Gross(lots) == MapThenSumSet(LAMBDA t : Absolute(lots[t]) * Price(t), Rows)

WithinBuffer(t) ==
    /\ Lower(target[t]) - Weight(t, 1) <= Weight(t, Destination(t))
    /\ Weight(t, Destination(t)) <= Upper(target[t]) + Weight(t, 1)

Objections ==
    LET gross == Gross([t \in Rows |-> Destination(t)]) IN
    {r \in {"gross", "asset", "margin", "buffer"} :
        \/ r = "gross" /\ gross > MaxGross
        \/ r = "asset" /\ \E t \in Rows :
                              Absolute(Destination(t)) * Price(t) > MaxAsset
        \/ r = "margin" /\ gross > MaxMargin
        \/ r = "buffer" /\ \E t \in Universe : ~WithinBuffer(t)}

RiskGate ==
    /\ stage = "risk"
    /\ reasons' = Objections
    /\ stage' = IF Objections = {} THEN "quotes" ELSE "rejected"
    /\ UNCHANGED <<settings, inputs, target, whole, trade, orderVars, liveVars>>

-----------------------------------------------------------------------------
(* The quotes and build_alo_intents *)

\* The position is to be closed: exempt from the minimum order.
Closes(t) == held[t] # 0 /\ Destination(t) = 0

\* trade_rows of _persist_and_print_prelive
ToQuote == {t \in Rows :
              /\ trade[t] # 0
              /\ Absolute(trade[t]) * Price(t) >= MinOrder \/ Closes(t)}

\* Later than the marks, and wherever the market is by then.
Books == {b \in [bid : BookPrices, ask : BookPrices] : b.bid < b.ask}

FetchQuotes ==
    /\ stage = "quotes"
    /\ quote' \in [ToQuote -> Books]
    /\ stage' = "build"
    /\ UNCHANGED <<settings, inputs, planVars, intents, liveVars>>

\* The book is one-sided or crossed, or the request fails.
FetchFails ==
    /\ stage = "quotes"
    /\ ToQuote # {}
    /\ stage' = "failed"
    /\ UNCHANGED <<settings, inputs, planVars, orderVars, liveVars>>

Leg(t, from, to, reduceOnly) ==
    [ticker |-> t, side |-> IF to > from THEN "BUY" ELSE "SELL",
     quantity |-> Absolute(to - from), from |-> from, to |-> to,
     reduceOnly |-> reduceOnly]

\* is_universe_exit, reducing_long or reducing_short
Reducing(t) ==
    \/ t \in Exits
    \/ /\ held[t] > 0 /\ trade[t] < 0
       /\ Destination(t) >= 0 /\ Absolute(Destination(t)) <= Absolute(held[t])
    \/ /\ held[t] < 0 /\ trade[t] > 0
       /\ Destination(t) <= 0 /\ Absolute(Destination(t)) <= Absolute(held[t])

\* Faulty: only a short position can be flipped.
CrossesZeroUp(t) == held[t] < 0 /\ Destination(t) > 0

CrossesZero(t) == \/ held[t] < 0 /\ Destination(t) > 0
                  \/ held[t] > 0 /\ Destination(t) < 0

Wanted(t) ==
    IF CrossesZero(t)
    THEN {Leg(t, held[t], 0, TRUE), Leg(t, 0, Destination(t), FALSE)}
    ELSE {Leg(t, held[t], Destination(t), Reducing(t))}

Limit(leg) == IF leg.side = "BUY" THEN quote[leg.ticker].bid
              ELSE quote[leg.ticker].ask
ExactClose(leg) == leg.reduceOnly /\ leg.to = 0

\* Faulty: a close may leave dust, too.
DustAlways(leg, lots) == lots * Limit(leg) < MinOrder

Dust(leg, lots) == lots * Limit(leg) < MinOrder /\ ~ExactClose(leg)

\* The rows build_alo_intents does not pass over.
ToTrade == {t \in Rows :
              /\ trade[t] # 0
              /\ ~(Absolute(trade[t]) * Price(t) < MinOrder /\ ~Closes(t))}

\* "missing BBO quote for planned trade" if a row was not quoted.
BuildIntents ==
    /\ stage = "build"
    /\ IF ToTrade \subseteq DOMAIN quote
       THEN /\ intents' = {leg \in UNION {Wanted(t) : t \in ToTrade} :
                              ~Dust(leg, leg.quantity)}
            /\ pending' = intents'
            /\ stage' = "execute"
       ELSE stage' = "missing" /\ UNCHANGED <<intents, pending>>
    /\ UNCHANGED <<settings, inputs, planVars, quote, live>>

-----------------------------------------------------------------------------
(* execute_run, seen from here: closeOthers is required *)

Value(leg) == leg.quantity * Limit(leg)

\* Faulty: the largest order first.
PrecedesByValue(a, b) == Value(a) > Value(b)

\* intents_for_run: ORDER BY reduce_only DESC, trade_value_usd DESC
Precedes(a, b) == \/ a.reduceOnly /\ ~b.reduceOnly
                  \/ a.reduceOnly = b.reduceOnly /\ Value(a) > Value(b)

\* Some of the leg fills; if more than dust is left the run stops.
Execute(leg, lots) ==
    /\ stage = "execute"
    /\ closeOthers
    /\ leg \in pending
    /\ ~\E other \in pending : Precedes(other, leg)
    /\ live' = [live EXCEPT ![leg.ticker] =
                   IF leg.side = "BUY" THEN @ + lots ELSE @ - lots]
    /\ IF lots = leg.quantity \/ Dust(leg, leg.quantity - lots)
       THEN pending' = pending \ {leg} /\ UNCHANGED stage
       ELSE stage' = "attention" /\ UNCHANGED pending
    /\ UNCHANGED <<settings, inputs, planVars, orderVars>>

\* _postcheck, at the prices of the plan.
PostOk(t) ==
    Absolute(live[t] - Destination(t)) * Price(t)
        <= (IF Destination(t) = 0 THEN Price(t) ELSE Larger(MinOrder, Price(t)))

Postcheck ==
    /\ stage = "execute"
    /\ closeOthers
    /\ pending = {}
    /\ stage' = IF \A t \in Rows : PostOk(t) THEN "complete" ELSE "attention"
    /\ UNCHANGED <<settings, inputs, planVars, orderVars, liveVars>>

-----------------------------------------------------------------------------
Next ==
    \/ BuildTargets \/ PlanTrades \/ PlanFails \/ RiskGate
    \/ FetchQuotes \/ FetchFails \/ BuildIntents
    \/ \E leg \in pending : \E lots \in 0..leg.quantity : Execute(leg, lots)
    \/ Postcheck

Spec == Init /\ [][Next]_vars
=============================================================================
