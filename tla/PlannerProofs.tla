---------------------------- MODULE PlannerProofs ----------------------------
(* Proofs, for all signals, positions, prices and limits, that a plan trades *)
(* to the nearest edge of the buffer and that its reduce-only legs reduce.   *)
EXTENDS PlannerProperties, Sums

-----------------------------------------------------------------------------
(* The gross weight of the targets                                          *)

WeightFn == [t \in Universe |-> Absolute(Clipped(t))]
WeightTerm(g, s) ==
    IF s = {} THEN 0 ELSE Absolute(Clipped(First(s))) + g[Rest(s)]

LEMMA WeightFold ==
    MapThenSumSet(LAMBDA t : Absolute(Clipped(t)), Universe) =
      (CHOOSE g : g = [s \in SUBSET Universe |-> WeightTerm(g, s)])[Universe]
  BY DEF MapThenSumSet, MapThenFoldSet, WeightTerm, First, Rest

(* A clipped weight is a whole number of dollars.                           *)
LEMMA ClippedType ==
    ASSUME signal \in [Universe -> Int]
    PROVE  \A t \in Universe :
               Clipped(t) \in Int /\ Absolute(Clipped(t)) \in Nat
  BY PlannerAssumption DEF Clipped, Larger, Smaller, Absolute

LEMMA SumType ==
    ASSUME signal \in [Universe -> Int], IsFiniteSet(Universe)
    PROVE  MapThenSumSet(LAMBDA t : Absolute(Clipped(t)), Universe) \in Nat
  <1> DEFINE P(g) == g = [s \in SUBSET Universe |-> WeightTerm(g, s)]
             zero == [t \in Universe |-> 0]
  <1>1. \A t \in Universe : WeightFn[t] \in Int /\ 0 <= WeightFn[t]
    BY ClippedType DEF WeightFn
  <1>2. ASSUME NEW g PROVE P(g) <=> IsSum(g, WeightFn, Universe)
    <2>1. \A s \in SUBSET Universe : WeightTerm(g, s) = Term(WeightFn, g, s)
      BY DEF WeightTerm, Term, WeightFn, First
    <2> QED BY <2>1 DEF IsSum
  <1>3. P(SumFn(WeightFn, Universe))
    BY <1>1, <1>2, SumFnFacts
  <1>4. P(CHOOSE g : P(g))
    BY <1>3
  <1>5. (CHOOSE g : P(g)) = SumFn(WeightFn, Universe)
    BY <1>1, <1>2, <1>4, SumFnFacts, SumUnique
  <1>6. SumOf(zero, Universe) <= SumOf(WeightFn, Universe)
    BY <1>1, SumMonotone
  <1>7. SumOf(zero, Universe) = 0
    BY SumZero
  <1>8. SumOf(WeightFn, Universe) \in Int
    BY <1>1, SumOfSubset
  <1>9. SumOf(WeightFn, Universe) \in Nat
    <2> HIDE DEF zero
    <2> QED BY <1>6, <1>7, <1>8
  <1> QED BY <1>5, <1>9, WeightFold DEF SumOf

-----------------------------------------------------------------------------
(* Rounding to lots, the band, and what the one leaves of the other         *)

(* What integer division leaves.                                            *)
LEMMA Division ==
    ASSUME NEW a \in Int, NEW d \in Nat \ {0}
    PROVE  /\ a \div d \in Int
           /\ d * (a \div d) <= a /\ a < d * (a \div d) + d
  BY Z3

(* Rounding to lots moves the weight by half a lot at most, either way.     *)
LEMMA NearestFacts ==
    ASSUME NEW n \in Int, NEW d \in Nat \ {0}, NEW up \in BOOLEAN
    PROVE  /\ Nearest(n, d, up) \in Int
           /\ 2 * n - d <= 2 * (d * Nearest(n, d, up))
           /\ 2 * (d * Nearest(n, d, up)) <= 2 * n + d
  <1> DEFINE q == (2 * n + d) \div (2 * d)
             r == (d - 2 * n) \div (2 * d)
  <1>1. 2 * d \in Nat \ {0} /\ 2 * n + d \in Int /\ d - 2 * n \in Int
    OBVIOUS
  <1>2. /\ q \in Int /\ (2 * d) * q <= 2 * n + d
        /\ 2 * n + d < (2 * d) * q + 2 * d
    BY <1>1, Division
  <1>3. /\ r \in Int /\ (2 * d) * r <= d - 2 * n
        /\ d - 2 * n < (2 * d) * r + 2 * d
    BY <1>1, Division
  <1>4. Nearest(n, d, up) = IF up THEN q ELSE -r
    BY DEF Nearest
  <1> HIDE DEF q, r
  <1>5. (2 * d) * q = 2 * (d * q) /\ (2 * d) * r = 2 * (d * r)
        /\ d * (-r) = -(d * r) /\ d * q \in Int /\ d * r \in Int
    BY <1>2, <1>3
  <1> QED BY <1>2, <1>3, <1>4, <1>5

(* The destination lies between the target and the position, within the     *)
(* band, on the target's side of zero, and in edge mode no farther in.      *)
LEMMA BufferedFacts ==
    ASSUME NEW now \in Int, NEW w \in Int, edgeMode \in BOOLEAN,
           NEW band \in Nat, band = HalfBuffer * whole
    PROVE  LET b == Buffered(now, w) IN
           /\ b \in Int
           /\ Absolute(b - w) <= band
           /\ w >= 0 => b >= 0
           /\ w <= 0 => b <= 0
           /\ now >= w => w <= b /\ b <= now
           /\ now <= w => now <= b /\ b <= w
           /\ edgeMode /\ b # now =>
                  Absolute(b - w) >= Smaller(band, Absolute(w))
  <1> DEFINE lo == IF w = 0 THEN 0
                   ELSE IF w > 0 THEN Larger(0, w - band) ELSE w - band
             hi == IF w = 0 THEN 0
                   ELSE IF w < 0 THEN Smaller(0, w + band) ELSE w + band
  <1>1. Lower(w) = lo /\ Upper(w) = hi
    BY DEF Lower, Upper
  <1>2. /\ lo \in Int /\ hi \in Int /\ lo <= w /\ w <= hi
        /\ w - lo <= band /\ hi - w <= band
        /\ w >= 0 => lo >= 0 /\ w - lo = Smaller(band, w)
        /\ w <= 0 => hi <= 0 /\ hi - w = Smaller(band, -w)
        /\ w >= 0 => hi = w + (IF w = 0 THEN 0 ELSE band)
        /\ w <= 0 => lo = w - (IF w = 0 THEN 0 ELSE band)
    BY DEF Larger, Smaller
  <1> HIDE DEF lo, hi
  <1>3. Buffered(now, w) = IF lo <= now /\ now <= hi THEN now
                           ELSE IF ~edgeMode THEN w
                           ELSE IF now < lo THEN lo ELSE hi
    BY <1>1 DEF Buffered
  <1> QED BY <1>2, <1>3 DEF Absolute, Smaller

(* A whole number of lots other than zero is at least one lot.              *)
LEMMA Multiples ==
    ASSUME NEW d \in Nat \ {0}, NEW r \in Int
    PROVE  /\ d * r \in Int
           /\ r = 0 => d * r = 0
           /\ r >= 1 => d * r >= d
           /\ r <= -1 => d * r <= -d
  OBVIOUS

(* What the rounding leaves of BufferedFacts.                               *)
LEMMA RoundedFacts ==
    ASSUME NEW d \in Nat \ {0}, NEW now \in Int, NEW w \in Int, NEW b \in Int,
           NEW dr \in Int, NEW band \in Nat, NEW r \in Int, dr = d * r,
           2 * (b - now) - d <= 2 * dr, 2 * dr <= 2 * (b - now) + d,
           Absolute(b - w) <= band,
           now >= w => w <= b /\ b <= now,
           now <= w => now <= b /\ b <= w
    PROVE  LET before == now - w
               after == (now + dr) - w
           IN  /\ 2 * Absolute(after) <= 2 * band + d
               /\ r # 0 =>
                   /\ b # now
                   /\ Absolute(after) <= Absolute(before)
                   /\ before > 0 => 2 * after >= -d
                   /\ before < 0 => 2 * after <= d
                   /\ 2 * Absolute(after) >= 2 * Absolute(b - w) - d
  <1>1. r = 0 => dr = 0
    BY Multiples
  <1>2. r # 0 => dr >= d \/ dr <= -d
    BY Multiples
  <1> QED BY <1>1, <1>2 DEF Absolute

-----------------------------------------------------------------------------
(* The invariant *)

Typed ==
    /\ longOnly \in BOOLEAN /\ edgeMode \in BOOLEAN /\ closeOthers \in BOOLEAN
    /\ signal \in [Universe -> Int]
    /\ held \in [Tickers -> Int]
    /\ mark \in [Tickers -> Nat]
    /\ target \in [Universe -> Int]
    /\ whole \in Nat \ {0}

(* Every row trades whole lots; a position outside the universe is closed.  *)
RowsTyped ==
    Planned => /\ trade \in [Rows -> Int]
               /\ \A t \in Exits : trade[t] = -held[t]

NotYetBuilt == ~Built => intents = {}

PlanInv ==
    /\ Typed /\ RowsTyped /\ NotYetBuilt
    /\ TradesToNearestEdge /\ ReduceOnlyReduces

(* The invariant holds before anything is planned.                          *)
LEMMA PlanInit == Init => PlanInv
  <1> SUFFICES ASSUME Init PROVE PlanInv
    OBVIOUS
  <1>1. /\ signal \in [Universe -> Int] /\ held \in [Tickers -> Int]
        /\ mark \in [Tickers -> Nat]
    BY PlannerAssumption DEF Init
  <1>2. Typed
    BY <1>1, PlannerAssumption DEF Init, Typed
  <1>3. RowsTyped /\ NotYetBuilt /\ TradesToNearestEdge
    BY DEF Init, RowsTyped, NotYetBuilt, TradesToNearestEdge, Planned
  <1>4. ReduceOnlyReduces
    BY DEF Init, ReduceOnlyReduces
  <1> QED BY <1>2, <1>3, <1>4 DEF PlanInv

EdgeOf(lot, band, before, after, w, x, r) ==
    /\ w >= 0 => x >= 0
    /\ w <= 0 => x <= 0
    /\ 2 * Absolute(after) <= 2 * band + lot
    /\ r # 0 =>
        /\ Absolute(after) <= Absolute(before)
        /\ before > 0 => 2 * after >= -lot
        /\ before < 0 => 2 * after <= lot
        /\ edgeMode => 2 * Absolute(after)
                         >= 2 * Smaller(band, Absolute(w)) - lot

(* NearestEdge(t) if r is the trade.                                        *)
Edge(t, r) ==
    EdgeOf(Weight(t, 1), HalfBuffer * whole, Weight(t, held[t]) - target[t],
           Weight(t, held[t] + r) - target[t], target[t], held[t] + r, r)

(* The arithmetic of one row, put together.                                 *)
LEMMA RowEdge ==
    ASSUME Typed, NEW t \in Universe, NEW up \in BOOLEAN
    PROVE  Rounded(t, up) \in Int /\ Edge(t, Rounded(t, up))
  <1> DEFINE d == Price(t) * whole
             now == Weight(t, held[t])
             w == target[t]
             b == Buffered(now, w)
             r == Rounded(t, up)
             band == HalfBuffer * whole
  <1>1. Price(t) \in Nat \ {0} /\ held[t] \in Int /\ w \in Int
    BY PlannerAssumption DEF Typed, Price, Tickers
  <1>2. d \in Nat \ {0} /\ band \in Nat
    BY <1>1, PlannerAssumption DEF Typed
  <1>3. \A x \in Int : Weight(t, x) = d * x
    BY <1>1 DEF Weight, Typed
  <1>4. Weight(t, 1) = d
    BY <1>2, <1>3
  <1>5. now \in Int
    BY <1>1, <1>2, <1>3
  <1>6. /\ b \in Int /\ Absolute(b - w) <= band
        /\ w >= 0 => b >= 0
        /\ w <= 0 => b <= 0
        /\ now >= w => w <= b /\ b <= now
        /\ now <= w => now <= b /\ b <= w
        /\ edgeMode /\ b # now => Absolute(b - w) >= Smaller(band, Absolute(w))
    BY <1>1, <1>2, <1>5, BufferedFacts DEF Typed
  <1>7. r = Nearest(b - now, d, up)
    BY <1>4 DEF Rounded
  <1> HIDE DEF b
  <1>8. /\ r \in Int /\ d * r \in Int
        /\ 2 * (b - now) - d <= 2 * (d * r)
        /\ 2 * (d * r) <= 2 * (b - now) + d
    <2>1. b - now \in Int
      BY <1>5, <1>6
    <2> HIDE DEF now, d, r
    <2> QED BY <1>2, <1>7, <2>1, NearestFacts, Multiples
  <1>9. Weight(t, held[t] + r) = now + d * r
    <2>1. Weight(t, held[t] + r) = d * (held[t] + r) /\ now = d * held[t]
      BY <1>1, <1>3, <1>8
    <2> HIDE DEF d, r, now
    <2> QED BY <1>1, <1>2, <1>8, <2>1
  <1> DEFINE dr == d * r
             x == held[t] + r
  <1>10. x \in Int /\ now + dr = d * x
    BY <1>1, <1>3, <1>8, <1>9
  <1> HIDE DEF d, now, w, r, dr, band, x
  <1>11. dr = d * r /\ dr \in Int
    BY <1>8 DEF dr
  <1>12. /\ 2 * Absolute((now + dr) - w) <= 2 * band + d
         /\ r # 0 =>
              /\ b # now
              /\ Absolute((now + dr) - w) <= Absolute(now - w)
              /\ now - w > 0 => 2 * ((now + dr) - w) >= -d
              /\ now - w < 0 => 2 * ((now + dr) - w) <= d
              /\ 2 * Absolute((now + dr) - w) >= 2 * Absolute(b - w) - d
    <2>1. w \in Int
      BY <1>1
    <2> QED BY <1>2, <1>5, <1>6, <1>8, <1>11, <2>1, RoundedFacts
  <1>13. (w >= 0 => x >= 0) /\ (w <= 0 => x <= 0)
    <2>1. w >= 0 => 2 * (d * x) >= -d
      BY <1>1, <1>2, <1>5, <1>6, <1>8, <1>10, <1>11
    <2>2. w <= 0 => 2 * (d * x) <= d
      BY <1>1, <1>2, <1>5, <1>6, <1>8, <1>10, <1>11
    <2>3. d * x \in Int /\ (x >= 1 => d * x >= d) /\ (x <= -1 => d * x <= -d)
      BY <1>2, <1>10, Multiples
    <2> QED BY <2>1, <2>2, <2>3, <1>1, <1>2, <1>10
  <1>14. edgeMode /\ r # 0 => 2 * Absolute((now + dr) - w)
                                >= 2 * Smaller(band, Absolute(w)) - d
    <2>1. w \in Int
      BY <1>1
    <2> QED BY <1>2, <1>5, <1>6, <1>11, <1>12, <2>1 DEF Absolute, Smaller
  <1>15. /\ Weight(t, 1) = d /\ Weight(t, held[t]) = now
         /\ Weight(t, held[t] + r) = now + dr
         /\ target[t] = w /\ held[t] + r = x /\ HalfBuffer * whole = band
    BY <1>4, <1>9 DEF d, now, w, dr, x, band
  <1>16. Edge(t, r)
    <2>1. EdgeOf(d, band, now - w, (now + dr) - w, w, x, r)
      BY <1>12, <1>13, <1>14 DEF EdgeOf
    <2> QED BY <1>15, <2>1, Zenon DEF Edge
  <1> QED BY <1>8, <1>16 DEF r

(* What a row asks for: its closing leg comes first, is reduce-only and     *)
(* exact, and every leg stays on one side of zero.                          *)
LEMMA WantedLegs ==
    ASSUME Typed, NEW t \in Rows, trade[t] \in Int, trade[t] # 0,
           t \in Exits => trade[t] = -held[t], NEW leg \in Wanted(t)
    PROVE  /\ leg.ticker = t /\ leg.from * leg.to >= 0
           /\ leg.reduceOnly <=> Absolute(leg.to) < Absolute(leg.from)
           /\ leg.from # held[t] =>
                 /\ leg.from = 0
                 /\ Leg(t, held[t], 0, TRUE) \in Wanted(t)
  <1>1. held[t] \in Int /\ Destination(t) \in Int
    BY DEF Typed, Rows, Exits, Tickers, Destination
  <1>2. CASE CrossesZero(t)
    <2>1. \/ leg = Leg(t, held[t], 0, TRUE)
          \/ leg = Leg(t, 0, Destination(t), FALSE)
      BY <1>2 DEF Wanted
    <2> QED BY <1>1, <1>2, <2>1 DEF Wanted, Leg, Absolute, CrossesZero
  <1>3. CASE ~CrossesZero(t)
    <2>1. leg = Leg(t, held[t], Destination(t), Reducing(t))
      BY <1>3 DEF Wanted
    <2>2. held[t] * Destination(t) >= 0
      BY <1>1, <1>3 DEF CrossesZero
    <2>3. Reducing(t) <=> Absolute(Destination(t)) < Absolute(held[t])
      <3>1. CASE t \in Exits
        BY <3>1, <1>1 DEF Reducing, Exits, Destination, Absolute
      <3>2. CASE t \notin Exits
        BY <3>2, <1>1, <1>3 DEF Reducing, Destination, Absolute, CrossesZero
      <3> QED BY <3>1, <3>2
    <2> QED BY <2>1, <2>2, <2>3 DEF Leg
  <1> QED BY <1>2, <1>3

(* Dropping dust keeps the rule: a close is never dust.                     *)
LEMMA BuildKeeps == PlanInv /\ BuildIntents => ReduceOnlyReduces'
  <1> SUFFICES ASSUME PlanInv, BuildIntents PROVE ReduceOnlyReduces'
    OBVIOUS
  <1>1. UNCHANGED held
    BY DEF BuildIntents, inputs
  <1>2. CASE UNCHANGED intents
    BY <1>1, <1>2 DEF PlanInv, ReduceOnlyReduces, Leg
  <1>3. CASE intents' = {leg \in UNION {Wanted(t) : t \in ToTrade} :
                              ~Dust(leg, leg.quantity)}
    <2>1. ASSUME NEW t \in ToTrade
          PROVE  /\ t \in Rows /\ trade[t] \in Int /\ trade[t] # 0
                 /\ t \in Exits => trade[t] = -held[t]
      BY DEF ToTrade, PlanInv, RowsTyped, Planned, BuildIntents
    <2> SUFFICES ASSUME NEW leg \in intents'
                 PROVE  /\ leg.from * leg.to >= 0
                        /\ leg.reduceOnly
                             <=> Absolute(leg.to) < Absolute(leg.from)
                        /\ leg.from # held[leg.ticker] =>
                              Leg(leg.ticker, held[leg.ticker], leg.from, TRUE)
                                \in intents'
      BY <1>1 DEF ReduceOnlyReduces, Leg
    <2>2. PICK t \in ToTrade : leg \in Wanted(t)
      BY <1>3
    <2>3. /\ leg.ticker = t /\ leg.from * leg.to >= 0
          /\ leg.reduceOnly <=> Absolute(leg.to) < Absolute(leg.from)
          /\ leg.from # held[t] =>
                 /\ leg.from = 0
                 /\ Leg(t, held[t], 0, TRUE) \in Wanted(t)
      BY <2>1, <2>2, WantedLegs DEF PlanInv
    <2>4. \A lots : ~Dust(Leg(t, held[t], 0, TRUE), lots)
      BY DEF Dust, ExactClose, Leg
    <2> QED BY <1>3, <2>2, <2>3, <2>4
  <1> QED BY <1>2, <1>3 DEF BuildIntents

(* A step that leaves the plan and the intents alone.                       *)
LEMMA PlanKept ==
    ASSUME PlanInv, UNCHANGED <<settings, inputs, target, whole, trade>>,
           UNCHANGED intents \/ Built', Planned' => Planned
    PROVE  /\ Typed' /\ RowsTyped' /\ TradesToNearestEdge'
           /\ UNCHANGED intents => ReduceOnlyReduces'
  <1>1. Typed' /\ RowsTyped'
    BY DEF PlanInv, Typed, RowsTyped, settings, inputs, Rows, Exits
  <1>2. TradesToNearestEdge'
    BY DEF PlanInv, TradesToNearestEdge, NearestEdge, Weight, Price,
           Destination, settings, inputs
  <1>3. UNCHANGED intents => ReduceOnlyReduces'
    BY DEF PlanInv, ReduceOnlyReduces, Leg, inputs
  <1> QED BY <1>1, <1>2, <1>3

(* No step breaks the invariant; only PlanTrades and BuildIntents could.    *)
LEMMA PlanStep == PlanInv /\ [Next]_vars => PlanInv'
  <1> SUFFICES ASSUME PlanInv, [Next]_vars PROVE PlanInv'
    OBVIOUS
  <1>1. CASE BuildTargets
    <2>1. signal \in [Universe -> Int]
      BY DEF PlanInv, Typed
    <2>2. MapThenSumSet(LAMBDA t : Absolute(Clipped(t)), Universe) \in Nat
      BY <2>1, SumType, PlannerAssumption
    <2>3. whole' \in Nat \ {0}
      BY <1>1, <2>2, PlannerAssumption DEF BuildTargets, Larger
    <2>4. target' \in [Universe -> Int]
      <3>1. \A t \in Universe : Clipped(t) * MaxGross \in Int
        BY <2>1, ClippedType, PlannerAssumption
      <3> QED BY <1>1, <3>1 DEF BuildTargets
    <2>5. Typed'
      BY <1>1, <2>3, <2>4 DEF BuildTargets, PlanInv, Typed, settings, inputs
    <2>6. RowsTyped' /\ TradesToNearestEdge'
      BY <1>1 DEF BuildTargets, RowsTyped, TradesToNearestEdge, Planned
    <2>7. NotYetBuilt' /\ ReduceOnlyReduces'
      BY <1>1 DEF BuildTargets, PlanInv, NotYetBuilt, ReduceOnlyReduces, Built,
                  orderVars
    <2> QED BY <2>5, <2>6, <2>7 DEF PlanInv
  <1>2. CASE PlanTrades
    <2>1. Typed'
      BY <1>2 DEF PlanTrades, PlanInv, Typed, settings, inputs
    <2>2. PICK up \in SUBSET Universe :
             trade' = [t \in Rows |-> IF t \in Exits THEN -held[t]
                                      ELSE Rounded(t, t \in up)]
      BY <1>2 DEF PlanTrades
    <2>3. Universe \cap Exits = {} /\ Rows = Universe \cup Exits
      BY PlannerAssumption DEF Exits, Rows
    <2>4. \A t \in Exits : trade'[t] = -held[t] /\ held[t] \in Int
      BY <2>2, <2>3 DEF PlanInv, Typed, Exits, Tickers
    <2>5. \A t \in Universe : trade'[t] = Rounded(t, t \in up)
      BY <2>2, <2>3
    <2>6. \A t \in Universe : trade'[t] \in Int /\ Edge(t, trade'[t])
      <3> SUFFICES ASSUME NEW t \in Universe
                   PROVE  trade'[t] \in Int /\ Edge(t, trade'[t])
        OBVIOUS
      <3>1. Rounded(t, t \in up) = IF t \in up THEN Rounded(t, TRUE)
                                   ELSE Rounded(t, FALSE)
        BY DEF Rounded, Nearest
      <3>2. \A u \in BOOLEAN : Rounded(t, u) \in Int /\ Edge(t, Rounded(t, u))
        BY RowEdge DEF PlanInv
      <3> QED BY <2>5, <3>1, <3>2
    <2>7. trade' \in [Rows -> Int]
      BY <2>2, <2>3, <2>4, <2>6
    <2>8. RowsTyped'
      BY <1>2, <2>4, <2>7
         DEF PlanTrades, RowsTyped, Rows, Exits, settings, inputs
    <2>9. TradesToNearestEdge'
      BY <1>2, <2>6
         DEF PlanTrades, TradesToNearestEdge, NearestEdge, Edge, EdgeOf, Weight,
             Price, Destination, settings, inputs
    <2>10. NotYetBuilt' /\ ReduceOnlyReduces'
      BY <1>2 DEF PlanTrades, PlanInv, NotYetBuilt, ReduceOnlyReduces, Built,
                  orderVars
    <2> QED BY <2>1, <2>8, <2>9, <2>10 DEF PlanInv
  <1>3. CASE PlanFails \/ RiskGate \/ FetchQuotes \/ FetchFails
    <2>1. /\ UNCHANGED <<settings, inputs, target, whole, trade, intents>>
          /\ Planned' => Planned
          /\ ~Built
      BY <1>3 DEF PlanFails, RiskGate, FetchQuotes, FetchFails, planVars,
                  orderVars, Planned, Built
    <2>2. NotYetBuilt'
      BY <2>1 DEF PlanInv, NotYetBuilt
    <2> QED BY <2>1, <2>2, PlanKept DEF PlanInv
  <1>4. CASE BuildIntents
    <2>1. /\ UNCHANGED <<settings, inputs, target, whole, trade>>
          /\ UNCHANGED intents \/ Built'
          /\ Planned /\ ~Built
      BY <1>4 DEF BuildIntents, planVars, Planned, Built
    <2>2. NotYetBuilt'
      BY <2>1 DEF PlanInv, NotYetBuilt
    <2> QED BY <1>4, <2>1, <2>2, PlanKept, BuildKeeps DEF PlanInv
  <1>5. CASE \/ \E leg \in pending : \E lots \in 0..leg.quantity :
                    Execute(leg, lots)
             \/ Postcheck
    <2>1. /\ UNCHANGED <<settings, inputs, target, whole, trade, intents>>
          /\ Planned /\ Built'
      BY <1>5 DEF Execute, Postcheck, planVars, orderVars, Planned, Built
    <2>2. NotYetBuilt'
      BY <2>1 DEF NotYetBuilt
    <2> QED BY <2>1, <2>2, PlanKept DEF PlanInv
  <1>6. CASE UNCHANGED vars
    <2>1. /\ UNCHANGED <<settings, inputs, target, whole, trade, intents>>
          /\ Planned' => Planned
          /\ UNCHANGED stage
      BY <1>6 DEF vars, planVars, orderVars, Planned
    <2>2. NotYetBuilt'
      BY <2>1 DEF PlanInv, NotYetBuilt, Built
    <2> QED BY <2>1, <2>2, PlanKept DEF PlanInv
  <1> QED BY <1>1, <1>2, <1>3, <1>4, <1>5, <1>6 DEF Next

(* A plan trades every ticker to the nearest edge of its band, to half a    *)
(* lot, whatever the signals, positions, prices, limits and band are.       *)
THEOREM BandIsKept == Spec => []TradesToNearestEdge
  <1>1. PlanInv => TradesToNearestEdge
    BY DEF PlanInv
  <1> QED BY <1>1, PlanInit, PlanStep, PTL DEF Spec

(* Reduce-only intents are exactly those that reduce, and no intent crosses *)
(* zero, whatever was planned and whichever legs the minimum order drops.   *)
THEOREM ReduceOnlyIsExact == Spec => []ReduceOnlyReduces
  <1>1. PlanInv => ReduceOnlyReduces
    BY DEF PlanInv
  <1> QED BY <1>1, PlanInit, PlanStep, PTL DEF Spec
-----------------------------------------------------------------------------
(* The intents of a plan *)

PricesOK == Planned => \A t \in Rows : Price(t) \in Nat \ {0}

(* What is quoted is what the intents are built from.                       *)
Quoted == stage = "build" \/ Built
QuotesOK ==
    Quoted => /\ DOMAIN quote = ToQuote
              /\ \A t \in ToQuote : quote[t] \in Books

IntentsOK ==
    Built => intents = {leg \in UNION {Wanted(t) : t \in ToTrade} :
                              ~Dust(leg, leg.quantity)}

BuildInv ==
    PlanInv /\ stage # "missing" /\ PricesOK /\ QuotesOK /\ IntentsOK

(* Two conditions written twice agree: every row to trade was quoted.       *)
LEMMA QuotedIsTraded ==
    ASSUME PlanInv, PricesOK, Planned
    PROVE  ToTrade = ToQuote
  <1>1. \A t \in Rows : Absolute(trade[t]) * Price(t) \in Int
    <2> SUFFICES ASSUME NEW t \in Rows
                 PROVE  Absolute(trade[t]) * Price(t) \in Int
      OBVIOUS
    <2>1. trade[t] \in Int /\ Price(t) \in Nat
      BY DEF PlanInv, RowsTyped, PricesOK
    <2> QED BY <2>1 DEF Absolute
  <1> QED BY <1>1, PlannerAssumption DEF ToTrade, ToQuote

LEMMA BuildInit == Init => BuildInv
  BY PlanInit DEF Init, BuildInv, PricesOK, QuotesOK, IntentsOK, Planned, Built,
                  Quoted

LEMMA BuildStays ==
    ASSUME BuildInv, UNCHANGED <<settings, inputs, target, whole, trade>>,
           Quoted' => Quoted /\ UNCHANGED quote,
           Built' => Built /\ UNCHANGED intents, Planned' => Planned
    PROVE  PricesOK' /\ QuotesOK' /\ IntentsOK'
  <1>1. UNCHANGED <<held, mark, trade, closeOthers>>
    BY DEF settings, inputs
  <1>2. Rows' = Rows /\ \A t : Price(t)' = Price(t)
    BY <1>1 DEF Rows, Exits, Price
  <1>3. \A t : Destination(t)' = Destination(t) /\ Closes(t)' = Closes(t)
    BY <1>1, <1>2 DEF Destination, Closes
  <1>4. ToTrade' = ToTrade /\ ToQuote' = ToQuote
    BY <1>1, <1>2, <1>3 DEF ToTrade, ToQuote
  <1>5. \A t : Wanted(t)' = Wanted(t)
    BY <1>1, <1>3 DEF Wanted, CrossesZero, Leg, Reducing, Exits
  <1>6. UNCHANGED quote =>
            \A leg : Dust(leg, leg.quantity)' = Dust(leg, leg.quantity)
    BY DEF Dust, Limit, ExactClose
  <1>7. PricesOK'
    BY <1>2 DEF BuildInv, PricesOK
  <1>8. QuotesOK'
    BY <1>3, <1>4 DEF BuildInv, QuotesOK
  <1>9. IntentsOK'
    BY <1>4, <1>5, <1>6 DEF BuildInv, IntentsOK, Quoted
  <1> QED BY <1>7, <1>8, <1>9

LEMMA BuildStep == BuildInv /\ [Next]_vars => BuildInv'
  <1> SUFFICES ASSUME BuildInv, [Next]_vars PROVE BuildInv'
    OBVIOUS
  <1>0. PlanInv'
    BY PlanStep DEF BuildInv
  <1>1. CASE BuildTargets
    BY <1>0, <1>1 DEF BuildTargets, BuildInv, PricesOK, QuotesOK, IntentsOK,
        Planned, Built, Quoted
  <1>2. CASE PlanTrades
    <2>1. \A t \in Rows' : Price(t)' \in Nat \ {0}
      <3>1. \A t \in Rows : Price(t) \in Nat \ {0}
        BY <1>2, PlannerAssumption
           DEF PlanTrades, Rows, Exits, Price, BuildInv, PlanInv, Typed, Tickers
      <3> QED BY <1>2, <3>1
              DEF PlanTrades, Rows, Exits, Price, settings, inputs
    <2> QED BY <1>0, <1>2, <2>1
            DEF PlanTrades, BuildInv, PricesOK, QuotesOK, IntentsOK, Built,
                Quoted
  <1>3. CASE PlanFails \/ RiskGate \/ FetchFails
    <2>1. /\ UNCHANGED <<settings, inputs, target, whole, trade>>
          /\ ~Quoted' /\ ~Built' /\ stage' # "missing"
          /\ Planned' => Planned
      BY <1>3 DEF PlanFails, RiskGate, FetchFails, planVars, Quoted, Built,
                  Planned
    <2> QED BY <1>0, <2>1, BuildStays DEF BuildInv
  <1>4. CASE FetchQuotes
    <2>1. /\ UNCHANGED <<settings, inputs, target, whole, trade>>
          /\ Planned /\ ~Built' /\ stage' = "build"
      BY <1>4 DEF FetchQuotes, planVars, Built, Planned
    <2>2. PricesOK' /\ IntentsOK'
      BY <1>4, <2>1 DEF BuildInv, PricesOK, IntentsOK, Rows, Exits, Price,
                        settings, inputs
    <2>3. DOMAIN quote' = ToQuote /\ \A t \in ToQuote : quote'[t] \in Books
      BY <1>4 DEF FetchQuotes
    <2>4. ToQuote' = ToQuote
      BY <2>1 DEF ToQuote, Rows, Exits, Price, Closes, Destination,
                  settings, inputs
    <2> QED BY <1>0, <2>1, <2>2, <2>3, <2>4 DEF BuildInv, QuotesOK
  <1>5. CASE BuildIntents
    <2>1. /\ UNCHANGED <<settings, inputs, target, whole, trade, quote>>
          /\ Planned /\ Planned' /\ Quoted
      BY <1>5 DEF BuildIntents, planVars, Planned, Quoted
    <2>2. ToTrade \subseteq DOMAIN quote
      BY <2>1, QuotedIsTraded DEF BuildInv, QuotesOK
    <2>3. /\ intents' = {leg \in UNION {Wanted(t) : t \in ToTrade} :
                              ~Dust(leg, leg.quantity)}
          /\ stage' = "execute"
      BY <1>5, <2>2 DEF BuildIntents
    <2>4. Rows' = Rows /\ \A t : Price(t)' = Price(t)
      BY <2>1 DEF Rows, Exits, Price, settings, inputs
    <2>5. \A t : Closes(t)' = Closes(t)
      BY <2>1, <2>4 DEF Destination, Closes, inputs
    <2>6. ToTrade' = ToTrade /\ ToQuote' = ToQuote
      BY <2>1, <2>4, <2>5 DEF ToTrade, ToQuote
    <2>7. \A t : Wanted(t)' = Wanted(t)
      BY <2>1 DEF Wanted, CrossesZero, Leg, Reducing, Exits, Destination,
                  settings, inputs
    <2>8. \A leg : Dust(leg, leg.quantity)' = Dust(leg, leg.quantity)
      BY <2>1 DEF Dust, Limit, ExactClose
    <2>9. PricesOK' /\ QuotesOK'
      BY <2>1, <2>4, <2>6 DEF BuildInv, PricesOK, QuotesOK
    <2>10. IntentsOK'
      BY <2>3, <2>6, <2>7, <2>8 DEF IntentsOK
    <2> QED BY <1>0, <2>3, <2>9, <2>10 DEF BuildInv
  <1>6. CASE \/ \E leg \in pending : \E lots \in 0..leg.quantity :
                    Execute(leg, lots)
             \/ Postcheck
             \/ UNCHANGED vars
    <2>1. /\ UNCHANGED <<settings, inputs, target, whole, trade>>
          /\ UNCHANGED <<quote, intents>>
          /\ Planned' => Planned
          /\ Built' => Built
          /\ Quoted' => Quoted
          /\ stage' # "missing"
      BY <1>6 DEF Execute, Postcheck, vars, planVars, orderVars, Planned,
                  Built, Quoted, BuildInv
    <2> QED BY <1>0, <2>1, BuildStays DEF BuildInv
  <1> QED BY <1>1, <1>2, <1>3, <1>4, <1>5, <1>6 DEF Next

LEMMA BuildInvAlways == Spec => []BuildInv
  BY BuildInit, BuildStep, PTL DEF Spec
-----------------------------------------------------------------------------
(* The legs of one row *)

LEMMA RowTyped ==
    ASSUME BuildInv, Built, NEW t \in Rows
    PROVE  /\ held[t] \in Int /\ trade[t] \in Int /\ Destination(t) \in Int
           /\ Price(t) \in Nat \ {0}
           /\ Destination(t) = held[t] + trade[t]
           /\ t \in Exits => Destination(t) = 0
           /\ t \in DOMAIN quote <=> t \in ToQuote
           /\ t \in ToQuote => quote[t].bid \in Nat /\ quote[t].ask \in Nat
  <1>1. /\ held[t] \in Int /\ trade[t] \in Int /\ Price(t) \in Nat \ {0}
        /\ t \in Exits => trade[t] = -held[t]
    BY DEF BuildInv, PlanInv, Typed, RowsTyped, PricesOK, Planned, Built, Rows,
           Exits, Tickers
  <1>2. DOMAIN quote = ToQuote /\ \A u \in ToQuote : quote[u] \in Books
    BY DEF BuildInv, QuotesOK, Quoted
  <1>3. t \in ToQuote => quote[t].bid \in Nat /\ quote[t].ask \in Nat
    BY <1>2, PlannerAssumption DEF Books
  <1> QED BY <1>1, <1>2, <1>3 DEF Destination

LEMMA WantedTicker ==
    ASSUME NEW t, NEW leg \in Wanted(t)
    PROVE  leg.ticker = t
  BY DEF Wanted, Leg

(* A row has the legs it wants, but for the dust, or none at all.           *)
LEMMA LegsOfRow ==
    ASSUME BuildInv, Built, NEW t \in Rows
    PROVE  LegsOf(t) = IF t \in ToTrade
                       THEN {leg \in Wanted(t) : ~Dust(leg, leg.quantity)}
                       ELSE {}
  <1>1. intents = {leg \in UNION {Wanted(u) : u \in ToTrade} :
                              ~Dust(leg, leg.quantity)}
    BY DEF BuildInv, IntentsOK
  <1>2. \A u \in ToTrade : \A leg \in Wanted(u) : leg.ticker = u
    BY WantedTicker
  <1> QED BY <1>1, <1>2 DEF LegsOf

ClosingLeg(t) == Leg(t, held[t], 0, TRUE)
OpeningLeg(t) == Leg(t, 0, Destination(t), FALSE)
OnlyLeg(t) == Leg(t, held[t], Destination(t), Reducing(t))

LEMMA CrossingLegs ==
    ASSUME BuildInv, Built, NEW t \in ToTrade, CrossesZero(t)
    PROVE  /\ ClosingLeg(t) # OpeningLeg(t) /\ ClosingLeg(t) \in LegsOf(t)
           /\ LegsOf(t) = IF Dust(OpeningLeg(t), OpeningLeg(t).quantity)
                          THEN {ClosingLeg(t)}
                          ELSE {ClosingLeg(t), OpeningLeg(t)}
  <1>1. t \in Rows
    BY DEF ToTrade
  <1>2. Wanted(t) = {ClosingLeg(t), OpeningLeg(t)}
    BY DEF Wanted, ClosingLeg, OpeningLeg
  <1>3. ~Dust(ClosingLeg(t), ClosingLeg(t).quantity)
    BY DEF Dust, ExactClose, ClosingLeg, Leg
  <1>4. ClosingLeg(t).reduceOnly /\ ~OpeningLeg(t).reduceOnly
    BY DEF ClosingLeg, OpeningLeg, Leg
  <1> QED BY <1>1, <1>2, <1>3, <1>4, LegsOfRow

LEMMA OneLeg ==
    ASSUME BuildInv, Built, NEW t \in ToTrade, ~CrossesZero(t)
    PROVE  LegsOf(t) = IF Dust(OnlyLeg(t), OnlyLeg(t).quantity) THEN {}
                       ELSE {OnlyLeg(t)}
  <1>1. t \in Rows
    BY DEF ToTrade
  <1>2. Wanted(t) = {OnlyLeg(t)}
    BY DEF Wanted, OnlyLeg
  <1> QED BY <1>1, <1>2, LegsOfRow

LEMMA LegSigned ==
    ASSUME NEW t, NEW from \in Int, NEW to \in Int, NEW r \in BOOLEAN
    PROVE  /\ Signed(Leg(t, from, to, r)) = to - from
           /\ Leg(t, from, to, r).quantity = Absolute(to - from)
           /\ Leg(t, from, to, r).from = from /\ Leg(t, from, to, r).to = to
           /\ Leg(t, from, to, r).reduceOnly = r
           /\ Leg(t, from, to, r).ticker = t
           /\ Leg(t, from, to, r).side = IF to > from THEN "BUY" ELSE "SELL"
  BY DEF Signed, Leg, Absolute
-----------------------------------------------------------------------------
(* What the legs of a row add up to *)

SignedFn(S) == [leg \in S |-> Signed(leg)]
SignedTerm(g, s) == IF s = {} THEN 0 ELSE Signed(First(s)) + g[Rest(s)]

LEMMA SignedFold ==
    ASSUME NEW S
    PROVE  MapThenSumSet(Signed, S) =
             (CHOOSE g : g = [s \in SUBSET S |-> SignedTerm(g, s)])[S]
  BY DEF MapThenSumSet, MapThenFoldSet, SignedTerm, First, Rest

LEMMA SignedIsSum ==
    ASSUME NEW S, IsFiniteSet(S), \A leg \in S : Signed(leg) \in Int
    PROVE  MapThenSumSet(Signed, S) = SumOf(SignedFn(S), S)
  <1> DEFINE f == SignedFn(S)
             P(g) == g = [s \in SUBSET S |-> SignedTerm(g, s)]
  <1>1. \A x \in S : f[x] = Signed(x) /\ f[x] \in Int
    BY DEF SignedFn
  <1> HIDE DEF f
  <1>2. ASSUME NEW g PROVE P(g) <=> IsSum(g, f, S)
    <2>1. \A s \in SUBSET S : SignedTerm(g, s) = Term(f, g, s)
      BY <1>1 DEF SignedTerm, Term, First
    <2> QED BY <2>1 DEF IsSum
  <1>3. P(SumFn(f, S))
    BY <1>1, <1>2, SumFnFacts
  <1>4. P(CHOOSE g : P(g))
    BY <1>3
  <1>5. (CHOOSE g : P(g)) = SumFn(f, S)
    BY <1>1, <1>2, <1>4, SumFnFacts, SumUnique
  <1>6. MapThenSumSet(Signed, S) = SumOf(f, S)
    BY <1>5, SignedFold DEF SumOf
  <1> QED BY <1>6 DEF f

(* No leg, one leg, two legs.                                               *)
LEMMA SignedSums ==
    /\ MapThenSumSet(Signed, {}) = 0
    /\ \A a : Signed(a) \in Int => MapThenSumSet(Signed, {a}) = Signed(a)
    /\ \A a, b : Signed(a) \in Int /\ Signed(b) \in Int /\ a # b =>
          MapThenSumSet(Signed, {a, b}) = Signed(a) + Signed(b)
  <1>1. MapThenSumSet(Signed, {}) = 0
    BY FS_EmptySet, SignedIsSum, SumOfEmpty
  <1>2. ASSUME NEW a, Signed(a) \in Int
        PROVE  MapThenSumSet(Signed, {a}) = Signed(a)
    <2> DEFINE S == {a}
               f == SignedFn(S)
    <2>1. IsFiniteSet(S) /\ a \in S /\ \A x \in S : f[x] \in Int
      BY <1>2, FS_Singleton DEF SignedFn
    <2>2. f[a] = Signed(a)
      BY DEF SignedFn
    <2>3. SumOf(f, S) = f[a] + SumOf(f, S \ {a})
      <3> HIDE DEF f, S
      <3> QED BY <2>1, SumTake
    <2>4. S \ {a} = {}
      OBVIOUS
    <2>5. SumOf(f, S) = Signed(a)
      BY <1>2, <2>2, <2>3, <2>4, SumOfEmpty
    <2> QED BY <1>2, <2>1, <2>5, SignedIsSum
  <1>3. ASSUME NEW a, NEW b, Signed(a) \in Int, Signed(b) \in Int, a # b
        PROVE  MapThenSumSet(Signed, {a, b}) = Signed(a) + Signed(b)
    <2> DEFINE S == {a, b}
               f == SignedFn(S)
    <2>0. IsFiniteSet(S)
      <3>1. S = {a} \cup {b} /\ IsFiniteSet({a})
        BY FS_Singleton
      <3> QED BY <3>1, FS_AddElement
    <2>1. IsFiniteSet(S) /\ a \in S /\ \A x \in S : f[x] \in Int
      BY <1>3, <2>0 DEF SignedFn
    <2>2. f[a] = Signed(a) /\ f[b] = Signed(b)
      BY DEF SignedFn
    <2>3. SumOf(f, S) = f[a] + SumOf(f, S \ {a})
      <3> HIDE DEF f, S
      <3> QED BY <2>1, SumTake
    <2>4. S \ {a} = {b} /\ {b} \ {b} = {}
      BY <1>3
    <2>5. SumOf(f, {b}) = f[b] + SumOf(f, {b} \ {b})
      <3>1. IsFiniteSet({b}) /\ b \in {b} /\ \A x \in {b} : f[x] \in Int
        BY <2>1, FS_Singleton
      <3> HIDE DEF f, S
      <3> QED BY <3>1, SumTake
    <2>6. SumOf(f, S) = Signed(a) + Signed(b)
      <3>1. SumOf(f, {b} \ {b}) = 0
        BY <2>4, SumOfEmpty
      <3>2. SumOf(f, {b}) = Signed(b)
        BY <1>3, <2>2, <2>5, <3>1
      <3>3. SumOf(f, S \ {a}) = SumOf(f, {b})
        BY <2>4
      <3> HIDE DEF f, S
      <3> QED BY <2>2, <2>3, <3>2, <3>3
    <2> QED BY <1>3, <2>1, <2>6, SignedIsSum
  <1> QED BY <1>1, <1>2, <1>3

Shortfall(t) == trade[t] - MapThenSumSet(Signed, LegsOf(t))

(* What the legs leave out: nothing, the trade, or the opening of a flip.   *)
LEMMA WhatIsLeftOut ==
    ASSUME BuildInv, Built, NEW t \in Rows
    PROVE  \/ Shortfall(t) = 0
           \/ t \notin ToTrade /\ Shortfall(t) = trade[t]
           \/ /\ t \in ToTrade /\ ~CrossesZero(t)
              /\ Dust(OnlyLeg(t), OnlyLeg(t).quantity)
              /\ Shortfall(t) = trade[t]
           \/ /\ t \in ToTrade /\ CrossesZero(t)
              /\ Dust(OpeningLeg(t), OpeningLeg(t).quantity)
              /\ Shortfall(t) = Destination(t)
  <1>1. /\ held[t] \in Int /\ trade[t] \in Int /\ Destination(t) \in Int
        /\ Destination(t) = held[t] + trade[t]
    BY RowTyped
  <1>2. CASE t \notin ToTrade
    <2>1. LegsOf(t) = {}
      BY <1>2, LegsOfRow
    <2> QED BY <1>1, <1>2, <2>1, SignedSums DEF Shortfall
  <1>3. CASE t \in ToTrade /\ ~CrossesZero(t)
    <2>1. Signed(OnlyLeg(t)) = trade[t]
      <3>1. Reducing(t) \in BOOLEAN
        BY DEF Reducing
      <3> QED BY <1>1, <3>1, LegSigned DEF OnlyLeg
    <2>2. CASE Dust(OnlyLeg(t), OnlyLeg(t).quantity)
      <3>1. LegsOf(t) = {}
        BY <1>3, <2>2, OneLeg
      <3> QED BY <1>1, <1>3, <2>2, <3>1, SignedSums DEF Shortfall
    <2>3. CASE ~Dust(OnlyLeg(t), OnlyLeg(t).quantity)
      <3>1. LegsOf(t) = {OnlyLeg(t)}
        BY <1>3, <2>3, OneLeg
      <3>2. MapThenSumSet(Signed, LegsOf(t)) = trade[t]
        BY <1>1, <2>1, <3>1, SignedSums, Zenon
      <3> QED BY <1>1, <3>2 DEF Shortfall
    <2> QED BY <2>2, <2>3
  <1>4. CASE t \in ToTrade /\ CrossesZero(t)
    <2>1. /\ Signed(ClosingLeg(t)) = -held[t]
          /\ Signed(OpeningLeg(t)) = Destination(t)
      <3>1. held[t] \in Int /\ Destination(t) \in Int
        BY <1>1
      <3> QED BY <3>1 DEF ClosingLeg, OpeningLeg, Signed, Leg, Absolute
    <2>2. ClosingLeg(t) # OpeningLeg(t)
      BY <1>4, CrossingLegs
    <2>3. CASE Dust(OpeningLeg(t), OpeningLeg(t).quantity)
      <3>1. LegsOf(t) = {ClosingLeg(t)}
        BY <1>4, <2>3, CrossingLegs
      <3>2. MapThenSumSet(Signed, LegsOf(t)) = -held[t]
        <4>1. Signed(ClosingLeg(t)) \in Int
          BY <1>1, <2>1
        <4>2. MapThenSumSet(Signed, LegsOf(t)) = Signed(ClosingLeg(t))
          BY <3>1, <4>1, SignedSums, Zenon
        <4> QED BY <2>1, <4>2
      <3> QED BY <1>1, <1>4, <2>3, <3>2 DEF Shortfall
    <2>4. CASE ~Dust(OpeningLeg(t), OpeningLeg(t).quantity)
      <3>1. LegsOf(t) = {ClosingLeg(t), OpeningLeg(t)}
        BY <1>4, <2>4, CrossingLegs
      <3>2. MapThenSumSet(Signed, LegsOf(t)) = -held[t] + Destination(t)
        <4>1. Signed(ClosingLeg(t)) \in Int /\ Signed(OpeningLeg(t)) \in Int
          BY <1>1, <2>1
        <4>2. MapThenSumSet(Signed, LegsOf(t))
                = Signed(ClosingLeg(t)) + Signed(OpeningLeg(t))
          BY <2>2, <3>1, <4>1, SignedSums, Zenon
        <4> QED BY <2>1, <4>2
      <3> QED BY <1>1, <3>2 DEF Shortfall
    <2> QED BY <2>3, <2>4
  <1> QED BY <1>2, <1>3, <1>4
(* The legs of a row add up to its trade, but for what is smaller than the  *)
(* minimum order and not part of a close.                                   *)
LEMMA LeavesOutDust ==
    ASSUME BuildInv, Built, NEW t \in Rows, Shortfall(t) # 0
    PROVE  /\ Destination(t) # 0
           /\ Absolute(Shortfall(t)) * LimitOf(t) < MinOrder
  <1>1. /\ held[t] \in Int /\ trade[t] \in Int /\ Destination(t) \in Int
        /\ Destination(t) = held[t] + trade[t] /\ Price(t) \in Nat \ {0}
        /\ t \in Exits => Destination(t) = 0
        /\ t \in DOMAIN quote <=> t \in ToQuote
    BY RowTyped
  <1>2. ToTrade = ToQuote
    BY QuotedIsTraded DEF BuildInv, Built, Planned
  <1>3. CASE t \notin ToTrade /\ Shortfall(t) = trade[t]
    <2>1. trade[t] # 0 /\ Absolute(trade[t]) * Price(t) < MinOrder /\ ~Closes(t)
      BY <1>3 DEF ToTrade
    <2>2. Destination(t) # 0
      BY <1>1, <2>1 DEF Closes
    <2>3. LimitOf(t) = Price(t)
      BY <1>1, <1>2, <1>3 DEF LimitOf
    <2> QED BY <1>3, <2>1, <2>2, <2>3
  <1>4. CASE /\ t \in ToTrade /\ ~CrossesZero(t)
             /\ Dust(OnlyLeg(t), OnlyLeg(t).quantity)
             /\ Shortfall(t) = trade[t]
    <2>1. trade[t] # 0
      BY <1>4 DEF ToTrade
    <2>2. /\ OnlyLeg(t).to = Destination(t)
          /\ OnlyLeg(t).reduceOnly = Reducing(t)
      BY DEF OnlyLeg, Leg
    <2>3. OnlyLeg(t).quantity = Absolute(trade[t])
      BY <1>1 DEF OnlyLeg, Leg, Absolute
    <2>4. Limit(OnlyLeg(t)) = LimitOf(t)
      BY <1>1, <1>2, <1>4, <2>1 DEF OnlyLeg, Leg, Limit, LimitOf
    <2>5. Dust(OnlyLeg(t), Absolute(trade[t]))
      BY <1>4, <2>3
    <2>6. Absolute(trade[t]) * LimitOf(t) < MinOrder
      BY <2>4, <2>5 DEF Dust
    <2>7. Destination(t) # 0
      <3>1. ~(Reducing(t) /\ Destination(t) = 0)
        BY <1>4, <2>2 DEF Dust, ExactClose
      <3>2. Destination(t) = 0 => Reducing(t)
        BY <1>1, <2>1 DEF Reducing, Absolute
      <3> QED BY <3>1, <3>2
    <2> QED BY <1>4, <2>6, <2>7
  <1>5. CASE /\ t \in ToTrade /\ CrossesZero(t)
             /\ Dust(OpeningLeg(t), OpeningLeg(t).quantity)
             /\ Shortfall(t) = Destination(t)
    <2>1. Destination(t) # 0
      BY <1>1, <1>5 DEF CrossesZero
    <2>2. Limit(OpeningLeg(t)) = LimitOf(t)
      BY <1>1, <1>2, <1>5 DEF OpeningLeg, Leg, Limit, LimitOf, CrossesZero
    <2>3. OpeningLeg(t).quantity = Absolute(Destination(t))
      BY <1>1 DEF OpeningLeg, Leg, Absolute
    <2>4. Dust(OpeningLeg(t), Absolute(Destination(t)))
      BY <1>5, <2>3
    <2>5. Absolute(Destination(t)) * LimitOf(t) < MinOrder
      BY <2>2, <2>4 DEF Dust
    <2> QED BY <1>5, <2>1, <2>5
  <1> QED BY <1>3, <1>4, <1>5, WhatIsLeftOut

(* The legs of a row add up to its trade but for what is below the minimum  *)
(* order at its limit and no part of a close, for every book.               *)
THEOREM LegsMakeTheTrade == Spec => []LegsAddUp
  <1>1. BuildInv => LegsAddUp
    BY LeavesOutDust DEF LegsAddUp, Shortfall
  <1> QED BY <1>1, BuildInvAlways, PTL
-----------------------------------------------------------------------------
(* The shape of a leg *)

RowLimit(t) == IF t \notin ToTrade THEN Price(t)
               ELSE IF trade[t] > 0 THEN quote[t].bid ELSE quote[t].ask

LegShape(t, leg) ==
    /\ leg.ticker = t /\ leg.from \in Int /\ leg.to \in Int
    /\ leg.from # leg.to
    /\ leg.quantity = Absolute(leg.to - leg.from)
    /\ leg.side = IF leg.to > leg.from THEN "BUY" ELSE "SELL"
    /\ (leg.from >= 0 /\ leg.to >= 0) \/ (leg.from <= 0 /\ leg.to <= 0)
    /\ leg.reduceOnly \in BOOLEAN
    /\ leg.reduceOnly <=> Absolute(leg.to) < Absolute(leg.from)
    /\ leg.reduceOnly => leg.from = held[t]
    /\ leg.from = held[t] \/ CrossesZero(t)
    /\ leg.to = Destination(t) \/ (CrossesZero(t) /\ leg = ClosingLeg(t))
    /\ Limit(leg) = RowLimit(t)

LEMMA LegShapes ==
    ASSUME BuildInv, Built, NEW t \in ToTrade, NEW leg \in Wanted(t)
    PROVE  LegShape(t, leg)
  <1>1. t \in Rows /\ trade[t] # 0
    BY DEF ToTrade
  <1>2. /\ held[t] \in Int /\ trade[t] \in Int /\ Destination(t) \in Int
        /\ Destination(t) = held[t] + trade[t]
        /\ t \in Exits => Destination(t) = 0
    BY <1>1, RowTyped
  <1>3. CASE CrossesZero(t) /\ leg = ClosingLeg(t)
    <2>1. /\ leg.ticker = t /\ leg.from = held[t] /\ leg.to = 0
          /\ leg.reduceOnly = TRUE /\ leg.quantity = Absolute(0 - held[t])
          /\ leg.side = IF 0 > held[t] THEN "BUY" ELSE "SELL"
      BY <1>3 DEF ClosingLeg, Leg
    <2>2. Limit(leg) = RowLimit(t)
      BY <1>2, <1>3, <2>1 DEF Limit, RowLimit, CrossesZero
    <2>3. leg.from # leg.to /\ Absolute(leg.to) < Absolute(leg.from)
      BY <1>2, <1>3, <2>1 DEF CrossesZero, Absolute
    <2>4. \/ leg.from >= 0 /\ leg.to >= 0
          \/ leg.from <= 0 /\ leg.to <= 0
      BY <1>2, <2>1
    <2>5. leg.from \in Int /\ leg.to \in Int
      BY <1>2, <2>1
    <2> QED BY <1>3, <2>1, <2>2, <2>3, <2>4, <2>5, Zenon DEF LegShape
  <1>4. CASE CrossesZero(t) /\ leg = OpeningLeg(t)
    <2>1. /\ leg.ticker = t /\ leg.from = 0 /\ leg.to = Destination(t)
          /\ leg.reduceOnly = FALSE /\ leg.quantity = Absolute(Destination(t))
          /\ leg.side = IF Destination(t) > 0 THEN "BUY" ELSE "SELL"
      BY <1>2, <1>4 DEF OpeningLeg, Leg, Absolute
    <2>2. Limit(leg) = RowLimit(t)
      BY <1>2, <1>4, <2>1 DEF Limit, RowLimit, CrossesZero
    <2>3. /\ leg.from # leg.to /\ ~(Absolute(leg.to) < Absolute(leg.from))
          /\ leg.quantity = Absolute(leg.to - leg.from)
      BY <1>2, <1>4, <2>1 DEF CrossesZero, Absolute
    <2>4. \/ leg.from >= 0 /\ leg.to >= 0
          \/ leg.from <= 0 /\ leg.to <= 0
      BY <1>2, <2>1
    <2>5. leg.from \in Int /\ leg.to \in Int
      BY <1>2, <2>1
    <2> QED BY <1>4, <2>1, <2>2, <2>3, <2>4, <2>5, Zenon DEF LegShape
  <1>5. CASE ~CrossesZero(t) /\ leg = OnlyLeg(t)
    <2>1. /\ leg.ticker = t /\ leg.from = held[t] /\ leg.to = Destination(t)
          /\ leg.reduceOnly = Reducing(t)
          /\ leg.quantity = Absolute(Destination(t) - held[t])
          /\ leg.side = IF Destination(t) > held[t] THEN "BUY" ELSE "SELL"
      BY <1>5 DEF OnlyLeg, Leg
    <2>2. Limit(leg) = RowLimit(t)
      BY <1>1, <1>2, <2>1 DEF Limit, RowLimit
    <2>3. /\ leg.from # leg.to
          /\ \/ leg.from >= 0 /\ leg.to >= 0
             \/ leg.from <= 0 /\ leg.to <= 0
      BY <1>1, <1>2, <1>5, <2>1 DEF CrossesZero
    <2>4. Reducing(t) \in BOOLEAN
      BY DEF Reducing
    <2>5. Reducing(t) <=> Absolute(Destination(t)) < Absolute(held[t])
      BY <1>1, <1>2, <1>5 DEF Reducing, Absolute, CrossesZero, Exits
    <2> QED BY <1>2, <2>1, <2>2, <2>3, <2>4, <2>5 DEF LegShape
  <1> QED BY <1>3, <1>4, <1>5 DEF Wanted, ClosingLeg, OpeningLeg, OnlyLeg

LEMMA IntentShapes ==
    ASSUME BuildInv, Built, NEW leg \in intents
    PROVE  /\ leg.ticker \in ToTrade /\ leg.ticker \in Rows
           /\ leg \in LegsOf(leg.ticker)
           /\ LegShape(leg.ticker, leg)
  <1>1. PICK t \in ToTrade : leg \in Wanted(t)
    BY DEF BuildInv, IntentsOK
  <1>2. leg.ticker = t
    BY <1>1, WantedTicker
  <1> QED BY <1>1, <1>2, LegShapes DEF LegsOf, ToTrade

(* Two legs of a row are the close and the opening of a flip.               *)
LEMMA LegPairs ==
    ASSUME BuildInv, Built, NEW a \in intents, NEW b \in intents, a # b,
           a.ticker = b.ticker
    PROVE  /\ CrossesZero(a.ticker)
           /\ {a, b} = {ClosingLeg(a.ticker), OpeningLeg(a.ticker)}
           /\ a.reduceOnly <=> ~b.reduceOnly
  <1> DEFINE t == a.ticker
  <1>1. t \in ToTrade /\ t \in Rows /\ a \in LegsOf(t) /\ b \in LegsOf(t)
    BY IntentShapes
  <1>2. a \in Wanted(t) /\ b \in Wanted(t)
    BY <1>1, LegsOfRow
  <1>3. CrossesZero(t)
    BY <1>2 DEF Wanted
  <1>4. Wanted(t) = {ClosingLeg(t), OpeningLeg(t)}
    BY <1>3 DEF Wanted, ClosingLeg, OpeningLeg
  <1>5. ClosingLeg(t).reduceOnly /\ ~OpeningLeg(t).reduceOnly
    BY DEF ClosingLeg, OpeningLeg, Leg
  <1> QED BY <1>2, <1>3, <1>4, <1>5

(* Before an opening leg of a flip, the close is an intent, too.            *)
LEMMA CloseIsThere ==
    ASSUME BuildInv, Built, NEW t \in ToTrade, CrossesZero(t)
    PROVE  /\ ClosingLeg(t) \in intents /\ ClosingLeg(t).reduceOnly
           /\ ClosingLeg(t).from = held[t] /\ ClosingLeg(t).to = 0
           /\ ExactClose(ClosingLeg(t)) /\ ClosingLeg(t).ticker = t
  BY CrossingLegs DEF LegsOf, ClosingLeg, Leg, ExactClose
-----------------------------------------------------------------------------
(* Working the intents off *)

Reduces(S) == \E leg \in S : leg.reduceOnly

Forgiven(t, lots) ==
    \/ lots = Destination(t)
    \/ /\ Destination(t) # 0
       /\ Absolute(lots - Destination(t)) * RowLimit(t) < MinOrder

(* The next leg of a ticker starts where the position is, and no opening    *)
(* leg is touched while a reduction is left.                                *)
ReadyOK ==
    stage = "execute" =>
        /\ \A leg \in pending :
              \/ leg.reduceOnly
              \/ \A other \in pending :
                     other.ticker = leg.ticker => ~other.reduceOnly
              => live[leg.ticker] = leg.from
        /\ Reduces(pending) =>
              \A leg \in intents : ~leg.reduceOnly => leg \in pending

(* Until all reductions are done no position is larger than it was ...      *)
BelowHeld ==
    Reduces(pending) =>
        \A t \in Rows : Absolute(live[t]) <= Absolute(held[t])

(* ... and then none is larger than planned, but for what is left over.     *)
BelowPlan ==
    ~Reduces(pending) =>
        \A t \in Rows : LegsOf(t) \cap pending # {} =>
            Absolute(live[t]) <= Absolute(Destination(t))

SettledOK ==
    \A t \in Rows : LegsOf(t) \cap pending = {} => Forgiven(t, live[t])

Progress == ReadyOK /\ BelowHeld /\ BelowPlan /\ SettledOK
Fresh == stage = "execute" /\ pending = intents /\ live = held

LiveInv ==
    /\ BuildInv
    /\ live \in [Tickers -> Int]
    /\ pending \subseteq intents
    /\ ~Built => live = held /\ pending = {}
    /\ Built => Fresh \/ Progress

LEMMA LegGrows ==
    ASSUME BuildInv, Built, NEW leg \in intents, ~leg.reduceOnly
    PROVE  /\ leg.to = Destination(leg.ticker)
           /\ Absolute(leg.from) <= Absolute(leg.to)
  <1>1. leg.ticker \in ToTrade /\ LegShape(leg.ticker, leg)
    BY IntentShapes
  <1>2. CrossesZero(leg.ticker) => ClosingLeg(leg.ticker).reduceOnly
    BY <1>1, CloseIsThere
  <1> QED BY <1>1, <1>2 DEF LegShape, Absolute

LEMMA FreshProgress ==
    ASSUME BuildInv, Built, Fresh
    PROVE  Progress
  <1>1. ASSUME NEW leg \in intents,
               \/ leg.reduceOnly
               \/ \A other \in intents :
                      other.ticker = leg.ticker => ~other.reduceOnly
        PROVE  held[leg.ticker] = leg.from
    <2>1. leg.ticker \in ToTrade /\ LegShape(leg.ticker, leg)
      BY IntentShapes
    <2>2. CASE leg.reduceOnly
      BY <2>1, <2>2 DEF LegShape
    <2>3. CASE \A other \in intents :
                      other.ticker = leg.ticker => ~other.reduceOnly
      <3>1. ~CrossesZero(leg.ticker)
        BY <2>1, <2>3, CloseIsThere
      <3> QED BY <2>1, <3>1 DEF LegShape
    <2> QED BY <1>1, <2>2, <2>3
  <1>2. ReadyOK
    BY <1>1 DEF ReadyOK, Fresh
  <1>3. BelowHeld
    <2> SUFFICES ASSUME NEW t \in Rows
                 PROVE  Absolute(held[t]) <= Absolute(held[t])
      BY DEF BelowHeld, Fresh
    <2>1. held[t] \in Int
      BY RowTyped
    <2> QED BY <2>1 DEF Absolute
  <1>4. BelowPlan
    <2> SUFFICES ASSUME ~Reduces(intents), NEW t \in Rows,
                        NEW leg \in LegsOf(t)
                 PROVE  Absolute(held[t]) <= Absolute(Destination(t))
      BY DEF BelowPlan, Fresh
    <2>1. leg \in intents /\ leg.ticker = t
      BY DEF LegsOf
    <2>2. held[t] = leg.from
      BY <1>1, <2>1 DEF Reduces
    <2>3. ~leg.reduceOnly
      BY <2>1 DEF Reduces
    <2> QED BY <2>1, <2>2, <2>3, LegGrows
  <1>5. SettledOK
    <2> SUFFICES ASSUME NEW t \in Rows, LegsOf(t) = {}
                 PROVE  Forgiven(t, held[t])
      BY DEF SettledOK, Fresh, LegsOf
    <2>1. /\ held[t] \in Int /\ trade[t] \in Int /\ Destination(t) \in Int
          /\ Destination(t) = held[t] + trade[t] /\ Price(t) \in Nat
          /\ t \in Exits => Destination(t) = 0
      BY RowTyped
    <2>2. Absolute(held[t] - Destination(t)) = Absolute(trade[t])
      BY <2>1 DEF Absolute
    <2>3. CASE trade[t] = 0
      BY <2>1, <2>3 DEF Forgiven
    <2>4. CASE trade[t] # 0 /\ t \notin ToTrade
      <3>1. Absolute(trade[t]) * Price(t) < MinOrder /\ ~Closes(t)
        BY <2>4 DEF ToTrade
      <3>2. Destination(t) # 0
        BY <2>1, <2>4, <3>1 DEF Closes
      <3> QED BY <2>2, <2>4, <3>1, <3>2 DEF Forgiven, RowLimit
    <2>5. CASE trade[t] # 0 /\ t \in ToTrade
      <3>1. ~CrossesZero(t)
        BY <2>5, CloseIsThere DEF LegsOf
      <3>2. Dust(OnlyLeg(t), OnlyLeg(t).quantity)
        BY <2>5, <3>1, OneLeg
      <3>3. OnlyLeg(t) \in Wanted(t)
        BY <3>1 DEF Wanted, OnlyLeg
      <3>4. LegShape(t, OnlyLeg(t)) /\ OnlyLeg(t).to = Destination(t)
            /\ OnlyLeg(t).from = held[t]
        BY <2>5, <3>3, LegShapes DEF OnlyLeg, Leg
      <3>5. OnlyLeg(t).quantity = Absolute(trade[t])
        BY <2>1, <3>4 DEF LegShape
      <3>6. Absolute(trade[t]) * RowLimit(t) < MinOrder
            /\ ~ExactClose(OnlyLeg(t))
        BY <3>2, <3>4, <3>5 DEF Dust, LegShape
      <3>7. Destination(t) # 0
        BY <2>1, <2>5, <3>4, <3>6 DEF LegShape, ExactClose, Absolute
      <3> QED BY <2>2, <3>6, <3>7 DEF Forgiven
    <2> QED BY <2>3, <2>4, <2>5
  <1> QED BY <1>2, <1>3, <1>4, <1>5 DEF Progress

(* A partial fill moves the position from one end of the leg to the other.  *)
LEMMA PartOfLeg ==
    ASSUME NEW t, NEW leg, LegShape(t, leg), NEW lots \in 0..leg.quantity,
           NEW x, x = IF leg.side = "BUY" THEN leg.from + lots
                      ELSE leg.from - lots
    PROVE  /\ x \in Int /\ leg.quantity - lots \in Nat
           /\ Absolute(x - leg.to) = leg.quantity - lots
           /\ leg.reduceOnly => Absolute(x) <= Absolute(leg.from)
           /\ ~leg.reduceOnly => Absolute(x) <= Absolute(leg.to)
  <1>1. /\ leg.from \in Int /\ leg.to \in Int
        /\ leg.quantity = Absolute(leg.to - leg.from)
        /\ leg.side = IF leg.to > leg.from THEN "BUY" ELSE "SELL"
        /\ (leg.from >= 0 /\ leg.to >= 0) \/ (leg.from <= 0 /\ leg.to <= 0)
        /\ leg.reduceOnly <=> Absolute(leg.to) < Absolute(leg.from)
    BY DEF LegShape
  <1>2. CASE leg.to > leg.from
    <2>1. leg.quantity = leg.to - leg.from /\ x = leg.from + lots
      BY <1>1, <1>2 DEF Absolute
    <2>2. lots \in Int /\ 0 <= lots /\ lots <= leg.to - leg.from
      BY <1>1, <2>1
    <2> QED BY <1>1, <1>2, <2>1, <2>2 DEF Absolute
  <1>3. CASE ~(leg.to > leg.from)
    <2>1. leg.quantity = leg.from - leg.to /\ x = leg.from - lots
      BY <1>1, <1>3 DEF Absolute
    <2>2. lots \in Int /\ 0 <= lots /\ lots <= leg.from - leg.to
      BY <1>1, <2>1
    <2>3. /\ x \in Int /\ leg.quantity - lots \in Nat
          /\ Absolute(x - leg.to) = leg.quantity - lots
      <3> DEFINE f == leg.from
                 g == leg.to
                 q == leg.quantity
      <3>1. /\ f \in Int /\ g \in Int /\ q = f - g /\ x = f - lots
            /\ lots \in Int /\ lots <= f - g
        BY <1>1, <2>1, <2>2
      <3> HIDE DEF f, g, q
      <3>2. x \in Int /\ q - lots \in Nat /\ x - g = q - lots
        BY <3>1
      <3>3. Absolute(x - g) = q - lots
        BY <3>2 DEF Absolute
      <3> QED BY <3>2, <3>3 DEF f, g, q
    <2> DEFINE f == leg.from
               g == leg.to
    <2>4. /\ f \in Int /\ g \in Int /\ g <= x /\ x <= f
          /\ (f >= 0 /\ g >= 0) \/ (f <= 0 /\ g <= 0)
      BY <1>1, <1>3, <2>1, <2>2
    <2> HIDE DEF f, g
    <2>5. /\ Absolute(g) < Absolute(f) => Absolute(x) <= Absolute(f)
          /\ ~(Absolute(g) < Absolute(f)) => Absolute(x) <= Absolute(g)
      BY <2>3, <2>4 DEF Absolute
    <2> QED BY <1>1, <2>3, <2>5 DEF f, g
  <1> QED BY <1>2, <1>3
(* The plan a run is working off does not change.                           *)
LEMMA PlanStands ==
    ASSUME UNCHANGED <<settings, inputs, target, whole, trade, quote, intents>>
    PROVE  /\ Rows' = Rows
           /\ \A t : /\ Destination(t)' = Destination(t)
                     /\ RowLimit(t)' = RowLimit(t)
                     /\ LegsOf(t)' = LegsOf(t) /\ Price(t)' = Price(t)
                     /\ held'[t] = held[t]
  <1>1. UNCHANGED <<held, mark, trade, closeOthers>>
    BY DEF settings, inputs
  <1>2. Rows' = Rows /\ \A t : Price(t)' = Price(t)
    BY <1>1 DEF Rows, Exits, Price
  <1>3. \A t : Destination(t)' = Destination(t) /\ Closes(t)' = Closes(t)
    BY <1>1 DEF Destination, Closes
  <1>4. ToTrade' = ToTrade
    BY <1>1, <1>2, <1>3 DEF ToTrade
  <1>5. \A t : RowLimit(t)' = RowLimit(t)
    BY <1>1, <1>2, <1>4 DEF RowLimit
  <1>6. \A t : LegsOf(t)' = LegsOf(t)
    BY DEF LegsOf
  <1> QED BY <1>1, <1>2, <1>3, <1>5, <1>6

LEMMA ExecuteKeeps ==
    ASSUME LiveInv, NEW leg \in pending, NEW lots \in 0..leg.quantity,
           Execute(leg, lots)
    PROVE  Progress' /\ live' \in [Tickers -> Int]
  <1> DEFINE t == leg.ticker
             x == live'[t]
  <1>1. /\ Built /\ stage = "execute" /\ BuildInv /\ pending \subseteq intents
        /\ live \in [Tickers -> Int]
        /\ \A other \in pending : ~Precedes(other, leg)
    BY DEF Execute, Built, LiveInv
  <1>2. ReadyOK /\ BelowHeld /\ BelowPlan /\ SettledOK
    BY <1>1, FreshProgress DEF LiveInv, Progress
  <1>3. UNCHANGED <<settings, inputs, target, whole, trade, quote, intents>>
    BY DEF Execute, planVars, orderVars
  <1>4. /\ t \in ToTrade /\ t \in Rows /\ t \in Tickers /\ leg \in LegsOf(t)
        /\ LegShape(t, leg)
    BY <1>1, IntentShapes DEF Rows, Exits, Tickers
  <1>5. \A other \in pending : other.reduceOnly => leg.reduceOnly
    BY <1>1 DEF Precedes
  <1>6. live[t] = leg.from
    BY <1>1, <1>2, <1>5 DEF ReadyOK
  <1>7. /\ x = IF leg.side = "BUY" THEN leg.from + lots ELSE leg.from - lots
        /\ \A u \in Tickers : u # t => live'[u] = live[u]
        /\ live' = [live EXCEPT ![t] = x]
    BY <1>1, <1>4, <1>6 DEF Execute
  <1>8. /\ x \in Int /\ leg.quantity - lots \in Nat
        /\ Absolute(x - leg.to) = leg.quantity - lots
        /\ leg.reduceOnly => Absolute(x) <= Absolute(leg.from)
        /\ ~leg.reduceOnly => Absolute(x) <= Absolute(leg.to)
    <2> HIDE DEF x, t
    <2> QED BY <1>4, <1>7, PartOfLeg
  <1>9. live' \in [Tickers -> Int]
    BY <1>1, <1>7, <1>8
  <1>10. \/ /\ pending' = pending \ {leg} /\ stage' = "execute"
            /\ lots = leg.quantity \/ Dust(leg, leg.quantity - lots)
         \/ pending' = pending /\ stage' = "attention"
    BY <1>1 DEF Execute
  <1>11. pending \ {leg} \subseteq pending' /\ pending' \subseteq pending
    BY <1>10
  <1> HIDE DEF x, t
  <1>12. ASSUME NEW other \in pending', other # leg, other.ticker = t
         PROVE  /\ CrossesZero(t) /\ leg = ClosingLeg(t) /\ leg.reduceOnly
                /\ other = OpeningLeg(t) /\ ~other.reduceOnly
                /\ leg \notin pending' => x = 0
    <2>1. /\ CrossesZero(t) /\ {leg, other} = {ClosingLeg(t), OpeningLeg(t)}
          /\ leg.reduceOnly <=> ~other.reduceOnly
      BY <1>1, <1>11, <1>12, LegPairs DEF t
    <2>2. leg.reduceOnly /\ ~other.reduceOnly
      BY <1>5, <1>11, <1>12, <2>1
    <2>3. leg = ClosingLeg(t) /\ other = OpeningLeg(t)
      BY <2>1, <2>2 DEF OpeningLeg, Leg
    <2>4. ExactClose(leg) /\ leg.to = 0
      BY <1>1, <1>4, <2>1, <2>3, CloseIsThere
    <2>5. leg \notin pending' => x = 0
      <3> SUFFICES ASSUME leg \notin pending' PROVE x = 0
        OBVIOUS
      <3>1. lots = leg.quantity
        BY <1>10, <2>4 DEF Dust
      <3>2. Absolute(x - 0) = 0
        BY <1>4, <1>8, <2>4, <3>1 DEF LegShape, Absolute
      <3> QED BY <1>8, <3>2 DEF Absolute
    <2> QED BY <2>1, <2>2, <2>3, <2>5
  <1>13. Rows' = Rows /\ \A u : /\ Destination(u)' = Destination(u)
                                /\ RowLimit(u)' = RowLimit(u)
                                /\ LegsOf(u)' = LegsOf(u)
                                /\ held'[u] = held[u]
    BY <1>3, PlanStands
  <1>14. \A u \in Rows : u \in Tickers
    BY DEF Rows, Exits, Tickers
  <1>15. ReadyOK'
    <2> SUFFICES ASSUME stage' = "execute"
                 PROVE  /\ \A other \in pending' :
                              \/ other.reduceOnly
                              \/ \A third \in pending' :
                                     third.ticker = other.ticker
                                       => ~third.reduceOnly
                              => live'[other.ticker] = other.from
                        /\ Reduces(pending') =>
                              \A other \in intents :
                                  ~other.reduceOnly => other \in pending'
      BY <1>3 DEF ReadyOK, Reduces
    <2>1. pending' = pending \ {leg}
      BY <1>10
    <2>2. ASSUME NEW other \in pending',
                 \/ other.reduceOnly
                 \/ \A third \in pending' :
                        third.ticker = other.ticker => ~third.reduceOnly
          PROVE  live'[other.ticker] = other.from
      <3>1. other \in pending /\ other # leg /\ other.ticker \in Rows
        BY <1>1, <2>1, IntentShapes
      <3>2. CASE other.ticker = t
        <4>1. x = 0 /\ other = OpeningLeg(t)
          BY <1>12, <2>1, <3>1, <3>2
        <4> QED BY <3>2, <4>1 DEF OpeningLeg, Leg, x
      <3>3. CASE other.ticker # t
        <4>1. live[other.ticker] = other.from
          BY <1>1, <1>2, <2>1, <2>2, <3>1, <3>3 DEF ReadyOK, t
        <4> QED BY <1>7, <1>14, <3>1, <3>3, <4>1
      <3> QED BY <3>2, <3>3
    <2>3. ASSUME Reduces(pending'), NEW other \in intents, ~other.reduceOnly
          PROVE  other \in pending'
      <3>1. leg.reduceOnly /\ Reduces(pending)
        BY <1>5, <1>11, <2>3 DEF Reduces
      <3> QED BY <1>1, <1>2, <2>1, <2>3, <3>1 DEF ReadyOK
    <2> QED BY <2>2, <2>3
  <1>16. BelowHeld'
    <2> SUFFICES ASSUME Reduces(pending'), NEW u \in Rows
                 PROVE  Absolute(live'[u]) <= Absolute(held[u])
      BY <1>13 DEF BelowHeld, Reduces, Absolute
    <2>1. leg.reduceOnly /\ Reduces(pending)
      BY <1>5, <1>11 DEF Reduces
    <2>2. CASE u = t
      BY <1>4, <1>8, <2>1, <2>2 DEF x, LegShape
    <2>3. CASE u # t
      BY <1>2, <1>7, <1>14, <2>1, <2>3 DEF BelowHeld
    <2> QED BY <2>2, <2>3
  <1>17. BelowPlan'
    <2> SUFFICES ASSUME ~Reduces(pending'), NEW u \in Rows,
                        NEW other \in LegsOf(u) \cap pending'
                 PROVE  Absolute(live'[u]) <= Absolute(Destination(u))
      BY <1>13 DEF BelowPlan, Reduces, Absolute
    <2>1. /\ other \in intents /\ other.ticker = u /\ other \in pending
          /\ ~other.reduceOnly
      BY <1>11 DEF LegsOf, Reduces
    <2>2. /\ other.to = Destination(u)
          /\ Absolute(other.from) <= Absolute(other.to)
      BY <1>1, <2>1, LegGrows
    <2>3. CASE u = t /\ other = leg
      BY <1>8, <2>1, <2>2, <2>3 DEF x
    <2>4. CASE u = t /\ other # leg
      <3>1. leg.reduceOnly
        BY <1>12, <2>1, <2>4
      <3>2. leg \notin pending'
        BY <3>1 DEF Reduces
      <3>3. x = 0 /\ other.from = 0
        BY <1>12, <2>1, <2>4, <3>2 DEF OpeningLeg, Leg
      <3> QED BY <2>2, <2>4, <3>3 DEF x
    <2>5. CASE u # t
      <3>1. \A third \in pending : third.ticker = u => ~third.reduceOnly
        BY <1>11, <2>5 DEF Reduces, t
      <3>2. live[u] = other.from
        BY <1>1, <1>2, <2>1, <3>1 DEF ReadyOK
      <3> QED BY <1>7, <1>14, <2>2, <2>5, <3>2
    <2> QED BY <2>3, <2>4, <2>5
  <1>18. SettledOK'
    <2> SUFFICES ASSUME NEW u \in Rows, LegsOf(u) \cap pending' = {}
                 PROVE  Forgiven(u, live'[u])
      BY <1>13 DEF SettledOK, Forgiven, Absolute
    <2>1. CASE u # t
      <3>1. \A other \in LegsOf(u) : other # leg
        BY <2>1 DEF LegsOf, t
      <3>2. LegsOf(u) \cap pending = {}
        BY <1>11, <3>1
      <3> QED BY <1>2, <1>7, <1>14, <2>1, <3>2 DEF SettledOK
    <2>2. CASE u = t
      <3>1. /\ leg \notin pending'
            /\ lots = leg.quantity \/ Dust(leg, leg.quantity - lots)
        BY <1>4, <1>10, <2>2
      <3>2. /\ leg.to \in Int /\ leg.from \in Int /\ Limit(leg) = RowLimit(t)
            /\ leg.from # leg.to
            /\ leg.reduceOnly <=> Absolute(leg.to) < Absolute(leg.from)
        BY <1>4 DEF LegShape
      <3>3. CASE leg.to = Destination(t)
        <4>1. CASE lots = leg.quantity
          <5>1. Absolute(x - leg.to) = 0
            BY <1>4, <1>8, <4>1 DEF LegShape, Absolute
          <5>2. x = leg.to
            BY <1>8, <3>2, <5>1 DEF Absolute
          <5> QED BY <2>2, <3>3, <5>2 DEF Forgiven, x
        <4>2. CASE Dust(leg, leg.quantity - lots)
          <5>1. Absolute(x - Destination(t)) * RowLimit(t) < MinOrder
            BY <1>8, <3>2, <3>3, <4>2 DEF Dust
          <5>2. Destination(t) # 0
            <6>1. leg.to = 0 => leg.reduceOnly
              BY <3>2 DEF Absolute
            <6> QED BY <3>3, <4>2, <6>1 DEF Dust, ExactClose
          <5> QED BY <2>2, <5>1, <5>2 DEF Forgiven, x
        <4> QED BY <3>1, <4>1, <4>2
      <3>4. CASE CrossesZero(t) /\ leg = ClosingLeg(t)
        <4>1. leg.reduceOnly /\ leg.to = 0 /\ ExactClose(leg)
          BY <1>1, <1>4, <3>4, CloseIsThere
        <4>2. lots = leg.quantity
          BY <3>1, <4>1 DEF Dust
        <4>3. Absolute(x - leg.to) = 0
          BY <1>4, <1>8, <4>2 DEF LegShape, Absolute
        <4>4. x = 0
          BY <1>8, <4>1, <4>3 DEF Absolute
        <4>5. OpeningLeg(t) \notin LegsOf(t)
          <5> SUFFICES ASSUME OpeningLeg(t) \in LegsOf(t) PROVE FALSE
            OBVIOUS
          <5>1. OpeningLeg(t) \in intents /\ ~OpeningLeg(t).reduceOnly
            BY DEF LegsOf, OpeningLeg, Leg
          <5>2. OpeningLeg(t) \in pending
            BY <1>1, <1>2, <4>1, <5>1 DEF ReadyOK, Reduces
          <5>3. OpeningLeg(t) \in pending'
            BY <1>11, <4>1, <5>1, <5>2
          <5> QED BY <2>2, <5>3
        <4>6. Dust(OpeningLeg(t), OpeningLeg(t).quantity)
          BY <1>1, <1>4, <3>4, <4>5, CrossingLegs
        <4>7. OpeningLeg(t) \in Wanted(t)
          BY <3>4 DEF Wanted, OpeningLeg
        <4>8. LegShape(t, OpeningLeg(t)) /\ OpeningLeg(t).to = Destination(t)
              /\ OpeningLeg(t).from = 0
          BY <1>1, <1>4, <4>7, LegShapes DEF OpeningLeg, Leg
        <4>9. /\ OpeningLeg(t).quantity = Absolute(x - Destination(t))
              /\ Destination(t) # 0 /\ Limit(OpeningLeg(t)) = RowLimit(t)
          BY <4>4, <4>8 DEF LegShape, Absolute
        <4>10. Absolute(x - Destination(t)) * RowLimit(t) < MinOrder
          BY <4>6, <4>9 DEF Dust
        <4> QED BY <2>2, <4>9, <4>10 DEF Forgiven, x
      <3> QED BY <1>4, <3>3, <3>4 DEF LegShape
    <2> QED BY <2>1, <2>2
  <1> QED BY <1>9, <1>15, <1>16, <1>17, <1>18 DEF Progress

LEMMA LiveInit == Init => LiveInv
  <1> SUFFICES ASSUME Init PROVE LiveInv
    OBVIOUS
  <1>1. live \in [Tickers -> Int]
    BY PlannerAssumption DEF Init
  <1> QED BY <1>1, BuildInit DEF Init, LiveInv, Built

LEMMA LiveStep == LiveInv /\ [Next]_vars => LiveInv'
  <1> SUFFICES ASSUME LiveInv, [Next]_vars PROVE LiveInv'
    OBVIOUS
  <1>0. BuildInv'
    BY BuildStep DEF LiveInv
  <1>1. CASE BuildTargets \/ PlanTrades \/ PlanFails \/ RiskGate \/ FetchQuotes
             \/ FetchFails
    <2>1. /\ UNCHANGED <<live, pending, held, intents>> /\ ~Built /\ ~Built'
      BY <1>1 DEF BuildTargets, PlanTrades, PlanFails, RiskGate, FetchQuotes,
                  FetchFails, Built, orderVars, liveVars, inputs
    <2> QED BY <1>0, <2>1 DEF LiveInv
  <1>2. CASE BuildIntents
    <2>1. /\ UNCHANGED <<live, held>> /\ ~Built /\ stage' # "missing"
      BY <1>0, <1>2 DEF BuildIntents, Built, inputs, BuildInv
    <2>2. stage' = "execute" /\ pending' = intents'
      BY <1>2, <2>1 DEF BuildIntents
    <2> QED BY <1>0, <2>1, <2>2 DEF LiveInv, Fresh, Built
  <1>3. CASE \E leg \in pending : \E lots \in 0..leg.quantity :
                 Execute(leg, lots)
    <2>1. PICK leg \in pending :
              \E lots \in 0..leg.quantity : Execute(leg, lots)
      BY <1>3
    <2>2. PICK lots \in 0..leg.quantity : Execute(leg, lots)
      BY <2>1
    <2>3. Progress' /\ live' \in [Tickers -> Int]
      BY <2>2, ExecuteKeeps
    <2>4. pending' \subseteq pending /\ Built' /\ UNCHANGED intents
      BY <2>2 DEF Execute, Built, orderVars
    <2> QED BY <1>0, <2>3, <2>4 DEF LiveInv
  <1>4. CASE Postcheck
    <2>1. /\ UNCHANGED <<settings, inputs, target, whole, trade, quote, intents,
                         live, pending>>
          /\ Built /\ Built' /\ stage' # "execute"
      BY <1>4 DEF Postcheck, planVars, orderVars, liveVars, Built
    <2>2. Progress
      BY <2>1, FreshProgress DEF LiveInv
    <2>3. /\ Rows' = Rows
          /\ \A t : /\ Destination(t)' = Destination(t)
                    /\ RowLimit(t)' = RowLimit(t) /\ Price(t)' = Price(t)
                    /\ LegsOf(t)' = LegsOf(t) /\ held'[t] = held[t]
      BY <2>1, PlanStands
    <2>4. ReadyOK'
      BY <2>1 DEF ReadyOK
    <2>5. BelowHeld' /\ BelowPlan' /\ SettledOK'
      BY <2>1, <2>2, <2>3 DEF Progress, BelowHeld, BelowPlan, SettledOK,
                              Forgiven, Absolute, Reduces
    <2> QED BY <1>0, <2>1, <2>4, <2>5 DEF LiveInv, Progress
  <1>5. CASE UNCHANGED vars
    <2>1. /\ UNCHANGED <<settings, inputs, target, whole, trade, quote, intents,
                         live, pending, stage>>
      BY <1>5 DEF vars, planVars, orderVars, liveVars
    <2>2. /\ Rows' = Rows
          /\ \A t : /\ Destination(t)' = Destination(t)
                    /\ RowLimit(t)' = RowLimit(t) /\ Price(t)' = Price(t)
                    /\ LegsOf(t)' = LegsOf(t) /\ held'[t] = held[t]
      BY <2>1, PlanStands
    <2>3. Progress => Progress'
      <3> SUFFICES ASSUME Progress PROVE Progress'
        OBVIOUS
      <3>1. ReadyOK'
        BY <2>1 DEF ReadyOK, Progress, Reduces
      <3>2. BelowHeld' /\ BelowPlan' /\ SettledOK'
        BY <2>1, <2>2 DEF Progress, BelowHeld, BelowPlan, SettledOK,
                          Forgiven, Absolute, Reduces
      <3> QED BY <3>1, <3>2 DEF Progress
    <2>4. /\ Built' = Built /\ Fresh' = Fresh /\ UNCHANGED held
      BY <2>1 DEF Built, Fresh, inputs
    <2> QED BY <1>0, <2>1, <2>3, <2>4 DEF LiveInv
  <1> QED BY <1>1, <1>2, <1>3, <1>4, <1>5 DEF Next

LEMMA LiveInvAlways == Spec => []LiveInv
  BY LiveInit, LiveStep, PTL DEF Spec

(* What a run that worked off all its intents has left over is what the     *)
(* rules of the plan and of the attempts allow, for every book; and where   *)
(* the final verification refuses it, the limit was below the mark.         *)
THEOREM LeftoversAreForgiven == Spec => []PostcheckForgives
  <1>1. LiveInv => PostcheckForgives
    <2> SUFFICES ASSUME LiveInv, stage \in {"attention", "complete"},
                        pending = {}, NEW t \in Rows, live[t] # Destination(t)
                 PROVE  /\ Destination(t) # 0
                        /\ Absolute(live[t] - Destination(t)) * LimitOf(t)
                              < MinOrder
                        /\ ~PostOk(t) => LimitOf(t) < Price(t)
      BY DEF PostcheckForgives
    <2>1. Built /\ BuildInv /\ live \in [Tickers -> Int]
      BY DEF LiveInv, Built
    <2>2. SettledOK
      BY <2>1 DEF LiveInv, Fresh, Progress
    <2>3. /\ Destination(t) \in Int /\ Price(t) \in Nat \ {0}
          /\ t \in DOMAIN quote <=> t \in ToQuote
          /\ t \in ToQuote => quote[t].bid \in Nat /\ quote[t].ask \in Nat
      BY <2>1, RowTyped
    <2>4. live[t] \in Int
      BY <2>1 DEF Rows, Exits, Tickers
    <2>5. ToTrade = ToQuote
      BY <2>1, QuotedIsTraded DEF BuildInv, Built, Planned
    <2>6. RowLimit(t) = LimitOf(t) /\ LimitOf(t) \in Nat
      BY <2>3, <2>5 DEF RowLimit, LimitOf
    <2> DEFINE left == Absolute(live[t] - Destination(t))
               p == Price(t)
               l == LimitOf(t)
    <2>7. Destination(t) # 0 /\ left * l < MinOrder
      BY <2>2, <2>6 DEF SettledOK, Forgiven
    <2>8. ASSUME ~PostOk(t) PROVE l < p
      <3>1. left \in Nat /\ p \in Nat /\ l \in Nat
        BY <2>3, <2>4, <2>6 DEF Absolute
      <3>2. ~(left * p <= Larger(MinOrder, p))
        BY <2>7, <2>8 DEF PostOk
      <3> HIDE DEF left, p, l
      <3>3. left * p > MinOrder
        BY <3>1, <3>2, PlannerAssumption DEF Larger
      <3> SUFFICES ASSUME p <= l PROVE FALSE
        BY <3>1
      <3>4. left * p <= left * l /\ left * p \in Nat /\ left * l \in Nat
        BY <3>1
      <3> QED BY <2>7, <3>3, <3>4, PlannerAssumption
    <2> QED BY <2>7, <2>8
  <1> QED BY <1>1, LiveInvAlways, PTL
-----------------------------------------------------------------------------
(* The gross of the account *)

Money(lots, t) == Absolute(lots[t]) * Price(t)
MoneyFn(lots) == [t \in Rows |-> Money(lots, t)]
MoneyTerm(lots, g, s) ==
    IF s = {} THEN 0 ELSE Money(lots, First(s)) + g[Rest(s)]

LEMMA MoneyFold ==
    ASSUME NEW lots
    PROVE  Gross(lots) =
             (CHOOSE g :
                 g = [s \in SUBSET Rows |-> MoneyTerm(lots, g, s)])[Rows]
  BY DEF Gross, MapThenSumSet, MapThenFoldSet, MoneyTerm, Money, First, Rest

LEMMA RowsFinite == IsFiniteSet(Rows)
  <1>1. IsFiniteSet(Exits)
    BY PlannerAssumption, FS_Subset DEF Exits
  <1> QED BY <1>1, PlannerAssumption, FS_Union DEF Rows

LEMMA GrossIsSum ==
    ASSUME NEW lots, \A t \in Rows : Money(lots, t) \in Int
    PROVE  Gross(lots) = SumOf(MoneyFn(lots), Rows) /\ Gross(lots) \in Int
  <1> DEFINE f == MoneyFn(lots)
             P(g) == g = [s \in SUBSET Rows |-> MoneyTerm(lots, g, s)]
  <1>1. \A t \in Rows : f[t] = Money(lots, t) /\ f[t] \in Int
    BY DEF MoneyFn
  <1> HIDE DEF f
  <1>2. ASSUME NEW g PROVE P(g) <=> IsSum(g, f, Rows)
    <2>1. \A s \in SUBSET Rows : MoneyTerm(lots, g, s) = Term(f, g, s)
      BY <1>1 DEF MoneyTerm, Term, First
    <2> QED BY <2>1 DEF IsSum
  <1>3. P(SumFn(f, Rows))
    BY <1>1, <1>2, RowsFinite, SumFnFacts
  <1>4. P(CHOOSE g : P(g))
    BY <1>3
  <1>5. (CHOOSE g : P(g)) = SumFn(f, Rows)
    BY <1>1, <1>2, <1>4, RowsFinite, SumFnFacts, SumUnique
  <1>6. Gross(lots) = SumOf(f, Rows)
    BY <1>5, MoneyFold DEF SumOf
  <1>7. SumOf(f, Rows) \in Int
    BY <1>1, RowsFinite, SumOfSubset
  <1> QED BY <1>6, <1>7 DEF f

LeftMoney(t) == Absolute(live[t] - Destination(t)) * Price(t)
LeftFn(S) == [t \in Rows |-> IF t \in S THEN LeftMoney(t) ELSE 0]
LeftTerm(g, s) == IF s = {} THEN 0 ELSE LeftMoney(First(s)) + g[Rest(s)]

LeftOf(S) ==
    MapThenSumSet(LAMBDA t : Absolute(live[t] - Destination(t)) * Price(t), S)

LEMMA LeftFold ==
    ASSUME NEW S
    PROVE  LeftOf(S) = (CHOOSE g : g = [s \in SUBSET S |-> LeftTerm(g, s)])[S]
  BY DEF LeftOf, MapThenSumSet, MapThenFoldSet, LeftTerm, LeftMoney, First, Rest

LEMMA LeftIsSum ==
    ASSUME NEW S \in SUBSET Rows, \A t \in Rows : LeftMoney(t) \in Int
    PROVE  LeftOf(S) = SumOf(LeftFn(S), Rows) /\ SumOf(LeftFn(S), Rows) \in Int
  <1> DEFINE f == LeftFn(S)
             P(g) == g = [s \in SUBSET S |-> LeftTerm(g, s)]
  <1>1. /\ \A t \in Rows : f[t] \in Int
        /\ \A t \in S : f[t] = LeftMoney(t)
        /\ \A t \in Rows : t \notin S => f[t] = 0
    BY DEF LeftFn
  <1>2. IsFiniteSet(S) /\ \A t \in S : f[t] \in Int
    BY <1>1, RowsFinite, FS_Subset
  <1> HIDE DEF f
  <1>3. ASSUME NEW g PROVE P(g) <=> IsSum(g, f, S)
    <2>1. \A s \in SUBSET S : LeftTerm(g, s) = Term(f, g, s)
      BY <1>1 DEF LeftTerm, Term, First
    <2> QED BY <2>1 DEF IsSum
  <1>4. P(SumFn(f, S))
    BY <1>2, <1>3, SumFnFacts
  <1>5. P(CHOOSE g : P(g))
    BY <1>4
  <1>6. (CHOOSE g : P(g)) = SumFn(f, S)
    BY <1>2, <1>3, <1>5, SumFnFacts, SumUnique
  <1>7. SumOf(f, S) = SumOf(f, Rows) /\ SumOf(f, Rows) \in Int
    BY <1>1, RowsFinite, SumRestrict
  <1> QED BY <1>6, <1>7, LeftFold DEF SumOf, f

Settled == {t \in Rows : LegsOf(t) \cap pending = {}}

LEMMA GrossGoal ==
    GrossStaysBetween <=>
        (Built => Gross([t \in Rows |-> live[t]])
                    <= Larger(Gross([t \in Rows |-> held[t]]),
                              Gross([t \in Rows |-> Destination(t)])
                                + LeftOf(Settled)))
  BY Zenon DEF GrossStaysBetween, LeftOf, Settled

(* Row by row.                                                              *)
LEMMA MoneyTypes ==
    ASSUME LiveInv, Built, NEW t \in Rows
    PROVE  /\ Absolute(live[t]) * Price(t) \in Int
           /\ Absolute(held[t]) * Price(t) \in Int
           /\ Absolute(Destination(t)) * Price(t) \in Int
           /\ LeftMoney(t) \in Nat
           /\ Absolute(live[t]) <= Absolute(held[t]) =>
                Absolute(live[t]) * Price(t) <= Absolute(held[t]) * Price(t)
           /\ Absolute(live[t]) <= Absolute(Destination(t)) =>
                Absolute(live[t]) * Price(t)
                  <= Absolute(Destination(t)) * Price(t)
           /\ Absolute(live[t]) * Price(t)
                <= Absolute(Destination(t)) * Price(t) + LeftMoney(t)
  <1> DEFINE a == Absolute(live[t])
             b == Absolute(held[t])
             c == Absolute(Destination(t))
             d == Absolute(live[t] - Destination(t))
             p == Price(t)
  <1>1. /\ live[t] \in Int /\ held[t] \in Int
        /\ Destination(t) \in Int /\ p \in Nat
    BY RowTyped DEF LiveInv, Rows, Exits, Tickers
  <1>2. a \in Nat /\ b \in Nat /\ c \in Nat /\ d \in Nat /\ a <= c + d
    BY <1>1 DEF Absolute
  <1>3. p \in Nat
    BY <1>1
  <1>4. LeftMoney(t) = d * p
    BY DEF LeftMoney
  <1> HIDE DEF a, b, c, d, p
  <1>5. a * p \in Nat /\ b * p \in Nat /\ c * p \in Nat /\ d * p \in Nat
    BY <1>2, <1>3
  <1>6. a <= b => a * p <= b * p
    BY <1>2, <1>3
  <1>7. a <= c => a * p <= c * p
    BY <1>2, <1>3
  <1>8. a * p <= (c + d) * p /\ (c + d) * p = c * p + d * p
    BY <1>2, <1>3
  <1> QED BY <1>4, <1>5, <1>6, <1>7, <1>8 DEF a, b, c, d, p

(* Wherever a run stops, the gross of the account is not above both what it *)
(* was before and what was approved, but for the leftovers: because the     *)
(* reductions come first, whatever the plan, the prices and the fills.      *)
THEOREM GrossIsBounded == Spec => []GrossStaysBetween
  <1>1. LiveInv => GrossStaysBetween
    <2> SUFFICES ASSUME LiveInv, Built PROVE GrossStaysBetween
      BY GrossGoal
    <2> DEFINE L == [t \in Rows |-> live[t]]
               H == [t \in Rows |-> held[t]]
               D == [t \in Rows |-> Destination(t)]
               Left == LeftOf(Settled)
    <2>1. BelowHeld /\ BelowPlan
      BY FreshProgress DEF LiveInv, Progress
    <2>2. \A t \in Rows :
              /\ Money(L, t) = Absolute(live[t]) * Price(t)
              /\ Money(H, t) = Absolute(held[t]) * Price(t)
              /\ Money(D, t) = Absolute(Destination(t)) * Price(t)
      BY DEF Money
    <2>3. \A t \in Rows :
              /\ Money(L, t) \in Int /\ Money(H, t) \in Int
              /\ Money(D, t) \in Int /\ LeftMoney(t) \in Nat
              /\ Absolute(live[t]) <= Absolute(held[t]) =>
                     Money(L, t) <= Money(H, t)
              /\ Absolute(live[t]) <= Absolute(Destination(t)) =>
                     Money(L, t) <= Money(D, t)
              /\ Money(L, t) <= Money(D, t) + LeftMoney(t)
      BY <2>2, MoneyTypes
    <2>4. Settled \in SUBSET Rows
      BY DEF Settled
    <2> HIDE DEF L, H, D
    <2>5. /\ Gross(L) = SumOf(MoneyFn(L), Rows) /\ Gross(L) \in Int
          /\ Gross(H) = SumOf(MoneyFn(H), Rows) /\ Gross(H) \in Int
          /\ Gross(D) = SumOf(MoneyFn(D), Rows) /\ Gross(D) \in Int
      BY <2>3, GrossIsSum
    <2>6. Left = SumOf(LeftFn(Settled), Rows) /\ Left \in Int
      <3>1. \A t \in Rows : LeftMoney(t) \in Int
        BY <2>3
      <3> QED BY <2>4, <3>1, LeftIsSum
    <2>7. \A t \in Rows :
              /\ MoneyFn(L)[t] = Money(L, t) /\ MoneyFn(H)[t] = Money(H, t)
              /\ MoneyFn(D)[t] = Money(D, t)
              /\ LeftFn(Settled)[t] = IF t \in Settled THEN LeftMoney(t) ELSE 0
      BY DEF MoneyFn, LeftFn
    <2>8. CASE Reduces(pending)
      <3>1. \A t \in Rows : Money(L, t) <= Money(H, t)
        BY <2>1, <2>3, <2>8 DEF BelowHeld
      <3>2. SumOf(MoneyFn(L), Rows) <= SumOf(MoneyFn(H), Rows)
        BY <2>3, <2>7, <3>1, RowsFinite, SumMonotone
      <3>3. Gross(L) <= Larger(Gross(H), Gross(D) + Left)
        BY <2>5, <2>6, <3>2 DEF Larger
      <3> QED BY <3>3, GrossGoal DEF L, H, D
    <2>9. CASE ~Reduces(pending)
      <3> DEFINE K == [t \in Rows |-> MoneyFn(D)[t] + LeftFn(Settled)[t]]
      <3>1. \A t \in Rows : Money(L, t) <= K[t] /\ K[t] \in Int
        BY <2>1, <2>3, <2>7, <2>9 DEF BelowPlan, Settled
      <3>2. /\ \A t \in Rows : /\ MoneyFn(D)[t] \in Int
                               /\ LeftFn(Settled)[t] \in Int
                               /\ MoneyFn(L)[t] \in Int
            /\ \A t \in Rows : K[t] = MoneyFn(D)[t] + LeftFn(Settled)[t]
            /\ \A t \in Rows : MoneyFn(L)[t] <= K[t]
        BY <2>3, <2>7, <3>1
      <3> HIDE DEF K
      <3>3. SumOf(MoneyFn(L), Rows) <= SumOf(K, Rows)
        BY <3>1, <3>2, RowsFinite, SumMonotone
      <3>4. SumOf(K, Rows) = SumOf(MoneyFn(D), Rows)
                             + SumOf(LeftFn(Settled), Rows)
        BY <3>2, RowsFinite, SumAdd
      <3>5. Gross(L) <= Gross(D) + Left
        BY <2>5, <2>6, <3>3, <3>4
      <3>6. Gross(L) <= Larger(Gross(H), Gross(D) + Left)
        <4> HIDE DEF Left
        <4> QED BY <2>5, <2>6, <3>5 DEF Larger
      <3> QED BY <3>6, GrossGoal DEF L, H, D
    <2> QED BY <2>8, <2>9
  <1> QED BY <1>1, LiveInvAlways, PTL
=============================================================================
