------------------------ MODULE ExecutionFillProofs ------------------------
(***************************************************************************)
(* Proofs, for every value of the constants, of the arithmetic of a run:   *)
(* what fills and can fill of an intent stays within its quantity, nothing *)
(* is sent before every fill is booked, and a position is where the ledger *)
(* says it is.                                                             *)
(***************************************************************************)
EXTENDS ExecutionEndProofs, Sums

FilledFn == [c \in Cloids |-> order[c].filled]
RiskFn == [c \in Cloids |-> IF Open(c) THEN order[c].quantity
                            ELSE order[c].filled]
BookedFn == [c \in Cloids |-> attempt[c].booked]

(* What the exchange and the ledger say of one order fits together.         *)
RowsOK ==
    \A c \in Cloids :
        /\ attempt[c].booked <= order[c].feed
        /\ order[c].feed <= order[c].filled
        /\ order[c].filled <= order[c].quantity
        /\ Open(c) => order[c].filled < order[c].quantity
        /\ order[c].status = "filled" => order[c].filled = order[c].quantity
        /\ ~Placed(c) => order[c].filled = 0
        /\ Placed(c) => order[c].quantity = attempt[c].quantity
        /\ attempt[c].status \notin WithOid => attempt[c].booked = 0
        /\ attempt[c].status # "absent" => attempt[c].quantity >= 1

(* The lots of an intent are those booked for its attempts.                 *)
LedgerOK ==
    \A i \in Intents : ledgerQty[i] = SumOf(BookedFn, OfIntent(i))

(* While an intent is worked on, the attempts that have been looked at are  *)
(* all that reached the exchange, but for those still to be reconciled and  *)
(* the one being watched.  They are over, they make up confirmed_filled,    *)
(* and after the sync they are booked to the last lot.                      *)
Excepted(c) ==
    \/ /\ pc \in {"reconcile"} \cup StatusPcs
       /\ phase = "reconcile" /\ c[2] >= no
    \/ pc \in StatusPcs /\ phase = "live" /\ c[2] = no
Counted(c) == attempt[c].status \in WithOid /\ ~Excepted(c)
CountedFn == [c \in Cloids |-> IF Counted(c) THEN order[c].filled ELSE 0]

Live == pc \in LoopPcs \/ (pc \in StatusPcs /\ phase = "live")

CountOK ==
    pc \in WorkPcs =>
        /\ \A c \in OfIntent(cur) : Counted(c) => order[c].status \in Terminal
        /\ confirmed = SumOf(CountedFn, OfIntent(cur))
        /\ Live => \A c \in OfIntent(cur) :
                       Counted(c) => attempt[c].booked = order[c].filled

(* The attempts of an intent are sent one after the other.                  *)
PrefixOK ==
    \A i \in Intents : \A m, n \in AttemptNos :
        m < n /\ attempt[<<i, n>>].status # "absent" =>
            attempt[<<i, m>>].status \in Sent
LoopOK ==
    Live \/ (pc = "sync" /\ phase = "live") =>
        /\ \A m \in AttemptNos : m < no => attempt[<<cur, m>>].status \in Sent
        /\ pc = "sync" => attempt[Cloid].status \in Sent

(* A prepared attempt is for what its intent lacks, and that is settled:    *)
(* whatever else reached the exchange is over and booked.                   *)
PreparedOK ==
    \A c \in Cloids : attempt[c].status \in Prepared =>
        /\ attempt[c].quantity + ledgerQty[c[1]] = Plan[c[1]].quantity
        /\ \A d \in OfIntent(c[1]) : attempt[d].status \in WithOid =>
              /\ order[d].status \in Terminal
              /\ attempt[d].booked = order[d].filled

FillInv ==
    /\ EndInv /\ ClaimInv
    /\ RowsOK /\ LedgerOK /\ CountOK /\ PrefixOK /\ LoopOK /\ PreparedOK

-----------------------------------------------------------------------------
(* The folds of the properties are sums of these functions.                 *)
FilledTerm(g, s) ==
    IF s = {} THEN 0 ELSE order[First(s)].filled + g[Rest(s)]
RiskTerm(g, s) ==
    IF s = {} THEN 0
    ELSE (IF Open(First(s)) THEN order[First(s)].quantity
          ELSE order[First(s)].filled) + g[Rest(s)]

LEMMA FilledFold ==
    ASSUME NEW i
    PROVE  Filled(i) =
             (CHOOSE g : g = [s \in SUBSET OfIntent(i) |-> FilledTerm(g, s)])
                 [OfIntent(i)]
  BY DEF Filled, MapThenSumSet, MapThenFoldSet, FilledTerm, First, Rest

LEMMA RiskFold ==
    ASSUME NEW i
    PROVE  AtRisk(i) =
             (CHOOSE g : g = [s \in SUBSET OfIntent(i) |-> RiskTerm(g, s)])
                 [OfIntent(i)]
  BY DEF AtRisk, MapThenSumSet, MapThenFoldSet, RiskTerm, First, Rest

LEMMA OfIntentFacts ==
    ASSUME NEW i \in Intents
    PROVE  IsFiniteSet(OfIntent(i)) /\ OfIntent(i) \subseteq Cloids
  <1>1. IsFiniteSet(Intents) /\ IsFiniteSet(AttemptNos)
    BY FS_Interval, ConstantFacts DEF Intents, AttemptNos
  <1>2. IsFiniteSet(Cloids)
    BY <1>1, FS_Product DEF Cloids
  <1> QED BY <1>2, FS_Subset DEF OfIntent

LEMMA FnTypes ==
    ASSUME TypeOK
    PROVE  /\ \A c \in Cloids : FilledFn[c] \in Int
           /\ \A c \in Cloids : RiskFn[c] \in Int
  BY RowTypes DEF FilledFn, RiskFn

LEMMA FilledIsSum ==
    TypeOK => \A i \in Intents : Filled(i) = SumOf(FilledFn, OfIntent(i))
  <1> SUFFICES ASSUME TypeOK, NEW i \in Intents
               PROVE  Filled(i) = SumOf(FilledFn, OfIntent(i))
    OBVIOUS
  <1> DEFINE S == OfIntent(i)
             P(g) == g = [s \in SUBSET S |-> FilledTerm(g, s)]
  <1>1. IsFiniteSet(S) /\ S \subseteq Cloids /\ \A c \in S : FilledFn[c] \in Int
    BY OfIntentFacts, FnTypes
  <1>2. \A s \in SUBSET S : s # {} =>
            FilledFn[First(s)] = order[First(s)].filled
    BY <1>1 DEF First, FilledFn
  <1>3. ASSUME NEW g PROVE P(g) <=> IsSum(g, FilledFn, S)
    <2>1. \A s \in SUBSET S : FilledTerm(g, s) = Term(FilledFn, g, s)
      BY <1>2 DEF FilledTerm, Term
    <2> QED BY <2>1 DEF IsSum
  <1>4. P(SumFn(FilledFn, S))
    BY <1>1, <1>3, SumFnFacts
  <1>5. P(CHOOSE g : P(g))
    BY <1>4
  <1>6. (CHOOSE g : P(g)) = SumFn(FilledFn, S)
    BY <1>1, <1>3, <1>5, SumFnFacts, SumUnique
  <1> QED BY <1>6, FilledFold DEF SumOf

LEMMA RiskIsSum ==
    TypeOK => \A i \in Intents : AtRisk(i) = SumOf(RiskFn, OfIntent(i))
  <1> SUFFICES ASSUME TypeOK, NEW i \in Intents
               PROVE  AtRisk(i) = SumOf(RiskFn, OfIntent(i))
    OBVIOUS
  <1> DEFINE S == OfIntent(i)
             P(g) == g = [s \in SUBSET S |-> RiskTerm(g, s)]
  <1>1. IsFiniteSet(S) /\ S \subseteq Cloids /\ \A c \in S : RiskFn[c] \in Int
    BY OfIntentFacts, FnTypes
  <1>2. \A s \in SUBSET S : s # {} =>
            RiskFn[First(s)] = IF Open(First(s)) THEN order[First(s)].quantity
                               ELSE order[First(s)].filled
    BY <1>1 DEF First, RiskFn
  <1>3. ASSUME NEW g PROVE P(g) <=> IsSum(g, RiskFn, S)
    <2>1. \A s \in SUBSET S : RiskTerm(g, s) = Term(RiskFn, g, s)
      BY <1>2 DEF RiskTerm, Term
    <2> QED BY <2>1 DEF IsSum
  <1>4. P(SumFn(RiskFn, S))
    BY <1>1, <1>3, SumFnFacts
  <1>5. P(CHOOSE g : P(g))
    BY <1>4
  <1>6. (CHOOSE g : P(g)) = SumFn(RiskFn, S)
    BY <1>1, <1>3, <1>5, SumFnFacts, SumUnique
  <1> QED BY <1>6, RiskFold DEF SumOf

-----------------------------------------------------------------------------
(* Steps that touch what is known of orders and attempts.                   *)
LEMMA Touches ==
    ASSUME [Next]_vars
    PROVE  \/ Resolve \/ BookFills \/ TakePrepared \/ Prepare
           \/ RecordResting \/ RecordFilled \/ RecordRefused
           \/ PlaceResting \/ PlaceFilled \/ PlaceUnacknowledged
           \/ \E c \in Cloids : OrderFills(c) \/ OrderCanceled(c)
                                \/ FeedCatchesUp(c)
           \/ DeadmanFires
           \/ UNCHANGED <<attempt, order, ledgerQty>>
  BY DEF Next, ProcessStep, ExchangeStep, StartFresh, StartResume, Enter,
      SnapshotOk, SnapshotFails, ArmOk, ArmWaived, ArmFails, StartSession,
      ReconcileSkip, ReconcileQuery, ReconcileDone, QueryOpen, CancelAccepted,
      SyncDone, Exhausted, SkipTransmitted, AlreadyFilled, DriftCheck,
      PlaceRefused, MarkRun, MarkIntent, Refuse, Settle, Postcheck,
      MarkRebalanced, Attention, Disarm, DisarmFails, Fail, Interrupt, Crash, ManualTrade,
      vars, ledgerVars, exchangeVars

(* The attempt an action works on.                                          *)
LEMMA AtHand ==
    ASSUME TypeInv,
           \/ pc \in AttemptPcs
           \/ pc = "attempt" /\ no < MaxAttempts
    PROVE  cur \in Intents /\ no \in AttemptNos /\ Cloid \in Cloids
           /\ Cloid \in OfIntent(cur)
  <1>1. no \in 0..MaxAttempts /\ MaxReprices \in Nat
    BY ConstantFacts DEF TypeInv, TypeOK, ProcessTypeOK
  <1>2. pc \in AttemptPcs \/ (pc \in WorkPcs /\ no \in AttemptNos)
    BY <1>1 DEF WorkPcs, TryPcs, AttemptNos, MaxAttempts
  <1> QED
    BY <1>2, CloidType DEF TypeInv, OfIntent, Cloid

LEMMA NewAttempt ==
    ASSUME TypeInv, Prepare
    PROVE  /\ Cloid \in Cloids /\ attempt[Cloid].status = "absent"
           /\ Remaining \in Nat \ {0} /\ cur \in Intents
           /\ \E dust \in DustLots :
                attempt' = [attempt EXCEPT ![Cloid] =
                              [status |-> "prepared", quantity |-> Remaining,
                               dust |-> dust, booked |-> 0]]
           /\ UNCHANGED <<order, ledgerQty>>
  BY AtHand, RemainingType DEF Prepare, InLoop, TypeInv, exchangeVars

LEMMA Placement ==
    ASSUME FillInv, PlaceResting \/ PlaceFilled \/ PlaceUnacknowledged
    PROVE  /\ Cloid \in Cloids /\ attempt[Cloid].status \in Prepared
           /\ attempt[Cloid].quantity \in Nat /\ cur \in Intents
           /\ order[Cloid].status = "absent"
           /\ \/ order' = [order EXCEPT ![Cloid] =
                   [status |-> "open", quantity |-> attempt[Cloid].quantity,
                    filled |-> 0, feed |-> 0]]
              \/ order' = [order EXCEPT ![Cloid] =
                   [status |-> "filled", quantity |-> attempt[Cloid].quantity,
                    filled |-> attempt[Cloid].quantity, feed |-> 0]]
           /\ UNCHANGED <<attempt, ledgerQty>>
  <1>1. TypeInv /\ PhaseOK /\ pc = "send"
    BY DEF FillInv, EndInv, SerialInv, PlaceResting, PlaceFilled,
        PlaceUnacknowledged
  <1>2. Cloid \in Cloids /\ attempt[Cloid].quantity \in Nat /\ cur \in Intents
    BY <1>1, AtHand, RowTypes DEF AttemptPcs, TypeInv
  <1>3. attempt[Cloid].status \in Prepared
    BY <1>1 DEF PhaseOK
  <1> QED
    BY <1>2, <1>3 DEF PlaceResting, PlaceFilled, PlaceUnacknowledged, NewOrder,
        ledgerVars

(* The steps that give an attempt another status, and that status.          *)
LEMMA NewStatus ==
    ASSUME FillInv,
           Resolve \/ TakePrepared \/ RecordResting \/ RecordFilled
               \/ RecordRefused
    PROVE  /\ Cloid \in Cloids /\ cur \in Intents /\ no \in AttemptNos
           /\ UNCHANGED <<order, ledgerQty>>
           /\ UNCHANGED attempt \/ \E s :
                /\ SetAttempt(s)
                /\ \/ /\ attempt[Cloid].status \in WithOid
                      /\ s \in Terminal /\ s = order[Cloid].status
                   \/ /\ attempt[Cloid].status \in Prepared
                      /\ s \in Prepared \cup Sent
  <1>1. TypeInv /\ PhaseOK /\ QueriedOK
    BY DEF FillInv, EndInv, SerialInv
  <1>2. Cloid \in Cloids /\ cur \in Intents /\ no \in AttemptNos
    BY <1>1, AtHand DEF AttemptPcs, Resolve, TakePrepared, Abandon, Reuse,
        PreparedFound, InLoop, RecordResting, RecordFilled, RecordRefused
  <1>3. CASE Resolve
    BY <1>1, <1>2, <1>3 DEF Resolve, QueriedOK, StatusPcs, exchangeVars
  <1>4. CASE TakePrepared
    BY <1>2, <1>4 DEF TakePrepared, Abandon, Reuse, PreparedFound, Prepared,
        exchangeVars
  <1>5. CASE RecordResting \/ RecordFilled \/ RecordRefused
    BY <1>1, <1>2, <1>5 DEF RecordResting, RecordFilled, RecordRefused,
        PhaseOK, FlightPcs, Sent, WithOid, exchangeVars
  <1> QED BY <1>3, <1>4, <1>5

LEMMA RowsStep ==
    ASSUME FillInv, TypeInv', [Next]_vars
    PROVE  RowsOK'
  <1>1. /\ attempt \in [Cloids -> AttemptRecord]
        /\ order \in [Cloids -> OrderRecord] /\ RowsOK
        /\ \A c \in Cloids : Placed(c) => attempt[c].status # "absent"
    BY DEF FillInv, ClaimInv, TypeInv, TypeOK, LedgerTypeOK, ExchangeTypeOK,
        OrdersAreClaimed
  <1> USE DEF RowsOK, Open, Placed
  <1>2. CASE Resolve \/ TakePrepared \/ RecordResting \/ RecordFilled
             \/ RecordRefused
    <2>1. PICK s : UNCHANGED attempt \/
                     /\ SetAttempt(s) /\ attempt[Cloid].status # "absent"
                     /\ attempt[Cloid].status \in WithOid => s \in WithOid
      BY <1>2, NewStatus DEF Terminal, WithOid, Prepared, Sent
    <2>2. UNCHANGED order /\ Cloid \in Cloids
      BY <1>2, NewStatus
    <2>3. \A c \in Cloids :
            /\ attempt'[c].booked = attempt[c].booked
            /\ attempt'[c].quantity = attempt[c].quantity
            /\ attempt'[c].status # "absent" => attempt[c].status # "absent"
            /\ attempt[c].status \in WithOid => attempt'[c].status \in WithOid
      BY <1>1, <2>1, <2>2 DEF SetAttempt, AttemptRecord
    <2> QED BY <1>1, <2>2, <2>3
  <1>3. CASE BookFills
    <2>1. PICK a \in Cloids :
            /\ attempt[a].status \in WithOid
            /\ attempt' = [attempt EXCEPT ![a].booked = order[a].feed]
            /\ UNCHANGED order
      BY <1>3 DEF BookFills, Unbooked, exchangeVars
    <2> QED BY <1>1, <2>1 DEF AttemptRecord, OrderRecord
  <1>4. CASE Prepare
    <2>1. PICK dust : attempt' = [attempt EXCEPT ![Cloid] =
                              [status |-> "prepared", quantity |-> Remaining,
                               dust |-> dust, booked |-> 0]]
      BY <1>4, NewAttempt DEF FillInv, ClaimInv
    <2>2. /\ Cloid \in Cloids /\ attempt[Cloid].status = "absent"
          /\ Remaining \in Nat \ {0} /\ UNCHANGED order
          /\ ~Placed(Cloid)
      BY <1>1, <1>4, NewAttempt DEF FillInv, ClaimInv
    <2>3. attempt[Cloid].booked = 0
      BY <1>1, <2>2 DEF WithOid
    <2> QED BY <1>1, <2>1, <2>2, <2>3
  <1>5. CASE PlaceResting \/ PlaceFilled \/ PlaceUnacknowledged
    <2>1. /\ Cloid \in Cloids /\ attempt[Cloid].status \in Prepared
          /\ attempt[Cloid].quantity \in Nat
          /\ \/ order' = [order EXCEPT ![Cloid] =
                   [status |-> "open", quantity |-> attempt[Cloid].quantity,
                    filled |-> 0, feed |-> 0]]
             \/ order' = [order EXCEPT ![Cloid] =
                   [status |-> "filled", quantity |-> attempt[Cloid].quantity,
                    filled |-> attempt[Cloid].quantity, feed |-> 0]]
          /\ UNCHANGED attempt
      BY <1>5, Placement
    <2>2. attempt[Cloid].booked = 0 /\ attempt[Cloid].quantity >= 1
      BY <1>1, <2>1 DEF Prepared, WithOid
    <2> QED BY <1>1, <2>1, <2>2
  <1>6. CASE \E c \in Cloids : OrderFills(c)
    BY <1>1, <1>6 DEF OrderFills, OrderRecord, ledgerVars
  <1>7. CASE \E c \in Cloids : OrderCanceled(c)
    BY <1>1, <1>7 DEF OrderCanceled, OrderRecord, ledgerVars
  <1>8. CASE \E c \in Cloids : FeedCatchesUp(c)
    <2>1. PICK a \in Cloids :
            /\ order[a].feed < order[a].filled
            /\ order' = [order EXCEPT ![a].feed = order[a].feed + 1]
            /\ UNCHANGED attempt
      BY <1>8 DEF FeedCatchesUp, ledgerVars
    <2>2. order[a].feed \in Nat /\ order[a].filled \in Nat
      BY <1>1 DEF OrderRecord
    <2>3. order'[a].feed <= order'[a].filled /\ order[a].feed <= order'[a].feed
      BY <1>1, <2>1, <2>2 DEF OrderRecord
    <2>4. \A c \in Cloids :
            /\ order'[c].status = order[c].status
            /\ order'[c].filled = order[c].filled
            /\ order'[c].quantity = order[c].quantity
            /\ c # a => order'[c].feed = order[c].feed
      BY <1>1, <2>1 DEF OrderRecord
    <2>5. \A c \in Cloids : attempt[c].booked \in Nat
      BY <1>1 DEF AttemptRecord
    <2>6. \A c \in Cloids : order[c].feed \in Nat /\ order'[c].feed \in Nat
      BY <1>1, <2>1, <2>2 DEF OrderRecord
    <2> QED BY <1>1, <2>1, <2>3, <2>4, <2>5, <2>6
  <1>9. CASE DeadmanFires
    BY <1>1, <1>9 DEF DeadmanFires, OrderRecord, ledgerVars
  <1>10. CASE UNCHANGED <<attempt, order, ledgerQty>>
    BY <1>1, <1>10
  <1> QED
    BY <1>2, <1>3, <1>4, <1>5, <1>6, <1>7, <1>8, <1>9, <1>10, Touches

(* Only the sync books, and it books to ledger and attempt alike.           *)
LEMMA BooksAlike ==
    ASSUME FillInv, [Next]_vars
    PROVE  \/ /\ \A c \in Cloids : attempt'[c].booked = attempt[c].booked
              /\ UNCHANGED ledgerQty
           \/ \E a \in Cloids :
                /\ pc = "sync" /\ a \in OfIntent(cur) /\ cur \in Intents
                /\ attempt[a].status \in WithOid
                /\ attempt[a].booked < order[a].feed
                /\ attempt' = [attempt EXCEPT ![a].booked = order[a].feed]
                /\ ledgerQty' = [ledgerQty EXCEPT
                       ![cur] = @ + (order[a].feed - attempt[a].booked)]
                /\ UNCHANGED <<order, processVars>>
  <1>1. /\ attempt \in [Cloids -> AttemptRecord] /\ RowsOK
        /\ TypeInv
    BY DEF FillInv, ClaimInv, TypeInv, TypeOK, LedgerTypeOK
  <1>2. CASE Resolve \/ TakePrepared \/ RecordResting \/ RecordFilled
             \/ RecordRefused
    <2>1. PICK s : UNCHANGED attempt \/ SetAttempt(s)
      BY <1>2, NewStatus
    <2>2. UNCHANGED ledgerQty /\ Cloid \in Cloids
      BY <1>2, NewStatus
    <2> QED BY <1>1, <2>1, <2>2 DEF SetAttempt, AttemptRecord
  <1>3. CASE BookFills
    <2>1. cur \in Intents
      BY <1>1, <1>3 DEF TypeInv, CursorOK, BookFills, WorkPcs, TryPcs
    <2> QED
      BY <1>3, <2>1 DEF BookFills, Unbooked, NewLots, OfIntent, exchangeVars
  <1>4. CASE Prepare
    <2>1. PICK dust : attempt' = [attempt EXCEPT ![Cloid] =
                              [status |-> "prepared", quantity |-> Remaining,
                               dust |-> dust, booked |-> 0]]
      BY <1>1, <1>4, NewAttempt
    <2>2. /\ Cloid \in Cloids /\ attempt[Cloid].booked = 0
          /\ UNCHANGED ledgerQty
      BY <1>1, <1>4, NewAttempt DEF RowsOK, WithOid
    <2> QED BY <1>1, <2>1, <2>2
  <1>5. CASE PlaceResting \/ PlaceFilled \/ PlaceUnacknowledged
    BY <1>5, Placement
  <1>6. CASE \/ \E c \in Cloids : OrderFills(c) \/ OrderCanceled(c)
                                  \/ FeedCatchesUp(c)
             \/ DeadmanFires
    BY <1>6 DEF OrderFills, OrderCanceled, FeedCatchesUp, DeadmanFires,
        ledgerVars
  <1>7. CASE UNCHANGED <<attempt, order, ledgerQty>>
    BY <1>7
  <1> QED BY <1>2, <1>3, <1>4, <1>5, <1>6, <1>7, Touches

LEMMA LedgerStep ==
    ASSUME FillInv, TypeInv', [Next]_vars
    PROVE  LedgerOK'
  <1>1. /\ attempt \in [Cloids -> AttemptRecord]
        /\ attempt' \in [Cloids -> AttemptRecord]
        /\ order \in [Cloids -> OrderRecord]
        /\ ledgerQty \in [Intents -> Nat] /\ LedgerOK
    BY DEF FillInv, ClaimInv, TypeInv, TypeOK, LedgerTypeOK, ExchangeTypeOK
  <1> DEFINE f == BookedFn
             h == [c \in Cloids |-> attempt'[c].booked]
  <1>2. h = BookedFn'
    BY DEF BookedFn
  <1>3. \A c \in Cloids : /\ f[c] = attempt[c].booked /\ f[c] \in Int
                          /\ h[c] = attempt'[c].booked /\ h[c] \in Int
    BY <1>1 DEF BookedFn, AttemptRecord
  <1> HIDE DEF f, h
  <1> SUFFICES ASSUME NEW i \in Intents
               PROVE  ledgerQty'[i] = SumOf(h, OfIntent(i))
    BY <1>2 DEF LedgerOK, OfIntent
  <1>4. /\ IsFiniteSet(OfIntent(i)) /\ OfIntent(i) \subseteq Cloids
        /\ ledgerQty[i] = SumOf(f, OfIntent(i))
    BY <1>1, OfIntentFacts DEF LedgerOK, f
  <1>5. ASSUME \A c \in OfIntent(i) : attempt'[c].booked = attempt[c].booked,
               ledgerQty'[i] = ledgerQty[i]
        PROVE  ledgerQty'[i] = SumOf(h, OfIntent(i))
    <2>1. SumOf(f, OfIntent(i)) = SumOf(h, OfIntent(i))
      BY <1>3, <1>4, <1>5, SumSame
    <2> QED BY <1>4, <1>5, <2>1
  <1>6. ASSUME NEW a \in Cloids,
               a \in OfIntent(cur), cur \in Intents,
               attempt' = [attempt EXCEPT ![a].booked = order[a].feed],
               ledgerQty' = [ledgerQty EXCEPT
                       ![cur] = @ + (order[a].feed - attempt[a].booked)]
        PROVE  ledgerQty'[i] = SumOf(h, OfIntent(i))
    <2>1. \A c \in Cloids : c # a => attempt'[c].booked = attempt[c].booked
      BY <1>1, <1>6
    <2>2. CASE i # cur
      <3>1. a \notin OfIntent(i)
        BY <1>6, <2>2 DEF OfIntent
      <3> QED BY <1>1, <1>4, <1>5, <1>6, <2>1, <2>2, <3>1
    <2>3. CASE i = cur
      <3>0. /\ a \in OfIntent(i)
            /\ \A x \in OfIntent(i) : f[x] \in Int /\ h[x] \in Int
            /\ \A x \in OfIntent(i) : x # a => h[x] = f[x]
        BY <1>3, <1>4, <1>6, <2>1, <2>3
      <3>1. SumOf(h, OfIntent(i)) = SumOf(f, OfIntent(i)) + h[a] - f[a]
        BY <1>4, <3>0, SumChange
      <3>2. attempt'[a].booked = order[a].feed
        BY <1>1, <1>6 DEF AttemptRecord
      <3>3. /\ f[a] = attempt[a].booked /\ h[a] = order[a].feed
            /\ attempt[a].booked \in Int /\ order[a].feed \in Int
        BY <1>1, <1>3, <3>2 DEF AttemptRecord, OrderRecord
      <3>4. ledgerQty'[i] = ledgerQty[i] + (order[a].feed - attempt[a].booked)
        BY <1>1, <1>6, <2>3
      <3>5. ledgerQty[i] \in Int
        BY <1>1
      <3> QED BY <1>4, <3>1, <3>3, <3>4, <3>5
    <2> QED BY <2>2, <2>3
  <1> QED
    BY <1>4, <1>5, <1>6, BooksAlike

(* What is over at the exchange stays as it is.                             *)
LEMMA OverStaysOver ==
    ASSUME FillInv, [Next]_vars, NEW c \in Cloids, ~Open(c), Placed(c)
    PROVE  /\ order'[c].status = order[c].status
           /\ order'[c].filled = order[c].filled
           /\ order'[c].quantity = order[c].quantity
  <1>1. order \in [Cloids -> OrderRecord]
    BY DEF FillInv, ClaimInv, TypeInv, TypeOK, ExchangeTypeOK
  <1> USE DEF Open, Placed
  <1>2. CASE PlaceResting \/ PlaceFilled \/ PlaceUnacknowledged
    <2>1. Cloid \in Cloids /\ c # Cloid
      BY <1>2, Placement
    <2>2. \A d \in Cloids : d # Cloid => order'[d] = order[d]
      BY <1>1, <1>2, Placement
    <2> QED BY <2>1, <2>2
  <1>3. CASE \E d \in Cloids : OrderFills(d)
    BY <1>1, <1>3 DEF OrderFills
  <1>4. CASE \E d \in Cloids : OrderCanceled(d)
    BY <1>1, <1>4 DEF OrderCanceled
  <1>5. CASE \E d \in Cloids : FeedCatchesUp(d)
    BY <1>1, <1>5 DEF FeedCatchesUp, OrderRecord
  <1>6. CASE DeadmanFires
    BY <1>1, <1>6 DEF DeadmanFires
  <1>7. CASE UNCHANGED order
    BY <1>7
  <1>8. CASE BookFills
    BY <1>8 DEF BookFills, exchangeVars
  <1>9. CASE Prepare
    BY <1>9 DEF Prepare, exchangeVars
  <1> QED
    BY <1>2, <1>3, <1>4, <1>5, <1>6, <1>7, <1>8, <1>9, Touches, NewStatus

(* An attempt is made once, and what was sent stays sent.                   *)
LEMMA Statuses ==
    ASSUME FillInv, [Next]_vars, ~Prepare, NEW c \in Cloids
    PROVE  /\ attempt'[c].status = "absent" <=> attempt[c].status = "absent"
           /\ attempt'[c].quantity = attempt[c].quantity
           /\ attempt'[c].dust = attempt[c].dust
           /\ attempt[c].status \in Sent => attempt'[c].status \in Sent
           /\ attempt[c].status \in WithOid => attempt'[c].status \in WithOid
           /\ attempt'[c].status \in Prepared => attempt[c].status \in Prepared
           /\ attempt'[c].status # attempt[c].status =>
                  c = Cloid /\ UNCHANGED <<order, ledgerQty>>
  <1>1. attempt \in [Cloids -> AttemptRecord]
    BY DEF FillInv, ClaimInv, TypeInv, TypeOK, LedgerTypeOK
  <1>2. CASE Resolve \/ TakePrepared \/ RecordResting \/ RecordFilled
             \/ RecordRefused
    <2>1. Cloid \in Cloids /\ UNCHANGED <<order, ledgerQty>>
      BY <1>2, NewStatus
    <2>2. CASE UNCHANGED attempt
      BY <2>2
    <2>3. ASSUME NEW s, SetAttempt(s),
                 \/ attempt[Cloid].status \in WithOid /\ s \in Terminal
                 \/ attempt[Cloid].status \in Prepared
                        /\ s \in Prepared \cup Sent
          PROVE  /\ attempt'[c].status = "absent" <=> attempt[c].status = "absent"
                 /\ attempt'[c].quantity = attempt[c].quantity
                 /\ attempt'[c].dust = attempt[c].dust
                 /\ attempt[c].status \in Sent => attempt'[c].status \in Sent
                 /\ attempt[c].status \in WithOid =>
                        attempt'[c].status \in WithOid
                 /\ attempt'[c].status \in Prepared =>
                        attempt[c].status \in Prepared
                 /\ attempt'[c].status # attempt[c].status => c = Cloid
      <3>1. CASE c # Cloid
        BY <1>1, <2>1, <2>3, <3>1 DEF SetAttempt
      <3>2. CASE c = Cloid
        <4>1. attempt'[c].status = s /\ attempt'[c].quantity = attempt[c].quantity
              /\ attempt'[c].dust = attempt[c].dust
          BY <1>1, <2>1, <2>3, <3>2 DEF SetAttempt, AttemptRecord
        <4> QED
          BY <2>3, <3>2, <4>1 DEF Prepared, Sent, WithOid, Terminal
      <3> QED BY <3>1, <3>2
    <2> QED BY <1>2, <2>1, <2>2, <2>3, NewStatus
  <1>3. CASE BookFills
    BY <1>1, <1>3 DEF BookFills, AttemptRecord
  <1>4. CASE UNCHANGED attempt
    BY <1>4
  <1>5. CASE PlaceResting \/ PlaceFilled \/ PlaceUnacknowledged
    BY <1>4, <1>5, Placement
  <1>6. CASE \/ \E d \in Cloids : OrderFills(d) \/ OrderCanceled(d)
                                  \/ FeedCatchesUp(d)
             \/ DeadmanFires
    BY <1>4, <1>6 DEF OrderFills, OrderCanceled, FeedCatchesUp, DeadmanFires,
        ledgerVars
  <1> QED BY <1>2, <1>3, <1>4, <1>5, <1>6, Touches

(* What Prepare does to the other attempts: nothing.                        *)
LEMMA OthersStay ==
    ASSUME FillInv, Prepare, NEW c \in Cloids, c # Cloid
    PROVE  attempt'[c] = attempt[c]
  BY NewAttempt DEF FillInv, ClaimInv, TypeInv, TypeOK, LedgerTypeOK

LEMMA PrefixStep ==
    ASSUME FillInv, [Next]_vars
    PROVE  PrefixOK'
  <1> SUFFICES ASSUME NEW i \in Intents,
                      NEW m \in AttemptNos, NEW n \in AttemptNos, m < n,
                      attempt'[<<i, n>>].status # "absent"
               PROVE  attempt'[<<i, m>>].status \in Sent
    BY DEF PrefixOK
  <1>1. <<i, m>> \in Cloids /\ <<i, n>> \in Cloids
    BY DEF Cloids
  <1>2. CASE ~Prepare
    <2>1. attempt[<<i, n>>].status # "absent"
      BY <1>1, <1>2, Statuses
    <2>2. attempt[<<i, m>>].status \in Sent
      BY <2>1 DEF FillInv, PrefixOK
    <2> QED BY <1>1, <1>2, <2>2, Statuses
  <1>3. CASE Prepare
    <2>1. /\ Cloid \in Cloids /\ attempt[Cloid].status = "absent"
          /\ cur \in Intents
      BY <1>3, NewAttempt DEF FillInv, ClaimInv
    <2>2. CASE <<i, n>> = Cloid
      <3>1. i = cur /\ n = no /\ <<i, m>> # Cloid
        BY <2>2 DEF Cloid, AttemptNos
      <3>2. attempt[<<i, m>>].status \in Sent
        BY <1>3, <3>1 DEF FillInv, LoopOK, Live, LoopPcs, Prepare, InLoop
      <3> QED BY <1>1, <1>3, <3>1, <3>2, OthersStay
    <2>3. CASE <<i, n>> # Cloid
      <3>1. attempt[<<i, n>>].status # "absent"
        BY <1>1, <1>3, <2>3, OthersStay
      <3>2. attempt[<<i, m>>].status \in Sent
        BY <3>1 DEF FillInv, PrefixOK
      <3>3. <<i, m>> # Cloid
        BY <2>1, <3>2 DEF Sent, WithOid
      <3> QED BY <1>1, <1>3, <3>2, <3>3, OthersStay
    <2> QED BY <2>2, <2>3
  <1> QED BY <1>2, <1>3

(* At most one attempt of an intent is prepared.                            *)
LEMMA OnePrepared ==
    ASSUME FillInv, NEW c \in Cloids, NEW d \in Cloids, c[1] = d[1],
           attempt[c].status \in Prepared, attempt[d].status \in Prepared
    PROVE  c = d
  <1>1. PICK i \in Intents, m \in AttemptNos, n \in AttemptNos :
          c = <<i, m>> /\ d = <<i, n>>
    BY DEF Cloids
  <1>2. Prepared \cap Sent = {} /\ "absent" \notin Prepared
    BY DEF Prepared, Sent, WithOid
  <1>3. ~(m < n) /\ ~(n < m)
    BY <1>1, <1>2 DEF FillInv, PrefixOK
  <1>4. m \in Int /\ n \in Int
    BY DEF AttemptNos
  <1> QED BY <1>1, <1>3, <1>4

LEMMA PreparedStep ==
    ASSUME FillInv, TypeInv', [Next]_vars
    PROVE  PreparedOK'
  <1> DEFINE Settled(i) == \A d \in OfIntent(i) :
                               attempt[d].status \in WithOid =>
                                 /\ order[d].status \in Terminal
                                 /\ attempt[d].booked = order[d].filled
  <1> SUFFICES ASSUME NEW c \in Cloids, attempt'[c].status \in Prepared
               PROVE  /\ attempt'[c].quantity + ledgerQty'[c[1]]
                            = Plan[c[1]].quantity
                      /\ \A d \in OfIntent(c[1]) :
                           attempt'[d].status \in WithOid =>
                             /\ order'[d].status \in Terminal
                             /\ attempt'[d].booked = order'[d].filled
    BY DEF PreparedOK, OfIntent
  <1>1. /\ attempt \in [Cloids -> AttemptRecord] /\ TypeInv
        /\ order \in [Cloids -> OrderRecord]
        /\ ledgerQty \in [Intents -> Nat]
        /\ RowsOK /\ PreparedOK
    BY DEF FillInv, ClaimInv, TypeInv, TypeOK, LedgerTypeOK, ExchangeTypeOK
  <1>2. c[1] \in Intents /\ OfIntent(c[1]) \subseteq Cloids
    BY DEF Cloids, OfIntent
  <1>3. ASSUME NEW d \in Cloids, order[d].status \in Terminal
        PROVE  /\ order'[d].status \in Terminal
               /\ order'[d].filled = order[d].filled
    BY <1>3, OverStaysOver DEF Open, Placed, Terminal
  <1>4. CASE ~Prepare
    <2>1. /\ attempt[c].status \in Prepared
          /\ attempt'[c].quantity = attempt[c].quantity
      BY <1>4, Statuses
    <2>2. /\ attempt[c].quantity + ledgerQty[c[1]] = Plan[c[1]].quantity
          /\ Settled(c[1])
      BY <1>1, <2>1 DEF PreparedOK
    <2>3. ASSUME NEW d \in OfIntent(c[1]), attempt'[d].status \in WithOid
          PROVE  attempt[d].status \in WithOid
      <3>1. d \in Cloids /\ d[1] = c[1]
        BY DEF OfIntent
      <3>2. ASSUME attempt[d].status \notin WithOid PROVE FALSE
        <4>1. attempt'[d].status # attempt[d].status /\ d = Cloid
              /\ UNCHANGED <<order, ledgerQty>>
          BY <1>4, <2>3, <3>1, <3>2, Statuses
        <4>2. Resolve \/ TakePrepared \/ RecordResting \/ RecordFilled
              \/ RecordRefused
          <5>1. ~(BookFills)
            BY <1>1, <3>1, <4>1 DEF BookFills, AttemptRecord
          <5>2. ~(PlaceResting \/ PlaceFilled \/ PlaceUnacknowledged)
            BY <4>1, Placement
          <5>3. attempt' # attempt
            BY <4>1
          <5> QED
            BY <1>4, <5>1, <5>2, <5>3, Touches
            DEF OrderFills, OrderCanceled, FeedCatchesUp, DeadmanFires,
                ledgerVars
        <4>3. attempt[d].status \in Prepared
          BY <3>2, <4>1, <4>2, NewStatus
        <4>4. c = d
          BY <2>1, <3>1, <4>3, OnePrepared
        <4> QED BY <2>3, <4>4 DEF Prepared, WithOid
      <3> QED BY <3>2
    <2>4. ASSUME NEW a \in Cloids, a \in OfIntent(cur),
                 attempt[a].status \in WithOid,
                 attempt[a].booked < order[a].feed
          PROVE  c[1] # cur /\ a \notin OfIntent(c[1])
      <3>1. a \notin OfIntent(c[1])
        <4>1. /\ order[a].feed <= order[a].filled
              /\ attempt[a].booked \in Nat /\ order[a].feed \in Nat
              /\ order[a].filled \in Nat
          BY <1>1 DEF RowsOK, AttemptRecord, OrderRecord
        <4>2. attempt[a].booked # order[a].filled
          BY <2>4, <4>1
        <4> QED BY <2>2, <2>4, <4>2
      <3> QED BY <2>4, <3>1
    <2>5. /\ ledgerQty'[c[1]] = ledgerQty[c[1]]
          /\ \A d \in OfIntent(c[1]) : attempt'[d].booked = attempt[d].booked
      <3>1. CASE /\ \A d \in Cloids : attempt'[d].booked = attempt[d].booked
                 /\ UNCHANGED ledgerQty
        BY <1>2, <3>1
      <3>2. CASE \E a \in Cloids :
                /\ pc = "sync" /\ a \in OfIntent(cur) /\ cur \in Intents
                /\ attempt[a].status \in WithOid
                /\ attempt[a].booked < order[a].feed
                /\ attempt' = [attempt EXCEPT ![a].booked = order[a].feed]
                /\ ledgerQty' = [ledgerQty EXCEPT
                       ![cur] = @ + (order[a].feed - attempt[a].booked)]
                /\ UNCHANGED <<order, processVars>>
        BY <1>1, <1>2, <2>4, <3>2
      <3> QED BY <3>1, <3>2, BooksAlike
    <2>6. \A d \in OfIntent(c[1]) :
            attempt'[d].status \in WithOid =>
              /\ order'[d].status \in Terminal
              /\ attempt'[d].booked = order'[d].filled
      BY <1>2, <1>3, <2>2, <2>3, <2>5
    <2> QED BY <2>1, <2>2, <2>5, <2>6
  <1>5. CASE Prepare
    <2>1. /\ Cloid \in Cloids /\ attempt[Cloid].status = "absent"
          /\ Remaining \in Nat \ {0} /\ cur \in Intents
          /\ UNCHANGED <<order, ledgerQty>>
      BY <1>1, <1>5, NewAttempt
    <2>2. /\ attempt'[Cloid].status \notin WithOid
          /\ attempt'[Cloid].quantity = Remaining
      BY <1>1, <1>5, <2>1, NewAttempt DEF WithOid
    <2>3. Settled(c[1])
      <3>1. CASE c = Cloid
        <4>1. pc = "attempt" /\ c[1] = cur
          BY <1>5, <3>1 DEF Prepare, InLoop, Cloid
        <4>2. \A d \in OfIntent(cur) : attempt[d].status \in WithOid =>
                  Counted(d)
          BY <4>1 DEF Counted, Excepted, StatusPcs
        <4> QED
          BY <4>1, <4>2
          DEF FillInv, CountOK, Live, LoopPcs, WorkPcs, TryPcs
      <3>2. CASE c # Cloid
        BY <1>1, <1>5, <3>2, OthersStay DEF PreparedOK
      <3> QED BY <3>1, <3>2
    <2>4. \A d \in OfIntent(c[1]) :
            attempt'[d].status \in WithOid => attempt'[d] = attempt[d]
      BY <1>2, <1>5, <2>2, OthersStay
    <2>5. attempt'[c].quantity + ledgerQty[c[1]] = Plan[c[1]].quantity
      <3>1. CASE c = Cloid
        <4>1. c[1] = cur /\ Plan[cur].quantity \in Nat /\ ledgerQty[cur] \in Nat
          BY <1>1, <2>1, <3>1, PlanTypes DEF Cloid
        <4> QED BY <2>1, <2>2, <3>1, <4>1 DEF Remaining
      <3>2. CASE c # Cloid
        BY <1>1, <1>5, <3>2, OthersStay DEF PreparedOK
      <3> QED BY <3>1, <3>2
    <2> QED BY <2>1, <2>3, <2>4, <2>5
  <1> QED BY <1>4, <1>5

-----------------------------------------------------------------------------
(* The loop over the attempts                                               *)

LEMMA SentStays ==
    ASSUME FillInv, [Next]_vars, NEW c \in Cloids, attempt[c].status \in Sent
    PROVE  attempt'[c].status \in Sent
  <1>1. CASE ~Prepare
    BY <1>1, Statuses
  <1>2. CASE Prepare
    <2>1. c # Cloid
      BY <1>2, NewAttempt DEF FillInv, ClaimInv, Sent, WithOid
    <2> QED BY <1>2, <2>1, OthersStay
  <1> QED BY <1>1, <1>2

(* A prepared size still fits, so no number is given up.                    *)
LEMMA SizeStands ==
    ASSUME FillInv, attempt[Cloid].status \in Prepared, Cloid \in Cloids
    PROVE  attempt[Cloid].quantity = Remaining
  <1>1. /\ attempt[Cloid].quantity + ledgerQty[cur] = Plan[cur].quantity
        /\ attempt[Cloid].quantity >= 1
    BY DEF FillInv, PreparedOK, RowsOK, Cloid, Prepared
  <1>2. /\ attempt[Cloid].quantity \in Nat /\ ledgerQty[cur] \in Nat
        /\ Plan[cur].quantity \in Nat
    BY RowTypes, PlanTypes
    DEF FillInv, ClaimInv, TypeInv, TypeOK, LedgerTypeOK, Cloids, Cloid
  <1> QED BY <1>1, <1>2 DEF Remaining

(* The loop goes on to the next number only from an attempt that was sent.  *)
LEMMA LoopMoves ==
    ASSUME FillInv, [Next]_vars,
           Live' \/ (pc' = "sync" /\ phase' = "live")
    PROVE  \/ /\ Live \/ (pc = "sync" /\ phase = "live")
              /\ cur' = cur /\ no' = no
              /\ pc' = "sync" => \/ attempt'[Cloid].status \in Sent
                                 \/ pc = "sync" /\ phase = "live"
           \/ /\ Live \/ (pc = "sync" /\ phase = "live")
              /\ cur' = cur /\ no' = no + 1 /\ pc' = "attempt"
              /\ attempt'[Cloid].status \in Sent
           \/ no' = 0 /\ pc' = "attempt"
  <1>1. /\ TypeInv /\ PhaseOK /\ QueriedOK
        /\ attempt \in [Cloids -> AttemptRecord]
    BY DEF FillInv, EndInv, SerialInv, TypeInv, TypeOK, LedgerTypeOK
  <1> USE DEF Live, LoopPcs, FlightPcs, StatusPcs, Goto, ledgerVars,
      exchangeVars, intentVars, processVars, boundVars
  <1>2. CASE \/ StartFresh \/ StartResume \/ SnapshotOk \/ SnapshotFails
             \/ ArmOk \/ ArmWaived \/ ArmFails \/ StartSession
             \/ Postcheck \/ MarkRebalanced \/ Attention \/ Disarm
             \/ DisarmFails \/ Fail \/ Interrupt \/ Crash \/ Settle
    BY <1>2 DEF StartFresh, StartResume, Enter, SnapshotOk, SnapshotFails,
        ArmOk, ArmWaived, ArmFails, StartSession, BeginIntent, Exit,
        Postcheck, MarkRebalanced, Attention, Disarm, DisarmFails, Fail, Interrupt,
        Crash, Settle
  <1>3. CASE ReconcileSkip \/ ReconcileQuery \/ ReconcileDone
    BY <1>1, <1>3 DEF ReconcileSkip, ReconcileQuery, ReconcileDone,
        NextAttemptNo, TypeInv, CursorOK
  <1>4. CASE QueryOpen \/ CancelAccepted \/ BookFills
    BY <1>4 DEF QueryOpen, CancelAccepted, BookFills
  <1>5. CASE Resolve
    <2>1. Cloid \in Cloids
      BY <1>5, NewStatus
    <2> QED
      BY <1>1, <1>5, <2>1
      DEF Resolve, SetAttempt, AttemptRecord, Sent, WithOid, Terminal
  <1>6. CASE SyncDone
    <2>1. phase = "live" => attempt[Cloid].status \in Sent
      BY <1>6 DEF SyncDone, FillInv, LoopOK
    <2>2. phase \in {"reconcile", "live"}
      BY <1>1 DEF TypeInv, TypeOK, ProcessTypeOK
    <2> QED BY <1>6, <2>1, <2>2 DEF SyncDone
  <1>7. CASE Exhausted \/ AlreadyFilled \/ Prepare \/ DriftCheck
             \/ PlaceResting \/ PlaceFilled \/ PlaceRefused
             \/ PlaceUnacknowledged \/ MarkRun \/ MarkIntent \/ Refuse
    BY <1>7 DEF Exhausted, AlreadyFilled, Prepare, DriftCheck, Continue,
        InLoop, PlaceResting, PlaceFilled, PlaceRefused, PlaceUnacknowledged,
        Answer, MarkRun, MarkIntent, Refuse
  <1>8. CASE SkipTransmitted
    BY <1>8 DEF SkipTransmitted, InLoop, Unsent, NextAttemptNo
  <1>9. CASE TakePrepared
    <2>1. attempt[Cloid].quantity = Remaining
      BY <1>9, SizeStands, NewStatus DEF TakePrepared, Abandon, Reuse,
          PreparedFound
    <2> QED
      BY <1>9, <2>1 DEF TakePrepared, Reuse, PreparedFound, InLoop, Continue
  <1>10. CASE RecordResting \/ RecordFilled \/ RecordRefused
    <2>1. Cloid \in Cloids
      BY <1>10, NewStatus
    <2>2. RecordFilled \/ RecordRefused => attempt'[Cloid].status \in Sent
      BY <1>1, <2>1 DEF RecordFilled, RecordRefused, SetAttempt,
          AttemptRecord, Sent, WithOid
    <2> QED
      BY <1>10, <2>2 DEF RecordResting, RecordFilled, RecordRefused,
          NextAttemptNo
  <1>11. CASE ExchangeStep
    BY <1>11 DEF ExchangeStep, OrderFills, OrderCanceled, FeedCatchesUp,
        DeadmanFires, ManualTrade
  <1>12. CASE UNCHANGED vars
    BY <1>12 DEF vars
  <1> QED
    BY <1>2, <1>3, <1>4, <1>5, <1>6, <1>7, <1>8, <1>9, <1>10, <1>11, <1>12
    DEF Next, ProcessStep

LEMMA LoopStep ==
    ASSUME FillInv, TypeInv', [Next]_vars
    PROVE  LoopOK'
  <1> SUFFICES ASSUME Live' \/ (pc' = "sync" /\ phase' = "live")
               PROVE  /\ \A m \in AttemptNos : m < no' =>
                            attempt'[<<cur', m>>].status \in Sent
                      /\ pc' = "sync" => attempt'[<<cur', no'>>].status \in Sent
    BY DEF LoopOK, Cloid
  <1>1. CASE /\ Live \/ (pc = "sync" /\ phase = "live")
             /\ cur' = cur
             /\ \/ no' = no
                \/ /\ no' = no + 1 /\ pc' = "attempt"
                   /\ attempt'[Cloid].status \in Sent
             /\ pc' = "sync" => \/ attempt'[Cloid].status \in Sent
                                \/ pc = "sync" /\ phase = "live"
    <2>1. cur \in Intents /\ no \in Nat
      BY <1>1 DEF FillInv, ClaimInv, TypeInv, TypeOK, ProcessTypeOK, CursorOK,
          Live, LoopPcs, FlightPcs, StatusPcs, WorkPcs, TryPcs
    <2>2. \A m \in AttemptNos : m < no =>
              attempt'[<<cur, m>>].status \in Sent
      BY <1>1, <2>1, SentStays DEF FillInv, LoopOK, Cloids
    <2>3. pc = "sync" /\ phase = "live" => attempt'[Cloid].status \in Sent
      <3> SUFFICES ASSUME pc = "sync", phase = "live"
                   PROVE  attempt'[Cloid].status \in Sent
        OBVIOUS
      <3>1. Cloid \in Cloids
        BY <2>1 DEF FillInv, ClaimInv, TypeInv, CursorOK, Cloid, Cloids
      <3> QED BY <3>1, SentStays DEF FillInv, LoopOK
    <2>4. \A m \in AttemptNos : m < no' =>
              attempt'[<<cur, m>>].status \in Sent
      <3> SUFFICES ASSUME NEW m \in AttemptNos, m < no', ~(m < no)
                   PROVE  attempt'[<<cur, m>>].status \in Sent
        BY <2>2
      <3>1. m = no /\ attempt'[Cloid].status \in Sent
        BY <1>1, <2>1 DEF AttemptNos
      <3> QED BY <3>1 DEF Cloid
    <2>5. pc' = "sync" => no' = no
      BY <1>1
    <2> QED BY <1>1, <2>3, <2>4, <2>5 DEF Cloid
  <1>2. CASE no' = 0 /\ pc' = "attempt"
    BY <1>2 DEF AttemptNos
  <1> QED BY <1>1, <1>2, LoopMoves

-----------------------------------------------------------------------------
(* What the process counts                                                  *)

LEMMA CountTypes ==
    ASSUME FillInv, NEW c \in Cloids
    PROVE  CountedFn[c] \in Int /\ BookedFn[c] \in Int
  BY RowTypes DEF FillInv, ClaimInv, TypeInv, CountedFn, BookedFn

(* A step that leaves the count as it is: what is counted is over, so the   *)
(* exchange does not change it either.                                      *)
LEMMA CountSame ==
    ASSUME FillInv, [Next]_vars, pc \in WorkPcs,
           cur' = cur, confirmed' = confirmed, Live' => Live,
           \A c \in OfIntent(cur) : Counted(c)' <=> Counted(c)
    PROVE  CountOK'
  <1> DEFINE S == OfIntent(cur)
             h == [c \in Cloids |-> IF Counted(c)' THEN order'[c].filled ELSE 0]
  <1>1. cur \in Intents /\ IsFiniteSet(S) /\ S \subseteq Cloids
    BY OfIntentFacts DEF FillInv, ClaimInv, TypeInv, CursorOK
  <1>2. /\ confirmed = SumOf(CountedFn, S)
        /\ \A c \in S : Counted(c) => order[c].status \in Terminal
        /\ Live => \A c \in S : Counted(c) =>
                      attempt[c].booked = order[c].filled
    BY DEF FillInv, CountOK
  <1>3. \A c \in S : Counted(c) => /\ order'[c].status \in Terminal
                                   /\ order'[c].filled = order[c].filled
    BY <1>1, <1>2, OverStaysOver DEF Open, Placed, Terminal
  <1>4. \A c \in S : h[c] = CountedFn[c] /\ CountedFn[c] \in Int
    BY <1>1, <1>3, CountTypes DEF CountedFn
  <1>5. SumOf(CountedFn, S) = SumOf(h, S)
    BY <1>1, <1>4, SumSame
  <1>6. h = CountedFn'
    BY DEF CountedFn
  <1>7. Live' => \A c \in S : Counted(c) => attempt'[c].booked = order'[c].filled
    <2>1. Live => pc # "sync"
      BY DEF Live, LoopPcs, FlightPcs, StatusPcs
    <2> QED BY <1>1, <1>2, <1>3, <2>1, BooksAlike
  <1> HIDE DEF h
  <1> QED
    BY <1>2, <1>3, <1>5, <1>6, <1>7 DEF CountOK, OfIntent

(* A step that counts the attempt at hand.                                  *)
LEMMA CountAdds ==
    ASSUME FillInv, pc \in WorkPcs, Cloid \in Cloids,
           cur' = cur, UNCHANGED order, order[Cloid].status \in Terminal,
           confirmed' = confirmed + order[Cloid].filled, ~Live',
           ~Counted(Cloid),
           \A c \in OfIntent(cur) : Counted(c)' <=> (Counted(c) \/ c = Cloid)
    PROVE  CountOK'
  <1> DEFINE S == OfIntent(cur)
             a == Cloid
             h == [c \in Cloids |-> IF Counted(c)' THEN order'[c].filled ELSE 0]
  <1>1. /\ cur \in Intents /\ IsFiniteSet(S) /\ S \subseteq Cloids /\ a \in S
    BY OfIntentFacts DEF FillInv, ClaimInv, TypeInv, CursorOK, OfIntent, Cloid
  <1>2. /\ confirmed = SumOf(CountedFn, S)
        /\ \A c \in S : Counted(c) => order[c].status \in Terminal
    BY DEF FillInv, CountOK
  <1>3. /\ \A c \in S : CountedFn[c] \in Int /\ h[c] \in Int
        /\ h[a] = order[a].filled /\ CountedFn[a] = 0
        /\ order[a].filled \in Int
    BY <1>1, CountTypes, RowTypes DEF FillInv, ClaimInv, TypeInv, CountedFn
  <1>4. \A c \in S : c # a => h[c] = CountedFn[c]
    BY <1>1 DEF CountedFn
  <1>5. h = CountedFn'
    BY DEF CountedFn
  <1> HIDE DEF h, a
  <1>6. /\ SumOf(h, S) = SumOf(CountedFn, S) + h[a] - CountedFn[a]
        /\ SumOf(CountedFn, S) \in Int
    BY <1>1, <1>3, <1>4, SumChange
  <1>7. confirmed' = SumOf(h, S)
    BY <1>2, <1>3, <1>6 DEF a
  <1> QED
    BY <1>1, <1>2, <1>5, <1>7 DEF CountOK, OfIntent, a

(* An intent begins with nothing counted.                                   *)
LEMMA CountBegins ==
    ASSUME TypeInv', pc' = "reconcile", no' = 0, confirmed' = 0
    PROVE  CountOK'
  <1> DEFINE S == OfIntent(cur)'
             h == CountedFn'
  <1>1. cur' \in Intents /\ phase' = "reconcile"
    BY DEF TypeInv, CursorOK, WorkPcs, TryPcs
  <1>2. S = OfIntent(cur') /\ IsFiniteSet(S) /\ S \subseteq Cloids
    BY <1>1, OfIntentFacts DEF OfIntent
  <1>3. \A c \in S : ~Counted(c)'
    BY <1>1, <1>2 DEF Counted, Excepted, Cloids, AttemptNos
  <1>4. \A c \in S : h[c] = 0
    BY <1>2, <1>3 DEF CountedFn
  <1>5. SumOf(h, S) = 0
    BY <1>2, <1>4, SumZero
  <1>6. ~Live'
    BY DEF Live, LoopPcs, FlightPcs, StatusPcs
  <1> QED
    BY <1>3, <1>5, <1>6 DEF CountOK

(* After the sync every counted attempt is booked to the last lot: no       *)
(* attempt has more booked than filled, and the totals agree.               *)
LEMMA SyncedIsBooked ==
    ASSUME FillInv, SyncDone, NEW c \in OfIntent(cur), Counted(c)
    PROVE  attempt[c].booked = order[c].filled
  <1> DEFINE S == OfIntent(cur)
  <1>1. cur \in Intents /\ pc = "sync"
    BY DEF FillInv, ClaimInv, TypeInv, CursorOK, SyncDone, WorkPcs, TryPcs
  <1>2. IsFiniteSet(S) /\ S \subseteq Cloids
    BY <1>1, OfIntentFacts
  <1>3. SumOf(BookedFn, S) = SumOf(CountedFn, S)
    BY <1>1 DEF SyncDone, FillsReconciled, FillInv, CountOK, LedgerOK,
        WorkPcs, TryPcs
  <1>4. \A d \in S : Counted(d) <=> attempt[d].status \in WithOid
    BY <1>1 DEF Counted, Excepted, StatusPcs
  <1>5. \A d \in S :
          /\ BookedFn[d] \in Int /\ CountedFn[d] \in Int
          /\ BookedFn[d] <= CountedFn[d]
    <2> SUFFICES ASSUME NEW d \in S
                 PROVE  /\ BookedFn[d] \in Int /\ CountedFn[d] \in Int
                        /\ BookedFn[d] <= CountedFn[d]
      OBVIOUS
    <2>1. /\ attempt[d].booked <= order[d].feed
          /\ order[d].feed <= order[d].filled
          /\ attempt[d].status \notin WithOid => attempt[d].booked = 0
      BY <1>2 DEF FillInv, RowsOK
    <2>2. /\ attempt[d].booked \in Nat /\ order[d].feed \in Nat
          /\ order[d].filled \in Nat
      BY <1>2, RowTypes DEF FillInv, ClaimInv, TypeInv
    <2>3. /\ BookedFn[d] = attempt[d].booked
          /\ CountedFn[d] = IF Counted(d) THEN order[d].filled ELSE 0
      BY <1>2 DEF BookedFn, CountedFn
    <2> QED BY <1>4, <2>1, <2>2, <2>3
  <1>6. BookedFn[c] = CountedFn[c]
    BY <1>2, <1>3, <1>5, SumTight
  <1> QED BY <1>2, <1>6 DEF BookedFn, CountedFn

LEMMA CountStep ==
    ASSUME FillInv, TypeInv', [Next]_vars
    PROVE  CountOK'
  <1>1. /\ TypeInv /\ PhaseOK /\ QueriedOK /\ FinishedOK
        /\ attempt \in [Cloids -> AttemptRecord]
    BY DEF FillInv, EndInv, SerialInv, TypeInv, TypeOK, LedgerTypeOK
  <1> USE DEF Goto, ledgerVars, exchangeVars, intentVars, processVars,
      boundVars
  <1>2. CASE pc' \notin WorkPcs
    BY <1>2 DEF CountOK
  <1>3. CASE /\ pc \in WorkPcs /\ cur' = cur /\ confirmed' = confirmed
             /\ Live' => Live
             /\ \A c \in OfIntent(cur) :
                  /\ Excepted(c)' <=> Excepted(c)
                  /\ attempt'[c].status \in WithOid <=>
                         attempt[c].status \in WithOid
    BY <1>3, CountSame DEF Counted
  <1>4. CASE \/ StartFresh \/ StartResume \/ SnapshotOk \/ SnapshotFails
             \/ ArmOk \/ ArmWaived \/ ArmFails
             \/ Postcheck \/ MarkRebalanced \/ Attention \/ Disarm
             \/ DisarmFails \/ Fail \/ Interrupt \/ Crash
    BY <1>2, <1>4 DEF StartFresh, StartResume, Enter, SnapshotOk,
        SnapshotFails, ArmOk, ArmWaived, ArmFails, Exit, Postcheck,
        MarkRebalanced, Attention, Disarm, DisarmFails, Fail, Interrupt, Crash, WorkPcs,
        TryPcs
  <1>5. CASE StartSession \/ Settle
    <2>1. CASE pc' \in WorkPcs
      <3>1. pc' = "reconcile" /\ no' = 0 /\ confirmed' = 0
        BY <1>5, <2>1 DEF StartSession, Settle, BeginIntent, WorkPcs, TryPcs
      <3> QED BY <3>1, CountBegins
    <2> QED BY <1>2, <2>1
  <1>6. CASE ReconcileSkip
    <2>1. /\ pc = "reconcile" /\ pc' = "reconcile" /\ phase' = phase
          /\ cur' = cur /\ no' = no + 1 /\ UNCHANGED <<attempt, confirmed>>
          /\ attempt[Cloid].status \notin WithOid
      BY <1>6 DEF ReconcileSkip, NextAttemptNo
    <2>2. no \in Nat
      BY <1>1 DEF TypeInv, TypeOK, ProcessTypeOK
    <2>3. \A c \in OfIntent(cur) : Counted(c)' <=> Counted(c)
      <3> SUFFICES ASSUME NEW c \in OfIntent(cur),
                          attempt[c].status \in WithOid
                   PROVE  Excepted(c)' <=> Excepted(c)
        BY <2>1 DEF Counted
      <3>1. c = <<cur, c[2]>> /\ c[2] \in Nat
        BY DEF OfIntent, Cloids, AttemptNos
      <3>2. c[2] # no
        BY <2>1, <3>1 DEF Cloid
      <3>3. c[2] >= no + 1 <=> c[2] >= no
        BY <2>2, <3>1, <3>2
      <3> QED BY <2>1, <3>3 DEF Excepted, StatusPcs
    <2>4. pc \in WorkPcs /\ ~Live'
      BY <2>1 DEF Live, LoopPcs, FlightPcs, StatusPcs, WorkPcs, TryPcs
    <2> QED BY <2>1, <2>3, <2>4, CountSame
  <1>7. CASE ReconcileQuery \/ QueryOpen \/ CancelAccepted
    BY <1>1, <1>3, <1>7 DEF ReconcileQuery, QueryOpen, CancelAccepted,
        Excepted, Live, LoopPcs, FlightPcs, StatusPcs, WorkPcs, TryPcs,
        TypeInv, CursorOK
  <1>8. CASE ReconcileDone
    <2>1. \A c \in OfIntent(cur) : ~(c[2] >= no)
      BY <1>8, ConstantFacts
      DEF ReconcileDone, OfIntent, Cloids, AttemptNos, MaxAttempts
    <2> QED
      BY <1>1, <1>3, <1>8, <2>1 DEF ReconcileDone, Excepted, Live, LoopPcs,
        FlightPcs, StatusPcs, WorkPcs, TryPcs, TypeInv, CursorOK
  <1>9. CASE Resolve
    <2>1. /\ Cloid \in Cloids /\ cur \in Intents /\ no \in AttemptNos
      BY <1>9, NewStatus
    <2>2. /\ pc \in StatusPcs /\ order[Cloid].status \in Terminal
          /\ confirmed' = confirmed + order[Cloid].filled
          /\ UNCHANGED <<order, cur, phase>>
          /\ SetAttempt(order[Cloid].status)
          /\ IF phase = "reconcile" THEN pc' = "reconcile" /\ no' = no + 1
             ELSE pc' = "sync" /\ no' = no
      BY <1>9 DEF Resolve, StatusPcs
    <2>3. phase \in {"reconcile", "live"}
      BY <1>1 DEF TypeInv, TypeOK, ProcessTypeOK
    <2>4. \A c \in OfIntent(cur) :
            /\ c \in Cloids /\ c = <<cur, c[2]>> /\ c[2] \in Nat
            /\ attempt'[c].status \in WithOid <=> attempt[c].status \in WithOid
      <3>1. \A c \in Cloids :
              c # Cloid => attempt'[c].status = attempt[c].status
        BY <1>1, <2>1, <2>2 DEF SetAttempt
      <3>2. attempt'[Cloid].status \in WithOid
        BY <1>1, <2>1, <2>2 DEF SetAttempt, AttemptRecord, Terminal, WithOid
      <3>3. attempt[Cloid].status \in WithOid
        BY <1>1, <2>2 DEF QueriedOK
      <3> QED BY <3>1, <3>2, <3>3 DEF OfIntent, Cloids, AttemptNos
    <2>5. attempt[Cloid].status \in WithOid /\ Excepted(Cloid)
          /\ Cloid \in OfIntent(cur)
      BY <1>1, <2>1, <2>2, <2>3
      DEF QueriedOK, Excepted, Cloid, AttemptNos, OfIntent
    <2>6. \A c \in OfIntent(cur) : Excepted(c) <=> (Excepted(c)' \/ c = Cloid)
      <3> SUFFICES ASSUME NEW c \in OfIntent(cur)
                   PROVE  Excepted(c) <=> (Excepted(c)' \/ c = Cloid)
        OBVIOUS
      <3>1. c[2] = no <=> c = Cloid
        BY <2>4 DEF Cloid
      <3>2. c[2] >= no <=> c[2] >= no + 1 \/ c[2] = no
        BY <2>1, <2>4 DEF AttemptNos
      <3> QED
        BY <2>2, <2>3, <3>1, <3>2 DEF Excepted, StatusPcs
    <2>7. \A c \in OfIntent(cur) : Counted(c)' <=> (Counted(c) \/ c = Cloid)
      <3> SUFFICES ASSUME NEW c \in OfIntent(cur)
                   PROVE  Counted(c)' <=> (Counted(c) \/ c = Cloid)
        OBVIOUS
      <3>1. c = Cloid => ~Excepted(c)'
        BY <2>1, <2>2, <2>3 DEF Excepted, StatusPcs, Cloid, AttemptNos
      <3> QED BY <2>4, <2>5, <2>6, <3>1 DEF Counted
    <2>8. pc \in WorkPcs /\ ~Live' /\ ~Counted(Cloid)
      BY <2>2, <2>5 DEF Live, LoopPcs, FlightPcs, StatusPcs, WorkPcs, TryPcs,
          Counted
    <2> QED BY <2>1, <2>2, <2>7, <2>8, CountAdds
  <1>10. CASE BookFills
    <2>1. \A c \in OfIntent(cur) : attempt'[c].status = attempt[c].status
      BY <1>1, <1>10 DEF BookFills, OfIntent, AttemptRecord
    <2> QED
      BY <1>3, <1>10, <2>1 DEF BookFills, Excepted, Live, LoopPcs, FlightPcs,
        StatusPcs, WorkPcs, TryPcs
  <1>11. CASE SyncDone
    <2>1. /\ pc = "sync" /\ pc' \in {"attempt", "settle"}
          /\ UNCHANGED <<attempt, order, cur, confirmed>>
      BY <1>11 DEF SyncDone
    <2>2. \A c \in OfIntent(cur) : Counted(c)' <=> Counted(c)
      BY <2>1 DEF Counted, Excepted, StatusPcs
    <2>3. \A c \in OfIntent(cur) : Counted(c) =>
              attempt[c].booked = order[c].filled
      BY <1>11, SyncedIsBooked
    <2>4. /\ \A c \in OfIntent(cur) : Counted(c) => order[c].status \in Terminal
          /\ confirmed = SumOf(CountedFn, OfIntent(cur))
      BY <2>1 DEF FillInv, CountOK, WorkPcs, TryPcs
    <2>5. CountedFn' = CountedFn
      BY <2>1 DEF CountedFn, Counted, Excepted, StatusPcs
    <2> QED BY <2>1, <2>2, <2>3, <2>4, <2>5 DEF CountOK, OfIntent
  <1>12. CASE Exhausted \/ SkipTransmitted \/ AlreadyFilled \/ DriftCheck
              \/ PlaceResting \/ PlaceFilled \/ PlaceRefused
              \/ PlaceUnacknowledged \/ MarkRun \/ MarkIntent \/ Refuse
    BY <1>2, <1>3, <1>12 DEF Exhausted, SkipTransmitted, AlreadyFilled,
        DriftCheck, Continue, InLoop, NextAttemptNo, PlaceResting,
        PlaceFilled, PlaceRefused, PlaceUnacknowledged, Answer, MarkRun,
        MarkIntent, Refuse, Excepted, Live, LoopPcs, FlightPcs, StatusPcs,
        WorkPcs, TryPcs
  <1>13. CASE TakePrepared \/ Prepare \/ RecordRefused
    <2>1. /\ pc \in {"attempt", "record"} /\ pc' \in LoopPcs
          /\ cur' = cur /\ confirmed' = confirmed
      BY <1>13 DEF TakePrepared, Abandon, Reuse, PreparedFound, InLoop,
          Prepare, RecordRefused, Continue, NextAttemptNo, LoopPcs
    <2>2. \A c \in OfIntent(cur) : attempt'[c].status \in WithOid <=>
                                       attempt[c].status \in WithOid
      <3>1. CASE TakePrepared \/ RecordRefused
        <4>1. Cloid \in Cloids
          BY <3>1, NewStatus
        <4>2. attempt[Cloid].status \in Prepared
          BY <1>1, <3>1 DEF TakePrepared, Abandon, Reuse, PreparedFound,
              RecordRefused, PhaseOK, FlightPcs
        <4>3. PICK s \in {"abandoned", "dust", "rejected"} :
                UNCHANGED attempt \/ SetAttempt(s)
          BY <3>1 DEF TakePrepared, Abandon, Reuse, RecordRefused
        <4> QED
          BY <1>1, <4>1, <4>2, <4>3
          DEF SetAttempt, OfIntent, Prepared, WithOid, AttemptRecord
      <3>2. CASE Prepare
        <4>1. PICK dust : attempt' = [attempt EXCEPT ![Cloid] =
                              [status |-> "prepared", quantity |-> Remaining,
                               dust |-> dust, booked |-> 0]]
          BY <1>1, <3>2, NewAttempt
        <4>2. Cloid \in Cloids /\ attempt[Cloid].status = "absent"
          BY <1>1, <3>2, NewAttempt
        <4> QED BY <1>1, <4>1, <4>2 DEF OfIntent, WithOid
      <3> QED BY <1>13, <3>1, <3>2
    <2>3. \A c : ~Excepted(c) /\ ~Excepted(c)'
      BY <2>1 DEF Excepted, StatusPcs, LoopPcs, FlightPcs
    <2>4. pc \in WorkPcs /\ Live
      BY <2>1 DEF Live, LoopPcs, FlightPcs, WorkPcs, TryPcs
    <2> QED BY <1>3, <2>1, <2>2, <2>3, <2>4
  <1>14. CASE RecordResting
    <2>1. /\ Cloid \in Cloids /\ cur \in Intents /\ no \in AttemptNos
      BY <1>14, NewStatus
    <2>2. /\ pc = "record" /\ pc' = "query" /\ phase = "live"
          /\ UNCHANGED <<cur, no, phase, confirmed>>
          /\ SetAttempt("open") /\ attempt[Cloid].status \in Prepared
      BY <1>1, <1>14 DEF RecordResting, PhaseOK, LoopPcs, FlightPcs
    <2>3. \A c \in OfIntent(cur) : Counted(c)' <=> Counted(c)
      <3> SUFFICES ASSUME NEW c \in OfIntent(cur)
                   PROVE  Counted(c)' <=> Counted(c)
        OBVIOUS
      <3>1. CASE c = Cloid
        <4>1. Excepted(c)' /\ attempt[c].status \notin WithOid
          BY <2>1, <2>2, <3>1
          DEF Excepted, StatusPcs, Cloid, Prepared, WithOid, AttemptNos
        <4> QED BY <4>1 DEF Counted
      <3>2. CASE c # Cloid
        <4>1. c[2] # no
          BY <3>2 DEF OfIntent, Cloids, Cloid
        <4>2. attempt'[c].status = attempt[c].status
          BY <1>1, <2>1, <2>2, <3>2 DEF SetAttempt, OfIntent
        <4> QED BY <2>2, <4>1, <4>2 DEF Counted, Excepted, StatusPcs
      <3> QED BY <3>1, <3>2
    <2>4. pc \in WorkPcs /\ Live
      BY <2>2 DEF Live, LoopPcs, FlightPcs, WorkPcs, TryPcs
    <2> QED BY <2>2, <2>3, <2>4, CountSame
  <1>15. CASE RecordFilled
    <2>1. /\ Cloid \in Cloids /\ cur \in Intents /\ no \in AttemptNos
      BY <1>15, NewStatus
    <2>2. /\ pc = "record" /\ pc' = "sync" /\ SetAttempt("filled")
          /\ UNCHANGED <<cur, order>>
          /\ confirmed' = confirmed + attempt[Cloid].quantity
          /\ attempt[Cloid].status \in Prepared
          /\ order[Cloid].status = "filled"
      BY <1>1, <1>15 DEF RecordFilled, PhaseOK, FlightPcs, FinishedOK
    <2>3. order[Cloid].filled = attempt[Cloid].quantity
      BY <2>1, <2>2 DEF FillInv, RowsOK, Placed
    <2>4. \A c : ~Excepted(c) /\ ~Excepted(c)'
      BY <2>2 DEF Excepted, StatusPcs
    <2>5. \A c \in OfIntent(cur) : Counted(c)' <=> (Counted(c) \/ c = Cloid)
      BY <1>1, <2>1, <2>2, <2>4
      DEF Counted, SetAttempt, OfIntent, AttemptRecord, WithOid
    <2>6. pc \in WorkPcs /\ ~Live' /\ ~Counted(Cloid)
      BY <2>2 DEF Live, LoopPcs, FlightPcs, StatusPcs, WorkPcs, TryPcs,
          Counted, Prepared, WithOid
    <2> QED
      BY <2>1, <2>2, <2>3, <2>5, <2>6, CountAdds DEF Terminal
  <1>16. CASE ExchangeStep \/ UNCHANGED vars
    <2>1. UNCHANGED <<attempt, processVars>>
      BY <1>16 DEF ExchangeStep, OrderFills, OrderCanceled, FeedCatchesUp,
          DeadmanFires, ManualTrade, vars
    <2> QED BY <1>2, <1>3, <2>1 DEF Excepted, Live
  <1> QED
    BY <1>4, <1>5, <1>6, <1>7, <1>8, <1>9, <1>10, <1>11, <1>12, <1>13, <1>14,
       <1>15, <1>16
    DEF Next, ProcessStep

LEMMA FillInit == Init => FillInv
  <1> SUFFICES ASSUME Init PROVE FillInv
    OBVIOUS
  <1>1. EndInv /\ ClaimInv
    BY EndInit, ClaimInit
  <1>2. RowsOK /\ PrefixOK /\ PreparedOK
    BY DEF Init, RowsOK, PrefixOK, PreparedOK, Open, Placed, NoOrder,
        NoAttempt, WithOid, Prepared, Cloids
  <1>3. CountOK /\ LoopOK
    BY DEF Init, CountOK, LoopOK, Live, WorkPcs, TryPcs, LoopPcs, FlightPcs,
        StatusPcs
  <1>4. ASSUME NEW i \in Intents
        PROVE  ledgerQty[i] = SumOf(BookedFn, OfIntent(i))
    <2>1. IsFiniteSet(OfIntent(i)) /\ OfIntent(i) \subseteq Cloids
      BY OfIntentFacts
    <2>2. \A c \in OfIntent(i) : BookedFn[c] = 0
      BY <2>1 DEF Init, BookedFn, NoAttempt
    <2> QED BY <2>1, <2>2, SumZero DEF Init
  <1> QED
    BY <1>1, <1>2, <1>3, <1>4 DEF FillInv, LedgerOK

LEMMA FillStep == FillInv /\ [Next]_vars => FillInv'
  <1> SUFFICES ASSUME FillInv, [Next]_vars PROVE FillInv'
    OBVIOUS
  <1>1. EndInv' /\ ClaimInv' /\ TypeInv'
    BY EndStep, ClaimStep DEF FillInv, ClaimInv
  <1> QED
    BY <1>1, RowsStep, LedgerStep, CountStep, PrefixStep, LoopStep,
        PreparedStep
    DEF FillInv

LEMMA FillInvAlways == Spec => []FillInv
  BY FillInit, FillStep, PTL DEF Spec

-----------------------------------------------------------------------------
(* The theorems on what is sent                                             *)

(* At every send the ledger holds exactly what the exchange filled for the  *)
(* intent, order by order.                                                  *)
THEOREM SendsOnBookedFills == Spec => []SendOnBookedFills
  <1>1. FillInv => SendOnBookedFills
    <2> SUFFICES ASSUME FillInv, pc = "send", Acknowledged,
                        NEW c \in OfIntent(cur)
                 PROVE  attempt[c].booked = order[c].filled
      BY DEF SendOnBookedFills
    <2>1. c \in Cloids
      BY DEF OfIntent
    <2>2. CASE attempt[c].status \in WithOid
      BY <2>2 DEF FillInv, CountOK, Counted, Excepted, Live, LoopPcs, StatusPcs,
          WorkPcs, TryPcs
    <2>3. CASE attempt[c].status \notin WithOid
      <3>1. ~Placed(c)
        BY <2>1, <2>3 DEF FillInv, EndInv, SerialInv, KnownOK, InFlight,
            FlightPcs
      <3> QED BY <2>1, <2>3, <3>1 DEF FillInv, RowsOK
    <2> QED BY <2>2, <2>3
  <1> QED BY FillInvAlways, <1>1, PTL

(* A size prepared before a crash is what the intent still lacks when it is *)
(* found again.                                                             *)
THEOREM PreparedStands == Spec => []PreparedSizeStands
  <1>1. FillInv => PreparedSizeStands
    <2> SUFFICES ASSUME FillInv, PreparedFound
                 PROVE  attempt[Cloid].quantity = Remaining
      BY DEF PreparedSizeStands
    <2>1. Cloid \in Cloids
      BY AtHand DEF FillInv, ClaimInv, PreparedFound, InLoop
    <2> QED BY <2>1, SizeStands DEF PreparedFound
  <1> QED BY FillInvAlways, <1>1, PTL

-----------------------------------------------------------------------------
(* What can be traded                                                       *)

(* What an attempt has filled and can still fill, counted apart for those   *)
(* of which the ledger knows, or is about to, and those whose acceptance    *)
(* was lost.                                                                *)
Known(c) == attempt[c].status \in WithOid \/ InFlight(c)
KnownRiskFn == [c \in Cloids |-> IF Known(c) THEN RiskFn[c] ELSE 0]
LostRiskFn == [c \in Cloids |-> IF Known(c) THEN 0 ELSE RiskFn[c]]

RiskOK ==
    \A i \in Intents :
        /\ SumOf(KnownRiskFn, OfIntent(i)) <= Plan[i].quantity
        /\ SumOf(LostRiskFn, OfIntent(i)) <= lost * Plan[i].quantity

RiskInv == FillInv /\ RiskOK

LEMMA RiskTypes ==
    ASSUME FillInv, NEW c \in Cloids
    PROVE  /\ RiskFn[c] \in Nat /\ KnownRiskFn[c] \in Nat
           /\ LostRiskFn[c] \in Nat
           /\ RiskFn[c] = IF Open(c) THEN order[c].quantity ELSE order[c].filled
           /\ KnownRiskFn[c] = IF Known(c) THEN RiskFn[c] ELSE 0
           /\ LostRiskFn[c] = IF Known(c) THEN 0 ELSE RiskFn[c]
           /\ RiskFn[c] <= order[c].quantity
  <1>1. order[c].quantity \in Nat /\ order[c].filled \in Nat
    BY RowTypes DEF FillInv, ClaimInv, TypeInv
  <1>2. order[c].filled <= order[c].quantity
    BY DEF FillInv, RowsOK
  <1> QED BY <1>1, <1>2 DEF RiskFn, KnownRiskFn, LostRiskFn

(* Nothing but a placement raises what an order can still trade.            *)
LEMMA RiskFalls ==
    ASSUME FillInv, FillInv', [Next]_vars, NEW c \in Cloids,
           c = Cloid => ~(PlaceResting \/ PlaceFilled \/ PlaceUnacknowledged)
    PROVE  RiskFn'[c] <= RiskFn[c]
  <1>1. /\ order \in [Cloids -> OrderRecord] /\ RowsOK
    BY DEF FillInv, ClaimInv, TypeInv, TypeOK, ExchangeTypeOK
  <1>2. /\ RiskFn[c] = IF Open(c) THEN order[c].quantity ELSE order[c].filled
        /\ RiskFn'[c] = IF Open(c)' THEN order'[c].quantity
                        ELSE order'[c].filled
    BY DEF RiskFn
  <1>3. /\ order[c].quantity \in Nat /\ order[c].filled \in Nat
        /\ order[c].filled <= order[c].quantity
        /\ Open(c) => order[c].filled < order[c].quantity
    BY <1>1 DEF OrderRecord, RowsOK
  <1>4. CASE order'[c] = order[c]
    BY <1>2, <1>3, <1>4 DEF Open
  <1>5. CASE PlaceResting \/ PlaceFilled \/ PlaceUnacknowledged
    <2>1. Cloid \in Cloids /\ c # Cloid
      BY <1>5, Placement
    <2>2. order'[c] = order[c]
      BY <1>1, <1>5, <2>1, Placement
    <2> QED BY <1>4, <2>2
  <1>6. CASE \E d \in Cloids : OrderFills(d)
    <2>1. PICK d \in Cloids : OrderFills(d)
      BY <1>6
    <2>2. CASE d = c
      <3>1. /\ order'[c].filled = order[c].filled + 1
            /\ order'[c].quantity = order[c].quantity
            /\ Open(c)
        BY <1>1, <2>1, <2>2 DEF OrderFills, Open
      <3> QED BY <1>2, <1>3, <3>1
    <2>3. CASE d # c
      BY <1>1, <1>4, <2>1, <2>3 DEF OrderFills
    <2> QED BY <2>2, <2>3
  <1>7. CASE \E d \in Cloids : OrderCanceled(d) \/ FeedCatchesUp(d)
    <2>1. PICK d \in Cloids : OrderCanceled(d) \/ FeedCatchesUp(d)
      BY <1>7
    <2>2. CASE d = c
      <3>1. /\ order'[c].filled = order[c].filled
            /\ order'[c].quantity = order[c].quantity
            /\ Open(c)' => Open(c)
        BY <1>1, <2>1, <2>2
        DEF OrderCanceled, FeedCatchesUp, Open, OrderRecord
      <3> QED BY <1>2, <1>3, <3>1
    <2>3. CASE d # c
      BY <1>1, <1>4, <2>1, <2>3 DEF OrderCanceled, FeedCatchesUp
    <2> QED BY <2>2, <2>3
  <1>8. CASE DeadmanFires
    <2>1. /\ order'[c].filled = order[c].filled
          /\ ~Open(c)'
      BY <1>1, <1>8 DEF DeadmanFires, Open, OrderRecord
    <2> QED BY <1>2, <1>3, <2>1
  <1>9. CASE UNCHANGED order
    BY <1>4, <1>9
  <1>10. CASE BookFills \/ Prepare
    BY <1>9, <1>10 DEF BookFills, Prepare, exchangeVars
  <1> QED
    BY <1>5, <1>6, <1>7, <1>8, <1>9, <1>10, Touches, NewStatus

(* The ledger knows of an order until the process that placed it is gone    *)
(* before it recorded it.                                                   *)
LEMMA KnownStays ==
    ASSUME FillInv, [Next]_vars, NEW c \in Cloids,
           ~((Fail \/ Interrupt \/ Crash) /\ Unrecorded),
           c = Cloid => ~(PlaceResting \/ PlaceFilled)
    PROVE  Known(c)' <=> Known(c)
  <1>1. /\ TypeInv /\ PhaseOK
        /\ attempt \in [Cloids -> AttemptRecord]
    BY DEF FillInv, EndInv, SerialInv, TypeInv, TypeOK, LedgerTypeOK
  <1> USE DEF Known, InFlight, FlightPcs, Cloid, Goto, ledgerVars,
      exchangeVars, intentVars, processVars, boundVars
  <1>2. CASE UNCHANGED attempt /\ (InFlight(c)' <=> InFlight(c))
    BY <1>2
  <1>3. CASE \/ StartFresh \/ StartResume \/ SnapshotOk \/ SnapshotFails
             \/ ArmOk \/ ArmWaived \/ ArmFails \/ StartSession
             \/ ReconcileSkip \/ ReconcileQuery \/ ReconcileDone
             \/ QueryOpen \/ CancelAccepted \/ SyncDone \/ Exhausted
             \/ SkipTransmitted \/ AlreadyFilled \/ DriftCheck
    BY <1>2, <1>3 DEF StartFresh, StartResume, Enter, SnapshotOk,
        SnapshotFails, ArmOk, ArmWaived, ArmFails, StartSession, BeginIntent,
        Exit, ReconcileSkip, ReconcileQuery, ReconcileDone, NextAttemptNo,
        QueryOpen, CancelAccepted, SyncDone, Exhausted, SkipTransmitted,
        AlreadyFilled, DriftCheck, Continue, InLoop
  <1>4. CASE \/ MarkRun \/ MarkIntent \/ PlaceRefused \/ PlaceUnacknowledged
             \/ Refuse \/ Settle \/ Postcheck \/ MarkRebalanced \/ Attention
             \/ Disarm \/ DisarmFails
    BY <1>2, <1>4 DEF MarkRun, MarkIntent, PlaceRefused, PlaceUnacknowledged,
        Answer, Refuse, Settle, BeginIntent, Postcheck, MarkRebalanced,
        Attention, Disarm, DisarmFails, Exit
  <1>5. CASE Fail \/ Interrupt \/ Crash
    BY <1>2, <1>5 DEF Fail, Interrupt, Goto, Crash, Exit, Unrecorded
  <1>6. CASE PlaceResting \/ PlaceFilled
    BY <1>2, <1>6 DEF PlaceResting, PlaceFilled, Answer
  <1>7. CASE ExchangeStep \/ UNCHANGED vars
    BY <1>2, <1>7 DEF ExchangeStep, OrderFills, OrderCanceled, FeedCatchesUp,
        DeadmanFires, ManualTrade, vars
  <1>8. CASE BookFills
    <2>1. attempt'[c].status = attempt[c].status
      BY <1>1, <1>8 DEF BookFills, AttemptRecord
    <2> QED BY <1>8, <2>1 DEF BookFills
  <1>9. CASE Prepare
    <2>1. attempt'[c].status \in WithOid <=> attempt[c].status \in WithOid
      <3>1. PICK dust : attempt' = [attempt EXCEPT ![Cloid] =
                              [status |-> "prepared", quantity |-> Remaining,
                               dust |-> dust, booked |-> 0]]
        BY <1>1, <1>9, NewAttempt
      <3>2. Cloid \in Cloids /\ attempt[Cloid].status = "absent"
        BY <1>1, <1>9, NewAttempt
      <3> QED BY <1>1, <3>1, <3>2 DEF WithOid
    <2> QED BY <1>9, <2>1 DEF Prepare, Continue, InLoop
  <1>10. CASE Resolve
    <2>1. Cloid \in Cloids /\ attempt[Cloid].status \in WithOid
      BY <1>10, NewStatus DEF FillInv, EndInv, QueriedOK, Resolve, StatusPcs
    <2>2. SetAttempt(order[Cloid].status) /\ order[Cloid].status \in Terminal
          /\ pc \in {"query", "await"} /\ pc' \in {"reconcile", "sync"}
      BY <1>10 DEF Resolve
    <2>3. attempt'[c].status \in WithOid <=> attempt[c].status \in WithOid
      BY <1>1, <2>1, <2>2
      DEF SetAttempt, AttemptRecord, Terminal, WithOid
    <2> QED BY <2>2, <2>3
  <1>11. CASE TakePrepared
    <2>1. Cloid \in Cloids /\ attempt[Cloid].status \in Prepared
          /\ pc = "attempt" /\ pc' \in {"attempt", "check", "settle"}
      BY <1>11, NewStatus DEF TakePrepared, Abandon, Reuse, PreparedFound,
          InLoop, Continue, NextAttemptNo
    <2>2. PICK s \in {"abandoned", "dust"} : UNCHANGED attempt \/ SetAttempt(s)
      BY <1>11 DEF TakePrepared, Abandon, Reuse
    <2>3. attempt'[c].status \in WithOid <=> attempt[c].status \in WithOid
      BY <1>1, <2>1, <2>2 DEF SetAttempt, AttemptRecord, Prepared, WithOid
    <2> QED BY <2>1, <2>3
  <1>12. CASE RecordResting \/ RecordFilled \/ RecordRefused
    <2>1. /\ Cloid \in Cloids /\ attempt[Cloid].status \in Prepared
          /\ pc = "record" /\ pc' \in {"query", "sync", "attempt", "refuse"}
      BY <1>1, <1>12, NewStatus DEF RecordResting, RecordFilled,
          RecordRefused, NextAttemptNo, PhaseOK
    <2>2. CASE c # Cloid
      <3>1. attempt'[c].status = attempt[c].status
        BY <1>1, <1>12, <2>1, <2>2
        DEF RecordResting, RecordFilled, RecordRefused, SetAttempt
      <3> QED BY <2>1, <2>2, <3>1
    <2>3. CASE c = Cloid
      <3>1. attempt'[c].status \in WithOid <=> response \in {"open", "filled"}
        BY <1>1, <1>12, <2>1, <2>3
        DEF RecordResting, RecordFilled, RecordRefused, SetAttempt,
            AttemptRecord, WithOid
      <3>2. attempt[c].status \notin WithOid
        BY <2>1, <2>3 DEF Prepared, WithOid
      <3> QED BY <2>1, <2>3, <3>1, <3>2
    <2> QED BY <2>2, <2>3
  <1> QED
    BY <1>3, <1>4, <1>5, <1>6, <1>7, <1>8, <1>9, <1>10, <1>11, <1>12
    DEF Next, ProcessStep

LEMMA LostGrows ==
    ASSUME TypeInv, [Next]_vars
    PROVE  /\ lost \in Nat /\ lost' \in Nat /\ lost <= lost'
           /\ ((Fail \/ Interrupt \/ Crash) /\ Unrecorded) \/ PlaceUnacknowledged
                  => lost' = lost + 1
  <1>1. lost \in Nat
    BY ConstantFacts DEF TypeInv, TypeOK, BoundTypeOK
  <1>2. lost' = lost \/ lost' = lost + 1
    BY DEF Next, ProcessStep, ExchangeStep, StartFresh, StartResume, Enter,
      SnapshotOk, SnapshotFails, ArmOk, ArmWaived, ArmFails, StartSession,
      ReconcileSkip, ReconcileQuery, ReconcileDone, QueryOpen, CancelAccepted,
      Resolve, BookFills, SyncDone, Exhausted, SkipTransmitted, AlreadyFilled,
      TakePrepared, Abandon, Reuse, Prepare, DriftCheck, PlaceResting,
      PlaceFilled, PlaceRefused, PlaceUnacknowledged, MarkRun, MarkIntent,
      RecordResting, RecordFilled, RecordRefused, Refuse, Settle, Postcheck,
      MarkRebalanced, Attention, Disarm, DisarmFails, Fail, Interrupt, Crash,
      LoseIfUnrecorded, OrderFills, OrderCanceled, FeedCatchesUp, DeadmanFires,
      ManualTrade, vars, boundVars
  <1>3. ((Fail \/ Interrupt \/ Crash) /\ Unrecorded) \/ PlaceUnacknowledged
            => lost' = lost + 1
    BY DEF Fail, Interrupt, Goto, Crash, LoseIfUnrecorded, PlaceUnacknowledged
  <1> QED BY <1>1, <1>2, <1>3

(* At a send the orders of the intent that the ledger knows are booked, and *)
(* the one to be placed is for the rest.                                    *)
LEMMA KnownAtSend ==
    ASSUME FillInv, pc = "send"
    PROVE  /\ cur \in Intents /\ Cloid \in OfIntent(cur) /\ ~Known(Cloid)
           /\ SumOf(KnownRiskFn, OfIntent(cur)) + attempt[Cloid].quantity
                = Plan[cur].quantity
  <1>1. TypeInv /\ TypeOK /\ PhaseOK /\ RowsOK /\ CountOK /\ LedgerOK
        /\ PreparedOK
    BY DEF FillInv, EndInv, SerialInv, TypeInv
  <1>2. cur \in Intents /\ Cloid \in OfIntent(cur) /\ Cloid \in Cloids
    BY <1>1, AtHand DEF AttemptPcs
  <1>3. attempt[Cloid].status \in Prepared
    BY <1>1 DEF PhaseOK
  <1>4. \A c \in Cloids : Known(c) <=> attempt[c].status \in WithOid
    BY DEF Known, InFlight, FlightPcs
  <1>5. attempt[Cloid].quantity + ledgerQty[cur] = Plan[cur].quantity
    BY <1>1, <1>2, <1>3 DEF PreparedOK, Cloid
  <1>6. \A c \in OfIntent(cur) : BookedFn[c] \in Int
                                 /\ KnownRiskFn[c] = BookedFn[c]
    <2> TAKE c \in OfIntent(cur)
    <2>1. c \in Cloids
      BY DEF OfIntent
    <2>2. BookedFn[c] = attempt[c].booked /\ attempt[c].booked \in Int
      BY <1>1, <2>1, RowTypes DEF BookedFn
    <2>3. CASE attempt[c].status \in WithOid
      <3>1. /\ order[c].status \in Terminal
            /\ attempt[c].booked = order[c].filled
        BY <1>1, <2>3 DEF CountOK, Counted, Excepted, Live, LoopPcs, StatusPcs,
            WorkPcs, TryPcs
      <3>2. KnownRiskFn[c] = order[c].filled
        BY <1>4, <2>1, <2>3, <3>1, RiskTypes DEF Open, Terminal
      <3> QED BY <2>2, <3>1, <3>2
    <2>4. CASE attempt[c].status \notin WithOid
      <3>1. attempt[c].booked = 0
        BY <1>1, <2>1, <2>4 DEF RowsOK
      <3>2. KnownRiskFn[c] = 0
        BY <1>4, <2>1, <2>4, RiskTypes
      <3> QED BY <2>2, <3>1, <3>2
    <2> QED BY <2>3, <2>4
  <1>7. SumOf(BookedFn, OfIntent(cur)) = SumOf(KnownRiskFn, OfIntent(cur))
    BY <1>2, <1>6, OfIntentFacts, SumSame
  <1>8. ledgerQty[cur] = SumOf(KnownRiskFn, OfIntent(cur))
    BY <1>1, <1>2, <1>7 DEF LedgerOK
  <1>9. ledgerQty[cur] \in Int /\ attempt[Cloid].quantity \in Int
        /\ Plan[cur].quantity \in Int
    BY <1>1, <1>2, RowTypes, PlanTypes DEF TypeOK, LedgerTypeOK
  <1>10. ~Known(Cloid)
    BY <1>2, <1>3, <1>4 DEF Prepared, WithOid
  <1> QED BY <1>2, <1>5, <1>8, <1>9, <1>10

LEMMA MoreLost ==
    ASSUME NEW m \in Nat, NEW n \in Nat, m <= n, NEW q \in Nat
    PROVE  m * q <= n * q /\ (m + 1) * q = m * q + q /\ m * q \in Int
  <1>1. PICK d \in Nat : n = m + d
    <2>1. n - m \in Nat /\ n = m + (n - m)
      OBVIOUS
    <2> QED BY <2>1
  <1>2. d * q \in Nat /\ m * q \in Nat
    OBVIOUS
  <1>3. n * q = m * q + d * q
    BY <1>1
  <1> QED BY <1>2, <1>3

LEMMA RiskStep ==
    ASSUME RiskInv, FillInv', [Next]_vars
    PROVE  RiskOK'
  <1> DEFINE k == KnownRiskFn
             l == LostRiskFn
             k2 == KnownRiskFn'
             l2 == LostRiskFn'
  <1>1. FillInv /\ RiskOK /\ TypeInv /\ TypeInv'
    BY DEF RiskInv, FillInv, ClaimInv
  <1>2. \A c \in Cloids :
           /\ k[c] = (IF Known(c) THEN RiskFn[c] ELSE 0)
           /\ l[c] = (IF Known(c) THEN 0 ELSE RiskFn[c])
           /\ RiskFn[c] \in Nat /\ RiskFn[c] <= order[c].quantity
    BY <1>1, RiskTypes
  <1>3. \A c \in Cloids :
           /\ k2[c] = (IF Known(c)' THEN RiskFn'[c] ELSE 0)
           /\ l2[c] = (IF Known(c)' THEN 0 ELSE RiskFn'[c])
           /\ RiskFn'[c] \in Nat /\ RiskFn'[c] <= order'[c].quantity
    <2>1. ASSUME NEW c \in Cloids
          PROVE  /\ k2[c] = (IF Known(c)' THEN RiskFn'[c] ELSE 0)
                 /\ l2[c] = (IF Known(c)' THEN 0 ELSE RiskFn'[c])
                 /\ RiskFn'[c] \in Nat /\ RiskFn'[c] <= order'[c].quantity
      <3>1. order'[c].quantity \in Nat /\ order'[c].filled \in Nat
        BY <1>1 DEF TypeInv, TypeOK, ExchangeTypeOK, OrderRecord
      <3>2. order'[c].filled <= order'[c].quantity
        BY DEF FillInv, RowsOK
      <3>3. RiskFn'[c] = IF Open(c)' THEN order'[c].quantity
                         ELSE order'[c].filled
        BY DEF RiskFn
      <3> QED BY <3>1, <3>2, <3>3 DEF KnownRiskFn, LostRiskFn
    <2> QED BY <2>1
  <1> HIDE DEF k, l, k2, l2
  <1> SUFFICES ASSUME NEW i \in Intents
               PROVE  /\ SumOf(k2, OfIntent(i)) <= Plan[i].quantity
                      /\ SumOf(l2, OfIntent(i)) <= lost' * Plan[i].quantity
    BY DEF RiskOK, OfIntent, k2, l2
  <1>4. /\ IsFiniteSet(OfIntent(i)) /\ OfIntent(i) \subseteq Cloids
        /\ SumOf(k, OfIntent(i)) <= Plan[i].quantity
        /\ SumOf(l, OfIntent(i)) <= lost * Plan[i].quantity
        /\ Plan[i].quantity \in Nat
    BY <1>1, OfIntentFacts, PlanTypes DEF RiskOK, k, l
  <1>5. \A c \in OfIntent(i) : /\ k[c] \in Int /\ k2[c] \in Int
                               /\ l[c] \in Int /\ l2[c] \in Int
    BY <1>2, <1>3, <1>4
  <1>6. /\ SumOf(k, OfIntent(i)) \in Int /\ SumOf(k2, OfIntent(i)) \in Int
        /\ SumOf(l, OfIntent(i)) \in Int /\ SumOf(l2, OfIntent(i)) \in Int
    BY <1>4, <1>5, SumOfSubset
  <1>7. /\ lost \in Nat /\ lost' \in Nat /\ lost <= lost'
        /\ lost * Plan[i].quantity <= lost' * Plan[i].quantity
        /\ (lost + 1) * Plan[i].quantity
               = lost * Plan[i].quantity + Plan[i].quantity
        /\ lost * Plan[i].quantity \in Int
    BY <1>1, <1>4, LostGrows, MoreLost
  <1>8. lost' * Plan[i].quantity \in Int
    BY <1>4, <1>7
  <1>9. ASSUME \A c \in OfIntent(i) : k2[c] <= k[c]
        PROVE  SumOf(k2, OfIntent(i)) <= Plan[i].quantity
    <2>1. SumOf(k2, OfIntent(i)) <= SumOf(k, OfIntent(i))
      BY <1>4, <1>5, <1>9, SumMonotone
    <2> QED BY <1>4, <1>6, <2>1
  <1>10. ASSUME \A c \in OfIntent(i) : l2[c] <= l[c]
         PROVE  SumOf(l2, OfIntent(i)) <= lost' * Plan[i].quantity
    <2>1. SumOf(l2, OfIntent(i)) <= SumOf(l, OfIntent(i))
      BY <1>4, <1>5, <1>10, SumMonotone
    <2> QED BY <1>4, <1>6, <1>7, <1>8, <2>1
  <1>11. ASSUME NEW c \in Cloids,
                c # Cloid \/ ~(PlaceResting \/ PlaceFilled
                               \/ PlaceUnacknowledged),
                c # Cloid \/ ~((Fail \/ Interrupt \/ Crash) /\ Unrecorded)
         PROVE  k2[c] <= k[c] /\ l2[c] <= l[c]
    <2>1. RiskFn'[c] <= RiskFn[c]
      BY <1>1, <1>11, RiskFalls
    <2>2. Known(c)' <=> Known(c)
      <3>1. CASE (Fail \/ Interrupt \/ Crash) /\ Unrecorded
        <4>1. attempt' = attempt /\ pc' \notin FlightPcs /\ c # Cloid
          BY <1>11, <3>1 DEF Fail, Interrupt, Goto, Crash, Exit, FlightPcs, ledgerVars
        <4> QED BY <4>1 DEF Known, InFlight
      <3>2. CASE ~((Fail \/ Interrupt \/ Crash) /\ Unrecorded)
        BY <1>1, <1>11, <3>2, KnownStays
      <3> QED BY <3>1, <3>2
    <2> QED BY <1>2, <1>3, <2>1, <2>2
  <1>12. ASSUME NEW x \in Int, x <= Plan[i].quantity,
                Cloid \in OfIntent(i), l2[Cloid] - l[Cloid] <= x,
                \A c \in OfIntent(i) : c # Cloid => l2[c] <= l[c],
                lost' = lost + 1
         PROVE  SumOf(l2, OfIntent(i)) <= lost' * Plan[i].quantity
    <2> DEFINE m == [c \in Cloids |-> IF c = Cloid THEN l2[c] ELSE l[c]]
    <2>1. \A c \in OfIntent(i) : m[c] \in Int /\ l2[c] <= m[c]
                                 /\ (c # Cloid => m[c] = l[c])
      BY <1>4, <1>5, <1>12
    <2>2. m[Cloid] = l2[Cloid]
      BY <1>4, <1>12
    <2> HIDE DEF m
    <2>3. SumOf(l2, OfIntent(i)) <= SumOf(m, OfIntent(i))
      BY <1>4, <1>5, <2>1, SumMonotone
    <2>4. /\ SumOf(m, OfIntent(i)) = SumOf(l, OfIntent(i)) + m[Cloid] - l[Cloid]
          /\ SumOf(m, OfIntent(i)) \in Int
      BY <1>4, <1>5, <1>12, <2>1, SumChange
    <2>5. l2[Cloid] \in Int /\ l[Cloid] \in Int
      BY <1>5, <1>12
    <2>6. lost' * Plan[i].quantity = lost * Plan[i].quantity + Plan[i].quantity
      BY <1>7, <1>12
    <2> QED BY <1>4, <1>6, <1>7, <1>12, <2>2, <2>3, <2>4, <2>5, <2>6
  <1>13. CASE /\ Cloid \notin OfIntent(i) \/ ~(PlaceResting \/ PlaceFilled
                                               \/ PlaceUnacknowledged)
              /\ Cloid \notin OfIntent(i)
                 \/ ~((Fail \/ Interrupt \/ Crash) /\ Unrecorded)
    BY <1>4, <1>9, <1>10, <1>11, <1>13
  <1>14. CASE Cloid \in OfIntent(i) /\ (PlaceResting \/ PlaceFilled)
    <2>1. pc = "send" /\ ~(Fail \/ Interrupt \/ Crash) /\ i = cur /\ Cloid \in Cloids
      BY <1>1, <1>14, Placement
      DEF PlaceResting, PlaceFilled, Fail, Interrupt, Goto, Crash, Answer, Exit,
          OfIntent, Cloid
    <2>2. ~Known(Cloid) /\ SumOf(k, OfIntent(i)) + attempt[Cloid].quantity
                             = Plan[i].quantity
      BY <1>1, <2>1, KnownAtSend DEF k
    <2>3. \A c \in OfIntent(i) : c # Cloid => k2[c] <= k[c] /\ l2[c] <= l[c]
      BY <1>4, <1>11, <2>1
    <2>4. \A c \in Cloids : c = Cloid => Known(c)'
      BY <1>14 DEF PlaceResting, PlaceFilled, Answer, Known, InFlight,
          FlightPcs, Cloid
    <2>5. RiskFn'[Cloid] <= attempt[Cloid].quantity
          /\ attempt[Cloid].quantity \in Nat
      <3>1. order'[Cloid].quantity = attempt[Cloid].quantity
            /\ attempt[Cloid].quantity \in Nat
        BY <1>1, <1>14, Placement DEF TypeInv, TypeOK, ExchangeTypeOK
      <3> QED BY <1>3, <2>1, <3>1
    <2>6. k[Cloid] = 0 /\ k2[Cloid] <= attempt[Cloid].quantity
          /\ l2[Cloid] = 0 /\ l[Cloid] \in Nat
      BY <1>2, <1>3, <2>1, <2>2, <2>4, <2>5
    <2>7. SumOf(l2, OfIntent(i)) <= lost' * Plan[i].quantity
      BY <1>10, <2>3, <2>6
    <2> DEFINE m == [c \in Cloids |-> IF c = Cloid THEN k2[c] ELSE k[c]]
    <2>8. \A c \in OfIntent(i) : m[c] \in Int /\ k2[c] <= m[c]
                                 /\ (c # Cloid => m[c] = k[c])
      BY <1>4, <1>5, <2>3
    <2>9. m[Cloid] = k2[Cloid]
      BY <2>1
    <2> HIDE DEF m
    <2>10. SumOf(k2, OfIntent(i)) <= SumOf(m, OfIntent(i))
      BY <1>4, <1>5, <2>8, SumMonotone
    <2>11. /\ SumOf(m, OfIntent(i)) = SumOf(k, OfIntent(i)) + m[Cloid] - k[Cloid]
           /\ SumOf(m, OfIntent(i)) \in Int
      BY <1>4, <1>5, <1>14, <2>8, SumChange
    <2>12. k2[Cloid] \in Int
      BY <1>5, <1>14
    <2>13. SumOf(k2, OfIntent(i)) <= Plan[i].quantity
      BY <1>4, <1>6, <2>2, <2>5, <2>6, <2>9, <2>10, <2>11, <2>12
    <2> QED BY <2>7, <2>13
  <1>15. CASE Cloid \in OfIntent(i) /\ PlaceUnacknowledged
    <2>1. pc = "send" /\ i = cur /\ Cloid \in Cloids /\ ~Unrecorded
      BY <1>1, <1>15, Placement
      DEF PlaceUnacknowledged, OfIntent, Cloid, Unrecorded
    <2>2. /\ ~Known(Cloid)
          /\ SumOf(k, OfIntent(i)) + attempt[Cloid].quantity = Plan[i].quantity
      BY <1>1, <2>1, KnownAtSend DEF k
    <2>3. \A c \in OfIntent(i) : c # Cloid => k2[c] <= k[c] /\ l2[c] <= l[c]
      BY <1>4, <1>11, <2>1
    <2>4. \A c \in Cloids : c = Cloid => ~Known(c)'
      <3>1. attempt' = attempt /\ (pc' = "except" \/ response' = "rejected")
        BY <1>15 DEF PlaceUnacknowledged, Answer, ledgerVars
      <3> QED BY <2>2, <3>1 DEF Known, InFlight, FlightPcs
    <2>5. RiskFn'[Cloid] <= attempt[Cloid].quantity
          /\ attempt[Cloid].quantity \in Nat
      <3>1. order'[Cloid].quantity = attempt[Cloid].quantity
            /\ attempt[Cloid].quantity \in Nat
        BY <1>1, <1>15, Placement DEF TypeInv, TypeOK, ExchangeTypeOK
      <3> QED BY <1>3, <2>1, <3>1
    <2>6. k[Cloid] = 0 /\ k2[Cloid] = 0 /\ l[Cloid] \in Nat
          /\ l2[Cloid] \in Nat /\ l2[Cloid] <= attempt[Cloid].quantity
      BY <1>2, <1>3, <2>1, <2>2, <2>4, <2>5
    <2>7. SumOf(k2, OfIntent(i)) <= Plan[i].quantity
      BY <1>9, <2>3, <2>6
    <2>8. 0 <= SumOf(k, OfIntent(i))
      <3> DEFINE z == [c \in Cloids |-> 0]
      <3>1. \A c \in OfIntent(i) : z[c] = 0
        BY <1>4
      <3>2. \A c \in OfIntent(i) : z[c] \in Int /\ z[c] <= k[c]
        BY <1>2, <1>4
      <3> HIDE DEF z
      <3>3. SumOf(z, OfIntent(i)) <= SumOf(k, OfIntent(i))
        BY <1>4, <1>5, <3>2, SumMonotone
      <3>4. SumOf(z, OfIntent(i)) = 0
        BY <1>4, <3>1, SumZero
      <3> QED BY <3>3, <3>4
    <2>9. attempt[Cloid].quantity <= Plan[i].quantity
      BY <1>4, <1>6, <2>2, <2>5, <2>8
    <2>10. lost' = lost + 1
      BY <1>1, <1>15, LostGrows
    <2>11. attempt[Cloid].quantity \in Int
           /\ l2[Cloid] - l[Cloid] <= attempt[Cloid].quantity
      BY <2>5, <2>6
    <2>12. SumOf(l2, OfIntent(i)) <= lost' * Plan[i].quantity
      BY <1>12, <1>15, <2>3, <2>9, <2>10, <2>11
    <2> QED BY <2>7, <2>12
  <1>16. CASE Cloid \in OfIntent(i) /\ (Fail \/ Interrupt \/ Crash) /\ Unrecorded
    <2>1. /\ pc \in FlightPcs /\ Cloid \in Cloids /\ Known(Cloid)
          /\ pc # "send" /\ order' = order /\ attempt' = attempt
          /\ ~(PlaceResting \/ PlaceFilled \/ PlaceUnacknowledged)
      BY <1>4, <1>16 DEF Fail, Interrupt, Goto, Crash, Unrecorded, FlightPcs, Known, InFlight,
          ledgerVars, exchangeVars, PlaceResting, PlaceFilled,
          PlaceUnacknowledged
    <2>2. /\ attempt[Cloid].status \in Prepared
          /\ RowsOK /\ PreparedOK
      BY <1>1, <2>1 DEF FillInv, EndInv, SerialInv, PhaseOK
    <2>3. \A c \in OfIntent(i) : c # Cloid => k2[c] <= k[c] /\ l2[c] <= l[c]
      BY <1>4, <1>11, <2>1
    <2>4. \A c \in Cloids : c = Cloid => ~Known(c)'
      BY <1>16, <2>1, <2>2
      DEF Fail, Interrupt, Goto, Crash, Exit, Known, InFlight, FlightPcs, Prepared, WithOid
    <2>5. RiskFn'[Cloid] <= attempt[Cloid].quantity
      <3>1. RiskFn'[Cloid] <= RiskFn[Cloid]
        BY <1>1, <2>1, RiskFalls
      <3>2. RiskFn[Cloid] <= attempt[Cloid].quantity
        <4>1. CASE Placed(Cloid)
          BY <1>2, <2>1, <2>2, <4>1 DEF RowsOK
        <4>2. CASE ~Placed(Cloid)
          <5>1. RiskFn[Cloid] = 0
            BY <1>1, <2>1, <2>2, <4>2, RiskTypes DEF RowsOK, Open, Placed
          <5> QED BY <1>1, <2>1, <5>1, RowTypes DEF TypeInv
        <4> QED BY <4>1, <4>2
      <3>3. attempt[Cloid].quantity \in Nat
        BY <1>1, <2>1, RowTypes DEF TypeInv
      <3> QED BY <1>2, <1>3, <2>1, <3>1, <3>2, <3>3
    <2>6. /\ k2[Cloid] = 0 /\ k[Cloid] \in Nat /\ l[Cloid] = 0
          /\ l2[Cloid] = RiskFn'[Cloid] /\ RiskFn'[Cloid] \in Nat
      BY <1>2, <1>3, <2>1, <2>4
    <2>7. SumOf(k2, OfIntent(i)) <= Plan[i].quantity
      BY <1>9, <2>3, <2>6
    <2>8. attempt[Cloid].quantity + ledgerQty[i] = Plan[i].quantity
          /\ ledgerQty[i] \in Nat /\ attempt[Cloid].quantity \in Nat
      <3>1. Cloid[1] = i
        BY <1>16 DEF OfIntent
      <3> QED
        BY <1>1, <2>1, <2>2, <3>1, RowTypes
        DEF PreparedOK, TypeInv, TypeOK, LedgerTypeOK
    <2>9. attempt[Cloid].quantity <= Plan[i].quantity
      BY <2>8
    <2>10. lost' = lost + 1
      BY <1>1, <1>16, LostGrows
    <2>11. attempt[Cloid].quantity \in Int
           /\ l2[Cloid] - l[Cloid] <= attempt[Cloid].quantity
      BY <2>5, <2>6, <2>8
    <2>12. SumOf(l2, OfIntent(i)) <= lost' * Plan[i].quantity
      BY <1>12, <1>16, <2>3, <2>9, <2>10, <2>11
    <2> QED BY <2>7, <2>12
  <1> QED BY <1>13, <1>14, <1>15, <1>16

LEMMA RiskInit == Init => RiskInv
  <1> SUFFICES ASSUME Init PROVE RiskInv
    OBVIOUS
  <1>1. FillInv
    BY FillInit
  <1>2. ASSUME NEW i \in Intents
        PROVE  /\ SumOf(KnownRiskFn, OfIntent(i)) = 0
               /\ SumOf(LostRiskFn, OfIntent(i)) = 0
    <2>1. IsFiniteSet(OfIntent(i)) /\ OfIntent(i) \subseteq Cloids
      BY OfIntentFacts
    <2>2. \A c \in OfIntent(i) : KnownRiskFn[c] = 0 /\ LostRiskFn[c] = 0
      BY <2>1 DEF Init, KnownRiskFn, LostRiskFn, RiskFn, NoOrder, Open
    <2> QED BY <2>1, <2>2, SumZero
  <1>3. \A i \in Intents : Plan[i].quantity \in Nat
    BY PlanTypes
  <1>4. \A i \in Intents : 0 <= lost * Plan[i].quantity
    BY <1>3 DEF Init
  <1> QED BY <1>1, <1>2, <1>3, <1>4 DEF RiskInv, RiskOK

LEMMA RiskInvAlways == Spec => []RiskInv
  <1>1. RiskInv /\ [Next]_vars => RiskInv'
    BY FillStep, RiskStep DEF RiskInv
  <1> QED BY RiskInit, <1>1, PTL DEF Spec

(* What can trade of an intent is the two sums together.                    *)
LEMMA RiskSplits ==
    ASSUME RiskInv, NEW i \in Intents
    PROVE  /\ AtRisk(i) = SumOf(KnownRiskFn, OfIntent(i))
                          + SumOf(LostRiskFn, OfIntent(i))
           /\ SumOf(KnownRiskFn, OfIntent(i)) \in Int
           /\ SumOf(LostRiskFn, OfIntent(i)) \in Int
  <1>1. FillInv /\ TypeOK
    BY DEF RiskInv, FillInv, ClaimInv, TypeInv
  <1>2. IsFiniteSet(OfIntent(i)) /\ OfIntent(i) \subseteq Cloids
    BY OfIntentFacts
  <1>3. \A c \in OfIntent(i) :
            /\ KnownRiskFn[c] \in Int /\ LostRiskFn[c] \in Int
            /\ RiskFn[c] = KnownRiskFn[c] + LostRiskFn[c]
    BY <1>1, <1>2, RiskTypes
  <1>4. SumOf(RiskFn, OfIntent(i)) = SumOf(KnownRiskFn, OfIntent(i))
                                     + SumOf(LostRiskFn, OfIntent(i))
    BY <1>2, <1>3, SumAdd
  <1> QED BY <1>1, <1>2, <1>3, <1>4, RiskIsSum, SumOfSubset

(* An acceptance that was never recorded costs at most the quantity once.   *)
THEOREM OverfillBounded == Spec => []OverfillBoundedByLost
  <1>1. RiskInv => OverfillBoundedByLost
    <2> SUFFICES ASSUME RiskInv, NEW i \in Intents
                 PROVE  AtRisk(i) <= (1 + lost) * Plan[i].quantity
      BY DEF OverfillBoundedByLost
    <2>1. lost \in Nat /\ Plan[i].quantity \in Nat
      BY PlanTypes, ConstantFacts
      DEF RiskInv, FillInv, ClaimInv, TypeInv, TypeOK, BoundTypeOK
    <2>2. (1 + lost) * Plan[i].quantity
            = Plan[i].quantity + lost * Plan[i].quantity
      <3>1. /\ (lost + 1) * Plan[i].quantity
                  = lost * Plan[i].quantity + Plan[i].quantity
            /\ lost * Plan[i].quantity \in Int
        BY <2>1, MoreLost
      <3>2. 1 + lost = lost + 1
        BY <2>1
      <3> QED BY <2>1, <3>1, <3>2
    <2> QED BY <2>1, <2>2, RiskSplits DEF RiskInv, RiskOK
  <1> QED BY RiskInvAlways, <1>1, PTL

(* No crash, resume, reprice or feed lag over-trades an intent.             *)
THEOREM NothingOverfills == Spec => []NoOverfill
  <1>1. OverfillBoundedByLost => NoOverfill
    <2> SUFFICES ASSUME OverfillBoundedByLost, lost = 0, NEW i \in Intents
                 PROVE  AtRisk(i) <= Plan[i].quantity
      BY DEF NoOverfill, Acknowledged
    <2>1. Plan[i].quantity \in Nat
      BY PlanTypes
    <2> QED BY <2>1 DEF OverfillBoundedByLost
  <1> QED BY OverfillBounded, <1>1, PTL

-----------------------------------------------------------------------------
(* The order of the intents                                                 *)

SendPcs == {"check", "send"} \cup FlightPcs
Tiny(c) == attempt[c].quantity <= attempt[c].dust /\ ~ExactClose(c[1])

(* Why an intent may be called filled or dust, and stays so.                *)
DoneWell(i) ==
    \/ ledgerQty[i] >= Plan[i].quantity
    \/ \E c \in OfIntent(i) : attempt[c].status \in Prepared /\ Tiny(c)
    \/ ~ExactClose(i) /\ \A c \in OfIntent(i) : attempt[c].status \in Sent

(* Dust is not sent.                                                        *)
VerdictOK == \A c \in Cloids : c = Cloid /\ pc \in SendPcs => ~Tiny(c)

(* What the process holds of the intent at hand is as good as the ledger,   *)
(* and it does not send for one that is done.                               *)
KeptOK ==
    \A i \in Intents : i = cur =>
        /\ pc \in WorkPcs /\ finalStatus \in Done => DoneWell(i)
        /\ pc \in WorkPcs /\ intentStatus[i] \in Done => finalStatus \in Done
        /\ pc \in SendPcs \cup {"refuse"} => intentStatus[i] \notin Done
        /\ pc = "settle" /\ finalStatus \notin Done => no = MaxAttempts

(* Whoever is done is so for good, and those before an order are done.      *)
OrderedOK ==
    /\ \A i \in Intents : intentStatus[i] \in Done => DoneWell(i)
    /\ \A c \in Cloids, i \in Intents :
           Placed(c) /\ i < c[1] => intentStatus[i] \in Done

DoneInv == RiskInv /\ VerdictOK /\ KeptOK /\ OrderedOK

LEMMA BooksGrow ==
    ASSUME FillInv, [Next]_vars, NEW i \in Intents
    PROVE  ledgerQty[i] \in Nat /\ ledgerQty'[i] \in Int
           /\ ledgerQty[i] <= ledgerQty'[i]
  <1>1. ledgerQty \in [Intents -> Nat] /\ TypeOK
    BY DEF FillInv, ClaimInv, TypeInv, TypeOK, LedgerTypeOK
  <1>2. CASE UNCHANGED ledgerQty
    BY <1>1, <1>2
  <1>3. CASE ~UNCHANGED ledgerQty
    <2>1. PICK a \in Cloids :
              /\ cur \in Intents /\ attempt[a].booked < order[a].feed
              /\ ledgerQty' = [ledgerQty EXCEPT
                       ![cur] = @ + (order[a].feed - attempt[a].booked)]
      BY <1>3, BooksAlike
    <2>2. attempt[a].booked \in Nat /\ order[a].feed \in Nat
      BY <1>1, RowTypes
    <2> QED BY <1>1, <2>1, <2>2
  <1> QED BY <1>2, <1>3

(* A prepared attempt that is dust is never sent.                           *)
LEMMA TinyStays ==
    ASSUME FillInv, VerdictOK, [Next]_vars, NEW c \in Cloids,
           attempt[c].status \in Prepared, Tiny(c)
    PROVE  attempt'[c].status \in Prepared /\ Tiny(c)'
  <1>1. attempt \in [Cloids -> AttemptRecord] /\ Prepared \cap Sent = {}
    BY DEF FillInv, ClaimInv, TypeInv, TypeOK, LedgerTypeOK, Prepared, Sent,
        WithOid
  <1>2. CASE Prepare
    <2>1. c # Cloid
      BY <1>2, NewAttempt DEF FillInv, ClaimInv, Prepared
    <2> QED BY <1>2, <2>1, OthersStay DEF Tiny, ExactClose
  <1>3. CASE ~Prepare
    <2>1. Tiny(c)'
      BY <1>3, Statuses DEF Tiny, ExactClose
    <2>2. CASE RecordResting \/ RecordFilled \/ RecordRefused
      <3>1. c # Cloid
        BY <2>2 DEF VerdictOK, SendPcs, FlightPcs, RecordResting, RecordFilled,
            RecordRefused
      <3> QED BY <1>3, <2>1, <3>1, Statuses
    <2>3. CASE Resolve
      <3>1. c # Cloid
        BY <2>3 DEF FillInv, EndInv, QueriedOK, Resolve, StatusPcs, Prepared,
            WithOid
      <3> QED BY <1>3, <2>1, <3>1, Statuses
    <2>4. CASE TakePrepared
      <3>1. Cloid \in Cloids
        BY <2>4, NewStatus
      <3> QED
        BY <1>1, <2>1, <2>4, <3>1 DEF TakePrepared, Abandon, Reuse,
            PreparedFound, SetAttempt, AttemptRecord, Prepared
    <2>5. CASE BookFills
      BY <1>1, <2>1, <2>5 DEF BookFills, AttemptRecord
    <2>6. CASE UNCHANGED attempt
      BY <2>1, <2>6
    <2>7. CASE \/ PlaceResting \/ PlaceFilled \/ PlaceUnacknowledged
               \/ \E d \in Cloids : OrderFills(d) \/ OrderCanceled(d)
                                    \/ FeedCatchesUp(d)
               \/ DeadmanFires
      BY <2>6, <2>7 DEF PlaceResting, PlaceFilled, PlaceUnacknowledged,
          OrderFills, OrderCanceled, FeedCatchesUp, DeadmanFires, ledgerVars
    <2> QED BY <1>3, <2>2, <2>3, <2>4, <2>5, <2>6, <2>7, Touches
  <1> QED BY <1>2, <1>3

LEMMA DoneWellStays ==
    ASSUME FillInv, VerdictOK, [Next]_vars, NEW i \in Intents, DoneWell(i)
    PROVE  DoneWell(i)'
  <1>1. OfIntent(i) \subseteq Cloids /\ Plan[i].quantity \in Nat
    BY OfIntentFacts, PlanTypes
  <1>2. CASE ledgerQty[i] >= Plan[i].quantity
    <2>1. ledgerQty'[i] >= Plan[i].quantity
      BY <1>1, <1>2, BooksGrow
    <2> QED BY <2>1 DEF DoneWell
  <1>3. CASE \E c \in OfIntent(i) : attempt[c].status \in Prepared /\ Tiny(c)
    <2>1. PICK c \in OfIntent(i) : attempt[c].status \in Prepared /\ Tiny(c)
      BY <1>3
    <2>2. attempt'[c].status \in Prepared /\ Tiny(c)'
      BY <1>1, <2>1, TinyStays
    <2> QED BY <2>1, <2>2 DEF DoneWell, OfIntent
  <1>4. CASE /\ ~ExactClose(i)
             /\ \A c \in OfIntent(i) : attempt[c].status \in Sent
    <2>1. \A c \in OfIntent(i) : attempt'[c].status \in Sent
      BY <1>1, <1>4, SentStays
    <2> QED BY <1>4, <2>1 DEF DoneWell, ExactClose, OfIntent
  <1> QED BY <1>2, <1>3, <1>4 DEF DoneWell

(* Steps within an intent that leave what is held of it as it is.           *)
QuietMove ==
    /\ UNCHANGED <<cur, finalStatus>>
    /\ pc' \in WorkPcs => pc \in WorkPcs
    /\ pc' \in SendPcs \cup {"refuse"} => pc \in SendPcs \cup {"refuse"}
    /\ pc' \in SendPcs => pc \in SendPcs
    /\ pc' \in SendPcs => no' = no
    /\ pc' = "settle" => no' = no /\ (pc = "settle" \/ no = MaxAttempts)
    /\ UNCHANGED intentStatus \/ MarkIntent

Verdicts == SyncDone \/ AlreadyFilled \/ TakePrepared \/ Prepare

(* What starts, ends or breaks off the work.                                *)
Leaves == pc' \notin WorkPcs

LEMMA WorkCases ==
    ASSUME TypeInv, [Next]_vars
    PROVE  QuietMove \/ Verdicts \/ Leaves \/ StartSession \/ Settle
  <1> USE DEF WorkPcs, TryPcs, SendPcs, FlightPcs, Goto, ledgerVars,
      exchangeVars, intentVars, processVars, boundVars
  <1>1. CASE \/ ReconcileSkip \/ ReconcileQuery \/ ReconcileDone
             \/ QueryOpen \/ CancelAccepted \/ Resolve \/ BookFills
    <2>1. QuietMove
      BY <1>1 DEF ReconcileSkip, ReconcileQuery, ReconcileDone, QueryOpen,
          CancelAccepted, Resolve, BookFills, NextAttemptNo, QuietMove
    <2> QED BY <2>1
  <1>2. CASE \/ Exhausted \/ SkipTransmitted \/ DriftCheck
             \/ PlaceResting \/ PlaceFilled \/ PlaceRefused
             \/ PlaceUnacknowledged
    <2>1. QuietMove
      BY <1>2 DEF Exhausted, SkipTransmitted, InLoop, NextAttemptNo, DriftCheck,
          PlaceResting, PlaceFilled, PlaceRefused, PlaceUnacknowledged, Answer,
          QuietMove
    <2> QED BY <2>1
  <1>3. CASE \/ MarkRun \/ MarkIntent
             \/ RecordResting \/ RecordFilled \/ RecordRefused
    <2>1. QuietMove
      BY <1>3 DEF MarkRun, MarkIntent, RecordResting, RecordFilled,
          RecordRefused, NextAttemptNo, QuietMove
    <2> QED BY <2>1
  <1>4. CASE ExchangeStep \/ UNCHANGED vars
    <2>1. QuietMove
      BY <1>4 DEF ExchangeStep, OrderFills, OrderCanceled, FeedCatchesUp,
          DeadmanFires, ManualTrade, vars, QuietMove
    <2> QED BY <2>1
  <1>5. CASE \/ StartFresh \/ StartResume \/ SnapshotOk \/ SnapshotFails
             \/ ArmOk \/ ArmWaived \/ ArmFails
             \/ Postcheck \/ MarkRebalanced \/ Attention \/ Disarm
             \/ DisarmFails \/ Fail \/ Interrupt \/ Crash \/ Refuse
    <2>1. Leaves
      BY <1>5 DEF StartFresh, StartResume, Enter, SnapshotOk, SnapshotFails,
          ArmOk, ArmWaived, ArmFails, Exit, Postcheck, MarkRebalanced,
          Attention, Disarm, DisarmFails, Fail, Interrupt, Crash, Refuse, Leaves
    <2> QED BY <2>1
  <1> QED
    BY <1>1, <1>2, <1>3, <1>4, <1>5 DEF Next, ProcessStep, Verdicts

(* A verdict on the attempt at hand: it is sent only if the intent is not   *)
(* done, and what is given as the reason not to is one that lasts.          *)
Judged ==
    /\ pc' \in WorkPcs \ {"refuse"}
    /\ pc' = "settle" => finalStatus' \in Done
    /\ UNCHANGED <<cur, intentStatus>>
    /\ pc' \in SendPcs => /\ no' = no /\ UNCHANGED finalStatus
                          /\ intentStatus[cur] \notin Done
                          /\ \A c \in Cloids : c = Cloid => ~Tiny(c)'
    /\ finalStatus' # finalStatus =>
           /\ finalStatus' \in Done
           /\ \A i \in Intents : i = cur => DoneWell(i)'

LEMMA NothingLacks ==
    ASSUME TypeInv, cur \in Intents, Remaining = 0
    PROVE  ledgerQty[cur] >= Plan[cur].quantity
  BY PlanTypes DEF TypeInv, TypeOK, LedgerTypeOK, Remaining

(* An intent that lacks lots, and has an attempt left that is not dust, is  *)
(* not done.                                                                *)
LEMMA Undone ==
    ASSUME DoneInv, pc = "attempt", Cloid \in OfIntent(cur), cur \in Intents,
           no \in AttemptNos, Remaining # 0, attempt[Cloid].status \notin Sent,
           attempt[Cloid].status \in Prepared => ~Tiny(Cloid)
    PROVE  intentStatus[cur] \notin Done
  <1> SUFFICES ASSUME DoneWell(cur) PROVE FALSE
    BY DEF DoneInv, OrderedOK
  <1>1. FillInv /\ TypeInv /\ LoopOK /\ PrefixOK
    BY DEF DoneInv, RiskInv, FillInv, ClaimInv
  <1>2. CASE ledgerQty[cur] >= Plan[cur].quantity
    <2>1. ledgerQty[cur] \in Nat /\ Plan[cur].quantity \in Nat
      BY <1>1, PlanTypes DEF TypeInv, TypeOK, LedgerTypeOK
    <2> QED BY <1>2, <2>1 DEF Remaining
  <1>3. CASE \E c \in OfIntent(cur) : attempt[c].status \in Prepared /\ Tiny(c)
    <2>1. PICK c \in OfIntent(cur) : attempt[c].status \in Prepared /\ Tiny(c)
      BY <1>3
    <2>2. PICK n \in AttemptNos : c = <<cur, n>>
      BY <2>1 DEF OfIntent, Cloids
    <2>3. n # no /\ no \in Int /\ n \in Int
      BY <2>1, <2>2 DEF Cloid, AttemptNos
    <2>4. Prepared \cap Sent = {} /\ "absent" \notin Prepared
      BY DEF Prepared, Sent, WithOid
    <2>5. ~(n < no)
      BY <1>1, <2>1, <2>2, <2>4 DEF LoopOK, Live, LoopPcs
    <2>6. ~(no < n)
      BY <1>1, <2>1, <2>2, <2>4 DEF PrefixOK, Cloid
    <2> QED BY <2>3, <2>5, <2>6
  <1>4. CASE \A c \in OfIntent(cur) : attempt[c].status \in Sent
    BY <1>4
  <1> QED BY <1>2, <1>3, <1>4 DEF DoneWell

LEMMA VerdictStep ==
    ASSUME DoneInv, [Next]_vars, Verdicts
    PROVE  Judged /\ pc \in WorkPcs /\ cur \in Intents
  <1>1. FillInv /\ TypeInv
        /\ attempt \in [Cloids -> AttemptRecord]
    BY DEF DoneInv, RiskInv, FillInv, ClaimInv, TypeInv, TypeOK, LedgerTypeOK
  <1>2. pc \in {"sync", "attempt"} /\ pc \in WorkPcs
    BY DEF Verdicts, SyncDone, AlreadyFilled, TakePrepared, Abandon, Reuse,
        PreparedFound, Prepare, InLoop, WorkPcs, TryPcs
  <1>3. cur \in Intents
    BY <1>1, <1>2 DEF TypeInv, CursorOK
  <1>4. ASSUME Remaining = 0, UNCHANGED ledgerQty
        PROVE  \A i \in Intents : i = cur => DoneWell(i)'
    <2>1. ledgerQty[cur] >= Plan[cur].quantity
      BY <1>1, <1>3, <1>4, NothingLacks
    <2> QED BY <1>4, <2>1 DEF DoneWell
  <1>5. CASE SyncDone
    <2>1. UNCHANGED <<ledgerQty, cur, intentStatus>> /\ pc' \in {"attempt", "settle"}
          /\ \/ UNCHANGED finalStatus /\ pc' = "attempt"
             \/ Remaining = 0 /\ finalStatus' = "filled"
      BY <1>5 DEF SyncDone, ledgerVars
    <2> QED
      BY <1>2, <1>3, <1>4, <2>1
      DEF Judged, WorkPcs, TryPcs, SendPcs, FlightPcs, Done
  <1>6. CASE AlreadyFilled
    <2>1. UNCHANGED <<ledgerQty, cur, intentStatus>> /\ pc' = "settle"
          /\ Remaining = 0 /\ finalStatus' = "filled"
      BY <1>6 DEF AlreadyFilled, Continue, ledgerVars
    <2> QED
      BY <1>2, <1>3, <1>4, <2>1
      DEF Judged, WorkPcs, TryPcs, SendPcs, FlightPcs, Done
  <1>7. ASSUME TakePrepared \/ Prepare
        PROVE  /\ Cloid \in OfIntent(cur) /\ Cloid \in Cloids
               /\ no \in AttemptNos /\ pc = "attempt" /\ Remaining # 0
               /\ attempt[Cloid].status \notin Sent
    <2>1. pc = "attempt" /\ no < MaxAttempts /\ Remaining # 0
          /\ attempt[Cloid].status \notin Sent
      BY <1>7 DEF TakePrepared, Abandon, Reuse, PreparedFound, Prepare, InLoop,
          Prepared, Sent, WithOid
    <2> QED BY <1>1, <2>1, AtHand
  <1>8. CASE TakePrepared
    <2>1. PreparedFound /\ Reuse
      <3>1. PreparedFound /\ attempt[Cloid].status \in Prepared
        BY <1>8 DEF TakePrepared, PreparedFound
      <3> QED BY <1>1, <1>7, <1>8, <3>1, SizeStands DEF TakePrepared
    <2>2. attempt[Cloid].quantity = Remaining
      BY <1>1, <1>7, <1>8, <2>1, SizeStands DEF PreparedFound
    <2>3. Cloid[1] = cur
      BY DEF Cloid
    <2>4. CASE SizeVerdict(attempt[Cloid].dust) = "dust"
      <3>1. /\ finalStatus' = "dust" /\ pc' = "settle" /\ SetAttempt("dust")
            /\ UNCHANGED <<cur, intentStatus>>
        BY <2>1, <2>4 DEF Reuse, Continue
      <3>2. attempt[Cloid].quantity <= attempt[Cloid].dust /\ ~ExactClose(cur)
        BY <2>2, <2>4 DEF SizeVerdict
      <3>3. /\ attempt'[Cloid].status = "dust"
            /\ attempt'[Cloid].quantity = attempt[Cloid].quantity
            /\ attempt'[Cloid].dust = attempt[Cloid].dust
        BY <1>1, <1>7, <1>8, <3>1 DEF SetAttempt, AttemptRecord
      <3>4. \A i \in Intents : i = cur => DoneWell(i)'
        <4> SUFFICES ASSUME NEW i \in Intents, i = cur PROVE DoneWell(i)'
          OBVIOUS
        <4>1. PICK c \in OfIntent(i) : c = Cloid
          BY <1>7, <1>8
        <4>2. attempt'[c].status \in Prepared /\ Tiny(c)'
          BY <2>3, <3>2, <3>3, <4>1 DEF Tiny, Prepared, ExactClose
        <4> QED BY <4>1, <4>2 DEF DoneWell, OfIntent
      <3> QED
        BY <1>2, <1>3, <3>1, <3>4
        DEF Judged, WorkPcs, TryPcs, SendPcs, FlightPcs, Done
    <2>5. CASE SizeVerdict(attempt[Cloid].dust) # "dust"
      <3>1. /\ UNCHANGED <<attempt, cur, intentStatus, finalStatus, no>>
            /\ pc' = "check"
        BY <2>1, <2>5 DEF Reuse, Continue, SizeVerdict
      <3>2. ~Tiny(Cloid)
        BY <2>2, <2>3, <2>5 DEF SizeVerdict, Tiny
      <3>3. intentStatus[cur] \notin Done
        BY <1>3, <1>7, <1>8, <3>2, Undone
      <3>4. \A c \in Cloids : c = Cloid => ~Tiny(c)'
        BY <3>1, <3>2 DEF Tiny, ExactClose
      <3> QED
        BY <1>2, <1>3, <3>1, <3>3, <3>4
        DEF Judged, WorkPcs, TryPcs, SendPcs, FlightPcs
    <2> QED BY <2>4, <2>5
  <1>9. CASE Prepare
    <2>1. PICK dust \in DustLots :
            /\ attempt' = [attempt EXCEPT ![Cloid] =
                            [status |-> "prepared", quantity |-> Remaining,
                             dust |-> dust, booked |-> 0]]
            /\ Continue(SizeVerdict(dust))
      BY <1>9 DEF Prepare
    <2>2. attempt[Cloid].status = "absent" /\ UNCHANGED intentStatus
      BY <1>9 DEF Prepare
    <2>3. /\ attempt'[Cloid].status = "prepared"
          /\ attempt'[Cloid].quantity = Remaining
          /\ attempt'[Cloid].dust = dust /\ Cloid[1] = cur
      BY <1>1, <1>7, <1>9, <2>1 DEF Cloid
    <2>4. CASE SizeVerdict(dust) = "dust"
      <3>1. finalStatus' = "dust" /\ pc' = "settle" /\ UNCHANGED cur
        BY <2>1, <2>4 DEF Continue
      <3>2. \A i \in Intents : i = cur => DoneWell(i)'
        <4> SUFFICES ASSUME NEW i \in Intents, i = cur PROVE DoneWell(i)'
          OBVIOUS
        <4>1. PICK c \in OfIntent(i) : c = Cloid
          BY <1>7, <1>9
        <4>2. attempt'[c].status \in Prepared /\ Tiny(c)'
          BY <2>3, <2>4, <4>1 DEF Tiny, Prepared, ExactClose, SizeVerdict
        <4> QED BY <4>1, <4>2 DEF DoneWell, OfIntent
      <3> QED
        BY <1>2, <1>3, <2>2, <3>1, <3>2
        DEF Judged, WorkPcs, TryPcs, SendPcs, FlightPcs, Done
    <2>5. CASE SizeVerdict(dust) # "dust"
      <3>1. UNCHANGED <<cur, finalStatus, no>> /\ pc' = "check"
        BY <2>1, <2>5 DEF Continue, SizeVerdict
      <3>2. intentStatus[cur] \notin Done
        BY <1>3, <1>7, <1>9, <2>2, Undone DEF Prepared
      <3>3. \A c \in Cloids : c = Cloid => ~Tiny(c)'
        BY <2>3, <2>5 DEF Tiny, ExactClose, SizeVerdict
      <3> QED
        BY <1>2, <1>3, <2>2, <3>1, <3>2, <3>3
        DEF Judged, WorkPcs, TryPcs, SendPcs, FlightPcs
    <2> QED BY <2>4, <2>5
  <1> QED BY <1>5, <1>6, <1>8, <1>9 DEF Verdicts

LEMMA StatusMoves ==
    ASSUME [Next]_vars
    PROVE  UNCHANGED intentStatus \/ MarkIntent \/ Refuse \/ Settle
  BY DEF Next, ProcessStep, ExchangeStep, StartFresh, StartResume, Enter,
      SnapshotOk, SnapshotFails, ArmOk, ArmWaived, ArmFails, StartSession,
      ReconcileSkip, ReconcileQuery, ReconcileDone, QueryOpen, CancelAccepted,
      Resolve, BookFills, SyncDone, Exhausted, SkipTransmitted, AlreadyFilled,
      TakePrepared, Abandon, Reuse, Prepare, DriftCheck, PlaceResting,
      PlaceFilled, PlaceRefused, PlaceUnacknowledged, MarkRun, RecordResting,
      RecordFilled, RecordRefused, Postcheck, MarkRebalanced, Attention, Disarm,
      DisarmFails, Fail, Interrupt, Crash, OrderFills, OrderCanceled, FeedCatchesUp,
      DeadmanFires, ManualTrade, vars, ledgerVars

(* Settle calls an intent done for a reason that lasts.                     *)
LEMMA SettledWell ==
    ASSUME DoneInv, Settle, FinalOf \in Done
    PROVE  DoneWell(cur)
  <1>1. FillInv /\ TypeInv /\ LoopOK /\ pc = "settle" /\ pc \in WorkPcs
    BY DEF DoneInv, RiskInv, FillInv, ClaimInv, Settle, WorkPcs, TryPcs
  <1>2. cur \in Intents
    BY <1>1 DEF TypeInv, CursorOK
  <1>3. CASE finalStatus \in Done
    BY <1>1, <1>2, <1>3 DEF DoneInv, KeptOK
  <1>4. CASE finalStatus \notin Done /\ Remaining = 0
    BY <1>1, <1>2, <1>4, NothingLacks DEF DoneWell
  <1>5. CASE finalStatus \notin Done /\ Remaining # 0
    <2>1. ~ExactClose(cur)
      BY <1>5 DEF FinalOf, Done
    <2>2. no = MaxAttempts
      BY <1>1, <1>2, <1>5 DEF DoneInv, KeptOK
    <2>3. \A m \in AttemptNos : m < no
      BY <2>2, ConstantFacts DEF AttemptNos, MaxAttempts
    <2>4. \A c \in OfIntent(cur) : attempt[c].status \in Sent
      <3> TAKE c \in OfIntent(cur)
      <3>1. PICK m \in AttemptNos : c = <<cur, m>>
        BY DEF OfIntent, Cloids
      <3> QED BY <1>1, <2>3, <3>1 DEF LoopOK, Live, LoopPcs
    <2> QED BY <2>1, <2>4 DEF DoneWell
  <1> QED BY <1>3, <1>4, <1>5

(* Only the process places orders, one CLOID at a time.                     *)
LEMMA NewlyPlaced ==
    ASSUME FillInv, [Next]_vars, NEW c \in Cloids, ~Placed(c), Placed(c)'
    PROVE  /\ pc = "send" /\ c = Cloid
           /\ PlaceResting \/ PlaceFilled \/ PlaceUnacknowledged
  <1>1. order \in [Cloids -> OrderRecord]
    BY DEF FillInv, ClaimInv, TypeInv, TypeOK, ExchangeTypeOK
  <1> USE DEF Placed
  <1>2. CASE PlaceResting \/ PlaceFilled \/ PlaceUnacknowledged
    <2>1. \A d \in Cloids : d # Cloid => order'[d] = order[d]
      BY <1>1, <1>2, Placement
    <2> QED
      BY <1>2, <2>1 DEF PlaceResting, PlaceFilled, PlaceUnacknowledged
  <1>3. CASE \E d \in Cloids : OrderFills(d) \/ OrderCanceled(d)
                               \/ FeedCatchesUp(d)
    <2>1. PICK d \in Cloids : OrderFills(d) \/ OrderCanceled(d)
                              \/ FeedCatchesUp(d)
      BY <1>3
    <2>2. CASE OrderFills(d) \/ OrderCanceled(d)
      BY <1>1, <2>2 DEF OrderFills, OrderCanceled
    <2>3. CASE FeedCatchesUp(d)
      BY <1>1, <2>3 DEF FeedCatchesUp, OrderRecord
    <2> QED BY <2>1, <2>2, <2>3
  <1>4. CASE DeadmanFires
    BY <1>1, <1>4 DEF DeadmanFires
  <1>5. CASE UNCHANGED order
    BY <1>5
  <1>6. CASE BookFills \/ Prepare
    BY <1>5, <1>6 DEF BookFills, Prepare, exchangeVars
  <1> QED BY <1>2, <1>3, <1>4, <1>5, <1>6, Touches, NewStatus

LEMMA OrderedStep ==
    ASSUME DoneInv, FillInv', [Next]_vars
    PROVE  OrderedOK'
  <1>1. FillInv /\ TypeInv /\ VerdictOK /\ KeptOK /\ OrderedOK /\ DoneOK
        /\ intentStatus \in [Intents -> IntentStatuses]
    BY DEF DoneInv, RiskInv, FillInv, EndInv, ClaimInv, TypeInv, TypeOK,
        LedgerTypeOK
  <1>2. \A i \in Intents :
            DoneWell(i) => DoneWell(i)'
    BY <1>1, DoneWellStays
  <1>3. ASSUME NEW i \in Intents
        PROVE  /\ intentStatus[i] \in Done => intentStatus'[i] \in Done
               /\ intentStatus'[i] \in Done =>
                      intentStatus[i] \in Done \/ DoneWell(i)
    <2>1. CASE UNCHANGED intentStatus
      BY <2>1
    <2>2. CASE MarkIntent \/ Refuse
      <3>1. /\ pc \in SendPcs \cup {"refuse"}
            /\ \E s \in {"submitted", "rejected"} :
                  intentStatus' = [intentStatus EXCEPT ![cur] = s]
        BY <2>2 DEF MarkIntent, Refuse, SendPcs, FlightPcs
      <3>2. i = cur => intentStatus[i] \notin Done
        BY <1>1, <3>1 DEF KeptOK
      <3> QED BY <1>1, <3>1, <3>2 DEF Done
    <2>3. CASE Settle
      <3>1. /\ intentStatus' = [intentStatus EXCEPT ![cur] = FinalOf]
            /\ pc \in WorkPcs
        BY <2>3 DEF Settle, WorkPcs, TryPcs
      <3>2. i = cur /\ intentStatus[i] \in Done => FinalOf \in Done
        BY <1>1, <3>1 DEF KeptOK, FinalOf, Done
      <3>3. FinalOf \in Done => DoneWell(cur)
        BY <2>3, SettledWell
      <3> QED BY <1>1, <3>1, <3>2, <3>3
    <2> QED BY <2>1, <2>2, <2>3, StatusMoves
  <1>4. ASSUME NEW i \in Intents, intentStatus'[i] \in Done
        PROVE  DoneWell(i)'
    BY <1>1, <1>2, <1>3, <1>4 DEF OrderedOK
  <1>5. ASSUME NEW c \in Cloids, NEW i \in Intents, Placed(c)', i < c[1]
        PROVE  intentStatus'[i] \in Done
    <2>1. CASE Placed(c)
      BY <1>1, <1>3, <1>5, <2>1 DEF OrderedOK
    <2>2. CASE ~Placed(c)
      <3>1. pc = "send" /\ c = Cloid
        BY <1>1, <1>5, <2>2, NewlyPlaced
      <3>2. i < cur /\ pc \in TryPcs
        BY <1>5, <3>1 DEF Cloid, TryPcs
      <3>3. intentStatus[i] \in Done
        BY <1>1, <3>2 DEF DoneOK
      <3> QED BY <1>3, <3>3
    <2> QED BY <2>1, <2>2
  <1> QED BY <1>4, <1>5 DEF OrderedOK

LEMMA KeptStep ==
    ASSUME DoneInv, OrderedOK', [Next]_vars
    PROVE  KeptOK'
  <1>1. FillInv /\ TypeInv /\ VerdictOK /\ KeptOK
        /\ intentStatus \in [Intents -> IntentStatuses]
    BY DEF DoneInv, RiskInv, FillInv, ClaimInv, TypeInv, TypeOK, LedgerTypeOK
  <1>2. \A i \in Intents : DoneWell(i) => DoneWell(i)'
    BY <1>1, DoneWellStays
  <1>3. \A i \in Intents : intentStatus'[i] \in Done => DoneWell(i)'
    BY DEF OrderedOK
  <1> SUFFICES ASSUME NEW i \in Intents, i = cur'
               PROVE  /\ pc' \in WorkPcs /\ finalStatus' \in Done =>
                           DoneWell(i)'
                      /\ pc' \in WorkPcs /\ intentStatus'[i] \in Done =>
                           finalStatus' \in Done
                      /\ pc' \in SendPcs \cup {"refuse"} =>
                           intentStatus'[i] \notin Done
                      /\ pc' = "settle" /\ finalStatus' \notin Done =>
                           no' = MaxAttempts
    BY DEF KeptOK
  <1>4. CASE Leaves
    BY <1>4 DEF Leaves, WorkPcs, TryPcs, SendPcs, FlightPcs
  <1>5. CASE QuietMove
    <2>1. i = cur /\ intentStatus'[i] \in Done /\ pc' \in WorkPcs =>
              intentStatus[i] \in Done /\ ~MarkIntent
      BY <1>1, <1>5 DEF QuietMove, MarkIntent, Done
    <2>2. i = cur /\ pc' \in SendPcs \cup {"refuse"} =>
              intentStatus'[i] \notin Done
      BY <1>1, <1>5, <2>1
      DEF QuietMove, KeptOK, SendPcs, FlightPcs, WorkPcs, TryPcs
    <2> QED
      BY <1>1, <1>2, <1>5, <2>1, <2>2 DEF QuietMove, KeptOK, WorkPcs, TryPcs
  <1>6. CASE Verdicts
    <2>1. Judged /\ pc \in WorkPcs /\ cur \in Intents
      BY <1>6, VerdictStep
    <2> QED BY <1>1, <1>2, <2>1 DEF Judged, KeptOK
  <1>7. CASE StartSession \/ (Settle /\ FinalOf # "unfilled")
    <2>1. PICK j : BeginIntent(j) /\ (Settle => j = cur + 1)
      BY <1>7 DEF StartSession, Settle
    <2>2. CASE j <= Len(Plan)
      <3>1. /\ cur' = j /\ pc' = "reconcile" /\ finalStatus' = intentStatus[j]
        BY <2>1, <2>2 DEF BeginIntent
      <3>2. intentStatus'[i] = intentStatus[i]
        <4>1. CASE StartSession
          BY <4>1 DEF StartSession
        <4>2. CASE Settle
          <5>1. intentStatus' = [intentStatus EXCEPT ![cur] = FinalOf]
            BY <4>2 DEF Settle
          <5>2. i = cur + 1 /\ cur \in Int
            BY <1>1, <2>1, <3>1, <4>2 DEF TypeInv, TypeOK, ProcessTypeOK
          <5> QED BY <1>1, <5>1, <5>2
        <4> QED BY <1>7, <4>1, <4>2
      <3> QED
        BY <1>3, <3>1, <3>2 DEF SendPcs, FlightPcs
    <2>3. CASE ~(j <= Len(Plan))
      <3>1. pc' = "postcheck"
        BY <2>1, <2>3 DEF BeginIntent
      <3> QED BY <3>1 DEF WorkPcs, TryPcs, SendPcs, FlightPcs
    <2> QED BY <2>2, <2>3
  <1>8. CASE Settle /\ FinalOf = "unfilled"
    BY <1>8 DEF Settle, WorkPcs, TryPcs, SendPcs, FlightPcs
  <1> QED BY <1>1, <1>4, <1>5, <1>6, <1>7, <1>8, WorkCases

LEMMA VerdictKept ==
    ASSUME DoneInv, [Next]_vars
    PROVE  VerdictOK'
  <1>1. FillInv /\ TypeInv /\ VerdictOK
    BY DEF DoneInv, RiskInv, FillInv, ClaimInv
  <1> SUFFICES ASSUME NEW c \in Cloids, c = <<cur', no'>>, pc' \in SendPcs
               PROVE  ~Tiny(c)'
    BY DEF VerdictOK, Cloid
  <1>2. CASE QuietMove
    <2>1. c = Cloid /\ pc \in SendPcs
      BY <1>2 DEF QuietMove, Cloid
    <2>2. ~Prepare
      BY <2>1 DEF Prepare, InLoop, SendPcs, FlightPcs
    <2>3. ~Tiny(c)
      BY <1>1, <2>1 DEF VerdictOK
    <2> QED BY <1>1, <2>2, <2>3, Statuses DEF Tiny, ExactClose
  <1>3. CASE Verdicts
    BY <1>3, VerdictStep DEF Judged, Cloid
  <1>4. CASE Leaves \/ StartSession \/ Settle
    BY <1>4 DEF Leaves, StartSession, Settle, BeginIntent, WorkPcs, TryPcs,
        SendPcs, FlightPcs
  <1> QED BY <1>1, <1>2, <1>3, <1>4, WorkCases

LEMMA DoneInit == Init => DoneInv
  <1> SUFFICES ASSUME Init PROVE DoneInv
    OBVIOUS
  <1>1. RiskInv
    BY RiskInit
  <1>2. VerdictOK /\ KeptOK
    BY DEF Init, VerdictOK, KeptOK, SendPcs, FlightPcs, WorkPcs, TryPcs
  <1>3. OrderedOK
    BY DEF Init, OrderedOK, Done, Placed, NoOrder
  <1> QED BY <1>1, <1>2, <1>3 DEF DoneInv

LEMMA DoneStep == DoneInv /\ [Next]_vars => DoneInv'
  <1> SUFFICES ASSUME DoneInv, [Next]_vars PROVE DoneInv'
    OBVIOUS
  <1>1. RiskInv /\ FillInv
    BY DEF DoneInv, RiskInv
  <1>2. FillInv'
    BY <1>1, FillStep
  <1>3. RiskOK' /\ OrderedOK'
    BY <1>1, <1>2, RiskStep, OrderedStep
  <1>4. KeptOK' /\ VerdictOK'
    BY <1>3, KeptStep, VerdictKept
  <1> QED BY <1>2, <1>3, <1>4 DEF DoneInv, RiskInv

LEMMA DoneInvAlways == Spec => []DoneInv
  BY DoneInit, DoneStep, PTL DEF Spec

(* What the ledger has of an intent is filled, and what is filled can be    *)
(* traded no more.                                                          *)
LEMMA BookedFilledRisk ==
    ASSUME FillInv, NEW i \in Intents
    PROVE  /\ ledgerQty[i] <= Filled(i) /\ Filled(i) <= AtRisk(i)
           /\ ledgerQty[i] \in Int /\ Filled(i) \in Int /\ AtRisk(i) \in Int
  <1>1. TypeOK /\ RowsOK /\ LedgerOK
    BY DEF FillInv, ClaimInv, TypeInv
  <1>2. IsFiniteSet(OfIntent(i)) /\ OfIntent(i) \subseteq Cloids
    BY OfIntentFacts
  <1>3. \A c \in OfIntent(i) :
            /\ BookedFn[c] \in Int /\ FilledFn[c] \in Int /\ RiskFn[c] \in Int
            /\ BookedFn[c] <= FilledFn[c] /\ FilledFn[c] <= RiskFn[c]
    BY <1>1, <1>2, RowTypes DEF BookedFn, FilledFn, RiskFn, RowsOK
  <1>4. /\ SumOf(BookedFn, OfIntent(i)) <= SumOf(FilledFn, OfIntent(i))
        /\ SumOf(FilledFn, OfIntent(i)) <= SumOf(RiskFn, OfIntent(i))
    BY <1>2, <1>3, SumMonotone
  <1>5. /\ SumOf(BookedFn, OfIntent(i)) \in Int
        /\ SumOf(FilledFn, OfIntent(i)) \in Int
        /\ SumOf(RiskFn, OfIntent(i)) \in Int
    BY <1>2, <1>3, SumOfSubset
  <1> QED BY <1>1, <1>4, <1>5, FilledIsSum, RiskIsSum DEF LedgerOK

(* The opening leg waits for its close, to the last lot.                    *)
THEOREM OpensAfterClose == Spec => []CloseBeforeOpen
  <1>1. DoneInv /\ NoOverfill => CloseBeforeOpen
    <2> SUFFICES ASSUME DoneInv, NoOverfill, Acknowledged,
                        NEW c \in Cloids, NEW i \in Intents,
                        Placed(c), i < c[1]
                 PROVE  IF ExactClose(i) THEN Filled(i) = Plan[i].quantity
                        ELSE intentStatus[i] \in {"filled", "dust"}
      BY DEF CloseBeforeOpen
    <2>1. intentStatus[i] \in Done /\ DoneWell(i) /\ FillInv
      BY DEF DoneInv, RiskInv, OrderedOK
    <2>2. CASE ExactClose(i)
      <3>1. ledgerQty[i] >= Plan[i].quantity
        BY <2>1, <2>2 DEF DoneWell, Tiny, OfIntent
      <3>2. AtRisk(i) <= Plan[i].quantity
        BY DEF NoOverfill
      <3>3. Plan[i].quantity \in Nat
        BY PlanTypes
      <3> QED BY <2>1, <2>2, <3>1, <3>2, <3>3, BookedFilledRisk
    <2> QED BY <2>1, <2>2 DEF Done
  <1> QED BY DoneInvAlways, NothingOverfills, <1>1, PTL

-----------------------------------------------------------------------------
(* Serial trading                                                           *)

(* Nothing is left resting behind the intent at hand, and one order at all. *)
BehindOK == pc \in TryPcs => \A c \in Cloids : c[1] < cur => ~Open(c)
OneOverall == \A c, d \in Cloids : Open(c) /\ Open(d) => c = d
SoloInv == DoneInv /\ (Acknowledged => BehindOK /\ OneOverall)

LEMMA NewlyOpen ==
    ASSUME FillInv, [Next]_vars, NEW c \in Cloids, ~Open(c), Open(c)'
    PROVE  /\ pc = "send" /\ c = Cloid
           /\ PlaceResting \/ PlaceFilled \/ PlaceUnacknowledged
  <1>1. CASE Placed(c)
    BY <1>1, OverStaysOver DEF Open
  <1>2. CASE ~Placed(c)
    BY <1>2, NewlyPlaced DEF Open, Placed
  <1> QED BY <1>1, <1>2

LEMMA CurMoves ==
    ASSUME [Next]_vars, pc' \in TryPcs
    PROVE  \/ pc \in TryPcs /\ cur' = cur
           \/ Settle /\ cur' = cur + 1
           \/ StartSession /\ cur' = 1
  <1> USE DEF TryPcs, Goto, intentVars, processVars
  <1>1. CASE ReconcileSkip \/ ReconcileQuery \/ ReconcileDone
             \/ QueryOpen \/ CancelAccepted \/ Resolve \/ BookFills \/ SyncDone
    BY <1>1 DEF ReconcileSkip, ReconcileQuery, ReconcileDone, QueryOpen,
        CancelAccepted, Resolve, BookFills, SyncDone, NextAttemptNo
  <1>2. CASE \/ Exhausted \/ SkipTransmitted \/ AlreadyFilled
             \/ TakePrepared \/ Prepare \/ DriftCheck
    BY <1>2 DEF Exhausted, SkipTransmitted, AlreadyFilled, TakePrepared,
        Abandon, Reuse, PreparedFound, Prepare, DriftCheck, InLoop, Continue,
        NextAttemptNo
  <1>3. CASE \/ PlaceResting \/ PlaceFilled \/ PlaceRefused
             \/ PlaceUnacknowledged \/ MarkRun \/ MarkIntent
             \/ RecordResting \/ RecordFilled \/ RecordRefused \/ Refuse
    BY <1>3 DEF PlaceResting, PlaceFilled, PlaceRefused, PlaceUnacknowledged,
        Answer, MarkRun, MarkIntent, RecordResting, RecordFilled,
        RecordRefused, NextAttemptNo, Refuse
  <1>4. CASE StartSession \/ Settle \/ Postcheck \/ MarkRebalanced
    BY <1>4 DEF StartSession, Settle, BeginIntent, Postcheck, MarkRebalanced
  <1>5. CASE \/ StartFresh \/ StartResume \/ SnapshotOk \/ SnapshotFails
             \/ ArmOk \/ ArmWaived \/ ArmFails
             \/ Attention \/ Disarm \/ DisarmFails \/ Fail \/ Interrupt \/ Crash
    BY <1>5 DEF StartFresh, StartResume, Enter, SnapshotOk, SnapshotFails,
        ArmOk, ArmWaived, ArmFails, Attention, Disarm, DisarmFails, Fail, Interrupt,
        Crash, Exit
  <1>6. CASE ExchangeStep \/ UNCHANGED vars
    BY <1>6 DEF ExchangeStep, OrderFills, OrderCanceled, FeedCatchesUp,
        DeadmanFires, ManualTrade, vars
  <1> QED BY <1>1, <1>2, <1>3, <1>4, <1>5, <1>6 DEF Next, ProcessStep

(* At a send nothing rests and no later intent has traded.                  *)
LEMMA SendAlone ==
    ASSUME SoloInv, Acknowledged, pc = "send"
    PROVE  /\ cur \in Intents
           /\ \A c \in Cloids : ~Open(c)
           /\ \A c \in Cloids : cur < c[1] => ~Placed(c)
  <1>1. FillInv /\ TypeInv /\ KeptOK /\ OrderedOK /\ BehindOK /\ SerialInv
    BY DEF SoloInv, DoneInv, RiskInv, FillInv, EndInv, ClaimInv
  <1>2. cur \in Intents
    BY <1>1 DEF TypeInv, CursorOK, WorkPcs, TryPcs
  <1>3. \A c \in Cloids : cur < c[1] => ~Placed(c)
    <2>1. intentStatus[cur] \notin Done
      BY <1>1, <1>2 DEF KeptOK, SendPcs
    <2> QED BY <1>1, <1>2, <2>1 DEF OrderedOK
  <1>4. ASSUME NEW c \in Cloids PROVE ~Open(c)
    <2>1. c[1] \in Int /\ cur \in Int
      BY <1>2 DEF Cloids, Intents
    <2>2. CASE c[1] < cur
      BY <1>1, <2>2 DEF BehindOK, TryPcs
    <2>3. CASE cur < c[1]
      BY <1>3, <2>3 DEF Open, Placed
    <2>4. CASE c[1] = cur
      BY <1>1, <2>4, SerialImpliesOneOrder DEF OneOrderPerIntent, OfIntent
    <2> QED BY <2>1, <2>2, <2>3, <2>4
  <1> QED BY <1>2, <1>3, <1>4

LEMMA SoloStep == SoloInv /\ [Next]_vars => SoloInv'
  <1> SUFFICES ASSUME SoloInv, [Next]_vars PROVE SoloInv'
    OBVIOUS
  <1>1. FillInv /\ TypeInv /\ DoneInv /\ DoneInv' /\ SerialInv
    BY DoneStep DEF SoloInv, DoneInv, RiskInv, FillInv, EndInv, ClaimInv
  <1> SUFFICES ASSUME lost' = 0
               PROVE  BehindOK' /\ OneOverall'
    BY <1>1 DEF SoloInv, Acknowledged
  <1>2. Acknowledged /\ BehindOK /\ OneOverall
    BY <1>1, LostGrows DEF SoloInv, Acknowledged
  <1>3. ASSUME NEW c \in Cloids, NEW d \in Cloids, Open(c)', Open(d)'
        PROVE  c = d
    <2>1. CASE Open(c) /\ Open(d)
      BY <1>2, <2>1 DEF OneOverall
    <2>2. CASE ~Open(c) \/ ~Open(d)
      <3>1. pc = "send" /\ (c = Cloid \/ d = Cloid)
        BY <1>1, <1>3, <2>2, NewlyOpen
      <3>2. ~Open(c) /\ ~Open(d)
        BY <1>2, <3>1, SendAlone
      <3> QED BY <1>1, <1>3, <3>2, NewlyOpen
    <2> QED BY <2>1, <2>2
  <1>4. ASSUME pc' \in TryPcs, NEW c \in Cloids, c[1] < cur', Open(c)'
        PROVE  FALSE
    <2>1. CASE ~Open(c)
      <3>1. c = Cloid /\ (PlaceResting \/ PlaceFilled \/ PlaceUnacknowledged)
        BY <1>1, <1>4, <2>1, NewlyOpen
      <3>2. cur' = cur /\ c[1] = cur /\ cur \in Int
        BY <1>1, <3>1 DEF PlaceResting, PlaceFilled, PlaceUnacknowledged,
            Answer, Cloid, intentVars, TypeInv, TypeOK, ProcessTypeOK
      <3> QED BY <1>4, <3>2
    <2>2. CASE Open(c) /\ pc \in TryPcs /\ cur' = cur
      BY <1>2, <1>4, <2>2 DEF BehindOK
    <2>3. CASE Open(c) /\ Settle /\ cur' = cur + 1
      <3>1. pc = "settle" /\ cur \in Int /\ c[1] \in Int
        BY <1>1, <2>3 DEF Settle, TypeInv, TypeOK, ProcessTypeOK, Cloids,
            Intents
      <3>2. c[1] = cur
        BY <1>2, <1>4, <2>3, <3>1 DEF BehindOK, TryPcs
      <3>3. PICK n \in AttemptNos : c = <<cur, n>>
        BY <3>2 DEF Cloids
      <3> QED
        BY <1>1, <1>2, <2>3, <3>1, <3>3
        DEF SerialInv, QuietOK, StatusPcs, FlightPcs
    <2>4. CASE Open(c) /\ cur' = 1
      <3>1. c[1] >= 1
        BY DEF Cloids, Intents
      <3> QED BY <1>4, <2>4, <3>1 DEF Cloids, Intents
    <2> QED BY <1>4, <2>1, <2>2, <2>3, <2>4, CurMoves
  <1> QED BY <1>3, <1>4 DEF BehindOK, OneOverall

LEMMA SoloInit == Init => SoloInv
  <1>1. Init => BehindOK /\ OneOverall
    BY DEF Init, BehindOK, OneOverall, Open, NoOrder, TryPcs
  <1> QED BY <1>1, DoneInit DEF SoloInv

(* The order that rests, as a function of the orders.                       *)
RestingIn(o) ==
    IF \E c \in Cloids : o[c].status = "open"
    THEN LET c == CHOOSE d \in Cloids : o[d].status = "open"
         IN  [intent |-> c[1], lots |-> o[c].quantity - o[c].filled]
    ELSE [intent |-> 0, lots |-> 0]

LEMMA RestingOne ==
    ASSUME NEW o, NEW c \in Cloids, o[c].status = "open",
           \A d \in Cloids : o[d].status = "open" => d = c
    PROVE  RestingIn(o) = [intent |-> c[1],
                           lots |-> o[c].quantity - o[c].filled]
  <1>1. (CHOOSE d \in Cloids : o[d].status = "open") = c
    OBVIOUS
  <1> QED BY <1>1 DEF RestingIn

LEMMA RestingNone ==
    ASSUME NEW o, \A d \in Cloids : o[d].status # "open"
    PROVE  RestingIn(o) = [intent |-> 0, lots |-> 0]
  BY DEF RestingIn

FilledIn(o) == [c \in Cloids |-> o[c].filled]
TradedIn(o) == [i \in Intents |-> SumOf(FilledIn(o), OfIntent(i))]

LEMMA MappedState ==
    TypeOK => /\ Resting = RestingIn(order)
              /\ [i \in Intents |-> Filled(i)] = TradedIn(order)
  <1>1. Resting = RestingIn(order)
    BY DEF Resting, RestingIn, Open
  <1>2. FilledFn = FilledIn(order)
    BY DEF FilledFn, FilledIn
  <1> QED BY <1>1, <1>2, FilledIsSum DEF TradedIn

(* One order fills by some lots: so does its intent, and no other.          *)
LEMMA TradedMoves ==
    ASSUME NEW o, NEW p, NEW a \in Cloids, NEW n \in Int,
           \A c \in Cloids : o[c].filled \in Int,
           \A c \in Cloids : c # a => p[c].filled = o[c].filled,
           p[a].filled = o[a].filled + n
    PROVE  TradedIn(p) = [TradedIn(o) EXCEPT ![a[1]] = @ + n]
  <1>1. \A c \in Cloids : FilledIn(o)[c] = o[c].filled
                          /\ FilledIn(p)[c] = p[c].filled
    BY DEF FilledIn
  <1>2. a[1] \in Intents /\ a \in OfIntent(a[1])
    BY DEF Cloids, OfIntent
  <1>3. ASSUME NEW i \in Intents
        PROVE  SumOf(FilledIn(p), OfIntent(i)) =
                 IF i = a[1] THEN SumOf(FilledIn(o), OfIntent(i)) + n
                 ELSE SumOf(FilledIn(o), OfIntent(i))
    <2> DEFINE f == FilledIn(o)
               h == FilledIn(p)
    <2>1. /\ IsFiniteSet(OfIntent(i)) /\ OfIntent(i) \subseteq Cloids
          /\ \A c \in OfIntent(i) : f[c] \in Int /\ h[c] \in Int
          /\ \A c \in OfIntent(i) : c # a => h[c] = f[c]
          /\ h[a] = f[a] + n /\ f[a] \in Int
      BY <1>1, OfIntentFacts
    <2> HIDE DEF f, h
    <2>2. CASE i = a[1]
      <3>1. /\ SumOf(h, OfIntent(i)) = SumOf(f, OfIntent(i)) + h[a] - f[a]
            /\ SumOf(f, OfIntent(i)) \in Int
        BY <1>2, <2>1, <2>2, SumChange
      <3>2. SumOf(h, OfIntent(i)) = SumOf(f, OfIntent(i)) + n
        BY <2>1, <3>1
      <3> QED BY <2>2, <3>2 DEF f, h
    <2>3. CASE i # a[1]
      <3>1. \A c \in OfIntent(i) : f[c] \in Int /\ h[c] = f[c]
        BY <2>1, <2>3 DEF OfIntent
      <3>2. /\ SumOf(f, OfIntent(i)) = SumOf(h, OfIntent(i))
            /\ SumOf(f, OfIntent(i)) \in Int
        BY <2>1, <3>1, SumSame
      <3> QED BY <2>3, <3>2 DEF f, h
    <2> QED BY <2>2, <2>3
  <1>4. /\ TradedIn(p) = [i \in Intents |-> SumOf(FilledIn(p), OfIntent(i))]
        /\ TradedIn(o) \in [Intents -> {TradedIn(o)[i] : i \in Intents}]
        /\ \A i \in Intents :
               TradedIn(o)[i] = SumOf(FilledIn(o), OfIntent(i))
    BY DEF TradedIn
  <1>5. \A i \in Intents : TradedIn(p)[i] =
            IF i = a[1] THEN TradedIn(o)[i] + n ELSE TradedIn(o)[i]
    BY <1>3, <1>4
  <1> QED BY <1>2, <1>4, <1>5

LEMMA TradedSame ==
    ASSUME NEW o, NEW p, \A c \in Cloids : p[c].filled = o[c].filled
    PROVE  TradedIn(p) = TradedIn(o)
  BY DEF TradedIn, FilledIn

LEMMA TradedNone ==
    ASSUME NEW o, NEW i \in Intents,
           \A c \in Cloids : c[1] = i => o[c].filled = 0
    PROVE  TradedIn(o)[i] = 0
  <1>1. IsFiniteSet(OfIntent(i)) /\ OfIntent(i) \subseteq Cloids
    BY OfIntentFacts
  <1>2. \A c \in OfIntent(i) : FilledIn(o)[c] = 0
    BY <1>1 DEF FilledIn, OfIntent
  <1> QED BY <1>1, <1>2, SumZero DEF TradedIn

(* What is placed fits in what the intent lacks.                            *)
LEMMA PlacedFits ==
    ASSUME SoloInv, Acknowledged, pc = "send"
    PROVE  /\ attempt[Cloid].quantity \in 1..Plan[cur].quantity
           /\ TradedIn(order)[cur] + attempt[Cloid].quantity
                <= Plan[cur].quantity
           /\ TradedIn(order)[cur] \in Int
           /\ Cloid \in Cloids /\ cur \in Intents
  <1>1. FillInv /\ TypeInv /\ TypeOK /\ RowsOK /\ KnownOK /\ PreparedOK /\ PhaseOK
        /\ ledgerQty \in [Intents -> Nat]
    BY DEF SoloInv, DoneInv, RiskInv, FillInv, EndInv, SerialInv, TypeInv,
        TypeOK, LedgerTypeOK
  <1>2. /\ cur \in Intents /\ Cloid \in OfIntent(cur)
        /\ SumOf(KnownRiskFn, OfIntent(cur)) + attempt[Cloid].quantity
             = Plan[cur].quantity
    BY <1>1, KnownAtSend
  <1>3. IsFiniteSet(OfIntent(cur)) /\ OfIntent(cur) \subseteq Cloids
        /\ Plan[cur].quantity \in Nat /\ attempt[Cloid].quantity \in Nat
    BY <1>1, <1>2, OfIntentFacts, PlanTypes, RowTypes DEF OfIntent
  <1>4. \A c \in OfIntent(cur) :
            /\ FilledFn[c] \in Int /\ KnownRiskFn[c] \in Int
            /\ FilledFn[c] <= KnownRiskFn[c]
    <2> TAKE c \in OfIntent(cur)
    <2>1. c \in Cloids /\ order[c].filled \in Nat /\ FilledFn[c] = order[c].filled
          /\ order[c].quantity \in Nat /\ order[c].filled <= order[c].quantity
      BY <1>1, <1>3, RowTypes DEF FilledFn, RowsOK
    <2>2. Known(c) \/ order[c].filled = 0
      BY <1>1, <2>1 DEF KnownOK, RowsOK, Known
    <2> QED BY <1>1, <2>1, <2>2, RiskTypes
  <1>5. /\ SumOf(FilledFn, OfIntent(cur)) <= SumOf(KnownRiskFn, OfIntent(cur))
        /\ SumOf(FilledFn, OfIntent(cur)) \in Int
        /\ SumOf(KnownRiskFn, OfIntent(cur)) \in Int
    BY <1>3, <1>4, SumMonotone, SumOfSubset
  <1>6. TradedIn(order)[cur] = SumOf(FilledFn, OfIntent(cur))
    BY <1>2 DEF TradedIn, FilledIn, FilledFn
  <1>7. /\ attempt[Cloid].quantity >= 1
        /\ attempt[Cloid].quantity + ledgerQty[cur] = Plan[cur].quantity
        /\ ledgerQty[cur] \in Nat
    BY <1>1, <1>2, <1>3 DEF PhaseOK, RowsOK, PreparedOK, Prepared, Cloid
  <1> QED BY <1>2, <1>3, <1>5, <1>6, <1>7

(* Every step of the executor is a step of serial trading, or a stutter.    *)
LEMMA TradingStep ==
    ASSUME SoloInv, SoloInv', [Next]_vars
    PROVE  [Serial!Next]_(Serial!vars)
  <1>1. FillInv /\ TypeOK /\ TypeInv /\ TypeOK' /\ RowsOK
        /\ order \in [Cloids -> OrderRecord]
    BY DEF SoloInv, DoneInv, RiskInv, FillInv, ClaimInv, TypeInv, TypeOK,
        ExchangeTypeOK
  <1> DEFINE q == [i \in Intents |-> Plan[i].quantity]
  <1>2. /\ Resting = RestingIn(order)
        /\ [i \in Intents |-> Filled(i)] = TradedIn(order)
    BY <1>1, MappedState
  <1>3. /\ Resting' = RestingIn(order')
        /\ [i \in Intents |-> Filled(i)]' = TradedIn(order')
    <2>1. TypeOK'
      BY <1>1
    <2>2. (/\ Resting = RestingIn(order)
           /\ [i \in Intents |-> Filled(i)] = TradedIn(order))'
      BY <2>1, MappedState, PTL
    <2> QED BY <2>2
  <1>4. CASE lost' # 0
    BY <1>4 DEF Serial!Next, Serial!Breach, Acknowledged
  <1> SUFFICES ASSUME lost' = 0 PROVE [Serial!Next]_(Serial!vars)
    BY <1>4
  <1>5. lost = 0 /\ Acknowledged /\ Acknowledged' /\ OneOverall
        /\ ~PlaceUnacknowledged
    BY <1>1, LostGrows DEF Acknowledged, SoloInv
  <1>6. ASSUME RestingIn(order') = RestingIn(order),
               TradedIn(order') = TradedIn(order)
        PROVE  UNCHANGED Serial!vars
    BY <1>2, <1>3, <1>5, <1>6 DEF Serial!vars
  <1>7. CASE PlaceResting \/ PlaceFilled
    <2> DEFINE n == attempt[Cloid].quantity
    <2>1. pc = "send" /\ Cloid[1] = cur
      BY <1>7 DEF PlaceResting, PlaceFilled, Cloid
    <2>2. /\ n \in 1..q[cur] /\ TradedIn(order)[cur] + n <= q[cur]
          /\ cur \in Intents /\ Cloid \in Cloids /\ n \in Int
      BY <1>5, <2>1, PlacedFits
    <2>3. \A c \in Cloids : order[c].status # "open"
      BY <1>5, <2>1, SendAlone DEF Open
    <2>4. RestingIn(order) = Serial!Nothing
      BY <2>3, RestingNone DEF Serial!Nothing
    <2>5. \A j \in Intents : j > cur => TradedIn(order)[j] = 0
      <3> SUFFICES ASSUME NEW j \in Intents, j > cur
                   PROVE  TradedIn(order)[j] = 0
        OBVIOUS
      <3>1. \A c \in Cloids : c[1] = j => order[c].filled = 0
        BY <1>1, <1>5, <2>1, <2>2, SendAlone DEF RowsOK, Intents
      <3> QED BY <3>1, TradedNone
    <2>6. /\ order[Cloid].status = "absent" /\ order[Cloid].filled = 0
          /\ \A c \in Cloids : order[c].filled \in Int
      BY <1>1, <1>7, <2>2, Placement, RowTypes DEF RowsOK, Placed
    <2> HIDE DEF q, n
    <2>7. CASE PlaceResting
      <3>1. /\ order' = [order EXCEPT ![Cloid] =
                  [status |-> "open", quantity |-> n, filled |-> 0, feed |-> 0]]
        BY <2>7 DEF PlaceResting, NewOrder, n
      <3>2. /\ \A c \in Cloids : order'[c].filled = order[c].filled
            /\ \A c \in Cloids : order'[c].status = "open" => c = Cloid
            /\ order'[Cloid].status = "open"
            /\ order'[Cloid].quantity = n /\ order'[Cloid].filled = 0
        BY <1>1, <2>2, <2>3, <2>6, <3>1
      <3>3. PICK a \in Cloids : a = Cloid
        BY <2>2
      <3>4. RestingIn(order') = [intent |-> a[1],
                 lots |-> order'[a].quantity - order'[a].filled]
        BY <3>2, <3>3, RestingOne
      <3>5. RestingIn(order') = [intent |-> cur, lots |-> n]
        BY <2>1, <2>2, <3>2, <3>3, <3>4
      <3>6. TradedIn(order') = TradedIn(order)
        BY <3>2, TradedSame
      <3>7. Serial!Place(cur, n)
        BY <1>2, <1>3, <1>5, <2>2, <2>4, <2>5, <3>5, <3>6
        DEF Serial!Place, q
      <3> QED
        BY <1>5, <2>2, <3>7 DEF Serial!Next, q
    <2>8. CASE PlaceFilled
      <3>1. /\ order' = [order EXCEPT ![Cloid] =
                  [status |-> "filled", quantity |-> n, filled |-> n,
                   feed |-> 0]]
        BY <2>8 DEF PlaceFilled, NewOrder, n
      <3>2. /\ \A c \in Cloids : c # Cloid =>
                     order'[c].filled = order[c].filled
            /\ \A c \in Cloids : order'[c].status # "open"
            /\ order'[Cloid].filled = order[Cloid].filled + n
        BY <1>1, <2>2, <2>3, <2>6, <3>1
      <3>3. PICK a \in Cloids : a = Cloid
        BY <2>2
      <3>4. RestingIn(order') = Serial!Nothing
        BY <3>2, RestingNone DEF Serial!Nothing
      <3>5. TradedIn(order') = [TradedIn(order) EXCEPT ![a[1]] = @ + n]
        BY <2>2, <2>6, <3>2, <3>3, TradedMoves
      <3>6. TradedIn(order') = [TradedIn(order) EXCEPT ![cur] = @ + n]
        BY <2>1, <3>3, <3>5
      <3>7. Serial!Place(cur, n)
        BY <1>2, <1>3, <1>5, <2>2, <2>4, <2>5, <3>4, <3>6
        DEF Serial!Place, q
      <3> QED
        BY <1>5, <2>2, <3>7 DEF Serial!Next, q
    <2> QED BY <1>7, <2>7, <2>8
  <1>8. ASSUME NEW a \in Cloids, OrderFills(a)
        PROVE  Serial!Fill
    <2> DEFINE o == order[a]
    <2>1. /\ o.status = "open" /\ o.filled \in Int /\ o.quantity \in Int
          /\ o.filled < o.quantity
      BY <1>1, <1>8, RowTypes DEF OrderFills, RowsOK, Open
    <2>2. \A c \in Cloids : order[c].status = "open" => c = a
      BY <1>5, <2>1 DEF OneOverall, Open
    <2>3. order' = [order EXCEPT ![a] =
                    [status |-> IF o.filled + 1 >= o.quantity
                                THEN "filled" ELSE "open",
                     quantity |-> o.quantity, filled |-> o.filled + 1,
                     feed |-> o.feed]]
      BY <1>8 DEF OrderFills
    <2>4. \A c \in Cloids : c # a => order'[c] = order[c]
      BY <1>1, <2>3
    <2>5. /\ order'[a].status = IF o.filled + 1 >= o.quantity
                                THEN "filled" ELSE "open"
          /\ order'[a].quantity = o.quantity
          /\ order'[a].filled = o.filled + 1
      BY <1>1, <2>3
    <2>6. \A c \in Cloids : order[c].filled \in Int
      BY <1>1, RowTypes
    <2> HIDE DEF o
    <2>7. TradedIn(order') = [TradedIn(order) EXCEPT ![a[1]] = @ + 1]
      BY <2>4, <2>5, <2>6, TradedMoves DEF o
    <2>8. RestingIn(order) = [intent |-> a[1], lots |-> o.quantity - o.filled]
      BY <2>1, <2>2, RestingOne DEF o
    <2>9. a[1] # 0
      BY DEF Cloids, Intents
    <2>10. CASE o.filled + 1 >= o.quantity
      <3>1. \A c \in Cloids : order'[c].status # "open"
        BY <2>2, <2>4, <2>5, <2>10
      <3>2. RestingIn(order') = Serial!Nothing
        BY <3>1, RestingNone DEF Serial!Nothing
      <3>3. o.quantity - o.filled = 1
        BY <2>1, <2>10
      <3> QED
        BY <1>2, <1>3, <1>5, <2>7, <2>8, <2>9, <3>2, <3>3
        DEF Serial!Fill, Serial!Nothing
    <2>11. CASE ~(o.filled + 1 >= o.quantity)
      <3>1. /\ order'[a].status = "open"
            /\ \A c \in Cloids : order'[c].status = "open" => c = a
        BY <2>2, <2>4, <2>5, <2>11
      <3>2. RestingIn(order') = [intent |-> a[1],
                lots |-> order'[a].quantity - order'[a].filled]
        BY <3>1, RestingOne
      <3>3. RestingIn(order') = [intent |-> a[1],
                                 lots |-> (o.quantity - o.filled) - 1]
        BY <2>1, <2>5, <3>2
      <3>4. o.quantity - o.filled # 1
        BY <2>1, <2>11
      <3> QED
        BY <1>2, <1>3, <1>5, <2>7, <2>8, <2>9, <3>3, <3>4
        DEF Serial!Fill, Serial!Nothing
    <2> QED BY <2>10, <2>11
  <1>9. CASE DeadmanFires \/ \E c \in Cloids : OrderCanceled(c)
    <2>1. \A c \in Cloids : order'[c].filled = order[c].filled
      <3>1. CASE DeadmanFires
        BY <1>1, <3>1 DEF DeadmanFires, OrderRecord
      <3>2. CASE \E c \in Cloids : OrderCanceled(c)
        BY <1>1, <3>2 DEF OrderCanceled, OrderRecord
      <3> QED BY <1>9, <3>1, <3>2
    <2>2. \A c \in Cloids : order'[c].status # "open"
      <3>1. CASE DeadmanFires
        BY <1>1, <3>1 DEF DeadmanFires, OrderRecord
      <3>2. ASSUME NEW a \in Cloids, OrderCanceled(a)
            PROVE  \A c \in Cloids : order'[c].status # "open"
        <4>1. \A c \in Cloids : c # a => order'[c] = order[c] /\ ~Open(c)
          BY <1>1, <1>5, <3>2 DEF OrderCanceled, OneOverall, Open
        <4>2. order'[a].status = "canceled"
          BY <1>1, <3>2 DEF OrderCanceled, OrderRecord
        <4> QED BY <4>1, <4>2 DEF Open
      <3> QED BY <1>9, <3>1, <3>2
    <2>3. /\ RestingIn(order') = Serial!Nothing
          /\ TradedIn(order') = TradedIn(order)
      BY <2>1, <2>2, RestingNone, TradedSame DEF Serial!Nothing
    <2> QED
      BY <1>2, <1>3, <1>5, <2>3
      DEF Serial!Next, Serial!Cancel
  <1>10. CASE \A c \in Cloids :
                 /\ order'[c].status = order[c].status
                 /\ order'[c].filled = order[c].filled
                 /\ order'[c].quantity = order[c].quantity
    <2>1. TradedIn(order') = TradedIn(order)
      BY <1>10, TradedSame
    <2>2. CASE \A c \in Cloids : ~Open(c)
      BY <1>6, <1>10, <2>1, <2>2, RestingNone DEF Open
    <2>3. CASE \E c \in Cloids : Open(c)
      <3>1. PICK c \in Cloids : Open(c)
        BY <2>3
      <3>2. \A d \in Cloids : Open(d) => d = c
        BY <1>5, <3>1 DEF OneOverall
      <3>3. /\ RestingIn(order) = [intent |-> c[1],
                   lots |-> order[c].quantity - order[c].filled]
            /\ RestingIn(order') = [intent |-> c[1],
                   lots |-> order'[c].quantity - order'[c].filled]
        BY <1>10, <3>1, <3>2, RestingOne DEF Open
      <3> QED BY <1>6, <1>10, <2>1, <3>3
    <2> QED BY <2>2, <2>3
  <1>11. CASE \/ \E c \in Cloids : FeedCatchesUp(c)
              \/ UNCHANGED order
              \/ BookFills \/ Prepare
    <2>1. \A c \in Cloids :
                 /\ order'[c].status = order[c].status
                 /\ order'[c].filled = order[c].filled
                 /\ order'[c].quantity = order[c].quantity
      BY <1>1, <1>11 DEF FeedCatchesUp, OrderRecord, BookFills, Prepare,
          exchangeVars
    <2> QED BY <1>10, <2>1
  <1> QED
    <2>1. (\E c \in Cloids : OrderFills(c)) => Serial!Next
      BY <1>5, <1>8 DEF Serial!Next
    <2> QED BY <1>1, <1>5, <1>7, <1>9, <1>11, <2>1, Touches, NewStatus

LEMMA SoloInvAlways == Spec => []SoloInv
  BY SoloInit, SoloStep, PTL DEF Spec

(* The executor, seen from the exchange, trades serially.                   *)
THEOREM ImplementsSerialTrading == Spec => TradesSerially
  <1>1. Init => Serial!Init
    <2> SUFFICES ASSUME Init PROVE Serial!Init
      OBVIOUS
    <2>1. TypeOK /\ Acknowledged
      BY TypeInit DEF TypeInv, Init, Acknowledged
    <2>2. Resting = RestingIn(order)
          /\ [i \in Intents |-> Filled(i)] = TradedIn(order)
      BY <2>1, MappedState
    <2>3. \A c \in Cloids : order[c].status # "open" /\ order[c].filled = 0
      BY DEF Init, NoOrder
    <2>4. RestingIn(order) = Serial!Nothing
      BY <2>3, RestingNone DEF Serial!Nothing
    <2>5. \A i \in Intents : TradedIn(order)[i] = 0
      BY <2>3, TradedNone
    <2>6. TradedIn(order) = [i \in Intents |-> 0]
      BY <2>5 DEF TradedIn
    <2> QED BY <2>1, <2>2, <2>4, <2>6 DEF Serial!Init
  <1> QED
    BY SoloInvAlways, TradingStep, <1>1, PTL
    DEF Spec, TradesSerially, Serial!Spec
-----------------------------------------------------------------------------
(* The position                                                             *)

SignedIn(o) == [i \in Intents |-> Sign(i) * TradedIn(o)[i]]

(* As long as nobody else trades, a position is the one at the start plus   *)
(* the fills of the intents on its ticker.                                  *)
PositionOK ==
    manual = 0 => \A t \in Tickers :
        position[t] = Current[t] + SumOf(SignedIn(order), LegsOn(t))

LEMMA OnFacts ==
    ASSUME NEW t
    PROVE  IsFiniteSet(LegsOn(t)) /\ LegsOn(t) \subseteq Intents
  <1>1. IsFiniteSet(Intents)
    BY FS_Interval, ConstantFacts DEF Intents
  <1> QED BY <1>1, FS_Subset DEF LegsOn

LEMMA SignTimes ==
    ASSUME NEW i \in Intents, NEW x \in Int, NEW y \in Int
    PROVE  /\ Sign(i) * (x + y) = Sign(i) * x + Sign(i) * y
           /\ Sign(i) * (x - y) = Sign(i) * x - Sign(i) * y
           /\ Sign(i) * x \in Int /\ Sign(i) * y \in Int
           /\ Sign(i) * 1 = Sign(i)
  <1>1. CASE Plan[i].side = "BUY"
    <2>1. Sign(i) = 1
      BY <1>1 DEF Sign
    <2> QED BY <2>1
  <1>2. CASE Plan[i].side # "BUY"
    <2>1. Sign(i) = -1
      BY <1>2 DEF Sign
    <2> QED BY <2>1
  <1> QED BY <1>1, <1>2

LEMMA SignedTypes ==
    ASSUME NEW o, \A c \in Cloids : o[c].filled \in Int, NEW i \in Intents
    PROVE  /\ TradedIn(o)[i] \in Int
           /\ SignedIn(o)[i] = Sign(i) * TradedIn(o)[i]
           /\ SignedIn(o)[i] \in Int
  <1>1. IsFiniteSet(OfIntent(i)) /\ OfIntent(i) \subseteq Cloids
        /\ OfIntent(i) \in SUBSET OfIntent(i)
    BY OfIntentFacts
  <1>2. \A c \in OfIntent(i) : FilledIn(o)[c] \in Int
    BY <1>1 DEF FilledIn
  <1>3. SumOf(FilledIn(o), OfIntent(i)) \in Int
    BY <1>1, <1>2, SumOfSubset
  <1>4. TradedIn(o)[i] = SumOf(FilledIn(o), OfIntent(i))
    BY DEF TradedIn
  <1> QED BY <1>3, <1>4, SignTimes DEF SignedIn

(* One order fills by some lots.                                            *)
LEMMA SignedMoves ==
    ASSUME NEW o, NEW p, NEW a \in Cloids, NEW n \in Int,
           \A c \in Cloids : o[c].filled \in Int,
           \A c \in Cloids : c # a => p[c].filled = o[c].filled,
           p[a].filled = o[a].filled + n,
           NEW t
    PROVE  /\ SumOf(SignedIn(o), LegsOn(t)) \in Int
           /\ SumOf(SignedIn(p), LegsOn(t)) = SumOf(SignedIn(o), LegsOn(t))
                + (IF Plan[a[1]].ticker = t THEN Sign(a[1]) * n ELSE 0)
  <1> DEFINE f == SignedIn(o)
             h == SignedIn(p)
             b == a[1]
  <1>1. b \in Intents
    BY DEF Cloids
  <1>2. \A c \in Cloids : p[c].filled \in Int
    OBVIOUS
  <1>3. TradedIn(p) = [TradedIn(o) EXCEPT ![b] = @ + n]
    BY TradedMoves
  <1>4. \A i \in Intents :
            /\ f[i] \in Int /\ h[i] \in Int
            /\ f[i] = Sign(i) * TradedIn(o)[i] /\ TradedIn(o)[i] \in Int
            /\ h[i] = Sign(i) * TradedIn(p)[i]
    BY <1>2, SignedTypes
  <1>5. \A i \in Intents :
            TradedIn(p)[i] = TradedIn(o)[i] + (IF i = b THEN n ELSE 0)
    BY <1>3, <1>4 DEF TradedIn
  <1>6. \A i \in Intents : i # b => h[i] = f[i]
    BY <1>4, <1>5
  <1>7. h[b] = f[b] + Sign(b) * n /\ Sign(b) * n \in Int
    <2> DEFINE x == TradedIn(o)[b]
    <2>1. /\ x \in Int /\ f[b] = Sign(b) * x
          /\ h[b] = Sign(b) * TradedIn(p)[b] /\ TradedIn(p)[b] = x + n
      BY <1>1, <1>4, <1>5
    <2> HIDE DEF x, b, f, h
    <2>2. /\ Sign(b) * (x + n) = Sign(b) * x + Sign(b) * n
          /\ Sign(b) * n \in Int
      BY <1>1, <2>1, SignTimes
    <2> QED BY <2>1, <2>2
  <1>8. IsFiniteSet(LegsOn(t)) /\ LegsOn(t) \subseteq Intents
    BY OnFacts
  <1>9. SumOf(f, LegsOn(t)) \in Int /\ SumOf(h, LegsOn(t)) \in Int
    BY <1>4, <1>8, SumOfSubset
  <1> HIDE DEF f, h
  <1>10. CASE Plan[b].ticker = t
    <2>1. b \in LegsOn(t)
      BY <1>1, <1>10 DEF LegsOn
    <2>2. SumOf(h, LegsOn(t)) = SumOf(f, LegsOn(t)) + h[b] - f[b]
      <3>1. \A x \in LegsOn(t) : f[x] \in Int /\ h[x] \in Int
        BY <1>4, <1>8
      <3>2. \A x \in LegsOn(t) : x # b => h[x] = f[x]
        BY <1>6, <1>8
      <3> HIDE DEF b
      <3> QED BY <1>8, <2>1, <3>1, <3>2, SumChange
    <2>3. SumOf(h, LegsOn(t)) = SumOf(f, LegsOn(t)) + Sign(b) * n
      BY <1>1, <1>4, <1>7, <1>9, <2>2
    <2> QED BY <1>9, <1>10, <2>3 DEF f, h
  <1>11. CASE Plan[b].ticker # t
    <2>1. \A i \in LegsOn(t) : f[i] \in Int /\ h[i] = f[i]
      BY <1>4, <1>6, <1>8, <1>11 DEF LegsOn
    <2>2. SumOf(f, LegsOn(t)) = SumOf(h, LegsOn(t))
      BY <1>8, <2>1, SumSame
    <2> QED BY <1>9, <1>11, <2>2 DEF f, h
  <1> QED BY <1>10, <1>11

(* What a step does to the position is what it does to the fills.           *)
Trades(a, n) ==
    /\ \A c \in Cloids : c # a => order'[c].filled = order[c].filled
    /\ order'[a].filled = order[a].filled + n
    /\ position' = [position EXCEPT ![Plan[a[1]].ticker] = @ + Sign(a[1]) * n]

LEMMA PositionKept ==
    ASSUME [Next]_vars
    PROVE  \/ PlaceFilled \/ \E c \in Cloids : OrderFills(c)
           \/ ManualTrade \/ UNCHANGED position
  BY DEF Next, ProcessStep, ExchangeStep, StartFresh, StartResume, Enter,
      SnapshotOk, SnapshotFails, ArmOk, ArmWaived, ArmFails, StartSession,
      ReconcileSkip, ReconcileQuery, ReconcileDone, QueryOpen, CancelAccepted,
      Resolve, BookFills, SyncDone, Exhausted, SkipTransmitted, AlreadyFilled,
      TakePrepared, Abandon, Reuse, Prepare, DriftCheck, PlaceResting,
      PlaceRefused, PlaceUnacknowledged, MarkRun, MarkIntent, RecordResting,
      RecordFilled, RecordRefused, Refuse, Settle, Postcheck, MarkRebalanced,
      Attention, Disarm, DisarmFails, Fail, Interrupt, Crash, OrderCanceled,
      FeedCatchesUp, DeadmanFires, vars, exchangeVars

LEMMA ManualGrows ==
    ASSUME TypeInv, [Next]_vars, manual' = 0
    PROVE  manual = 0 /\ ~ManualTrade
  <1>1. manual \in Nat
    BY ConstantFacts DEF TypeInv, TypeOK, BoundTypeOK
  <1>2. ~ManualTrade
    BY <1>1 DEF ManualTrade
  <1>3. ManualTrade \/ manual' = manual
    BY DEF Next, ProcessStep, ExchangeStep, StartFresh, StartResume, Enter,
      SnapshotOk, SnapshotFails, ArmOk, ArmWaived, ArmFails, StartSession,
      ReconcileSkip, ReconcileQuery, ReconcileDone, QueryOpen, CancelAccepted,
      Resolve, BookFills, SyncDone, Exhausted, SkipTransmitted, AlreadyFilled,
      TakePrepared, Abandon, Reuse, Prepare, DriftCheck, PlaceResting,
      PlaceFilled, PlaceRefused, PlaceUnacknowledged, MarkRun, MarkIntent,
      RecordResting, RecordFilled, RecordRefused, Refuse, Settle, Postcheck,
      MarkRebalanced, Attention, Disarm, DisarmFails, Fail, Interrupt, Crash, OrderFills,
      OrderCanceled, FeedCatchesUp, DeadmanFires, vars, boundVars
  <1> QED BY <1>2, <1>3

LEMMA FillsKept ==
    ASSUME FillInv, [Next]_vars, NEW c \in Cloids,
           order'[c].filled # order[c].filled
    PROVE  \/ PlaceFilled /\ c = Cloid
           \/ OrderFills(c)
  <1>1. order \in [Cloids -> OrderRecord] /\ RowsOK
    BY DEF FillInv, ClaimInv, TypeInv, TypeOK, ExchangeTypeOK
  <1>2. CASE PlaceResting \/ PlaceUnacknowledged \/ PlaceFilled
    <2>1. Cloid \in Cloids /\ ~Placed(Cloid)
      BY <1>2, Placement DEF Placed
    <2>2. order[Cloid].filled = 0
      BY <1>1, <2>1 DEF RowsOK
    <2> QED
      BY <1>1, <1>2, <2>1, <2>2 DEF PlaceResting, PlaceUnacknowledged,
          PlaceFilled, NewOrder
  <1>3. CASE \E d \in Cloids : OrderFills(d)
    BY <1>1, <1>3 DEF OrderFills
  <1>4. CASE \E d \in Cloids : OrderCanceled(d) \/ FeedCatchesUp(d)
    BY <1>1, <1>4 DEF OrderCanceled, FeedCatchesUp, OrderRecord
  <1>5. CASE DeadmanFires
    BY <1>1, <1>5 DEF DeadmanFires, OrderRecord
  <1>6. CASE UNCHANGED order \/ BookFills \/ Prepare
    BY <1>6 DEF BookFills, Prepare, exchangeVars
  <1> QED BY <1>2, <1>3, <1>4, <1>5, <1>6, Touches, NewStatus

LEMMA PositionMoves ==
    ASSUME FillInv, [Next]_vars, manual' = 0
    PROVE  \/ \E a \in Cloids : \E n \in Int : Trades(a, n)
           \/ UNCHANGED position /\ \A c \in Cloids :
                                       order'[c].filled = order[c].filled
  <1>1. TypeInv /\ TypeOK /\ RowsOK /\ order \in [Cloids -> OrderRecord]
    BY DEF FillInv, ClaimInv, TypeInv, TypeOK, ExchangeTypeOK
  <1>2. CASE PlaceFilled
    <2> DEFINE n == attempt[Cloid].quantity
    <2>1. /\ Cloid \in Cloids /\ n \in Int /\ ~Placed(Cloid)
          /\ Cloid[1] = cur
      BY <1>2, Placement DEF Placed, Cloid
    <2>2. order[Cloid].filled = 0
      BY <1>1, <2>1 DEF RowsOK
    <2>3. Trades(Cloid, n)
      BY <1>1, <1>2, <2>1, <2>2 DEF PlaceFilled, NewOrder, Trades
    <2> QED BY <2>1, <2>3
  <1>3. ASSUME NEW a \in Cloids, OrderFills(a)
        PROVE  Trades(a, 1)
    <2>1. a[1] \in Intents /\ Sign(a[1]) * 1 = Sign(a[1])
      BY SignTimes DEF Cloids
    <2> QED BY <1>1, <1>3, <2>1 DEF OrderFills, Trades
  <1>4. CASE ~PlaceFilled /\ ~\E c \in Cloids : OrderFills(c)
    BY <1>1, <1>4, ManualGrows, PositionKept, FillsKept
  <1> QED BY <1>2, <1>3, <1>4

LEMMA PositionStep ==
    ASSUME FillInv, PositionOK, [Next]_vars
    PROVE  PositionOK'
  <1> SUFFICES ASSUME manual' = 0, NEW t \in Tickers
               PROVE  position'[t] =
                        Current[t] + SumOf(SignedIn(order'), LegsOn(t))
    BY DEF PositionOK
  <1>1. /\ TypeInv /\ TypeOK /\ position \in [Tickers -> Int]
        /\ Current[t] \in Int
    BY ConstantFacts DEF FillInv, ClaimInv, TypeInv, TypeOK, ExchangeTypeOK
  <1>2. \A c \in Cloids : order[c].filled \in Int
    BY <1>1, RowTypes
  <1>3. position[t] = Current[t] + SumOf(SignedIn(order), LegsOn(t))
    BY <1>1, ManualGrows DEF PositionOK
  <1>4. CASE UNCHANGED position
             /\ \A c \in Cloids : order'[c].filled = order[c].filled
    <2>1. SignedIn(order') = SignedIn(order)
      BY <1>4, TradedSame DEF SignedIn
    <2> QED BY <1>3, <1>4, <2>1
  <1>5. ASSUME NEW a \in Cloids, NEW n \in Int, Trades(a, n)
        PROVE  position'[t] = Current[t] + SumOf(SignedIn(order'), LegsOn(t))
    <2> DEFINE moved == IF Plan[a[1]].ticker = t THEN Sign(a[1]) * n ELSE 0
    <2>1. /\ SumOf(SignedIn(order), LegsOn(t)) \in Int
          /\ SumOf(SignedIn(order'), LegsOn(t)) =
                 SumOf(SignedIn(order), LegsOn(t)) + moved
      <3>1. PICK p : p = order'
        OBVIOUS
      <3>2. /\ \A c \in Cloids : c # a => p[c].filled = order[c].filled
            /\ p[a].filled = order[a].filled + n
        BY <1>5, <3>1 DEF Trades
      <3>3. /\ SumOf(SignedIn(order), LegsOn(t)) \in Int
            /\ SumOf(SignedIn(p), LegsOn(t)) =
                   SumOf(SignedIn(order), LegsOn(t)) + moved
        BY <1>2, <3>2, SignedMoves
      <3> QED BY <3>1, <3>3
    <2>2. a[1] \in Intents /\ Sign(a[1]) * n \in Int
      BY SignTimes DEF Cloids
    <2>3. position'[t] = position[t] + moved
      BY <1>1, <1>5, <2>2 DEF Trades
    <2>4. moved \in Int
      BY <2>2
    <2> HIDE DEF moved
    <2> QED BY <1>1, <1>3, <2>1, <2>3, <2>4
  <1> QED BY <1>4, <1>5, PositionMoves

LEMMA PositionInit == Init => PositionOK
  <1> SUFFICES ASSUME Init, NEW t \in Tickers
               PROVE  position[t] = Current[t] + SumOf(SignedIn(order), LegsOn(t))
    BY DEF PositionOK
  <1>1. \A c \in Cloids : order[c].filled = 0
    BY DEF Init, NoOrder
  <1>2. \A i \in Intents : TradedIn(order)[i] = 0
    BY <1>1, TradedNone
  <1>3. \A i \in Intents : SignedIn(order)[i] = Sign(i) * 0
    BY <1>2 DEF SignedIn
  <1>4. \A i \in LegsOn(t) : SignedIn(order)[i] = 0
    BY <1>3, PlanTypes, OnFacts
  <1>5. SumOf(SignedIn(order), LegsOn(t)) = 0
    BY <1>4, OnFacts, SumZero
  <1> QED BY <1>5, ConstantFacts DEF Init

-----------------------------------------------------------------------------
(* The drift check                                                          *)

LedgerFn == [i \in Intents |-> Sign(i) * ledgerQty[i]]
MissingFn == [i \in Intents |-> Sign(i) * (Filled(i) - ledgerQty[i])]

(* The folds of the code's and the property's sums.                         *)
LedgerTerm(g, s) ==
    IF s = {} THEN 0 ELSE Sign(First(s)) * ledgerQty[First(s)] + g[Rest(s)]
MissingTerm(g, s) ==
    IF s = {} THEN 0
    ELSE Sign(First(s)) * (Filled(First(s)) - ledgerQty[First(s)]) + g[Rest(s)]

Missing(t) == MapThenSumSet(LAMBDA i : Sign(i) * (Filled(i) - ledgerQty[i]),
                            LegsOn(t))

LEMMA LedgerFold ==
    ASSUME NEW t
    PROVE  ExpectedPosition(t) = Current[t] +
             (CHOOSE g : g = [s \in SUBSET LegsOn(t) |-> LedgerTerm(g, s)])[LegsOn(t)]
  BY DEF ExpectedPosition, MapThenSumSet, MapThenFoldSet, LedgerTerm, First,
         Rest, LegsOn

LEMMA MissingFold ==
    ASSUME NEW t
    PROVE  Missing(t) =
             (CHOOSE g : g = [s \in SUBSET LegsOn(t) |-> MissingTerm(g, s)])[LegsOn(t)]
  BY DEF Missing, MapThenSumSet, MapThenFoldSet, MissingTerm, First, Rest

LEMMA SignedFnTypes ==
    ASSUME TypeOK, NEW i \in Intents
    PROVE  /\ Filled(i) = TradedIn(order)[i] /\ Filled(i) \in Int
           /\ ledgerQty[i] \in Nat
           /\ LedgerFn[i] = Sign(i) * ledgerQty[i] /\ LedgerFn[i] \in Int
           /\ MissingFn[i] = Sign(i) * (Filled(i) - ledgerQty[i])
           /\ MissingFn[i] \in Int
           /\ SignedIn(order)[i] = MissingFn[i] + LedgerFn[i]
  <1>1. [j \in Intents |-> Filled(j)] = TradedIn(order)
    BY MappedState
  <1>2. Filled(i) = TradedIn(order)[i]
    BY <1>1
  <1>3. \A c \in Cloids : order[c].filled \in Int
    BY RowTypes
  <1>4. TradedIn(order)[i] \in Int
        /\ SignedIn(order)[i] = Sign(i) * TradedIn(order)[i]
    BY <1>3, SignedTypes
  <1>5. ledgerQty[i] \in Nat
    BY DEF TypeOK, LedgerTypeOK
  <1>6. LedgerFn[i] = Sign(i) * ledgerQty[i]
        /\ MissingFn[i] = Sign(i) * (Filled(i) - ledgerQty[i])
    BY DEF LedgerFn, MissingFn
  <1> DEFINE x == Filled(i)
             y == ledgerQty[i]
  <1>7. x \in Int /\ y \in Int
    BY <1>2, <1>4, <1>5
  <1> HIDE DEF x, y
  <1>8. /\ Sign(i) * (x - y) = Sign(i) * x - Sign(i) * y
        /\ Sign(i) * x \in Int /\ Sign(i) * y \in Int
    BY <1>7, SignTimes
  <1> QED BY <1>2, <1>4, <1>5, <1>6, <1>8 DEF x, y

LEMMA ExpectedIsSum ==
    ASSUME TypeOK, NEW t
    PROVE  ExpectedPosition(t) = Current[t] + SumOf(LedgerFn, LegsOn(t))
  <1> DEFINE S == LegsOn(t)
             P(g) == g = [s \in SUBSET S |-> LedgerTerm(g, s)]
  <1>1. IsFiniteSet(S) /\ S \subseteq Intents /\ \A i \in S : LedgerFn[i] \in Int
    BY OnFacts, SignedFnTypes
  <1>2. \A s \in SUBSET S : s # {} =>
            LedgerFn[First(s)] = Sign(First(s)) * ledgerQty[First(s)]
    BY <1>1 DEF First, LedgerFn
  <1>3. ASSUME NEW g PROVE P(g) <=> IsSum(g, LedgerFn, S)
    <2>1. \A s \in SUBSET S : LedgerTerm(g, s) = Term(LedgerFn, g, s)
      BY <1>2 DEF LedgerTerm, Term
    <2> QED BY <2>1 DEF IsSum
  <1>4. P(SumFn(LedgerFn, S))
    BY <1>1, <1>3, SumFnFacts
  <1>5. P(CHOOSE g : P(g))
    BY <1>4
  <1>6. (CHOOSE g : P(g)) = SumFn(LedgerFn, S)
    BY <1>1, <1>3, <1>5, SumFnFacts, SumUnique
  <1> QED BY <1>6, LedgerFold DEF SumOf

LEMMA MissingIsSum ==
    ASSUME TypeOK, NEW t
    PROVE  Missing(t) = SumOf(MissingFn, LegsOn(t))
  <1> DEFINE S == LegsOn(t)
             P(g) == g = [s \in SUBSET S |-> MissingTerm(g, s)]
  <1>1. IsFiniteSet(S) /\ S \subseteq Intents
        /\ \A i \in S : MissingFn[i] \in Int
    BY OnFacts, SignedFnTypes
  <1>2. \A s \in SUBSET S : s # {} =>
            MissingFn[First(s)] =
              Sign(First(s)) * (Filled(First(s)) - ledgerQty[First(s)])
    BY <1>1 DEF First, MissingFn
  <1>3. ASSUME NEW g PROVE P(g) <=> IsSum(g, MissingFn, S)
    <2>1. \A s \in SUBSET S : MissingTerm(g, s) = Term(MissingFn, g, s)
      BY <1>2 DEF MissingTerm, Term
    <2> QED BY <2>1 DEF IsSum
  <1>4. P(SumFn(MissingFn, S))
    BY <1>1, <1>3, SumFnFacts
  <1>5. P(CHOOSE g : P(g))
    BY <1>4
  <1>6. (CHOOSE g : P(g)) = SumFn(MissingFn, S)
    BY <1>1, <1>3, <1>5, SumFnFacts, SumUnique
  <1> QED BY <1>6, MissingFold DEF SumOf

(* What the account has and the ledger does not expect is what was filled   *)
(* and not booked.                                                          *)
LEMMA DriftIsMissing ==
    ASSUME TypeOK, PositionOK, manual = 0, NEW t \in Tickers
    PROVE  /\ position[t] - ExpectedPosition(t) = Missing(t)
           /\ position[t] \in Int /\ ExpectedPosition(t) \in Int
           /\ Missing(t) \in Int
  <1>1. IsFiniteSet(LegsOn(t)) /\ LegsOn(t) \subseteq Intents
        /\ LegsOn(t) \in SUBSET LegsOn(t)
    BY OnFacts
  <1>2. \A i \in LegsOn(t) :
            /\ LedgerFn[i] \in Int /\ MissingFn[i] \in Int
            /\ SignedIn(order)[i] = MissingFn[i] + LedgerFn[i]
    BY <1>1, SignedFnTypes
  <1>3. SumOf(SignedIn(order), LegsOn(t)) =
            SumOf(MissingFn, LegsOn(t)) + SumOf(LedgerFn, LegsOn(t))
    BY <1>1, <1>2, SumAdd
  <1>4. SumOf(MissingFn, LegsOn(t)) \in Int /\ SumOf(LedgerFn, LegsOn(t)) \in Int
    BY <1>1, <1>2, SumOfSubset
  <1>5. position[t] = Current[t] + SumOf(SignedIn(order), LegsOn(t))
        /\ Current[t] \in Int
    BY ConstantFacts DEF PositionOK
  <1>6. ExpectedPosition(t) = Current[t] + SumOf(LedgerFn, LegsOn(t))
        /\ Missing(t) = SumOf(MissingFn, LegsOn(t))
    BY ExpectedIsSum, MissingIsSum
  <1> QED BY <1>3, <1>4, <1>5, <1>6

PositionInv == SoloInv /\ PositionOK

LEMMA PositionInvAlways == Spec => []PositionInv
  <1>1. Init => PositionInv
    BY SoloInit, PositionInit DEF PositionInv
  <1>2. PositionInv /\ [Next]_vars => PositionInv'
    BY SoloStep, PositionStep DEF PositionInv, SoloInv, DoneInv, RiskInv
  <1> QED BY <1>1, <1>2, PTL DEF Spec

(* The drift check lets nothing pass that was filled and not booked, but    *)
(* what is within a minimum order at a price: whichever intents share the   *)
(* ticker, whatever was lost.                                               *)
THEOREM DriftStopsSends == Spec => UnbookedFillsBlockSend
  <1>1. PositionInv /\ [Next]_vars =>
            [pc = "check" /\ pc' = "send" /\ manual = 0 =>
                \E mark \in DustLots :
                  AbsVal(Missing(Plan[cur].ticker))
                    <= (IF ExactClose(cur) THEN 0
                        ELSE WithinMinimum(mark))]_vars
    <2> SUFFICES ASSUME PositionInv, [Next]_vars, pc = "check", pc' = "send",
                        manual = 0
                 PROVE  \E mark \in DustLots :
                          AbsVal(Missing(Plan[cur].ticker))
                            <= (IF ExactClose(cur) THEN 0
                                ELSE WithinMinimum(mark))
      OBVIOUS
    <2>1. TypeInv /\ TypeOK /\ PositionOK
      BY DEF PositionInv, SoloInv, DoneInv, RiskInv, FillInv, ClaimInv, TypeInv
    <2>2. DriftCheck
      BY DEF Next, ProcessStep, ExchangeStep, StartFresh, StartResume, Enter,
      SnapshotOk, SnapshotFails, ArmOk, ArmWaived, ArmFails, StartSession,
      ReconcileSkip, ReconcileQuery, ReconcileDone, QueryOpen, CancelAccepted,
      Resolve, BookFills, SyncDone, Exhausted, SkipTransmitted, AlreadyFilled,
      TakePrepared, PreparedFound, InLoop, Abandon, Reuse, Prepare,
      PlaceResting, PlaceFilled, PlaceRefused, PlaceUnacknowledged, MarkRun,
      MarkIntent, RecordResting, RecordFilled, RecordRefused, Refuse, Settle,
      Postcheck, MarkRebalanced, Attention, Disarm, DisarmFails, Fail,
      Interrupt, Goto, Crash, Exit, OrderFills, OrderCanceled, FeedCatchesUp,
      DeadmanFires, ManualTrade, vars, processVars
    <2>3. cur \in Intents
      BY <2>1 DEF TypeInv, CursorOK, WorkPcs, TryPcs
    <2> DEFINE t == Plan[cur].ticker
    <2>4. t \in Tickers
      BY <2>3, PlanTypes
    <2>5. \E mark \in DustLots :
              AbsVal(position[t] - ExpectedPosition(t))
                <= (IF ExactClose(cur) THEN 0 ELSE WithinMinimum(mark))
      BY <2>2 DEF DriftCheck
    <2>6. position[t] - ExpectedPosition(t) = Missing(t)
      BY <2>1, <2>4, DriftIsMissing
    <2> QED BY <2>5, <2>6
  <1>2. [pc = "check" /\ pc' = "send" /\ manual = 0 =>
            \E mark \in DustLots :
              AbsVal(Missing(Plan[cur].ticker))
                <= (IF ExactClose(cur) THEN 0 ELSE WithinMinimum(mark))]_vars
        => [pc = "check" /\ pc' = "send" /\ manual = 0 =>
         LET missing == AbsVal(MapThenSumSet(
                 LAMBDA i : Sign(i) * (Filled(i) - ledgerQty[i]),
                 LegsOn(Plan[cur].ticker)))
         IN  \E mark \in DustLots :
               missing <= (IF ExactClose(cur) THEN 0
                           ELSE WithinMinimum(mark))]_vars
    BY DEF Missing
  <1> QED
    BY PositionInvAlways, <1>1, <1>2, PTL DEF Spec, UnbookedFillsBlockSend
-----------------------------------------------------------------------------
(* The end of a run                                                         *)

Over(c) == ~Open(c) /\ attempt[c].booked = order[c].filled

(* As long as every acceptance is recorded, what is behind the intent at    *)
(* hand is booked, and a complete run leaves nothing open.                  *)
BookedOK ==
    Acknowledged =>
        /\ pc \in TryPcs => \A c \in Cloids : c[1] < cur => Over(c)
        /\ session = "complete" => \A c \in Cloids : Over(c)

(* Who has completed his session only marks and clears.                     *)
ClosedOK ==
    session = "complete" => pc \in {"archive", "except", "disarm", "idle"}

QuietInv == PositionInv /\ BookedOK /\ ClosedOK

LEMMA ClosedStep ==
    ASSUME ClosedOK, [Next]_vars
    PROVE  ClosedOK'
  BY DEF ClosedOK, Next, ProcessStep, ExchangeStep, StartFresh, StartResume,
      Enter, SnapshotOk, SnapshotFails, ArmOk, ArmWaived, ArmFails,
      StartSession, ReconcileSkip, ReconcileQuery, ReconcileDone, QueryOpen,
      CancelAccepted, Resolve, BookFills, SyncDone, Exhausted, SkipTransmitted,
      AlreadyFilled, TakePrepared, PreparedFound, InLoop, Abandon, Reuse,
      Prepare, DriftCheck, PlaceResting, PlaceFilled, PlaceRefused,
      PlaceUnacknowledged, MarkRun, MarkIntent, RecordResting, RecordFilled,
      RecordRefused, Refuse, Settle, Postcheck, MarkRebalanced, Attention,
      Disarm, DisarmFails, Fail, Interrupt, Crash, Goto, Exit, OrderFills, OrderCanceled,
      FeedCatchesUp, DeadmanFires, ManualTrade, vars, ledgerVars, processVars

(* What is over stays so, unless it is worked on.                           *)
LEMMA OverStays ==
    ASSUME FillInv, [Next]_vars, NEW c \in Cloids, Over(c),
           c[1] # cur \/ pc \notin WorkPcs
    PROVE  Over(c)'
  <1>1. TypeInv /\ attempt \in [Cloids -> AttemptRecord]
    BY DEF FillInv, ClaimInv, TypeInv, TypeOK, LedgerTypeOK
  <1>2. ~Open(c)'
    <2> SUFFICES ASSUME Open(c)' PROVE FALSE
      OBVIOUS
    <2>1. pc = "send" /\ c = Cloid
      BY NewlyOpen DEF Over
    <2> QED BY <2>1 DEF Cloid, WorkPcs, TryPcs
  <1>3. order'[c].filled = order[c].filled
    <2> SUFFICES ASSUME order'[c].filled # order[c].filled PROVE FALSE
      OBVIOUS
    <2>1. CASE PlaceFilled /\ c = Cloid
      BY <2>1 DEF PlaceFilled, Cloid, WorkPcs, TryPcs
    <2>2. CASE OrderFills(c)
      BY <2>2 DEF OrderFills, Over, Open
    <2> QED BY <2>1, <2>2, FillsKept
  <1>4. attempt'[c].booked = attempt[c].booked
    <2>1. CASE Resolve \/ TakePrepared \/ RecordResting \/ RecordFilled
               \/ RecordRefused
      <3>1. CASE UNCHANGED attempt
        BY <3>1
      <3>2. ASSUME NEW s, SetAttempt(s)
            PROVE  attempt'[c].booked = attempt[c].booked
        BY <1>1, <2>1, <3>2, NewStatus DEF SetAttempt, AttemptRecord
      <3> QED BY <2>1, <3>1, <3>2, NewStatus
    <2>2. CASE BookFills
      BY <1>1, <2>2 DEF BookFills, Unbooked, WorkPcs, TryPcs
    <2>3. CASE Prepare
      <3>1. c # Cloid
        BY <2>3 DEF Prepare, InLoop, Cloid, WorkPcs, TryPcs
      <3> QED BY <2>3, <3>1, OthersStay
    <2>4. CASE UNCHANGED attempt
      BY <2>4
    <2>5. CASE PlaceResting \/ PlaceFilled \/ PlaceUnacknowledged
      BY <2>4, <2>5, Placement
    <2>6. CASE \/ \E d \in Cloids : OrderFills(d) \/ OrderCanceled(d)
                                    \/ FeedCatchesUp(d)
               \/ DeadmanFires
      BY <2>4, <2>6 DEF OrderFills, OrderCanceled, FeedCatchesUp, DeadmanFires,
          ledgerVars
    <2> QED BY <2>1, <2>2, <2>3, <2>4, <2>5, <2>6, Touches
  <1> QED BY <1>2, <1>3, <1>4 DEF Over

(* An intent that is settled is booked.                                     *)
LEMMA SettledIsBooked ==
    ASSUME SoloInv, Acknowledged, pc = "settle", NEW c \in OfIntent(cur)
    PROVE  Over(c)
  <1>1. FillInv /\ SerialInv /\ c \in Cloids
    BY DEF SoloInv, DoneInv, RiskInv, FillInv, EndInv, OfIntent
  <1>2. ~Open(c)
    <2>1. PICK n \in AttemptNos : c = <<cur, n>>
      BY DEF OfIntent, Cloids
    <2> QED BY <1>1, <2>1 DEF SerialInv, QuietOK, StatusPcs, FlightPcs
  <1>3. CASE attempt[c].status \in WithOid
    <2>1. attempt[c].booked = order[c].filled
      BY <1>1, <1>3 DEF FillInv, CountOK, Counted, Excepted, Live, LoopPcs,
          StatusPcs, WorkPcs, TryPcs
    <2> QED BY <1>2, <2>1 DEF Over
  <1>4. CASE attempt[c].status \notin WithOid
    <2>1. ~Placed(c)
      BY <1>1, <1>4 DEF SerialInv, KnownOK, InFlight, FlightPcs
    <2> QED BY <1>1, <1>2, <1>4, <2>1 DEF FillInv, RowsOK, Over
  <1> QED BY <1>3, <1>4

LEMMA BookedStep ==
    ASSUME SoloInv, BookedOK, ClosedOK, [Next]_vars
    PROVE  BookedOK'
  <1>1. FillInv /\ TypeInv /\ DoneOK /\ cur \in Int
    BY DEF SoloInv, DoneInv, RiskInv, FillInv, EndInv, ClaimInv, TypeInv,
        TypeOK, ProcessTypeOK
  <1> SUFFICES ASSUME lost' = 0
               PROVE  /\ pc' \in TryPcs => \A c \in Cloids :
                            c[1] < cur' => Over(c)'
                      /\ session' = "complete" => \A c \in Cloids : Over(c)'
    BY DEF BookedOK, Acknowledged
  <1>2. Acknowledged /\ \A c \in Cloids : c[1] \in Int /\ c[1] >= 1
    BY <1>1, LostGrows DEF Acknowledged, Cloids, Intents
  <1>3. ASSUME pc' \in TryPcs, NEW c \in Cloids, c[1] < cur'
        PROVE  Over(c)'
    <2>1. CASE pc \in TryPcs /\ cur' = cur
      <3>1. Over(c) /\ c[1] # cur
        BY <1>1, <1>2, <1>3, <2>1 DEF BookedOK
      <3> QED BY <1>1, <3>1, OverStays
    <2>2. CASE Settle /\ cur' = cur + 1
      <3>1. /\ pc = "settle" /\ pc \in TryPcs
            /\ UNCHANGED <<order, attempt>>
        BY <2>2 DEF Settle, TryPcs, exchangeVars
      <3>2. c[1] < cur \/ c \in OfIntent(cur)
        BY <1>1, <1>2, <1>3, <2>2 DEF OfIntent
      <3>3. Over(c)
        BY <1>2, <3>1, <3>2, SettledIsBooked DEF BookedOK
      <3> QED BY <3>1, <3>3 DEF Over, Open
    <2>3. CASE cur' = 1
      BY <1>2, <1>3, <2>3
    <2> QED BY <1>3, <2>1, <2>2, <2>3, CurMoves
  <1>4. ASSUME session' = "complete", NEW c \in Cloids
        PROVE  Over(c)'
    <2>1. CASE session = "complete"
      <3>1. Over(c) /\ pc \notin WorkPcs
        BY <1>2, <2>1 DEF BookedOK, ClosedOK, WorkPcs, TryPcs
      <3> QED BY <1>1, <3>1, OverStays
    <2>2. CASE session # "complete"
      <3>1. Postcheck
        BY <1>4, <2>2 DEF Next, ProcessStep, ExchangeStep, StartFresh,
      StartResume, Enter, SnapshotOk, SnapshotFails, ArmOk, ArmWaived, ArmFails,
      StartSession, ReconcileSkip, ReconcileQuery, ReconcileDone, QueryOpen,
      CancelAccepted, Resolve, BookFills, SyncDone, Exhausted, SkipTransmitted,
      AlreadyFilled, TakePrepared, Abandon, Reuse, Prepare, DriftCheck,
      PlaceResting, PlaceFilled, PlaceRefused, PlaceUnacknowledged, MarkRun,
      MarkIntent, RecordResting, RecordFilled, RecordRefused, Refuse, Settle,
      MarkRebalanced, Attention, Disarm, DisarmFails, Fail, Interrupt, Crash, OrderFills,
      OrderCanceled, FeedCatchesUp, DeadmanFires, ManualTrade, vars, ledgerVars
      <3>2. pc = "postcheck" /\ cur = Len(Plan) + 1
        BY <1>1, <3>1 DEF Postcheck, DoneOK
      <3>3. c[1] < cur
        BY <3>2, ConstantFacts DEF Cloids, Intents
      <3>4. Over(c)
        BY <1>2, <3>2, <3>3 DEF BookedOK, TryPcs
      <3> QED BY <3>1, <3>4 DEF Postcheck, exchangeVars, Over, Open
    <2> QED BY <2>1, <2>2
  <1> QED BY <1>3, <1>4

LEMMA QuietInvAlways == Spec => []QuietInv
  <1>1. Init => QuietInv
    <2>1. Init => BookedOK /\ ClosedOK
      BY DEF Init, BookedOK, ClosedOK, TryPcs
    <2> QED BY <2>1, SoloInit, PositionInit DEF QuietInv, PositionInv
  <1>2. QuietInv /\ [Next]_vars => QuietInv'
    <2> SUFFICES ASSUME QuietInv, [Next]_vars PROVE QuietInv'
      OBVIOUS
    <2>1. SoloInv /\ FillInv /\ PositionOK /\ BookedOK /\ ClosedOK
      BY DEF QuietInv, PositionInv, SoloInv, DoneInv, RiskInv
    <2>2. SoloInv' /\ PositionOK' /\ BookedOK' /\ ClosedOK'
      BY <2>1, SoloStep, PositionStep, BookedStep, ClosedStep
    <2> QED BY <2>2 DEF QuietInv, PositionInv
  <1> QED BY <1>1, <1>2, PTL DEF Spec

(* Where every order is over, the position is where the ledger says it is.  *)
LEMMA BookedPosition ==
    ASSUME FillInv, PositionOK, manual = 0, NEW t \in Tickers,
           \A c \in Cloids : Over(c)
    PROVE  position[t] = ExpectedPosition(t)
  <1>1. TypeOK /\ LedgerOK
    BY DEF FillInv, ClaimInv, TypeInv
  <1>2. ASSUME NEW i \in Intents PROVE Filled(i) = ledgerQty[i]
    <2>1. /\ IsFiniteSet(OfIntent(i)) /\ OfIntent(i) \subseteq Cloids
          /\ \A c \in OfIntent(i) :
                 FilledFn[c] \in Int /\ BookedFn[c] = FilledFn[c]
      BY <1>1, OfIntentFacts, FnTypes DEF Over, FilledFn, BookedFn
    <2>2. SumOf(FilledFn, OfIntent(i)) = SumOf(BookedFn, OfIntent(i))
      BY <2>1, SumSame
    <2> QED BY <1>1, <2>2, FilledIsSum DEF LedgerOK
  <1>3. \A i \in LegsOn(t) : MissingFn[i] = 0
    <2> TAKE i \in LegsOn(t)
    <2>1. i \in Intents
      BY OnFacts
    <2>2. /\ MissingFn[i] = Sign(i) * (Filled(i) - ledgerQty[i])
          /\ Filled(i) \in Int
      BY <1>1, <2>1, SignedFnTypes
    <2>3. MissingFn[i] = Sign(i) * 0
      BY <1>2, <2>1, <2>2
    <2> QED BY <2>1, <2>3, PlanTypes
  <1>4. Missing(t) = 0
    BY <1>1, <1>3, OnFacts, SumZero, MissingIsSum
  <1>5. /\ position[t] - ExpectedPosition(t) = Missing(t)
        /\ position[t] \in Int /\ ExpectedPosition(t) \in Int
    BY <1>1, DriftIsMissing
  <1> QED BY <1>4, <1>5

(* A completed run leaves nothing open or unbooked, and the position where  *)
(* the ledger says it is.                                                   *)
THEOREM CompletedIsQuiet == Spec => []CompleteIsQuiet
  <1>1. QuietInv => CompleteIsQuiet
    <2> SUFFICES ASSUME QuietInv, session = "complete", Acknowledged
                 PROVE  /\ \A c \in Cloids :
                              ~Open(c) /\ attempt[c].booked = order[c].filled
                        /\ manual = 0 => \A t \in DOMAIN Destination :
                              position[t] = ExpectedPosition(t)
      BY DEF CompleteIsQuiet
    <2>1. FillInv /\ PositionOK /\ \A c \in Cloids : Over(c)
      BY DEF QuietInv, BookedOK, PositionInv, SoloInv, DoneInv, RiskInv
    <2>2. DOMAIN Destination \subseteq Tickers
      BY PlanAssumption
    <2> QED BY <2>1, <2>2, BookedPosition DEF Over
  <1> QED BY QuietInvAlways, <1>1, PTL

-----------------------------------------------------------------------------
(* The rules of the dust                                                    *)

(* What an intent may lack at its end: nothing, or what was dust at the     *)
(* plan's price or a quote's nothing was sent at - an exact close never.    *)
Enough(i) ==
    \/ ledgerQty[i] >= Plan[i].quantity
    \/ ~ExactClose(i) /\ Plan[i].quantity <= ledgerQty[i] + Plan[i].refDust
    \/ \E c \in OfIntent(i) :
           /\ attempt[c].status \in Prepared /\ Tiny(c)
           /\ Plan[i].quantity <= ledgerQty[i] + attempt[c].dust

EnoughOK ==
    /\ \A i \in Intents : intentStatus[i] \in Done => Enough(i)
    /\ \A i \in Intents :
          i = cur /\ pc \in WorkPcs /\ finalStatus \in Done => Enough(i)

DustInv == QuietInv /\ EnoughOK

LEMMA EnoughStays ==
    ASSUME FillInv, VerdictOK, [Next]_vars, NEW i \in Intents, Enough(i)
    PROVE  Enough(i)'
  <1>1. ledgerQty[i] \in Nat /\ ledgerQty'[i] \in Int
        /\ ledgerQty[i] <= ledgerQty'[i] /\ Plan[i].quantity \in Nat
        /\ Plan[i].refDust \in Nat
    BY BooksGrow, PlanTypes, ConstantFacts DEF IntentRecord
  <1>2. CASE ledgerQty[i] >= Plan[i].quantity
    <2>1. ledgerQty'[i] >= Plan[i].quantity
      BY <1>1, <1>2
    <2> QED BY <2>1 DEF Enough
  <1>3. CASE ~ExactClose(i) /\ Plan[i].quantity <= ledgerQty[i] + Plan[i].refDust
    <2>1. Plan[i].quantity <= ledgerQty'[i] + Plan[i].refDust
      BY <1>1, <1>3
    <2> QED BY <1>3, <2>1 DEF Enough, ExactClose
  <1>4. CASE \E c \in OfIntent(i) :
                 /\ attempt[c].status \in Prepared /\ Tiny(c)
                 /\ Plan[i].quantity <= ledgerQty[i] + attempt[c].dust
    <2>1. PICK c \in OfIntent(i) :
              /\ attempt[c].status \in Prepared /\ Tiny(c)
              /\ Plan[i].quantity <= ledgerQty[i] + attempt[c].dust
      BY <1>4
    <2>2. c \in Cloids /\ attempt[c].dust \in Nat
      BY <2>1 DEF OfIntent, FillInv, ClaimInv, TypeInv, TypeOK, LedgerTypeOK,
          AttemptRecord
    <2>3. attempt'[c].status \in Prepared /\ Tiny(c)'
      BY <2>1, <2>2, TinyStays
    <2>4. attempt'[c].dust = attempt[c].dust
      <3>1. CASE Prepare
        <4>1. c # Cloid
          BY <2>1, <3>1, NewAttempt DEF FillInv, ClaimInv, Prepared
        <4> QED BY <2>2, <3>1, <4>1, OthersStay
      <3>2. CASE ~Prepare
        BY <2>2, <3>2, Statuses
      <3> QED BY <3>1, <3>2
    <2>5. Plan[i].quantity <= ledgerQty'[i] + attempt'[c].dust
      BY <1>1, <2>1, <2>2, <2>4
    <2> QED BY <2>1, <2>3, <2>5 DEF Enough, OfIntent
  <1> QED BY <1>2, <1>3, <1>4 DEF Enough

(* What remains is what the intent lacks.                                   *)
LEMMA LittleRemains ==
    ASSUME TypeInv, cur \in Intents, NEW b \in Nat, Remaining <= b
    PROVE  Plan[cur].quantity <= ledgerQty[cur] + b
  BY PlanTypes DEF TypeInv, TypeOK, LedgerTypeOK, Remaining

(* A verdict that ends the work on an intent leaves it with enough.         *)
LEMMA VerdictEnough ==
    ASSUME DoneInv, EnoughOK, [Next]_vars, Verdicts
    PROVE  \A i \in Intents :
               i = cur' /\ finalStatus' \in Done => Enough(i)'
  <1>1. FillInv /\ TypeInv /\ VerdictOK
        /\ attempt \in [Cloids -> AttemptRecord]
    BY DEF DoneInv, RiskInv, FillInv, ClaimInv, TypeInv, TypeOK, LedgerTypeOK
  <1>2. Judged /\ pc \in WorkPcs /\ cur \in Intents
    BY VerdictStep
  <1> SUFFICES ASSUME NEW i \in Intents, i = cur, finalStatus' \in Done
               PROVE  Enough(i)'
    BY <1>2 DEF Judged
  <1>3. ASSUME Enough(i) PROVE Enough(i)'
    BY <1>1, <1>3, EnoughStays
  <1>4. CASE finalStatus' = finalStatus
    BY <1>2, <1>3, <1>4 DEF EnoughOK
  <1>5. CASE finalStatus' # finalStatus
    <2>1. CASE SyncDone \/ AlreadyFilled
      <3>1. Remaining = 0
        BY <1>5, <2>1 DEF SyncDone, AlreadyFilled, Continue
      <3> QED BY <1>1, <1>2, <1>3, <3>1, NothingLacks DEF Enough
    <2>2. CASE TakePrepared
      <3>1. PreparedFound /\ Cloid \in Cloids
        BY <1>1, <2>2, NewStatus DEF TakePrepared, PreparedFound
      <3>2. attempt[Cloid].quantity = Remaining
        BY <1>1, <3>1, SizeStands DEF PreparedFound
      <3>3. Reuse /\ attempt[Cloid].status \in Prepared
        BY <2>2, <3>1, <3>2 DEF TakePrepared, PreparedFound
      <3>4. Remaining <= attempt[Cloid].dust /\ ~ExactClose(cur)
        BY <1>5, <3>3 DEF Reuse, Continue, SizeVerdict
      <3>5. attempt[Cloid].dust \in Nat
        BY <1>1, <3>1 DEF AttemptRecord
      <3>6. Plan[i].quantity <= ledgerQty[i] + attempt[Cloid].dust
        BY <1>1, <1>2, <3>4, <3>5, LittleRemains
      <3>7. Tiny(Cloid) /\ Cloid \in OfIntent(i)
        BY <3>1, <3>2, <3>4 DEF Tiny, Cloid, OfIntent
      <3>8. Enough(i)
        BY <3>3, <3>6, <3>7 DEF Enough
      <3> QED BY <1>3, <3>8
    <2>3. CASE Prepare
      <3>1. PICK dust \in DustLots :
              /\ attempt' = [attempt EXCEPT ![Cloid] =
                              [status |-> "prepared", quantity |-> Remaining,
                               dust |-> dust, booked |-> 0]]
              /\ Continue(SizeVerdict(dust))
        BY <2>3 DEF Prepare
      <3>2. Cloid \in Cloids /\ UNCHANGED ledgerQty
        BY <1>1, <2>3, NewAttempt
      <3>3. Remaining <= dust /\ ~ExactClose(cur) /\ dust \in Nat
        BY <1>5, <3>1, ConstantFacts DEF Continue, SizeVerdict
      <3>4. Plan[i].quantity <= ledgerQty'[i] + dust
        BY <1>1, <1>2, <3>2, <3>3, LittleRemains
      <3>5. /\ attempt'[Cloid].status \in Prepared
            /\ attempt'[Cloid].quantity = Remaining
            /\ attempt'[Cloid].dust = dust
        BY <1>1, <3>1, <3>2 DEF Prepared
      <3>6. PICK c \in OfIntent(i) : c = Cloid
        BY <3>2 DEF OfIntent, Cloid
      <3>7. attempt'[c].status \in Prepared /\ Tiny(c)'
            /\ Plan[i].quantity <= ledgerQty'[i] + attempt'[c].dust
        BY <3>3, <3>4, <3>5, <3>6 DEF Tiny, ExactClose, Cloid
      <3> QED BY <3>7 DEF Enough, OfIntent
    <2> QED BY <2>1, <2>2, <2>3 DEF Verdicts
  <1> QED BY <1>4, <1>5

LEMMA SettledEnough ==
    ASSUME DoneInv, EnoughOK, Settle, FinalOf \in Done
    PROVE  Enough(cur)
  <1>1. TypeInv /\ pc \in WorkPcs
    BY DEF DoneInv, RiskInv, FillInv, ClaimInv, Settle, WorkPcs, TryPcs
  <1>2. cur \in Intents /\ Plan[cur].refDust \in Nat
    BY <1>1, PlanTypes, ConstantFacts DEF TypeInv, CursorOK, IntentRecord
  <1>3. CASE finalStatus \in Done
    BY <1>1, <1>2, <1>3 DEF EnoughOK
  <1>4. CASE finalStatus \notin Done /\ Remaining = 0
    BY <1>1, <1>2, <1>4, NothingLacks DEF Enough
  <1>5. CASE finalStatus \notin Done /\ Remaining # 0
    <2>1. Remaining <= Plan[cur].refDust /\ ~ExactClose(cur)
      BY <1>5 DEF FinalOf, Done
    <2> QED BY <1>1, <1>2, <2>1, LittleRemains DEF Enough
  <1> QED BY <1>3, <1>4, <1>5

LEMMA EnoughStep ==
    ASSUME DoneInv, EnoughOK, [Next]_vars
    PROVE  EnoughOK'
  <1>1. FillInv /\ TypeInv /\ VerdictOK
        /\ intentStatus \in [Intents -> IntentStatuses]
    BY DEF DoneInv, RiskInv, FillInv, ClaimInv, TypeInv, TypeOK, LedgerTypeOK
  <1>2. \A i \in Intents : Enough(i) => Enough(i)'
    BY <1>1, EnoughStays
  <1>3. ASSUME NEW i \in Intents, intentStatus'[i] \in Done
        PROVE  Enough(i)'
    <2>1. CASE UNCHANGED intentStatus
      BY <1>2, <1>3, <2>1 DEF EnoughOK
    <2>2. CASE MarkIntent \/ Refuse
      <3>1. \E s \in {"submitted", "rejected"} :
                intentStatus' = [intentStatus EXCEPT ![cur] = s]
        BY <2>2 DEF MarkIntent, Refuse
      <3>2. intentStatus[i] \in Done
        BY <1>1, <1>3, <3>1 DEF Done
      <3> QED BY <1>2, <3>2 DEF EnoughOK
    <2>3. CASE Settle
      <3>1. intentStatus' = [intentStatus EXCEPT ![cur] = FinalOf]
        BY <2>3 DEF Settle
      <3>2. CASE i = cur
        <4>1. FinalOf \in Done
          BY <1>1, <1>3, <3>1, <3>2
        <4> QED BY <1>2, <2>3, <3>2, <4>1, SettledEnough
      <3>3. CASE i # cur
        BY <1>1, <1>2, <1>3, <3>1, <3>3 DEF EnoughOK
      <3> QED BY <3>2, <3>3
    <2> QED BY <2>1, <2>2, <2>3, StatusMoves
  <1>4. ASSUME NEW i \in Intents, i = cur', pc' \in WorkPcs,
               finalStatus' \in Done
        PROVE  Enough(i)'
    <2>1. CASE Leaves
      BY <1>4, <2>1 DEF Leaves
    <2>2. CASE QuietMove
      BY <1>2, <1>4, <2>2 DEF QuietMove, EnoughOK
    <2>3. CASE Verdicts
      BY <1>4, <2>3, VerdictEnough
    <2>4. CASE StartSession \/ (Settle /\ FinalOf # "unfilled")
      <3>1. PICK j : BeginIntent(j) /\ (Settle => j = cur + 1)
        BY <2>4 DEF StartSession, Settle
      <3>2. cur' = j /\ finalStatus' = intentStatus[j]
        BY <1>4, <3>1 DEF BeginIntent, WorkPcs
      <3>3. intentStatus'[i] = intentStatus[i]
        <4>1. CASE StartSession
          BY <4>1 DEF StartSession
        <4>2. CASE Settle
          <5>1. intentStatus' = [intentStatus EXCEPT ![cur] = FinalOf]
            BY <4>2 DEF Settle
          <5>2. i = cur + 1 /\ cur \in Int
            BY <1>1, <1>4, <3>1, <3>2, <4>2 DEF TypeInv, TypeOK, ProcessTypeOK
          <5> QED BY <1>1, <5>1, <5>2
        <4> QED BY <2>4, <4>1, <4>2
      <3> QED BY <1>3, <1>4, <3>2, <3>3
    <2>5. CASE Settle /\ FinalOf = "unfilled"
      BY <1>4, <2>5 DEF Settle, WorkPcs, TryPcs
    <2> QED BY <1>1, <2>1, <2>2, <2>3, <2>4, <2>5, WorkCases
  <1> QED BY <1>3, <1>4 DEF EnoughOK

LEMMA DustInvAlways == Spec => []DustInv
  <1>1. Init => EnoughOK
    BY DEF Init, EnoughOK, Done, WorkPcs, TryPcs
  <1>2. QuietInv /\ EnoughOK /\ [Next]_vars => EnoughOK'
    BY EnoughStep DEF QuietInv, PositionInv, SoloInv
  <1>3. DustInv <=> QuietInv /\ EnoughOK
    BY DEF DustInv
  <1> QED BY QuietInvAlways, <1>1, <1>2, <1>3, PTL DEF Spec

(* What the legs of the plan leave of the way to the destination.           *)
PlanFn == [i \in Intents |-> Sign(i) * Plan[i].quantity]
SlackFn == [i \in Intents |-> Sign(i) * (Plan[i].quantity - ledgerQty[i])]

PlanTerm(g, s) ==
    IF s = {} THEN 0 ELSE Sign(First(s)) * Plan[First(s)].quantity + g[Rest(s)]

LEMMA LeftOutFold ==
    ASSUME NEW t
    PROVE  LeftOut(t) = Destination[t] - (Current[t] +
             (CHOOSE g : g = [s \in SUBSET LegsOn(t) |-> PlanTerm(g, s)])[LegsOn(t)])
  BY DEF LeftOut, MapThenSumSet, MapThenFoldSet, PlanTerm, First, Rest

LEMMA LeftOutIsSum ==
    ASSUME NEW t
    PROVE  LeftOut(t) = Destination[t] - (Current[t] + SumOf(PlanFn, LegsOn(t)))
  <1> DEFINE S == LegsOn(t)
             P(g) == g = [s \in SUBSET S |-> PlanTerm(g, s)]
  <1>1. IsFiniteSet(S) /\ S \subseteq Intents /\ \A i \in S : PlanFn[i] \in Int
    <2>1. IsFiniteSet(S) /\ S \subseteq Intents
      BY OnFacts
    <2>2. \A i \in Intents : PlanFn[i] \in Int
      BY SignTimes, PlanTypes DEF PlanFn
    <2> QED BY <2>1, <2>2
  <1>2. \A s \in SUBSET S : s # {} =>
            PlanFn[First(s)] = Sign(First(s)) * Plan[First(s)].quantity
    BY <1>1 DEF First, PlanFn
  <1>3. ASSUME NEW g PROVE P(g) <=> IsSum(g, PlanFn, S)
    <2>1. \A s \in SUBSET S : PlanTerm(g, s) = Term(PlanFn, g, s)
      BY <1>2 DEF PlanTerm, Term
    <2> QED BY <2>1 DEF IsSum
  <1>4. P(SumFn(PlanFn, S))
    BY <1>1, <1>3, SumFnFacts
  <1>5. P(CHOOSE g : P(g))
    BY <1>4
  <1>6. (CHOOSE g : P(g)) = SumFn(PlanFn, S)
    BY <1>1, <1>3, <1>5, SumFnFacts, SumUnique
  <1> QED BY <1>6, LeftOutFold DEF SumOf

LEMMA SlackTypes ==
    ASSUME TypeOK, NEW i \in Intents
    PROVE  /\ PlanFn[i] \in Int /\ LedgerFn[i] \in Int /\ SlackFn[i] \in Int
           /\ PlanFn[i] = SlackFn[i] + LedgerFn[i]
  <1> DEFINE x == Plan[i].quantity
             y == ledgerQty[i]
  <1>1. x \in Int /\ y \in Int
    BY PlanTypes DEF TypeOK, LedgerTypeOK
  <1>2. /\ PlanFn[i] = Sign(i) * x /\ LedgerFn[i] = Sign(i) * y
        /\ SlackFn[i] = Sign(i) * (x - y)
    BY DEF PlanFn, LedgerFn, SlackFn
  <1> HIDE DEF x, y
  <1>3. /\ Sign(i) * (x - y) = Sign(i) * x - Sign(i) * y
        /\ Sign(i) * x \in Int /\ Sign(i) * y \in Int
    BY <1>1, SignTimes
  <1> QED BY <1>2, <1>3

LEMMA SignedSlack ==
    ASSUME NEW i \in Intents, NEW n \in Int, n >= 0
    PROVE  AbsVal(Sign(i) * n) = n
  <1>1. CASE Plan[i].side = "BUY"
    <2>1. Sign(i) = 1
      BY <1>1 DEF Sign
    <2>2. Sign(i) * n = n
      BY <2>1
    <2> QED BY <2>2 DEF AbsVal
  <1>2. CASE Plan[i].side # "BUY"
    <2>1. Sign(i) = -1
      BY <1>2 DEF Sign
    <2>2. Sign(i) * n = 0 - n
      BY <2>1
    <2> HIDE DEF Sign
    <2>3. CASE n = 0
      BY <2>2, <2>3 DEF AbsVal
    <2>4. CASE n > 0
      <3> DEFINE m == Sign(i) * n
      <3>1. m = 0 - n /\ m < 0 /\ -m = n
        BY <2>2, <2>4
      <3> HIDE DEF m
      <3>2. AbsVal(m) = n
        BY <3>1 DEF AbsVal
      <3> QED BY <3>2 DEF m
    <2> QED BY <2>3, <2>4
  <1> QED BY <1>1, <1>2

(* If every intent lacks at most d, so do the legs of a ticker together.    *)
LEMMA SlackSum ==
    ASSUME TypeOK, NEW d \in Nat, NEW t \in DOMAIN Destination,
           \A i \in LegsOn(t) :
               /\ ledgerQty[i] <= Plan[i].quantity
               /\ Plan[i].quantity - ledgerQty[i] <= d
               /\ ExactClose(i) => ledgerQty[i] = Plan[i].quantity
    PROVE  /\ SumOf(SlackFn, LegsOn(t)) \in Int
           /\ \/ SumOf(SlackFn, LegsOn(t)) = 0
              \/ /\ LeftOut(t) = 0 /\ Destination[t] # 0
                 /\ AbsVal(SumOf(SlackFn, LegsOn(t))) <= d
  <1>1. IsFiniteSet(LegsOn(t)) /\ LegsOn(t) \subseteq Intents
        /\ \A i \in LegsOn(t) : SlackFn[i] \in Int
    BY OnFacts, SlackTypes
  <1>2. ASSUME NEW i \in LegsOn(t), ExactClose(i)
        PROVE  SlackFn[i] = 0
    <2>1. i \in Intents /\ Plan[i].quantity \in Nat
      BY <1>1, PlanTypes
    <2>2. SlackFn[i] = Sign(i) * 0
      BY <1>2, <2>1 DEF SlackFn
    <2> QED BY <2>1, <2>2, PlanTypes
  <1>3. CASE \A i \in LegsOn(t) : ExactClose(i)
    <2>1. SumOf(SlackFn, LegsOn(t)) = 0
      BY <1>1, <1>2, <1>3, SumZero
    <2> QED BY <2>1
  <1>4. CASE ~(\A i \in LegsOn(t) : ExactClose(i))
    <2>1. PICK j \in LegsOn(t) : ~ExactClose(j)
      BY <1>4
    <2>2. LeftOut(t) = 0 /\ Destination[t] # 0
          /\ \A i \in LegsOn(t) \ {j} : ExactClose(i)
      BY <2>1, LegsAssumption
    <2>3. SumOf(SlackFn, LegsOn(t) \ {j}) = 0
      <3>1. IsFiniteSet(LegsOn(t) \ {j}) /\ \A i \in LegsOn(t) \ {j} : SlackFn[i] = 0
        BY <1>1, <1>2, <2>2, FS_Subset
      <3> QED BY <3>1, SumZero
    <2>4. SumOf(SlackFn, LegsOn(t)) = SlackFn[j] + SumOf(SlackFn, LegsOn(t) \ {j})
      BY <1>1, <2>1, SumTake
    <2>5. SumOf(SlackFn, LegsOn(t)) = SlackFn[j] /\ SlackFn[j] \in Int
      BY <1>1, <2>1, <2>3, <2>4
    <2> DEFINE n == Plan[j].quantity - ledgerQty[j]
    <2>6. n \in Int /\ n >= 0 /\ n <= d
      <3>1. j \in Intents
        BY <1>1, <2>1
      <3>2. Plan[j].quantity \in Int /\ ledgerQty[j] \in Int
        BY <3>1, PlanTypes DEF TypeOK, LedgerTypeOK
      <3> QED BY <3>1, <3>2
    <2>7. SlackFn[j] = Sign(j) * n
      BY <1>1, <2>1 DEF SlackFn
    <2> HIDE DEF n
    <2>8. AbsVal(SlackFn[j]) = n
      BY <1>1, <2>1, <2>6, <2>7, SignedSlack
    <2> QED BY <2>2, <2>5, <2>6, <2>8
  <1> QED BY <1>3, <1>4

(* Where everything is booked, the position is what the plan aims at but    *)
(* for what its intents lack.                                               *)
LEMMA PositionLacks ==
    ASSUME TypeOK, NEW t \in Tickers, position[t] = ExpectedPosition(t),
           Destination[t] \in Int
    PROVE  /\ position[t] - Destination[t]
                = 0 - LeftOut(t) - SumOf(SlackFn, LegsOn(t))
           /\ LeftOut(t) \in Int /\ SumOf(SlackFn, LegsOn(t)) \in Int
           /\ position[t] \in Int
  <1>1. IsFiniteSet(LegsOn(t)) /\ LegsOn(t) \subseteq Intents
        /\ LegsOn(t) \in SUBSET LegsOn(t)
    BY OnFacts
  <1>2. \A i \in LegsOn(t) :
            /\ SlackFn[i] \in Int /\ LedgerFn[i] \in Int /\ PlanFn[i] \in Int
            /\ PlanFn[i] = SlackFn[i] + LedgerFn[i]
    BY <1>1, SlackTypes
  <1>3. SumOf(PlanFn, LegsOn(t)) = SumOf(SlackFn, LegsOn(t)) + SumOf(LedgerFn, LegsOn(t))
    BY <1>1, <1>2, SumAdd
  <1>4. /\ SumOf(SlackFn, LegsOn(t)) \in Int /\ SumOf(LedgerFn, LegsOn(t)) \in Int
        /\ SumOf(PlanFn, LegsOn(t)) \in Int
    BY <1>1, <1>2, SumOfSubset
  <1>5. position[t] = Current[t] + SumOf(LedgerFn, LegsOn(t)) /\ Current[t] \in Int
    BY ExpectedIsSum, ConstantFacts
  <1> QED BY <1>3, <1>4, <1>5, LeftOutIsSum

(* A plan that reaches its targets but for dust, carried out to its end,    *)
(* passes the verification of the run at every mark that is not above the   *)
(* prices its leftovers were dust at: those of the plan, and those quoted   *)
(* to attempts that were never sent, whatever they were.                    *)
THEOREM DustIsForgiven == Spec => []DustRulesAgree
  <1>1. DustInv /\ NoOverfill => DustRulesAgree
    <2> SUFFICES ASSUME DustInv, NoOverfill, pc = "postcheck", Acknowledged,
                        manual = 0, NEW t \in DOMAIN Destination,
                        NEW d \in DustLots, \A b \in DustPrices(t) : b <= d
                 PROVE  PostOk(t, d)
      BY DEF DustRulesAgree
    <2>1. /\ TypeOK /\ LedgerOK /\ PositionOK /\ FillInv /\ EnoughOK /\ DoneOK
          /\ BookedOK /\ t \in Tickers
      BY PlanAssumption
      DEF DustInv, QuietInv, PositionInv, SoloInv, DoneInv, RiskInv, FillInv,
          EndInv, ClaimInv, TypeInv
    <2>2. cur = Len(Plan) + 1 /\ pc \in TryPcs
          /\ \A i \in Intents : i < cur
      BY <2>1, ConstantFacts DEF DoneOK, TryPcs, Intents
    <2>3. \A c \in Cloids : Over(c)
      BY <2>1, <2>2 DEF BookedOK, Cloids
    <2>4. \A i \in Intents : Enough(i)
      BY <2>1, <2>2 DEF DoneOK, EnoughOK
    <2>5. d \in Nat /\ WithinMinimum(d) \in Nat /\ d <= WithinMinimum(d)
      BY ConstantFacts DEF WithinMinimum
    <2>6. ASSUME NEW i \in LegsOn(t)
          PROVE  /\ ledgerQty[i] <= Plan[i].quantity
                 /\ Plan[i].quantity - ledgerQty[i] <= d
                 /\ ExactClose(i) => ledgerQty[i] = Plan[i].quantity
      <3>1. /\ i \in Intents /\ ledgerQty[i] \in Nat /\ Plan[i].quantity \in Nat
            /\ Plan[i].refDust \in Nat
        BY <2>1, OnFacts, PlanTypes, ConstantFacts
        DEF TypeOK, LedgerTypeOK, IntentRecord
      <3>2. ledgerQty[i] <= Plan[i].quantity
        <4>1. ledgerQty[i] <= Filled(i) /\ Filled(i) <= AtRisk(i)
              /\ Filled(i) \in Int /\ AtRisk(i) \in Int
          BY <2>1, <3>1, BookedFilledRisk
        <4>2. AtRisk(i) <= Plan[i].quantity
          BY <3>1 DEF NoOverfill
        <4> QED BY <3>1, <4>1, <4>2
      <3>3. CASE ledgerQty[i] >= Plan[i].quantity
        BY <2>5, <3>1, <3>2, <3>3
      <3>4. CASE ~(ledgerQty[i] >= Plan[i].quantity)
        <4>1. LeftAt(i) \subseteq DustPrices(t)
          BY <3>1, <3>4 DEF DustPrices
        <4>2. PICK b \in LeftAt(i) :
                  b \in Nat /\ ~ExactClose(i)
                  /\ Plan[i].quantity <= ledgerQty[i] + b
          <5>1. CASE /\ ~ExactClose(i)
                     /\ Plan[i].quantity <= ledgerQty[i] + Plan[i].refDust
            BY <3>1, <5>1 DEF LeftAt
          <5>2. CASE \E c \in OfIntent(i) :
                       /\ attempt[c].status \in Prepared /\ Tiny(c)
                       /\ Plan[i].quantity <= ledgerQty[i] + attempt[c].dust
            <6>1. PICK c \in OfIntent(i) :
                       /\ attempt[c].status \in Prepared /\ Tiny(c)
                       /\ Plan[i].quantity <= ledgerQty[i] + attempt[c].dust
              BY <5>2
            <6>2. attempt[c].dust \in LeftAt(i) /\ c[1] = i
              BY <6>1 DEF LeftAt, OfIntent
            <6>3. attempt[c].dust \in Nat
              BY <2>1, <6>1 DEF OfIntent, TypeOK, LedgerTypeOK, AttemptRecord
            <6> QED BY <6>1, <6>2, <6>3 DEF Tiny
          <5> QED BY <2>4, <3>1, <3>4, <5>1, <5>2 DEF Enough
        <4>3. b <= d
          BY <4>1, <4>2
        <4> QED BY <2>5, <3>1, <3>2, <4>2, <4>3
      <3> QED BY <3>3, <3>4
    <2>7. position[t] = ExpectedPosition(t)
      BY <2>1, <2>3, BookedPosition
    <2> DEFINE s == SumOf(SlackFn, LegsOn(t))
               o == LeftOut(t)
               x == position[t] - Destination[t]
               w == WithinMinimum(d)
    <2>8. Destination[t] \in Int
      BY LegsAssumption
    <2>9. x = 0 - o - s /\ o \in Int /\ s \in Int /\ x \in Int
      BY <2>1, <2>7, <2>8, PositionLacks
    <2>10. \/ s = 0
           \/ o = 0 /\ Destination[t] # 0 /\ AbsVal(s) <= d
      BY <2>1, <2>5, <2>6, SlackSum
    <2>11. AbsVal(o) <= d /\ (Destination[t] = 0 => o = 0)
      BY LegsAssumption DEF DustPrices
    <2>12. PostOk(t, d) <=>
               AbsVal(x) <= (IF Destination[t] = 0 \/ w = 0 THEN 1 ELSE w)
      BY DEF PostOk
    <2>13. w \in Nat /\ d <= w /\ d \in Nat
      BY <2>5
    <2> HIDE DEF s, o, x, w
    <2>14. CASE s = 0
      <3>1. x = 0 - o
        BY <2>9, <2>14
      <3>2. AbsVal(x) <= d /\ AbsVal(x) \in Int /\ (Destination[t] = 0 => x = 0)
        BY <2>9, <2>11, <2>13, <3>1 DEF AbsVal
      <3>3. x = 0 => AbsVal(x) = 0
        BY DEF AbsVal
      <3> QED BY <2>12, <2>13, <3>2, <3>3
    <2>15. CASE o = 0 /\ Destination[t] # 0 /\ AbsVal(s) <= d
      <3>1. x = 0 - s
        BY <2>9, <2>15
      <3>2. AbsVal(x) <= d /\ AbsVal(x) \in Int
        BY <2>9, <2>13, <2>15, <3>1 DEF AbsVal
      <3> QED BY <2>12, <2>13, <2>15, <3>2
    <2> QED BY <2>10, <2>14, <2>15
  <1> QED BY DustInvAlways, NothingOverfills, <1>1, PTL
-----------------------------------------------------------------------------
(* How far a run is                                                         *)

(* Where execute_run is, what it does for an intent taken as one place ...  *)
Stage(p) ==
    CASE p = "snapshot" -> 0
      [] p = "arm" -> 1
      [] p = "session" -> 2
      [] p \in WorkPcs -> 3
      [] p = "postcheck" -> 4
      [] p = "archive" -> 5
      [] p = "except" -> 6
      [] p = "disarm" -> 7
      [] OTHER -> 8

(* ... and where within one attempt.                                        *)
Turn(p) ==
    CASE p = "reconcile" -> 0
      [] p = "attempt" -> 1
      [] p = "check" -> 2
      [] p = "send" -> 3
      [] p = "markRun" -> 4
      [] p = "markIntent" -> 5
      [] p = "record" -> 6
      [] p = "query" -> 7
      [] p = "cancel" -> 8
      [] p = "await" -> 9
      [] p = "sync" -> 10
      [] p = "settle" -> 11
      [] p = "refuse" -> 12
      [] OTHER -> 0

Round == IF phase = "live" THEN 1 ELSE 0
Booked == IF cur \in Intents THEN ledgerQty[cur] ELSE 0

(* Six digits, the one on the left the highest.                             *)
Pack(a, b, base) == a * base + b
Packed(s, c, r, n, t, q, most) ==
    Pack(Pack(Pack(Pack(Pack(s, c, Len(Plan) + 2), r, 2), n, MaxAttempts + 1),
              t, 13), q, most + 1)

(* More lots than any intent can ever book.                                 *)
BookableFn == [i \in Intents |-> (MaxLost + 1) * Plan[i].quantity]
Bookable == SumOf(BookableFn, Intents)

StepsDone == Packed(Stage(pc), cur, Round, no, Turn(pc), Booked, Bookable)
MostSteps == Packed(8, Len(Plan) + 1, 1, MaxAttempts, 12, Bookable, Bookable)

LEMMA PackMonotone ==
    ASSUME NEW a \in Nat, NEW b \in Nat, NEW x \in Nat, NEW y \in Nat,
           NEW base \in Nat, b < base, y < base
    PROVE  /\ Pack(a, b, base) \in Nat
           /\ a < x => Pack(a, b, base) < Pack(x, y, base)
           /\ a = x /\ b < y => Pack(a, b, base) < Pack(x, y, base)
           /\ a <= x /\ b <= y => Pack(a, b, base) <= Pack(x, y, base)
  <1>1. a * base \in Nat /\ x * base \in Nat
    OBVIOUS
  <1>2. ASSUME a < x PROVE a * base + base <= x * base
    <2>1. PICK k \in Nat : x = (a + 1) + k
      <3>1. x - (a + 1) \in Nat /\ x = (a + 1) + (x - (a + 1))
        BY <1>2
      <3> QED BY <3>1
    <2>2. x * base = a * base + base + k * base /\ k * base \in Nat
      BY <2>1
    <2> QED BY <1>1, <2>2
  <1>3. a <= x => a * base <= x * base
    <2>1. a <= x => a < x \/ a = x
      OBVIOUS
    <2> QED BY <1>1, <1>2, <2>1
  <1> DEFINE u == a * base
             v == x * base
  <1>4. /\ u \in Nat /\ v \in Nat /\ (a < x => u + base <= v)
        /\ (a <= x => u <= v) /\ (a = x => u = v)
    BY <1>1, <1>2, <1>3
  <1>5. Pack(a, b, base) = u + b /\ Pack(x, y, base) = v + y
    BY DEF Pack
  <1> HIDE DEF u, v
  <1> QED BY <1>4, <1>5

(* One more digit keeps the order.                                          *)
LEMMA PackOrder ==
    ASSUME NEW a \in Nat, NEW b \in Nat, NEW x \in Nat, NEW y \in Nat,
           NEW base \in Nat, b < base, y < base
    PROVE  /\ Pack(a, b, base) \in Nat /\ Pack(x, y, base) \in Nat
           /\ a < x => Pack(a, b, base) < Pack(x, y, base)
           /\ a = x /\ b < y => Pack(a, b, base) < Pack(x, y, base)
           /\ a = x /\ b = y => Pack(a, b, base) = Pack(x, y, base)
           /\ a <= x /\ b <= y => Pack(a, b, base) <= Pack(x, y, base)
  BY PackMonotone

(* The order of the numbers is the one of their digits.                     *)
LEMMA PackedOrder ==
    ASSUME NEW s \in 0..8, NEW c \in 0..(Len(Plan) + 1), NEW r \in 0..1,
           NEW n \in 0..MaxAttempts, NEW t \in 0..12,
           NEW most \in Nat, NEW q \in 0..most,
           NEW s2 \in 0..8, NEW c2 \in 0..(Len(Plan) + 1), NEW r2 \in 0..1,
           NEW n2 \in 0..MaxAttempts, NEW t2 \in 0..12, NEW q2 \in 0..most
    PROVE  /\ Packed(s, c, r, n, t, q, most) \in Nat
           /\ \/ s < s2
              \/ s = s2 /\ c < c2
              \/ s = s2 /\ c = c2 /\ r < r2
              \/ s = s2 /\ c = c2 /\ r = r2 /\ n < n2
              \/ s = s2 /\ c = c2 /\ r = r2 /\ n = n2 /\ t < t2
              \/ s = s2 /\ c = c2 /\ r = r2 /\ n = n2 /\ t = t2 /\ q < q2
              => Packed(s, c, r, n, t, q, most)
                     < Packed(s2, c2, r2, n2, t2, q2, most)
           /\ s <= s2 /\ c <= c2 /\ r <= r2 /\ n <= n2 /\ t <= t2 /\ q <= q2
              => Packed(s, c, r, n, t, q, most)
                     <= Packed(s2, c2, r2, n2, t2, q2, most)
  <1> DEFINE L == Len(Plan) + 2
             M == MaxAttempts + 1
             a1 == Pack(s, c, L)
             b1 == Pack(s2, c2, L)
             a2 == Pack(a1, r, 2)
             b2 == Pack(b1, r2, 2)
             a3 == Pack(a2, n, M)
             b3 == Pack(b2, n2, M)
             a4 == Pack(a3, t, 13)
             b4 == Pack(b3, t2, 13)
             a5 == Pack(a4, q, most + 1)
             b5 == Pack(b4, q2, most + 1)
  <1>1. Packed(s, c, r, n, t, q, most) = a5
        /\ Packed(s2, c2, r2, n2, t2, q2, most) = b5
    BY DEF Packed
  <1>2. L \in Nat /\ M \in Nat /\ c < L /\ c2 < L /\ n < M /\ n2 < M
        /\ c \in Nat /\ c2 \in Nat /\ n \in Nat /\ n2 \in Nat
        /\ s \in Nat /\ s2 \in Nat
    BY ConstantFacts DEF MaxAttempts
  <1>3. r \in Nat /\ r2 \in Nat /\ r < 2 /\ r2 < 2 /\ t \in Nat /\ t2 \in Nat
        /\ t < 13 /\ t2 < 13 /\ q \in Nat /\ q2 \in Nat /\ most + 1 \in Nat
        /\ q < most + 1 /\ q2 < most + 1 /\ 2 \in Nat /\ 13 \in Nat
    OBVIOUS
  <1> HIDE DEF L, M
  <1>4. /\ a1 \in Nat /\ b1 \in Nat
        /\ s < s2 => a1 < b1
        /\ s = s2 /\ c < c2 => a1 < b1
        /\ s = s2 /\ c = c2 => a1 = b1
        /\ s <= s2 /\ c <= c2 => a1 <= b1
    BY <1>2, PackOrder
  <1> HIDE DEF a1, b1
  <1>5. /\ a2 \in Nat /\ b2 \in Nat
        /\ a1 < b1 => a2 < b2
        /\ a1 = b1 /\ r < r2 => a2 < b2
        /\ a1 = b1 /\ r = r2 => a2 = b2
        /\ a1 <= b1 /\ r <= r2 => a2 <= b2
    BY <1>3, <1>4, PackOrder
  <1> HIDE DEF a2, b2
  <1>6. /\ a3 \in Nat /\ b3 \in Nat
        /\ a2 < b2 => a3 < b3
        /\ a2 = b2 /\ n < n2 => a3 < b3
        /\ a2 = b2 /\ n = n2 => a3 = b3
        /\ a2 <= b2 /\ n <= n2 => a3 <= b3
    BY <1>2, <1>5, PackOrder
  <1> HIDE DEF a3, b3
  <1>7. /\ a4 \in Nat /\ b4 \in Nat
        /\ a3 < b3 => a4 < b4
        /\ a3 = b3 /\ t < t2 => a4 < b4
        /\ a3 = b3 /\ t = t2 => a4 = b4
        /\ a3 <= b3 /\ t <= t2 => a4 <= b4
    BY <1>3, <1>6, PackOrder
  <1> HIDE DEF a4, b4
  <1>8. /\ a5 \in Nat /\ b5 \in Nat
        /\ a4 < b4 => a5 < b5
        /\ a4 = b4 /\ q < q2 => a5 < b5
        /\ a4 <= b4 /\ q <= q2 => a5 <= b5
    BY <1>3, <1>7, PackOrder
  <1> HIDE DEF a5, b5
  <1> QED BY <1>1, <1>4, <1>5, <1>6, <1>7, <1>8

LEMMA BookableBounds ==
    ASSUME NEW i \in Intents
    PROVE  /\ Bookable \in Nat
           /\ (MaxLost + 1) * Plan[i].quantity <= Bookable
           /\ (MaxLost + 1) * Plan[i].quantity \in Nat
  <1>1. IsFiniteSet(Intents)
    BY FS_Interval, ConstantFacts DEF Intents
  <1>2. \A j \in Intents : BookableFn[j] \in Nat
    BY PlanTypes, ConstantFacts DEF BookableFn
  <1> DEFINE None == [j \in Intents |-> 0]
             R == Intents \ {i}
  <1>3. Bookable = BookableFn[i] + SumOf(BookableFn, R)
        /\ SumOf(BookableFn, R) \in Int
    BY <1>1, <1>2, SumTake DEF Bookable
  <1>4. SumOf(BookableFn, R) >= 0
    <2>1. IsFiniteSet(R) /\ R \subseteq Intents
      BY <1>1, FS_Subset
    <2>2. \A j \in R : None[j] \in Int /\ BookableFn[j] \in Int
                       /\ None[j] <= BookableFn[j] /\ None[j] = 0
      BY <1>2, <2>1
    <2> HIDE DEF None, R
    <2>3. SumOf(None, R) <= SumOf(BookableFn, R) /\ SumOf(None, R) = 0
      BY <2>1, <2>2, SumMonotone, SumZero
    <2> QED BY <1>3, <2>3
  <1>5. BookableFn[i] = (MaxLost + 1) * Plan[i].quantity
        /\ BookableFn[i] \in Nat
    BY <1>2 DEF BookableFn
  <1> HIDE DEF R
  <1> QED BY <1>3, <1>4, <1>5

LEMMA NoneBookable ==
    ASSUME Intents = {}
    PROVE  Bookable = 0
  BY SumOfEmpty DEF Bookable

DigitsOK ==
    /\ Stage(pc) \in 0..8 /\ cur \in 0..(Len(Plan) + 1)
    /\ Round \in 0..1 /\ no \in 0..MaxAttempts /\ Turn(pc) \in 0..12
    /\ Bookable \in Nat /\ Booked \in 0..Bookable

LEMMA Digits ==
    ASSUME RiskInv, OverfillBoundedByLost
    PROVE  DigitsOK
  <1>1. FillInv /\ TypeOK
    BY DEF RiskInv, FillInv, ClaimInv, TypeInv
  <1>2. Stage(pc) \in 0..8
    BY <1>1 DEF Stage, TypeOK, ProcessTypeOK, Pcs, WorkPcs, TryPcs
  <1>3. Turn(pc) \in 0..12
    BY DEF Turn
  <1>4. cur \in 0..(Len(Plan) + 1) /\ no \in 0..MaxAttempts /\ Round \in 0..1
    BY <1>1, ConstantFacts DEF TypeOK, ProcessTypeOK, Round
  <1>5. Bookable \in Nat
    <2>1. CASE Intents = {}
      BY <2>1, NoneBookable
    <2>2. CASE Intents # {}
      BY <2>2, BookableBounds
    <2> QED BY <2>1, <2>2
  <1>6. Booked \in 0..Bookable
    <2>1. CASE cur \notin Intents
      BY <1>5, <2>1 DEF Booked
    <2>2. CASE cur \in Intents
      <3> DEFINE z == Plan[cur].quantity
      <3>1. ledgerQty[cur] <= AtRisk(cur) /\ AtRisk(cur) <= (1 + lost) * z
            /\ ledgerQty[cur] \in Nat /\ AtRisk(cur) \in Int
        <4>1. ledgerQty[cur] <= AtRisk(cur) /\ AtRisk(cur) \in Int
          BY <1>1, <2>2, BookedFilledRisk
        <4>2. AtRisk(cur) <= (1 + lost) * z
          BY <2>2 DEF OverfillBoundedByLost
        <4>3. ledgerQty[cur] \in Nat
          BY <1>1, <2>2 DEF TypeOK, LedgerTypeOK
        <4> QED BY <4>1, <4>2, <4>3
      <3>2. z \in Nat /\ lost \in Nat /\ MaxLost \in Nat /\ lost <= MaxLost
        BY <1>1, <2>2, PlanTypes, ConstantFacts DEF TypeOK, BoundTypeOK
      <3>3. (MaxLost + 1) * z <= Bookable /\ (MaxLost + 1) * z \in Nat
        BY <2>2, BookableBounds
      <3> HIDE DEF z
      <3>4. (1 + lost) * z <= (MaxLost + 1) * z /\ (1 + lost) * z \in Nat
        <4>1. \/ /\ Pack(1 + lost, 0, z) <= Pack(MaxLost + 1, 0, z)
                 /\ Pack(1 + lost, 0, z) \in Nat
              \/ z = 0
          BY <3>2, PackMonotone
        <4>2. CASE z = 0
          BY <3>2, <4>2
        <4>3. CASE z # 0
          BY <3>2, <4>1, <4>3 DEF Pack
        <4> QED BY <4>2, <4>3
      <3>5. ledgerQty[cur] <= Bookable
        <4> DEFINE k == (1 + lost) * z
                   m == (MaxLost + 1) * z
        <4>1. ledgerQty[cur] \in Nat /\ AtRisk(cur) \in Int /\ k \in Nat
              /\ m \in Nat /\ ledgerQty[cur] <= AtRisk(cur)
              /\ AtRisk(cur) <= k /\ k <= m /\ m <= Bookable
          BY <3>1, <3>3, <3>4
        <4> HIDE DEF k, m
        <4> QED BY <1>5, <4>1
      <3> QED BY <1>5, <2>2, <3>1, <3>5 DEF Booked
    <2> QED BY <2>1, <2>2
  <1> QED BY <1>2, <1>3, <1>4, <1>5, <1>6 DEF DigitsOK

(* Every step of the process is one of these: to a later stage, a later     *)
(* intent, from reconciling to trading, a later attempt, a later place in   *)
(* it, or more lots booked.                                                 *)
Ahead ==
    \/ Stage(pc) < Stage(pc')
    \/ /\ pc \in WorkPcs /\ pc' \in WorkPcs
       /\ \/ cur < cur'
          \/ cur = cur' /\ phase = "reconcile" /\ phase' = "live"
          \/ cur = cur' /\ phase = phase' /\ no < no'
          \/ cur = cur' /\ phase = phase' /\ no = no' /\ Turn(pc) < Turn(pc')
          \/ /\ UNCHANGED <<pc, cur, phase, no>> /\ cur \in Intents
             /\ ledgerQty[cur] < ledgerQty'[cur]

LEMMA ForwardInTry ==
    ASSUME TypeInv,
           \/ ReconcileSkip \/ ReconcileQuery \/ ReconcileDone
           \/ QueryOpen \/ CancelAccepted \/ Resolve \/ SyncDone
           \/ Exhausted \/ SkipTransmitted \/ AlreadyFilled
           \/ TakePrepared \/ Prepare \/ DriftCheck
           \/ PlaceResting \/ PlaceFilled \/ PlaceRefused
           \/ MarkRun \/ MarkIntent
           \/ RecordResting \/ RecordFilled \/ RecordRefused
    PROVE  Ahead
  <1>1. no \in Int /\ cur \in Int /\ phase \in {"reconcile", "live"}
    BY ConstantFacts DEF TypeInv, TypeOK, ProcessTypeOK, MaxAttempts
  <1> USE DEF Ahead, WorkPcs, TryPcs, Turn, Goto, intentVars
  <1>2. CASE \/ ReconcileSkip \/ ReconcileQuery \/ ReconcileDone
             \/ QueryOpen \/ CancelAccepted
    BY <1>1, <1>2 DEF ReconcileSkip, ReconcileQuery, ReconcileDone, QueryOpen,
        CancelAccepted, NextAttemptNo
  <1>3. CASE Resolve
    BY <1>1, <1>3 DEF Resolve
  <1>4. CASE SyncDone
    BY <1>1, <1>4 DEF SyncDone
  <1>5. CASE \/ Exhausted \/ SkipTransmitted \/ AlreadyFilled \/ DriftCheck
    BY <1>1, <1>5 DEF Exhausted, SkipTransmitted, AlreadyFilled, DriftCheck,
        InLoop, NextAttemptNo, Continue
  <1>6. CASE TakePrepared \/ Prepare
    BY <1>1, <1>6 DEF TakePrepared, Abandon, Reuse, PreparedFound, Prepare,
        InLoop, NextAttemptNo, Continue
  <1>7. CASE PlaceResting \/ PlaceFilled \/ PlaceRefused
    BY <1>1, <1>7 DEF PlaceResting, PlaceFilled, PlaceRefused, Answer
  <1>8. CASE \/ MarkRun \/ MarkIntent
             \/ RecordResting \/ RecordFilled \/ RecordRefused
    BY <1>1, <1>8 DEF MarkRun, MarkIntent, RecordResting, RecordFilled,
        RecordRefused, NextAttemptNo
  <1> QED BY <1>2, <1>3, <1>4, <1>5, <1>6, <1>7, <1>8

LEMMA ForwardStage ==
    ASSUME \/ SnapshotOk \/ SnapshotFails \/ ArmOk \/ ArmWaived \/ ArmFails
           \/ StartSession \/ Postcheck \/ MarkRebalanced \/ Attention
           \/ Disarm \/ DisarmFails \/ Fail \/ Interrupt \/ Refuse
    PROVE  Ahead
  <1> USE DEF Ahead, Stage, WorkPcs, TryPcs, Goto, Exit
  <1>1. CASE \/ SnapshotOk \/ SnapshotFails \/ ArmOk \/ ArmWaived \/ ArmFails
    BY <1>1 DEF SnapshotOk, SnapshotFails, ArmOk, ArmWaived, ArmFails
  <1>2. CASE StartSession
    BY <1>2 DEF StartSession, BeginIntent
  <1>3. CASE \/ Postcheck \/ MarkRebalanced \/ Attention \/ Disarm
             \/ DisarmFails
    BY <1>3 DEF Postcheck, MarkRebalanced, Attention, Disarm, DisarmFails
  <1>4. CASE Fail \/ Interrupt \/ Refuse
    BY <1>4 DEF Fail, Interrupt, Goto, Refuse
  <1> QED BY <1>1, <1>2, <1>3, <1>4

LEMMA Forward ==
    ASSUME FillInv, ProcessStep
    PROVE  Ahead
  <1>1. TypeInv /\ cur \in Int
    BY DEF FillInv, ClaimInv, TypeInv, TypeOK, ProcessTypeOK
  <1>2. CASE BookFills
    <2>1. pc = "sync" /\ UNCHANGED processVars
      BY <1>2 DEF BookFills
    <2>2. cur \in Intents
      BY <1>1, <2>1 DEF TypeInv, CursorOK, WorkPcs, TryPcs
    <2>3. PICK c \in Cloids :
              /\ attempt[c].booked < order[c].feed
              /\ ledgerQty' = [ledgerQty EXCEPT
                       ![cur] = @ + (order[c].feed - attempt[c].booked)]
      BY <1>2 DEF BookFills, Unbooked, NewLots
    <2>4. attempt[c].booked \in Nat /\ order[c].feed \in Nat
          /\ ledgerQty \in [Intents -> Nat]
      BY <1>1, RowTypes DEF TypeInv, TypeOK, LedgerTypeOK
    <2>5. ledgerQty[cur] < ledgerQty'[cur]
      BY <2>2, <2>3, <2>4
    <2> QED
      BY <2>1, <2>2, <2>5 DEF Ahead, WorkPcs, TryPcs, processVars, intentVars
  <1>3. CASE Settle
    <2>1. pc \in WorkPcs /\ Stage(pc) = 3
      BY <1>3 DEF Settle, WorkPcs, TryPcs, Stage
    <2>2. CASE FinalOf = "unfilled"
      BY <1>3, <2>1, <2>2 DEF Settle, Ahead, Stage, WorkPcs, TryPcs
    <2>3. CASE FinalOf # "unfilled" /\ cur + 1 <= Len(Plan)
      BY <1>1, <1>3, <2>1, <2>3
      DEF Settle, BeginIntent, Ahead, WorkPcs, TryPcs
    <2>4. CASE FinalOf # "unfilled" /\ ~(cur + 1 <= Len(Plan))
      BY <1>3, <2>1, <2>4 DEF Settle, BeginIntent, Ahead, Stage, WorkPcs, TryPcs
    <2> QED BY <2>2, <2>3, <2>4
  <1>4. CASE PlaceUnacknowledged
    <2>1. pc = "send" /\ pc' \in {"except", "markRun"}
          /\ UNCHANGED <<cur, phase, no>>
      BY <1>4 DEF PlaceUnacknowledged, Answer, intentVars
    <2> QED BY <2>1 DEF Ahead, Stage, Turn, WorkPcs, TryPcs
  <1> QED BY <1>1, <1>2, <1>3, <1>4, ForwardInTry, ForwardStage DEF ProcessStep

(* The process cannot run for ever: within one start of the command every   *)
(* step of execute_run raises a number that the exchange leaves as it is    *)
(* and that is never more than a constant - whatever fills, fails or was    *)
(* lost.                                                                    *)
StepsBounded == StepsDone \in 0..MostSteps
OnlyForward ==
    [][/\ ProcessStep => StepsDone < StepsDone'
       /\ ExchangeStep => StepsDone' = StepsDone]_vars

LEMMA StepsInRange ==
    ASSUME RiskInv, OverfillBoundedByLost
    PROVE  StepsBounded
  <1>1. 8 \in 0..8 /\ Len(Plan) + 1 \in 0..(Len(Plan) + 1) /\ 1 \in 0..1
        /\ MaxAttempts \in 0..MaxAttempts /\ 12 \in 0..12
        /\ (Bookable \in Nat => Bookable \in 0..Bookable)
    BY ConstantFacts DEF MaxAttempts
  <1>2. \A a, b \in Int : a \in 0..b => a <= b
    OBVIOUS
  <1>3. Stage(pc) <= 8 /\ cur <= Len(Plan) + 1 /\ Round <= 1
        /\ no <= MaxAttempts /\ Turn(pc) <= 12 /\ Booked <= Bookable
    BY Digits, <1>2, ConstantFacts DEF DigitsOK, MaxAttempts
  <1>4. StepsDone \in Nat /\ MostSteps \in Nat
    <2>1. StepsDone \in Nat
      BY Digits, PackedOrder DEF StepsDone, DigitsOK
    <2>2. MostSteps \in Nat
      BY <1>1, Digits, PackedOrder DEF MostSteps, DigitsOK
    <2> QED BY <2>1, <2>2
  <1>5. StepsDone <= MostSteps
    BY <1>1, <1>3, Digits, PackedOrder DEF StepsDone, MostSteps, DigitsOK
  <1> QED BY <1>4, <1>5 DEF StepsBounded

LEMMA StepsGrow ==
    ASSUME FillInv, DigitsOK, DigitsOK', ProcessStep
    PROVE  StepsDone < StepsDone'
  <1>1. /\ Stage(pc) \in 0..8 /\ cur \in 0..(Len(Plan) + 1)
        /\ Round \in 0..1 /\ no \in 0..MaxAttempts /\ Turn(pc) \in 0..12
        /\ Bookable \in Nat /\ Booked \in 0..Bookable
    BY DEF DigitsOK
  <1>2. /\ Stage(pc') \in 0..8 /\ cur' \in 0..(Len(Plan) + 1)
        /\ Round' \in 0..1 /\ no' \in 0..MaxAttempts /\ Turn(pc') \in 0..12
        /\ Booked' \in 0..Bookable
    <2>1. Bookable' = Bookable
      BY DEF Bookable, BookableFn
    <2> HIDE DEF Stage, Turn, Bookable, Booked, Round
    <2> QED BY <2>1 DEF DigitsOK
  <1>3. \/ Stage(pc) < Stage(pc')
        \/ /\ Stage(pc) = Stage(pc')
           /\ \/ cur < cur'
              \/ cur = cur' /\ Round < Round'
              \/ cur = cur' /\ Round = Round' /\ no < no'
              \/ cur = cur' /\ Round = Round' /\ no = no'
                 /\ Turn(pc) < Turn(pc')
              \/ cur = cur' /\ Round = Round' /\ no = no'
                 /\ Turn(pc) = Turn(pc') /\ Booked < Booked'
    <2>1. Ahead
      BY Forward
    <2>2. \A p \in WorkPcs : Stage(p) = 3
      BY DEF Stage, WorkPcs, TryPcs
    <2> HIDE DEF Stage, Turn
    <2> QED BY <2>1, <2>2 DEF Ahead, Round, Booked
  <1>4. StepsDone' = Packed(Stage(pc'), cur', Round', no', Turn(pc'), Booked',
                            Bookable)
    BY DEF StepsDone, Packed, Pack, Stage, Turn, Bookable, BookableFn
  <1> QED BY <1>1, <1>2, <1>3, <1>4, PackedOrder DEF StepsDone

THEOREM StepsRunOut == Spec => []StepsBounded /\ OnlyForward
  <1>1. RiskInv /\ OverfillBoundedByLost => StepsBounded /\ DigitsOK /\ FillInv
    BY StepsInRange, Digits DEF RiskInv
  <1>2. FillInv /\ DigitsOK /\ DigitsOK' /\ [Next]_vars
          => [/\ ProcessStep => StepsDone < StepsDone'
              /\ ExchangeStep => StepsDone' = StepsDone]_vars
    <2> SUFFICES ASSUME FillInv, DigitsOK, DigitsOK'
                 PROVE  /\ ProcessStep => StepsDone < StepsDone'
                        /\ ExchangeStep => StepsDone' = StepsDone
      OBVIOUS
    <2>1. ProcessStep => StepsDone < StepsDone'
      BY StepsGrow
    <2>2. ASSUME ExchangeStep PROVE StepsDone' = StepsDone
      <3>1. UNCHANGED <<ledgerVars, processVars>>
        BY <2>2 DEF ExchangeStep, OrderFills, OrderCanceled, FeedCatchesUp,
            DeadmanFires, ManualTrade
      <3>2. UNCHANGED <<pc, cur, phase, no, ledgerQty>>
        BY <3>1 DEF ledgerVars, processVars, intentVars
      <3>3. UNCHANGED <<Stage(pc), Turn(pc), Round, Booked, Bookable>>
        BY <3>2 DEF Stage, Turn, Round, Booked, Bookable, BookableFn
      <3> QED BY <3>2, <3>3 DEF StepsDone, Packed, Pack
    <2> QED BY <2>1, <2>2
  <1> QED
    BY RiskInvAlways, OverfillBounded, <1>1, <1>2, PTL DEF Spec, OnlyForward
=============================================================================
