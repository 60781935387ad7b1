------------------------- MODULE ExecutionEndProofs -------------------------
(***************************************************************************)
(* Proofs, for every value of the constants, of how a run of Execution     *)
(* ends: only a verified one is marked, an order at the exchange stays     *)
(* under the scheduled cancel until a finally clause clears it, and what   *)
(* was recorded as finished stays so.                                      *)
(***************************************************************************)
EXTENDS ExecutionProofs

Done == {"filled", "dust"}
Working == TryPcs \ {"postcheck", "archive"}

(* The intents before the current one are done, and all of them when the    *)
(* loop has ended; a run is complete before its snapshot is marked.         *)
DoneOK ==
    /\ pc \in TryPcs => \A i \in Intents : i < cur => intentStatus[i] \in Done
    /\ pc \in {"postcheck", "archive"} => cur = Len(Plan) + 1
    /\ pc = "archive" => session = "complete"

Guarded == deadman \in {"armed", "early"} \/ Cloids = {}

(* Where a switch is required, it is armed before the session starts and    *)
(* cleared by the finally clause only; who dies otherwise leaves it behind. *)
GuardOK ==
    DeadmanRequired =>
        /\ pc \in TryPcs \cup {"session", "except", "disarm"} => Guarded
        /\ pc \in {"idle", "snapshot", "arm"} =>
               \/ Guarded \/ deadman = "cleared"
               \/ \A c \in Cloids : ~Open(c)

(* Only attempts that reached the exchange are asked about.                 *)
QueriedOK == pc \in StatusPcs => attempt[Cloid].status \in WithOid

EndInv == SerialInv /\ DoneOK /\ GuardOK /\ QueriedOK

LEMMA EndInit == Init => EndInv
  BY SerialInit DEF Init, EndInv, DoneOK, GuardOK, QueriedOK, TryPcs, StatusPcs,
      Open, NoOrder

-----------------------------------------------------------------------------
(* What the steps inside the intent loop leave alone.                       *)
Works ==
    /\ pc \in Working /\ pc' \in Working \cup {"except"}
    /\ UNCHANGED <<session, deadman, cur>>
    /\ \A i \in Intents : i < cur => intentStatus'[i] = intentStatus[i]

LEMMA ReconcileWorks ==
    ASSUME \/ ReconcileSkip \/ ReconcileQuery \/ ReconcileDone
           \/ QueryOpen \/ CancelAccepted \/ Resolve \/ BookFills \/ SyncDone
    PROVE  Works
  BY DEF ReconcileSkip, ReconcileQuery, ReconcileDone, QueryOpen,
      CancelAccepted, Resolve, BookFills, SyncDone, NextAttemptNo, Goto, Works,
      Working, TryPcs, ledgerVars, exchangeVars, intentVars, processVars

LEMMA AttemptWorks ==
    ASSUME \/ Exhausted \/ SkipTransmitted \/ AlreadyFilled \/ TakePrepared
           \/ Prepare \/ DriftCheck
    PROVE  Works
  BY DEF Exhausted, SkipTransmitted, AlreadyFilled, TakePrepared, Abandon,
      Reuse, Prepare, DriftCheck, PreparedFound, InLoop, Continue,
      NextAttemptNo, Goto, Works, Working, TryPcs, ledgerVars, exchangeVars,
      intentVars

LEMMA PlaceWorks ==
    ASSUME \/ PlaceResting \/ PlaceFilled \/ PlaceRefused
           \/ PlaceUnacknowledged
    PROVE  Works
  BY DEF PlaceResting, PlaceFilled, PlaceRefused, PlaceUnacknowledged, Answer,
      Works, Working, TryPcs, ledgerVars, exchangeVars, intentVars

LEMMA RecordWorks ==
    ASSUME TypeInv,
           \/ MarkRun \/ MarkIntent
           \/ RecordResting \/ RecordFilled \/ RecordRefused \/ Refuse
    PROVE  Works
  <1>1. intentStatus \in [Intents -> IntentStatuses]
    BY DEF TypeInv, TypeOK, LedgerTypeOK
  <1>2. cur \in Int /\ Intents \subseteq Int
    BY ConstantFacts DEF TypeInv, TypeOK, ProcessTypeOK, Intents
  <1> QED
    BY <1>1, <1>2 DEF MarkRun, MarkIntent, RecordResting, RecordFilled,
      RecordRefused, Refuse, NextAttemptNo, Goto, Works, Working, TryPcs,
      ledgerVars, exchangeVars, intentVars

LEMMA WorkKeeps ==
    ASSUME DoneOK, GuardOK, Works
    PROVE  DoneOK' /\ GuardOK'
  BY DEF DoneOK, GuardOK, Works, Working, TryPcs, Guarded

-----------------------------------------------------------------------------
LEMMA NextIntent ==
    ASSUME TypeInv, DoneOK, GuardOK, Settle
    PROVE  DoneOK' /\ GuardOK'
  <1> USE DEF TypeInv
  <1>1. /\ intentStatus \in [Intents -> IntentStatuses]
        /\ cur \in Intents /\ cur \in Nat
        /\ pc \in TryPcs /\ pc = "settle"
      BY ConstantFacts DEF TypeOK, LedgerTypeOK, CursorOK, Settle, WorkPcs,
          TryPcs, Intents
  <1>2. /\ intentStatus' = [intentStatus EXCEPT ![cur] = FinalOf]
        /\ UNCHANGED <<session, deadman>>
    BY DEF Settle, exchangeVars
  <1>3. GuardOK'
    BY <1>1, <1>2 DEF Settle, BeginIntent, GuardOK, Guarded, TryPcs
  <1>4. CASE FinalOf = "unfilled"
    BY <1>1, <1>2, <1>3, <1>4 DEF Settle, DoneOK, TryPcs
  <1>5. CASE FinalOf # "unfilled"
    <2>1. FinalOf \in Done
      BY <1>5 DEF FinalOf, Done
    <2>2. /\ cur' = cur + 1
          /\ pc' = IF cur + 1 <= Len(Plan) THEN "reconcile" ELSE "postcheck"
      BY <1>5 DEF Settle, BeginIntent
    <2>3. \A i \in Intents : i < cur' => intentStatus'[i] \in Done
      BY <1>1, <1>2, <2>1, <2>2, ConstantFacts DEF DoneOK, Intents
    <2>4. pc' = "postcheck" => cur' = Len(Plan) + 1
      BY <1>1, <2>2, ConstantFacts DEF Intents
    <2> QED
      BY <1>3, <2>2, <2>3, <2>4 DEF DoneOK
  <1> QED BY <1>4, <1>5

LEMMA FirstIntent ==
    ASSUME DoneOK, GuardOK, StartSession
    PROVE  DoneOK' /\ GuardOK'
  <1>1. /\ cur' = 1 /\ pc' \in {"reconcile", "postcheck"}
        /\ pc' = "postcheck" => ~(1 <= Len(Plan))
        /\ UNCHANGED <<deadman, intentStatus>> /\ pc = "session"
    BY DEF StartSession, BeginIntent, exchangeVars
  <1>2. \A i \in Intents : ~(i < 1)
    BY ConstantFacts DEF Intents
  <1> QED
    BY <1>1, <1>2, ConstantFacts DEF DoneOK, GuardOK, Guarded, TryPcs

(* Steps outside of the loop.                                               *)
LEMMA EndKeeps ==
    ASSUME TypeInv, DoneOK, GuardOK,
           \/ StartFresh \/ StartResume \/ SnapshotOk \/ SnapshotFails
           \/ ArmOk \/ ArmWaived \/ ArmFails
           \/ Postcheck \/ MarkRebalanced \/ Attention \/ Disarm \/ DisarmFails
           \/ Fail \/ Interrupt \/ Crash
    PROVE  DoneOK' /\ GuardOK'
  <1> USE DEF TypeInv, DoneOK, GuardOK, Guarded, Open, TryPcs, ledgerVars,
      exchangeVars, intentVars, processVars, boundVars, Goto, Exit
  <1>1. Plan = <<>> => Cloids = {}
    BY DEF Cloids, Intents
  <1>2. CASE StartFresh \/ StartResume
    BY <1>2 DEF StartFresh, StartResume, Enter
  <1>3. CASE SnapshotOk
    BY <1>1, <1>3 DEF SnapshotOk
  <1>4. CASE SnapshotFails
    BY <1>4 DEF SnapshotFails
  <1>5. CASE ArmOk \/ ArmWaived
    BY <1>5 DEF ArmOk, ArmWaived
  <1>6. CASE ArmFails
    BY <1>6 DEF ArmFails
  <1>7. CASE Postcheck \/ MarkRebalanced \/ Attention
    BY <1>7 DEF Postcheck, MarkRebalanced, Attention
  <1>8. CASE Disarm \/ DisarmFails
    BY <1>8 DEF Disarm, DisarmFails
  <1>9. CASE Fail \/ Interrupt
    BY <1>9 DEF Fail, Interrupt
  <1>10. CASE Crash
    <2>1. pc \in Pcs
      BY DEF TypeOK, ProcessTypeOK
    <2> QED BY <1>10, <2>1 DEF Crash, Pcs
  <1> QED
    BY <1>2, <1>3, <1>4, <1>5, <1>6, <1>7, <1>8, <1>9, <1>10

(* The exchange opens no order by itself, and a deadline that passes in a   *)
(* run leaves no order.                                                     *)
LEMMA ExchangeKeeps ==
    ASSUME TypeInv, DoneOK, GuardOK, ExchangeStep
    PROVE  DoneOK' /\ GuardOK' /\ UNCHANGED <<pc, cur, no, attempt, rebalanced>>
  <1> USE DEF DoneOK, GuardOK, Guarded, Open, ledgerVars, processVars,
      intentVars
  <1>1. order \in [Cloids -> OrderRecord]
    BY DEF TypeInv, TypeOK, ExchangeTypeOK
  <1>2. CASE \E c \in Cloids : OrderFills(c)
    <2>1. \A c \in Cloids : Open(c)' => Open(c)
      BY <1>1, <1>2 DEF OrderFills
    <2> QED BY <1>2, <2>1 DEF OrderFills
  <1>3. CASE \E c \in Cloids : OrderCanceled(c) \/ FeedCatchesUp(c)
    <2>1. PICK c \in Cloids : OrderCanceled(c) \/ FeedCatchesUp(c)
      BY <1>3
    <2>2. order'[c].status \in {order[c].status, "canceled"}
      BY <1>1, <2>1 DEF OrderCanceled, FeedCatchesUp, OrderRecord
    <2>3. \A d \in Cloids : d # c => order'[d] = order[d]
      BY <1>1, <2>1 DEF OrderCanceled, FeedCatchesUp
    <2>4. \A d \in Cloids : Open(d)' => Open(d)
      BY <2>2, <2>3
    <2> QED BY <2>1, <2>4 DEF OrderCanceled, FeedCatchesUp
  <1>4. CASE DeadmanFires
    <2>1. \A c \in Cloids : ~Open(c)'
      BY <1>1, <1>4 DEF DeadmanFires
    <2>2. pc \in {"idle"} \/ deadman' = "early"
      BY <1>4 DEF DeadmanFires
    <2> QED BY <1>4, <2>1, <2>2 DEF DeadmanFires, TryPcs
  <1>5. CASE ManualTrade
    BY <1>5 DEF ManualTrade
  <1> QED
    BY <1>2, <1>3, <1>4, <1>5 DEF ExchangeStep

(* What leads to a question about an attempt.                               *)
LEMMA QueriedStep ==
    ASSUME TypeInv, QueriedOK, [Next]_vars
    PROVE  QueriedOK'
  <1> SUFFICES ASSUME pc' \in StatusPcs PROVE QueriedOK'
    BY DEF QueriedOK
  <1> USE DEF StatusPcs, Goto, ledgerVars, exchangeVars, intentVars,
      processVars, boundVars, QueriedOK, Cloid
  <1>1. CASE UNCHANGED vars
    BY <1>1 DEF vars
  <1>2. CASE ReconcileQuery \/ QueryOpen \/ CancelAccepted
    BY <1>2 DEF ReconcileQuery, QueryOpen, CancelAccepted
  <1>3. CASE RecordResting
    <2>1. Cloid \in Cloids /\ attempt \in [Cloids -> AttemptRecord]
      BY <1>3, CloidType
      DEF RecordResting, TypeInv, TypeOK, LedgerTypeOK, AttemptPcs
    <2> QED
      BY <1>3, <2>1 DEF RecordResting, SetAttempt, AttemptRecord, WithOid
  <1>4. CASE ExchangeStep
    BY <1>4 DEF ExchangeStep, OrderFills, OrderCanceled, FeedCatchesUp,
        DeadmanFires, ManualTrade
  <1>5. CASE \/ StartFresh \/ StartResume \/ SnapshotOk \/ SnapshotFails
             \/ ArmOk \/ ArmWaived \/ ArmFails \/ StartSession
             \/ ReconcileSkip \/ ReconcileDone \/ Resolve \/ SyncDone
    BY <1>5 DEF StartFresh, StartResume, Enter, SnapshotOk, SnapshotFails,
        ArmOk, ArmWaived, ArmFails, StartSession, BeginIntent, Exit,
        ReconcileSkip, ReconcileDone, NextAttemptNo, Resolve, SyncDone
  <1>6. CASE BookFills
    BY <1>6 DEF BookFills
  <1>7. CASE Exhausted \/ SkipTransmitted \/ AlreadyFilled \/ TakePrepared
             \/ Prepare \/ DriftCheck
    BY <1>7 DEF Exhausted, SkipTransmitted, AlreadyFilled, TakePrepared,
        Abandon, Reuse, Prepare, DriftCheck, Continue, NextAttemptNo
  <1>8. CASE PlaceResting \/ PlaceFilled \/ PlaceRefused
             \/ PlaceUnacknowledged \/ MarkRun \/ MarkIntent
    BY <1>8 DEF PlaceResting, PlaceFilled, PlaceRefused, PlaceUnacknowledged,
        Answer, MarkRun, MarkIntent
  <1>9. CASE \/ RecordFilled \/ RecordRefused \/ Refuse \/ Settle
             \/ Postcheck \/ MarkRebalanced \/ Attention \/ Disarm
             \/ DisarmFails \/ Fail \/ Interrupt \/ Crash
    BY <1>9 DEF RecordFilled, RecordRefused, NextAttemptNo, Refuse, Settle,
        BeginIntent, Postcheck, MarkRebalanced, Attention, Disarm,
        DisarmFails, Exit, Fail, Interrupt, Crash
  <1> QED
    BY <1>1, <1>2, <1>3, <1>4, <1>5, <1>6, <1>7, <1>8, <1>9
    DEF Next, ProcessStep

LEMMA EndStep == EndInv /\ [Next]_vars => EndInv'
  <1> SUFFICES ASSUME EndInv, [Next]_vars PROVE DoneOK' /\ GuardOK'
    BY SerialStep, QueriedStep DEF EndInv, SerialInv
  <1>1. TypeInv /\ DoneOK /\ GuardOK
    BY DEF EndInv, SerialInv
  <1>2. CASE ProcessStep
    BY <1>1, <1>2, ReconcileWorks, AttemptWorks, PlaceWorks, RecordWorks,
        WorkKeeps, NextIntent, FirstIntent, EndKeeps
    DEF ProcessStep
  <1>3. CASE StartFresh \/ StartResume \/ Crash
    BY <1>1, <1>3, EndKeeps
  <1>4. CASE ExchangeStep
    BY <1>1, <1>4, ExchangeKeeps
  <1>5. CASE UNCHANGED vars
    BY <1>1, <1>5
    DEF vars, ledgerVars, exchangeVars, intentVars, processVars, DoneOK,
        GuardOK, Guarded, Open
  <1> QED
    BY <1>2, <1>3, <1>4, <1>5 DEF Next

LEMMA EndInvAlways == Spec => []EndInv
  BY EndInit, EndStep, PTL DEF Spec

-----------------------------------------------------------------------------
(* The theorems *)

(* The snapshot of a run is only marked when the run is complete and all of *)
(* its intents are filled or dust.                                          *)
THEOREM MarkedIsVerified == Spec => MarkOnlyVerified
  <1>1. EndInv /\ [Next]_vars =>
            [rebalanced' # rebalanced =>
                /\ session = "complete"
                /\ \A i \in Intents : intentStatus[i] \in {"filled", "dust"}]_vars
    <2> SUFFICES ASSUME EndInv, [Next]_vars, rebalanced' # rebalanced
                 PROVE  /\ session = "complete"
                        /\ \A i \in Intents :
                              intentStatus[i] \in {"filled", "dust"}
      OBVIOUS
    <2>1. pc = "archive"
      BY DEF Next, ProcessStep, ExchangeStep, StartFresh, StartResume, Enter,
          SnapshotOk, SnapshotFails, ArmOk, ArmWaived, ArmFails, StartSession,
          ReconcileSkip, ReconcileQuery, ReconcileDone, QueryOpen,
          CancelAccepted, Resolve, BookFills, SyncDone, Exhausted,
          SkipTransmitted, AlreadyFilled, TakePrepared, Abandon, Reuse,
          Prepare, DriftCheck, PlaceResting, PlaceFilled, PlaceRefused,
          PlaceUnacknowledged, MarkRun, MarkIntent, RecordResting,
          RecordFilled, RecordRefused, Refuse, Settle, Postcheck,
          MarkRebalanced, Attention, Disarm, DisarmFails, Fail, Interrupt, Crash,
          OrderFills, OrderCanceled, FeedCatchesUp, DeadmanFires, ManualTrade,
          vars, ledgerVars
    <2>2. cur = Len(Plan) + 1 /\ session = "complete"
      BY <2>1 DEF EndInv, DoneOK
    <2>3. \A i \in Intents : i < cur
      BY <2>2, ConstantFacts DEF Intents
    <2> QED
      BY <2>1, <2>2, <2>3 DEF EndInv, DoneOK, Done, TryPcs
  <1> QED
    BY EndInvAlways, <1>1, PTL DEF Spec, MarkOnlyVerified

(* Where a switch is required, an order that rests is covered by it while   *)
(* its run has a process in session, and afterwards unless a finally clause *)
(* cleared it: no process, resumed or new, goes ahead without arming it.    *)
THEOREM StaysArmed == Spec => [](DeadmanRequired => ArmedUntilCleared)
  <1>1. EndInv => pc \in Pcs
    BY DEF EndInv, SerialInv, TypeInv, TypeOK, ProcessTypeOK
  <1>2. EndInv => (DeadmanRequired => ArmedUntilCleared)
    BY <1>1 DEF EndInv, GuardOK, Guarded, ArmedUntilCleared, Pcs
  <1> QED
    BY EndInvAlways, <1>2, PTL

(* The attempt that a step writes to is none that was recorded as finished, *)
(* or keeps what was recorded.                                              *)
LEMMA FinishedKept ==
    ASSUME EndInv, [Next]_vars, NEW c \in Cloids,
           attempt[c].status \in Terminal \cup {"rejected"}
    PROVE  /\ attempt'[c].status = attempt[c].status
           /\ attempt'[c].quantity = attempt[c].quantity
  <1>1. /\ attempt \in [Cloids -> AttemptRecord]
        /\ attempt[c].status \notin Prepared /\ attempt[c].status # "absent"
    BY DEF EndInv, SerialInv, TypeInv, TypeOK, LedgerTypeOK, Terminal, Prepared
  <1>2. ASSUME NEW s, SetAttempt(s), c = Cloid => s = attempt[c].status
        PROVE  /\ attempt'[c].status = attempt[c].status
               /\ attempt'[c].quantity = attempt[c].quantity
    BY <1>1, <1>2 DEF SetAttempt, AttemptRecord
  <1>3. CASE Resolve
    <2>1. SetAttempt(order[Cloid].status) /\ pc \in StatusPcs
          /\ order[Cloid].status \in Terminal
      BY <1>3 DEF Resolve, StatusPcs
    <2>2. c = Cloid => attempt[c].status \in Terminal
      BY <2>1 DEF EndInv, QueriedOK, WithOid, Terminal
    <2>3. c = Cloid => order[Cloid].status = attempt[c].status
      BY <2>2 DEF EndInv, SerialInv, FinishedOK
    <2> QED BY <1>2, <2>1, <2>3
  <1>4. CASE RecordResting \/ RecordFilled \/ RecordRefused
    <2>1. PICK s \in {"open", "filled", "rejected"} : SetAttempt(s)
      BY <1>4 DEF RecordResting, RecordFilled, RecordRefused
    <2>2. attempt[Cloid].status \in Prepared
      BY <1>4 DEF RecordResting, RecordFilled, RecordRefused, EndInv,
          SerialInv, PhaseOK, FlightPcs
    <2> QED BY <1>1, <1>2, <2>1, <2>2
  <1>5. CASE TakePrepared
    <2>1. attempt[Cloid].status \in Prepared
      BY <1>5 DEF TakePrepared, Abandon, Reuse, PreparedFound
    <2>2. (\E s \in {"abandoned", "dust"} : SetAttempt(s)) \/ UNCHANGED attempt
      BY <1>5 DEF TakePrepared, Abandon, Reuse
    <2> QED BY <1>1, <1>2, <2>1, <2>2
  <1>6. CASE Prepare
    BY <1>1, <1>6 DEF Prepare
  <1>7. CASE BookFills
    BY <1>1, <1>7 DEF BookFills, AttemptRecord
  <1>8. CASE UNCHANGED attempt
    BY <1>8
  <1> QED
    BY <1>3, <1>4, <1>5, <1>6, <1>7, <1>8
    DEF Next, ProcessStep, ExchangeStep, StartFresh, StartResume, Enter,
        SnapshotOk, SnapshotFails, ArmOk, ArmWaived, ArmFails, StartSession,
        ReconcileSkip, ReconcileQuery, ReconcileDone, QueryOpen,
        CancelAccepted, SyncDone, Exhausted, SkipTransmitted, AlreadyFilled,
        DriftCheck, PlaceResting, PlaceFilled, PlaceRefused,
        PlaceUnacknowledged, MarkRun, MarkIntent, Refuse, Settle, Postcheck,
        MarkRebalanced, Attention, Disarm, DisarmFails, Fail, Interrupt, Crash,
        OrderFills, OrderCanceled, FeedCatchesUp, DeadmanFires, ManualTrade,
        vars, ledgerVars

(* No resume revives an attempt that was recorded as filled, canceled or    *)
(* rejected.                                                                *)
THEOREM FinishedStays == Spec => FinishedAttemptsStay
  <1>1. EndInv /\ [Next]_vars =>
            [\A c \in Cloids :
                attempt[c].status \in Terminal \cup {"rejected"} =>
                    /\ attempt'[c].status = attempt[c].status
                    /\ attempt'[c].quantity = attempt[c].quantity]_vars
    BY FinishedKept
  <1> QED
    BY EndInvAlways, <1>1, PTL DEF Spec, FinishedAttemptsStay
=============================================================================
