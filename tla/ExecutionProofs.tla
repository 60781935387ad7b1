-------------------------- MODULE ExecutionProofs --------------------------
(* Proofs, for every value of the constants, of properties of Execution.    *)
EXTENDS ExecutionProperties, TLAPS

(* Where the cursor of execute_run points while it works on an intent or on *)
(* one of its attempts: the part of type correctness TypeOK leaves out.     *)
WorkPcs == TryPcs \ {"postcheck", "archive"}
AttemptPcs == {"query", "cancel", "await", "check", "send", "markRun",
               "markIntent", "record", "refuse"}
CursorOK ==
    /\ pc \in WorkPcs => cur \in Intents
    /\ pc \in AttemptPcs => no \in AttemptNos
    /\ pc = "sync" /\ phase = "live" => no \in AttemptNos
    /\ pc = "reconcile" => phase = "reconcile"

TypeInv == TypeOK /\ CursorOK

-----------------------------------------------------------------------------
(* Facts about the constants and the records *)

LEMMA ConstantFacts ==
    /\ Len(Plan) \in Nat
    /\ \A i \in Intents : Plan[i] \in IntentRecord
    /\ MaxReprices \in Nat
    /\ DustLots \subseteq Nat
    /\ Current \in [Tickers -> Int]
    /\ MaxStarts \in Nat /\ MaxLost \in Nat /\ MaxManual \in Nat
  BY PlanAssumption, ConstantsAssumption DEF Intents

LEMMA PlanTypes ==
    ASSUME NEW i \in Intents
    PROVE  /\ Plan[i].ticker \in Tickers
           /\ Plan[i].quantity \in Nat
           /\ Sign(i) \in Int
  BY ConstantFacts DEF IntentRecord, Sign

LEMMA ExitType ==
    ASSUME Exit
    PROVE  ProcessTypeOK' /\ CursorOK'
  <1>1. pc' \in Pcs /\ phase' \in {"reconcile", "live"}
    BY DEF Exit, Pcs
  <1>2. cur' \in 1..(Len(Plan) + 1)
    BY ConstantFacts DEF Exit
  <1>3. no' \in 0..MaxAttempts
    BY ConstantFacts DEF Exit, MaxAttempts
  <1>4. /\ confirmed' \in Nat /\ finalStatus' \in IntentStatuses
        /\ response' \in Replies
        /\ deadmanArmed' \in BOOLEAN /\ failed' \in BOOLEAN
    BY DEF Exit, IntentStatuses, Replies
  <1>5. CursorOK'
    BY DEF Exit, CursorOK, WorkPcs, AttemptPcs, TryPcs
  <1> QED
    BY <1>1, <1>2, <1>3, <1>4, <1>5 DEF ProcessTypeOK

LEMMA SetStatusType ==
    ASSUME NEW c \in Cloids, attempt \in [Cloids -> AttemptRecord],
           NEW s \in Prepared \cup Sent
    PROVE  [attempt EXCEPT ![c].status = s] \in [Cloids -> AttemptRecord]
  BY DEF AttemptRecord

LEMMA RowTypes ==
    ASSUME TypeOK, NEW c \in Cloids
    PROVE  /\ attempt[c].quantity \in Nat /\ attempt[c].booked \in Nat
           /\ order[c].quantity \in Nat /\ order[c].filled \in Nat
           /\ order[c].feed \in Nat
  BY DEF TypeOK, LedgerTypeOK, ExchangeTypeOK, AttemptRecord, OrderRecord

LEMMA NewOrderType ==
    ASSUME TypeOK, NEW status \in {"open", "filled"}, NEW filled \in Nat,
           Cloid \in Cloids, NewOrder(status, filled)
    PROVE  order' \in [Cloids -> OrderRecord]
  <1>1. [status |-> status, quantity |-> attempt[Cloid].quantity,
         filled |-> filled, feed |-> 0] \in OrderRecord
    BY RowTypes DEF OrderRecord, Terminal
  <1> QED
    BY <1>1 DEF NewOrder, TypeOK, ExchangeTypeOK

LEMMA BeginIntentType ==
    ASSUME TypeOK, NEW i \in 1..(Len(Plan) + 1), BeginIntent(i),
           deadmanArmed' \in BOOLEAN, failed' \in BOOLEAN
    PROVE  ProcessTypeOK' /\ CursorOK'
  <1> USE ConstantFacts
  <1>1. CASE i <= Len(Plan)
    <2>1. i \in Intents
      BY <1>1 DEF Intents
    <2>2. /\ pc' = "reconcile" /\ phase' = "reconcile" /\ cur' = i /\ no' = 0
          /\ confirmed' = 0 /\ response' = "none"
          /\ finalStatus' \in IntentStatuses
      BY <1>1, <2>1 DEF BeginIntent, TypeOK, LedgerTypeOK
    <2>3. no' \in 0..MaxAttempts
      BY <2>2 DEF MaxAttempts
    <2>4. ProcessTypeOK'
      BY <2>2, <2>3 DEF ProcessTypeOK, Pcs, TryPcs, Replies
    <2>5. CursorOK'
      BY <2>1, <2>2 DEF CursorOK, AttemptPcs
    <2> QED
      BY <2>4, <2>5
  <1>2. CASE ~(i <= Len(Plan))
    <2>1. /\ pc' = "postcheck" /\ phase' = "reconcile" /\ cur' = i /\ no' = 0
          /\ confirmed' = 0 /\ response' = "none" /\ finalStatus' = "planned"
      BY <1>2 DEF BeginIntent
    <2>2. no' \in 0..MaxAttempts
      BY <2>1 DEF MaxAttempts
    <2>3. ProcessTypeOK'
      BY <2>1, <2>2 DEF ProcessTypeOK, Pcs, TryPcs, Replies, IntentStatuses
    <2>4. CursorOK'
      BY <2>1 DEF CursorOK, AttemptPcs, WorkPcs
    <2> QED
      BY <2>3, <2>4
  <1> QED
    BY <1>1, <1>2

LEMMA CloidType ==
    ASSUME CursorOK,
           pc \in AttemptPcs \/ (pc \in WorkPcs /\ no \in AttemptNos)
    PROVE  cur \in Intents /\ no \in AttemptNos /\ Cloid \in Cloids
  BY DEF CursorOK, Cloid, Cloids, AttemptPcs, WorkPcs, TryPcs

LEMMA RemainingType ==
    ASSUME TypeOK, cur \in Intents
    PROVE  Remaining \in Nat
  BY PlanTypes DEF TypeOK, LedgerTypeOK, Remaining

LEMMA TypeInit == Init => TypeInv
  <1> SUFFICES ASSUME Init PROVE TypeInv
    OBVIOUS
  <1>1. LedgerTypeOK
    BY DEF Init, LedgerTypeOK, IntentStatuses, NoAttempt, AttemptRecord
  <1>2. ExchangeTypeOK
    BY ConstantFacts DEF Init, ExchangeTypeOK, NoOrder, OrderRecord
  <1>3. ProcessTypeOK
    <2>1. cur \in 1..(Len(Plan) + 1) /\ no \in 0..MaxAttempts
      BY ConstantFacts DEF Init, MaxAttempts
    <2> QED
      BY <2>1 DEF Init, ProcessTypeOK, Pcs, IntentStatuses, Replies
  <1>4. BoundTypeOK
    BY ConstantFacts DEF Init, BoundTypeOK
  <1>5. CursorOK
    BY DEF Init, CursorOK, WorkPcs, AttemptPcs, TryPcs
  <1> QED
    BY <1>1, <1>2, <1>3, <1>4, <1>5 DEF TypeInv, TypeOK

LEMMA TypeStep == TypeInv /\ [Next]_vars => TypeInv'
  <1> SUFFICES ASSUME TypeInv, [Next]_vars PROVE TypeInv'
    OBVIOUS
  <1> USE ConstantFacts
      DEF TypeInv, TypeOK, LedgerTypeOK, ExchangeTypeOK, BoundTypeOK,
          ledgerVars, exchangeVars, intentVars, processVars, boundVars
  <1>1. CASE StartFresh
    BY <1>1
    DEF StartFresh, Enter, Goto, ProcessTypeOK, CursorOK, WorkPcs, AttemptPcs,
        Pcs, TryPcs
  <1>2. CASE StartResume
    BY <1>2
    DEF StartResume, Enter, Goto, ProcessTypeOK, CursorOK, WorkPcs, AttemptPcs,
        Pcs, TryPcs
  <1>3. CASE SnapshotOk
    BY <1>3
    DEF SnapshotOk, Goto, ProcessTypeOK, CursorOK, WorkPcs, AttemptPcs, Pcs,
        TryPcs
  <1>4. CASE SnapshotFails
    <2>1. LedgerTypeOK'
      BY <1>4 DEF SnapshotFails, Exit
    <2>2. ExchangeTypeOK'
      BY <1>4 DEF SnapshotFails, Exit
    <2>3. ProcessTypeOK' /\ CursorOK'
      BY <1>4, ExitType DEF SnapshotFails
    <2>5. BoundTypeOK'
      BY <1>4 DEF SnapshotFails, Exit
    <2> QED
      BY <2>1, <2>2, <2>3, <2>5
  <1>5. CASE ArmOk
    BY <1>5
    DEF ArmOk, ProcessTypeOK, CursorOK, WorkPcs, AttemptPcs, Pcs, TryPcs
  <1>6. CASE ArmWaived
    BY <1>6
    DEF ArmWaived, Goto, ProcessTypeOK, CursorOK, WorkPcs, AttemptPcs, Pcs,
        TryPcs
  <1>7. CASE ArmFails
    <2>1. LedgerTypeOK'
      BY <1>7 DEF ArmFails, ReleaseExecution, Exit
    <2>2. ExchangeTypeOK'
      BY <1>7 DEF ArmFails, ReleaseExecution, Exit
    <2>3. ProcessTypeOK' /\ CursorOK'
      BY <1>7, ExitType DEF ArmFails, ReleaseExecution
    <2>5. BoundTypeOK'
      BY <1>7 DEF ArmFails, ReleaseExecution, Exit
    <2> QED
      BY <2>1, <2>2, <2>3, <2>5
  <1>8. CASE StartSession
    <2>1. LedgerTypeOK'
      BY <1>8 DEF StartSession, BeginIntent
    <2>2. ExchangeTypeOK'
      BY <1>8 DEF StartSession, BeginIntent
    <2>3. ProcessTypeOK' /\ CursorOK'
      BY <1>8, BeginIntentType DEF StartSession, ProcessTypeOK
    <2>5. BoundTypeOK'
      BY <1>8 DEF StartSession, BeginIntent
    <2> QED
      BY <2>1, <2>2, <2>3, <2>5
  <1>9. CASE ReconcileSkip
    BY <1>9
    DEF ReconcileSkip, NextAttemptNo, ProcessTypeOK, CursorOK, AttemptPcs,
        MaxAttempts
  <1>10. CASE ReconcileQuery
    BY <1>10
    DEF ReconcileQuery, Goto, ProcessTypeOK, CursorOK, WorkPcs, Pcs, TryPcs,
        AttemptNos, MaxAttempts
  <1>11. CASE ReconcileDone
    <2>1. LedgerTypeOK'
      BY <1>11 DEF ReconcileDone, Goto
    <2>2. ExchangeTypeOK'
      BY <1>11 DEF ReconcileDone, Goto
    <2>3. ProcessTypeOK'
      BY <1>11, CloidType DEF ReconcileDone, Goto, ProcessTypeOK, Pcs, TryPcs
    <2>4. CursorOK'
      BY <1>11 DEF ReconcileDone, Goto, CursorOK, WorkPcs, AttemptPcs, TryPcs
    <2>5. BoundTypeOK'
      BY <1>11 DEF ReconcileDone, Goto
    <2> QED
      BY <2>1, <2>2, <2>3, <2>4, <2>5
  <1>12. CASE QueryOpen
    BY <1>12
    DEF QueryOpen, Goto, ProcessTypeOK, CursorOK, WorkPcs, AttemptPcs, Pcs,
        TryPcs
  <1>13. CASE CancelAccepted
    BY <1>13
    DEF CancelAccepted, Goto, ProcessTypeOK, CursorOK, WorkPcs, AttemptPcs,
        Pcs, TryPcs
  <1>14. CASE Resolve
    <2>1. LedgerTypeOK'
      <3>1. Cloid \in Cloids /\ order[Cloid].status \in Sent
        BY <1>14, CloidType DEF Resolve, Terminal, Sent, WithOid, AttemptPcs
      <3>2. attempt' \in [Cloids -> AttemptRecord]
        BY <1>14, <3>1, SetStatusType DEF Resolve, SetAttempt
      <3> QED
        BY <1>14, <3>2 DEF Resolve
    <2>2. ExchangeTypeOK'
      BY <1>14 DEF Resolve, SetAttempt
    <2>3. ProcessTypeOK'
      <3>1. order[Cloid].filled \in Nat /\ no \in AttemptNos
        BY <1>14, CloidType, RowTypes DEF Resolve, AttemptPcs
      <3>2. confirmed' \in Nat
        BY <1>14, <3>1 DEF Resolve, ProcessTypeOK
      <3> QED
        BY <1>14, <3>1, <3>2
        DEF Resolve, ProcessTypeOK, Pcs, TryPcs, AttemptNos, MaxAttempts
    <2>4. CursorOK'
      BY <1>14 DEF Resolve, SetAttempt, CursorOK, WorkPcs, AttemptPcs, TryPcs
    <2>5. BoundTypeOK'
      BY <1>14 DEF Resolve, SetAttempt
    <2> QED
      BY <2>1, <2>2, <2>3, <2>4, <2>5
  <1>15. CASE BookFills
    <2>1. LedgerTypeOK'
      <3> SUFFICES ASSUME NEW c \in Cloids, pc = "sync", Unbooked(c),
                      attempt' = [attempt EXCEPT ![c].booked = order[c].feed],
                      ledgerQty' = [ledgerQty EXCEPT
                          ![cur] = @ + order[c].feed - attempt[c].booked]
               PROVE  LedgerTypeOK'
        BY <1>15 DEF BookFills, NewLots
      <3>1. cur \in Intents
        BY DEF CursorOK, WorkPcs, TryPcs
      <3>2. ledgerQty' \in [Intents -> Nat]
        BY <3>1, RowTypes DEF Unbooked
      <3>3. attempt' \in [Cloids -> AttemptRecord]
        BY RowTypes DEF AttemptRecord
      <3> QED
        BY <1>15, <3>2, <3>3 DEF BookFills, NewLots
    <2>2. ExchangeTypeOK'
      BY <1>15 DEF BookFills, NewLots, Unbooked
    <2>3. ProcessTypeOK'
      BY <1>15, CloidType DEF BookFills, NewLots, Unbooked, ProcessTypeOK
    <2>4. CursorOK'
      BY <1>15 DEF BookFills, NewLots, Unbooked, CursorOK
    <2>5. BoundTypeOK'
      BY <1>15 DEF BookFills, NewLots, Unbooked
    <2> QED
      BY <2>1, <2>2, <2>3, <2>4, <2>5
  <1>16. CASE SyncDone
    <2>1. LedgerTypeOK'
      BY <1>16 DEF SyncDone
    <2>2. ExchangeTypeOK'
      BY <1>16 DEF SyncDone
    <2>3. ProcessTypeOK'
      BY <1>16
      DEF SyncDone, ProcessTypeOK, CursorOK, Pcs, TryPcs, AttemptNos,
          MaxAttempts, IntentStatuses
    <2>4. CursorOK'
      BY <1>16 DEF SyncDone, CursorOK, WorkPcs, AttemptPcs, TryPcs
    <2>5. BoundTypeOK'
      BY <1>16 DEF SyncDone
    <2> QED
      BY <2>1, <2>2, <2>3, <2>4, <2>5
  <1>17. CASE Exhausted
    BY <1>17
    DEF Exhausted, Goto, ProcessTypeOK, CursorOK, WorkPcs, AttemptPcs, Pcs,
        TryPcs
  <1>18. CASE SkipTransmitted
    BY <1>18
    DEF SkipTransmitted, InLoop, NextAttemptNo, ProcessTypeOK, CursorOK,
        AttemptPcs, MaxAttempts
  <1>19. CASE AlreadyFilled
    <2>1. LedgerTypeOK'
      BY <1>19 DEF AlreadyFilled, InLoop, Continue
    <2>2. ExchangeTypeOK'
      BY <1>19 DEF AlreadyFilled, InLoop, Continue
    <2>3. ProcessTypeOK'
      BY <1>19
      DEF AlreadyFilled, InLoop, Continue, ProcessTypeOK, Pcs, TryPcs,
          IntentStatuses
    <2>4. CursorOK'
      BY <1>19
      DEF AlreadyFilled, InLoop, Continue, CursorOK, WorkPcs, AttemptPcs, TryPcs
    <2>5. BoundTypeOK'
      BY <1>19 DEF AlreadyFilled, InLoop, Continue
    <2> QED
      BY <2>1, <2>2, <2>3, <2>4, <2>5
  <1>20. CASE Abandon
    <2>1. LedgerTypeOK'
      <3>1. Cloid \in Cloids
        BY <1>20, CloidType
        DEF Abandon, PreparedFound, InLoop, WorkPcs, TryPcs, AttemptNos,
            MaxAttempts, ProcessTypeOK
      <3>2. attempt' \in [Cloids -> AttemptRecord]
        BY <1>20, <3>1, SetStatusType DEF Abandon, PreparedFound, SetAttempt,
            Prepared
      <3> QED
        BY <1>20, <3>2 DEF Abandon, PreparedFound
    <2>2. ExchangeTypeOK'
      BY <1>20 DEF Abandon, PreparedFound, InLoop, SetAttempt, NextAttemptNo
    <2>3. ProcessTypeOK'
      BY <1>20, CloidType
      DEF Abandon, PreparedFound, InLoop, SetAttempt, NextAttemptNo,
          ProcessTypeOK, MaxAttempts
    <2>4. CursorOK'
      BY <1>20
      DEF Abandon, PreparedFound, InLoop, SetAttempt, NextAttemptNo, CursorOK,
          AttemptPcs
    <2>5. BoundTypeOK'
      BY <1>20 DEF Abandon, PreparedFound, InLoop, SetAttempt, NextAttemptNo
    <2> QED
      BY <2>1, <2>2, <2>3, <2>4, <2>5
  <1>21. CASE Reuse
    <2>1. LedgerTypeOK'
      <3>1. Cloid \in Cloids
        BY <1>21, CloidType
        DEF Reuse, PreparedFound, InLoop, WorkPcs, TryPcs, AttemptNos,
            MaxAttempts, ProcessTypeOK
      <3>2. SetAttempt("dust") \/ UNCHANGED attempt
        BY <1>21 DEF Reuse, PreparedFound
      <3>3. [attempt EXCEPT ![Cloid].status = "dust"] \in [Cloids -> AttemptRecord]
        BY <3>1, SetStatusType DEF Prepared
      <3> QED
        BY <1>21, <3>2, <3>3 DEF Reuse, PreparedFound, SetAttempt
    <2>2. ExchangeTypeOK'
      BY <1>21 DEF Reuse, PreparedFound, InLoop, Continue, SizeVerdict,
          SetAttempt
    <2>3. ProcessTypeOK'
      BY <1>21
      DEF Reuse, PreparedFound, InLoop, Continue, SizeVerdict, ProcessTypeOK,
          Pcs, TryPcs, IntentStatuses
    <2>4. CursorOK'
      BY <1>21
      DEF Reuse, PreparedFound, InLoop, Continue, SizeVerdict, SetAttempt,
          ProcessTypeOK, CursorOK, WorkPcs, TryPcs, AttemptNos, MaxAttempts
    <2>5. BoundTypeOK'
      BY <1>21 DEF Reuse, PreparedFound, InLoop, Continue, SizeVerdict,
          SetAttempt
    <2> QED
      BY <2>1, <2>2, <2>3, <2>4, <2>5
  <1>22. CASE Prepare
    <2>1. LedgerTypeOK'
      <3>1. Cloid \in Cloids /\ Remaining \in Nat
        BY <1>22, CloidType, RemainingType
        DEF Prepare, InLoop, WorkPcs, TryPcs, AttemptNos, MaxAttempts,
            ProcessTypeOK
      <3>2. attempt' \in [Cloids -> AttemptRecord]
        BY <1>22, <3>1 DEF Prepare, AttemptRecord, Prepared
      <3> QED
        BY <1>22, <3>2 DEF Prepare
    <2>2. ExchangeTypeOK'
      BY <1>22 DEF Prepare, InLoop, Continue, SizeVerdict, Remaining
    <2>3. ProcessTypeOK'
      BY <1>22
      DEF Prepare, InLoop, Continue, SizeVerdict, ProcessTypeOK, Pcs, TryPcs,
          IntentStatuses
    <2>4. CursorOK'
      BY <1>22
      DEF Prepare, InLoop, Continue, SizeVerdict, Remaining, ProcessTypeOK,
          CursorOK, WorkPcs, TryPcs, AttemptNos, MaxAttempts
    <2>5. BoundTypeOK'
      BY <1>22 DEF Prepare, InLoop, Continue, SizeVerdict, Remaining
    <2> QED
      BY <2>1, <2>2, <2>3, <2>4, <2>5
  <1>23. CASE DriftCheck
    BY <1>23
    DEF DriftCheck, Goto, ProcessTypeOK, CursorOK, WorkPcs, AttemptPcs, Pcs,
        TryPcs
  <1>24. CASE PlaceResting
    <2>1. LedgerTypeOK'
      BY <1>24 DEF PlaceResting, NewOrder, Answer
    <2>2. ExchangeTypeOK'
      BY <1>24, CloidType, NewOrderType DEF PlaceResting, AttemptPcs
    <2>3. ProcessTypeOK'
      BY <1>24, CloidType
      DEF PlaceResting, NewOrder, Answer, ProcessTypeOK, Pcs, TryPcs, Replies
    <2>4. CursorOK'
      BY <1>24
      DEF PlaceResting, NewOrder, Answer, CursorOK, WorkPcs, AttemptPcs, TryPcs
    <2>5. BoundTypeOK'
      BY <1>24 DEF PlaceResting, NewOrder, Answer
    <2> QED
      BY <2>1, <2>2, <2>3, <2>4, <2>5
  <1>25. CASE PlaceFilled
    <2>1. LedgerTypeOK'
      BY <1>25 DEF PlaceFilled, NewOrder, Answer, Sign
    <2>2. ExchangeTypeOK'
      <3>1. cur \in Intents /\ Cloid \in Cloids
        BY <1>25, CloidType DEF PlaceFilled, AttemptPcs
      <3>2. order' \in [Cloids -> OrderRecord]
        BY <1>25, <3>1, RowTypes, NewOrderType DEF PlaceFilled
      <3>3. position' \in [Tickers -> Int]
        BY <1>25, <3>1, RowTypes, PlanTypes DEF PlaceFilled
      <3> QED
        BY <1>25, <3>2, <3>3 DEF PlaceFilled
    <2>3. ProcessTypeOK'
      BY <1>25, CloidType
      DEF PlaceFilled, NewOrder, Answer, Sign, ProcessTypeOK, Pcs, TryPcs,
          Replies
    <2>4. CursorOK'
      BY <1>25
      DEF PlaceFilled, NewOrder, Answer, Sign, CursorOK, WorkPcs, AttemptPcs,
          TryPcs
    <2>5. BoundTypeOK'
      BY <1>25 DEF PlaceFilled, NewOrder, Answer, Sign
    <2> QED
      BY <2>1, <2>2, <2>3, <2>4, <2>5
  <1>26. CASE PlaceRefused
    BY <1>26
    DEF PlaceRefused, Answer, ProcessTypeOK, CursorOK, WorkPcs, AttemptPcs,
        Pcs, TryPcs, Replies
  <1>27. CASE PlaceUnacknowledged
    <2>1. LedgerTypeOK'
      BY <1>27 DEF PlaceUnacknowledged, NewOrder, Answer
    <2>2. ExchangeTypeOK'
      BY <1>27, CloidType, NewOrderType DEF PlaceUnacknowledged, AttemptPcs
    <2>3. ProcessTypeOK'
      BY <1>27, CloidType
      DEF PlaceUnacknowledged, NewOrder, Answer, ProcessTypeOK, Pcs, TryPcs,
          Replies
    <2>4. CursorOK'
      BY <1>27
      DEF PlaceUnacknowledged, NewOrder, Answer, CursorOK, WorkPcs, AttemptPcs,
          TryPcs
    <2>5. BoundTypeOK'
      BY <1>27 DEF PlaceUnacknowledged, NewOrder, Answer
    <2> QED
      BY <2>1, <2>2, <2>3, <2>4, <2>5
  <1>28. CASE MarkRun
    BY <1>28
    DEF MarkRun, Goto, ProcessTypeOK, CursorOK, WorkPcs, AttemptPcs, Pcs, TryPcs
  <1>29. CASE MarkIntent
    BY <1>29
    DEF MarkIntent, Goto, ProcessTypeOK, CursorOK, WorkPcs, AttemptPcs, Pcs,
        TryPcs, IntentStatuses
  <1>30. CASE RecordResting
    <2>1. LedgerTypeOK'
      <3>1. attempt' \in [Cloids -> AttemptRecord]
        BY <1>30, CloidType, SetStatusType
        DEF RecordResting, SetAttempt, Sent, WithOid
      <3> QED
        BY <1>30, <3>1 DEF RecordResting
    <2>2. ExchangeTypeOK'
      BY <1>30 DEF RecordResting, SetAttempt, Goto
    <2>3. ProcessTypeOK'
      BY <1>30, CloidType
      DEF RecordResting, SetAttempt, Goto, ProcessTypeOK, Pcs, TryPcs
    <2>4. CursorOK'
      BY <1>30
      DEF RecordResting, SetAttempt, Goto, CursorOK, WorkPcs, AttemptPcs, TryPcs
    <2>5. BoundTypeOK'
      BY <1>30 DEF RecordResting, SetAttempt, Goto
    <2> QED
      BY <2>1, <2>2, <2>3, <2>4, <2>5
  <1>31. CASE RecordFilled
    <2>1. LedgerTypeOK'
      <3>1. attempt' \in [Cloids -> AttemptRecord]
        BY <1>31, CloidType, SetStatusType
        DEF RecordFilled, SetAttempt, Sent, WithOid
      <3> QED
        BY <1>31, <3>1 DEF RecordFilled
    <2>2. ExchangeTypeOK'
      BY <1>31 DEF RecordFilled, SetAttempt
    <2>3. ProcessTypeOK'
      <3>1. attempt[Cloid].quantity \in Nat
        BY <1>31, CloidType, RowTypes DEF RecordFilled, AttemptPcs
      <3> QED
        BY <1>31, <3>1 DEF RecordFilled, ProcessTypeOK, Pcs, TryPcs
    <2>4. CursorOK'
      BY <1>31
      DEF RecordFilled, SetAttempt, CursorOK, WorkPcs, AttemptPcs, TryPcs
    <2>5. BoundTypeOK'
      BY <1>31 DEF RecordFilled, SetAttempt
    <2> QED
      BY <2>1, <2>2, <2>3, <2>4, <2>5
  <1>32. CASE RecordRefused
    <2>1. LedgerTypeOK'
      <3>1. attempt' \in [Cloids -> AttemptRecord]
        BY <1>32, CloidType, SetStatusType DEF RecordRefused, SetAttempt, Sent
      <3> QED
        BY <1>32, <3>1 DEF RecordRefused
    <2>2. ExchangeTypeOK'
      BY <1>32 DEF RecordRefused, SetAttempt, NextAttemptNo, Goto
    <2>3. ProcessTypeOK'
      BY <1>32, CloidType
      DEF RecordRefused, SetAttempt, NextAttemptNo, Goto, ProcessTypeOK, Pcs,
          TryPcs, MaxAttempts
    <2>4. CursorOK'
      BY <1>32
      DEF RecordRefused, SetAttempt, NextAttemptNo, Goto, CursorOK, WorkPcs,
          AttemptPcs, TryPcs
    <2>5. BoundTypeOK'
      BY <1>32 DEF RecordRefused, SetAttempt, NextAttemptNo, Goto
    <2> QED
      BY <2>1, <2>2, <2>3, <2>4, <2>5
  <1>33. CASE Refuse
    BY <1>33
    DEF Refuse, ProcessTypeOK, CursorOK, WorkPcs, AttemptPcs, Pcs,
        IntentStatuses
  <1>34. CASE Settle
    <2>1. cur \in Intents /\ FinalOf \in IntentStatuses
      BY <1>34 DEF Settle, CursorOK, WorkPcs, TryPcs, FinalOf, IntentStatuses
    <2>2. LedgerTypeOK' /\ ExchangeTypeOK' /\ BoundTypeOK'
      BY <1>34, <2>1 DEF Settle
    <2>3. CASE FinalOf = "unfilled"
      BY <1>34, <2>2, <2>3 DEF Settle, ProcessTypeOK, CursorOK, AttemptPcs, Pcs
    <2>4. CASE FinalOf # "unfilled"
      <3>1. BeginIntent(cur + 1) /\ deadmanArmed' \in BOOLEAN /\ failed' \in BOOLEAN
        BY <1>34, <2>4 DEF Settle, ProcessTypeOK
      <3>2. cur + 1 \in 1..(Len(Plan) + 1)
        BY <2>1 DEF Intents
      <3>3. ProcessTypeOK' /\ CursorOK'
        BY <3>1, <3>2, BeginIntentType
      <3> QED
        BY <2>2, <3>3
    <2> QED
      BY <2>3, <2>4
  <1>35. CASE Postcheck
    BY <1>35
    DEF Postcheck, Goto, ProcessTypeOK, CursorOK, WorkPcs, AttemptPcs, Pcs,
        TryPcs
  <1>36. CASE MarkRebalanced
    BY <1>36
    DEF MarkRebalanced, Goto, ProcessTypeOK, CursorOK, WorkPcs, AttemptPcs,
        Pcs, TryPcs
  <1>37. CASE Attention
    BY <1>37
    DEF Attention, Goto, ProcessTypeOK, CursorOK, WorkPcs, AttemptPcs, Pcs,
        TryPcs
  <1>38. CASE Disarm
    <2>1. LedgerTypeOK'
      BY <1>38 DEF Disarm, Exit
    <2>2. ExchangeTypeOK'
      BY <1>38 DEF Disarm, Exit
    <2>3. ProcessTypeOK' /\ CursorOK'
      BY <1>38, ExitType DEF Disarm
    <2>5. BoundTypeOK'
      BY <1>38 DEF Disarm, Exit
    <2> QED
      BY <2>1, <2>2, <2>3, <2>5
  <1>39. CASE DisarmFails
    <2>1. LedgerTypeOK'
      BY <1>39 DEF DisarmFails, Exit
    <2>2. ExchangeTypeOK'
      BY <1>39 DEF DisarmFails, Exit
    <2>3. ProcessTypeOK' /\ CursorOK'
      BY <1>39, ExitType DEF DisarmFails
    <2>5. BoundTypeOK'
      BY <1>39 DEF DisarmFails, Exit
    <2> QED
      BY <2>1, <2>2, <2>3, <2>5
  <1>40. CASE Fail \/ Interrupt
    <2>1. LedgerTypeOK' /\ ExchangeTypeOK'
      BY <1>40 DEF Fail, Interrupt, Goto
    <2>2. ProcessTypeOK' /\ CursorOK'
      BY <1>40 DEF Fail, Interrupt, Goto, ProcessTypeOK, CursorOK, WorkPcs,
          AttemptPcs, Pcs, TryPcs
    <2>3. BoundTypeOK'
      BY <1>40 DEF Fail, Interrupt, LoseIfUnrecorded
    <2> QED BY <2>1, <2>2, <2>3
  <1>41. CASE Crash
    <2>1. LedgerTypeOK'
      BY <1>41 DEF Crash, Exit, LoseIfUnrecorded
    <2>2. ExchangeTypeOK'
      BY <1>41 DEF Crash, Exit, LoseIfUnrecorded
    <2>3. ProcessTypeOK' /\ CursorOK'
      BY <1>41, ExitType DEF Crash, LoseIfUnrecorded
    <2>5. BoundTypeOK'
      BY <1>41 DEF Crash, Exit, LoseIfUnrecorded
    <2> QED
      BY <2>1, <2>2, <2>3, <2>5
  <1>42. CASE \E c \in Cloids : OrderFills(c)
    <2>1. LedgerTypeOK'
      BY <1>42 DEF OrderFills, Sign
    <2>2. ExchangeTypeOK'
      <3> SUFFICES ASSUME NEW c \in Cloids, OrderFills(c) PROVE ExchangeTypeOK'
        BY <1>42
      <3>1. c[1] \in Intents /\ order[c] \in OrderRecord
        BY DEF Cloids
      <3>2. Plan[c[1]].ticker \in Tickers /\ Sign(c[1]) \in Int
        BY <3>1, PlanTypes
      <3>3. order[c].filled + 1 \in Nat /\ order[c].quantity \in Nat
              /\ order[c].feed \in Nat
        BY RowTypes
      <3>4. order' \in [Cloids -> OrderRecord]
        BY <3>3 DEF OrderFills, OrderRecord, Terminal
      <3>5. position' \in [Tickers -> Int]
        BY <3>2 DEF OrderFills
      <3> QED
        BY <3>4, <3>5 DEF OrderFills
    <2>3. ProcessTypeOK'
      BY <1>42, CloidType DEF OrderFills, Sign, ProcessTypeOK
    <2>4. CursorOK'
      BY <1>42 DEF OrderFills, Sign, CursorOK
    <2>5. BoundTypeOK'
      BY <1>42 DEF OrderFills, Sign
    <2> QED
      BY <2>1, <2>2, <2>3, <2>4, <2>5
  <1>43. CASE \E c \in Cloids : OrderCanceled(c)
    <2>1. LedgerTypeOK'
      BY <1>43 DEF OrderCanceled
    <2>2. ExchangeTypeOK'
      <3> SUFFICES ASSUME NEW c \in Cloids, OrderCanceled(c) PROVE ExchangeTypeOK'
        BY <1>43
      <3>1. order' \in [Cloids -> OrderRecord]
        BY DEF OrderCanceled, OrderRecord, Terminal
      <3> QED
        BY <3>1 DEF OrderCanceled
    <2>3. ProcessTypeOK'
      BY <1>43, CloidType DEF OrderCanceled, ProcessTypeOK
    <2>4. CursorOK'
      BY <1>43 DEF OrderCanceled, CursorOK
    <2>5. BoundTypeOK'
      BY <1>43 DEF OrderCanceled
    <2> QED
      BY <2>1, <2>2, <2>3, <2>4, <2>5
  <1>44. CASE \E c \in Cloids : FeedCatchesUp(c)
    <2>1. LedgerTypeOK'
      BY <1>44 DEF FeedCatchesUp
    <2>2. ExchangeTypeOK'
      <3> SUFFICES ASSUME NEW c \in Cloids, FeedCatchesUp(c) PROVE ExchangeTypeOK'
        BY <1>44
      <3>1. order[c].feed + 1 \in Nat
        BY RowTypes
      <3>2. order' \in [Cloids -> OrderRecord]
        BY <3>1 DEF FeedCatchesUp, OrderRecord
      <3> QED
        BY <3>2 DEF FeedCatchesUp
    <2>3. ProcessTypeOK'
      BY <1>44, CloidType DEF FeedCatchesUp, ProcessTypeOK
    <2>4. CursorOK'
      BY <1>44 DEF FeedCatchesUp, CursorOK
    <2>5. BoundTypeOK'
      BY <1>44 DEF FeedCatchesUp
    <2> QED
      BY <2>1, <2>2, <2>3, <2>4, <2>5
  <1>45. CASE DeadmanFires
    <2>1. LedgerTypeOK'
      BY <1>45 DEF DeadmanFires
    <2>2. ExchangeTypeOK'
      BY <1>45 DEF DeadmanFires, OrderRecord, Terminal
    <2>3. ProcessTypeOK'
      BY <1>45, CloidType DEF DeadmanFires, ProcessTypeOK
    <2>4. CursorOK'
      BY <1>45 DEF DeadmanFires, CursorOK
    <2>5. BoundTypeOK'
      BY <1>45 DEF DeadmanFires
    <2> QED
      BY <2>1, <2>2, <2>3, <2>4, <2>5
  <1>46. CASE ManualTrade
    BY <1>46 DEF ManualTrade, ProcessTypeOK, CursorOK
  <1>47. CASE UNCHANGED vars
    BY <1>47 DEF vars, ProcessTypeOK, CursorOK
  <1> QED
    BY <1>1, <1>2, <1>3, <1>4, <1>5, <1>6, <1>7, <1>8, <1>9, <1>10, <1>11,
       <1>12, <1>13, <1>14, <1>15, <1>16, <1>17, <1>18, <1>19, <1>20, <1>21,
       <1>22, <1>23, <1>24, <1>25, <1>26, <1>27, <1>28, <1>29, <1>30, <1>31,
       <1>32, <1>33, <1>34, <1>35, <1>36, <1>37, <1>38, <1>39, <1>40, <1>41,
       <1>42, <1>43, <1>44, <1>45, <1>46, <1>47
    DEF Next, ProcessStep, ExchangeStep, TakePrepared
-----------------------------------------------------------------------------
(* An order belongs to a claimed run *)

(* The lock is taken before anything else and only given back while there   *)
(* is no session; a send only follows a durable attempt row.                *)
ClaimOK ==
    /\ pc # "idle" => lock
    /\ pc \in TryPcs \cup {"except", "disarm"} => session # "none"
    /\ pc \in {"check", "send"} => attempt[Cloid].status # "absent"

ClaimInv == TypeInv /\ ClaimOK /\ OrdersAreClaimed

-----------------------------------------------------------------------------
(* One order per intent *)

FlightPcs == {"markRun", "markIntent", "record"}
LoopPcs == {"attempt", "check", "send", "refuse", "settle"} \cup FlightPcs
StatusPcs == {"query", "cancel", "await"}

(* The placement the process has made and not yet recorded.                 *)
InFlight(c) ==
    pc \in FlightPcs /\ c = Cloid /\ response \in {"open", "filled"}

(* Which phase the program counter belongs to, and what the row of the      *)
(* attempt at hand says while it is being sent.                             *)
PhaseOK ==
    /\ pc \in LoopPcs => phase = "live"
    /\ pc \in {"check", "send"} \cup FlightPcs =>
           attempt[Cloid].status \in Prepared

(* A row recorded as finished says what the exchange says.                  *)
FinishedOK ==
    /\ \A c \in Cloids : attempt[c].status \in Terminal =>
           order[c].status = attempt[c].status
    /\ pc \in FlightPcs /\ response = "filled" =>
           order[Cloid].status = "filled"

(* Every order is known to the ledger by its oid, every open one as open.   *)
KnownOK ==
    \A c \in Cloids :
        /\ Placed(c) => attempt[c].status \in WithOid \/ InFlight(c)
        /\ Open(c) => attempt[c].status = "open" \/ InFlight(c)

(* The attempts of the current intent that certainly do not rest: those     *)
(* already reconciled, all others than the one being watched, or all.       *)
QuietOK ==
    \A n \in AttemptNos :
        \/ pc \in {"idle", "snapshot", "arm", "session", "except", "disarm",
                   "postcheck", "archive"}
        \/ pc \in {"reconcile"} \cup StatusPcs /\ phase = "reconcile" /\ n >= no
        \/ pc \in StatusPcs \cup FlightPcs /\ phase = "live" /\ n = no
        \/ ~Open(<<cur, n>>)

OneOK == \A i \in Intents, m, n \in AttemptNos :
             Open(<<i, m>>) /\ Open(<<i, n>>) => m = n

SerialInv ==
    /\ TypeInv
    /\ PhaseOK
    /\ FinishedOK
    /\ Acknowledged => KnownOK /\ QuietOK /\ OneOK
LEMMA ClaimStep == ClaimInv /\ [Next]_vars => ClaimInv'
  <1> SUFFICES ASSUME ClaimInv, [Next]_vars PROVE ClaimInv'
    OBVIOUS
  <1>0. TypeInv /\ TypeInv'
    BY TypeStep DEF ClaimInv
  <1> USE DEF ClaimInv, ClaimOK, OrdersAreClaimed, Placed, Cloid, ledgerVars,
      exchangeVars, intentVars, processVars, boundVars
  <1>1. CASE StartFresh
    BY <1>0, <1>1 DEF StartFresh, Enter, Goto, TryPcs
  <1>2. CASE StartResume
    BY <1>0, <1>2 DEF StartResume, Enter, Goto, TryPcs
  <1>3. CASE SnapshotOk
    BY <1>0, <1>3 DEF SnapshotOk, Goto, TryPcs
  <1>4. CASE SnapshotFails
    BY <1>0, <1>4 DEF SnapshotFails, Exit, TryPcs
  <1>5. CASE ArmOk
    BY <1>0, <1>5 DEF ArmOk, TryPcs
  <1>6. CASE ArmWaived
    BY <1>0, <1>6 DEF ArmWaived, Goto, TryPcs
  <1>7. CASE ArmFails
    BY <1>0, <1>7 DEF ArmFails, ReleaseExecution, Exit, TryPcs
  <1>8. CASE StartSession
    BY <1>0, <1>8 DEF StartSession, BeginIntent
  <1>9. CASE ReconcileSkip
    BY <1>0, <1>9 DEF ReconcileSkip, NextAttemptNo
  <1>10. CASE ReconcileQuery
    BY <1>0, <1>10 DEF ReconcileQuery, Goto, TryPcs
  <1>11. CASE ReconcileDone
    BY <1>0, <1>11 DEF ReconcileDone, Goto, TryPcs
  <1>12. CASE QueryOpen
    BY <1>0, <1>12 DEF QueryOpen, Goto, TryPcs
  <1>13. CASE CancelAccepted
    BY <1>0, <1>13 DEF CancelAccepted, Goto, TryPcs
  <1>14. CASE Resolve
    BY <1>0, <1>14 DEF Resolve, SetAttempt, TryPcs
  <1>15. CASE BookFills
    BY <1>0, <1>15 DEF BookFills, NewLots, Unbooked
  <1>16. CASE SyncDone
    BY <1>0, <1>16 DEF SyncDone, TryPcs
  <1>17. CASE Exhausted
    BY <1>0, <1>17 DEF Exhausted, Goto, TryPcs
  <1>18. CASE SkipTransmitted
    BY <1>0, <1>18 DEF SkipTransmitted, InLoop, NextAttemptNo
  <1>19. CASE AlreadyFilled
    BY <1>0, <1>19 DEF AlreadyFilled, InLoop, Continue, TryPcs
  <1>20. CASE Abandon
    BY <1>0, <1>20 DEF Abandon, PreparedFound, InLoop, SetAttempt, NextAttemptNo
  <1>21. CASE Reuse
    <2>1. SetAttempt("dust") \/ UNCHANGED attempt
      BY <1>21 DEF Reuse, PreparedFound
    <2>2. \A c \in Cloids : attempt[c].status # "absent" =>
                            attempt'[c].status # "absent"
      BY <1>0, <2>1
      DEF SetAttempt, TypeInv, TypeOK, LedgerTypeOK, AttemptRecord
    <2>3. attempt[<<cur, no>>].status \in Prepared /\ cur' = cur /\ no' = no
      BY <1>21 DEF Reuse, PreparedFound, InLoop, Continue
    <2>4. pc' = "check" => UNCHANGED attempt
      BY <1>21 DEF Reuse, PreparedFound, InLoop, Continue
    <2> QED
      BY <1>0, <1>21, <2>2, <2>3, <2>4
      DEF Reuse, PreparedFound, InLoop, Continue, Prepared, TryPcs
  <1>22. CASE Prepare
    BY <1>0, <1>22
    DEF Prepare, InLoop, Continue, SizeVerdict, TypeInv, TypeOK, LedgerTypeOK,
        TryPcs
  <1>23. CASE DriftCheck
    BY <1>0, <1>23 DEF DriftCheck, Goto, TryPcs
  <1>24. CASE PlaceResting
    BY <1>0, <1>24 DEF PlaceResting, NewOrder, Answer, TryPcs
  <1>25. CASE PlaceFilled
    BY <1>0, <1>25 DEF PlaceFilled, NewOrder, Answer, TryPcs
  <1>26. CASE PlaceRefused
    BY <1>0, <1>26 DEF PlaceRefused, Answer, TryPcs
  <1>27. CASE PlaceUnacknowledged
    BY <1>0, <1>27 DEF PlaceUnacknowledged, NewOrder, Answer, TryPcs
  <1>28. CASE MarkRun
    BY <1>0, <1>28 DEF MarkRun, Goto, TryPcs
  <1>29. CASE MarkIntent
    BY <1>0, <1>29 DEF MarkIntent, Goto, TryPcs
  <1>30. CASE RecordResting
    BY <1>0, <1>30 DEF RecordResting, SetAttempt, Goto, TryPcs
  <1>31. CASE RecordFilled
    BY <1>0, <1>31 DEF RecordFilled, SetAttempt, TryPcs
  <1>32. CASE RecordRefused
    BY <1>0, <1>32 DEF RecordRefused, SetAttempt, NextAttemptNo, Goto, TryPcs
  <1>33. CASE Refuse
    BY <1>0, <1>33 DEF Refuse, TryPcs
  <1>34. CASE Settle
    BY <1>0, <1>34 DEF Settle, BeginIntent, TryPcs
  <1>35. CASE Postcheck
    BY <1>0, <1>35 DEF Postcheck, Goto
  <1>36. CASE MarkRebalanced
    BY <1>0, <1>36 DEF MarkRebalanced, Goto, TryPcs
  <1>37. CASE Attention
    BY <1>0, <1>37 DEF Attention, Goto
  <1>38. CASE Disarm
    BY <1>0, <1>38 DEF Disarm, Exit
  <1>39. CASE DisarmFails
    BY <1>0, <1>39 DEF DisarmFails, Exit
  <1>40. CASE Fail \/ Interrupt
    BY <1>0, <1>40 DEF Fail, Interrupt, Goto, LoseIfUnrecorded, TryPcs
  <1>41. CASE Crash
    BY <1>0, <1>41 DEF Crash, Exit, LoseIfUnrecorded, TryPcs
  <1>42. CASE \E c \in Cloids : OrderFills(c)
    BY <1>0, <1>42 DEF OrderFills
  <1>43. CASE \E c \in Cloids : OrderCanceled(c)
    BY <1>0, <1>43 DEF OrderCanceled
  <1>44. CASE \E c \in Cloids : FeedCatchesUp(c)
    BY <1>0, <1>44 DEF FeedCatchesUp
  <1>45. CASE DeadmanFires
    BY <1>0, <1>45 DEF DeadmanFires
  <1>46. CASE ManualTrade
    BY <1>0, <1>46 DEF ManualTrade
  <1>47. CASE UNCHANGED vars
    BY <1>0, <1>47 DEF vars
  <1> QED
    BY <1>1, <1>2, <1>3, <1>4, <1>5, <1>6, <1>7, <1>8, <1>9, <1>10, <1>11,
       <1>12, <1>13, <1>14, <1>15, <1>16, <1>17, <1>18, <1>19, <1>20, <1>21,
       <1>22, <1>23, <1>24, <1>25, <1>26, <1>27, <1>28, <1>29, <1>30, <1>31,
       <1>32, <1>33, <1>34, <1>35, <1>36, <1>37, <1>38, <1>39, <1>40, <1>41,
       <1>42, <1>43, <1>44, <1>45, <1>46, <1>47
    DEF Next, ProcessStep, ExchangeStep, TakePrepared
LEMMA SerialStep == SerialInv /\ [Next]_vars => SerialInv'
  <1> SUFFICES ASSUME SerialInv, [Next]_vars PROVE SerialInv'
    OBVIOUS
  <1>0. TypeInv /\ TypeInv'
    BY TypeStep DEF SerialInv
  <1> USE DEF SerialInv, PhaseOK, FinishedOK, KnownOK, QuietOK, OneOK,
      Acknowledged, Placed, Open, InFlight, Cloid, ledgerVars, exchangeVars,
      intentVars, processVars, boundVars
  <1>1. CASE StartFresh
    BY <1>0, <1>1 DEF StartFresh, Enter, Goto, FlightPcs, LoopPcs
  <1>2. CASE StartResume
    BY <1>0, <1>2 DEF StartResume, Enter, Goto, FlightPcs, LoopPcs
  <1>3. CASE SnapshotOk
    BY <1>0, <1>3 DEF SnapshotOk, Goto, FlightPcs, LoopPcs
  <1>4. CASE SnapshotFails
    BY <1>0, <1>4 DEF SnapshotFails, Exit, FlightPcs, LoopPcs
  <1>5. CASE ArmOk
    BY <1>0, <1>5 DEF ArmOk, FlightPcs, LoopPcs
  <1>6. CASE ArmWaived
    BY <1>0, <1>6 DEF ArmWaived, Goto, FlightPcs, LoopPcs
  <1>7. CASE ArmFails
    BY <1>0, <1>7 DEF ArmFails, ReleaseExecution, Exit, FlightPcs, LoopPcs
  <1>8. CASE StartSession
    <2>1. PhaseOK'
      BY <1>0, <1>8
      DEF StartSession, BeginIntent, Prepared, Sent, WithOid, Terminal,
          Unrecorded, FlightPcs, LoopPcs
    <2>2. FinishedOK'
      BY <1>0, <1>8
      DEF StartSession, BeginIntent, Prepared, Sent, WithOid, Terminal,
          Unrecorded
    <2>3. Acknowledged' => KnownOK'
      BY <1>0, <1>8
      DEF StartSession, BeginIntent, Prepared, Sent, WithOid, Terminal,
          Unrecorded, FlightPcs
    <2>4. Acknowledged' => QuietOK'
      BY <1>0, ConstantFacts, <1>8
      DEF StartSession, BeginIntent, Prepared, Sent, WithOid, Terminal,
          Unrecorded, AttemptNos, Cloids
    <2>5. Acknowledged' => OneOK'
      BY <1>0, <1>8
      DEF StartSession, BeginIntent, Prepared, Sent, WithOid, Terminal,
          Unrecorded, Cloids
    <2> QED
      BY <1>0, <2>1, <2>2, <2>3, <2>4, <2>5 DEF SerialInv
  <1>9. CASE ReconcileSkip
    <2>1. PhaseOK'
      BY <1>0, <1>9
      DEF ReconcileSkip, NextAttemptNo, Prepared, Sent, WithOid, Terminal,
          Unrecorded, FlightPcs
    <2>2. FinishedOK'
      BY <1>0, <1>9
      DEF ReconcileSkip, NextAttemptNo, Prepared, Sent, WithOid, Terminal,
          Unrecorded, FlightPcs
    <2>3. Acknowledged' => KnownOK'
      BY <1>0, <1>9
      DEF ReconcileSkip, NextAttemptNo, Prepared, Sent, WithOid, Terminal,
          Unrecorded, FlightPcs
    <2>4. Acknowledged' => QuietOK'
      <3>1. no \in AttemptNos /\ <<cur, no>> \in Cloids
        BY <1>0, <1>9, CloidType, ConstantFacts
        DEF ReconcileSkip, TypeInv, TypeOK, ProcessTypeOK, WorkPcs, TryPcs,
            AttemptNos, MaxAttempts
      <3>2. Acknowledged => ~Open(<<cur, no>>)
        BY <1>9, <3>1 DEF ReconcileSkip, FlightPcs, WithOid
      <3>3. \A m \in AttemptNos : m < no + 1 => m < no \/ m = no
        BY <3>1, ConstantFacts DEF AttemptNos
      <3>4. pc = "reconcile" /\ pc' = "reconcile" /\ no' = no + 1
        BY <1>9 DEF ReconcileSkip, NextAttemptNo
      <3>5. \A m \in AttemptNos : m >= no' \/ m < no'
        BY <3>1, <3>4, ConstantFacts DEF AttemptNos
      <3>6. \A m \in AttemptNos : m < no => ~(m >= no)
        BY <3>1, ConstantFacts DEF AttemptNos
      <3>7. \A m \in AttemptNos : Acknowledged /\ m < no => ~Open(<<cur, m>>)
        BY <3>4, <3>6 DEF StatusPcs, FlightPcs
      <3> QED
        BY <1>0, <1>9, <3>2, <3>3, <3>4, <3>5, <3>7
        DEF ReconcileSkip, NextAttemptNo
    <2>5. Acknowledged' => OneOK'
      BY <1>0, <1>9
      DEF ReconcileSkip, NextAttemptNo, Prepared, Sent, WithOid, Terminal,
          Unrecorded, Cloids
    <2> QED
      BY <1>0, <2>1, <2>2, <2>3, <2>4, <2>5 DEF SerialInv
  <1>10. CASE ReconcileQuery
    BY <1>0, <1>10 DEF ReconcileQuery, Goto, FlightPcs, LoopPcs, StatusPcs
  <1>11. CASE ReconcileDone
    <2>1. PhaseOK'
      BY <1>0, <1>11
      DEF ReconcileDone, Goto, Prepared, Sent, WithOid, Terminal, Unrecorded,
          FlightPcs, LoopPcs
    <2>2. FinishedOK'
      BY <1>0, <1>11
      DEF ReconcileDone, Goto, Prepared, Sent, WithOid, Terminal, Unrecorded,
          FlightPcs
    <2>3. Acknowledged' => KnownOK'
      BY <1>0, <1>11
      DEF ReconcileDone, Goto, Prepared, Sent, WithOid, Terminal, Unrecorded,
          FlightPcs
    <2>4. Acknowledged' => QuietOK'
      BY <1>0, ConstantFacts, <1>11
      DEF ReconcileDone, Goto, Prepared, Sent, WithOid, Terminal, Unrecorded,
          AttemptNos, Cloids, MaxAttempts
    <2>5. Acknowledged' => OneOK'
      BY <1>0, <1>11
      DEF ReconcileDone, Goto, Prepared, Sent, WithOid, Terminal, Unrecorded,
          Cloids
    <2> QED
      BY <1>0, <2>1, <2>2, <2>3, <2>4, <2>5 DEF SerialInv
  <1>12. CASE QueryOpen
    BY <1>0, <1>12 DEF QueryOpen, Goto, FlightPcs, LoopPcs, StatusPcs
  <1>13. CASE CancelAccepted
    BY <1>0, <1>13 DEF CancelAccepted, Goto, FlightPcs, LoopPcs, StatusPcs
  <1>14. CASE Resolve
    <2>0. cur \in Intents /\ no \in AttemptNos /\ <<cur, no>> \in Cloids
      BY <1>0, <1>14, CloidType DEF Resolve, TypeInv, AttemptPcs
    <2>1. PhaseOK'
      BY <1>0, <1>14, <2>0
      DEF Resolve, SetAttempt, Prepared, Sent, WithOid, Terminal, Unrecorded,
          FlightPcs, LoopPcs
    <2>2. FinishedOK'
      BY <1>0, <1>14, <2>0
      DEF Resolve, SetAttempt, Prepared, Sent, WithOid, Terminal, Unrecorded,
          FlightPcs
    <2>3. Acknowledged' => KnownOK'
      BY <1>0, <1>14, <2>0
      DEF Resolve, SetAttempt, Prepared, Sent, WithOid, Terminal, Unrecorded,
          FlightPcs
    <2>4. Acknowledged' => QuietOK'
      <3>1. ~Open(<<cur, no>>)
        BY <1>14 DEF Resolve, Terminal
      <3>2. \A m \in AttemptNos : m < no + 1 => m < no \/ m = no
        BY <2>0, ConstantFacts DEF AttemptNos
      <3>3. \A m \in AttemptNos : m < no => ~(m >= no)
        BY <2>0, ConstantFacts DEF AttemptNos
      <3>4. \A m \in AttemptNos : m >= no + 1 \/ m < no + 1
        BY <2>0, ConstantFacts DEF AttemptNos
      <3>5. CASE phase = "reconcile"
        <4>1. \A m \in AttemptNos : Acknowledged /\ m < no => ~Open(<<cur, m>>)
          BY <1>14, <3>3, <3>5 DEF Resolve
        <4>2. pc' = "reconcile" /\ phase' = "reconcile" /\ no' = no + 1
              /\ cur' = cur /\ order' = order /\ lost' = lost
          BY <1>14, <3>5 DEF Resolve
        <4> QED
          BY <3>1, <3>2, <3>4, <4>1, <4>2
      <3>6. CASE phase # "reconcile"
        BY <1>0, <1>14, <3>1, <3>6 DEF Resolve
      <3> QED
        BY <3>5, <3>6
    <2>5. Acknowledged' => OneOK'
      BY <1>0, <1>14, <2>0
      DEF Resolve, SetAttempt, Prepared, Sent, WithOid, Terminal, Unrecorded,
          Cloids
    <2> QED
      BY <1>0, <2>1, <2>2, <2>3, <2>4, <2>5 DEF SerialInv
  <1>15. CASE BookFills
    BY <1>0, <1>15 DEF BookFills, NewLots, Unbooked
  <1>16. CASE SyncDone
    BY <1>0, <1>16 DEF SyncDone, FlightPcs, StatusPcs
  <1>17. CASE Exhausted
    BY <1>0, <1>17 DEF Exhausted, Goto, FlightPcs, LoopPcs, StatusPcs
  <1>18. CASE SkipTransmitted
    BY <1>0, <1>18
    DEF SkipTransmitted, InLoop, NextAttemptNo, FlightPcs, StatusPcs
  <1>19. CASE AlreadyFilled
    BY <1>0, <1>19
    DEF AlreadyFilled, InLoop, Continue, FlightPcs, LoopPcs, StatusPcs
  <1>20. CASE Abandon
    <2>0. cur \in Intents /\ no \in AttemptNos /\ <<cur, no>> \in Cloids
      BY <1>0, <1>20, CloidType, ConstantFacts
      DEF Abandon, PreparedFound, InLoop, TypeInv, TypeOK, ProcessTypeOK,
          WorkPcs, TryPcs, AttemptNos, MaxAttempts
    <2>1. PhaseOK'
      BY <1>0, <1>20, <2>0
      DEF Abandon, PreparedFound, InLoop, SetAttempt, NextAttemptNo, Prepared,
          Sent, WithOid, Terminal, Unrecorded, FlightPcs
    <2>2. FinishedOK'
      BY <1>0, <1>20, <2>0
      DEF Abandon, PreparedFound, InLoop, SetAttempt, NextAttemptNo, Prepared,
          Sent, WithOid, Terminal, Unrecorded, FlightPcs
    <2>3. Acknowledged' => KnownOK'
      BY <1>0, <1>20, <2>0
      DEF Abandon, PreparedFound, InLoop, SetAttempt, NextAttemptNo, Prepared,
          Sent, WithOid, Terminal, Unrecorded, FlightPcs
    <2>4. Acknowledged' => QuietOK'
      BY <1>0, ConstantFacts, <1>20, <2>0
      DEF Abandon, PreparedFound, InLoop, SetAttempt, NextAttemptNo, Prepared,
          Sent, WithOid, Terminal, Unrecorded, FlightPcs, StatusPcs, Cloids
    <2>5. Acknowledged' => OneOK'
      BY <1>0, <1>20, <2>0
      DEF Abandon, PreparedFound, InLoop, SetAttempt, NextAttemptNo, Prepared,
          Sent, WithOid, Terminal, Unrecorded, Cloids
    <2> QED
      BY <1>0, <2>1, <2>2, <2>3, <2>4, <2>5 DEF SerialInv
  <1>21. CASE Reuse
    <2>0. cur \in Intents /\ no \in AttemptNos /\ <<cur, no>> \in Cloids
      BY <1>0, <1>21, CloidType, ConstantFacts
      DEF Reuse, PreparedFound, InLoop, TypeInv, TypeOK, ProcessTypeOK,
          WorkPcs, TryPcs, AttemptNos, MaxAttempts
    <2>1. PhaseOK'
      BY <1>0, <1>21, <2>0
      DEF Reuse, PreparedFound, InLoop, Continue, SizeVerdict, SetAttempt,
          Prepared, Sent, WithOid, Terminal, Unrecorded, FlightPcs, LoopPcs
    <2>2. FinishedOK'
      <3>1. pc' \notin FlightPcs /\ order' = order
        BY <1>21 DEF Reuse, PreparedFound, InLoop, Continue, FlightPcs
      <3>2. \A c \in Cloids : attempt'[c].status \in Terminal =>
                attempt[c].status = attempt'[c].status
        <4>1. SetAttempt("dust") \/ UNCHANGED attempt
          BY <1>21 DEF Reuse, PreparedFound
        <4> QED
          BY <1>0, <4>1
          DEF SetAttempt, TypeInv, TypeOK, LedgerTypeOK, Terminal, AttemptRecord
      <3> QED
        BY <3>1, <3>2
    <2>3. Acknowledged' => KnownOK'
      BY <1>0, <1>21, <2>0
      DEF Reuse, PreparedFound, InLoop, Continue, SizeVerdict, SetAttempt,
          TypeInv, TypeOK, LedgerTypeOK, Prepared, Sent, WithOid, Terminal,
          Unrecorded, FlightPcs
    <2>4. Acknowledged' => QuietOK'
      BY <1>0, ConstantFacts, <1>21, <2>0
      DEF Reuse, PreparedFound, InLoop, Continue, SizeVerdict, SetAttempt,
          Prepared, Sent, WithOid, Terminal, Unrecorded, FlightPcs, StatusPcs,
          Cloids
    <2>5. Acknowledged' => OneOK'
      BY <1>0, <1>21, <2>0
      DEF Reuse, PreparedFound, InLoop, Continue, SizeVerdict, SetAttempt,
          Prepared, Sent, WithOid, Terminal, Unrecorded, Cloids
    <2> QED
      BY <1>0, <2>1, <2>2, <2>3, <2>4, <2>5 DEF SerialInv
  <1>22. CASE Prepare
    <2>0. cur \in Intents /\ no \in AttemptNos /\ <<cur, no>> \in Cloids
      BY <1>0, <1>22, CloidType, ConstantFacts
      DEF Prepare, InLoop, TypeInv, TypeOK, ProcessTypeOK, WorkPcs, TryPcs,
          AttemptNos, MaxAttempts
    <2>1. PhaseOK'
      BY <1>0, <1>22, <2>0
      DEF Prepare, InLoop, Continue, SizeVerdict, TypeInv, TypeOK,
          LedgerTypeOK, Prepared, Sent, WithOid, Terminal, Unrecorded, LoopPcs
    <2>2. FinishedOK'
      BY <1>0, <1>22, <2>0
      DEF Prepare, InLoop, Continue, SizeVerdict, Prepared, Sent, WithOid,
          Terminal, Unrecorded, FlightPcs
    <2>3. Acknowledged' => KnownOK'
      BY <1>0, <1>22, <2>0
      DEF Prepare, InLoop, Continue, SizeVerdict, Prepared, Sent, WithOid,
          Terminal, Unrecorded
    <2>4. Acknowledged' => QuietOK'
      BY <1>0, ConstantFacts, <1>22, <2>0
      DEF Prepare, InLoop, Continue, SizeVerdict, Prepared, Sent, WithOid,
          Terminal, Unrecorded, StatusPcs, Cloids
    <2>5. Acknowledged' => OneOK'
      BY <1>0, <1>22, <2>0
      DEF Prepare, InLoop, Continue, SizeVerdict, Prepared, Sent, WithOid,
          Terminal, Unrecorded, Cloids
    <2> QED
      BY <1>0, <2>1, <2>2, <2>3, <2>4, <2>5 DEF SerialInv
  <1>23. CASE DriftCheck
    BY <1>0, <1>23 DEF DriftCheck, Goto, FlightPcs, LoopPcs, StatusPcs
  <1>24. CASE PlaceResting
    <2>0. cur \in Intents /\ no \in AttemptNos /\ <<cur, no>> \in Cloids
      BY <1>0, <1>24, CloidType DEF PlaceResting, TypeInv, AttemptPcs
    <2>1. PhaseOK'
      BY <1>0, <1>24, <2>0
      DEF PlaceResting, NewOrder, Answer, Prepared, Sent, WithOid, Terminal,
          Unrecorded, LoopPcs
    <2>2. FinishedOK'
      BY <1>0, <1>24, <2>0
      DEF PlaceResting, NewOrder, Answer, Prepared, Sent, WithOid, Terminal,
          Unrecorded
    <2>3. Acknowledged' => KnownOK'
      BY <1>0, <1>24, <2>0
      DEF PlaceResting, NewOrder, Answer, Prepared, Sent, WithOid, Terminal,
          Unrecorded, FlightPcs
    <2>4. Acknowledged' => QuietOK'
      BY <1>0, ConstantFacts, <1>24, <2>0
      DEF PlaceResting, NewOrder, Answer, Prepared, Sent, WithOid, Terminal,
          Unrecorded, FlightPcs, LoopPcs, Cloids
    <2>5. Acknowledged' => OneOK'
      <3>1. Acknowledged => \A m \in AttemptNos : ~Open(<<cur, m>>)
        BY <1>24 DEF PlaceResting, StatusPcs, FlightPcs
      <3>2. \A i \in Intents, m \in AttemptNos :
               Open(<<i, m>>)' => Open(<<i, m>>) \/ (i = cur /\ m = no)
        BY <1>0, <1>24, <2>0
        DEF PlaceResting, NewOrder, TypeInv, TypeOK, ExchangeTypeOK, Cloids
      <3>3. lost' = lost
        BY <1>24 DEF PlaceResting
      <3> QED
        BY <3>1, <3>2, <3>3
    <2> QED
      BY <1>0, <2>1, <2>2, <2>3, <2>4, <2>5 DEF SerialInv
  <1>25. CASE PlaceFilled
    <2>0. cur \in Intents /\ no \in AttemptNos /\ <<cur, no>> \in Cloids
      BY <1>0, <1>25, CloidType DEF PlaceFilled, TypeInv, AttemptPcs
    <2>1. PhaseOK'
      BY <1>0, <1>25, <2>0
      DEF PlaceFilled, NewOrder, Answer, Prepared, Sent, WithOid, Terminal,
          Unrecorded, LoopPcs
    <2>2. FinishedOK'
      BY <1>0, <1>25, <2>0
      DEF PlaceFilled, NewOrder, Answer, TypeInv, TypeOK, ExchangeTypeOK,
          Prepared, Sent, WithOid, Terminal, Unrecorded
    <2>3. Acknowledged' => KnownOK'
      BY <1>0, <1>25, <2>0
      DEF PlaceFilled, NewOrder, Answer, Prepared, Sent, WithOid, Terminal,
          Unrecorded, FlightPcs
    <2>4. Acknowledged' => QuietOK'
      BY <1>0, ConstantFacts, <1>25, <2>0
      DEF PlaceFilled, NewOrder, Answer, Prepared, Sent, WithOid, Terminal,
          Unrecorded, FlightPcs, StatusPcs, Cloids
    <2>5. Acknowledged' => OneOK'
      BY <1>0, <1>25, <2>0
      DEF PlaceFilled, NewOrder, Answer, Prepared, Sent, WithOid, Terminal,
          Unrecorded, Cloids
    <2> QED
      BY <1>0, <2>1, <2>2, <2>3, <2>4, <2>5 DEF SerialInv
  <1>26. CASE PlaceRefused
    BY <1>0, <1>26 DEF PlaceRefused, Answer, FlightPcs, LoopPcs
  <1>27. CASE PlaceUnacknowledged
    <2>0. cur \in Intents /\ no \in AttemptNos /\ <<cur, no>> \in Cloids
      BY <1>0, <1>27, CloidType DEF PlaceUnacknowledged, TypeInv, AttemptPcs
    <2>1. PhaseOK'
      BY <1>0, <1>27, <2>0
      DEF PlaceUnacknowledged, NewOrder, Answer, Prepared, Sent, WithOid,
          Terminal, Unrecorded, LoopPcs
    <2>2. FinishedOK'
      BY <1>0, <1>27, <2>0
      DEF PlaceUnacknowledged, NewOrder, Answer, Prepared, Sent, WithOid,
          Terminal, Unrecorded, FlightPcs
    <2>3. Acknowledged' => KnownOK'
      BY <1>0, <1>27, <2>0
      DEF PlaceUnacknowledged, NewOrder, Answer, TypeInv, TypeOK, Prepared,
          Sent, WithOid, Terminal, Unrecorded, BoundTypeOK
    <2>4. Acknowledged' => QuietOK'
      BY <1>0, ConstantFacts, <1>27, <2>0
      DEF PlaceUnacknowledged, NewOrder, Answer, TypeInv, TypeOK, Prepared,
          Sent, WithOid, Terminal, Unrecorded, BoundTypeOK, Cloids
    <2>5. Acknowledged' => OneOK'
      BY <1>0, <1>27, <2>0
      DEF PlaceUnacknowledged, NewOrder, Answer, TypeInv, TypeOK, Prepared,
          Sent, WithOid, Terminal, Unrecorded, BoundTypeOK, Cloids
    <2> QED
      BY <1>0, <2>1, <2>2, <2>3, <2>4, <2>5 DEF SerialInv
  <1>28. CASE MarkRun
    BY <1>0, <1>28 DEF MarkRun, Goto, FlightPcs, LoopPcs
  <1>29. CASE MarkIntent
    BY <1>0, <1>29 DEF MarkIntent, Goto, FlightPcs, LoopPcs
  <1>30. CASE RecordResting
    <2>0. cur \in Intents /\ no \in AttemptNos /\ <<cur, no>> \in Cloids
      BY <1>0, <1>30, CloidType DEF RecordResting, TypeInv, AttemptPcs
    <2>1. PhaseOK'
      BY <1>0, <1>30, <2>0
      DEF RecordResting, SetAttempt, Goto, Prepared, Sent, WithOid, Terminal,
          Unrecorded, FlightPcs, LoopPcs
    <2>2. FinishedOK'
      BY <1>0, <1>30, <2>0
      DEF RecordResting, SetAttempt, Goto, Prepared, Sent, WithOid, Terminal,
          Unrecorded
    <2>3. Acknowledged' => KnownOK'
      BY <1>0, <1>30, <2>0
      DEF RecordResting, SetAttempt, Goto, TypeInv, TypeOK, LedgerTypeOK,
          Prepared, Sent, WithOid, Terminal, Unrecorded
    <2>4. Acknowledged' => QuietOK'
      BY <1>0, ConstantFacts, <1>30, <2>0
      DEF RecordResting, SetAttempt, Goto, Prepared, Sent, WithOid, Terminal,
          Unrecorded, StatusPcs, Cloids
    <2>5. Acknowledged' => OneOK'
      BY <1>0, <1>30, <2>0
      DEF RecordResting, SetAttempt, Goto, Prepared, Sent, WithOid, Terminal,
          Unrecorded, Cloids
    <2> QED
      BY <1>0, <2>1, <2>2, <2>3, <2>4, <2>5 DEF SerialInv
  <1>31. CASE RecordFilled
    <2>0. cur \in Intents /\ no \in AttemptNos /\ <<cur, no>> \in Cloids
      BY <1>0, <1>31, CloidType DEF RecordFilled, TypeInv, AttemptPcs
    <2>1. PhaseOK'
      BY <1>0, <1>31, <2>0
      DEF RecordFilled, SetAttempt, Prepared, Sent, WithOid, Terminal,
          Unrecorded, FlightPcs, LoopPcs
    <2>2. FinishedOK'
      BY <1>0, <1>31, <2>0
      DEF RecordFilled, SetAttempt, Prepared, Sent, WithOid, Terminal,
          Unrecorded, FlightPcs
    <2>3. Acknowledged' => KnownOK'
      BY <1>0, <1>31, <2>0
      DEF RecordFilled, SetAttempt, TypeInv, TypeOK, LedgerTypeOK, Prepared,
          Sent, WithOid, Terminal, Unrecorded, FlightPcs
    <2>4. Acknowledged' => QuietOK'
      BY <1>0, ConstantFacts, <1>31, <2>0
      DEF RecordFilled, SetAttempt, Prepared, Sent, WithOid, Terminal,
          Unrecorded, StatusPcs, Cloids
    <2>5. Acknowledged' => OneOK'
      BY <1>0, <1>31, <2>0
      DEF RecordFilled, SetAttempt, Prepared, Sent, WithOid, Terminal,
          Unrecorded, Cloids
    <2> QED
      BY <1>0, <2>1, <2>2, <2>3, <2>4, <2>5 DEF SerialInv
  <1>32. CASE RecordRefused
    <2>0. cur \in Intents /\ no \in AttemptNos /\ <<cur, no>> \in Cloids
      BY <1>0, <1>32, CloidType DEF RecordRefused, TypeInv, AttemptPcs
    <2>1. PhaseOK'
      BY <1>0, <1>32, <2>0
      DEF RecordRefused, SetAttempt, NextAttemptNo, Goto, Prepared, Sent,
          WithOid, Terminal, Unrecorded, FlightPcs, LoopPcs
    <2>2. FinishedOK'
      BY <1>0, <1>32, <2>0
      DEF RecordRefused, SetAttempt, NextAttemptNo, Goto, Prepared, Sent,
          WithOid, Terminal, Unrecorded
    <2>3. Acknowledged' => KnownOK'
      BY <1>0, <1>32, <2>0
      DEF RecordRefused, SetAttempt, NextAttemptNo, Goto, Prepared, Sent,
          WithOid, Terminal, Unrecorded, FlightPcs
    <2>4. Acknowledged' => QuietOK'
      BY <1>0, ConstantFacts, <1>32, <2>0
      DEF RecordRefused, SetAttempt, NextAttemptNo, Goto, Prepared, Sent,
          WithOid, Terminal, Unrecorded, StatusPcs, Cloids
    <2>5. Acknowledged' => OneOK'
      BY <1>0, <1>32, <2>0
      DEF RecordRefused, SetAttempt, NextAttemptNo, Goto, Prepared, Sent,
          WithOid, Terminal, Unrecorded, Cloids
    <2> QED
      BY <1>0, <2>1, <2>2, <2>3, <2>4, <2>5 DEF SerialInv
  <1>33. CASE Refuse
    BY <1>0, <1>33 DEF Refuse, FlightPcs, LoopPcs
  <1>34. CASE Settle
    <2>1. PhaseOK'
      BY <1>0, <1>34
      DEF Settle, BeginIntent, Prepared, Sent, WithOid, Terminal, Unrecorded,
          FlightPcs, LoopPcs
    <2>2. FinishedOK'
      BY <1>0, <1>34
      DEF Settle, BeginIntent, Prepared, Sent, WithOid, Terminal, Unrecorded,
          FlightPcs
    <2>3. Acknowledged' => KnownOK'
      BY <1>0, <1>34
      DEF Settle, BeginIntent, Prepared, Sent, WithOid, Terminal, Unrecorded,
          FlightPcs
    <2>4. Acknowledged' => QuietOK'
      BY <1>0, ConstantFacts, <1>34
      DEF Settle, BeginIntent, Prepared, Sent, WithOid, Terminal, Unrecorded,
          AttemptNos, Cloids
    <2>5. Acknowledged' => OneOK'
      BY <1>0, <1>34
      DEF Settle, BeginIntent, Prepared, Sent, WithOid, Terminal, Unrecorded,
          Cloids
    <2> QED
      BY <1>0, <2>1, <2>2, <2>3, <2>4, <2>5 DEF SerialInv
  <1>35. CASE Postcheck
    BY <1>0, <1>35 DEF Postcheck, Goto, FlightPcs, LoopPcs
  <1>36. CASE MarkRebalanced
    BY <1>0, <1>36 DEF MarkRebalanced, Goto, FlightPcs, LoopPcs
  <1>37. CASE Attention
    BY <1>0, <1>37 DEF Attention, Goto, FlightPcs, LoopPcs
  <1>38. CASE Disarm
    BY <1>0, <1>38 DEF Disarm, Exit, FlightPcs, LoopPcs
  <1>39. CASE DisarmFails
    BY <1>0, <1>39 DEF DisarmFails, Exit, FlightPcs, LoopPcs
  <1>40. CASE Fail \/ Interrupt
    <2>1. PhaseOK'
      BY <1>0, <1>40
      DEF Fail, Interrupt, Goto, LoseIfUnrecorded, Prepared, Sent, WithOid, Terminal,
          Unrecorded, FlightPcs, LoopPcs
    <2>2. FinishedOK'
      BY <1>0, <1>40
      DEF Fail, Interrupt, Goto, LoseIfUnrecorded, Prepared, Sent, WithOid, Terminal,
          Unrecorded, FlightPcs
    <2>3. Acknowledged' => KnownOK'
      BY <1>0, <1>40
      DEF Fail, Interrupt, Goto, LoseIfUnrecorded, TypeInv, TypeOK, Prepared, Sent, WithOid,
          Terminal, Unrecorded, BoundTypeOK, FlightPcs
    <2>4. Acknowledged' => QuietOK'
      BY <1>0, ConstantFacts, <1>40
      DEF Fail, Interrupt, Goto, LoseIfUnrecorded, Prepared, Sent, WithOid, Terminal,
          Unrecorded, Cloids
    <2>5. Acknowledged' => OneOK'
      BY <1>0, <1>40
      DEF Fail, Interrupt, Goto, LoseIfUnrecorded, TypeInv, TypeOK, Prepared, Sent, WithOid,
          Terminal, Unrecorded, BoundTypeOK, Cloids
    <2> QED
      BY <1>0, <2>1, <2>2, <2>3, <2>4, <2>5 DEF SerialInv
  <1>41. CASE Crash
    <2>1. PhaseOK'
      BY <1>0, <1>41
      DEF Crash, Exit, LoseIfUnrecorded, Prepared, Sent, WithOid, Terminal,
          Unrecorded, FlightPcs, LoopPcs
    <2>2. FinishedOK'
      BY <1>0, <1>41
      DEF Crash, Exit, LoseIfUnrecorded, Prepared, Sent, WithOid, Terminal,
          Unrecorded
    <2>3. Acknowledged' => KnownOK'
      BY <1>0, <1>41
      DEF Crash, Exit, LoseIfUnrecorded, TypeInv, TypeOK, Prepared, Sent,
          WithOid, Terminal, Unrecorded, BoundTypeOK, FlightPcs
    <2>4. Acknowledged' => QuietOK'
      BY <1>0, ConstantFacts, <1>41
      DEF Crash, Exit, LoseIfUnrecorded, Prepared, Sent, WithOid, Terminal,
          Unrecorded, Cloids
    <2>5. Acknowledged' => OneOK'
      BY <1>0, <1>41
      DEF Crash, Exit, LoseIfUnrecorded, TypeInv, TypeOK, Prepared, Sent,
          WithOid, Terminal, Unrecorded, BoundTypeOK, Cloids
    <2> QED
      BY <1>0, <2>1, <2>2, <2>3, <2>4, <2>5 DEF SerialInv
  <1>42. CASE \E c \in Cloids : OrderFills(c)
    <2>1. PhaseOK'
      BY <1>0, <1>42
      DEF OrderFills, Prepared, Sent, WithOid, Terminal, Unrecorded
    <2>2. FinishedOK'
      BY <1>0, <1>42
      DEF OrderFills, Prepared, Sent, WithOid, Terminal, Unrecorded
    <2>3. Acknowledged' => KnownOK'
      BY <1>0, <1>42
      DEF OrderFills, Prepared, Sent, WithOid, Terminal, Unrecorded
    <2>4. Acknowledged' => QuietOK'
      BY <1>0, ConstantFacts, <1>42
      DEF OrderFills, Prepared, Sent, WithOid, Terminal, Unrecorded, Cloids
    <2>5. Acknowledged' => OneOK'
      BY <1>0, <1>42
      DEF OrderFills, Prepared, Sent, WithOid, Terminal, Unrecorded, Cloids
    <2> QED
      BY <1>0, <2>1, <2>2, <2>3, <2>4, <2>5 DEF SerialInv
  <1>43. CASE \E c \in Cloids : OrderCanceled(c)
    <2>1. PhaseOK'
      BY <1>0, <1>43
      DEF OrderCanceled, Prepared, Sent, WithOid, Terminal, Unrecorded
    <2>2. FinishedOK'
      BY <1>0, <1>43
      DEF OrderCanceled, Prepared, Sent, WithOid, Terminal, Unrecorded
    <2>3. Acknowledged' => KnownOK'
      BY <1>0, <1>43
      DEF OrderCanceled, Prepared, Sent, WithOid, Terminal, Unrecorded
    <2>4. Acknowledged' => QuietOK'
      BY <1>0, ConstantFacts, <1>43
      DEF OrderCanceled, Prepared, Sent, WithOid, Terminal, Unrecorded, Cloids
    <2>5. Acknowledged' => OneOK'
      BY <1>0, <1>43
      DEF OrderCanceled, Prepared, Sent, WithOid, Terminal, Unrecorded, Cloids
    <2> QED
      BY <1>0, <2>1, <2>2, <2>3, <2>4, <2>5 DEF SerialInv
  <1>44. CASE \E c \in Cloids : FeedCatchesUp(c)
    BY <1>0, <1>44 DEF FeedCatchesUp
  <1>45. CASE DeadmanFires
    <2>1. PhaseOK'
      BY <1>0, <1>45
      DEF DeadmanFires, Prepared, Sent, WithOid, Terminal, Unrecorded
    <2>2. FinishedOK'
      <3>1. \A c \in Cloids : order[c].status # "open" => order'[c] = order[c]
        BY <1>45 DEF DeadmanFires
      <3>2. pc \in FlightPcs => <<cur, no>> \in Cloids
        BY <1>0, CloidType DEF TypeInv, AttemptPcs, FlightPcs
      <3>3. attempt' = attempt /\ pc' = pc /\ cur' = cur /\ no' = no
            /\ response' = response
        BY <1>45 DEF DeadmanFires
      <3> QED
        BY <3>1, <3>2, <3>3 DEF Terminal
    <2>3. Acknowledged' => KnownOK'
      BY <1>0, <1>45
      DEF DeadmanFires, Prepared, Sent, WithOid, Terminal, Unrecorded
    <2>4. Acknowledged' => QuietOK'
      <3>1. \A c \in Cloids : ~Open(c)'
        BY <1>0, <1>45 DEF DeadmanFires, OrderRecord
      <3>2. cur' \in Intents \/ pc' \notin WorkPcs
        BY <1>0 DEF TypeInv, CursorOK
      <3>3. cur' \in Intents => \A n \in AttemptNos : <<cur', n>> \in Cloids
        BY DEF Cloids
      <3>4. pc' \in Pcs
        BY <1>0 DEF TypeInv, TypeOK, ProcessTypeOK
      <3> QED
        BY <3>1, <3>2, <3>3, <3>4 DEF WorkPcs, Pcs
    <2>5. Acknowledged' => OneOK'
      BY <1>0, <1>45
      DEF DeadmanFires, Prepared, Sent, WithOid, Terminal, Unrecorded, Cloids
    <2> QED
      BY <1>0, <2>1, <2>2, <2>3, <2>4, <2>5 DEF SerialInv
  <1>46. CASE ManualTrade
    BY <1>0, <1>46 DEF ManualTrade
  <1>47. CASE UNCHANGED vars
    BY <1>0, <1>47 DEF vars
  <1> QED
    BY <1>1, <1>2, <1>3, <1>4, <1>5, <1>6, <1>7, <1>8, <1>9, <1>10, <1>11,
       <1>12, <1>13, <1>14, <1>15, <1>16, <1>17, <1>18, <1>19, <1>20, <1>21,
       <1>22, <1>23, <1>24, <1>25, <1>26, <1>27, <1>28, <1>29, <1>30, <1>31,
       <1>32, <1>33, <1>34, <1>35, <1>36, <1>37, <1>38, <1>39, <1>40, <1>41,
       <1>42, <1>43, <1>44, <1>45, <1>46, <1>47
    DEF Next, ProcessStep, ExchangeStep, TakePrepared
-----------------------------------------------------------------------------
(* The theorems *)

LEMMA TypeInvAlways == Spec => []TypeInv
  BY TypeInit, TypeStep, PTL DEF Spec

(* The state of the ledger, of the exchange and of the process is always    *)
(* one execute_run can be in.                                               *)
THEOREM TypeCorrect == Spec => []TypeOK
  BY TypeInvAlways, PTL DEF TypeInv

LEMMA ClaimInit == Init => ClaimInv
  BY TypeInit
  DEF Init, ClaimInv, ClaimOK, OrdersAreClaimed, Placed, NoOrder, TryPcs

(* Whatever crashes or is lost, an order the exchange accepted belongs to a *)
(* run that holds the lock, has a session and a durable attempt row.        *)
THEOREM OrdersClaimed == Spec => []OrdersAreClaimed
  <1>1. ClaimInv => OrdersAreClaimed
    BY DEF ClaimInv
  <1> QED
    BY ClaimInit, ClaimStep, <1>1, PTL DEF Spec

LEMMA SerialInit == Init => SerialInv
  <1> SUFFICES ASSUME Init PROVE SerialInv
    OBVIOUS
  <1>1. PhaseOK
    BY DEF Init, PhaseOK, LoopPcs, FlightPcs
  <1>2. FinishedOK
    BY DEF Init, FinishedOK, Terminal, NoAttempt
  <1>3. KnownOK
    BY DEF Init, KnownOK, Placed, Open, NoOrder
  <1>4. QuietOK
    BY DEF Init, QuietOK
  <1>5. OneOK
    BY DEF Init, OneOK, Open, NoOrder, Cloids
  <1> QED
    BY TypeInit, <1>1, <1>2, <1>3, <1>4, <1>5 DEF SerialInv

LEMMA SerialInvAlways == Spec => []SerialInv
  BY SerialInit, SerialStep, PTL DEF Spec

LEMMA SerialImpliesOneOrder == SerialInv => OneOrderPerIntent
  <1> SUFFICES ASSUME SerialInv, Acknowledged
               PROVE  /\ \A c, d \in Cloids :
                            c[1] = d[1] /\ Open(c) /\ Open(d) => c = d
                      /\ pc = "send" => \A c \in OfIntent(cur) : ~Open(c)
    BY DEF OneOrderPerIntent
  <1>1. ASSUME NEW c \in Cloids, NEW d \in Cloids, c[1] = d[1], Open(c), Open(d)
        PROVE  c = d
    <2>1. c = <<c[1], c[2]>> /\ d = <<c[1], d[2]>>
      BY <1>1 DEF Cloids
    <2>2. c[1] \in Intents /\ c[2] \in AttemptNos /\ d[2] \in AttemptNos
      BY <1>1 DEF Cloids
    <2> QED
      BY <1>1, <2>1, <2>2 DEF SerialInv, OneOK
  <1>2. ASSUME pc = "send", NEW c \in OfIntent(cur)
        PROVE  ~Open(c)
    <2>1. c = <<cur, c[2]>> /\ c[2] \in AttemptNos
      BY <1>2 DEF OfIntent, Cloids
    <2> QED
      BY <1>2, <2>1 DEF SerialInv, QuietOK, StatusPcs, FlightPcs
  <1> QED
    BY <1>1, <1>2

(* As long as every acceptance was recorded, one order per intent rests at  *)
(* most, and none when the process is about to send another.                *)
THEOREM OneOrder == Spec => []OneOrderPerIntent
  BY SerialInvAlways, SerialImpliesOneOrder, PTL

(* A CLOID the exchange has taken is never sent a second time.              *)
THEOREM SentOnce == Spec => NeverSentTwice
  <1>1. SerialInv /\ SerialInv' /\ [Next]_vars
        => [pc' = "send" /\ lost' = 0 =>
              order'[<<cur', no'>>].status = "absent"]_vars
    <2> SUFFICES ASSUME SerialInv', pc' = "send", lost' = 0
                 PROVE  order'[<<cur', no'>>].status = "absent"
      OBVIOUS
    <2>1. <<cur', no'>> \in Cloids
      BY DEF SerialInv, TypeInv, CursorOK, AttemptPcs, WorkPcs, TryPcs, Cloids
    <2>2. attempt'[<<cur', no'>>].status \in Prepared
      BY DEF SerialInv, PhaseOK, Cloid
    <2> QED
      BY <2>1, <2>2
      DEF SerialInv, Acknowledged, KnownOK, Placed, InFlight, FlightPcs,
          Prepared, WithOid
  <1> QED
    BY SerialInvAlways, <1>1, PTL DEF Spec, NeverSentTwice
=============================================================================
