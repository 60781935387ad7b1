-------------------------- MODULE CashFlowsProofs --------------------------
(***************************************************************************)
(* Proofs, for every value of the constants, that sync never lets the      *)
(* cursor pass an event that left no row (SkipInv); on top of it, that     *)
(* what is marked applied was applied and that nothing moves while an      *)
(* event waits for review (ReviewInv); that every variable keeps its type  *)
(* (TypeInv); and that deposits and withdrawals never look like            *)
(* performance (NavInv).                                                   *)
(***************************************************************************)
EXTENDS CashFlowsProperties, Sums

(* The part of type correctness the argument needs.                         *)
Bounds ==
    /\ now \in 0..MaxTime
    /\ through \in 0..now
    /\ cursor \in 0..now \cup {None}
    /\ cursorStart \in 0..now \cup {None}
    /\ cursor = None <=> cursorStart = None
    /\ new \subseteq Times
    /\ rows \in [Times -> {"absent", "unapplied", "applied", "acknowledged"}]
    /\ events \in [Times -> EventRecord]

(* Nothing has happened at a time still to come.                            *)
Future == \A t \in Times : t > now => events[t] = NoEvent

Unseen(t) == events[t] # NoEvent /\ rows[t] = "absent"

(* Within a sync the batch holds all that has no row, and before the cursor *)
(* moves nothing without a row is left in front of it.                      *)
BatchOK ==
    /\ pc \in {"fetch", "apply", "reject", "persist", "advance"} =>
           cursor # None
    /\ pc \in {"apply", "reject", "persist"} =>
           \A t \in Times : cursor < t /\ t <= through /\ Unseen(t) => t \in new
    /\ pc = "advance" =>
           \A t \in Times : cursor < t /\ t <= through => ~Unseen(t)

SkipInv == Bounds /\ Future /\ BatchOK /\ NothingSkipped

-----------------------------------------------------------------------------
LEMMA TimeFacts ==
    /\ MaxTime \in Nat
    /\ Times \subseteq Nat
  BY CashFlowsAssumption DEF Times

LEMMA SkipInit == Init => SkipInv
  BY TimeFacts DEF Init, SkipInv, Bounds, Future, BatchOK, NothingSkipped,
      Unseen, EventRecord, None

(* A row that is there stays, so a step that adds rows and leaves the events *)
(* and the cursor alone overlooks nothing new.                               *)
LEMMA RowsGrow ==
    ASSUME SkipInv, NEW keep, AddRows(keep), keep \in {"applied", "unapplied"},
           UNCHANGED <<events, cursor, cursorStart>>
    PROVE  /\ rows' \in [Times -> {"absent", "unapplied", "applied",
                                   "acknowledged"}]
           /\ \A t \in Times : rows[t] # "absent" => rows'[t] # "absent"
           /\ \A t \in new : rows'[t] # "absent"
           /\ NothingSkipped'
  BY DEF SkipInv, Bounds, AddRows, NothingSkipped

LEMMA SkipStep == SkipInv /\ [Next]_vars => SkipInv'
  <1> SUFFICES ASSUME SkipInv, [Next]_vars PROVE SkipInv'
    OBVIOUS
  <1> USE TimeFacts DEF None
  <1>1. CASE Run \/ Rebase \/ Record
    BY <1>1 DEF Run, Rebase, Record, Goto, exchangeVars, ledgerVars, localVars,
        snapshotVars, SkipInv, Bounds, Future, BatchOK, NothingSkipped, Unseen
  <1>2. CASE Stamp
    BY <1>2 DEF Stamp, Goto, exchangeVars, ledgerVars, SkipInv, Bounds, Future,
        BatchOK, NothingSkipped, Unseen
  <1>3. CASE ReadEquity
    BY <1>3 DEF ReadEquity, Goto, exchangeVars, ledgerVars, SkipInv, Bounds,
        Future, BatchOK, NothingSkipped, Unseen
  <1>4. CASE InitializeCursor
    BY <1>4 DEF InitializeCursor, Goto, exchangeVars, localVars, snapshotVars,
        SkipInv, Bounds, Future, BatchOK, NothingSkipped, Unseen
  <1>5. CASE BeginSync
    BY <1>5 DEF BeginSync, Goto, exchangeVars, ledgerVars, localVars,
        snapshotVars, SkipInv, Bounds, Future, BatchOK, NothingSkipped, Unseen
  <1>6. CASE FetchUpdates
    <2>1. /\ UNCHANGED <<exchangeVars, ledgerVars, through>>
          /\ new' = {t \in (cursor + 1)..through :
                        events[t] # NoEvent /\ rows[t] = "absent"}
          /\ pc' \in {"reject", "apply", "persist"}
          /\ cursor # None
      BY <1>6 DEF FetchUpdates, Goto, snapshotVars, SkipInv, BatchOK
    <2>2. Bounds'
      BY <2>1 DEF SkipInv, Bounds, exchangeVars, ledgerVars, Times
    <2>3. BatchOK'
      BY <2>1 DEF SkipInv, Bounds, BatchOK, Unseen, exchangeVars, ledgerVars
    <2> QED
      BY <2>1, <2>2, <2>3
      DEF SkipInv, Future, NothingSkipped, exchangeVars, ledgerVars
  <1>7. CASE HistoryMissing
    BY <1>7 DEF HistoryMissing, Goto, exchangeVars, ledgerVars, localVars,
        snapshotVars, SkipInv, Bounds, Future, BatchOK, NothingSkipped, Unseen
  <1>8. CASE ApplyFlow
    BY <1>8 DEF ApplyFlow, exchangeVars, snapshotVars, SkipInv, Bounds, Future,
        BatchOK, NothingSkipped, Unseen
  <1>9. CASE FlowRefused
    BY <1>9 DEF FlowRefused, Exit, exchangeVars, ledgerVars, SkipInv, Bounds,
        Future, BatchOK, NothingSkipped, Unseen
  <1>10. CASE AllApplied
    BY <1>10 DEF AllApplied, Goto, exchangeVars, ledgerVars, localVars,
        snapshotVars, SkipInv, Bounds, Future, BatchOK, NothingSkipped, Unseen
  <1>11. CASE Reject
    BY <1>11, RowsGrow DEF Reject, Exit, exchangeVars, SkipInv, Bounds, Future,
        BatchOK
  <1>12. CASE Persist
    <2>1. /\ rows' \in [Times -> {"absent", "unapplied", "applied", "acknowledged"}]
          /\ \A t \in Times : rows[t] # "absent" => rows'[t] # "absent"
          /\ \A t \in new : rows'[t] # "absent"
          /\ NothingSkipped'
      BY <1>12, RowsGrow DEF Persist, exchangeVars
    <2>2. BatchOK'
      BY <1>12, <2>1 DEF Persist, Goto, exchangeVars, localVars, snapshotVars,
          SkipInv, Bounds, BatchOK, Unseen
    <2> QED
      BY <1>12, <2>1, <2>2 DEF Persist, exchangeVars, localVars, snapshotVars,
          SkipInv, Bounds, Future
  <1>13. CASE AdvanceCursor
    <2>1. NothingSkipped'
      BY <1>13 DEF AdvanceCursor, exchangeVars, SkipInv, Bounds, BatchOK,
          NothingSkipped, Unseen, Times
    <2> QED
      BY <1>13, <2>1 DEF AdvanceCursor, Goto, exchangeVars, localVars,
          snapshotVars, SkipInv, Bounds, Future, BatchOK
  <1>14. CASE Decide
    BY <1>14 DEF Decide, Exit, exchangeVars, SkipInv, Bounds, Future, BatchOK,
        NothingSkipped, Unseen
  <1>15. CASE RebaseUnits
    BY <1>15 DEF RebaseUnits, Goto, exchangeVars, localVars, snapshotVars,
        SkipInv, Bounds, Future, BatchOK, NothingSkipped, Unseen
  <1>16. CASE AcknowledgeManual
    BY <1>16 DEF AcknowledgeManual, Goto, exchangeVars, localVars,
        snapshotVars, SkipInv, Bounds, Future, BatchOK, NothingSkipped, Unseen
  <1>17. CASE RebaseCursor
    BY <1>17 DEF RebaseCursor, Exit, exchangeVars, SkipInv, Bounds, Future,
        BatchOK, NothingSkipped
  <1>18. CASE RecordFlow \/ Raise \/ Crash
    BY <1>18 DEF RecordFlow, Raise, Crash, Exit, exchangeVars, ledgerVars, SkipInv, Bounds,
        Future, BatchOK, NothingSkipped
  <1>19. CASE Transfer
    <2>1. PICK k \in Kinds, a \in Amounts :
              /\ Tick
              /\ events' = [events EXCEPT ![now + 1] = [kind |-> k, amount |-> a]]
      BY <1>19 DEF Transfer
    <2>2. /\ now' = now + 1 /\ now < MaxTime
          /\ UNCHANGED <<cursor, rows, cursorStart, pc, through, new>>
      BY <2>1 DEF Tick, ledgerVars, localVars, snapshotVars
    <2>3. Bounds'
      BY <2>1, <2>2 DEF SkipInv, Bounds, EventRecord, Times
    <2>4. \A t \in Times : t <= now => events'[t] = events[t]
      BY <2>1, <2>2 DEF SkipInv, Bounds, Times
    <2>5. Future'
      BY <2>1, <2>2 DEF SkipInv, Bounds, Future, Times
    <2>6. BatchOK'
      BY <2>2, <2>4 DEF SkipInv, Bounds, BatchOK, Unseen, Times
    <2>7. NothingSkipped'
      BY <2>2, <2>4 DEF SkipInv, Bounds, NothingSkipped, Times
    <2> QED
      BY <2>3, <2>5, <2>6, <2>7 DEF SkipInv
  <1>20. CASE ProfitOrLoss
    <2>1. /\ now' = now + 1 /\ now < MaxTime
          /\ UNCHANGED <<events, cursor, rows, cursorStart, pc, through, new>>
      BY <1>20 DEF ProfitOrLoss, Tick, ledgerVars, localVars, snapshotVars
    <2> QED
      BY <2>1 DEF SkipInv, Bounds, Future, BatchOK, NothingSkipped, Unseen
  <1>21. CASE UNCHANGED vars
    BY <1>21 DEF vars, exchangeVars, ledgerVars, localVars, snapshotVars,
        SkipInv, Bounds, Future, BatchOK, NothingSkipped, Unseen
  <1> QED
    BY <1>1, <1>2, <1>3, <1>4, <1>5, <1>6, <1>7, <1>8, <1>9, <1>10, <1>11,
        <1>12, <1>13, <1>14, <1>15, <1>16, <1>17, <1>18, <1>19, <1>20, <1>21
    DEF Next, ProcessStep

(* The cursor never passes an event that left no row: whatever fails or     *)
(* crashes, an event can be stored and not applied, never overlooked.       *)
THEOREM CursorOverlooksNothing == Spec => []NothingSkipped
  <1>1. SkipInv => NothingSkipped
    BY DEF SkipInv
  <1> QED
    BY SkipInit, SkipStep, <1>1, PTL DEF Spec

-----------------------------------------------------------------------------
(* The batch, row by row *)

ExternalOf(S) == {t \in S : Classify(events[t]) = "external_flow"}

(* Rows exist for what has happened only.                                   *)
RowsArePast == \A t \in Times : t > now => rows[t] = "absent" /\ t \notin new

(* A batch that is unitized has nothing to review, what is done with of it  *)
(* has changed the units, and when it is stored nothing is left to do.      *)
BatchUnitized ==
    /\ todo \subseteq new
    /\ pc \in {"apply", "persist"} =>
           /\ \A t \in new : Classify(events[t]) # "manual_review"
           /\ \A t \in ExternalOf(new) : t \notin todo => unitized[t] >= 1
    /\ pc = "persist" => todo = {}

(* From the guard of sync to the decision nothing waits for review.         *)
NothingWaits ==
    pc \in {"fetch", "apply", "persist", "advance", "decide"} => Unresolved = {}

ReviewInv ==
    /\ SkipInv
    /\ unitized \in [Times -> Nat]
    /\ RowsArePast /\ BatchUnitized /\ NothingWaits /\ AppliedWereUnitized

LEMMA ReviewInit == Init => ReviewInv
  BY SkipInit DEF Init, ReviewInv, RowsArePast, BatchUnitized, NothingWaits,
      AppliedWereUnitized

LEMMA Incremented ==
    ASSUME NEW f \in [Times -> Nat], NEW x
    PROVE  LET g == [f EXCEPT ![x] = @ + 1]
           IN  /\ g \in [Times -> Nat]
               /\ \A t \in Times : g[t] >= f[t] /\ (t = x => g[t] >= 1)
  <1>1. CASE x \in Times BY <1>1
  <1>2. CASE x \notin Times
    <2>1. \A y : [f EXCEPT ![x] = y] = f
      BY <1>2
    <2> DEFINE h == [f EXCEPT ![x] = @ + 1]
    <2>2. h = f
      BY <2>1, Zenon
    <2> HIDE DEF h
    <2>3. h \in [Times -> Nat]
          /\ \A t \in Times : h[t] >= f[t] /\ (t = x => h[t] >= 1)
      BY <1>2, <2>2
    <2> QED BY <2>3, Zenon DEF h
  <1> QED BY <1>1, <1>2

(* Nothing changes but where the process is: the common case.               *)
LEMMA ReviewKept ==
    ASSUME ReviewInv,
           UNCHANGED <<now, events, rows, unitized>>,
           UNCHANGED <<new, todo>> \/ (new' = {} /\ todo' = {}),
           pc' \notin {"apply", "persist"},
           pc' \in {"fetch", "advance", "decide"} => Unresolved = {}
    PROVE  (unitized \in [Times -> Nat])' /\ RowsArePast' /\ BatchUnitized'
           /\ NothingWaits' /\ AppliedWereUnitized'
  BY DEF ReviewInv, RowsArePast, BatchUnitized, NothingWaits,
      AppliedWereUnitized, Unresolved, ExternalOf

LEMMA ReviewStep == ReviewInv /\ [Next]_vars => ReviewInv'
  <1> SUFFICES ASSUME ReviewInv, [Next]_vars PROVE ReviewInv'
    OBVIOUS
  <1> DEFINE Goal == /\ (unitized \in [Times -> Nat])' /\ RowsArePast'
                     /\ BatchUnitized' /\ NothingWaits' /\ AppliedWereUnitized'
  <1> SUFFICES Goal
    BY SkipStep DEF ReviewInv
  <1>1. CASE Run \/ Rebase \/ Record \/ Stamp \/ ReadEquity
    <2>1. /\ UNCHANGED <<now, events, rows, unitized, new, todo>>
          /\ pc' \in {"stamp", "rebaseStamp", "recordRead", "read",
                      "rebaseRead", "sync", "rebase", "record"}
      BY <1>1 DEF Run, Rebase, Record, Stamp, ReadEquity, Goto, exchangeVars,
          ledgerVars, localVars, snapshotVars
    <2> QED BY <2>1, ReviewKept
  <1>2. CASE InitializeCursor \/ BeginSync
    <2>1. /\ UNCHANGED <<now, events, rows, unitized, new, todo>>
          /\ pc' \in {"decide", "fetch"} /\ Unresolved = {}
      BY <1>2 DEF InitializeCursor, BeginSync, Goto, exchangeVars, ledgerVars,
          localVars, snapshotVars
    <2> QED BY <2>1, ReviewKept
  <1>3. CASE FetchUpdates
    <2>1. /\ UNCHANGED <<now, events, rows, unitized>>
          /\ new' = {t \in (cursor + 1)..through :
                        events[t] # NoEvent /\ rows[t] = "absent"}
          /\ pc' \in {"reject", "apply", "persist"}
          /\ pc = "fetch"
      BY <1>3 DEF FetchUpdates, Goto, exchangeVars, ledgerVars
    <2>2. /\ todo' \in {ExternalOf(new'), {}}
          /\ pc' # "reject" =>
                /\ \A t \in new' : Classify(events[t]) # "manual_review"
                /\ todo' = ExternalOf(new')
          /\ pc' = "persist" => todo' = {}
      BY <1>3 DEF FetchUpdates, Goto, ExternalOf
    <2>3. RowsArePast'
      BY <2>1, TimeFacts DEF ReviewInv, SkipInv, Bounds, RowsArePast, None
    <2>4. BatchUnitized'
      BY <2>1, <2>2 DEF BatchUnitized, ExternalOf
    <2> QED
      BY <2>1, <2>3, <2>4
      DEF ReviewInv, NothingWaits, Unresolved, AppliedWereUnitized
  <1>4. CASE HistoryMissing
    <2>1. /\ UNCHANGED <<now, events, rows, unitized, new, todo>>
          /\ pc' = "reject"
      BY <1>4 DEF HistoryMissing, Goto, exchangeVars, ledgerVars, localVars
    <2> QED BY <2>1, ReviewKept
  <1>5. CASE ApplyFlow
    <2>1. /\ UNCHANGED <<now, events, rows, new, pc>> /\ pc = "apply"
          /\ unitized' = [unitized EXCEPT ![NextFlow] = @ + 1]
          /\ todo' = todo \ {NextFlow}
      BY <1>5 DEF ApplyFlow, exchangeVars
    <2>2. /\ unitized' \in [Times -> Nat]
          /\ \A t \in Times : /\ unitized'[t] >= unitized[t]
                              /\ t = NextFlow => unitized'[t] >= 1
      BY <2>1, Incremented DEF ReviewInv
    <2>3. unitized \in [Times -> Nat]
      BY DEF ReviewInv
    <2>4. BatchUnitized'
      <3>1. \A t \in ExternalOf(new) : t \notin todo' => unitized'[t] >= 1
        BY <2>1, <2>2, <2>3
        DEF ReviewInv, SkipInv, Bounds, BatchUnitized, ExternalOf
      <3> QED
        BY <2>1, <3>1 DEF ReviewInv, BatchUnitized, ExternalOf
    <2>5. AppliedWereUnitized'
      BY <2>1, <2>2, <2>3 DEF ReviewInv, AppliedWereUnitized
    <2> QED
      BY <2>1, <2>2, <2>4, <2>5
      DEF ReviewInv, RowsArePast, NothingWaits, Unresolved
  <1>6. CASE AllApplied
    BY <1>6 DEF AllApplied, Goto, exchangeVars, ledgerVars, localVars,
        ReviewInv, RowsArePast, BatchUnitized, NothingWaits, Unresolved,
        AppliedWereUnitized, ExternalOf
  <1>7. CASE FlowRefused \/ Raise \/ Crash \/ RecordFlow
    <2>1. /\ UNCHANGED <<now, events, rows, unitized>>
          /\ pc' = "idle" /\ new' = {} /\ todo' = {}
      BY <1>7 DEF FlowRefused, Raise, Crash, RecordFlow, Exit, exchangeVars,
          ledgerVars
    <2> QED BY <2>1, ReviewKept
  <1>8. CASE Reject
    <2>1. /\ UNCHANGED <<now, events, unitized>>
          /\ pc' = "idle" /\ new' = {} /\ todo' = {}
      BY <1>8 DEF Reject, Exit, exchangeVars
    <2>2. \A t \in Times : /\ rows'[t] = "applied" => rows[t] = "applied"
                           /\ t > now => rows'[t] = "absent"
      BY <1>8 DEF Reject, AddRows, ReviewInv, RowsArePast
    <2> QED
      BY <2>1, <2>2 DEF ReviewInv, RowsArePast, BatchUnitized, NothingWaits,
          AppliedWereUnitized, ExternalOf
  <1>9. CASE Persist
    <2>1. /\ UNCHANGED <<now, events, unitized, new, todo>>
          /\ pc = "persist" /\ pc' = "advance"
      BY <1>9 DEF Persist, Goto, exchangeVars, localVars
    <2>2. \A t \in Times :
              rows'[t] = IF t \notin new \/ rows[t] # "absent" THEN rows[t]
                         ELSE IF Classify(events[t]) = "external_flow"
                         THEN "applied" ELSE "unapplied"
      BY <1>9 DEF Persist, AddRows
    <2>3. NothingWaits'
      BY <2>1, <2>2
      DEF ReviewInv, BatchUnitized, NothingWaits, Unresolved
    <2>4. AppliedWereUnitized'
      BY <2>1, <2>2
      DEF ReviewInv, BatchUnitized, ExternalOf, AppliedWereUnitized
    <2> QED
      BY <2>1, <2>2, <2>3, <2>4 DEF ReviewInv, RowsArePast, BatchUnitized
  <1>10. CASE AdvanceCursor
    <2>1. /\ UNCHANGED <<now, events, rows, unitized, new, todo>>
          /\ pc = "advance" /\ pc' = "decide"
      BY <1>10 DEF AdvanceCursor, Goto, exchangeVars, localVars
    <2>2. Unresolved = {}
      BY <2>1 DEF ReviewInv, NothingWaits
    <2> QED BY <2>1, <2>2, ReviewKept
  <1>11. CASE Decide \/ RebaseUnits \/ RebaseCursor
    <2>1. /\ UNCHANGED <<now, events, rows, unitized>>
          /\ UNCHANGED <<new, todo>> \/ (new' = {} /\ todo' = {})
          /\ pc' \in {"idle", "acknowledge"}
      BY <1>11 DEF Decide, RebaseUnits, RebaseCursor, Exit, Goto, exchangeVars,
          localVars
    <2> QED BY <2>1, ReviewKept
  <1>12. CASE AcknowledgeManual
    <2>1. /\ UNCHANGED <<now, events, unitized, new, todo>>
          /\ pc' = "rebaseCursor"
          /\ \A t \in Times : rows'[t] # rows[t] =>
                                 t \in Unresolved /\ rows'[t] = "acknowledged"
      BY <1>12 DEF AcknowledgeManual, Goto, exchangeVars, localVars
    <2> QED
      BY <2>1 DEF ReviewInv, RowsArePast, BatchUnitized, NothingWaits,
          AppliedWereUnitized, ExternalOf, Unresolved
  <1>13. CASE Transfer
    <2>1. PICK k \in Kinds, a \in Amounts :
              /\ Tick
              /\ events' = [events EXCEPT ![now + 1] = [kind |-> k, amount |-> a]]
      BY <1>13 DEF Transfer
    <2>2. /\ now' = now + 1 /\ now < MaxTime
          /\ UNCHANGED <<rows, unitized, pc, new, todo>>
      BY <2>1 DEF Tick, ledgerVars, localVars
    <2>3. now \in Nat
      BY TimeFacts DEF ReviewInv, SkipInv, Bounds
    <2>4. \A t \in Times : t <= now => events'[t] = events[t]
      BY <2>1, <2>3 DEF ReviewInv, SkipInv, Bounds, Times
    <2>5. RowsArePast'
      BY <2>2, <2>3, TimeFacts DEF ReviewInv, RowsArePast
    <2>6. \A t \in Times : t \in new \/ rows[t] # "absent" => t <= now
      BY <2>3, TimeFacts DEF ReviewInv, RowsArePast
    <2>7. ExternalOf(new)' = ExternalOf(new)
      BY <2>2, <2>4, <2>6 DEF ReviewInv, SkipInv, Bounds, ExternalOf, Classify
    <2>8. BatchUnitized'
      BY <2>2, <2>4, <2>6, <2>7
      DEF ReviewInv, SkipInv, Bounds, BatchUnitized, Classify
    <2>9. NothingWaits'
      BY <2>2, <2>4, <2>6 DEF ReviewInv, NothingWaits, Unresolved, Classify
    <2> QED
      BY <2>2, <2>5, <2>8, <2>9 DEF ReviewInv, AppliedWereUnitized
  <1>14. CASE ProfitOrLoss
    <2>1. now' = now + 1 /\ UNCHANGED <<events, rows, unitized, pc, new, todo>>
      BY <1>14 DEF ProfitOrLoss, Tick, ledgerVars, localVars
    <2>2. RowsArePast'
      BY <2>1, TimeFacts DEF ReviewInv, SkipInv, Bounds, RowsArePast
    <2> QED
      BY <2>1, <2>2 DEF ReviewInv, BatchUnitized, NothingWaits, Unresolved,
          AppliedWereUnitized, ExternalOf
  <1>15. CASE UNCHANGED vars
    BY <1>15 DEF vars, exchangeVars, ledgerVars, localVars, ReviewInv,
        RowsArePast, BatchUnitized, NothingWaits, Unresolved,
        AppliedWereUnitized, ExternalOf
  <1> QED
    BY <1>1, <1>2, <1>3, <1>4, <1>5, <1>6, <1>7, <1>8, <1>9, <1>10, <1>11,
        <1>12, <1>13, <1>14, <1>15
    DEF Next, ProcessStep

(* Only syncs, decisions, rebases and recorded flows change the units or    *)
(* the cursor, and the first two not while an event waits.                  *)
LEMMA ReviewBlocks ==
    ASSUME ReviewInv, [Next]_vars, Unresolved # {},
           units' # units \/ cursor' # cursor
    PROVE  pc \in {"rebase", "rebaseCursor", "record"}
  <1>1. pc \notin {"fetch", "apply", "persist", "advance", "decide"}
    BY DEF ReviewInv, NothingWaits
  <1> QED
    BY <1>1 DEF Next, ProcessStep, Run, Rebase, Record, Stamp, ReadEquity,
        InitializeCursor, BeginSync, FetchUpdates, HistoryMissing, ApplyFlow,
        FlowRefused, AllApplied, Reject, Persist, AdvanceCursor, Decide,
        RebaseUnits, AcknowledgeManual, RebaseCursor, RecordFlow, Raise, Crash,
        Transfer, ProfitOrLoss, Tick, vars, ledgerVars

(* What is stored as applied has changed the units, whatever crashed or was *)
(* refused in between.                                                      *)
THEOREM AppliedIsInUnits == Spec => []AppliedWereUnitized
  <1>1. ReviewInv => AppliedWereUnitized
    BY DEF ReviewInv
  <1> QED
    BY ReviewInit, ReviewStep, <1>1, PTL DEF Spec

(* While an event waits for review only a rebase and a recorded flow move   *)
(* the units or the cursor.                                                 *)
THEOREM ReviewIsAwaited == Spec => ManualReviewBlocks
  <1>1. ReviewInv /\ [Next]_vars =>
            [Unresolved # {} /\ (units' # units \/ cursor' # cursor) =>
                 pc \in {"rebase", "rebaseCursor", "record"}]_vars
    BY ReviewBlocks
  <1> QED
    BY ReviewInit, ReviewStep, <1>1, PTL DEF Spec, ManualReviewBlocks
-----------------------------------------------------------------------------
(* Arithmetic: division, largest and least elements, ratios *)

LEMMA DivFacts ==
    ASSUME NEW n \in Nat, NEW k \in Nat \ {0}, n % k = 0
    PROVE  n \div k \in Nat /\ n = k * (n \div k)
  OBVIOUS

(* A set of numbers with a bound has a largest one.                         *)
LEMMA LargestIsThere ==
    ASSUME NEW b \in Nat, NEW S \in SUBSET (0..b), S # {}
    PROVE  \E m \in S : \A x \in S : x <= m
  <1> DEFINE B == {U \in SUBSET (0..b) : \E x \in S : U = x..b}
  <1> SUFFICES ASSUME \A m \in S : \E x \in S : x > m PROVE FALSE
    OBVIOUS
  <1>1. \A T \in B : \E U \in B : U \subseteq T /\ U # T
    <2> SUFFICES ASSUME NEW T \in B PROVE \E U \in B : U \subseteq T /\ U # T
      OBVIOUS
    <2>1. PICK x \in S : T = x..b
      OBVIOUS
    <2>2. PICK y \in S : y > x
      OBVIOUS
    <2>3. y..b \in B /\ y..b \subseteq T
      BY <2>1, <2>2
    <2>4. x \in T /\ x \notin y..b
      BY <2>1, <2>2
    <2> QED BY <2>3, <2>4
  <1>2. PICK x \in S : TRUE
    OBVIOUS
  <1>3. x..b \in B
    OBVIOUS
  <1>4. B \in SUBSET SUBSET (0..b)
    OBVIOUS
  <1>5. IsFiniteSet(0..b)
    BY FS_Interval
  <1> HIDE DEF B
  <1>6. B = {}
    BY <1>1, <1>4, <1>5, SubsetInduction
  <1> QED BY <1>3, <1>6

(* A ratio is in the proportion of its arguments.                           *)
LEMMA RatioFacts ==
    ASSUME NEW n \in Nat \ {0}, NEW d \in Nat \ {0}
    PROVE  LET r == Ratio(n, d)
           IN  /\ r \in [n : Nat, d : Nat] /\ r.n > 0 /\ r.d > 0
               /\ r.n * d = r.d * n
  <1> DEFINE C(k) == n % k = 0 /\ d % k = 0
             D == {k \in 1..n : C(k)}
             g == CHOOSE k \in 1..n : /\ n % k = 0 /\ d % k = 0
                                      /\ \A m \in (k + 1)..n :
                                             n % m # 0 \/ d % m # 0
  <1>1. 1 \in D
    OBVIOUS
  <1>2. PICK k \in D : \A x \in D : x <= k
    <2>1. D \in SUBSET (0..n) /\ D # {}
      BY <1>1
    <2> HIDE DEF D
    <2> QED BY <2>1, LargestIsThere
  <1>3. \A m \in (k + 1)..n : ~C(m)
    <2> HIDE DEF C
    <2> QED BY <1>2
  <1>4. g \in 1..n /\ n % g = 0 /\ d % g = 0
    BY <1>2, <1>3
  <1>5. Ratio(n, d) = [n |-> n \div g, d |-> d \div g]
    BY DEF Ratio
  <1> HIDE DEF g
  <1> DEFINE a == n \div g
             c == d \div g
  <1>6. a \in Nat /\ c \in Nat /\ n = g * a /\ d = g * c
    BY <1>4, DivFacts
  <1> HIDE DEF a, c
  <1>7. a > 0 /\ c > 0
    BY <1>4, <1>6
  <1>8. a * d = c * n
    BY <1>4, <1>6
  <1> QED BY <1>5, <1>6, <1>7, <1>8 DEF a, c

LEMMA LeastIsThere ==
    ASSUME NEW b \in Nat, NEW S \in SUBSET (0..b), S # {}
    PROVE  \E m \in S : \A x \in S : x >= m
  <1> DEFINE R == {b - x : x \in S}
  <1>1. R \in SUBSET (0..b) /\ R # {}
    <2>1. \A x \in S : b - x \in 0..b
      OBVIOUS
    <2>2. R \subseteq 0..b
      BY <2>1
    <2>3. \E x \in S : b - x \in R
      OBVIOUS
    <2> QED BY <2>2, <2>3
  <1>2. PICK r \in R : \A x \in R : x <= r
    <2> HIDE DEF R
    <2> QED BY <1>1, LargestIsThere
  <1>3. PICK m \in S : r = b - m
    OBVIOUS
  <1>4. \A x \in S : b - x <= b - m
    BY <1>2, <1>3
  <1> QED BY <1>4

LEMMA MaxFacts ==
    ASSUME NEW b \in Nat, NEW S \in SUBSET (0..b), S # {}
    PROVE  Max(S) \in S /\ \A x \in S : x <= Max(S)
  <1>1. \E m \in S : \A x \in S : m >= x
    BY LargestIsThere
  <1> QED BY <1>1 DEF Max

LEMMA MinFacts ==
    ASSUME NEW b \in Nat, NEW S \in SUBSET (0..b), S # {}
    PROVE  Min(S) \in S /\ \A x \in S : Min(S) <= x
  <1>1. \E m \in S : \A x \in S : m <= x
    BY LeastIsThere
  <1> QED BY <1>1 DEF Min

(* The next flow is the first of those still to do.                         *)
LEMMA NextFlowFacts ==
    ASSUME TypeOK, todo # {}
    PROVE  /\ NextFlow \in todo /\ NextFlow \in Times
           /\ \A t \in todo : NextFlow <= t
  <1>1. todo \in SUBSET (0..MaxTime) /\ todo \subseteq Times
    BY TimeFacts DEF TypeOK, Times
  <1> QED BY <1>1, MinFacts, TimeFacts DEF NextFlow

LEMMA EventFacts ==
    \A e \in EventRecord : e.amount \in Nat /\ (e = NoEvent \/ e.kind \in Kinds)
  <1> SUFFICES ASSUME NEW e \in EventRecord
               PROVE  e.amount \in Nat /\ (e = NoEvent \/ e.kind \in Kinds)
    OBVIOUS
  <1>1. CASE e = NoEvent
    BY <1>1 DEF NoEvent
  <1>2. CASE e \in [kind : Kinds, amount : Amounts]
    BY <1>2, CashFlowsAssumption
  <1> QED BY <1>1, <1>2 DEF EventRecord

(* The value before an event is one, or there is none.                      *)
LEMMA BeforeFacts ==
    ASSUME TypeOK, NEW t \in Times
    PROVE  EquityBefore(t) \in Nat \cup {None}
  <1> DEFINE earlier == {u \in 0..(t - 1) : points[u] # None}
  <1>1. t \in 1..MaxTime
    BY DEF Times
  <1>2. earlier \in SUBSET (0..(t - 1)) /\ t - 1 \in Nat
    BY <1>1
  <1>3. earlier # {} => Max(earlier) \in earlier
    <2> HIDE DEF earlier
    <2> QED BY <1>2, MaxFacts
  <1>4. EquityBefore(t) = IF earlier = {} THEN None ELSE points[Max(earlier)]
    BY DEF EquityBefore, LatestBefore
  <1>5. earlier # {} => Max(earlier) \in 0..MaxTime
    <2>1. ASSUME NEW u \in 0..(t - 1) PROVE u \in 0..MaxTime
      BY <1>1, TimeFacts
    <2>2. earlier \subseteq 0..(t - 1)
      OBVIOUS
    <2> HIDE DEF earlier
    <2> QED BY <1>3, <2>1, <2>2
  <1> QED BY <1>4, <1>5 DEF TypeOK

(* Only the points before an event count for it.                            *)
LEMMA SameBefore ==
    ASSUME NEW h, NEW g, NEW t \in Times, \A u \in 0..(t - 1) : h[u] = g[u]
    PROVE  LatestBefore(h, t) = LatestBefore(g, t)
  <1> DEFINE earlier == {u \in 0..(t - 1) : g[u] # None}
  <1>1. earlier \in SUBSET (0..(t - 1)) /\ t - 1 \in Nat
    BY DEF Times
  <1>2. {u \in 0..(t - 1) : h[u] # None} = earlier
    OBVIOUS
  <1>3. earlier # {} => Max(earlier) \in 0..(t - 1)
    <2> HIDE DEF earlier
    <2> QED BY <1>1, MaxFacts
  <1>4. LatestBefore(g, t) = IF earlier = {} THEN None ELSE g[Max(earlier)]
    BY DEF LatestBefore
  <1>5. LatestBefore(h, t) = IF earlier = {} THEN None ELSE h[Max(earlier)]
    BY <1>2 DEF LatestBefore
  <1> QED BY <1>3, <1>4, <1>5
-----------------------------------------------------------------------------
(* Type correctness *)

UnitsOK == units = NoUnits \/ units.n > 0
RecordOK == pc \in {"recordRead", "record"} => faults < MaxFaults

TypeInv == TypeOK /\ UnitsOK /\ RecordOK

LEMMA RatioUnits ==
    ASSUME NEW n \in Nat \ {0}, NEW d \in Nat \ {0}
    PROVE  /\ Ratio(n, d) \in [n : Nat, d : Nat \ {0}]
           /\ Ratio(n, d).n > 0
  BY RatioFacts

LEMMA TypeInit == Init => TypeInv
  <1> SUFFICES ASSUME Init PROVE TypeInv
    OBVIOUS
  <1>1. NoEvent \in EventRecord /\ NoUnits \in [n : Nat, d : Nat \ {0}]
    BY DEF EventRecord, NoUnits
  <1>2. events \in [Times -> EventRecord] /\ units \in [n : Nat, d : Nat \ {0}]
    BY <1>1 DEF Init
  <1>3. points \in [0..MaxTime -> Nat \cup {None}]
        /\ unitized \in [Times -> Nat]
        /\ rows \in [Times -> {"absent", "unapplied", "applied", "acknowledged"}]
    BY DEF Init, None
  <1>4. now \in 0..MaxTime /\ through \in 0..MaxTime /\ faults \in 0..MaxFaults
        /\ equity \in Nat /\ performance \in Navs
    BY CashFlowsAssumption DEF Init
  <1> QED
    BY <1>2, <1>3, <1>4 DEF Init, TypeInv, TypeOK, UnitsOK, RecordOK

(* Nothing that is typed changes but where the process is.                  *)
LEMMA TypeStep == SkipInv /\ TypeInv /\ [Next]_vars => TypeInv'
  <1> SUFFICES ASSUME SkipInv, TypeInv, [Next]_vars PROVE TypeInv'
    OBVIOUS
  <1> USE TimeFacts, CashFlowsAssumption
          DEF TypeInv, TypeOK, UnitsOK, RecordOK, None
  <1>1. CASE Run \/ Rebase \/ Record
    BY <1>1 DEF Run, Rebase, Record, Goto, exchangeVars, ledgerVars, localVars,
        snapshotVars, faultVars
  <1>2. CASE Stamp
    BY <1>2 DEF Stamp, Goto, exchangeVars, ledgerVars, faultVars
  <1>3. CASE ReadEquity
    BY <1>3 DEF ReadEquity, Goto, exchangeVars, ledgerVars, faultVars
  <1>4. CASE InitializeCursor \/ BeginSync \/ HistoryMissing \/ AllApplied
    BY <1>4 DEF InitializeCursor, BeginSync, HistoryMissing, AllApplied, Goto,
        exchangeVars, ledgerVars, localVars, snapshotVars, faultVars
  <1>5. CASE FetchUpdates
    <2>1. /\ UNCHANGED <<exchangeVars, ledgerVars, snapshotVars, faultVars>>
          /\ new' = {t \in (cursor + 1)..through :
                        events[t] # NoEvent /\ rows[t] = "absent"}
          /\ todo' \subseteq new'
          /\ pc' \in {"reject", "apply", "persist"}
          /\ pc = "fetch"
      BY <1>5 DEF FetchUpdates, Goto
    <2>2. new' \subseteq Times
      BY <2>1 DEF Times, SkipInv, BatchOK
    <2> QED BY <2>1, <2>2 DEF exchangeVars, ledgerVars, snapshotVars, faultVars
  <1>6. CASE ApplyFlow
    <2> DEFINE t == NextFlow
               before == EquityBefore(t)
               after == before + Flow(events[t])
    <2>1. /\ before > 0 /\ after > 0 /\ units # NoUnits
          /\ units' = Ratio(units.n * after, units.d * before)
          /\ unitized' = [unitized EXCEPT ![t] = @ + 1]
          /\ todo' = todo \ {t} /\ todo # {}
          /\ UNCHANGED <<exchangeVars, cursor, rows, baseline, cursorStart, pc,
                         snapshotVars, new, faultVars>>
      BY <1>6 DEF ApplyFlow
    <2>2. t \in Times
      BY <2>1, NextFlowFacts
    <2>3. before \in Nat /\ Flow(events[t]) \in Int
      <3>1. before \in Nat
        BY <2>1, <2>2, BeforeFacts
      <3>2. events[t].amount \in Nat
        BY <2>2, EventFacts
      <3> QED BY <3>1, <3>2 DEF Flow
    <2> HIDE DEF before
    <2>4. after \in Nat \ {0}
      BY <2>1, <2>3
    <2> HIDE DEF after
    <2>5. units.n * after \in Nat \ {0} /\ units.d * before \in Nat \ {0}
      BY <2>1, <2>3, <2>4
    <2>6. units' \in [n : Nat, d : Nat \ {0}] /\ units'.n > 0
      BY <2>1, <2>5, RatioUnits
    <2>7. unitized' \in [Times -> Nat]
      BY <2>1, <2>2
    <2> QED
      BY <2>1, <2>6, <2>7 DEF exchangeVars, snapshotVars, faultVars
  <1>7. CASE FlowRefused \/ Raise
    <2>1. Exit /\ UNCHANGED <<exchangeVars, ledgerVars, faultVars>>
      BY <1>7 DEF FlowRefused, Raise
    <2> QED BY <2>1 DEF Exit, exchangeVars, ledgerVars, faultVars
  <1>8. CASE Reject
    BY <1>8 DEF Reject, AddRows, Exit, exchangeVars, faultVars
  <1>9. CASE Persist
    BY <1>9 DEF Persist, AddRows, Goto, exchangeVars, localVars, snapshotVars,
        faultVars
  <1>10. CASE AdvanceCursor
    BY <1>10 DEF AdvanceCursor, Goto, exchangeVars, localVars, snapshotVars,
        faultVars
  <1>11. CASE Decide
    BY <1>11 DEF Decide, SetBaseline, Exit, exchangeVars, faultVars
  <1>12. CASE RebaseUnits
    BY <1>12 DEF RebaseUnits, SetBaseline, Goto, exchangeVars, localVars,
        snapshotVars, faultVars
  <1>13. CASE AcknowledgeManual
    BY <1>13 DEF AcknowledgeManual, Goto, exchangeVars, localVars,
        snapshotVars, faultVars
  <1>14. CASE RebaseCursor
    BY <1>14 DEF RebaseCursor, Exit, exchangeVars, faultVars
  <1>15. CASE RecordFlow
    <2>1. PICK a \in Amounts, sign \in {1, -1} :
              /\ seen - sign * a > 0 /\ seen > 0
              /\ units' = Ratio(units.n * seen, units.d * (seen - sign * a))
      BY <1>15 DEF RecordFlow
    <2>2. units # NoUnits /\ pc = "record"
      BY <1>15 DEF RecordFlow
    <2>3. seen - sign * a \in Nat \ {0}
      BY <2>1
    <2> DEFINE before == seen - sign * a
    <2> HIDE DEF before
    <2>4. units.n * seen \in Nat \ {0} /\ units.d * before \in Nat \ {0}
      BY <2>1, <2>2, <2>3 DEF before
    <2>5. units' \in [n : Nat, d : Nat \ {0}] /\ units'.n > 0
      BY <2>1, <2>4, RatioUnits DEF before
    <2> QED
      BY <1>15, <2>2, <2>5 DEF RecordFlow, Exit, exchangeVars
  <1>16. CASE Crash
    BY <1>16 DEF Crash, Exit, exchangeVars, ledgerVars
  <1>17. CASE Transfer
    <2>1. PICK k \in Kinds, a \in Amounts :
              LET e == [kind |-> k, amount |-> a]
              IN  /\ equity + Moved(e) >= 0
                  /\ events' = [events EXCEPT ![now + 1] = e]
                  /\ equity' = equity + Moved(e)
      BY <1>17 DEF Transfer
    <2> DEFINE e == [kind |-> k, amount |-> a]
    <2>2. Moved(e) \in Int
      BY DEF Moved, Flow
    <2>3. e \in EventRecord
      BY DEF EventRecord
    <2>4. equity' \in Nat /\ events' \in [Times -> EventRecord]
      <3> HIDE DEF e
      <3>1. equity' = equity + Moved(e) /\ equity + Moved(e) >= 0
        BY <2>1 DEF e
      <3>2. events' = [events EXCEPT ![now + 1] = e]
        BY <2>1 DEF e
      <3>3. equity' \in Nat
        BY <2>2, <3>1
      <3>4. events' \in [Times -> EventRecord]
        BY <2>3, <3>2
      <3> QED BY <3>3, <3>4
    <2>5. points' \in [0..MaxTime -> Nat \cup {None}]
      BY <1>17 DEF Transfer, Tick
    <2>6. disturbed' \in BOOLEAN /\ performance' = performance
      BY <1>17 DEF Transfer, Unstable
    <2>7. Tick
      BY <1>17 DEF Transfer
    <2> QED
      BY <2>4, <2>5, <2>6, <2>7 DEF Tick, ledgerVars, localVars, snapshotVars
  <1>18. CASE ProfitOrLoss
    <2>1. PICK nav \in Navs \ {performance} :
              /\ (equity * nav) % performance = 0
              /\ equity' = (equity * nav) \div performance
              /\ performance' = nav
      BY <1>18 DEF ProfitOrLoss
    <2>2. equity * nav \in Nat
      BY <2>1
    <2> DEFINE worth == equity * nav
    <2> HIDE DEF worth
    <2>3. worth \div performance \in Nat
      BY <2>1, <2>2, DivFacts DEF worth
    <2>4. equity' \in Nat
      BY <2>1, <2>3 DEF worth
    <2>5. points' \in [0..MaxTime -> Nat \cup {None}]
      BY <1>18 DEF ProfitOrLoss, Tick
    <2>6. disturbed' \in BOOLEAN
      BY <1>18 DEF ProfitOrLoss, Unstable
    <2> QED
      BY <1>18, <2>1, <2>4, <2>5, <2>6
         DEF ProfitOrLoss, Tick, ledgerVars, localVars, snapshotVars
  <1>19. CASE UNCHANGED vars
    BY <1>19 DEF vars, exchangeVars, ledgerVars, localVars, snapshotVars,
        faultVars
  <1> QED
    BY <1>1, <1>2, <1>3, <1>4, <1>5, <1>6, <1>7, <1>8, <1>9, <1>10, <1>11,
        <1>12, <1>13, <1>14, <1>15, <1>16, <1>17, <1>18, <1>19
    DEF Next, ProcessStep

(* Every variable of CashFlows keeps its type.                              *)
THEOREM TypeCorrect == Spec => []TypeOK
  <1>1. TypeInv => TypeOK
    BY DEF TypeInv
  <1> QED
    BY SkipInit, SkipStep, TypeInit, TypeStep, <1>1, PTL DEF Spec
-----------------------------------------------------------------------------
(* What the units are worth *)

(* From the read of the time stamp, and from that of the account value, on. *)
Stamped == {"read", "sync", "fetch", "apply", "reject", "persist", "advance",
            "decide", "rebaseRead", "rebase", "acknowledge", "rebaseCursor"}
Valued == Stamped \ {"read", "rebaseRead"}

(* Nothing moved money between two times.                                   *)
Quiet(a, b) == \A t \in Times : a < t /\ t <= b => Moved(events[t]) = 0

(* E and P are the equity and the NAV of a unit over time: a transfer moves *)
(* the first, its value before is the one the portfolio history gives, and  *)
(* where none is made the two move in proportion.                           *)
Path(E, P) ==
    /\ E[now] = equity /\ P[now] = performance
    /\ \A t \in 1..now : events[t] # NoEvent =>
           /\ E[t] = E[t - 1] + Moved(events[t])
           /\ P[t] = P[t - 1]
           /\ EquityBefore(t) = E[t - 1]
    /\ \A a, b \in 0..now : a <= b /\ Quiet(a, b) => E[b] * P[a] = E[a] * P[b]

(* n / d units are worth e when their NAV went from b to p; and so the      *)
(* multiplier equity / units was the performance at time s.                 *)
Fits(n, d, b, e, p) == n * p = e * d * b
Worth(E, P, s) == Fits(units.n, units.d, baseline, E[s], P[s])

SnapshotOK(E, P) ==
    /\ pc \in {"read", "rebaseRead"} => through = now
    /\ pc \in Valued => seen = E[through] /\ seenPerformance = P[through]
    /\ pc \in Stamped =>
           /\ cursor <= through
           /\ \A t \in Times : rows[t] # "absent" => t <= through
    /\ pc \in {"apply", "reject", "persist"} =>
           \A t \in new : cursor < t /\ t <= through /\ rows[t] = "absent"
    /\ pc = "apply" => todo \subseteq ExternalOf(new)
    /\ pc = "decide" => cursor = through

(* A flow no sync can ever unitize: it stops every batch from this cursor.  *)
Hopeless(E, t) ==
    /\ Classify(events[t]) = "external_flow"
    /\ cursor < t
    /\ Flow(events[t]) = 0 \/ E[t - 1] + Flow(events[t]) <= 0
    /\ \A s \in cursor..(t - 1) : E[s] > 0

Stopped(E) ==
    \E t \in Times : /\ t <= (IF pc \in Stamped THEN through ELSE now)
                     /\ rows[t] = "absent"
                     /\ Hopeless(E, t)

(* In the middle of a batch the units are worth what they were between the  *)
(* last flow that is done and the first that is not, or it will be refused. *)
Halfway(E, P) ==
    \/ \E t \in todo : Hopeless(E, t)
    \/ /\ \A t \in ExternalOf(new) \ todo, u \in todo : t < u
       /\ \A s \in cursor..through :
              (\A u \in todo : s < u) =>
                  /\ E[s] > 0
                  /\ (\A t \in ExternalOf(new) \ todo : t <= s) => Worth(E, P, s)

(* The units are worth the account at the cursor, unless an event waits for *)
(* review or a flow stops the sync: nothing is sized by them then.          *)
UnitsFit(E, P) ==
    /\ \A t \in Times : rows[t] # "absent" /\ pc # "advance" => t <= cursor
    /\ pc \in {"persist", "advance", "decide"} => Worth(E, P, through)
    /\ pc = "reject" => \E t \in new : Classify(events[t]) = "manual_review"
    /\ pc = "apply" => Halfway(E, P)
    /\ pc \notin {"apply", "reject", "persist", "advance", "decide"} =>
           Worth(E, P, cursor) \/ Stopped(E)

Books(E, P) ==
    /\ units # NoUnits => baseline \in Navs
    /\ units # NoUnits /\ cursor = None => pc \in {"acknowledge", "rebaseCursor"}
    /\ pc \in {"acknowledge", "rebaseCursor"} =>
           units # NoUnits /\ Worth(E, P, through)
    /\ units # NoUnits /\ pc \notin {"acknowledge", "rebaseCursor"}
            /\ Unresolved = {} => UnitsFit(E, P)

Account(E, P) == Path(E, P) /\ SnapshotOK(E, P) /\ Books(E, P)
Histories == [0..MaxTime -> Nat] \X [0..MaxTime -> Navs]

NavInv ==
    /\ ReviewInv /\ TypeInv
    /\ ~disturbed => \E h \in Histories : Account(h[1], h[2])

-----------------------------------------------------------------------------
(* Proportions *)

LEMMA Cancel ==
    ASSUME NEW a \in Nat \ {0}, NEW x \in Int, NEW y \in Int, a * x = a * y
    PROVE  x = y
  OBVIOUS

LEMMA Carry ==
    ASSUME NEW n \in Nat, NEW k \in Nat, NEW p \in Nat \ {0}, NEW q \in Nat,
           NEW e \in Nat, NEW f \in Nat,
           n * p = e * k, f * p = e * q
    PROVE  n * q = f * k
  <1>1. p * (n * q) = (n * p) * q
    OBVIOUS
  <1>2. (n * p) * q = (e * k) * q
    OBVIOUS
  <1>3. (e * k) * q = (e * q) * k
    OBVIOUS
  <1>4. (e * q) * k = (f * p) * k
    OBVIOUS
  <1>5. (f * p) * k = p * (f * k)
    OBVIOUS
  <1>6. n * q \in Int /\ f * k \in Int
    OBVIOUS
  <1>7. p * (n * q) = p * (f * k)
    BY <1>1, <1>2, <1>3, <1>4, <1>5
  <1> DEFINE x == n * q
             y == f * k
  <1> HIDE DEF x, y
  <1> QED BY <1>6, <1>7, Cancel DEF x, y

(* Units issued in proportion of a flow are worth the account after it.     *)
LEMMA Issue ==
    ASSUME NEW n \in Nat \ {0}, NEW d \in Nat \ {0}, NEW m \in Nat, NEW c \in Nat,
           NEW b \in Nat, NEW p \in Nat,
           NEW e \in Nat \ {0}, NEW f \in Nat \ {0},
           m * (d * e) = c * (n * f), n * p = e * d * b
    PROVE  m * p = f * c * b
  <1>1. (n * f) * c = (d * e) * m
    OBVIOUS
  <1>2. n * (m * p) = m * (n * p)
    OBVIOUS
  <1>3. m * (n * p) = m * (e * d * b)
    OBVIOUS
  <1>4. m * (e * d * b) = ((d * e) * m) * b
    OBVIOUS
  <1>5. ((d * e) * m) * b = ((n * f) * c) * b
    BY <1>1
  <1>6. ((n * f) * c) * b = n * (f * c * b)
    OBVIOUS
  <1>7. n * (m * p) = n * (f * c * b)
    BY <1>2, <1>3, <1>4, <1>5, <1>6
  <1>8. m * p \in Int /\ f * c * b \in Int
    OBVIOUS
  <1> DEFINE x == m * p
             y == f * c * b
  <1> HIDE DEF x, y
  <1> QED BY <1>7, <1>8, Cancel DEF x, y

LEMMA MovedFacts ==
    ASSUME NEW e \in EventRecord
    PROVE  /\ Moved(e) \in Int /\ Flow(e) \in Int
           /\ Moved(NoEvent) = 0
           /\ Classify(NoEvent) = "manual_review"
           /\ Classify(e) \in {"external_flow", "strategy_pnl_or_system",
                               "manual_review"}
           /\ Classify(e) = "external_flow" => Moved(e) = Flow(e)
           /\ Classify(e) = "strategy_pnl_or_system" => Moved(e) = 0
  <1>1. e.amount \in Nat
    BY EventFacts
  <1>2. Flow(e) \in Int /\ Moved(e) \in Int
    BY <1>1 DEF Moved, Flow
  <1>3. Moved(NoEvent) = 0 /\ Classify(NoEvent) = "manual_review"
    <2>1. NoEvent.kind = "none" /\ NoEvent.amount = 0
      BY DEF NoEvent
    <2>2. NoEvent.kind \notin External \cup System
      BY <2>1 DEF External, System
    <2>3. Classify(NoEvent) = "manual_review"
      BY <2>2 DEF Classify
    <2>4. Moved(NoEvent) = -NoEvent.amount
      BY <2>3 DEF Moved
    <2>5. \A x \in Int : -x = 0 - x
      OBVIOUS
    <2>6. NoEvent.amount \in Int
      BY <2>1
    <2>7. Moved(NoEvent) = 0 - NoEvent.amount
      BY <2>4, <2>5, <2>6, Zenon
    <2>8. Moved(NoEvent) = 0
      BY <2>1, <2>7
    <2> QED BY <2>3, <2>8
  <1>4. Classify(e) = "strategy_pnl_or_system" => Flow(e) = 0
    BY DEF Classify, Flow, System, External
  <1> QED BY <1>2, <1>3, <1>4 DEF Moved, Classify

(* Worth travels over quiet times, and what is worth something is positive. *)
LEMMA Travels ==
    ASSUME TypeInv, NEW E \in [0..MaxTime -> Nat], NEW P \in [0..MaxTime -> Navs],
           Path(E, P), NEW n \in Nat \ {0}, NEW d \in Nat \ {0}, NEW b \in Navs,
           NEW a \in 0..now, NEW s \in 0..now, a <= s, Quiet(a, s),
           Fits(n, d, b, E[a], P[a])
    PROVE  Fits(n, d, b, E[s], P[s]) /\ E[s] > 0
  <1>1. now \in 0..MaxTime /\ a \in 0..MaxTime /\ s \in 0..MaxTime
    BY TimeFacts DEF TypeInv, TypeOK
  <1>2. P[a] \in Nat \ {0} /\ P[s] \in Nat \ {0} /\ b \in Nat \ {0}
    BY <1>1, CashFlowsAssumption
  <1>3. E[a] \in Nat /\ E[s] \in Nat
    BY <1>1
  <1>4. E[s] * P[a] = E[a] * P[s]
    BY DEF Path
  <1> DEFINE k == d * b
  <1>5. k \in Nat
    BY <1>2
  <1>6. n * P[a] = E[a] * k
    BY <1>2, <1>3 DEF Fits
  <1> HIDE DEF k
  <1>7. n * P[s] = E[s] * k
    <2> DEFINE p == P[a]
               q == P[s]
               e == E[a]
               f == E[s]
    <2>1. p \in Nat \ {0} /\ q \in Nat /\ e \in Nat /\ f \in Nat
      BY <1>2, <1>3
    <2>2. n * p = e * k /\ f * p = e * q
      BY <1>4, <1>6
    <2> HIDE DEF p, q, e, f
    <2>3. n * q = f * k
      BY <1>5, <2>1, <2>2, Carry
    <2> QED BY <2>3 DEF q, f
  <1>8. E[s] * k = E[s] * d * b
    BY <1>2, <1>3 DEF k
  <1>9. E[s] > 0
    <2>1. n * P[s] > 0
      BY <1>2
    <2> QED BY <1>3, <1>5, <1>7, <2>1
  <1> QED BY <1>7, <1>8, <1>9 DEF Fits

LEMMA WorthTravels ==
    ASSUME TypeInv, NEW E \in [0..MaxTime -> Nat], NEW P \in [0..MaxTime -> Navs],
           Path(E, P), units # NoUnits, baseline \in Navs,
           NEW a \in 0..now, NEW s \in 0..now, a <= s, Quiet(a, s),
           Worth(E, P, a)
    PROVE  Worth(E, P, s) /\ E[s] > 0
  <1>1. units.n \in Nat \ {0} /\ units.d \in Nat \ {0}
    BY DEF TypeInv, TypeOK, UnitsOK
  <1> QED BY <1>1, Travels DEF Worth
-----------------------------------------------------------------------------
(* The steps of the process: the account stands still *)

LEMMA PathKept ==
    ASSUME NEW E, NEW P, Path(E, P), UNCHANGED exchangeVars
    PROVE  Path(E, P)'
  BY DEF Path, Quiet, EquityBefore, exchangeVars

LEMMA NavInit == Init => NavInv
  <1> SUFFICES ASSUME Init PROVE NavInv
    OBVIOUS
  <1> DEFINE E == [t \in 0..MaxTime |-> StartEquity]
             P == [t \in 0..MaxTime |-> StartNav]
  <1>1. <<E, P>> \in Histories
    BY CashFlowsAssumption DEF Histories
  <1>2. Path(E, P)
    <2>1. 0 \in 0..MaxTime /\ now = 0
      BY TimeFacts DEF Init
    <2>2. E[0] = StartEquity /\ P[0] = StartNav
      BY <2>1
    <2> HIDE DEF E, P
    <2>3. \A a \in 0..now : a = 0
      BY <2>1
    <2> QED BY <2>1, <2>2, <2>3 DEF Init, Path
  <1>3. SnapshotOK(E, P)
    BY DEF Init, SnapshotOK, Stamped, Valued
  <1>4. Books(E, P)
    BY DEF Init, Books
  <1>5. Account(<<E, P>>[1], <<E, P>>[2])
    BY <1>2, <1>3, <1>4 DEF Account
  <1> HIDE DEF E, P
  <1> QED BY <1>1, <1>5, ReviewInit, TypeInit DEF NavInv

(* What the steps of the process have in common.                            *)
Here(E, P) ==
    /\ ReviewInv /\ TypeInv
    /\ E \in [0..MaxTime -> Nat] /\ P \in [0..MaxTime -> Navs]
    /\ Account(E, P)

Moves(E, P) == SnapshotOK(E, P)' /\ Books(E, P)'

LEMMA HereFacts ==
    ASSUME NEW E, NEW P, Here(E, P)
    PROVE  /\ now \in 0..MaxTime /\ through \in 0..now
           /\ cursor \in 0..now \cup {None}
           /\ \A t \in Times : t > now => rows[t] = "absent" /\ t \notin new
           /\ equity = E[now] /\ performance = P[now]
           /\ SnapshotOK(E, P) /\ Books(E, P) /\ Path(E, P)
  BY DEF Here, ReviewInv, SkipInv, Bounds, RowsArePast, Account, Path

(* Before and after the process works with what it has read.                *)
LEMMA Outside ==
    ASSUME NEW E, NEW P, Here(E, P), Run \/ Rebase \/ Record \/ Stamp
    PROVE  Moves(E, P)
  <1>1. /\ UNCHANGED <<now, events, cursor, rows, units, baseline, new, todo>>
        /\ pc \in {"idle", "stamp", "rebaseStamp"}
        /\ \/ pc' \in {"stamp", "rebaseStamp", "recordRead"}
           \/ pc' \in {"read", "rebaseRead"} /\ through' = now
    BY DEF Run, Rebase, Record, Stamp, Goto, exchangeVars, ledgerVars, localVars
  <1>2. SnapshotOK(E, P)'
    BY <1>1, HereFacts, TimeFacts DEF SnapshotOK, Stamped, Valued, None
  <1>3. Books(E, P)'
    <2>1. Unresolved' = Unresolved
      BY <1>1 DEF Unresolved
    <2>2. (IF pc \in Stamped THEN through ELSE now)'
            = (IF pc \in Stamped THEN through ELSE now)
      BY <1>1 DEF Stamped
    <2>3. Stopped(E) => Stopped(E)'
      BY <1>1, <2>2 DEF Stopped, Hopeless
    <2>4. Worth(E, P, cursor) => Worth(E, P, cursor)'
      BY <1>1 DEF Worth
    <2>5. UnitsFit(E, P) => UnitsFit(E, P)'
      BY <1>1, <2>3, <2>4 DEF UnitsFit
    <2> QED
      BY <1>1, <2>1, <2>5, HereFacts DEF Books
  <1> QED BY <1>2, <1>3 DEF Moves

LEMMA Reading ==
    ASSUME NEW E, NEW P, Here(E, P), ReadEquity
    PROVE  Moves(E, P)
  <1>1. /\ UNCHANGED <<now, events, cursor, rows, units, baseline, through, new, todo>>
        /\ seen' = equity /\ seenPerformance' = performance
        /\ \/ pc = "read" /\ pc' = "sync"
           \/ pc = "rebaseRead" /\ pc' = "rebase"
           \/ pc = "recordRead" /\ pc' = "record"
    BY DEF ReadEquity, Goto, exchangeVars, ledgerVars
  <1>2. SnapshotOK(E, P)'
    BY <1>1, HereFacts DEF SnapshotOK, Stamped, Valued
  <1>3. Books(E, P)'
    <2>1. Unresolved' = Unresolved
      BY <1>1 DEF Unresolved
    <2>2. (IF pc \in Stamped THEN through ELSE now)'
            = (IF pc \in Stamped THEN through ELSE now)
      BY <1>1 DEF Stamped
    <2>3. Stopped(E) => Stopped(E)'
      BY <1>1, <2>2 DEF Stopped, Hopeless
    <2>4. Worth(E, P, cursor) => Worth(E, P, cursor)'
      BY <1>1 DEF Worth
    <2>5. UnitsFit(E, P) => UnitsFit(E, P)'
      BY <1>1, <2>3, <2>4 DEF UnitsFit
    <2> QED
      BY <1>1, <2>1, <2>5, HereFacts DEF Books
  <1> QED BY <1>2, <1>3 DEF Moves

LEMMA Beginning ==
    ASSUME NEW E, NEW P, Here(E, P), InitializeCursor \/ BeginSync
    PROVE  Moves(E, P)
  <1>1. CASE InitializeCursor
    <2>1. /\ UNCHANGED <<now, events, rows, units, baseline, through, seen,
                         seenPerformance, new, todo>>
          /\ pc = "sync" /\ pc' = "decide" /\ cursor = None /\ cursor' = through
      BY <1>1 DEF InitializeCursor, Goto, exchangeVars, localVars, snapshotVars
    <2>2. units = NoUnits
      BY <2>1, HereFacts DEF Books
    <2>3. SnapshotOK(E, P)'
      BY <2>1, HereFacts DEF SnapshotOK, Stamped, Valued
    <2> QED BY <2>1, <2>2, <2>3 DEF Moves, Books
  <1>2. CASE BeginSync
    <2>1. /\ UNCHANGED <<now, events, cursor, rows, units, baseline, through,
                         seen, seenPerformance, new, todo>>
          /\ pc = "sync" /\ pc' = "fetch" /\ cursor # None
      BY <1>2 DEF BeginSync, Goto, exchangeVars, ledgerVars, localVars,
          snapshotVars
    <2>2. SnapshotOK(E, P)'
      BY <2>1, HereFacts DEF SnapshotOK, Stamped, Valued
    <2>3. Unresolved' = Unresolved /\ (Stopped(E) => Stopped(E)')
          /\ (Worth(E, P, cursor) => Worth(E, P, cursor)')
      BY <2>1 DEF Unresolved, Stopped, Hopeless, Stamped, Worth
    <2>4. UnitsFit(E, P) => UnitsFit(E, P)'
      BY <2>1, <2>3 DEF UnitsFit
    <2> QED BY <2>1, <2>2, <2>3, <2>4, HereFacts DEF Moves, Books
  <1> QED BY <1>1, <1>2

(* Only the batch and the place of the process change.                      *)
LEMMA UnitsStay ==
    ASSUME NEW E, NEW P, UNCHANGED <<now, events, cursor, rows, units, baseline>>
    PROVE  /\ Unresolved' = Unresolved
           /\ \A t : Hopeless(E, t)' <=> Hopeless(E, t)
           /\ \A s : Worth(E, P, s)' <=> Worth(E, P, s)
           /\ Worth(E, P, cursor)' <=> Worth(E, P, cursor)
           /\ \A a, b : Quiet(a, b)' <=> Quiet(a, b)
  BY DEF Unresolved, Hopeless, Worth, Quiet

LEMMA Fetching ==
    ASSUME NEW E, NEW P, Here(E, P), FetchUpdates
    PROVE  Moves(E, P)
  <1> DEFINE fetched == {t \in (cursor + 1)..through :
                            events[t] # NoEvent /\ rows[t] = "absent"}
             external == {t \in fetched : Classify(events[t]) = "external_flow"}
             manual == {t \in fetched : Classify(events[t]) = "manual_review"}
  <1>1. /\ UNCHANGED <<now, events, cursor, rows, units, baseline, through,
                       seen, seenPerformance>>
        /\ pc = "fetch" /\ new' = fetched
        /\ todo' = IF manual = {} THEN external ELSE {}
        /\ pc' = IF manual # {} THEN "reject"
                 ELSE IF external # {} THEN "apply" ELSE "persist"
    BY DEF FetchUpdates, Goto, exchangeVars, ledgerVars, snapshotVars
  <1>2. cursor \in 0..now /\ through \in 0..now /\ now \in 0..MaxTime
        /\ Unresolved = {}
    BY <1>1, HereFacts DEF Here, ReviewInv, SkipInv, BatchOK, NothingWaits
  <1>3. \A t \in fetched : /\ t \in Times /\ cursor < t /\ t <= through
                           /\ rows[t] = "absent"
    BY <1>2, TimeFacts DEF Times
  <1>4. ExternalOf(new)' = external
    BY <1>1 DEF ExternalOf
  <1>5. SnapshotOK(E, P)'
    BY <1>1, <1>3, <1>4, HereFacts DEF SnapshotOK, Stamped, Valued
  <1>6. ASSUME units # NoUnits PROVE UnitsFit(E, P)'
    <2>1. /\ UnitsFit(E, P) /\ baseline \in Navs
          /\ Worth(E, P, cursor) \/ Stopped(E)
      BY <1>1, <1>2, <1>6, HereFacts DEF Books, UnitsFit
    <2>2. \A t \in Times : rows[t] # "absent" => t <= cursor
      BY <1>1, <2>1 DEF UnitsFit
    <2>3. events \in [Times -> EventRecord]
      BY DEF Here, TypeInv, TypeOK
    <2>4. Stopped(E) => \E t \in external : Hopeless(E, t)
      <3> SUFFICES ASSUME Stopped(E) PROVE \E t \in external : Hopeless(E, t)
        OBVIOUS
      <3>1. PICK t \in Times : t <= through /\ rows[t] = "absent"
                               /\ Hopeless(E, t)
        BY <1>1 DEF Stopped, Stamped
      <3>2. cursor < t /\ Classify(events[t]) = "external_flow"
        BY <3>1 DEF Hopeless
      <3>3. events[t] # NoEvent
        BY <2>3, <3>2, MovedFacts
      <3>4. t \in external
        BY <1>2, <3>1, <3>2, <3>3 DEF Times
      <3> QED BY <3>1, <3>4
    <2>5. ASSUME manual = {}, NEW s \in cursor..through,
                 \A u \in external : s < u
          PROVE  Quiet(cursor, s)
      <3> SUFFICES ASSUME NEW t \in Times, cursor < t, t <= s
                   PROVE  Moved(events[t]) = 0
        BY DEF Quiet
      <3>1. CASE events[t] = NoEvent
        BY <2>3, <3>1, MovedFacts
      <3>2. CASE events[t] # NoEvent
        <4>1. rows[t] = "absent" /\ t \in (cursor + 1)..through
          BY <1>2, <2>2 DEF Times
        <4>2. t \in fetched
          BY <3>2, <4>1
        <4>3. t \notin external /\ t \notin manual
          BY <1>2, <2>5 DEF Times
        <4>4. Classify(events[t]) # "external_flow"
              /\ Classify(events[t]) # "manual_review"
          BY <4>2, <4>3
        <4> QED BY <2>3, <4>4, MovedFacts
      <3> QED BY <3>1, <3>2
    <2> HIDE DEF fetched, external, manual
    <2>6. ASSUME manual = {}, NEW s \in cursor..through,
                 \A u \in external : s < u, Worth(E, P, cursor)
          PROVE  Worth(E, P, s) /\ E[s] > 0
      <3>1. Quiet(cursor, s)
        BY <2>5, <2>6
      <3>2. cursor \in 0..now /\ s \in 0..now /\ cursor <= s
        BY <1>2
      <3> QED
        BY <1>6, <2>1, <2>6, <3>1, <3>2, HereFacts, WorthTravels DEF Here
    <2>7. \A t \in Times : rows'[t] # "absent" /\ pc' # "advance" => t <= cursor'
      BY <1>1, <2>2
    <2>8. CASE manual # {}
      <3>1. \E t \in new' : Classify(events'[t]) = "manual_review"
        BY <1>1, <2>8 DEF manual, fetched
      <3> QED BY <1>1, <2>7, <2>8, <3>1 DEF UnitsFit
    <2>9. CASE manual = {} /\ external = {}
      <3>1. Worth(E, P, cursor)
        BY <2>1, <2>4, <2>9
      <3>2. through \in cursor..through
        BY <1>1, <1>2, HereFacts DEF SnapshotOK, Stamped
      <3>3. Worth(E, P, through)
        BY <2>6, <2>9, <3>1, <3>2
      <3>4. Worth(E, P, through)'
        BY <1>1, <3>3 DEF Worth
      <3> QED BY <1>1, <2>7, <2>9, <3>4 DEF UnitsFit
    <2>10. CASE manual = {} /\ external # {}
      <3>1. pc' = "apply" /\ todo' = external
        BY <1>1, <2>10
      <3>2. Halfway(E, P)'
        <4>1. CASE Stopped(E)
          BY <1>1, <2>4, <3>1, <4>1, UnitsStay DEF Halfway
        <4>2. CASE Worth(E, P, cursor)
          <5>1. \A s \in cursor..through :
                    (\A u \in external : s < u) => E[s] > 0 /\ Worth(E, P, s)
            BY <2>6, <2>10, <4>2
          <5>2. \A s \in (cursor..through)' :
                    (\A u \in todo' : s < u) => E[s] > 0 /\ Worth(E, P, s)'
            BY <1>1, <3>1, <5>1, UnitsStay
          <5>3. (ExternalOf(new) \ todo)' = {}
            BY <1>4, <3>1
          <5> QED BY <5>2, <5>3 DEF Halfway
        <4> QED BY <2>1, <4>1, <4>2
      <3> QED BY <2>7, <3>1, <3>2 DEF UnitsFit
    <2> QED BY <2>8, <2>9, <2>10
  <1>7. Books(E, P)'
    <2>1. pc' \notin {"acknowledge", "rebaseCursor"}
      BY <1>1
    <2> HIDE DEF fetched, external, manual
    <2> QED BY <1>1, <1>2, <1>6, <2>1, HereFacts DEF Books, None
  <1> QED BY <1>5, <1>7 DEF Moves

(* The flow to unitize next: the value before it is known.                  *)
LEMMA FlowFacts ==
    ASSUME NEW E, NEW P, Here(E, P), pc = "apply", todo # {}, units # NoUnits
    PROVE  /\ NextFlow \in todo /\ NextFlow \in Times
           /\ \A u \in todo : NextFlow <= u
           /\ NextFlow \in ExternalOf(new)
           /\ cursor < NextFlow /\ NextFlow <= through
           /\ rows[NextFlow] = "absent"
           /\ EquityBefore(NextFlow) = E[NextFlow - 1]
           /\ E[NextFlow - 1] \in Nat \ {0}
           /\ Flow(events[NextFlow]) \in Int
           /\ E[NextFlow] = E[NextFlow - 1] + Flow(events[NextFlow])
           /\ P[NextFlow] = P[NextFlow - 1]
           /\ cursor \in 0..now
           /\ UnitsFit(E, P) /\ Halfway(E, P) /\ baseline \in Navs
           /\ Unresolved = {}
  <1> DEFINE t == NextFlow
  <1>1. TypeOK /\ events \in [Times -> EventRecord]
    BY DEF Here, TypeInv, TypeOK
  <1>2. t \in todo /\ t \in Times /\ \A u \in todo : t <= u
    BY <1>1, NextFlowFacts
  <1> HIDE DEF t
  <1>3. t \in ExternalOf(new)
    BY <1>2, HereFacts DEF SnapshotOK
  <1>4. cursor < t /\ t <= through /\ rows[t] = "absent"
    BY <1>3, HereFacts DEF SnapshotOK, ExternalOf
  <1>5. cursor \in 0..now /\ through \in 0..now /\ now \in 0..MaxTime
    BY HereFacts DEF Here, ReviewInv, SkipInv, BatchOK
  <1>6. Unresolved = {}
    BY DEF Here, ReviewInv, NothingWaits
  <1>7. UnitsFit(E, P) /\ Halfway(E, P) /\ baseline \in Navs
    BY <1>6, HereFacts DEF Books, UnitsFit
  <1>8. Classify(events[t]) = "external_flow" /\ events[t] # NoEvent
        /\ Flow(events[t]) \in Int /\ Moved(events[t]) = Flow(events[t])
    BY <1>1, <1>2, <1>3, MovedFacts DEF ExternalOf
  <1>9. t \in 1..now /\ t - 1 \in cursor..through /\ t - 1 \in 0..MaxTime
    BY <1>2, <1>4, <1>5, TimeFacts DEF Times
  <1>10. /\ E[t] = E[t - 1] + Moved(events[t]) /\ P[t] = P[t - 1]
         /\ EquityBefore(t) = E[t - 1]
    BY <1>8, <1>9, HereFacts DEF Path
  <1>11. E[t - 1] \in Nat
    BY <1>9 DEF Here
  <1>12. EquityBefore(t) = E[t - 1]
    BY <1>10
  <1>13. E[t - 1] > 0
    <2>1. CASE \E u \in todo : Hopeless(E, u)
      <3>1. PICK u \in todo : Hopeless(E, u)
        BY <2>1
      <3>2. u \in Times /\ t <= u
        BY <1>1, <1>2, <3>1 DEF TypeOK
      <3>3. t - 1 \in cursor..(u - 1)
        BY <1>5, <1>9, <3>2, TimeFacts
      <3> QED BY <3>1, <3>3 DEF Hopeless
    <2>2. CASE ~ \E u \in todo : Hopeless(E, u)
      <3>1. \A u \in todo : t - 1 < u
        BY <1>1, <1>2, <1>9, TimeFacts DEF TypeOK
      <3> QED BY <1>7, <1>9, <2>2, <3>1 DEF Halfway
    <2> QED BY <2>1, <2>2
  <1> QED
    BY <1>2, <1>3, <1>4, <1>5, <1>6, <1>7, <1>8, <1>10, <1>11, <1>12, <1>13
    DEF t

LEMMA Missing ==
    ASSUME NEW E, NEW P, Here(E, P), HistoryMissing
    PROVE  Moves(E, P)
  <1>1. /\ UNCHANGED <<now, events, cursor, rows, units, baseline, through,
                       seen, seenPerformance, new, todo>>
        /\ pc = "apply" /\ pc' = "reject" /\ todo # {}
        /\ EquityBefore(NextFlow) <= 0
    BY DEF HistoryMissing, Goto, exchangeVars, ledgerVars, localVars, snapshotVars
  <1>2. units = NoUnits
    BY <1>1, FlowFacts
  <1>3. SnapshotOK(E, P)'
    BY <1>1, HereFacts DEF SnapshotOK, Stamped, Valued
  <1>4. cursor # None
    BY <1>1 DEF Here, ReviewInv, SkipInv, BatchOK
  <1> QED BY <1>1, <1>2, <1>3 DEF Moves, Books

(* What is left of a batch that is refused stops every later one as well.   *)
LEMMA Refusing ==
    ASSUME NEW E, NEW P, Here(E, P), FlowRefused
    PROVE  Moves(E, P)
  <1>1. /\ UNCHANGED <<now, events, cursor, rows, units, baseline>>
        /\ pc = "apply" /\ pc' = "idle" /\ todo # {}
    BY DEF FlowRefused, Exit, exchangeVars, ledgerVars
  <1>2. SnapshotOK(E, P)'
    BY <1>1 DEF SnapshotOK, Stamped, Valued
  <1>3. ASSUME units # NoUnits PROVE UnitsFit(E, P)' /\ cursor # None
    <2> DEFINE t == NextFlow
    <2>1. /\ t \in todo /\ t \in Times /\ \A u \in todo : t <= u
          /\ t \in ExternalOf(new) /\ cursor < t /\ t <= through
          /\ rows[t] = "absent" /\ EquityBefore(t) = E[t - 1]
          /\ cursor \in 0..now /\ UnitsFit(E, P) /\ Halfway(E, P)
      BY <1>1, <1>3, FlowFacts
    <2>2. Flow(events[t]) = 0 \/ E[t - 1] + Flow(events[t]) <= 0
      BY <1>3, <2>1 DEF FlowRefused
    <2> HIDE DEF t
    <2>3. through \in 0..now /\ todo \subseteq Times /\ now \in Nat
      <3>1. through \in 0..now /\ now \in Nat
        BY HereFacts, TimeFacts
      <3>2. todo \subseteq Times
        BY DEF Here, TypeInv, TypeOK
      <3> QED BY <3>1, <3>2
    <2>4. \E u \in todo : Hopeless(E, u)
      <3>1. CASE \A s \in cursor..(t - 1) : E[s] > 0
        BY <2>1, <2>2, <3>1 DEF Hopeless, ExternalOf
      <3>2. CASE ~ \E u \in todo : Hopeless(E, u)
        <4>1. ASSUME NEW s \in cursor..(t - 1) PROVE E[s] > 0
          <5>1. s \in cursor..through /\ \A u \in todo : s < u
            BY <2>1, <2>3, TimeFacts DEF Times
          <5> QED BY <2>1, <3>2, <5>1 DEF Halfway
        <4> QED BY <3>1, <4>1
      <3> QED BY <3>2
    <2>5. PICK u \in todo : Hopeless(E, u)
      BY <2>4
    <2>6. u \in Times /\ u <= through /\ rows[u] = "absent"
      BY <1>1, <2>3, <2>5, HereFacts DEF SnapshotOK, ExternalOf
    <2>7. u <= now
      BY <2>3, <2>6, TimeFacts
    <2>8. Stopped(E)'
      BY <1>1, <2>5, <2>6, <2>7, UnitsStay DEF Stopped, Stamped
    <2>9. \A x \in Times : rows'[x] # "absent" /\ pc' # "advance" => x <= cursor'
      BY <1>1, <2>1 DEF UnitsFit
    <2> QED BY <1>1, <2>1, <2>8, <2>9 DEF UnitsFit, None
  <1> QED BY <1>1, <1>2, <1>3, HereFacts DEF Moves, Books

LEMMA Applying ==
    ASSUME NEW E, NEW P, Here(E, P), ApplyFlow
    PROVE  Moves(E, P)
  <1> DEFINE t == NextFlow
             before == EquityBefore(t)
             after == before + Flow(events[t])
  <1>1. /\ UNCHANGED <<now, events, cursor, rows, baseline, pc, through, seen,
                       seenPerformance, new>>
        /\ pc = "apply" /\ todo # {} /\ units # NoUnits
        /\ before > 0 /\ after > 0 /\ after # before
        /\ units' = Ratio(units.n * after, units.d * before)
        /\ todo' = todo \ {t}
    BY DEF ApplyFlow, exchangeVars, snapshotVars
  <1>2. /\ t \in todo /\ t \in Times /\ \A u \in todo : t <= u
        /\ t \in ExternalOf(new) /\ cursor < t /\ t <= through
        /\ rows[t] = "absent" /\ before = E[t - 1]
        /\ E[t - 1] \in Nat \ {0} /\ Flow(events[t]) \in Int
        /\ E[t] = E[t - 1] + Flow(events[t]) /\ P[t] = P[t - 1]
        /\ cursor \in 0..now /\ UnitsFit(E, P) /\ Halfway(E, P)
        /\ baseline \in Navs /\ Unresolved = {}
    BY <1>1, FlowFacts
  <1> HIDE DEF t
  <1>3. after = E[t] /\ E[t] \in Nat \ {0} /\ Flow(events[t]) # 0
    BY <1>1, <1>2
  <1>4. through \in 0..now /\ todo \subseteq Times /\ now \in 0..MaxTime
    <2>1. through \in 0..now /\ now \in 0..MaxTime
      BY HereFacts
    <2>2. todo \subseteq Times
      BY DEF Here, TypeInv, TypeOK
    <2> QED BY <2>1, <2>2
  <1>5. t \in 1..through /\ t - 1 \in cursor..through
    BY <1>2, <1>4, TimeFacts DEF Times
  <1>6. /\ units'.n \in Nat \ {0} /\ units'.d \in Nat \ {0}
        /\ \A b \in Navs, p \in Navs :
               Fits(units.n, units.d, b, E[t - 1], p) =>
                   Fits(units'.n, units'.d, b, E[t], p)
    <2> DEFINE n == units.n
               d == units.d
               e == E[t - 1]
               f == E[t]
               m == units'.n
               c == units'.d
    <2>1. n \in Nat \ {0} /\ d \in Nat \ {0}
      BY <1>1 DEF Here, TypeInv, TypeOK, UnitsOK
    <2>2. e \in Nat \ {0} /\ f \in Nat \ {0}
      BY <1>2, <1>3
    <2>3. units' = Ratio(n * f, d * e)
      BY <1>1, <1>2, <1>3
    <2> HIDE DEF n, d, e, f
    <2>4. n * f \in Nat \ {0} /\ d * e \in Nat \ {0}
      BY <2>1, <2>2
    <2> DEFINE x == n * f
               y == d * e
    <2> HIDE DEF x, y
    <2>5. /\ Ratio(x, y) \in [n : Nat, d : Nat] /\ Ratio(x, y).n > 0
          /\ Ratio(x, y).d > 0 /\ Ratio(x, y).n * y = Ratio(x, y).d * x
      BY <2>4, RatioFacts DEF x, y
    <2>6. units' = Ratio(x, y)
      BY <2>3 DEF x, y
    <2>7. m \in Nat \ {0} /\ c \in Nat \ {0} /\ m * y = c * x
      BY <2>5, <2>6
    <2> HIDE DEF m, c
    <2>8. ASSUME NEW b \in Navs, NEW p \in Navs, Fits(n, d, b, e, p)
          PROVE  Fits(m, c, b, f, p)
      <3>1. b \in Nat /\ p \in Nat
        BY CashFlowsAssumption
      <3>2. n * p = e * d * b
        BY <2>8 DEF Fits
      <3>3. m * (d * e) = c * (n * f)
        BY <2>7 DEF x, y
      <3>4. m * p = f * c * b
        BY <2>1, <2>2, <2>7, <3>1, <3>2, <3>3, Issue
      <3> QED BY <3>4 DEF Fits
    <2>9. \A b \in Navs, p \in Navs :
              Fits(n, d, b, e, p) => Fits(m, c, b, f, p)
      BY <2>8
    <2>10. m \in Nat \ {0} /\ c \in Nat \ {0}
      BY <2>7
    <2> QED BY <2>9, <2>10 DEF n, d, e, f, m, c
  <1>7. SnapshotOK(E, P)'
    <2>1. ExternalOf(new)' = ExternalOf(new) /\ todo' \subseteq todo
      BY <1>1 DEF ExternalOf
    <2> QED BY <1>1, <2>1, HereFacts DEF SnapshotOK
  <1>8. Halfway(E, P)'
    <2>1. CASE \E u \in todo : Hopeless(E, u)
      <3>1. PICK u \in todo : Hopeless(E, u)
        BY <2>1
      <3>2. u # t
        BY <1>2, <1>3, <3>1 DEF Hopeless
      <3>3. u \in todo' /\ Hopeless(E, u)'
        BY <1>1, <3>1, <3>2 DEF Hopeless
      <3> QED BY <3>3 DEF Halfway
    <2>2. CASE ~ \E u \in todo : Hopeless(E, u)
      <3>1. /\ \A x \in ExternalOf(new) \ todo, u \in todo : x < u
            /\ \A s \in cursor..through :
                  (\A u \in todo : s < u) =>
                      /\ E[s] > 0
                      /\ (\A x \in ExternalOf(new) \ todo : x <= s) => Worth(E, P, s)
        BY <1>2, <2>2 DEF Halfway
      <3>2. ExternalOf(new)' = ExternalOf(new)
        BY <1>1 DEF ExternalOf
      <3>3. \A u \in todo' : t < u
        BY <1>1, <1>2, <1>4, TimeFacts
      <3>4. \A x \in ExternalOf(new) \ todo' : x = t \/ x \in ExternalOf(new) \ todo
        BY <1>1
      <3>5. \A x \in ExternalOf(new) \ todo', u \in todo' : x < u
        BY <1>1, <3>1, <3>3, <3>4
      <3>6. \A x \in ExternalOf(new) : x \in Times
        BY DEF Here, TypeInv, TypeOK, ExternalOf
      <3>7. \A x \in ExternalOf(new) \ todo : x < t /\ x <= t - 1
        BY <1>2, <3>1, <3>6, TimeFacts
      <3>8. E[t - 1] > 0 /\ Worth(E, P, t - 1)
        <4>1. \A u \in todo : t - 1 < u
          BY <1>2, <1>4, TimeFacts
        <4> QED BY <1>5, <3>1, <3>7, <4>1
      <3>9. Fits(units'.n, units'.d, baseline, E[t], P[t])
        <4>1. P[t] \in Navs
          <5>1. t \in 0..MaxTime
            BY <1>4, <1>5, TimeFacts
          <5> QED BY <5>1 DEF Here
        <4> QED BY <1>2, <1>6, <3>8, <4>1 DEF Worth
      <3>10. ASSUME NEW s \in cursor..through, \A u \in todo' : s < u, t <= s
             PROVE  E[s] > 0 /\ Worth(E, P, s)'
        <4>1. Quiet(t, s)
          <5> SUFFICES ASSUME NEW v \in Times, t < v, v <= s
                       PROVE  Moved(events[v]) = 0
            BY DEF Quiet
          <5>1. events \in [Times -> EventRecord]
            BY DEF Here, TypeInv, TypeOK
          <5>2. cursor < v /\ v <= through
            BY <1>2, <1>4, TimeFacts
          <5>3. CASE events[v] = NoEvent
            BY <5>1, <5>3, MovedFacts
          <5>4. CASE events[v] # NoEvent
            <6>1. rows[v] = "absent"
              BY <1>1, <1>2, <1>4, <5>2, TimeFacts DEF UnitsFit
            <6>2. v \in new /\ Classify(events[v]) # "manual_review"
              BY <1>1, <5>2, <5>4, <6>1
              DEF Here, ReviewInv, SkipInv, BatchOK, BatchUnitized, Unseen
            <6>3. v \notin ExternalOf(new)
              <7>1. v \notin todo'
                BY <1>4, <3>10, TimeFacts
              <7> QED
                BY <1>2, <1>4, <3>4, <3>7, <7>1, TimeFacts
            <6>4. Classify(events[v]) # "external_flow"
              BY <6>2, <6>3 DEF ExternalOf
            <6> QED BY <5>1, <6>2, <6>4, MovedFacts
          <5> QED BY <5>3, <5>4
        <4>2. t \in 0..now /\ s \in 0..now
          BY <1>2, <1>4, <1>5
        <4>3. Fits(units'.n, units'.d, baseline, E[s], P[s]) /\ E[s] > 0
          BY <1>2, <1>6, <3>9, <3>10, <4>1, <4>2, HereFacts, Travels DEF Here
        <4> QED BY <1>1, <4>3 DEF Worth
      <3>11. ASSUME NEW s \in (cursor..through)', \A u \in todo' : s < u
             PROVE  /\ E[s] > 0
                    /\ (\A x \in ExternalOf(new) \ todo' : x <= s) =>
                           Worth(E, P, s)'
        <4>1. s \in cursor..through
          BY <1>1
        <4>2. CASE t <= s
          BY <3>10, <3>11, <4>1, <4>2
        <4>3. CASE ~(t <= s)
          <5>1. s < t
            BY <1>2, <1>4, <4>1, <4>3, TimeFacts
          <5>2. \A u \in todo : s < u
            BY <1>1, <3>11, <5>1
          <5>3. t \in ExternalOf(new) \ todo'
            BY <1>1, <1>2
          <5> QED BY <3>1, <4>1, <4>3, <5>2, <5>3
        <4> QED BY <4>2, <4>3
      <3> QED BY <3>2, <3>5, <3>11 DEF Halfway
    <2> QED BY <2>1, <2>2
  <1>9. UnitsFit(E, P)'
    BY <1>1, <1>2, <1>8 DEF UnitsFit
  <1>10. cursor # None
    BY <1>2, TimeFacts DEF None
  <1> QED BY <1>1, <1>2, <1>7, <1>9, <1>10 DEF Moves, Books

LEMMA Finishing ==
    ASSUME NEW E, NEW P, Here(E, P), AllApplied
    PROVE  Moves(E, P)
  <1>1. /\ UNCHANGED <<now, events, cursor, rows, units, baseline, through,
                       seen, seenPerformance, new, todo>>
        /\ pc = "apply" /\ pc' = "persist" /\ todo = {}
    BY DEF AllApplied, Goto, exchangeVars, ledgerVars, localVars, snapshotVars
  <1>2. SnapshotOK(E, P)'
    BY <1>1, HereFacts DEF SnapshotOK, Stamped, Valued
  <1>3. cursor \in 0..now /\ Unresolved = {} /\ cursor <= through
    BY <1>1, HereFacts
    DEF Here, ReviewInv, SkipInv, BatchOK, NothingWaits, SnapshotOK, Stamped
  <1>4. ASSUME units # NoUnits PROVE UnitsFit(E, P)'
    <2>1. UnitsFit(E, P) /\ Halfway(E, P)
      BY <1>1, <1>3, <1>4, HereFacts DEF Books, UnitsFit
    <2>2. through \in cursor..through
      BY <1>3, HereFacts
    <2>3. \A x \in ExternalOf(new) : x <= through
      BY <1>1, HereFacts DEF SnapshotOK, ExternalOf
    <2>4. Worth(E, P, through)
      BY <1>1, <2>1, <2>2, <2>3 DEF Halfway
    <2>5. Worth(E, P, through)'
      BY <1>1, <2>4 DEF Worth
    <2> QED BY <1>1, <2>1, <2>5 DEF UnitsFit
  <1> QED
    BY <1>1, <1>2, <1>3, <1>4, HereFacts DEF Moves, Books, None

LEMMA Raising ==
    ASSUME NEW E, NEW P, Here(E, P), Raise
    PROVE  Moves(E, P)
  <1>1. /\ UNCHANGED <<now, events, cursor, rows, units, baseline>>
        /\ pc' = "idle"
        /\ \/ pc \in {"stamp", "read", "sync", "fetch", "rebaseStamp",
                      "rebaseRead", "rebase", "recordRead", "record"}
           \/ pc = "decide"
           \/ pc = "apply" /\ todo = ExternalOf(new)
    BY DEF Raise, Exit, exchangeVars, ledgerVars, ExternalOf
  <1>2. SnapshotOK(E, P)'
    BY <1>1 DEF SnapshotOK, Stamped, Valued
  <1>3. through \in 0..now /\ now \in Nat
    BY HereFacts, TimeFacts
  <1>4. ASSUME units # NoUnits, Unresolved = {} PROVE UnitsFit(E, P)'
    <2>1. UnitsFit(E, P)
      BY <1>1, <1>4, HereFacts DEF Books
    <2>2. Stopped(E) => Stopped(E)'
      <3> SUFFICES ASSUME Stopped(E) PROVE Stopped(E)'
        OBVIOUS
      <3>1. PICK t \in Times : /\ t <= (IF pc \in Stamped THEN through ELSE now)
                               /\ rows[t] = "absent" /\ Hopeless(E, t)
        BY DEF Stopped
      <3>2. t <= now
        BY <1>3, <3>1, TimeFacts
      <3> QED BY <1>1, <3>1, <3>2, UnitsStay DEF Stopped, Stamped
    <2>3. Worth(E, P, cursor) \/ Stopped(E)'
      <3>1. CASE pc \notin {"apply", "decide"}
        BY <1>1, <2>1, <2>2, <3>1 DEF UnitsFit
      <3>2. CASE pc = "decide"
        BY <2>1, <3>2, HereFacts DEF UnitsFit, SnapshotOK
      <3>3. CASE pc = "apply"
        <4>1. Halfway(E, P) /\ todo = ExternalOf(new)
          BY <1>1, <2>1, <3>3 DEF UnitsFit
        <4>2. \A u \in todo : u \in Times /\ cursor < u /\ u <= through
                              /\ rows[u] = "absent"
          <5>1. new \subseteq Times
            BY DEF Here, TypeInv, TypeOK
          <5> QED BY <3>3, <4>1, <5>1, HereFacts DEF SnapshotOK, ExternalOf
        <4>3. CASE \E u \in todo : Hopeless(E, u)
          <5>1. PICK u \in todo : Hopeless(E, u)
            BY <4>3
          <5>2. u \in Times /\ u <= through
            BY <4>2, <5>1
          <5>3. u <= now
            BY <1>3, <5>2, TimeFacts
          <5> QED
            BY <1>1, <4>2, <5>1, <5>3, UnitsStay DEF Stopped, Stamped
        <4>4. CASE ~ \E u \in todo : Hopeless(E, u)
          <5>1. cursor \in cursor..through
            BY <1>3, <3>3, HereFacts
            DEF Here, ReviewInv, SkipInv, BatchOK, SnapshotOK, Stamped
          <5> QED BY <4>1, <4>2, <4>4, <5>1 DEF Halfway
        <4> QED BY <4>3, <4>4
      <3> QED BY <3>1, <3>2, <3>3
    <2>4. \A t \in Times : rows'[t] # "absent" => t <= cursor'
      BY <1>1, <2>1 DEF UnitsFit
    <2> QED BY <1>1, <2>3, <2>4, UnitsStay DEF UnitsFit
  <1>5. Books(E, P)'
    <2>1. units # NoUnits => baseline \in Navs /\ cursor # None
      BY <1>1, HereFacts DEF Books
    <2> QED BY <1>1, <1>4, <2>1, UnitsStay DEF Books
  <1> QED BY <1>2, <1>5 DEF Moves

(* A batch is rejected for an event that waits for review from then on.     *)
LEMMA Rejecting ==
    ASSUME NEW E, NEW P, Here(E, P), Reject
    PROVE  Moves(E, P)
  <1>1. /\ UNCHANGED <<now, events, cursor, units, baseline>>
        /\ pc = "reject" /\ pc' = "idle"
        /\ \A t \in Times :
              rows'[t] = IF t \notin new \/ rows[t] # "absent" THEN rows[t]
                         ELSE "unapplied"
    BY DEF Reject, Exit, AddRows, exchangeVars
  <1>2. SnapshotOK(E, P)'
    BY <1>1 DEF SnapshotOK, Stamped, Valued
  <1>3. cursor # None
    BY <1>1 DEF Here, ReviewInv, SkipInv, BatchOK
  <1>4. ASSUME units # NoUnits PROVE Unresolved' # {}
    <2>1. Unresolved \subseteq Unresolved'
      BY <1>1 DEF Unresolved
    <2>2. CASE Unresolved = {}
      <3>1. PICK t \in new : Classify(events[t]) = "manual_review"
        BY <1>1, <1>4, <2>2, HereFacts DEF Books, UnitsFit
      <3>2. t \in Times /\ rows[t] = "absent"
        <4>1. t \in Times
          BY DEF Here, TypeInv, TypeOK
        <4> QED BY <1>1, <4>1, HereFacts DEF SnapshotOK
      <3>3. rows'[t] = "unapplied"
        BY <1>1, <3>2
      <3>4. Classify(events'[t]) = "manual_review"
        BY <1>1, <3>1
      <3> QED BY <3>2, <3>3, <3>4 DEF Unresolved
    <2> QED BY <2>1, <2>2
  <1> QED
    BY <1>1, <1>2, <1>3, <1>4, HereFacts DEF Moves, Books

LEMMA Persisting ==
    ASSUME NEW E, NEW P, Here(E, P), Persist
    PROVE  Moves(E, P)
  <1>1. /\ UNCHANGED <<now, events, cursor, units, baseline, through, seen,
                       seenPerformance>>
        /\ pc = "persist" /\ pc' = "advance"
        /\ \A t \in Times : t \notin new => rows'[t] = rows[t]
    BY DEF Persist, Goto, AddRows, exchangeVars, localVars, snapshotVars
  <1>2. cursor # None /\ Unresolved = {}
    BY <1>1 DEF Here, ReviewInv, SkipInv, BatchOK, NothingWaits
  <1>3. \A t \in Times : rows'[t] # "absent" => t <= through
    BY <1>1, HereFacts DEF SnapshotOK, Stamped
  <1>4. SnapshotOK(E, P)'
    BY <1>1, <1>3, HereFacts DEF SnapshotOK, Stamped, Valued
  <1>5. ASSUME units # NoUnits PROVE UnitsFit(E, P)'
    <2>1. Worth(E, P, through)
      BY <1>1, <1>2, <1>5, HereFacts DEF Books, UnitsFit
    <2>2. Worth(E, P, through)'
      BY <1>1, <2>1 DEF Worth
    <2> QED BY <1>1, <2>2 DEF UnitsFit
  <1> QED BY <1>1, <1>2, <1>4, <1>5, HereFacts DEF Moves, Books

LEMMA Advancing ==
    ASSUME NEW E, NEW P, Here(E, P), AdvanceCursor
    PROVE  Moves(E, P)
  <1>1. /\ UNCHANGED <<now, events, rows, units, baseline, through, seen,
                       seenPerformance>>
        /\ pc = "advance" /\ pc' = "decide" /\ cursor' = through
    BY DEF AdvanceCursor, Goto, exchangeVars, localVars, snapshotVars
  <1>2. Unresolved = {} /\ through \in 0..now /\ cursor # None
    BY <1>1, HereFacts DEF Here, ReviewInv, SkipInv, BatchOK, NothingWaits
  <1>3. \A t \in Times : rows[t] # "absent" => t <= through
    BY <1>1, HereFacts DEF SnapshotOK, Stamped
  <1>4. SnapshotOK(E, P)'
    BY <1>1, <1>2, <1>3, HereFacts DEF SnapshotOK, Stamped, Valued
  <1>5. ASSUME units # NoUnits PROVE UnitsFit(E, P)'
    <2>1. Worth(E, P, through)
      BY <1>1, <1>2, <1>5, HereFacts DEF Books, UnitsFit
    <2>2. Worth(E, P, through)'
      BY <1>1, <2>1 DEF Worth
    <2> QED BY <1>1, <1>3, <2>2 DEF UnitsFit
  <1>6. cursor' # None
    BY <1>1, <1>2, HereFacts, TimeFacts DEF None
  <1> QED BY <1>1, <1>2, <1>4, <1>5, <1>6, HereFacts DEF Moves, Books

(* New units are worth the account value they are set to.                   *)
LEMMA Fresh ==
    ASSUME NEW E, NEW P, Here(E, P), SetBaseline, pc \in Valued
    PROVE  /\ Fits(units'.n, units'.d, baseline', E[through], P[through])
           /\ baseline' \in Navs /\ units' # NoUnits
  <1>1. seen = E[through] /\ seenPerformance = P[through]
    BY HereFacts DEF SnapshotOK
  <1>2. through \in 0..MaxTime
    BY DEF Here, TypeInv, TypeOK
  <1>3. E[through] \in Nat /\ P[through] \in Navs /\ P[through] \in Nat
    BY <1>2, CashFlowsAssumption DEF Here
  <1>4. units' = [n |-> E[through], d |-> 1] /\ baseline' = P[through]
        /\ E[through] > 0
    BY <1>1 DEF SetBaseline
  <1>5. Fits(E[through], 1, P[through], E[through], P[through])
    BY <1>3 DEF Fits
  <1> QED BY <1>3, <1>4, <1>5 DEF NoUnits

LEMMA Deciding ==
    ASSUME NEW E, NEW P, Here(E, P), Decide
    PROVE  Moves(E, P)
  <1>1. /\ UNCHANGED <<now, events, cursor, rows>>
        /\ pc = "decide" /\ pc' = "idle"
    BY DEF Decide, Exit, exchangeVars
  <1>2. cursor = through /\ Unresolved = {} /\ through \in 0..now
    BY <1>1, HereFacts DEF SnapshotOK, Here, ReviewInv, NothingWaits
  <1>3. \A t \in Times : rows[t] # "absent" => t <= cursor
    BY <1>1, <1>2, HereFacts DEF SnapshotOK, Stamped
  <1>4. SnapshotOK(E, P)'
    BY <1>1 DEF SnapshotOK, Stamped, Valued
  <1>5. ASSUME units' # NoUnits
        PROVE  Worth(E, P, cursor)' /\ baseline' \in Navs
    <2>1. CASE units = NoUnits
      <3>1. SetBaseline
        BY <2>1 DEF Decide
      <3> QED BY <1>1, <1>2, <3>1, Fresh DEF Worth, Valued, Stamped
    <2>2. CASE units # NoUnits
      <3>1. UNCHANGED <<units, baseline>>
        BY <2>2 DEF Decide
      <3>2. Worth(E, P, cursor) /\ baseline \in Navs
        BY <1>1, <1>2, <2>2, HereFacts DEF Books, UnitsFit
      <3> QED BY <1>1, <3>1, <3>2 DEF Worth
    <2> QED BY <2>1, <2>2
  <1>6. ASSUME units' # NoUnits PROVE UnitsFit(E, P)'
    BY <1>1, <1>3, <1>5, <1>6 DEF UnitsFit
  <1>7. cursor' # None
    BY <1>1, <1>2, HereFacts, TimeFacts DEF None
  <1> QED BY <1>1, <1>4, <1>5, <1>6, <1>7 DEF Moves, Books

LEMMA Rebasing ==
    ASSUME NEW E, NEW P, Here(E, P),
           RebaseUnits \/ AcknowledgeManual \/ RebaseCursor
    PROVE  Moves(E, P)
  <1>1. CASE RebaseUnits
    <2>1. /\ UNCHANGED <<now, events, cursor, rows, through, seen,
                         seenPerformance, new, todo>>
          /\ pc = "rebase" /\ pc' = "acknowledge" /\ SetBaseline
      BY <1>1 DEF RebaseUnits, Goto, exchangeVars, localVars, snapshotVars
    <2>2. SnapshotOK(E, P)'
      BY <2>1, HereFacts DEF SnapshotOK, Stamped, Valued
    <2>3. Worth(E, P, through)' /\ baseline' \in Navs /\ units' # NoUnits
      BY <2>1, Fresh DEF Worth, Valued, Stamped
    <2> QED BY <2>1, <2>2, <2>3 DEF Moves, Books
  <1>2. CASE AcknowledgeManual
    <2>1. /\ UNCHANGED <<now, events, cursor, units, baseline, through, seen,
                         seenPerformance, new, todo>>
          /\ pc = "acknowledge" /\ pc' = "rebaseCursor"
          /\ \A t \in Times : rows'[t] # "absent" => rows[t] # "absent"
      BY <1>2 DEF AcknowledgeManual, Goto, Unresolved, exchangeVars, localVars,
          snapshotVars
    <2>2. SnapshotOK(E, P)'
      BY <2>1, HereFacts DEF SnapshotOK, Stamped, Valued
    <2>3. units # NoUnits /\ baseline \in Navs /\ Worth(E, P, through)'
      BY <2>1, HereFacts DEF Books, Worth
    <2> QED BY <2>1, <2>2, <2>3 DEF Moves, Books
  <1>3. CASE RebaseCursor
    <2>1. /\ UNCHANGED <<now, events, rows, units, baseline>>
          /\ pc = "rebaseCursor" /\ pc' = "idle" /\ cursor' = through
      BY <1>3 DEF RebaseCursor, Exit, exchangeVars
    <2>2. SnapshotOK(E, P)'
      BY <2>1 DEF SnapshotOK, Stamped, Valued
    <2>3. Worth(E, P, through) /\ baseline \in Navs
      BY <2>1, HereFacts DEF Books
    <2>4. Worth(E, P, cursor)'
      BY <2>1, <2>3 DEF Worth
    <2>5. \A t \in Times : rows[t] # "absent" => t <= through
      BY <2>1, HereFacts DEF SnapshotOK, Stamped
    <2>6. cursor' # None
      BY <2>1, HereFacts, TimeFacts DEF None
    <2>7. UnitsFit(E, P)'
      BY <2>1, <2>4, <2>5 DEF UnitsFit
    <2> QED BY <2>1, <2>2, <2>3, <2>6, <2>7 DEF Moves, Books
  <1> QED BY <1>1, <1>2, <1>3
-----------------------------------------------------------------------------
(* The steps of the account *)

(* The account moves: the same histories, one moment longer.                *)
Longer(E, P, F, Q) ==
    /\ F \in [0..MaxTime -> Nat] /\ Q \in [0..MaxTime -> Navs]
    /\ \A t \in 0..now : F[t] = E[t] /\ Q[t] = P[t]
    /\ F[now + 1] = equity' /\ Q[now + 1] = performance'

(* What both ways to move have in common.                                   *)
Moment ==
    /\ now < MaxTime /\ now' = now + 1
    /\ UNCHANGED <<ledgerVars, pc, localVars>>
    /\ pc \notin {"read", "rebaseRead"}
    /\ \A t \in Times : t <= now => events'[t] = events[t]

LEMMA MomentFacts ==
    ASSUME NEW E, NEW P, NEW F, NEW Q, Here(E, P), Longer(E, P, F, Q), Moment
    PROVE  SnapshotOK(F, Q)' /\ Books(F, Q)'
  <1>1. /\ UNCHANGED <<cursor, rows, units, baseline, pc, through, seen,
                       seenPerformance, new, todo>>
        /\ now' = now + 1 /\ pc \notin {"read", "rebaseRead"}
    BY DEF Moment, ledgerVars, localVars, snapshotVars
  <1>2. now \in 0..MaxTime /\ through \in 0..now /\ cursor \in 0..now \cup {None}
        /\ now \in Nat
    BY HereFacts, TimeFacts
  <1>3. \A t \in 0..now : F[t] = E[t] /\ Q[t] = P[t]
    BY DEF Longer
  <1>4. new \subseteq Times /\ todo \subseteq new
    BY DEF Here, TypeInv, TypeOK
  <1>5. \A t \in Times : t \in new \/ rows[t] # "absent" => t <= now
    <2>1. \A t \in Times : t > now => rows[t] = "absent" /\ t \notin new
      BY HereFacts
    <2> QED BY <1>2, <2>1, TimeFacts
  <1>6. \A t \in new : events'[t] = events[t]
    BY <1>4, <1>5 DEF Moment
  <1>7. ExternalOf(new)' = ExternalOf(new)
    BY <1>1, <1>6 DEF ExternalOf, Classify
  <1>8. Unresolved' = Unresolved
    BY <1>1, <1>5 DEF Unresolved, Moment, Classify
  <1>9. SnapshotOK(F, Q)'
    BY <1>1, <1>2, <1>3, <1>7, HereFacts DEF SnapshotOK, Stamped, Valued
  <1>10. \A s \in 0..now : Worth(F, Q, s)' <=> Worth(E, P, s)
    BY <1>1, <1>3 DEF Worth
  <1>11. ASSUME cursor # None, NEW t \in Times, t <= now
         PROVE  Hopeless(F, t)' <=> Hopeless(E, t)
    <2>1. t - 1 \in 0..now /\ cursor \in 0..now
      BY <1>2, <1>11, TimeFacts DEF Times
    <2>2. \A s \in cursor..(t - 1) : s \in 0..now
      BY <1>2, <2>1
    <2>3. \A s \in cursor..(t - 1) : F[s] = E[s]
      BY <1>3, <2>2
    <2>4. events'[t] = events[t] /\ F[t - 1] = E[t - 1]
      BY <1>3, <1>11, <2>1 DEF Moment
    <2> QED BY <1>1, <2>3, <2>4 DEF Hopeless, Classify, Flow
  <1>12. ASSUME cursor # None, UnitsFit(E, P) PROVE UnitsFit(F, Q)'
    <2>1. \A t \in Times : rows'[t] # "absent" /\ pc' # "advance" => t <= cursor'
      BY <1>1, <1>12 DEF UnitsFit
    <2>2. pc \in {"persist", "advance", "decide"} => Worth(F, Q, through)'
      BY <1>1, <1>2, <1>10, <1>12 DEF UnitsFit, Worth
    <2>3. pc = "reject" =>
              \E t \in new : Classify(events'[t]) = "manual_review"
      BY <1>6, <1>12 DEF UnitsFit
    <2>4. ASSUME pc = "apply" PROVE Halfway(F, Q)'
      <3>1. Halfway(E, P)
        BY <1>12, <2>4 DEF UnitsFit
      <3>2. \A u \in todo : u \in Times /\ u <= now
        BY <1>4, <1>5
      <3>3. CASE \E u \in todo : Hopeless(E, u)
        BY <1>1, <1>11, <1>12, <3>2, <3>3 DEF Halfway
      <3>4. CASE ~ \E u \in todo : Hopeless(E, u)
        <4>1. \A s \in cursor..through : s \in 0..now
          BY <1>2, <1>12
        <4>2. \A s \in cursor..through :
                  (\A u \in todo : s < u) =>
                      /\ F[s] > 0
                      /\ (\A t \in ExternalOf(new) \ todo : t <= s) =>
                             Worth(F, Q, s)'
          BY <1>3, <1>10, <3>1, <3>4, <4>1 DEF Halfway
        <4> QED BY <1>1, <1>7, <3>1, <3>4, <4>2 DEF Halfway
      <3> QED BY <3>3, <3>4
    <2>5. Stopped(E) => Stopped(F)'
      <3> SUFFICES ASSUME Stopped(E) PROVE Stopped(F)'
        OBVIOUS
      <3>1. PICK t \in Times : /\ t <= (IF pc \in Stamped THEN through ELSE now)
                               /\ rows[t] = "absent" /\ Hopeless(E, t)
        BY DEF Stopped
      <3>2. t <= now /\ t <= now + 1
        BY <1>2, <3>1, TimeFacts
      <3>3. t <= (IF pc \in Stamped THEN through ELSE now)'
        BY <1>1, <3>1, <3>2
      <3> QED BY <1>1, <1>11, <1>12, <3>1, <3>2, <3>3 DEF Stopped
    <2>6. Worth(E, P, cursor) => Worth(F, Q, cursor)'
      BY <1>1, <1>2, <1>10, <1>12 DEF Worth
    <2>7. pc \notin {"apply", "reject", "persist", "advance", "decide"} =>
              Worth(F, Q, cursor)' \/ Stopped(F)'
      BY <1>12, <2>5, <2>6 DEF UnitsFit
    <2> QED BY <1>1, <2>1, <2>2, <2>3, <2>4, <2>7 DEF UnitsFit
  <1>13. Worth(E, P, through) => Worth(F, Q, through)'
    BY <1>1, <1>2, <1>10 DEF Worth
  <1>14. Books(F, Q)'
    BY <1>1, <1>8, <1>12, <1>13, HereFacts DEF Books
  <1> QED BY <1>9, <1>14

LEMMA PathGrows ==
    ASSUME NEW E, NEW P, NEW F, NEW Q, Here(E, P), Longer(E, P, F, Q), Moment,
           \A t \in 0..now : t # now => points'[t] = points[t],
           events'[now + 1] # NoEvent =>
               /\ equity' = equity + Moved(events'[now + 1])
               /\ performance' = performance
               /\ LatestBefore(points', now + 1) = equity,
           Moved(events'[now + 1]) = 0 =>
               equity' * performance = equity * performance'
    PROVE  Path(F, Q)'
  <1>1. now \in 0..MaxTime /\ now \in Nat /\ now' = now + 1
        /\ now + 1 \in 0..MaxTime /\ now + 1 \in Times
    BY HereFacts, TimeFacts DEF Moment, Times
  <1>2. \A t \in 0..now : F[t] = E[t] /\ Q[t] = P[t]
    BY DEF Longer
  <1>3. E[now] = equity /\ P[now] = performance
    BY HereFacts
  <1>4. F[now + 1] = equity' /\ Q[now + 1] = performance'
    BY DEF Longer
  <1>5. ASSUME NEW t \in 1..(now + 1), events'[t] # NoEvent
        PROVE  /\ F[t] = F[t - 1] + Moved(events'[t])
               /\ Q[t] = Q[t - 1] /\ EquityBefore(t)' = F[t - 1]
    <2>1. CASE t = now + 1
      <3>1. t - 1 = now /\ F[now] = E[now] /\ Q[now] = P[now]
        BY <1>1, <1>2, <2>1
      <3>2. EquityBefore(t)' = LatestBefore(points', t)
        BY DEF EquityBefore
      <3> QED BY <1>3, <1>4, <1>5, <2>1, <3>1, <3>2
    <2>2. CASE t # now + 1
      <3>1. t \in 1..now /\ t \in 0..now /\ t - 1 \in 0..now /\ t - 1 # now
            /\ t \in Times /\ t <= now
        BY <1>1, <2>2, TimeFacts DEF Times
      <3>2. events'[t] = events[t]
        BY <3>1 DEF Moment
      <3>3. E[t] = E[t - 1] + Moved(events[t]) /\ P[t] = P[t - 1]
            /\ EquityBefore(t) = E[t - 1]
        BY <1>5, <3>1, <3>2, HereFacts DEF Path
      <3>4. \A u \in 0..(t - 1) : points'[u] = points[u]
        BY <1>1, <3>1
      <3>5. EquityBefore(t)' = EquityBefore(t)
        BY <3>1, <3>4, SameBefore DEF EquityBefore
      <3> QED BY <1>2, <3>1, <3>2, <3>3, <3>5
    <2> QED BY <2>1, <2>2
  <1>6. ASSUME NEW a \in 0..(now + 1), NEW b \in 0..(now + 1), a <= b,
               Quiet(a, b)'
        PROVE  F[b] * Q[a] = F[a] * Q[b]
    <2>1. \A t \in Times : a < t /\ t <= b => Moved(events'[t]) = 0
      BY <1>6 DEF Quiet
    <2>2. ASSUME NEW c \in 0..now, a <= c, c <= b PROVE E[c] * P[a] = E[a] * P[c]
      <3>1. a \in 0..now
        BY <1>1, <2>2
      <3>2. ASSUME NEW t \in Times, a < t, t <= c PROVE Moved(events[t]) = 0
        <4>1. t <= now /\ t <= b
          BY <1>1, <2>2, <3>2, TimeFacts
        <4> QED BY <2>1, <3>2, <4>1 DEF Moment
      <3>3. Quiet(a, c)
        BY <3>2 DEF Quiet
      <3> QED BY <2>2, <3>1, <3>3, HereFacts DEF Path
    <2>3. CASE b # now + 1
      <3>1. b \in 0..now /\ a \in 0..now
        BY <1>1, <1>6, <2>3
      <3>2. E[b] * P[a] = E[a] * P[b]
        BY <1>6, <2>2, <3>1
      <3> QED BY <1>2, <3>1, <3>2
    <2>4. CASE b = now + 1 /\ a = now + 1
      BY <2>4
    <2>5. CASE b = now + 1 /\ a # now + 1
      <3>1. a \in 0..now /\ now \in 0..now /\ a <= now /\ now <= b
        BY <1>1, <1>6, <2>5
      <3>2. E[now] * P[a] = E[a] * P[now]
        BY <2>2, <3>1
      <3>3. Moved(events'[now + 1]) = 0
        <4>1. a < now + 1
          BY <1>1, <3>1
        <4> QED BY <1>1, <1>6, <2>1, <2>5, <4>1
      <3> DEFINE e == equity
                 p == performance
                 f == F[now + 1]
                 q == Q[now + 1]
                 n == E[a]
                 k == P[a]
      <3>4. n * p = e * k
        BY <1>3, <3>2
      <3>5. f * p = e * q
        BY <1>4, <3>3
      <3>6. e \in Nat /\ p \in Nat \ {0} /\ f \in Nat /\ q \in Nat /\ n \in Nat
            /\ k \in Nat
        <4>1. a \in 0..MaxTime
          BY <1>1, <3>1, TimeFacts
        <4>2. e \in Nat /\ p \in Navs
          BY DEF Here, TypeInv, TypeOK
        <4>3. f \in Nat /\ q \in Navs
          BY <1>1 DEF Longer
        <4>4. n \in Nat /\ k \in Navs
          BY <4>1 DEF Here
        <4> QED BY <4>2, <4>3, <4>4, CashFlowsAssumption
      <3> HIDE DEF e, p, f, q, n, k
      <3>7. n * q = f * k
        BY <3>4, <3>5, <3>6, Carry
      <3>8. F[b] * Q[a] = f * k /\ F[a] * Q[b] = n * q
        BY <1>2, <2>5, <3>1 DEF f, k, n, q
      <3> QED BY <3>7, <3>8
    <2> QED BY <2>3, <2>4, <2>5
  <1>7. F[now'] = equity' /\ Q[now'] = performance'
    BY <1>1, <1>4
  <1> QED BY <1>1, <1>5, <1>6, <1>7 DEF Path

(* A transfer, and a change of the NAV of a unit.                           *)
LEMMA AccountMoves ==
    ASSUME NEW E, NEW P, Here(E, P), Transfer \/ ProfitOrLoss, TypeInv',
           ~disturbed'
    PROVE  \E h \in Histories : Account(h[1], h[2])'
  <1>1. now \in 0..MaxTime /\ now \in Nat
    BY HereFacts, TimeFacts
  <1>2. Tick
    BY DEF Transfer, ProfitOrLoss
  <1>3. /\ now < MaxTime /\ now' = now + 1
        /\ UNCHANGED <<ledgerVars, pc, localVars>>
        /\ pc \notin {"read", "rebaseRead"}
    BY <1>2 DEF Tick, Transfer, ProfitOrLoss, Unstable
  <1>4. now + 1 \in 0..MaxTime /\ now + 1 \in Times
    BY <1>1, <1>3, TimeFacts DEF Times
  <1>5. equity' \in Nat /\ performance' \in Navs
    BY DEF TypeInv, TypeOK
  <1>6. \E F, Q : Longer(E, P, F, Q)
    <2> DEFINE F == [E EXCEPT ![now + 1] = equity']
               Q == [P EXCEPT ![now + 1] = performance']
    <2>1. E \in [0..MaxTime -> Nat] /\ P \in [0..MaxTime -> Navs]
      BY DEF Here
    <2>2. \A t \in 0..now : t \in 0..MaxTime /\ t # now + 1
      BY <1>1, TimeFacts
    <2>3. Longer(E, P, F, Q)
      BY <1>4, <1>5, <2>1, <2>2 DEF Longer
    <2> QED BY <2>3
  <1> PICK F, Q : Longer(E, P, F, Q)
    BY <1>6
  <1>7. events \in [Times -> EventRecord] /\ points \in [0..MaxTime -> Nat \cup {None}]
        /\ equity \in Nat /\ performance \in Navs
    BY DEF Here, TypeInv, TypeOK
  <1>7a. \A t \in 0..now : t # now => points'[t] = points[t]
    <2>1. \A t \in 0..now : t \in 0..MaxTime
      BY <1>1, TimeFacts
    <2> QED BY <1>1, <1>2, <1>7, <2>1 DEF Tick
  <1>8. /\ Moment
        /\ \A t \in 0..now : t # now => points'[t] = points[t]
        /\ events'[now + 1] # NoEvent =>
               /\ equity' = equity + Moved(events'[now + 1])
               /\ performance' = performance
               /\ LatestBefore(points', now + 1) = equity
        /\ Moved(events'[now + 1]) = 0 =>
               equity' * performance = equity * performance'
    <2>1. CASE Transfer
      <3>1. PICK k \in Kinds, a \in Amounts :
                LET e == [kind |-> k, amount |-> a]
                IN  /\ events' = [events EXCEPT ![now + 1] = e]
                    /\ equity' = equity + Moved(e)
        BY <2>1 DEF Transfer
      <3> DEFINE e == [kind |-> k, amount |-> a]
      <3>2. LatestBefore(points', now + 1) = equity
        BY <2>1 DEF Transfer
      <3>3. /\ events' = [events EXCEPT ![now + 1] = e]
            /\ equity' = equity + Moved(e) /\ performance' = performance
        BY <2>1, <3>1 DEF Transfer
      <3> HIDE DEF e
      <3>4. events'[now + 1] = e
        BY <1>4, <1>7, <3>3
      <3>5. \A t \in Times : t <= now => events'[t] = events[t]
        BY <1>1, <1>7, <3>3, TimeFacts
      <3>6. \A t \in 0..now : t # now => points'[t] = points[t]
        BY <1>7a
      <3>7. Moved(e) = 0 => equity' = equity
        BY <1>7, <3>3
      <3> QED BY <1>3, <3>2, <3>3, <3>4, <3>5, <3>6, <3>7 DEF Moment
    <2>2. CASE ProfitOrLoss
      <3>1. PICK nav \in Navs \ {performance} :
                /\ (equity * nav) % performance = 0
                /\ equity' = (equity * nav) \div performance
                /\ performance' = nav
        BY <2>2 DEF ProfitOrLoss
      <3>2. UNCHANGED events
        BY <2>2 DEF ProfitOrLoss
      <3>3. events'[now + 1] = NoEvent
        BY <1>1, <1>4, <3>2, TimeFacts DEF Here, ReviewInv, SkipInv, Future
      <3>4. equity' * performance = equity * performance'
        <4> DEFINE worth == equity * nav
        <4>1. worth \in Nat /\ performance \in Nat \ {0}
          BY <1>7, CashFlowsAssumption
        <4>2. worth % performance = 0 /\ equity' = worth \div performance
          BY <3>1
        <4> HIDE DEF worth
        <4>3. worth = performance * equity'
          BY <4>1, <4>2, DivFacts
        <4>4. equity * nav = performance * equity'
          BY <4>3 DEF worth
        <4> QED BY <1>5, <3>1, <4>1, <4>4
      <3> QED BY <1>3, <1>7a, <3>2, <3>3, <3>4 DEF Moment
    <2> QED BY <2>1, <2>2
  <1>9. Path(F, Q)'
    BY <1>8, PathGrows
  <1>10. SnapshotOK(F, Q)' /\ Books(F, Q)'
    BY <1>8, MomentFacts
  <1>11. <<F, Q>> \in Histories
    BY DEF Longer, Histories
  <1>12. Account(<<F, Q>>[1], <<F, Q>>[2])'
    BY <1>9, <1>10 DEF Account
  <1> QED BY <1>11, <1>12
-----------------------------------------------------------------------------
LEMMA NavStep == NavInv /\ [Next]_vars => NavInv'
  <1> SUFFICES ASSUME NavInv, [Next]_vars PROVE NavInv'
    OBVIOUS
  <1>1. ReviewInv' /\ TypeInv'
    BY ReviewStep, TypeStep DEF NavInv, ReviewInv
  <1> SUFFICES ASSUME ~disturbed'
               PROVE  \E h \in Histories : Account(h[1], h[2])'
    BY <1>1 DEF NavInv
  <1>2. ~disturbed /\ ~RecordFlow /\ ~Crash
    <2>1. ~RecordFlow /\ ~Crash
      BY DEF RecordFlow, Crash
    <2>2. Transfer \/ ProfitOrLoss => ~disturbed
      BY DEF Transfer, ProfitOrLoss, Unstable
    <2>3. Transfer \/ ProfitOrLoss \/ UNCHANGED disturbed
      BY <2>1 DEF Next, ProcessStep, Run, Rebase, Record, Stamp, ReadEquity,
          InitializeCursor, BeginSync, FetchUpdates, HistoryMissing, ApplyFlow,
          FlowRefused, AllApplied, Reject, Persist, AdvanceCursor, Decide,
          RebaseUnits, AcknowledgeManual, RebaseCursor, Raise, vars, faultVars
    <2> QED BY <2>1, <2>2, <2>3
  <1>3. PICK h \in Histories : Account(h[1], h[2])
    BY <1>2 DEF NavInv
  <1>4. PICK E \in [0..MaxTime -> Nat], P \in [0..MaxTime -> Navs] : h = <<E, P>>
    BY <1>3 DEF Histories
  <1>5. Here(E, P)
    BY <1>3, <1>4 DEF Here, NavInv
  <1>6. ASSUME Moves(E, P), UNCHANGED exchangeVars
        PROVE  \E i \in Histories : Account(i[1], i[2])'
    <2>1. Path(E, P)'
      BY <1>5, <1>6, PathKept, HereFacts
    <2>2. Account(h[1], h[2])'
      BY <1>4, <1>6, <2>1 DEF Moves, Account
    <2> QED BY <2>2
  <1>7. CASE Transfer \/ ProfitOrLoss
    BY <1>1, <1>5, <1>7, AccountMoves
  <1>8. CASE Run \/ Rebase \/ Record \/ Stamp
    BY <1>5, <1>6, <1>8, Outside DEF Run, Rebase, Record, Stamp
  <1>9. CASE ReadEquity
    BY <1>5, <1>6, <1>9, Reading DEF ReadEquity
  <1>10. CASE InitializeCursor \/ BeginSync
    BY <1>5, <1>6, <1>10, Beginning DEF InitializeCursor, BeginSync
  <1>11. CASE FetchUpdates
    BY <1>5, <1>6, <1>11, Fetching DEF FetchUpdates
  <1>12. CASE HistoryMissing
    BY <1>5, <1>6, <1>12, Missing DEF HistoryMissing
  <1>13. CASE ApplyFlow
    BY <1>5, <1>6, <1>13, Applying DEF ApplyFlow
  <1>14. CASE FlowRefused
    BY <1>5, <1>6, <1>14, Refusing DEF FlowRefused
  <1>15. CASE AllApplied
    BY <1>5, <1>6, <1>15, Finishing DEF AllApplied
  <1>16. CASE Reject
    BY <1>5, <1>6, <1>16, Rejecting DEF Reject
  <1>17. CASE Persist
    BY <1>5, <1>6, <1>17, Persisting DEF Persist
  <1>18. CASE AdvanceCursor
    BY <1>5, <1>6, <1>18, Advancing DEF AdvanceCursor
  <1>19. CASE Decide
    BY <1>5, <1>6, <1>19, Deciding DEF Decide
  <1>20. CASE RebaseUnits \/ AcknowledgeManual \/ RebaseCursor
    BY <1>5, <1>6, <1>20, Rebasing
    DEF RebaseUnits, AcknowledgeManual, RebaseCursor
  <1>21. CASE Raise
    BY <1>5, <1>6, <1>21, Raising DEF Raise
  <1>22. CASE UNCHANGED vars
    <2>1. Moves(E, P)
      <3>1. UNCHANGED <<now, events, cursor, rows, units, baseline, pc, through,
                        seen, seenPerformance, new, todo>>
        BY <1>22 DEF vars, exchangeVars, ledgerVars, localVars, snapshotVars
      <3>2. SnapshotOK(E, P)'
        BY <1>5, <3>1, HereFacts DEF SnapshotOK, ExternalOf
      <3>3. UnitsFit(E, P) => UnitsFit(E, P)'
        BY <3>1, UnitsStay DEF UnitsFit, Halfway, Stopped, ExternalOf, Worth
      <3>4. Books(E, P)'
        BY <1>5, <3>1, <3>3, HereFacts, UnitsStay DEF Books, Worth
      <3> QED BY <3>2, <3>4 DEF Moves
    <2> QED BY <1>6, <1>22, <2>1 DEF vars
  <1> QED
    BY <1>2, <1>7, <1>8, <1>9, <1>10, <1>11, <1>12, <1>13, <1>14, <1>15,
        <1>16, <1>17, <1>18, <1>19, <1>20, <1>21, <1>22
    DEF Next, ProcessStep

(* Whatever was deposited and withdrawn between, the multiplier a decision  *)
(* sizes by is the performance since the baseline.                          *)
THEOREM MultiplierIsPerformance == Spec => []NoFakePerformance
  <1>1. NavInv => NoFakePerformance
    <2> SUFFICES ASSUME NavInv, pc = "decide", units # NoUnits, ~disturbed
                 PROVE  units.n * seenPerformance = seen * units.d * baseline
      BY DEF NoFakePerformance
    <2>1. PICK h \in Histories : Account(h[1], h[2])
      BY DEF NavInv
    <2>2. Unresolved = {}
      BY DEF NavInv, ReviewInv, NothingWaits
    <2>3. Worth(h[1], h[2], through)
      BY <2>1, <2>2 DEF Account, Books, UnitsFit
    <2>4. seen = h[1][through] /\ seenPerformance = h[2][through]
      BY <2>1 DEF Account, SnapshotOK, Valued, Stamped
    <2> QED BY <2>3, <2>4 DEF Worth, Fits
  <1> QED
    BY NavInit, NavStep, <1>1, PTL DEF Spec
=============================================================================
