----------------------------- MODULE CashFlows -----------------------------
(***************************************************************************)
(* Unitized compounding: CashFlowLedger.sync and the sizing ledger it      *)
(* updates (cashflows.py, sizing.py), as --live-data, --rebase-compounding *)
(* and --record-flow of cli.py drive them, against an account whose equity *)
(* moves by profit and loss and by deposits and withdrawals.               *)
(*                                                                         *)
(* One process runs at a time.  Every ledger transaction and every call to *)
(* the exchange is a step of its own.  A tick is one change of the account;*)
(* profit and loss takes the NAV of a unit from one value of Navs to       *)
(* another, and equity with it.                                            *)
(***************************************************************************)
EXTENDS Integers, FiniteSetsExt

CONSTANTS
    StartEquity,      \* equity before the first event
    StartNav,         \* true NAV of a unit before the first event
    Navs,             \* true NAVs of a unit that occur
    Amounts,          \* sizes of the transfers made
    Kinds,            \* ledger event types that occur
    HistoryReliable,  \* the portfolio history has a point of every tick
    SnapshotAtomic,   \* nothing happens between time stamp and equity read
    MaxGap,           \* YOLO_CASHFLOW_LOOKBACK_DAYS, in ticks
    MaxTime,          \* bound: ticks
    MaxUnitized,      \* bound: runs stop once an event was unitized so often
    MaxFaults         \* bound: crashes and flows the operator records

External == {"deposit", "withdraw", "transferIn", "transferOut"}
System == {"liquidation", "rewardsClaim"}
Manual == {"spotTransfer", "selfTransfer"}

ASSUME CashFlowsAssumption ==
    /\ StartEquity \in Nat
    /\ Navs \subseteq Nat \ {0}
    /\ StartNav \in Navs
    /\ Amounts \subseteq Nat
    /\ Kinds \subseteq External \cup System \cup Manual
    /\ HistoryReliable \in BOOLEAN
    /\ SnapshotAtomic \in BOOLEAN
    /\ MaxGap \in Nat
    /\ MaxTime \in Nat
    /\ MaxUnitized \in Nat
    /\ MaxFaults \in Nat

Times == 1..MaxTime
None == -1          \* no cursor row, no history point

VARIABLES
    (* the account, as the exchange keeps it *)
    now,            \* time of the latest event
    events,         \* non-funding ledger: time -> [kind, amount] or NoEvent
    points,         \* portfolio history: time -> account value or None
    equity,
    performance,    \* the true NAV of a unit
    (* the SQLite ledger *)
    cursor,         \* cashflow_sync_state.last_time_ms, or None
    rows,           \* cashflow_events.applied per event, or "absent"
    units,          \* sizing_state.units as a ratio, or NoUnits
    (* the process *)
    pc,
    through,        \* pulled_at_utc of the account snapshot
    seen,           \* account value of the account snapshot
    new,            \* new_rows
    todo,           \* the external_rows still to be unitized
    (* history variables *)
    baseline,       \* performance when the units were last set to equity
    seenPerformance,\* performance when the snapshot was read
    cursorStart,    \* time the cursor was initialized with, or None
    unitized,       \* how often each event changed the units
    disturbed,      \* a crash, a recorded flow, an event whose history point
                    \* misleads, or a change between time stamp and equity read
    faults          \* crashes and recorded flows

exchangeVars == <<now, events, points, equity, performance>>
ledgerVars == <<cursor, rows, units, baseline, cursorStart, unitized>>
snapshotVars == <<through, seen, seenPerformance>>
localVars == <<snapshotVars, new, todo>>
faultVars == <<disturbed, faults>>
vars == <<exchangeVars, ledgerVars, pc, localVars, faultVars>>

NoEvent == [kind |-> "none", amount |-> 0]
EventRecord == [kind : Kinds, amount : Amounts] \cup {NoEvent}

\* Ratios in lowest terms; units are never zero while there is a state row.
Ratio(n, d) ==
    LET g == CHOOSE k \in 1..n : /\ n % k = 0 /\ d % k = 0
                                 /\ \A m \in (k + 1)..n : n % m # 0 \/ d % m # 0
    IN  [n |-> n \div g, d |-> d \div g]
NoUnits == [n |-> 0, d |-> 1]

TypeOK ==
    /\ now \in 0..MaxTime
    /\ events \in [Times -> EventRecord]
    /\ points \in [0..MaxTime -> Nat \cup {None}]
    /\ equity \in Nat
    /\ performance \in Navs
    /\ baseline \in Navs \cup {0} /\ seenPerformance \in Navs \cup {0}
    /\ cursor \in 0..MaxTime \cup {None}
    /\ cursorStart \in 0..MaxTime \cup {None}
    /\ rows \in [Times -> {"absent", "unapplied", "applied", "acknowledged"}]
    /\ units \in [n : Nat, d : Nat \ {0}]
    /\ pc \in {"idle", "stamp", "read", "sync", "fetch", "apply", "reject",
               "persist", "advance", "decide", "rebaseStamp", "rebaseRead",
               "rebase", "acknowledge", "rebaseCursor", "recordRead", "record"}
    /\ through \in 0..MaxTime
    /\ seen \in Nat
    /\ new \subseteq Times /\ todo \subseteq new
    /\ unitized \in [Times -> Nat]
    /\ disturbed \in BOOLEAN
    /\ faults \in 0..MaxFaults

Init ==
    /\ now = 0
    /\ events = [t \in Times |-> NoEvent]
    /\ points = [t \in 0..MaxTime |-> None]
    /\ equity = StartEquity
    /\ performance = StartNav /\ baseline = 0 /\ seenPerformance = 0
    /\ cursor = None /\ cursorStart = None
    /\ rows = [t \in Times |-> "absent"]
    /\ units = NoUnits
    /\ pc = "idle"
    /\ through = 0 /\ seen = 0
    /\ new = {} /\ todo = {}
    /\ unitized = [t \in Times |-> 0]
    /\ disturbed = FALSE
    /\ faults = 0

Goto(p) == pc' = p
Exit == /\ pc' = "idle"
        /\ through' = 0 /\ seen' = 0 /\ seenPerformance' = 0
        /\ new' = {} /\ todo' = {}

-----------------------------------------------------------------------------
(* classify: what an event means, and the flow it stands for *)

Classify(e) ==
    IF e.kind \in External THEN "external_flow"
    ELSE IF e.kind \in System THEN "strategy_pnl_or_system"
    ELSE "manual_review"

Flow(e) ==
    IF e.kind \in {"deposit", "transferIn"} THEN e.amount
    ELSE IF e.kind \in {"withdraw", "transferOut"} THEN -e.amount
    ELSE 0

\* Faulty: a point taken at the time of the event already contains the flow.
EquityAt(t) ==
    LET earlier == {u \in 0..t : points[u] # None}
    IN  IF earlier = {} THEN None ELSE points[Max(earlier)]

\* The latest account value a history has from before time t, or None.
LatestBefore(history, t) ==
    LET earlier == {u \in 0..(t - 1) : history[u] # None}
    IN  IF earlier = {} THEN None ELSE history[Max(earlier)]

EquityBefore(t) == LatestBefore(points, t)

\* What an event does to equity; what cannot be classified takes money out.
Moved(e) == IF Classify(e) = "manual_review" THEN -e.amount ELSE Flow(e)

Unresolved == {t \in Times : /\ rows[t] = "unapplied"
                             /\ Classify(events[t]) = "manual_review"}

-----------------------------------------------------------------------------
(* The account snapshot: the time stamp is taken before the value is read *)

Run == pc = "idle" /\ (\A t \in Times : unitized[t] < MaxUnitized)
       /\ Goto("stamp")
       /\ UNCHANGED <<exchangeVars, ledgerVars, localVars, faultVars>>

Rebase == pc = "idle" /\ Goto("rebaseStamp")
          /\ UNCHANGED <<exchangeVars, ledgerVars, localVars, faultVars>>

\* The time of this snapshot is not used.
Record == pc = "idle" /\ faults < MaxFaults /\ Goto("recordRead")
          /\ UNCHANGED <<exchangeVars, ledgerVars, localVars, faultVars>>

Stamp ==
    /\ pc \in {"stamp", "rebaseStamp"}
    /\ through' = now
    /\ Goto(IF pc = "stamp" THEN "read" ELSE "rebaseRead")
    /\ UNCHANGED <<exchangeVars, ledgerVars, seen, seenPerformance, new, todo,
                   faultVars>>

ReadEquity ==
    /\ seen' = equity
    /\ seenPerformance' = performance
    /\ \/ pc = "read" /\ Goto("sync")
       \/ pc = "rebaseRead" /\ Goto("rebase")
       \/ pc = "recordRead" /\ Goto("record")
    /\ UNCHANGED <<exchangeVars, ledgerVars, through, new, todo, faultVars>>

-----------------------------------------------------------------------------
(* sync *)

InitializeCursor ==
    /\ pc = "sync"
    /\ Unresolved = {}
    /\ cursor = None
    /\ cursor' = through
    /\ cursorStart' = through
    /\ Goto("decide")
    /\ UNCHANGED <<exchangeVars, rows, units, baseline, unitized, localVars,
                   faultVars>>

\* Faulty: earlier events that wait for review are not looked at.
BeginUnreviewed ==
    /\ pc = "sync"
    /\ cursor # None
    /\ through - (cursor + 1) <= MaxGap
    /\ Goto("fetch")
    /\ UNCHANGED <<exchangeVars, ledgerVars, localVars, faultVars>>

BeginSync ==
    /\ pc = "sync"
    /\ Unresolved = {}
    /\ cursor # None
    /\ through - (cursor + 1) <= MaxGap
    /\ Goto("fetch")
    /\ UNCHANGED <<exchangeVars, ledgerVars, localVars, faultVars>>

\* Which events of cursor+1..through have no row yet, and what follows.
FetchUpdates ==
    /\ pc = "fetch"
    /\ LET fetched == {t \in (cursor + 1)..through :
                          events[t] # NoEvent /\ rows[t] = "absent"}
           external == {t \in fetched :
                          Classify(events[t]) = "external_flow"}
           manual == {t \in fetched : Classify(events[t]) = "manual_review"}
       IN  /\ new' = fetched
           /\ todo' = IF manual = {} THEN external ELSE {}
           /\ Goto(IF manual # {} THEN "reject"
                   ELSE IF external # {} THEN "apply" ELSE "persist")
    /\ UNCHANGED <<exchangeVars, ledgerVars, snapshotVars, faultVars>>

NextFlow == Min(todo)

\* No point before the event, or a worthless account: give the batch up.
HistoryMissing ==
    /\ pc = "apply"
    /\ todo # {}
    /\ EquityBefore(NextFlow) <= 0
    /\ Goto("reject")
    /\ UNCHANGED <<exchangeVars, ledgerVars, localVars, faultVars>>

\* record_external_flow: issue or redeem units at the pre-flow NAV per unit.
ApplyFlow ==
    /\ pc = "apply"
    /\ todo # {}
    /\ LET t == NextFlow
           before == EquityBefore(t)
           after == before + Flow(events[t])
       IN  /\ before > 0 /\ after > 0
           /\ after # before
           /\ units # NoUnits
           /\ units' = Ratio(units.n * after, units.d * before)
           /\ unitized' = [unitized EXCEPT ![t] = @ + 1]
           /\ todo' = todo \ {t}
    /\ UNCHANGED <<exchangeVars, cursor, rows, baseline, cursorStart, pc,
                   snapshotVars, new, faultVars>>

\* It raises; nothing of the batch is persisted.
FlowRefused ==
    /\ pc = "apply"
    /\ todo # {}
    /\ LET before == EquityBefore(NextFlow)
       IN  /\ before > 0
           /\ \/ Flow(events[NextFlow]) = 0
              \/ before + Flow(events[NextFlow]) <= 0
              \/ units = NoUnits
    /\ Exit
    /\ UNCHANGED <<exchangeVars, ledgerVars, faultVars>>

AllApplied ==
    /\ pc = "apply"
    /\ todo = {}
    /\ Goto("persist")
    /\ UNCHANGED <<exchangeVars, ledgerVars, localVars, faultVars>>

\* Faulty: a rejected batch is stored as applied.
AddApplied(external) ==
    rows' = [t \in Times |->
                IF t \notin new \/ rows[t] # "absent" THEN rows[t]
                ELSE IF Classify(events[t]) = "external_flow" THEN "applied"
                ELSE "unapplied"]

AddRows(external) ==
    rows' = [t \in Times |->
                IF t \notin new \/ rows[t] # "absent" THEN rows[t]
                ELSE IF Classify(events[t]) = "external_flow" THEN external
                ELSE "unapplied"]

\* Persist the batch unapplied and raise.
Reject ==
    /\ pc = "reject"
    /\ AddRows("unapplied")
    /\ Exit
    /\ UNCHANGED <<exchangeVars, cursor, units, baseline, cursorStart,
                   unitized, faultVars>>

Persist ==
    /\ pc = "persist"
    /\ AddRows("applied")
    /\ Goto("advance")
    /\ UNCHANGED <<exchangeVars, cursor, units, baseline, cursorStart,
                   unitized, localVars, faultVars>>

\* Faulty: the cursor is taken for the next time to fetch.
AdvancePast ==
    /\ pc = "advance"
    /\ cursor' = through + 1
    /\ Goto("decide")
    /\ UNCHANGED <<exchangeVars, rows, units, baseline, cursorStart, unitized,
                   localVars, faultVars>>

AdvanceCursor ==
    /\ pc = "advance"
    /\ cursor' = through
    /\ Goto("decide")
    /\ UNCHANGED <<exchangeVars, rows, units, baseline, cursorStart, unitized,
                   localVars, faultVars>>

-----------------------------------------------------------------------------
(* decision, rebase and the flow an operator records *)

SetBaseline ==
    /\ seen > 0
    /\ units' = [n |-> seen, d |-> 1]
    /\ baseline' = seenPerformance

\* The first decision makes the account value the baseline; every decision
\* then sizes the run by seen / units.
Decide ==
    /\ pc = "decide"
    /\ IF units = NoUnits THEN SetBaseline
       ELSE seen > 0 /\ UNCHANGED <<units, baseline>>
    /\ Exit
    /\ UNCHANGED <<exchangeVars, cursor, rows, cursorStart, unitized, faultVars>>

RebaseUnits ==
    /\ pc = "rebase"
    /\ SetBaseline
    /\ Goto("acknowledge")
    /\ UNCHANGED <<exchangeVars, cursor, rows, cursorStart, unitized,
                   localVars, faultVars>>

AcknowledgeManual ==
    /\ pc = "acknowledge"
    /\ rows' = [t \in Times |->
                   IF t \in Unresolved THEN "acknowledged" ELSE rows[t]]
    /\ Goto("rebaseCursor")
    /\ UNCHANGED <<exchangeVars, cursor, units, baseline, cursorStart,
                   unitized, localVars, faultVars>>

RebaseCursor ==
    /\ pc = "rebaseCursor"
    /\ cursor' = through
    /\ cursorStart' = through
    /\ Exit
    /\ UNCHANGED <<exchangeVars, rows, units, baseline, unitized, faultVars>>

\* --record-flow: the flow is taken for part of the equity just read.  It
\* leaves no row, looks at none and does not move the cursor.
RecordFlow ==
    /\ pc = "record"
    /\ units # NoUnits
    /\ \E a \in Amounts, sign \in {1, -1} :
           LET before == seen - sign * a
           IN  /\ before > 0 /\ seen > 0
               /\ before # seen
               /\ units' = Ratio(units.n * seen, units.d * before)
    /\ disturbed' = TRUE
    /\ faults' = faults + 1
    /\ Exit
    /\ UNCHANGED <<exchangeVars, cursor, rows, baseline, cursorStart, unitized>>

-----------------------------------------------------------------------------
(* Failures *)

\* An exception before anything was written: a failed request, unresolved
\* manual events, a gap too long, a non-positive account value, an
\* amount that cannot be a flow.
Raise ==
    /\ \/ pc \in {"stamp", "read", "sync", "fetch", "rebaseStamp",
                  "rebaseRead", "rebase", "recordRead", "record"}
       \/ pc = "decide" /\ seen = 0
       \/ pc = "apply" /\ todo = {t \in new : Classify(events[t]) = "external_flow"}
    /\ Exit
    /\ UNCHANGED <<exchangeVars, ledgerVars, faultVars>>

Crash ==
    /\ pc # "idle"
    /\ faults < MaxFaults
    /\ faults' = faults + 1
    /\ disturbed' = TRUE
    /\ Exit
    /\ UNCHANGED <<exchangeVars, ledgerVars>>

-----------------------------------------------------------------------------
(* The account *)

\* The portfolio history samples the account when it likes.
Tick ==
    /\ now < MaxTime
    /\ SnapshotAtomic => pc \notin {"read", "rebaseRead"}
    /\ now' = now + 1
    /\ \/ points' = [points EXCEPT ![now] = equity]
       \/ ~HistoryReliable /\ UNCHANGED points
    /\ UNCHANGED <<ledgerVars, pc, localVars, faults>>

Unstable == disturbed \/ pc \in {"read", "rebaseRead"}

\* A transfer.  The latest point before it may be older than the last profit,
\* and then it is not the equity the transfer changed.
Transfer ==
    /\ Tick
    /\ \E k \in Kinds, a \in Amounts :
        LET e == [kind |-> k, amount |-> a]
        IN  /\ equity + Moved(e) >= 0
            /\ events' = [events EXCEPT ![now + 1] = e]
            /\ equity' = equity + Moved(e)
    /\ disturbed' = (Unstable \/ LatestBefore(points', now + 1) # equity)
    /\ UNCHANGED performance

ProfitOrLoss ==
    /\ Tick
    /\ disturbed' = Unstable
    /\ equity > 0
    /\ \E nav \in Navs \ {performance} :
        /\ (equity * nav) % performance = 0
        /\ equity' = (equity * nav) \div performance
        /\ performance' = nav
    /\ UNCHANGED events

-----------------------------------------------------------------------------
ProcessStep ==
    \/ Stamp \/ ReadEquity
    \/ InitializeCursor \/ BeginSync \/ FetchUpdates
    \/ HistoryMissing \/ ApplyFlow \/ FlowRefused \/ AllApplied
    \/ Reject \/ Persist \/ AdvanceCursor
    \/ Decide \/ RebaseUnits \/ AcknowledgeManual \/ RebaseCursor
    \/ RecordFlow \/ Raise

Next == Run \/ Rebase \/ Record \/ ProcessStep \/ Crash \/ Transfer \/ ProfitOrLoss

Spec == Init /\ [][Next]_vars

=============================================================================
