----------------------------- MODULE Execution -----------------------------
(***************************************************************************)
(* Live execution of one rebalance run: execute_run of execution.py, the   *)
(* rows it keeps through PreLiveLedger (prelive.py), and the exchange it   *)
(* talks to.  One process at a time runs; it may crash between any two     *)
(* ledger transactions or exchange calls and be started again.             *)
(*                                                                         *)
(* Quantities are whole lots, so the 0.51-lot tolerance of the code is     *)
(* equality.  A price only matters through the number of lots it makes     *)
(* smaller than the minimum order ("dust"), so a price IS that number.     *)
(***************************************************************************)
EXTENDS Integers, Sequences, FiniteSetsExt

CONSTANTS
    Tickers,            \* coins the account may hold
    Current,            \* [Tickers -> Int], position when the plan was built
    Destination,        \* position wanted, per ticker of the run's target set
    Plan,               \* the intents, in the order intents_for_run returns
    DustLots,           \* the prices a quote can take, as lots that are dust
    EvenPrices,         \* those at which one lot more is just a minimum order
    MaxReprices,        \* YOLO_EXECUTION_MAX_REPRICES
    DeadmanRequired,    \* YOLO_DEADMAN_REQUIRED
    MaxStarts,          \* bound: times the command is started
    MaxLost,            \* bound: placements accepted but never recorded
    MaxManual           \* bound: trades made on the account by someone else

Intents == 1..Len(Plan)
MaxAttempts == 1 + MaxReprices
AttemptNos == 0..MaxReprices
Cloids == Intents \X AttemptNos     \* base CLOID, or the one of a reprice

Sides == {"BUY", "SELL"}
IntentRecord == [ticker : Tickers, side : Sides, quantity : Nat \ {0},
                 reduceOnly : BOOLEAN, closes : BOOLEAN, refDust : Nat]

ASSUME PlanAssumption ==
    /\ Plan \in Seq(IntentRecord)
    /\ DOMAIN Destination \subseteq Tickers
    /\ \A i \in Intents : Plan[i].ticker \in DOMAIN Destination
    /\ \A i, j \in Intents : i < j /\ Plan[j].reduceOnly => Plan[i].reduceOnly
ASSUME ConstantsAssumption ==
    /\ Current \in [Tickers -> Int]
    /\ DustLots \subseteq Nat
    /\ EvenPrices \subseteq DustLots
    /\ MaxReprices \in Nat
    /\ DeadmanRequired \in BOOLEAN
    /\ MaxStarts \in Nat
    /\ MaxLost \in Nat
    /\ MaxManual \in Nat

Sign(i) == IF Plan[i].side = "BUY" THEN 1 ELSE -1
ExactClose(i) == Plan[i].reduceOnly /\ Plan[i].closes
AbsVal(x) == IF x < 0 THEN -x ELSE x

(* What build_alo_intents leaves of a plan: no leg below the minimum order  *)
(* but exact closes; one leg of a ticker at most is not an exact close;     *)
(* what its legs lack of the target is an opening leg below the minimum     *)
(* order; a target of zero is only reached by exact closes.                 *)
LegsOn(t) == {i \in Intents : Plan[i].ticker = t}
LeftOut(t) ==
    Destination[t] - (Current[t] +
        MapThenSumSet(LAMBDA i : Sign(i) * Plan[i].quantity, LegsOn(t)))

ASSUME LegsAssumption ==
    \A t \in DOMAIN Destination :
        /\ Destination[t] \in Int
        /\ \A i \in LegsOn(t) : ExactClose(i) \/ Plan[i].refDust < Plan[i].quantity
        /\ \A i, j \in LegsOn(t) : i = j \/ ExactClose(i) \/ ExactClose(j)
        /\ LeftOut(t) # 0 \/ Destination[t] = 0 =>
               \A i \in LegsOn(t) : ExactClose(i)
        /\ Destination[t] = 0 => LeftOut(t) = 0

VARIABLES
    (* the SQLite ledger, which survives a crash *)
    lock,           \* this run owns the execution lock of the day
    session,        \* execution_sessions.status, or "none"
    transmitted,    \* rows with transmitted = 1: the run (0) and its intents
    intentStatus,   \* trade_intents.status
    attempt,        \* execution_attempts, per CLOID
    ledgerQty,      \* sum of execution_fills, per intent
    rebalanced,     \* the signal snapshot is marked rebalanced
    (* the exchange *)
    order,          \* what orderStatus and the fill feed know, per CLOID
    position,       \* live positions
    deadman,        \* the scheduled cancel
    (* the process *)
    pc, phase,      \* where execute_run is; phase: "reconcile" or "live"
    cur, no,        \* the intent and the attempt number being worked on
    confirmed,      \* confirmed_filled
    finalStatus,    \* final_status
    response,       \* what place_alo returned
    deadmanArmed,   \* deadman_armed
    failed,         \* execution_error is not None
    (* counters that bound the model *)
    starts, lost, manual

ledgerVars == <<lock, session, transmitted, intentStatus, attempt, ledgerQty,
                rebalanced>>
exchangeVars == <<order, position, deadman>>
intentVars == <<phase, cur, no, confirmed, finalStatus, response>>
processVars == <<pc, intentVars, deadmanArmed, failed>>
boundVars == <<starts, lost, manual>>
vars == <<ledgerVars, exchangeVars, processVars, boundVars>>

-----------------------------------------------------------------------------
(* Rows *)

\* Faulty: a canceled attempt counts as one that was never sent.
PreparedOrCanceled == {"prepared", "abandoned", "dust", "canceled"}

Prepared == {"prepared", "abandoned", "dust"}       \* transmitted_at_utc NULL
WithOid == {"open", "filled", "canceled"}           \* exchange_oid is known
Sent == WithOid \cup {"rejected"}
AttemptRecord == [status : {"absent"} \cup Prepared \cup Sent,
                  quantity : Nat, dust : Nat, booked : Nat]
NoAttempt == [status |-> "absent", quantity |-> 0, dust |-> 0, booked |-> 0]

Terminal == {"filled", "canceled"}
OrderRecord == [status : {"absent", "open"} \cup Terminal,
                quantity : Nat, filled : Nat, feed : Nat]
NoOrder == [status |-> "absent", quantity |-> 0, filled |-> 0, feed |-> 0]

IntentStatuses == {"planned", "submitted", "filled", "dust", "unfilled",
                   "rejected"}
Replies == {"none", "open", "filled", "badAlo", "rejected"}

TryPcs == {"reconcile", "query", "cancel", "await", "sync", "attempt",
           "check", "send", "markRun", "markIntent", "record", "refuse",
           "settle", "postcheck", "archive"}
Pcs == {"idle", "snapshot", "arm", "session", "except", "disarm"} \cup TryPcs

LedgerTypeOK ==
    /\ lock \in BOOLEAN
    /\ session \in {"none", "running", "complete", "attention"}
    /\ transmitted \in SUBSET (Intents \cup {0})
    /\ intentStatus \in [Intents -> IntentStatuses]
    /\ attempt \in [Cloids -> AttemptRecord]
    /\ ledgerQty \in [Intents -> Nat]
    /\ rebalanced \in BOOLEAN

ExchangeTypeOK ==
    /\ order \in [Cloids -> OrderRecord]
    /\ position \in [Tickers -> Int]
    /\ deadman \in {"off", "armed", "early", "cleared"}

ProcessTypeOK ==
    /\ pc \in Pcs
    /\ phase \in {"reconcile", "live"}
    /\ cur \in 1..(Len(Plan) + 1)
    /\ no \in 0..MaxAttempts
    /\ confirmed \in Nat
    /\ finalStatus \in IntentStatuses
    /\ response \in Replies
    /\ deadmanArmed \in BOOLEAN
    /\ failed \in BOOLEAN

BoundTypeOK ==
    /\ starts \in 0..MaxStarts
    /\ lost \in 0..MaxLost
    /\ manual \in 0..MaxManual

TypeOK == LedgerTypeOK /\ ExchangeTypeOK /\ ProcessTypeOK /\ BoundTypeOK

Init ==
    /\ lock = FALSE
    /\ session = "none"
    /\ transmitted = {}
    /\ intentStatus = [i \in Intents |-> "planned"]
    /\ attempt = [c \in Cloids |-> NoAttempt]
    /\ ledgerQty = [i \in Intents |-> 0]
    /\ rebalanced = FALSE
    /\ order = [c \in Cloids |-> NoOrder]
    /\ position = Current
    /\ deadman = "off"
    /\ pc = "idle"
    /\ phase = "reconcile"
    /\ cur = 1
    /\ no = 0
    /\ confirmed = 0
    /\ finalStatus = "planned"
    /\ response = "none"
    /\ deadmanArmed = FALSE
    /\ failed = FALSE
    /\ starts = 0
    /\ lost = 0
    /\ manual = 0

-----------------------------------------------------------------------------
(* Helpers of the process *)

Cloid == <<cur, no>>

\* Faulty: what is already booked is not subtracted.
RemainingWhole == Plan[cur].quantity

Remaining == IF ledgerQty[cur] < Plan[cur].quantity
             THEN Plan[cur].quantity - ledgerQty[cur] ELSE 0

\* The process is gone: its local variables are forgotten.
Exit ==
    /\ pc' = "idle"
    /\ phase' = "reconcile" /\ cur' = 1 /\ no' = 0 /\ confirmed' = 0
    /\ finalStatus' = "planned" /\ response' = "none"
    /\ deadmanArmed' = FALSE /\ failed' = FALSE

Goto(p) == pc' = p /\ UNCHANGED <<intentVars, deadmanArmed, failed>>

NextAttemptNo(p) ==
    /\ pc' = p
    /\ no' = no + 1
    /\ UNCHANGED <<phase, cur, confirmed, finalStatus, response, deadmanArmed,
                   failed>>

\* Begin work on intent i: nothing reconciled yet, its own attempts first.
BeginIntent(i) ==
    /\ cur' = i
    /\ pc' = IF i <= Len(Plan) THEN "reconcile" ELSE "postcheck"
    /\ phase' = "reconcile" /\ no' = 0 /\ confirmed' = 0
    /\ finalStatus' = IF i <= Len(Plan) THEN intentStatus[i] ELSE "planned"
    /\ response' = "none"

SetAttempt(status) == attempt' = [attempt EXCEPT ![Cloid].status = status]

-----------------------------------------------------------------------------
(* Entry: guards, lock, snapshot, dead-man switch, session *)

Enter ==
    /\ pc = "idle"
    /\ starts < MaxStarts
    /\ session # "complete"
    /\ lock' = TRUE
    /\ starts' = starts + 1
    /\ Goto("snapshot")
    /\ UNCHANGED <<session, transmitted, intentStatus, attempt, ledgerQty,
                   rebalanced, exchangeVars, lost, manual>>

\* --live-data: the health gate lets it through only while no lock exists.
StartFresh == ~lock /\ Enter
\* --resume-execution
StartResume == (session # "none" \/ lock) /\ Enter

Orphans == {t \in Tickers \ DOMAIN Destination : position[t] # 0}

SnapshotOk ==
    /\ pc = "snapshot"
    /\ Orphans = {}
    /\ Goto(IF Plan = <<>> THEN "session" ELSE "arm")
    /\ UNCHANGED <<ledgerVars, exchangeVars, boundVars>>

\* Outside the try block: neither the lock nor the session is touched.
SnapshotFails ==
    /\ pc = "snapshot"
    /\ Exit
    /\ UNCHANGED <<ledgerVars, exchangeVars, boundVars>>

\* Faulty: the schedule never reaches the exchange.
ArmNothing ==
    /\ pc = "arm"
    /\ deadmanArmed' = TRUE
    /\ pc' = "session"
    /\ UNCHANGED <<ledgerVars, exchangeVars, intentVars, failed, boundVars>>

ArmOk ==
    /\ pc = "arm"
    /\ deadman' = "armed"
    /\ deadmanArmed' = TRUE
    /\ pc' = "session"
    /\ UNCHANGED <<ledgerVars, order, position, intentVars, failed, boundVars>>

\* The account's volume gate refused the schedule and the operator waived it.
ArmWaived ==
    /\ pc = "arm"
    /\ ~DeadmanRequired
    /\ Goto("session")
    /\ UNCHANGED <<ledgerVars, exchangeVars, boundVars>>

\* Faulty: the lock is given up although a session refers to it.
ReleaseAlways == lock' = FALSE

ReleaseExecution == lock' = (lock /\ session # "none")

\* Any other failure; the exchange may have armed it although no answer came.
ArmFails ==
    /\ pc = "arm"
    /\ deadman' \in {deadman, "armed"}
    /\ ReleaseExecution
    /\ Exit
    /\ UNCHANGED <<session, transmitted, intentStatus, attempt, ledgerQty,
                   rebalanced, order, position, boundVars>>

StartSession ==
    /\ pc = "session"
    /\ session' = IF session = "complete" THEN session ELSE "running"
    /\ BeginIntent(1)
    /\ UNCHANGED <<lock, transmitted, intentStatus, attempt, ledgerQty,
                   rebalanced, exchangeVars, deadmanArmed, failed, boundVars>>

-----------------------------------------------------------------------------
(* Reconcile what earlier processes transmitted for this intent *)

ReconcileSkip ==
    /\ pc = "reconcile"
    /\ no < MaxAttempts
    /\ attempt[Cloid].status \notin WithOid
    /\ NextAttemptNo("reconcile")
    /\ UNCHANGED <<ledgerVars, exchangeVars, boundVars>>

ReconcileQuery ==
    /\ pc = "reconcile"
    /\ no < MaxAttempts
    /\ attempt[Cloid].status \in WithOid
    /\ Goto("query")
    /\ UNCHANGED <<ledgerVars, exchangeVars, boundVars>>

ReconcileDone ==
    /\ pc = "reconcile"
    /\ no = MaxAttempts
    /\ Goto("sync")
    /\ UNCHANGED <<ledgerVars, exchangeVars, boundVars>>

QueryOpen ==
    /\ pc = "query"
    /\ order[Cloid].status = "open"
    /\ Goto("cancel")
    /\ UNCHANGED <<ledgerVars, exchangeVars, boundVars>>

\* Faulty: an accepted cancel is taken for a canceled order.
CancelUnwatched ==
    /\ pc = "cancel"
    /\ Goto("sync")
    /\ UNCHANGED <<ledgerVars, exchangeVars, boundVars>>

\* Faulty: the cancel is repeated until the order is seen to be gone.
CancelUnbounded ==
    /\ pc = "cancel"
    /\ Goto("query")
    /\ UNCHANGED <<ledgerVars, exchangeVars, boundVars>>

\* The cancel is accepted; the order itself stops some time later.
CancelAccepted ==
    /\ pc = "cancel"
    /\ Goto("await")
    /\ UNCHANGED <<ledgerVars, exchangeVars, boundVars>>

\* orderStatus is terminal: record it and count origSz - sz as confirmed.
Resolve ==
    /\ pc \in {"query", "await"}
    /\ order[Cloid].status \in Terminal
    /\ SetAttempt(order[Cloid].status)
    /\ confirmed' = confirmed + order[Cloid].filled
    /\ IF phase = "reconcile"
       THEN pc' = "reconcile" /\ no' = no + 1
       ELSE pc' = "sync" /\ no' = no
    /\ UNCHANGED <<lock, session, transmitted, intentStatus, ledgerQty,
                   rebalanced, exchangeVars, phase, cur, finalStatus, response,
                   deadmanArmed, failed, boundVars>>

-----------------------------------------------------------------------------
(* The fill feed must account for every confirmed lot *)

Unbooked(c) ==
    /\ c[1] = cur
    /\ attempt[c].status \in WithOid
    /\ attempt[c].booked < order[c].feed

\* Faulty: the difference taken the wrong way round.
LotsReversed(c) == attempt[c].booked - order[c].feed

NewLots(c) == order[c].feed - attempt[c].booked

\* record_fill: one attempt's visible fills enter the ledger, once each.
BookFills ==
    /\ pc = "sync"
    /\ \E c \in Cloids :
        /\ Unbooked(c)
        /\ attempt' = [attempt EXCEPT ![c].booked = order[c].feed]
        /\ ledgerQty' = [ledgerQty EXCEPT ![cur] = @ + NewLots(c)]
    /\ UNCHANGED <<lock, session, transmitted, intentStatus, rebalanced,
                   exchangeVars, processVars, boundVars>>

\* Faulty: the feed is not waited for.
FillsAssumed == TRUE

FillsReconciled == ledgerQty[cur] = confirmed

SyncDone ==
    /\ pc = "sync"
    /\ \A c \in Cloids : ~Unbooked(c)
    /\ FillsReconciled
    /\ IF phase = "reconcile"
       THEN pc' = "attempt" /\ no' = 0 /\ finalStatus' = finalStatus
       ELSE IF Remaining = 0
       THEN pc' = "settle" /\ no' = no /\ finalStatus' = "filled"
       ELSE pc' = "attempt" /\ no' = no + 1 /\ finalStatus' = finalStatus
    /\ phase' = "live"
    /\ UNCHANGED <<ledgerVars, exchangeVars, cur, confirmed, response,
                   deadmanArmed, failed, boundVars>>

-----------------------------------------------------------------------------
(* The attempt loop *)

InLoop == pc = "attempt" /\ no < MaxAttempts
Unsent == attempt[Cloid].status \notin Sent

\* Leave the loop with this final status, or go on to the drift check.
Continue(status) ==
    /\ pc' = IF status = "send" THEN "check" ELSE "settle"
    /\ finalStatus' = IF status = "send" THEN finalStatus ELSE status
    /\ UNCHANGED <<phase, cur, no, confirmed, response, deadmanArmed, failed>>

\* Faulty: an exact close may be left as dust.
SizeVerdictForAll(dust) == IF Remaining <= dust THEN "dust" ELSE "send"

SizeVerdict(dust) ==
    IF Remaining <= dust /\ ~ExactClose(cur) THEN "dust" ELSE "send"

Exhausted ==
    /\ pc = "attempt"
    /\ no = MaxAttempts
    /\ Goto("settle")
    /\ UNCHANGED <<ledgerVars, exchangeVars, boundVars>>

SkipTransmitted ==
    /\ InLoop
    /\ ~Unsent
    /\ NextAttemptNo("attempt")
    /\ UNCHANGED <<ledgerVars, exchangeVars, boundVars>>

AlreadyFilled ==
    /\ InLoop
    /\ Unsent
    /\ Remaining = 0
    /\ Continue("filled")
    /\ UNCHANGED <<ledgerVars, exchangeVars, boundVars>>

PreparedFound ==
    /\ InLoop
    /\ attempt[Cloid].status \in Prepared
    /\ Remaining # 0

\* A prepared size that no longer fits is given up, and its number with it.
Abandon ==
    /\ PreparedFound
    /\ SetAttempt("abandoned")
    /\ NextAttemptNo("attempt")
    /\ UNCHANGED <<lock, session, transmitted, intentStatus, ledgerQty,
                   rebalanced, exchangeVars, boundVars>>

\* Crash between durable prepare and send: same CLOID, price and quantity.
Reuse ==
    /\ PreparedFound
    /\ LET verdict == SizeVerdict(attempt[Cloid].dust)
       IN  /\ Continue(verdict)
           /\ IF verdict = "dust" THEN SetAttempt("dust")
              ELSE UNCHANGED attempt
    /\ UNCHANGED <<lock, session, transmitted, intentStatus, ledgerQty,
                   rebalanced, exchangeVars, boundVars>>

TakePrepared ==
    /\ PreparedFound
    /\ IF attempt[Cloid].quantity # Remaining THEN Abandon ELSE Reuse

\* A fresh quote prices a new attempt, durable before it can be sent.
Prepare ==
    /\ InLoop
    /\ attempt[Cloid].status = "absent"
    /\ Remaining # 0
    /\ \E dust \in DustLots :
        /\ attempt' = [attempt EXCEPT ![Cloid] =
                        [status |-> "prepared", quantity |-> Remaining,
                         dust |-> dust, booked |-> 0]]
        /\ Continue(SizeVerdict(dust))
    /\ UNCHANGED <<lock, session, transmitted, intentStatus, ledgerQty,
                   rebalanced, exchangeVars, boundVars>>

\* Faulty: the account is compared with itself.
ExpectedLive(t) == position[t]

\* Initial position plus every fill YOLO has booked on this ticker.
ExpectedPosition(t) ==
    Current[t] + MapThenSumSet(LAMBDA i : Sign(i) * ledgerQty[i], LegsOn(t))

\* The lots worth no more than the minimum order; "dust" is worth less.
WithinMinimum(mark) == IF mark \in EvenPrices THEN mark + 1 ELSE mark

DriftCheck ==
    /\ pc = "check"
    /\ LET t == Plan[cur].ticker
           drift == AbsVal(position[t] - ExpectedPosition(t))
       IN  \E mark \in DustLots :
             drift <= (IF ExactClose(cur) THEN 0 ELSE WithinMinimum(mark))
    /\ Goto("send")
    /\ UNCHANGED <<ledgerVars, exchangeVars, boundVars>>

-----------------------------------------------------------------------------
(* One placement.  The exchange takes a CLOID at most once. *)

Answer(reply) ==
    /\ response' = reply
    /\ pc' = "markRun"
    /\ UNCHANGED <<phase, cur, no, confirmed, finalStatus, deadmanArmed, failed>>

NewOrder(status, filled) ==
    /\ order[Cloid].status = "absent"
    /\ order' = [order EXCEPT ![Cloid] =
                    [status |-> status, quantity |-> attempt[Cloid].quantity,
                     filled |-> filled, feed |-> 0]]

PlaceResting ==
    /\ pc = "send"
    /\ NewOrder("open", 0)
    /\ Answer("open")
    /\ UNCHANGED <<ledgerVars, position, deadman, boundVars>>

\* A reduce-only fill only takes lots off an open position.
Reduces(i, lots) ==
    Plan[i].reduceOnly => Sign(i) * position[Plan[i].ticker] + lots <= 0

PlaceFilled ==
    /\ pc = "send"
    /\ Reduces(cur, attempt[Cloid].quantity)
    /\ NewOrder("filled", attempt[Cloid].quantity)
    /\ position' = [position EXCEPT ![Plan[cur].ticker] =
                        @ + Sign(cur) * attempt[Cloid].quantity]
    /\ Answer("filled")
    /\ UNCHANGED <<ledgerVars, deadman, boundVars>>

\* Nothing was placed: a post-only violation, or any other refusal.
PlaceRefused ==
    /\ pc = "send"
    /\ \/ order[Cloid].status = "absent" /\ Answer("badAlo")
       \/ Answer("rejected")
    /\ UNCHANGED <<ledgerVars, exchangeVars, boundVars>>

\* The order rests, but the answer is lost (exception) or cannot be parsed,
\* which parse_order_response reports as rejected without an oid.
PlaceUnacknowledged ==
    /\ pc = "send"
    /\ lost < MaxLost
    /\ lost' = lost + 1
    /\ NewOrder("open", 0)
    /\ \/ /\ pc' = "except" /\ failed' = TRUE
          /\ UNCHANGED <<intentVars, deadmanArmed>>
       \/ Answer("rejected")
    /\ UNCHANGED <<ledgerVars, position, deadman, starts, manual>>

MarkRun ==
    /\ pc = "markRun"
    /\ transmitted' = transmitted \cup {0}
    /\ Goto("markIntent")
    /\ UNCHANGED <<lock, session, intentStatus, attempt, ledgerQty, rebalanced,
                   exchangeVars, boundVars>>

MarkIntent ==
    /\ pc = "markIntent"
    /\ transmitted' = transmitted \cup {cur}
    /\ intentStatus' = [intentStatus EXCEPT ![cur] = "submitted"]
    /\ Goto("record")
    /\ UNCHANGED <<lock, session, attempt, ledgerQty, rebalanced, exchangeVars,
                   boundVars>>

\* Faulty: the acceptance is not written down.
RecordNothing ==
    /\ pc = "record"
    /\ response = "open"
    /\ Goto("query")
    /\ UNCHANGED <<ledgerVars, exchangeVars, boundVars>>

RecordResting ==
    /\ pc = "record"
    /\ response = "open"
    /\ SetAttempt("open")
    /\ Goto("query")
    /\ UNCHANGED <<lock, session, transmitted, intentStatus, ledgerQty,
                   rebalanced, exchangeVars, boundVars>>

RecordFilled ==
    /\ pc = "record"
    /\ response = "filled"
    /\ SetAttempt("filled")
    /\ confirmed' = confirmed + attempt[Cloid].quantity
    /\ pc' = "sync"
    /\ UNCHANGED <<lock, session, transmitted, intentStatus, ledgerQty,
                   rebalanced, exchangeVars, phase, cur, no, finalStatus,
                   response, deadmanArmed, failed, boundVars>>

RecordRefused ==
    /\ pc = "record"
    /\ response \in {"badAlo", "rejected"}
    /\ SetAttempt("rejected")
    /\ IF response = "badAlo" /\ no < MaxReprices
       THEN NextAttemptNo("attempt") ELSE Goto("refuse")
    /\ UNCHANGED <<lock, session, transmitted, intentStatus, ledgerQty,
                   rebalanced, exchangeVars, boundVars>>

Refuse ==
    /\ pc = "refuse"
    /\ intentStatus' = [intentStatus EXCEPT ![cur] = "rejected"]
    /\ pc' = "except" /\ failed' = TRUE
    /\ UNCHANGED <<lock, session, transmitted, attempt, ledgerQty, rebalanced,
                   exchangeVars, intentVars, deadmanArmed, boundVars>>

-----------------------------------------------------------------------------
(* Settling an intent, verifying and closing the run *)

\* Faulty: an intent that used up its attempts counts as filled.
FinalOfExhausted == IF finalStatus = "dust" THEN "dust" ELSE "filled"

FinalOf ==
    IF finalStatus \in {"filled", "dust"} THEN finalStatus
    ELSE IF Remaining = 0 THEN "filled"
    ELSE IF Remaining <= Plan[cur].refDust /\ ~ExactClose(cur) THEN "dust"
    ELSE "unfilled"

Settle ==
    /\ pc = "settle"
    /\ intentStatus' = [intentStatus EXCEPT ![cur] = FinalOf]
    /\ IF FinalOf = "unfilled"
       THEN pc' = "except" /\ failed' = TRUE /\ UNCHANGED intentVars
       ELSE failed' = failed /\ BeginIntent(cur + 1)
    /\ UNCHANGED <<lock, session, transmitted, attempt, ledgerQty, rebalanced,
                   exchangeVars, deadmanArmed, boundVars>>

\* Within the minimum order of the target, or one lot of it if that is more;
\* a zero target only allows the lot (1.01 lots of tolerance).
PostOk(t, mark) ==
    AbsVal(position[t] - Destination[t])
        <= (IF Destination[t] = 0 \/ WithinMinimum(mark) = 0 THEN 1
            ELSE WithinMinimum(mark))

\* Faulty: the session is left running.
PostcheckUnfinished ==
    /\ pc = "postcheck"
    /\ Goto("archive")
    /\ UNCHANGED <<ledgerVars, exchangeVars, boundVars>>

Postcheck ==
    /\ pc = "postcheck"
    /\ \A t \in DOMAIN Destination : \E mark \in DustLots : PostOk(t, mark)
    /\ session' = "complete"
    /\ Goto("archive")
    /\ UNCHANGED <<lock, transmitted, intentStatus, attempt, ledgerQty,
                   rebalanced, exchangeVars, boundVars>>

MarkRebalanced ==
    /\ pc = "archive"
    /\ rebalanced' = TRUE
    /\ Goto("disarm")
    /\ UNCHANGED <<lock, session, transmitted, intentStatus, attempt,
                   ledgerQty, exchangeVars, boundVars>>

\* The except clause
Attention ==
    /\ pc = "except"
    /\ session' = "attention"
    /\ Goto("disarm")
    /\ UNCHANGED <<lock, transmitted, intentStatus, attempt, ledgerQty,
                   rebalanced, exchangeVars, boundVars>>

\* The finally clause.  The answer to the clearing request is not looked at.
\* "cleared": no schedule is left, whatever may still rest.
Disarm ==
    /\ pc = "disarm"
    /\ deadman' \in {deadman} \cup (IF deadmanArmed THEN {"cleared"} ELSE {})
    /\ Exit
    /\ UNCHANGED <<ledgerVars, order, position, boundVars>>

DisarmFails ==
    /\ pc = "disarm"
    /\ deadmanArmed
    /\ deadman' \in {"cleared", deadman}
    /\ session' = IF failed THEN session ELSE "attention"
    /\ Exit
    /\ UNCHANGED <<lock, transmitted, intentStatus, attempt, ledgerQty,
                   rebalanced, order, position, boundVars>>

-----------------------------------------------------------------------------
(* Failures *)

\* An accepted order whose acceptance the ledger does not know yet.
Unrecorded ==
    /\ pc \in {"markRun", "markIntent", "record"}
    /\ response \in {"open", "filled"}

LoseIfUnrecorded ==
    /\ Unrecorded => lost < MaxLost
    /\ lost' = IF Unrecorded THEN lost + 1 ELSE lost

\* Any exception inside the try block: a failed or inconclusive exchange call,
\* a poll that ran out, a mismatch found by a check, a failed transaction.
Fail ==
    /\ pc \in TryPcs
    /\ LoseIfUnrecorded
    /\ pc' = "except"
    /\ failed' = TRUE
    /\ UNCHANGED <<ledgerVars, exchangeVars, intentVars, deadmanArmed, starts,
                   manual>>

\* What the except clause does not catch: an interrupt of the process inside
\* the try block, or an error of the except clause itself.  The finally clause
\* still runs, and the session keeps the status it had.
Interrupt ==
    /\ pc \in TryPcs \cup {"except"}
    /\ LoseIfUnrecorded
    /\ Goto("disarm")
    /\ UNCHANGED <<ledgerVars, exchangeVars, starts, manual>>

\* The process is killed, or its host stops.
Crash ==
    /\ pc # "idle"
    /\ LoseIfUnrecorded
    /\ Exit
    /\ UNCHANGED <<ledgerVars, exchangeVars, starts, manual>>

-----------------------------------------------------------------------------
(* The exchange *)

OrderFills(c) ==
    LET o == order[c] IN
    /\ o.status = "open"
    /\ Reduces(c[1], 1)
    /\ order' = [order EXCEPT ![c] =
                    [status |-> IF o.filled + 1 >= o.quantity
                                THEN "filled" ELSE "open",
                     quantity |-> o.quantity, filled |-> o.filled + 1,
                     feed |-> o.feed]]
    /\ position' = [position EXCEPT ![Plan[c[1]].ticker] = @ + Sign(c[1])]
    /\ UNCHANGED <<ledgerVars, deadman, processVars, boundVars>>

\* On YOLO's request, by the operator, or by the exchange itself.
OrderCanceled(c) ==
    /\ order[c].status = "open"
    /\ order' = [order EXCEPT ![c].status = "canceled"]
    /\ UNCHANGED <<ledgerVars, position, deadman, processVars, boundVars>>

FeedCatchesUp(c) ==
    /\ order[c].feed < order[c].filled
    /\ order' = [order EXCEPT ![c].feed = @ + 1]
    /\ UNCHANGED <<ledgerVars, position, deadman, processVars, boundVars>>

\* "early": the deadline passed while the run it was set for still lived, and
\* nothing covers what that run sends from now on.
DeadmanFires ==
    /\ deadman = "armed"
    /\ deadman' = IF pc = "idle" THEN "off" ELSE "early"
    /\ order' = [c \in Cloids |-> IF order[c].status = "open"
                                  THEN [order[c] EXCEPT !.status = "canceled"]
                                  ELSE order[c]]
    /\ UNCHANGED <<ledgerVars, position, processVars, boundVars>>

ManualTrade ==
    /\ manual < MaxManual
    /\ manual' = manual + 1
    /\ \E t \in Tickers, d \in {-1, 1} :
        position' = [position EXCEPT ![t] = @ + d]
    /\ UNCHANGED <<ledgerVars, order, deadman, processVars, starts, lost>>

-----------------------------------------------------------------------------
ProcessStep ==
    \/ SnapshotOk \/ SnapshotFails
    \/ ArmOk \/ ArmWaived \/ ArmFails \/ StartSession
    \/ ReconcileSkip \/ ReconcileQuery \/ ReconcileDone
    \/ QueryOpen \/ CancelAccepted \/ Resolve
    \/ BookFills \/ SyncDone
    \/ Exhausted \/ SkipTransmitted \/ AlreadyFilled
    \/ TakePrepared \/ Prepare \/ DriftCheck
    \/ PlaceResting \/ PlaceFilled \/ PlaceRefused \/ PlaceUnacknowledged
    \/ MarkRun \/ MarkIntent
    \/ RecordResting \/ RecordFilled \/ RecordRefused \/ Refuse
    \/ Settle \/ Postcheck \/ MarkRebalanced
    \/ Attention \/ Disarm \/ DisarmFails
    \/ Fail \/ Interrupt

ExchangeStep ==
    \/ \E c \in Cloids : OrderFills(c) \/ OrderCanceled(c) \/ FeedCatchesUp(c)
    \/ DeadmanFires
    \/ ManualTrade

Next == StartFresh \/ StartResume \/ ProcessStep \/ Crash \/ ExchangeStep

Spec == Init /\ [][Next]_vars

\* A live process keeps running; a scheduled cancel is eventually carried out.
FairSpec == Spec /\ WF_vars(ProcessStep) /\ WF_vars(DeadmanFires)
=============================================================================
