# TLA+ project for crypto-yolo

Specifications, model-checking runs and machine-checked proofs for the trading
program under `src/src/crypto_yolo`. The program runs once a day: it waits for a
signal, sizes an account, plans the trades, and executes them on Hyperliquid as
post-only orders. Everything it must not forget is in one SQLite file, because
it can die at any moment and be started again by a timer or an operator.

Source names below are relative to `src/src/crypto_yolo/`.

## 1. The system

| Part | Source | State | Operations |
|---|---|---|---|
| Command line | `cli.py` | none | `--live-data` in PLAN or EXECUTE mode, `--resume-execution`, `--rebase-compounding`, `--record-flow`, status commands |
| Live executor | `execution.py` | local: intent, attempt number, confirmed fills, dead-man flag | `execute_run`, `_wait_for_terminal_order_status`, `_sync_fills_to_confirmed`, `_assert_position_matches_ledger`, `_postcheck` |
| Run ledger | `prelive.py` | tables of runs, targets, intents, lock, session, attempts, fills | `persist_run`, `reserve_execution`, `release_execution`, `start_execution_session`, `prepare_attempt`, `update_attempt`, `mark_run_transmitted`, `mark_intent_transmitted`, `record_fill`, `finish_execution_session` |
| Cash-flow ledger | `cashflows.py` | cursor, one row per exchange ledger event | `initialize_cursor`, `sync`, `advance_cursor`, `acknowledge_manual_events` |
| Sizing ledger | `sizing.py` | units and baseline of the account | `decision`, `record_external_flow`, `rebase` |
| Exchange reads | `providers.py` | none | account snapshot, quotes, order status, fills, portfolio history |
| Signal archive | `archive.py` | pulls and snapshots of the signal | `record_pull`, `mark_pull_validation`, `record_signal_snapshot`, `mark_snapshot_planned`, `mark_snapshot_rebalanced` |
| Signal wait | `live.py` | none | `wait_for_live_inputs`: poll until the day's signal is published and confirmed |
| Signal validation | `validation.py` | none | checks of one payload |
| Portfolio, planner, buffer, risk | `portfolio.py`, `planner.py`, `buffer.py`, `risk.py` | none | pure functions from signal and positions to trades and a verdict |
| Health | `health.py` | none | the verdict that gates execution |
| Helpers used by tests only | `reconcile_orders.py`, `reconciliation.py` | none | comparisons of intents and positions |
| Deployment | `src/deploy/systemd`, `src/bin/yolo` | none | a oneshot service started by a timer; no lock around it |

How they interact. `cli` calls `live` for a signal, reads the account through
`providers`, lets `cashflows.sync` move deposits and withdrawals into the units
of `sizing`, asks `sizing.decision` for a multiplier, plans, gates the plan with
`risk` and `health`, stores it with `persist_run` and, in EXECUTE mode, calls
`execute_run`. `execute_run` talks to the exchange and to the run ledger in
turns; no transaction spans both. All parts share the SQLite file, and every
ledger method is a transaction of its own.

What is hard:

- **Crashes** between an exchange call and the ledger write that records it, and
  between two ledger transactions that belong together.
- **Answers that are late, lost or malformed**: an order rests although its
  placement was not acknowledged; a cancel is accepted and the order still
  fills; the fill feed lags behind the order status.
- **Resumes**: rows of any age and status are found by a new process that must
  neither repeat nor forget what an older one did.
- **Several processes**: timer and operator can run the command side by side.
- **The account moves** while it is read, and other people trade on it.
- **Lot, dust and minimum-order boundaries**, where three rules with three prices
  must agree.

What makes each part correct:

- executor: no order outside a claimed run, one order at a time for no more than
  is missing, close before open, a completed run is quiet and verified, every run
  ends;
- run ledger: one run trades the day, its lock and intents survive everything;
- cash flows: each transfer changes the units once, none is overlooked, the
  multiplier is the true performance;
- signal wait and archive: a signal that is used is sound and the day's, the
  archive tells one story about every response, the window is used up and ends;
- planner: a trade goes to the edge of its band and no farther, the legs of a plan
  add up to the planned trade, only reductions are reduce-only, and the account
  never passes through a gross nobody approved.

`PROJECT.json` lists every hazard with the line where it bites and the
properties that cover it.

## 2. Modules

| Module | Content |
|---|---|
| `Execution` | `execute_run`, its rows, the exchange, crash and restart: one process |
| `ExecutionProperties` | its invariants, action and liveness properties |
| `ExecutionProofs` | TLAPS proofs: types, claims, one resting order |
| `ExecutionEndProofs` | TLAPS proofs: how a run ends, and what it leaves behind |
| `ExecutionFillProofs` | TLAPS proofs: the arithmetic of fills, positions and dust, the refinement of `SerialTrading`, and that a run cannot go on for ever |
| `Sums` | lemmas on the sum of a function over a finite set |
| `MCExecution` | a sign flip, a pair of coins and a trimmed position for TLC |
| `SerialTrading` | abstract: what a run promises the exchange; `Execution` implements it |
| `RunLedger` | one signal date: planning, lock, session, commands; many processes |
| `RunLedgerProperties`, `RunLedgerProofs`, `MCRunLedger` | as above |
| `DayClaim` | abstract: a day is claimed by one run; `RunLedger` implements it |
| `CashFlows` | sync, sizing ledger, rebase and recorded flows against a moving account |
| `CashFlowsProperties`, `CashFlowsProofs`, `MCCashFlows` | as above |
| `SignalWait` | the attempts of one or more commands for a signal, the archive, the runs planned from it |
| `SignalWaitProperties`, `SignalWaitProofs` | as above; TLC checks the properties module itself |
| `Planner` | one plan from signals to intents and their working off |
| `PlannerProperties`, `PlannerProofs`, `MCPlanner` | as above |

How the modules meet: `Planner` ends with the set of intents that `Execution` starts
from as `Plan`, and `ReduceOnlyReduces` and the order `Precedes` are what the
assumption of `Execution` on plans asks for. `RunLedger!Send` is the whole session of
`Execution`. `SignalWait` carries a run as far as the mark that `Execution` sets in
`MarkRebalanced`. `CashFlows` decides the multiplier that scales the money of
`Planner`.

Operators marked "Faulty" in a comment are not used by any specification: each is
a plausible bug of the definition it stands beside, and shows that a property
notices it (`mutants` in `PROJECT.json`).

### Execution

One process; `pc` walks through `execute_run`. A step is one ledger transaction
or one exchange call, so a `Crash` can fall between any two.

| Code | Actions |
|---|---|
| entry, guards, `reserve_execution`, orphan check | `StartFresh`, `StartResume` |
| snapshot | `SnapshotOk`, `SnapshotFails` |
| scheduled cancel | `ArmOk`, `ArmWaived`, `ArmFails` |
| `start_execution_session` | `StartSession` |
| reconciliation of sent attempts | `ReconcileSkip`, `ReconcileQuery`, `ReconcileDone` |
| cancel and wait for a terminal status | `QueryOpen`, `CancelAccepted`, `Resolve` |
| `_sync_fills_to_confirmed` | `BookFills`, `SyncDone` |
| attempt loop | `Exhausted`, `SkipTransmitted`, `AlreadyFilled`, `TakePrepared` (`Abandon` or `Reuse`), `Prepare`, `DriftCheck` |
| `place_alo` | `PlaceResting`, `PlaceFilled`, `PlaceRefused`, `PlaceUnacknowledged` |
| the rows after an answer | `MarkRun`, `MarkIntent`, `RecordResting`, `RecordFilled`, `RecordRefused`, `Refuse` |
| end of an intent, of the run | `Settle`, `Postcheck`, `MarkRebalanced` |
| `except`, `finally` | `Fail`, `Attention`, `Interrupt`, `Disarm`, `DisarmFails` |
| the exchange | `OrderFills`, `OrderCanceled`, `FeedCatchesUp`, `DeadmanFires`, `ManualTrade` |

What the data became:

- Quantities are whole lots, so the code's tolerance of 0.51 lots is equality and
  the 1.01 lots `_postcheck` allows a zero target is one lot.
- A price matters only through the number of lots it makes smaller than the
  minimum order, so a price *is* that number (`DustLots`); each check reads a
  price of its own, and `refDust` is the price an intent was planned at. "Dust" is
  below the minimum order, while the drift check and `_postcheck` allow a difference
  that is exactly one: `WithinMinimum`, at the prices where there is one (`EvenPrices`).
- The plan is one `build_alo_intents` can make (`LegsAssumption`): the legs of a
  ticker reach its target but for an opening leg below the minimum order.
- A CLOID is the pair of intent and attempt number, as it is derived in the code.
- Poll loops are one step that succeeds, or `Fail`; every explicit `raise`
  inside the `try` is `Fail`.
- `Interrupt` is what `except Exception` does not see: an interrupt of the process in
  the `try`, or an error of the except clause itself. The session keeps its status,
  and the finally clause still clears the schedule (`deadman = "cleared"`). `Crash` is
  the end of the process without a finally clause.
- An accepted cancel means the order may stop later; it can fill until then.
- The exchange refuses a CLOID it has already taken.
- A lost or malformed answer to an accepted placement is `PlaceUnacknowledged`;
  `lost` counts it, also when a crash comes before the record.
- The comparison of the signal date with the clock is in `SignalWait`; the
  validation of the API wallet and formatting are left out.

The abstract `SerialTrading` sees only the exchange: one resting order, the lots
each intent has filled. The refinement mapping (`Serial` in `ExecutionProperties`)
computes both from the orders; `accounted` is "no acceptance was lost".

### RunLedger

All processes of one signal date and account. Each action is one SQLite
transaction or autocommitted `SELECT` of one process. A run key is chosen by
`StartFresh` (the account's state decides it), a plan version counts how often the
intents were rewritten, `sent` records for which version orders were sent.
`Send` stands for prepare, place and record of module Execution; `ArmOk` for
armed, waived and nothing to do. Plans that the risk gate rejects never execute
and are left out, and so is `mark_snapshot_planned`, which nothing here reads
(`SignalWait` has it). `Refreshable` is the decision of `persist_run`,
`ReleaseExecution` the release after a failed arming, with the `session` value read
at the entry. Two history variables name the two situations the code does not
exclude: `overlap`, a command was started while another one ran, and `stolen`, a
lock was released that another process relied on. `DayClaim` is the same lock
without processes: owner, who traded, and whether the claim was exclusive so far.

### CashFlows

One process and an account. A tick of the clock is one change of the account: a
transfer of a kind in `Kinds`, or profit or loss. Performance is the true NAV of a
unit: profit or loss takes it from one value of `Navs` to another and the equity in
proportion with it, where that is a whole amount; `StartNav` is its value at first.
Units are a ratio in lowest terms, so equality is exact. `Stamp` and `ReadEquity` separate
the time of the snapshot from its equity. `sync` is `BeginSync`, `FetchUpdates`, one
`ApplyFlow` per event (or a refusal), `Persist`, `AdvanceCursor`; a rebase is
three transactions; `--record-flow` is `Record`, `ReadEquity`, `RecordFlow`. The last
changes the units for an amount the operator names and touches neither rows nor
cursor, so a flow that sync also finds counts twice; it needs the operator to be
right, and nothing here checks him.

History variables (`unitized`, `baseline`, `cursorStart`, `disturbed`) say what
happened and are read by properties only, and by the bound `MaxUnitized`.
A tick may leave a point of the account's history or none (`Tick`), so the latest
point before a transfer (`LatestBefore`) can be of any age, and profit or another
transfer can lie between the two. `disturbed` is set by a crash, a recorded flow, a
transfer whose latest point is not the equity it changed, and a change of the account
between time stamp and equity. Left out: fixed
mode, the clipping of the multiplier, the guard for a changed nominal and the log of
sizing events.

### SignalWait

`fetch_live_inputs` and `wait_for_live_inputs`, and the commands around them. The
vendor answers each of the two endpoints with what is published at that moment: a
payload is a day and a form ("broken" fails before the date is looked at,
"insane" after it), and the next answer may be a later day's or the same day put
right. Every answer is archived before it is looked at (`Answered`); then come the
status (`BadStatus`, `GoodStatus`), the checks in the order the code makes them
(`Parsed`, `Validated`, `Judge`), the verdict on both pulls one transaction each
(`MarkValidation`), the snapshot row and the exchange. An exception goes to the
loop: `Retryable` decides by kind what the code decides by text; `GiveUp`,
`TooLate`, `Sleep`, `WakeUp` are the branches. `ReadTimesOut` is the `TimeoutError`
of a read that neither `URLError` nor `RuntimeError` covers. What follows a signal is
there as far as it touches the archive: `PersistNew` and `PersistAgain` (a plan of
equal fingerprint replaces the snapshot of its row unless it was started),
`MarkPlanned`, execution, resume, `MarkRebalanced`. `Execute` and `Resume` compare the
run's date with the clock (`IsCurrent`), as `execute_run` does at its entry. The date a
signal must have is the operator's (`AskedDates`, `--expected-date`), the one at the
start of a wait, or, outside a wait, the one at the start of the second request. Time is
a clock that ticks between any two steps, and a sleep may last up to `Overshoot` too
long; a midnight falls at `MidnightAt`.

### Planner

One plan. `BuildTargets`, `PlanTrades`, `RiskGate`, `FetchQuotes`, `BuildIntents`,
`Execute`, `Postcheck` follow the command; `PlanFails` and `FetchFails` are its
refusals. Money is in whole dollars, quantities in whole lots, and a price is the price
of a lot. The division that scales targets to the gross limit is not carried out: the
weights of a plan are numerators over its common denominator `whole`, so nothing is
rounded that the code does not round. `Nearest` rounds to lots as the code does and goes
either way on a tie. Settings (direction, buffer mode, exits), signals, holdings and
marks are chosen in `Init`; the book is fetched later than the marks and is any with the
bid below the ask, on either side of the mark or around it (`BookPrices`), which is all
`fetch_bbo` checks. `Execute` fills any part of an intent; what is not dust leaves the
run in attention.

## 3. Runs

States are distinct states; the runs take up to two minutes each.

| Run | States | What it shows |
|---|---|---|
| `flip` | 103 k | Short 1 to long 2, a reduce-only close and an opening leg, planned at another price than quoted, one reprice, three starts, interrupts, a deadline that may pass early, every acceptance recorded: the executor keeps its safety properties, implements `SerialTrading`, and its liveness |
| `pair` | 3.66 M | Two coins, two starts, one lost acknowledgement and one trade by someone else: the claim on the day, no over-trading but by the lost order, the drift check |
| `ledger` | 582 k | Two processes, two run keys, two plans, crashes and failed arming anywhere: the ledger implements `DayClaim` |
| `cash` | 3.07 M | A crash or a recorded flow, history points anywhere or nowhere and snapshots that straddle a transfer: nothing is overlooked, review blocks, and until then the multiplier is the true performance |
| `signal` | 845 k | Two commands over a midnight, a date the operator asked for, mixed publications, failures and crashes: only signals of the date asked for are accepted and only the day's are traded, the archive agrees with itself, the window is used up |
| `plan` | 1.18 M | Every plan of three coins over the instance's signals, holdings, marks, settings and books, and every way its orders may fill |
| `ack`, `interrupt`, `ledger_rebuild`, `cash_retry`, `cash_history`, `signal_skew` | - | violations, see section 5 |

Properties worth a word:

- `OrdersAreClaimed` holds whatever crashes or is lost. It is the reason a day can
  never be traded by two runs.
- `OneOrderPerIntent`, `NoOverfill`, `SendOnBookedFills`, `CloseBeforeOpen`,
  `CompleteIsQuiet` and the refinement `TradesSerially` hold as long as no
  acceptance was lost (`Acknowledged`). `pair` shows what is left of them otherwise:
  over-trading is bounded by once the quantity per loss
  (`OverfillBoundedByLost`), and fills nobody booked stop the next send unless
  they are within the minimum order (`UnbookedFillsBlockSend`). The check looks once:
  what fills between it and the send is beyond the code and the property.
- `ArmedUntilCleared` says the only two ways an order can rest without a scheduled
  cancel: the run outlived its deadline, or a finally clause cleared it. The stronger
  `ArmedWhenDead`, which the README of the repository promises, is false (section 5).
- `TradesSerially` replaces a list of properties of single orders: one order over
  the whole plan, never for more than its intent lacks, and no return to an intent
  after a later one has traded, through every crash and resume.
- `PreparedSizeStands` says that the branch of the attempt loop that abandons a
  stale size is never taken: earlier attempts are terminal before a later one is
  prepared, so nothing can change the remainder. `Abandon` stays in the model, and
  the faulty forms of reconciliation reach it.
- `DustRulesAgree` compares the three dust rules at the prices each of them reads: a
  run whose intents all ended filled or dust passes the verification at every mark no
  higher than the prices something was left out at. At a higher mark it can fail, and
  then ends in attention; the code has no rule against that.
- `ClaimsTheDay`, `HoldersAgree` and `LockCoversSession` hold with any number of
  processes until a lock is stolen; `ReleasesAreSafe` says that this takes two
  processes at once: the release after a failed arming relies on a value read before
  the reservation. `SentIntentsKept` likewise ends with an overlap, since
  `persist_run` decides and writes in two transactions.
- `NothingSkipped` is weaker than "every flow is unitized", which is false
  (`cash_history`). It is the part that holds under every failure.
- `NoFakePerformance` holds until the account was disturbed; what a transfer inside a
  snapshot or a flow valued at an old point does to the multiplier is outside of
  what the code claims.
- `ManualReviewBlocks` excepts the two commands by which an operator overrides the
  ledger: a rebase and a recorded flow.
- `RebalancedWasPlanned` ties two marks that different commands set on a row which a
  refresh may replace in between.
- `WindowUsedUp` is about the last attempt at the deadline: it is made, and begins
  later only by what the sleep before it overshot.
- `TradesTodaysSignal` follows the date through every command: what is traded was
  archived as sound and is of the UTC date on which the execution starts or is resumed,
  although the plan may be of an earlier command and the date was compared with another
  clock when the signal was accepted.
- `TradesToNearestEdge` includes the lot rounding, which may pass the edge by half a
  lot, and says that a trade never crosses zero away from its target.
- `GrossStaysBetween` is about the account after each prefix of the intents: reduce-
  only ones first is what keeps it below the larger of before and approved.
- `PostcheckForgives` says what a settled run leaves and when its verification fails
  it: `append_intent` leaves out a leg by its value at the bid or the ask, `_postcheck`
  counts it at the mark, read at another time. Only where the limit is below the mark
  can a remainder pass the first rule and not the second; both a bought and a sold leg
  do in the instance, and the run then ends in attention.

Bounds. Two intents are enough for order between intents (close before open, an early
dust intent revisited while a later order rests); quantities 1 and 2 give partial fills;
one reprice gives two CLOIDs per intent and an exhausted loop; three starts give a
resume of a resume; one lost acknowledgement is what the bound on over-trading counts
by. In `flip` a lot is dust at the quoted price and not at the planned one; in `pair` a
lot is exactly the minimum order at the quoted price, and dust for one coin at the
planned one. Three ticks of `CashFlows` hold two flows and a change of profit between
them, or a flow, a rebase and a flow; `MaxGap = 1` makes the lookback matter; `MaxFaults
= 1` gives one crash or one recorded flow at any place; `MaxUnitized` stops runs after
an event was unitized twice, when the violation has been shown. Two run keys and two
plans give refresh, keep and a second run; two processes give every overlap of two
commands. In `SignalWait` a window of 2 at an interval of 2 makes the last attempt fall
on the deadline, or behind it with an overshoot of 1; midnight at 2 falls into the
window; the date that may be asked for is
yesterday's; four answers are two
complete attempts, and two commands give a wait and what follows it by a plan, a second
wait or a resume. In `Planner` the signals -9, 0, 1, 6 lie beyond the asset limit 8, at
zero, inside the half band 2 and outside it, and two of them beyond the gross limit 10;
holdings -3, 0, 1 give flips, reductions and openings of either kind; the mark 0 is a
missing mark; the minimum order 5 lies between one lot and two at the mark 3; book
prices 1, 2, 4 give books below the mark and around it, and one and two lots that are
dust at the limit and not at the mark.

Deadlock is not checked in the runs of Execution, RunLedger, SignalWait and Planner: a
command that is not started again and a plan that was worked off are legal ends,
reached at `MaxStarts`, `MaxPlans` and the last stage. CashFlows has no such end,
since a run can always be started, and its runs check deadlock.

Fairness. `flip` assumes weak fairness of `ProcessStep`, since a live process keeps
executing its next statement and every loop of `execute_run` is bounded by a poll count
or by the number of attempts; and of `DeadmanFires`, since a scheduled cancel is
carried out by the exchange. `signal` assumes it of `CommandStep` and of `Tick`, since
requests return or time out and time passes. `Crash` may happen instead of any step, `Interrupt`
instead of any step in the `try`.
Nothing is assumed about fills, cancels, the feed, the vendor or the operator. The
deadline of the scheduled cancel is computed once at the entry (`execution.py:546`) and
never renewed, so it may pass while the run still places orders (`deadman` is then
"early"); `ArmedUntilCleared` and `OrdersResolve` except such a run.

## 4. Proofs

All theorems are for any plan, any number of reprices, processes and runs, any
amounts, windows, universes and prices, and any bounds; the only assumptions are the
named `ASSUME`s of the modules (types of the constants, finitely many tickers,
reduce-only legs first, the
legs `build_alo_intents` leaves of a plan) and those a theorem states.

| Theorem | Statement |
|---|---|
| `ExecutionProofs!TypeCorrect` | `Spec => []TypeOK` |
| `ExecutionProofs!OrdersClaimed` | `Spec => []OrdersAreClaimed` |
| `ExecutionProofs!OneOrder` | `Spec => []OneOrderPerIntent` |
| `ExecutionProofs!SentOnce` | `Spec => NeverSentTwice` |
| `ExecutionEndProofs!MarkedIsVerified` | `Spec => MarkOnlyVerified` |
| `ExecutionEndProofs!StaysArmed` | `Spec => [](DeadmanRequired => ArmedUntilCleared)` |
| `ExecutionEndProofs!FinishedStays` | `Spec => FinishedAttemptsStay` |
| `ExecutionFillProofs!SendsOnBookedFills` | `Spec => []SendOnBookedFills` |
| `ExecutionFillProofs!PreparedStands` | `Spec => []PreparedSizeStands` |
| `ExecutionFillProofs!OverfillBounded` | `Spec => []OverfillBoundedByLost` |
| `ExecutionFillProofs!NothingOverfills` | `Spec => []NoOverfill` |
| `ExecutionFillProofs!OpensAfterClose` | `Spec => []CloseBeforeOpen` |
| `ExecutionFillProofs!ImplementsSerialTrading` | `Spec => TradesSerially`, the refinement of `SerialTrading` |
| `ExecutionFillProofs!DriftStopsSends` | `Spec => UnbookedFillsBlockSend` |
| `ExecutionFillProofs!CompletedIsQuiet` | `Spec => []CompleteIsQuiet` |
| `ExecutionFillProofs!DustIsForgiven` | `Spec => []DustRulesAgree`, whatever prices the rules read |
| `ExecutionFillProofs!StepsRunOut` | `Spec => []StepsBounded /\ OnlyForward`: every step of a run raises a number that has a bound |
| `RunLedgerProofs!TypeCorrect` | `Spec => []TypeOK` |
| `RunLedgerProofs!DayBelongsToOneRun` | `Spec => [](OneRunTrades /\ LockCoversSession)`: one run trades the day, a session keeps the lock, until a lock is stolen |
| `RunLedgerProofs!HoldersShareTheRun` | `Spec => []HoldersAgree` |
| `RunLedgerProofs!OrdersKeepTheirIntents` | sent intents are never replaced, until processes overlap |
| `RunLedgerProofs!LoneReleaseIsSafe` | a lock is stolen only if processes overlap |
| `RunLedgerProofs!ImplementsDayClaim` | `Spec => ClaimsTheDay`, the refinement of `DayClaim` |
| `CashFlowsProofs!TypeCorrect` | `Spec => []TypeOK` |
| `CashFlowsProofs!MultiplierIsPerformance` | `Spec => []NoFakePerformance` |
| `CashFlowsProofs!CursorOverlooksNothing` | `Spec => []NothingSkipped` |
| `CashFlowsProofs!AppliedIsInUnits` | `Spec => []AppliedWereUnitized` |
| `CashFlowsProofs!ReviewIsAwaited` | `Spec => ManualReviewBlocks` |
| `SignalWaitProofs!TypeCorrect` | `Spec => []TypeOK` |
| `SignalWaitProofs!OnlyCurrentIsAccepted` | `Spec => []AcceptedIsCurrent` |
| `SignalWaitProofs!ArchiveTellsOneStory` | `Spec => []ArchiveAgrees` |
| `SignalWaitProofs!TradedIsMarked` | `Spec => []RebalancedWasPlanned` |
| `SignalWaitProofs!WindowIsKept` | `Spec => []WindowUsedUp` |
| `SignalWaitProofs!OnlyTodaysIsTraded` | `Spec => TradesTodaysSignal` |
| `SignalWaitProofs!WaitMovesOn` | `Spec => OnlyFurther`: every step of a command leads further, and none back |
| `PlannerProofs!BandIsKept` | `Spec => []TradesToNearestEdge` |
| `PlannerProofs!ReduceOnlyIsExact` | `Spec => []ReduceOnlyReduces` |
| `PlannerProofs!LegsMakeTheTrade` | `Spec => []LegsAddUp` |
| `PlannerProofs!GrossIsBounded` | `Spec => []GrossStaysBetween` |
| `PlannerProofs!LeftoversAreForgiven` | `Spec => []PostcheckForgives` |

*Execution.* `TypeOK` is not inductive: while an intent or attempt is worked on,
`cur` and `no` must point at one, which `CursorOK` adds. `ClaimInv` adds that a
process past its entry holds the lock, that a session exists in the `try`, and
that the row is durable before a send; the release in the arming path is the only
action that could break it, and it is guarded by the session. `SerialInv` is the
core: in every phase it says which attempts of the current intent can rest at all
(`QuietOK`), that the ledger knows every order the exchange has unless it is in
flight at this moment (`KnownOK`), and that a row recorded as finished agrees
with the exchange (`FinishedOK`). Each has one step per action of `Next`.
`SentOnce` follows from the same invariant: a CLOID in `Prepared` that is not in
flight is unknown to the exchange.

*How a run ends.* `EndInv` adds which intents are done at each point of the loop
(`DoneOK`), that the switch is set wherever the process can send or stop, and that
between two starts an order rests without one only behind a finally clause that cleared
it (`GuardOK`), and that only attempts the exchange has are asked about (`QueriedOK`).

*Fills.* The sums of the model are folds, which pick one element after the other.
`Sums` shows once that the order does not matter, by induction over the subsets of a
finite set in first-order form (no smallest subset fails), and from that what happens
to a sum when one value changes. On it stands `FillInv`: booked is at most what the feed
has, that at most what is filled, that at most the quantity (`RowsOK`); the lots of an
intent are those booked for its attempts (`LedgerOK`); `confirmed` is the sum over the
attempts looked at so far, all of them over, and booked once the loop goes on
(`CountOK`); attempts are sent in order (`PrefixOK`, `LoopOK`); and a prepared attempt
is for exactly what its intent lacks (`PreparedOK`), which is what lets a resume use it
again. `RiskInv` splits what an intent has filled and could still fill into the orders
the ledger knows, at most the quantity together, and those whose acceptance was lost, at
most the quantity for each (`RiskOK`). `DoneInv` says why a done intent stays done: its
lots are booked, or it has a prepared attempt that is dust and will never be sent, or
no attempt is left (`DoneWell`, `VerdictOK`, `KeptOK`), and that nothing is placed
before the intents in front of it are done (`OrderedOK`). `SoloInv` adds that nothing
rests behind the current intent and one order at all, as long as every acceptance is
recorded. The refinement maps the resting order to the one that is open (`RestingIn`)
and the traded lots to the sum of the fills (`TradedIn`); placements, fills and ends of
orders are steps of `SerialTrading`, a lost acceptance is its breach, everything else
leaves the mapped state alone.

*Positions.* As long as nobody else trades, a position is the one at the start plus the
signed fills of the intents on its ticker (`PositionOK`). What the code expects is the
start plus their signed ledger quantities, so the drift it sees is what was filled and
not booked (`DriftIsMissing`), and a drift that passes the check is within the minimum
order at some price. `QuietInv` follows the fills to the final
check: the orders of the intents already worked off, and of all intents in a complete
session, are over and booked, lot by lot (`BookedOK`), and a session is only complete
behind the loop, where nothing is sent any more (`ClosedOK`).

*Dust.* Three rules may leave a remainder: `append_intent` leaves out a leg, the attempt
loop calls an intent done, `_postcheck` lets a position pass. `EnoughOK` says what
the second has left when an intent is done: nothing of an exact close, of any other less
than a minimum order at the plan's price or at that of an attempt that was never sent
(`Enough`). The position is then the one the plan aims at, but for what the first rule
left out (`LeftOut`) and the unfilled rest of the legs (`SlackFn`, `PositionLacks`).
`DustIsForgiven` takes the first from the planner: `LegsAssumption` says that one leg
of a ticker at most is no exact close, and that what is missing is an opening leg beside
exact closes, which is what `LegsMakeTheTrade` and the shape of the legs in
`PlannerProofs` say of its plans. No price is fixed: the theorem is about every mark that
is not above the prices something was left out at (`DustPrices`).

*Ends.* That a run ends needs fairness and stays with TLC; `StepsRunOut` is the rest of
the argument. `StepsDone` is a number of six digits: the stage of `execute_run`, the
intent, whether it is reconciled or traded, the attempt, the place in the attempt, the
lots booked. Every step of the process raises it, whatever fills, fails, is lost or is
refused, no step of the exchange or of anyone else's trade changes it, and it is never
more than `MostSteps`. The last digit counts because `_sync_fills_to_confirmed` books
one fill after the other; that it has a bound is `OverfillBounded`. A start of the
command sets it back, and there are `MaxStarts` of them. The poll loops of the code,
one step here, count to a constant by themselves.

*RunLedger.* `LockInv` says that a session keeps the lock, all holders agree with it and
orders are only sent in a session; the first two are under "until stolen", so that an
unsafe release needs no case of its own. `SoloInv` says what one process at a time adds:
what was read at the entry is still true (`SeenIsFresh`), so is the decision of
`persist_run` (`VerdictIsFresh`), and `execute_run` works through the intents that are
stored (`IntentsAreFresh`). The refinement needs `LockInv` only: a reservation maps to
`Claim`, a release to `GiveBack` or to the breach, a send to `Trade`, everything else to
a stutter.

*CashFlows.* `SkipInv` says that until the cursor moves, everything in front of it
that has no row is in the batch (`BatchOK`), and nothing is in the future. `ReviewInv`
follows the batch: no row is ahead of the clock (`RowsArePast`), a flow of the batch
that is no longer to do has changed the units (`BatchUnitized`), and from the guard of
`sync` to the decision nothing waits for review (`NothingWaits`).

`NavInv` is about money. As long as the account is undisturbed there are a history of
its equity and one of the NAV of a unit, from the start to now, along which the books add
up (`Account`): a transfer moves the first alone and where there is none the two move in
proportion (`Path`), the snapshot in hand lies on them (`SnapshotOK`), and the units times
the NAV are the equity at the cursor (`Worth`, `UnitsFit`), unless something waits for
review or a flow that takes everything stops every sync (`Stopped`). In the middle of a
batch they are worth the account between the last flow done and the first to do
(`Halfway`); lemma `Issue` is the arithmetic of one flow. `NoFakePerformance` is then the
moment of the decision. Nothing is claimed after a crash, a recorded flow, a transfer
whose latest history point is out of date or a snapshot that straddles one: these are what
`disturbed` records, and findings 4 and 5 of section 5 show that two of them do harm.

*SignalWait.* `WaitInv` follows an attempt: its pulls are new, no snapshot refers to
them (`PendingAreNew`); what was decided is what the two payloads say and what is marked
so far (`Decided`). References of snapshots and runs point at rows, and runs at accepted
snapshots (`References`, `Current`); a run's snapshot is marked before it is traded
(`RunsAreMarked`); an attempt begins inside the window and a sleep ends in it, but for
its overshoot (`Timely`). `OnlyTodaysIsTraded` adds the guard of the execution to it:
the run's date is the date of its accepted snapshot, that one the date of both payloads,
and the guard compares the first with the clock. The archive only grows or changes marks
(`Growing`), which settles most actions at once. `WaitMovesOn` is to the wait what
`StepsRunOut` is to a run: a command is in a later part (waiting, planning, ended) after
each step, or in an attempt that began later and inside the window, or in a later place
of the same attempt. It needs that a sleep ends after the attempt before it began
(`Since`), which is why `interval` has to be positive.

*Planner.* `PlanInv` follows the plan: the sum of the weights is a natural number
(`Sums`), so `whole` is positive, and the rest is arithmetic of the nearest lot and the
clipped band, one lemma each (`NearestFacts`, `BufferedFacts`, `RoundedFacts`), and a
case split over the legs of a row (`WantedLegs`). `BuildInv` adds that every row has a
price (`PricesOK`), that what is built from was quoted, two conditions the code writes
twice (`QuotesOK`), and that the intents are the legs that are not dust (`IntentsOK`);
`LegsAddUp` is then a sum of at most two legs, of which only those below the minimum
order at their limit are missing, wherever the book lies to the mark. `LiveInv` follows
the working off: the start of a pending leg is where the position is (`ReadyOK`), no
position is larger than held while a reduction is pending (`BelowHeld`) and none larger
than planned afterwards (`BelowPlan`), and a row without a pending leg is where it
should be but for what may be left over (`SettledOK`). The gross compares with each of
the two bounds row by row and so in the sum (`SumMonotone`). Without the order of the
intents, neither bound would hold.

Only model-checked is what needs fairness: `EveryRunEnds`, `OrdersResolve` and
`EveryCommandEnds`. Of the first and the last, what no scheduling can spoil is proved
(`StepsRunOut`, `WaitMovesOn`): a live process cannot step for ever. That it does
step, and that the scheduled cancel is carried out, is fairness, which is out of the
provers' reach.

## 5. Where the code and its words differ

Each has a run in which TLC finds the counterexample.

1. `ack` - "a previously transmitted CLOID is reconciled before anything new is
   sent" (README.md:245). If the answer to an accepted placement is lost, its row
   stays `prepared` or becomes `rejected` without an oid, and reconciliation skips
   it. A resume goes on to a new CLOID while the first order rests.
2. `interrupt` - "If the process dies while an order rests, Hyperliquid can cancel
   remaining open orders after the configured deadline" (README.md:226). An interrupt
   passes `except Exception` (`execution.py:854`), an error of
   `finish_execution_session` (856) leaves the except clause, and either way the finally
   clause clears the schedule: the session is still running, an order rests, and nothing
   will cancel it.
3. `ledger_rebuild` - the orphan check tells the operator to "rebuild with a fresh
   --live-data" (`execution.py:541`), but leaves the lock of the day taken, and a
   fresh EXECUTE run is refused for it.
4. `cash_retry` - flows of a batch change the units one by one and are marked at the
   end. If a later flow is refused, the earlier ones are unitized again by the next
   sync. A crash before the rows are written does the same.
5. `cash_history` - a flow without a history point before it is stored with
   `applied = 0`; the next sync treats it as known, and the cursor passes it.
6. `signal_skew` - "stale data and transient transport/server conditions retry within
   the bounded publish window" (`live.py:136-137`). Weights and volatilities are two
   requests. If the vendor publishes in between, their dates differ, and
   `parse_signals` raises a message that `_retryable_wait_error` does not list: the
   wait fails before its deadline on two well-formed payloads.

Behaviour that no document rules out is in the history variables instead of in a
violated property: two commands at once (`overlap`, `stolen` in `RunLedger`), a
transfer inside the snapshot and a flow valued at an old history point (`disturbed` in
`CashFlows`), a deadline that passes during the run (`deadman = "early"` in
`Execution`), a crash before the planned mark (`unmarked` in `SignalWait`). The read
of a response that times out (`ReadTimesOut`) leaves the wait and the command with an
error neither handles; the docstring of the wait does not say which transport conditions
it retries, so no property asks for that one. A session in attention can leave an order
without a schedule, which the README of the repository does not promise to avoid.

Two rules of the planner pull against each other without a document that says which
wins: in edge mode a target at the asset limit leaves a held position half a band above
it, and the risk gate then refuses the whole plan. The model has it (`Objections`), and no
property asks for either.

## 6. Not modelled

- `cli.py`: the status commands, the fixture preview and report text. They change
  nothing the properties depend on.
- `config.py`, `env.py`: read once at the start. The `CONSTANTS`, and the settings that
  `Planner` chooses, stand for the values that matter.
- `providers.py`: the field by field parsing of the answers of Hyperliquid. The checks
  of the vendor's payloads are in `SignalWait` by their outcome and order.
- `planner.py`, `buffer.py`: the legacy `relative_target` basis of the buffer, a market
  without `size_decimals`, and the tolerances below one lot, which are equality here.
- `sizing.py`: fixed mode, the clipping of the multiplier, the guard for a changed
  nominal, the event log. None has a state of its own that another part reads.
- `execution.py`: validation of the API wallet, a guard before the first write. The
  clock: the comparison of the signal date at the entry is in `SignalWait`, and a
  midnight during a run is looked at by nothing in the code.
- `reconcile_orders.py`, `reconciliation.py`: called by tests only.
- Two syncing processes, and a ledger feed that lags behind the account, in
  `CashFlows`: nothing in the code or its documents says what is expected, so a property
  about them would have to be invented.

## 7. Plan

Done, in this order: `Execution`, `RunLedger` and `CashFlows` with their first
proofs; `SignalWait`; the abstract `DayClaim` and `SerialTrading` and their refinements,
both proved; `Planner`; the proofs of the wait and of the planner; recorded flows; the
sums, and on them the proofs of what an intent fills and of what a plan's intents do to the
account; the proofs of what a position is and of the end of a run; last, the proofs that
the multiplier is the performance, that the dust rules agree, and that neither a run nor
a wait can go on for ever.

What could follow:

1. Two syncing processes and a lagging feed in `CashFlows`, should the documents come to
   say what they promise.
