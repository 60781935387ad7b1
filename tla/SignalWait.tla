----------------------------- MODULE SignalWait -----------------------------
(***************************************************************************)
(* From the vendor's two endpoints to a planned and traded signal:         *)
(* fetch_live_inputs and wait_for_live_inputs (live.py) with the archive   *)
(* they write (archive.py), the checks they apply (validation.py,          *)
(* parse_signals), and what main does with the result until the snapshot   *)
(* is marked rebalanced.  The vendor publishes the weights and the         *)
(* volatilities of a day one after the other, at any time, also between    *)
(* the two requests of one attempt.                                        *)
(*                                                                         *)
(* A response, an archive transaction and a check are steps of their own.  *)
(* Which order of the day trades what is RunLedger's and Execution's.      *)
(***************************************************************************)
EXTENDS Naturals, Sequences

CONSTANTS
    VolsDated,      \* volatility rows carry a date
    Interval,       \* signal_poll_seconds, in ticks
    Window,         \* signal_wait_minutes, in ticks
    Overshoot,      \* ticks a sleep may last too long
    AskedDates,     \* what --expected-date may say
    MidnightAt,     \* the tick at which the next UTC day begins
    Forms,          \* the forms a payload may take, see Payload
    MaxClock,       \* bound: ticks
    MaxPulls,       \* bound: answers received
    MaxStarts       \* bound: commands started

Days == 0..2

ASSUME SignalWaitAssumption ==
    /\ VolsDated \in BOOLEAN
    /\ Interval \in Nat \ {0}       \* "signal poll interval must be positive"
    /\ Window \in Nat \ {0}         \* "signal wait window must be positive"
    /\ Overshoot \in Nat
    /\ AskedDates \subseteq Days
    /\ MidnightAt \in Nat
    /\ "good" \in Forms /\ Forms \subseteq {"good", "broken", "insane"}
    /\ MaxClock \in Nat
    /\ MaxPulls \in Nat
    /\ MaxStarts \in Nat

VARIABLES
    (* the world *)
    clock,          \* monotonic clock
    served,         \* per endpoint: the payload it answered with last
    (* the archive *)
    pulls,          \* api_pulls
    snapshots,      \* signal_snapshots
    runs,           \* rebalance_runs: signal_snapshot_id and how far it got
    (* the command *)
    pc,
    polling,        \* TRUE: --wait-for-signal, FALSE: --live-data
    endpoint,       \* the endpoint being asked
    expected,       \* the date the signal must have
    fixed,          \* ... and does not move with the responses
    deadline, wake,
    began,          \* when the attempt began
    pull,           \* per endpoint: id of this attempt's pull
    error,          \* the exception of this attempt, by kind
    run,            \* id of the persisted run
    outcome,        \* how the command ended
    (* what happened, for the properties and the bounds *)
    unmarked,       \* a command died before mark_snapshot_planned
    starts

archiveVars == <<pulls, snapshots, runs>>
attemptVars == <<endpoint, began, pull, error>>
waitVars == <<polling, expected, fixed, deadline, wake>>
commandVars == <<pc, attemptVars, waitVars, run, outcome>>
historyVars == <<unmarked, starts>>
vars == <<clock, served, archiveVars, commandVars, historyVars>>

Endpoints == {"weights", "vols"}
\* "broken" fails before the date is looked at (not JSON, rows missing,
\* duplicate or not numeric, wrong universe), "insane" after it (a price or a
\* volatility that is not positive).
Payload == [day : Days, form : Forms]

Today == IF clock < MidnightAt THEN 1 ELSE 2

Verdicts == {"unvalidated", "accepted", "rejected"}
Errors == {"none", "transport", "busy", "http", "malformed", "mismatch",
           "stale", "exchange"}
Pull == [endpoint : Endpoints, payload : Payload, answer : Errors,
         verdict : Verdicts, planned : BOOLEAN, rebalanced : BOOLEAN]
Snapshot == [weights : Nat, vols : Nat, date : Days, verdict : Verdicts,
             planned : BOOLEAN, rebalanced : BOOLEAN]
Run == [snapshot : Nat, status : {"planned", "started", "complete"}]

TypeOK ==
    /\ clock \in 0..MaxClock
    /\ served \in [Endpoints -> Payload]
    /\ pulls \in Seq(Pull)
    /\ snapshots \in Seq(Snapshot)
    /\ runs \in Seq(Run)
    /\ pc \in {"idle", "fetch", "status", "mark", "snapshot", "exchange",
               "caught", "sleep", "plan", "markPlanned", "execute", "trade",
               "markRebalanced"}
    /\ polling \in BOOLEAN
    /\ endpoint \in Endpoints
    /\ expected \in Days
    /\ fixed \in BOOLEAN
    /\ deadline \in Nat /\ wake \in Nat /\ began \in Nat
    /\ pull \in [Endpoints -> Nat]
    /\ error \in Errors
    /\ run \in Nat
    /\ outcome \in {"none", "inputs", "failed", "late", "escaped"}
    /\ unmarked \in BOOLEAN
    /\ starts \in 0..MaxStarts

Init ==
    /\ clock = 0
    /\ served = [e \in Endpoints |-> [day |-> 0, form |-> "good"]]
    /\ pulls = <<>> /\ snapshots = <<>> /\ runs = <<>>
    /\ pc = "idle"
    /\ polling = FALSE
    /\ endpoint = "weights"
    /\ expected = 0
    /\ fixed = FALSE
    /\ deadline = 0 /\ wake = 0 /\ began = 0
    /\ pull = [e \in Endpoints |-> 0]
    /\ error = "none"
    /\ run = 0
    /\ outcome = "none"
    /\ unmarked = FALSE /\ starts = 0

Goto(p) == pc' = p
Ended(how) == pc' = "idle" /\ outcome' = how

\* The variables of wait_for_live_inputs and fetch_live_inputs are local.
LeaveWait ==
    /\ polling' = FALSE /\ expected' = 0 /\ fixed' = FALSE
    /\ deadline' = 0 /\ wake' = 0
    /\ endpoint' = "weights" /\ began' = 0 /\ error' = "none"
    /\ pull' = [e \in Endpoints |-> 0]

-----------------------------------------------------------------------------
(* The command and its attempts *)

BeginAttempt ==
    /\ Goto("fetch")
    /\ endpoint' = "weights"
    /\ began' = clock
    /\ pull' = [e \in Endpoints |-> 0]
    /\ error' = "none"

\* The date to wait for is fixed here, also if midnight passes; so is the
\* one of --expected-date.
Start(poll) ==
    /\ pc = "idle"
    /\ starts < MaxStarts
    /\ poll => clock + Window <= MaxClock   \* bound: to the window's end
    /\ starts' = starts + 1
    /\ polling' = poll
    /\ \/ expected' = Today /\ fixed' = poll
       \/ expected' \in AskedDates /\ fixed' = TRUE
    /\ deadline' = IF poll THEN clock + Window ELSE 0
    /\ wake' = 0
    /\ run' = 0
    /\ outcome' = "none"
    /\ BeginAttempt
    /\ UNCHANGED <<clock, served, archiveVars, unmarked>>

\* What the vendor may have published since: a later day's payload, or the
\* same day's put right.
Published(e) ==
    {p \in Payload :
        \/ p = served[e]
        \/ p.day > served[e].day /\ p.day <= Today
        \/ p.day = served[e].day /\ served[e].form # "good" /\ p.form = "good"}

\* An answer is archived before anything is read from it.
Answered(answer, payload) ==
    /\ pc = "fetch"
    /\ Len(pulls) < MaxPulls
    /\ payload \in Published(endpoint)
    /\ answer # "none" => payload = served[endpoint]   \* an error page
    /\ served' = [served EXCEPT ![endpoint] = payload]
    /\ pulls' = Append(pulls,
                    [endpoint |-> endpoint, payload |-> payload,
                     answer |-> answer,
                     verdict |-> "unvalidated",
                     planned |-> FALSE, rebalanced |-> FALSE])
    /\ pull' = [pull EXCEPT ![endpoint] = Len(pulls) + 1]
    /\ Goto("status")
    /\ UNCHANGED <<clock, snapshots, runs, endpoint, began, error, waitVars,
                   run, outcome, historyVars>>

Raise(kind) == error' = kind /\ Goto("caught")

\* URLError: no answer, no row.
Unreachable ==
    /\ pc = "fetch"
    /\ Raise("transport")
    /\ UNCHANGED <<clock, served, archiveVars, endpoint, began, pull, waitVars,
                   run, outcome, historyVars>>

\* A read that times out is an OSError of neither kind the wait catches.
ReadTimesOut ==
    /\ pc = "fetch"
    /\ Ended("escaped")
    /\ UNCHANGED <<clock, served, archiveVars, attemptVars, waitVars, run,
                   historyVars>>

MarkPull(id, verdict) == pulls' = [pulls EXCEPT ![id].verdict = verdict]

BadStatus ==
    /\ pc = "status"
    /\ pulls[pull[endpoint]].answer # "none"
    /\ MarkPull(pull[endpoint], "rejected")
    /\ Raise(pulls[pull[endpoint]].answer)
    /\ UNCHANGED <<clock, served, snapshots, runs, endpoint, began, pull,
                   waitVars, run, outcome, historyVars>>

\* Faulty: the two dates are not compared.
ParsedUndated(w, v) ==
    IF "broken" \in {w.form, v.form} THEN "malformed" ELSE "none"

\* parse_signals, per ticker; "broken" stands for the row counts, too.
Parsed(w, v) ==
    IF "broken" \in {w.form, v.form} THEN "malformed"
    ELSE IF VolsDated /\ w.day # v.day THEN "mismatch" ELSE "none"

\* validate_signals: the date comes before the numbers.
Validated(w, v) ==
    IF w.day # expected THEN "stale"
    ELSE IF "insane" \in {w.form, v.form} THEN "malformed" ELSE "none"

\* The first check that fails.
Judge(w, v) == IF Parsed(w, v) = "none" THEN Validated(w, v) ELSE Parsed(w, v)

PayloadOf(e) == pulls[pull[e]].payload

\* The second request is made, or both answers are checked.  A date that is
\* not fixed is the one at which the later request was made.
GoodStatus ==
    /\ pc = "status"
    /\ pulls[pull[endpoint]].answer = "none"
    /\ IF endpoint = "weights"
       THEN /\ endpoint' = "vols" /\ Goto("fetch")
            /\ expected' = IF fixed THEN expected ELSE Today
            /\ UNCHANGED error
       ELSE /\ error' = Judge(PayloadOf("weights"), PayloadOf("vols"))
            /\ endpoint' = "weights" /\ Goto("mark") /\ UNCHANGED expected
    /\ UNCHANGED <<clock, served, archiveVars, began, pull, polling, fixed,
                   deadline, wake, run, outcome, historyVars>>

Verdict == IF error = "none" THEN "accepted" ELSE "rejected"

\* Faulty: only the pull that was read last is marked.
MarkValidationLast ==
    /\ pc = "mark"
    /\ MarkPull(pull["vols"], Verdict)
    /\ Goto("snapshot")
    /\ UNCHANGED <<clock, served, snapshots, runs, attemptVars, waitVars, run,
                   outcome, historyVars>>

\* Both pulls get the verdict, one transaction each.
MarkValidation ==
    /\ pc = "mark"
    /\ MarkPull(pull[endpoint], Verdict)
    /\ IF endpoint = "weights" THEN endpoint' = "vols" /\ UNCHANGED pc
       ELSE Goto("snapshot") /\ UNCHANGED endpoint
    /\ UNCHANGED <<clock, served, snapshots, runs, began, pull, error,
                   waitVars, run, outcome, historyVars>>

RecordSnapshot ==
    /\ pc = "snapshot"
    /\ snapshots' = Append(snapshots,
                        [weights |-> pull["weights"], vols |-> pull["vols"],
                         date |-> expected, verdict |-> Verdict,
                         planned |-> FALSE, rebalanced |-> FALSE])
    /\ Goto(IF error = "none" THEN "exchange" ELSE "caught")
    /\ UNCHANGED <<clock, served, pulls, runs, attemptVars, waitVars, run,
                   outcome, historyVars>>

ExchangeRead ==
    /\ pc = "exchange"
    /\ Goto("plan")
    /\ outcome' = "inputs"
    /\ LeaveWait
    /\ UNCHANGED <<clock, served, archiveVars, run, historyVars>>

ExchangeFails ==
    /\ pc = "exchange"
    /\ Raise("exchange")
    /\ UNCHANGED <<clock, served, archiveVars, endpoint, began, pull, waitVars,
                   run, outcome, historyVars>>

-----------------------------------------------------------------------------
(* After an exception: wait_for_live_inputs *)

\* By the text of the exception: 429, 500, 502, 503 and 504 are "busy".
Retryable == {"stale", "transport", "busy"}

GiveUp ==
    /\ pc = "caught"
    /\ ~polling \/ error \notin Retryable
    /\ Ended("failed")
    /\ UNCHANGED <<clock, served, archiveVars, attemptVars, waitVars, run,
                   historyVars>>

\* Faulty: no attempt is made for the rest of the window.
RemainingRounded == IF deadline <= clock + Interval THEN 0 ELSE deadline - clock

Remaining == IF deadline <= clock THEN 0 ELSE deadline - clock

TooLate ==
    /\ pc = "caught"
    /\ polling /\ error \in Retryable
    /\ Remaining = 0
    /\ Ended("late")
    /\ UNCHANGED <<clock, served, archiveVars, attemptVars, waitVars, run,
                   historyVars>>

Delay == IF Interval < Remaining THEN Interval ELSE Remaining

Sleep ==
    /\ pc = "caught"
    /\ polling /\ error \in Retryable
    /\ Remaining > 0
    /\ wake' = clock + Delay
    /\ Goto("sleep")
    /\ UNCHANGED <<clock, served, archiveVars, attemptVars, polling, expected,
                   fixed, deadline, run, outcome, historyVars>>

\* Faulty: the window begins again with every attempt.
WakeUpAnew ==
    /\ pc = "sleep"
    /\ clock >= wake
    /\ wake' = 0
    /\ deadline' = clock + Window
    /\ BeginAttempt
    /\ UNCHANGED <<clock, served, archiveVars, polling, expected, fixed, run,
                   outcome, historyVars>>

WakeUp ==
    /\ pc = "sleep"
    /\ clock >= wake
    /\ wake' = 0
    /\ BeginAttempt
    /\ UNCHANGED <<clock, served, archiveVars, polling, expected, fixed,
                   deadline, run, outcome, historyVars>>

-----------------------------------------------------------------------------
(* main: the run that is planned from the snapshot *)

Latest == Len(snapshots)
Fingerprint(s) == <<snapshots[s].date, pulls[snapshots[s].weights].payload,
                    pulls[snapshots[s].vols].payload>>

\* Cash-flow sync or sizing refuses, or the plan's checks raise.
PlanBlocked ==
    /\ pc = "plan"
    /\ Goto("idle")
    /\ run' = 0
    /\ UNCHANGED <<clock, served, archiveVars, attemptVars, waitVars,
                   outcome, historyVars>>

\* A plan that was not made before: a new run key.
PersistNew ==
    /\ pc = "plan"
    /\ runs' = Append(runs, [snapshot |-> Latest, status |-> "planned"])
    /\ run' = Len(runs) + 1
    /\ Goto("markPlanned")
    /\ UNCHANGED <<clock, served, pulls, snapshots, attemptVars, waitVars,
                   outcome, historyVars>>

\* The same plan from the same responses: refreshed until it is executed.
PersistAgain(r) ==
    /\ pc = "plan"
    /\ Fingerprint(runs[r].snapshot) = Fingerprint(Latest)
    /\ runs' = IF runs[r].status = "planned"
               THEN [runs EXCEPT ![r].snapshot = Latest] ELSE runs
    /\ run' = r
    /\ Goto("markPlanned")
    /\ UNCHANGED <<clock, served, pulls, snapshots, attemptVars, waitVars,
                   outcome, historyVars>>

PullsOf(s) == {snapshots[s].weights, snapshots[s].vols}

\* Faulty: the run's snapshot instead of the one the plan was made from.
MarkPlannedOfRun ==
    /\ pc = "markPlanned"
    /\ snapshots' = [snapshots EXCEPT ![run].planned = TRUE]
    /\ Goto("execute")
    /\ UNCHANGED <<clock, served, pulls, runs, attemptVars, waitVars, run,
                   outcome, historyVars>>

MarkPlanned ==
    /\ pc = "markPlanned"
    /\ snapshots' = [snapshots EXCEPT ![Latest].planned = TRUE]
    /\ pulls' = [i \in DOMAIN pulls |->
                    [pulls[i] EXCEPT !.planned = @ \/ i \in PullsOf(Latest)]]
    /\ Goto("execute")
    /\ UNCHANGED <<clock, served, runs, attemptVars, waitVars, run, outcome,
                   historyVars>>

DateOf(r) == snapshots[runs[r].snapshot].date

\* Faulty: a run is executed whenever it is asked for.
AnyDate(r) == TRUE

\* "refusing stale execution"
IsCurrent(r) == DateOf(r) = Today

\* PLAN mode, a failed health check, a run of another date than today's, or
\* a day that is locked already.
DoNotExecute ==
    /\ pc = "execute"
    /\ Goto("idle")
    /\ run' = 0
    /\ UNCHANGED <<clock, served, archiveVars, attemptVars, waitVars,
                   outcome, historyVars>>

Execute ==
    /\ pc = "execute"
    /\ IsCurrent(run)
    /\ \A r \in DOMAIN runs :
          DateOf(r) = DateOf(run) => runs[r].status = "planned"
    /\ runs' = [runs EXCEPT ![run].status = "started"]
    /\ Goto("trade")
    /\ UNCHANGED <<clock, served, pulls, snapshots, attemptVars, waitVars, run,
                   outcome, historyVars>>

Resume(r) ==
    /\ pc = "idle"
    /\ starts < MaxStarts
    /\ runs[r].status = "started"
    /\ IsCurrent(r)
    /\ starts' = starts + 1
    /\ run' = r
    /\ outcome' = "none"
    /\ Goto("trade")
    /\ LeaveWait
    /\ UNCHANGED <<clock, served, archiveVars, unmarked>>

\* The session ends in attention: it can be resumed.
Attention ==
    /\ pc = "trade"
    /\ Goto("idle")
    /\ run' = 0
    /\ UNCHANGED <<clock, served, archiveVars, attemptVars, waitVars,
                   outcome, historyVars>>

Complete ==
    /\ pc = "trade"
    /\ runs' = [runs EXCEPT ![run].status = "complete"]
    /\ Goto("markRebalanced")
    /\ UNCHANGED <<clock, served, pulls, snapshots, attemptVars, waitVars, run,
                   outcome, historyVars>>

MarkRebalanced ==
    /\ pc = "markRebalanced"
    /\ LET s == runs[run].snapshot IN
        /\ snapshots' = [snapshots EXCEPT ![s].rebalanced = TRUE]
        /\ pulls' = [i \in DOMAIN pulls |->
                        [pulls[i] EXCEPT !.rebalanced = @ \/ i \in PullsOf(s)]]
    /\ Goto("idle")
    /\ run' = 0
    /\ UNCHANGED <<clock, served, runs, attemptVars, waitVars, outcome,
                   historyVars>>

-----------------------------------------------------------------------------
(* Failures and time *)

Crash ==
    /\ pc # "idle"
    /\ Ended("none")
    /\ unmarked' = (unmarked \/ pc = "markPlanned")
    /\ run' = 0
    /\ LeaveWait
    /\ UNCHANGED <<clock, served, archiveVars, starts>>

\* A sleep may last a little too long; the rest takes as long as it takes.
Tick ==
    /\ clock < MaxClock
    /\ pc = "sleep" => clock < wake + Overshoot
    /\ clock' = clock + 1
    /\ UNCHANGED <<served, archiveVars, commandVars, historyVars>>

-----------------------------------------------------------------------------
CommandStep ==
    \/ \E answer \in {"none", "busy", "http"}, payload \in Payload :
            Answered(answer, payload)
    \/ Unreachable \/ ReadTimesOut \/ BadStatus \/ GoodStatus
    \/ MarkValidation \/ RecordSnapshot \/ ExchangeRead \/ ExchangeFails
    \/ GiveUp \/ TooLate \/ Sleep \/ WakeUp
    \/ PlanBlocked \/ PersistNew \/ \E r \in DOMAIN runs : PersistAgain(r)
    \/ MarkPlanned \/ DoNotExecute \/ Execute
    \/ Attention \/ Complete \/ MarkRebalanced

Next ==
    \/ \E poll \in BOOLEAN : Start(poll)
    \/ \E r \in DOMAIN runs : Resume(r)
    \/ CommandStep \/ Crash \/ Tick

\* The process keeps running and time keeps passing.
Spec == Init /\ [][Next]_vars /\ WF_vars(CommandStep) /\ WF_vars(Tick)
=============================================================================
