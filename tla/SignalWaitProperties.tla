------------------------ MODULE SignalWaitProperties ------------------------
(* What SignalWait must guarantee. *)
EXTENDS SignalWait

Accepted(s) == snapshots[s].verdict = "accepted"
WeightsOf(s) == pulls[snapshots[s].weights]
VolsOf(s) == pulls[snapshots[s].vols]

(* "Stale or malformed responses remain available for diagnosis but cannot  *)
(* trade" (README 121): whatever was published between the two requests,    *)
(* an accepted snapshot holds sound weights and volatilities of the date it *)
(* was accepted for - the volatilities' date as far as they carry one.      *)
AcceptedIsCurrent ==
    \A s \in DOMAIN snapshots : Accepted(s) =>
        /\ WeightsOf(s).payload = [day |-> snapshots[s].date, form |-> "good"]
        /\ VolsOf(s).payload.form = "good"
        /\ VolsDated => VolsOf(s).payload.day = snapshots[s].date

(* The archive tells one story: a snapshot and its two pulls have the same  *)
(* verdict, and what is marked as planned or rebalanced was accepted,       *)
(* wherever the process died (fetch_live_inputs, mark_snapshot_rebalanced).  *)
ArchiveAgrees ==
    /\ \A s \in DOMAIN snapshots :
        /\ WeightsOf(s).verdict = snapshots[s].verdict
        /\ VolsOf(s).verdict = snapshots[s].verdict
        /\ snapshots[s].planned \/ snapshots[s].rebalanced => Accepted(s)
    /\ \A i \in DOMAIN pulls :
        pulls[i].planned \/ pulls[i].rebalanced =>
            \E s \in DOMAIN snapshots : i \in PullsOf(s) /\ Accepted(s)

(* A snapshot that was traded on is marked as planned too, also when the    *)
(* run was planned several times, kept and resumed by other commands; only  *)
(* a crash between persist_run and mark_snapshot_planned can lose the mark. *)
RebalancedWasPlanned ==
    ~unmarked => \A s \in DOMAIN snapshots :
                    snapshots[s].rebalanced => snapshots[s].planned

(* The window is used up before the wait gives up, and not exceeded: the    *)
(* attempt after which it gives up began no later than the deadline - but   *)
(* for what the sleep before it lasted too long - and ended no earlier, so  *)
(* that at the deadline one is still made.                                  *)
WindowUsedUp ==
    outcome = "late" => began <= deadline + Overshoot /\ deadline <= clock

(* "Stale or malformed responses ... cannot trade" (README 121), "a run     *)
(* from a prior UTC signal date cannot be resumed into live execution"      *)
(* (255): whatever date was asked for, whenever midnight passed and         *)
(* however often the run was planned again, an execution only starts from   *)
(* archived responses that are sound and of the UTC date of that moment.    *)
TradesTodaysSignal ==
    [][pc # "trade" /\ pc' = "trade" =>
         LET s == runs[run'].snapshot
         IN  /\ Accepted(s)
             /\ WeightsOf(s).payload = [day |-> Today, form |-> "good"]
             /\ VolsOf(s).payload.form = "good"
             /\ VolsDated => VolsOf(s).payload.day = Today]_vars

(* "Malformed current payloads fail immediately; stale data and transient   *)
(* transport/server conditions retry within the bounded publish window"     *)
(* (live.py 136-137): when a wait fails before its deadline, something was  *)
(* wrong that waiting for the publication cannot cure.                      *)
StaleIsRetried ==
    outcome = "failed" /\ polling /\ clock < deadline =>
        error \in {"http", "malformed", "exchange"}

(* Every command ends: the wait by its deadline, everything else because    *)
(* requests return.                                                         *)
EveryCommandEnds == pc # "idle" ~> pc = "idle"
=============================================================================
