-------------------------- MODULE SignalWaitProofs --------------------------
(* Proofs, for every window, interval, form of payload and number of        *)
(* commands, of the safety properties of the signal wait and its archive.   *)
EXTENDS SignalWaitProperties, SequenceTheorems, TLAPS

(* A sequence whose elements are replaced is one of the same length.        *)
LEMMA SequenceUpdated ==
    ASSUME NEW S, NEW s \in Seq(S), NEW t \in [DOMAIN s -> S]
    PROVE  t \in Seq(S) /\ Len(t) = Len(s) /\ DOMAIN t = DOMAIN s
  <1>1. Len(s) \in Nat /\ DOMAIN s = 1..Len(s)
    OBVIOUS
  <1>2. t \in Seq(S)
    BY <1>1, SeqDef
  <1> QED BY <1>1, <1>2

(* A sequence that grows by one element.                                    *)
LEMMA SequenceAppended ==
    ASSUME NEW S, NEW s \in Seq(S), NEW x \in S
    PROVE  /\ Append(s, x) \in Seq(S)
           /\ DOMAIN Append(s, x) = DOMAIN s \cup {Len(s) + 1}
           /\ Len(s) + 1 \notin DOMAIN s
           /\ Len(s) + 1 \in Nat
           /\ Append(s, x)[Len(s) + 1] = x
           /\ Len(Append(s, x)) = Len(s) + 1
           /\ \A i \in DOMAIN s : Append(s, x)[i] = s[i]
  <1>1. Len(s) \in Nat /\ DOMAIN s = 1..Len(s)
    OBVIOUS
  <1> QED BY <1>1, AppendProperties

-----------------------------------------------------------------------------
(* The invariant *)

(* The pulls of the attempt that is under way.                              *)
Pending(e) ==
    \/ pc \in {"mark", "snapshot"}
    \/ pc = "status" /\ e = endpoint
    \/ pc \in {"fetch", "status"} /\ endpoint = "vols" /\ e = "weights"

(* They are archived, and no snapshot refers to them yet.                   *)
PendingAreNew ==
    \A e \in Endpoints : Pending(e) =>
        /\ pull[e] \in DOMAIN pulls
        /\ \A s \in DOMAIN snapshots : pull[e] \notin PullsOf(s)

(* What was decided is what the two payloads say, and what is marked.       *)
Decided ==
    /\ pc \in {"mark", "snapshot"} =>
           error = Judge(PayloadOf("weights"), PayloadOf("vols"))
    /\ pc = "mark" /\ endpoint = "vols" =>
           pulls[pull["weights"]].verdict = Verdict
    /\ pc = "snapshot" => \A e \in Endpoints : pulls[pull[e]].verdict = Verdict
    /\ pc = "caught" => error # "none"

References ==
    /\ \A s \in DOMAIN snapshots : PullsOf(s) \subseteq DOMAIN pulls
    /\ \A r \in DOMAIN runs :
           runs[r].snapshot \in DOMAIN snapshots /\ Accepted(runs[r].snapshot)

(* What is planned from and traded on.                                      *)
Current ==
    /\ pc = "exchange" => error = "none"
    /\ pc \in {"exchange", "plan", "markPlanned"} =>
           Latest \in DOMAIN snapshots /\ Accepted(Latest)
    /\ pc \in {"markPlanned", "execute", "trade", "markRebalanced"} =>
           run \in DOMAIN runs

(* A run's snapshot is marked as planned before anything is done with it.   *)
RunsAreMarked ==
    ~unmarked => \A r \in DOMAIN runs :
        \/ snapshots[runs[r].snapshot].planned
        \/ pc = "markPlanned" /\ runs[r].snapshot = Latest

(* An attempt begins within the window, but for what a sleep that was to    *)
(* end in it lasted too long.                                               *)
Timely ==
    /\ polling /\ pc \in {"fetch", "status", "mark", "snapshot", "exchange",
                          "caught"} => began <= deadline + Overshoot
    /\ pc = "sleep" => clock <= wake + Overshoot /\ wake <= deadline
    /\ pc # "idle" => outcome \in {"none", "inputs"}
    /\ WindowUsedUp

WaitInv ==
    /\ TypeOK /\ PendingAreNew /\ Decided /\ References /\ Current
    /\ RunsAreMarked /\ Timely
    /\ AcceptedIsCurrent /\ ArchiveAgrees /\ RebalancedWasPlanned

(* Nothing is archived yet.                                                 *)
LEMMA WaitInit == Init => WaitInv
  <1> SUFFICES ASSUME Init PROVE WaitInv
    OBVIOUS
  <1> USE SignalWaitAssumption
  <1>1. TypeOK
    <2>1. [day |-> 0, form |-> "good"] \in Payload
      BY DEF Payload, Days
    <2>2. served \in [Endpoints -> Payload] /\ pull \in [Endpoints -> Nat]
      BY <2>1 DEF Init
    <2>3. <<>> \in Seq(Pull) /\ <<>> \in Seq(Snapshot) /\ <<>> \in Seq(Run)
      OBVIOUS
    <2>4. endpoint \in Endpoints /\ error \in Errors /\ expected \in Days
      BY DEF Init, Days, Errors, Endpoints
    <2>5. /\ pulls \in Seq(Pull) /\ snapshots \in Seq(Snapshot)
          /\ runs \in Seq(Run)
      BY <2>3 DEF Init
    <2>6. clock \in 0..MaxClock /\ starts \in 0..MaxStarts
      BY DEF Init
    <2>7. /\ pc = "idle" /\ outcome = "none" /\ polling = FALSE
          /\ unmarked = FALSE /\ fixed = FALSE
          /\ deadline = 0 /\ wake = 0 /\ began = 0 /\ run = 0
      BY DEF Init
    <2> QED BY <2>2, <2>4, <2>5, <2>6, <2>7 DEF TypeOK
  <1>2. DOMAIN pulls = {} /\ DOMAIN snapshots = {} /\ DOMAIN runs = {}
    BY DEF Init
  <1>3. PendingAreNew /\ Decided /\ Current /\ Timely
    BY DEF Init, PendingAreNew, Pending, Decided, Current, Timely,
           WindowUsedUp
  <1>4. /\ References /\ RunsAreMarked /\ AcceptedIsCurrent /\ ArchiveAgrees
        /\ RebalancedWasPlanned
    BY <1>2 DEF References, RunsAreMarked, AcceptedIsCurrent, ArchiveAgrees,
                RebalancedWasPlanned
  <1> QED BY <1>1, <1>3, <1>4 DEF WaitInv

-----------------------------------------------------------------------------
(* Types: the archive's sequences first *)

ArchiveTyped ==
    pulls \in Seq(Pull) /\ snapshots \in Seq(Snapshot) /\ runs \in Seq(Run)

(* mark_validation changes the verdict of one pull.                         *)
LEMMA MarkedPull ==
    ASSUME TypeOK, NEW id \in DOMAIN pulls, NEW verdict \in Verdicts,
           MarkPull(id, verdict)
    PROVE  /\ pulls' \in Seq(Pull)
           /\ DOMAIN pulls' = DOMAIN pulls
           /\ pulls'[id].verdict = verdict
           /\ \A i \in DOMAIN pulls :
                /\ pulls'[i].payload = pulls[i].payload
                /\ pulls'[i].planned = pulls[i].planned
                /\ pulls'[i].rebalanced = pulls[i].rebalanced
                /\ i # id => pulls'[i] = pulls[i]
  <1>1. pulls \in Seq(Pull) /\ \A i \in DOMAIN pulls : pulls[i] \in Pull
    BY DEF TypeOK
  <1>2. pulls' = [pulls EXCEPT ![id].verdict = verdict]
    BY DEF MarkPull
  <1>3. /\ DOMAIN pulls' = DOMAIN pulls
        /\ \A i \in DOMAIN pulls :
               pulls'[i] = IF i = id THEN [pulls[id] EXCEPT !.verdict = verdict]
                           ELSE pulls[i]
    BY <1>1, <1>2
  <1>4. [pulls[id] EXCEPT !.verdict = verdict] \in Pull
    BY <1>1 DEF Pull
  <1>5. pulls' \in [DOMAIN pulls -> Pull]
    BY <1>1, <1>2, <1>3, <1>4
  <1> QED BY <1>1, <1>3, <1>5, SequenceUpdated DEF Pull

(* Marks are added to the pulls of a snapshot.                              *)
LEMMA FlaggedPulls ==
    ASSUME TypeOK, NEW t, NEW ids,
           \/ t = [i \in DOMAIN pulls |->
                     [pulls[i] EXCEPT !.planned = @ \/ i \in ids]]
           \/ t = [i \in DOMAIN pulls |->
                     [pulls[i] EXCEPT !.rebalanced = @ \/ i \in ids]]
    PROVE  /\ t \in Seq(Pull)
           /\ DOMAIN t = DOMAIN pulls
           /\ \A i \in DOMAIN pulls :
                /\ t[i].payload = pulls[i].payload
                /\ t[i].verdict = pulls[i].verdict
                /\ t[i].planned \/ t[i].rebalanced =>
                      pulls[i].planned \/ pulls[i].rebalanced \/ i \in ids
  <1>1. pulls \in Seq(Pull) /\ \A i \in DOMAIN pulls : pulls[i] \in Pull
    BY DEF TypeOK
  <1>2. \A i \in DOMAIN pulls :
            /\ [pulls[i] EXCEPT !.planned = @ \/ i \in ids] \in Pull
            /\ [pulls[i] EXCEPT !.rebalanced = @ \/ i \in ids] \in Pull
    BY <1>1 DEF Pull
  <1>3. t \in [DOMAIN pulls -> Pull]
    BY <1>2
  <1>4. t \in Seq(Pull) /\ DOMAIN t = DOMAIN pulls
    BY <1>1, <1>3, SequenceUpdated
  <1> QED BY <1>1, <1>4 DEF Pull

(* A mark is added to one snapshot.                                         *)
LEMMA FlaggedSnapshot ==
    ASSUME TypeOK, NEW t, NEW s \in DOMAIN snapshots,
           \/ t = [snapshots EXCEPT ![s].planned = TRUE]
           \/ t = [snapshots EXCEPT ![s].rebalanced = TRUE]
    PROVE  /\ t \in Seq(Snapshot)
           /\ Len(t) = Len(snapshots)
           /\ DOMAIN t = DOMAIN snapshots
           /\ \A i \in DOMAIN snapshots :
                /\ t[i].weights = snapshots[i].weights
                /\ t[i].vols = snapshots[i].vols
                /\ t[i].date = snapshots[i].date
                /\ t[i].verdict = snapshots[i].verdict
                /\ snapshots[i].planned => t[i].planned
                /\ snapshots[i].rebalanced => t[i].rebalanced
                /\ i # s => t[i] = snapshots[i]
  <1>1. /\ snapshots \in Seq(Snapshot)
        /\ \A i \in DOMAIN snapshots : snapshots[i] \in Snapshot
    BY DEF TypeOK
  <1>2. /\ [snapshots[s] EXCEPT !.planned = TRUE] \in Snapshot
        /\ [snapshots[s] EXCEPT !.rebalanced = TRUE] \in Snapshot
    BY <1>1 DEF Snapshot
  <1>3. /\ DOMAIN t = DOMAIN snapshots
        /\ \A i \in DOMAIN snapshots : i # s => t[i] = snapshots[i]
        /\ \/ t[s] = [snapshots[s] EXCEPT !.planned = TRUE]
           \/ t[s] = [snapshots[s] EXCEPT !.rebalanced = TRUE]
    BY <1>1
  <1>4. t \in [DOMAIN snapshots -> Snapshot]
    BY <1>1, <1>2, <1>3
  <1>5. t \in Seq(Snapshot) /\ Len(t) = Len(snapshots)
    BY <1>1, <1>4, SequenceUpdated
  <1>6. /\ t[s].weights = snapshots[s].weights
        /\ t[s].vols = snapshots[s].vols
        /\ t[s].date = snapshots[s].date
        /\ t[s].verdict = snapshots[s].verdict
        /\ snapshots[s].planned => t[s].planned
        /\ snapshots[s].rebalanced => t[s].rebalanced
    BY <1>1, <1>3 DEF Snapshot
  <1> QED BY <1>3, <1>5, <1>6

(* One run's row is updated.                                                *)
LEMMA UpdatedRun ==
    ASSUME TypeOK, NEW t, NEW r \in DOMAIN runs,
           \/ \E status \in {"started", "complete"} :
                  t = [runs EXCEPT ![r].status = status]
           \/ \E s \in Nat : t = [runs EXCEPT ![r].snapshot = s]
    PROVE  t \in Seq(Run) /\ DOMAIN t = DOMAIN runs
  <1>1. runs \in Seq(Run) /\ \A i \in DOMAIN runs : runs[i] \in Run
    BY DEF TypeOK
  <1>2. /\ \A status \in {"started", "complete"} :
               [runs[r] EXCEPT !.status = status] \in Run
        /\ \A s \in Nat : [runs[r] EXCEPT !.snapshot = s] \in Run
    BY <1>1 DEF Run
  <1>3. t \in [DOMAIN runs -> Run]
    BY <1>1, <1>2
  <1> QED BY <1>1, <1>3, SequenceUpdated

-----------------------------------------------------------------------------
(* The rest of type correctness *)

CommandTyped ==
    /\ clock \in 0..MaxClock
    /\ served \in [Endpoints -> Payload]
    /\ pc \in {"idle", "fetch", "status", "mark", "snapshot", "exchange",
               "caught", "sleep", "plan", "markPlanned", "execute", "trade",
               "markRebalanced"}
    /\ polling \in BOOLEAN
    /\ endpoint \in Endpoints
    /\ expected \in Days
    /\ fixed \in BOOLEAN
    /\ deadline \in Nat /\ wake \in Nat /\ began \in Nat
    /\ pull \in [Endpoints -> Nat]
    /\ error \in Errors
    /\ run \in Nat
    /\ outcome \in {"none", "inputs", "failed", "late", "escaped"}
    /\ unmarked \in BOOLEAN
    /\ starts \in 0..MaxStarts

(* Facts about the fixed sets.                                              *)
LEMMA Constants ==
    /\ "weights" \in Endpoints /\ "vols" \in Endpoints
    /\ Endpoints = {"weights", "vols"}
    /\ Today \in Days /\ 0 \in Days
    /\ {"none", "transport", "busy", "http", "malformed", "mismatch", "stale",
        "exchange"} = Errors
    /\ \A w, v : Judge(w, v) \in Errors
    /\ Verdict \in Verdicts
    /\ [e \in Endpoints |-> 0] \in [Endpoints -> Nat]
  BY DEF Endpoints, Today, Days, Errors, Judge, Parsed, Validated,
         Verdict, Verdicts

(* What is reset has its type.                                              *)
LEMMA LeaveWaitTyped ==
    LeaveWait => /\ polling' \in BOOLEAN /\ endpoint' \in Endpoints
                 /\ expected' \in Days /\ fixed' \in BOOLEAN
                 /\ deadline' \in Nat /\ wake' \in Nat /\ began' \in Nat
                 /\ pull' \in [Endpoints -> Nat] /\ error' \in Errors
  BY Constants DEF LeaveWait

(* Every action keeps the types of what is not archived.                    *)
LEMMA CommandTypedStep == WaitInv /\ [Next]_vars => CommandTyped'
  <1> SUFFICES ASSUME WaitInv, [Next]_vars PROVE CommandTyped'
    OBVIOUS
  <1> USE SignalWaitAssumption, Constants
  <1>1. CommandTyped /\ TypeOK
    BY DEF WaitInv, TypeOK, CommandTyped
  <1>2. ASSUME NEW poll \in BOOLEAN, Start(poll) PROVE CommandTyped'
    <2>1. expected' \in Days /\ fixed' \in BOOLEAN
      <3>1. Today \in Days
        BY DEF Today, Days
      <3> QED BY <1>2, <3>1 DEF Start
    <2>2. /\ pc' = "fetch" /\ polling' \in BOOLEAN /\ endpoint' \in Endpoints
          /\ deadline' \in Nat /\ wake' \in Nat /\ began' \in Nat
          /\ pull' \in [Endpoints -> Nat] /\ error' \in Errors
      BY <1>1, <1>2 DEF CommandTyped, Start, BeginAttempt, Goto, Endpoints, Errors
    <2>3. /\ clock' = clock /\ served' = served /\ unmarked' = unmarked
          /\ run' = 0 /\ outcome' = "none" /\ starts' \in 0..MaxStarts
      BY <1>1, <1>2 DEF CommandTyped, Start
    <2> QED BY <1>1, <2>1, <2>2, <2>3 DEF CommandTyped
  <1>3. ASSUME NEW r \in DOMAIN runs, Resume(r) PROVE CommandTyped'
    <2>1. r \in Nat
      BY <1>1 DEF TypeOK
    <2> QED BY <1>1, <1>3, <2>1, LeaveWaitTyped DEF CommandTyped, Resume, Goto
  <1>4. ASSUME NEW answer \in {"none", "busy", "http"},
               NEW payload \in Payload, Answered(answer, payload)
        PROVE  CommandTyped'
    <2>1. Len(pulls) + 1 \in Nat
      BY <1>1 DEF TypeOK
    <2>2. served' \in [Endpoints -> Payload] /\ pull' \in [Endpoints -> Nat]
      BY <1>1, <1>4, <2>1 DEF Answered, CommandTyped
    <2> QED BY <1>1, <1>4, <2>2
            DEF CommandTyped, Answered, Goto, waitVars, historyVars
  <1>5. CASE Unreachable \/ ReadTimesOut \/ ExchangeRead \/ ExchangeFails
    BY <1>1, <1>5
       DEF CommandTyped, Unreachable, ReadTimesOut, ExchangeRead,
           ExchangeFails, Raise, Goto, Ended, LeaveWait, attemptVars, waitVars,
           historyVars
  <1>6. CASE BadStatus
    <2>1. error' \in Errors
      <3>1. pull[endpoint] \in DOMAIN pulls
        BY <1>6 DEF WaitInv, PendingAreNew, Pending, BadStatus, CommandTyped,
                    TypeOK
      <3>2. pulls[pull[endpoint]] \in Pull
        BY <1>1, <3>1 DEF TypeOK
      <3> QED BY <1>6, <3>2 DEF BadStatus, Raise, Pull
    <2> QED BY <1>1, <1>6, <2>1
            DEF CommandTyped, BadStatus, Raise, Goto, waitVars, historyVars
  <1>7. CASE GoodStatus \/ MarkValidation \/ RecordSnapshot
    BY <1>1, <1>7
       DEF CommandTyped, GoodStatus, MarkValidation, RecordSnapshot, Goto,
           attemptVars, waitVars, historyVars
  <1>8. CASE GiveUp \/ TooLate \/ Sleep \/ WakeUp
    BY <1>1, <1>8
       DEF CommandTyped, GiveUp, TooLate, Sleep, WakeUp, Goto, Ended, Delay,
           Remaining, BeginAttempt, attemptVars, waitVars, historyVars
  <1>9. CASE \/ PlanBlocked \/ PersistNew \/ \E r \in DOMAIN runs :
                  PersistAgain(r)
    <2>1. Len(runs) + 1 \in Nat /\ DOMAIN runs \subseteq Nat
      BY <1>1 DEF TypeOK
    <2> QED BY <1>1, <1>9, <2>1
            DEF CommandTyped, PlanBlocked, PersistNew, PersistAgain, Goto,
                attemptVars, waitVars, historyVars
  <1>10. CASE MarkPlanned \/ DoNotExecute \/ Execute \/ Attention \/ Complete
              \/ MarkRebalanced
    BY <1>1, <1>10
       DEF CommandTyped, MarkPlanned, DoNotExecute, Execute, Attention,
           Complete, MarkRebalanced, Goto, attemptVars, waitVars, historyVars
  <1>11. CASE Crash
    <2>1. unmarked' \in BOOLEAN
      BY <1>1, <1>11 DEF Crash, CommandTyped
    <2>2. /\ UNCHANGED <<clock, served, starts>>
          /\ pc' = "idle" /\ outcome' = "none" /\ run' = 0 /\ LeaveWait
      BY <1>11 DEF Crash, Ended
    <2> QED BY <1>1, <2>1, <2>2, LeaveWaitTyped DEF CommandTyped
  <1>12. CASE Tick \/ UNCHANGED vars
    <2>1. clock' \in 0..MaxClock
      BY <1>1, <1>12 DEF CommandTyped, Tick, vars
    <2>2. UNCHANGED <<served, commandVars, historyVars>>
      BY <1>12 DEF Tick, vars
    <2> QED BY <1>1, <2>1, <2>2
            DEF CommandTyped, commandVars, attemptVars, waitVars, historyVars
  <1> QED
    BY <1>2, <1>3, <1>4, <1>5, <1>6, <1>7, <1>8, <1>9, <1>10, <1>11, <1>12
       DEF Next, CommandStep

-----------------------------------------------------------------------------
(* What no step does to the archive: a row is not lost, a response and a     *)
(* snapshot's verdict do not change, a mark needs an accepted snapshot.      *)

Flagged(row) == row.planned \/ row.rebalanced

Grows ==
    /\ ArchiveTyped'
    /\ DOMAIN pulls \subseteq DOMAIN pulls'
    /\ \A i \in DOMAIN pulls : pulls'[i].payload = pulls[i].payload
    /\ \A i \in DOMAIN pulls' : Flagged(pulls'[i]) =>
          \/ i \in DOMAIN pulls /\ Flagged(pulls[i])
          \/ \E s \in DOMAIN snapshots : i \in PullsOf(s) /\ Accepted(s)
    /\ \A s \in DOMAIN snapshots :
          /\ s \in DOMAIN snapshots'
          /\ snapshots'[s].weights = snapshots[s].weights
          /\ snapshots'[s].vols = snapshots[s].vols
          /\ snapshots'[s].date = snapshots[s].date
          /\ snapshots'[s].verdict = snapshots[s].verdict
          /\ snapshots[s].planned => snapshots'[s].planned
          /\ Flagged(snapshots'[s]) => Flagged(snapshots[s]) \/ Accepted(s)
          /\ \A i \in PullsOf(s) : pulls'[i].verdict = pulls[i].verdict

(* Steps that leave pulls and snapshots alone.                              *)
LEMMA Untouched ==
    ASSUME WaitInv, UNCHANGED <<pulls, snapshots>>, runs' \in Seq(Run)
    PROVE  Grows
  BY DEF Grows, WaitInv, TypeOK, ArchiveTyped

(* A verdict is given only to a pull no snapshot refers to.                 *)
LEMMA Marking ==
    ASSUME WaitInv, NEW e \in Endpoints, Pending(e), NEW v \in Verdicts,
           MarkPull(pull[e], v), UNCHANGED <<snapshots, runs>>
    PROVE  Grows
  <1>1. pull[e] \in DOMAIN pulls
    BY DEF WaitInv, PendingAreNew
  <1>2. \A s \in DOMAIN snapshots : pull[e] \notin PullsOf(s)
    BY DEF WaitInv, PendingAreNew
  <1>3. \A s \in DOMAIN snapshots : PullsOf(s) \subseteq DOMAIN pulls
    BY DEF WaitInv, References
  <1> QED BY <1>1, <1>2, <1>3, MarkedPull
          DEF Grows, WaitInv, TypeOK, ArchiveTyped, Flagged

(* Marks are set only for an accepted snapshot.                             *)
LEMMA Flagging ==
    ASSUME WaitInv, NEW s \in DOMAIN snapshots, Accepted(s), UNCHANGED runs,
           \/ snapshots' = [snapshots EXCEPT ![s].planned = TRUE]
           \/ snapshots' = [snapshots EXCEPT ![s].rebalanced = TRUE],
           \/ pulls' = [i \in DOMAIN pulls |->
                          [pulls[i] EXCEPT !.planned = @ \/ i \in PullsOf(s)]]
           \/ pulls' = [i \in DOMAIN pulls |->
                          [pulls[i] EXCEPT
                               !.rebalanced = @ \/ i \in PullsOf(s)]]
    PROVE  Grows
  <1>1. TypeOK /\ runs \in Seq(Run)
    BY DEF WaitInv, TypeOK
  <1>2. \A t \in DOMAIN snapshots : PullsOf(t) \subseteq DOMAIN pulls
    BY DEF WaitInv, References
  <1>3. /\ pulls' \in Seq(Pull)
        /\ DOMAIN pulls' = DOMAIN pulls
        /\ \A i \in DOMAIN pulls :
                /\ pulls'[i].payload = pulls[i].payload
                /\ pulls'[i].verdict = pulls[i].verdict
                /\ pulls'[i].planned \/ pulls'[i].rebalanced =>
                      \/ pulls[i].planned \/ pulls[i].rebalanced
                      \/ i \in PullsOf(s)
    BY <1>1, FlaggedPulls
  <1>4. /\ snapshots' \in Seq(Snapshot)
        /\ DOMAIN snapshots' = DOMAIN snapshots
        /\ \A i \in DOMAIN snapshots :
                /\ snapshots'[i].weights = snapshots[i].weights
                /\ snapshots'[i].vols = snapshots[i].vols
                /\ snapshots'[i].date = snapshots[i].date
                /\ snapshots'[i].verdict = snapshots[i].verdict
                /\ snapshots[i].planned => snapshots'[i].planned
                /\ i # s => snapshots'[i] = snapshots[i]
    BY <1>1, FlaggedSnapshot
  <1> QED BY <1>1, <1>2, <1>3, <1>4 DEF Grows, ArchiveTyped, Flagged

(* Every action.                                                            *)
LEMMA Growing == WaitInv /\ [Next]_vars => Grows
  <1> SUFFICES ASSUME WaitInv, [Next]_vars PROVE Grows
    OBVIOUS
  <1> USE SignalWaitAssumption, Constants
  <1>1. /\ TypeOK /\ pulls \in Seq(Pull) /\ snapshots \in Seq(Snapshot)
        /\ runs \in Seq(Run)
    BY DEF WaitInv, TypeOK
  <1>2. ASSUME NEW poll \in BOOLEAN, Start(poll) PROVE Grows
    BY <1>1, <1>2, Untouched DEF Start, archiveVars
  <1>3. ASSUME NEW r \in DOMAIN runs, Resume(r) PROVE Grows
    BY <1>1, <1>3, Untouched DEF Resume, archiveVars
  <1>4. ASSUME NEW answer \in {"none", "busy", "http"},
               NEW payload \in Payload, Answered(answer, payload)
        PROVE  Grows
    <2> DEFINE x == [endpoint |-> endpoint, payload |-> payload,
                     answer |-> answer, verdict |-> "unvalidated",
                     planned |-> FALSE, rebalanced |-> FALSE]
    <2>1. x \in Pull
      BY <1>1, <1>4 DEF Pull, TypeOK, Verdicts
    <2>2. pulls' = Append(pulls, x) /\ UNCHANGED <<snapshots, runs>>
      BY <1>4 DEF Answered
    <2>3. ~Flagged(x)
      BY DEF Flagged
    <2> HIDE DEF x
    <2>4. \A s \in DOMAIN snapshots : PullsOf(s) \subseteq DOMAIN pulls
      BY DEF WaitInv, References
    <2> QED BY <1>1, <2>1, <2>2, <2>3, <2>4, SequenceAppended
            DEF Grows, ArchiveTyped
  <1>5. CASE Unreachable \/ ReadTimesOut \/ GoodStatus \/ ExchangeRead
             \/ ExchangeFails \/ GiveUp \/ TooLate \/ Sleep \/ WakeUp
             \/ PlanBlocked \/ DoNotExecute \/ Attention \/ Crash \/ Tick
             \/ UNCHANGED vars
    BY <1>1, <1>5, Untouched
       DEF Unreachable, ReadTimesOut, GoodStatus, ExchangeRead, ExchangeFails,
           GiveUp, TooLate, Sleep, WakeUp, PlanBlocked, DoNotExecute,
           Attention, Crash, Tick, vars, archiveVars
  <1>6. CASE BadStatus
    <2>1. Pending(endpoint) /\ "rejected" \in Verdicts /\ endpoint \in Endpoints
      BY <1>1, <1>6 DEF BadStatus, Pending, Verdicts, TypeOK
    <2> QED BY <1>6, <2>1, Marking DEF BadStatus
  <1>7. CASE MarkValidation
    <2>1. Pending(endpoint) /\ endpoint \in Endpoints
      BY <1>1, <1>7 DEF MarkValidation, Pending, TypeOK
    <2> QED BY <1>7, <2>1, Marking DEF MarkValidation
  <1>8. CASE RecordSnapshot
    <2> DEFINE x == [weights |-> pull["weights"], vols |-> pull["vols"],
                     date |-> expected, verdict |-> Verdict,
                     planned |-> FALSE, rebalanced |-> FALSE]
    <2>1. x \in Snapshot
      BY <1>1 DEF Snapshot, TypeOK
    <2>2. snapshots' = Append(snapshots, x) /\ UNCHANGED <<pulls, runs>>
      BY <1>8 DEF RecordSnapshot
    <2> HIDE DEF x
    <2> QED BY <1>1, <2>1, <2>2, SequenceAppended DEF Grows, ArchiveTyped
  <1>9. CASE PersistNew \/ \E r \in DOMAIN runs : PersistAgain(r)
    <2>1. Latest \in Nat
      BY <1>1 DEF Latest
    <2>2. runs' \in Seq(Run)
      <3>1. CASE PersistNew
        <4>1. [snapshot |-> Latest, status |-> "planned"] \in Run
          BY <2>1 DEF Run
        <4> QED BY <1>1, <3>1, <4>1, SequenceAppended DEF PersistNew
      <3>2. ASSUME NEW r \in DOMAIN runs, PersistAgain(r)
            PROVE  runs' \in Seq(Run)
        BY <1>1, <2>1, <3>2, UpdatedRun DEF PersistAgain
      <3> QED BY <1>9, <3>1, <3>2
    <2> QED BY <1>9, <2>2, Untouched DEF PersistNew, PersistAgain
  <1>10. CASE Execute \/ Complete
    <2>1. run \in DOMAIN runs
      BY <1>10 DEF WaitInv, Current, Execute, Complete
    <2>2. runs' \in Seq(Run)
      BY <1>1, <1>10, <2>1, UpdatedRun DEF Execute, Complete
    <2> QED BY <1>10, <2>2, Untouched DEF Execute, Complete
  <1>11. CASE MarkPlanned
    <2>1. Latest \in DOMAIN snapshots /\ Accepted(Latest)
      BY <1>11 DEF WaitInv, Current, MarkPlanned
    <2>2. snapshots' = [snapshots EXCEPT ![Latest].planned = TRUE]
      BY <1>11 DEF MarkPlanned
    <2>3. pulls' = [i \in DOMAIN pulls |-> [pulls[i] EXCEPT
                        !.planned = @ \/ i \in PullsOf(Latest)]]
      BY <1>11 DEF MarkPlanned
    <2>4. UNCHANGED runs
      BY <1>11 DEF MarkPlanned
    <2> QED BY <1>1, <2>1, <2>2, <2>3, <2>4, Flagging
  <1>12. CASE MarkRebalanced
    <2> DEFINE s == runs[run].snapshot
    <2>1. s \in DOMAIN snapshots /\ Accepted(s)
      BY <1>12 DEF WaitInv, Current, References, MarkRebalanced
    <2>2. snapshots' = [snapshots EXCEPT ![s].rebalanced = TRUE]
      BY <1>12 DEF MarkRebalanced
    <2>3. pulls' = [i \in DOMAIN pulls |-> [pulls[i] EXCEPT
                        !.rebalanced = @ \/ i \in PullsOf(s)]]
      BY <1>12 DEF MarkRebalanced
    <2>4. UNCHANGED runs
      BY <1>12 DEF MarkRebalanced
    <2> QED BY <1>1, <2>1, <2>2, <2>3, <2>4, Flagging
  <1> QED
    BY <1>2, <1>3, <1>4, <1>5, <1>6, <1>7, <1>8, <1>9, <1>10, <1>11, <1>12
       DEF Next, CommandStep

-----------------------------------------------------------------------------
(* The archive's properties *)

ArchiveOK ==
    /\ AcceptedIsCurrent /\ ArchiveAgrees
    /\ \A s \in DOMAIN snapshots : PullsOf(s) \subseteq DOMAIN pulls

(* What holds of the snapshots goes on holding.                             *)
LEMMA NoNewSnapshot ==
    ASSUME WaitInv, Grows, DOMAIN snapshots' = DOMAIN snapshots
    PROVE  ArchiveOK'
  <1>1. \A s \in DOMAIN snapshots : /\ PullsOf(s) \subseteq DOMAIN pulls
                                    /\ PullsOf(s)' = PullsOf(s)
                                    /\ Accepted(s)' = Accepted(s)
    BY DEF WaitInv, References, Grows, PullsOf, Accepted
  <1>2. AcceptedIsCurrent'
    BY <1>1 DEF WaitInv, AcceptedIsCurrent, Grows, WeightsOf, VolsOf, PullsOf,
                Accepted
  <1>3. \A s \in DOMAIN snapshots' :
            /\ WeightsOf(s)'.verdict = snapshots'[s].verdict
            /\ VolsOf(s)'.verdict = snapshots'[s].verdict
            /\ snapshots'[s].planned \/ snapshots'[s].rebalanced
                 => Accepted(s)'
    BY <1>1 DEF WaitInv, ArchiveAgrees, Grows, WeightsOf, VolsOf, PullsOf,
                Accepted, Flagged
  <1>4. \A i \in DOMAIN pulls' :
            pulls'[i].planned \/ pulls'[i].rebalanced =>
                \E s \in DOMAIN snapshots' : i \in PullsOf(s)' /\ Accepted(s)'
    BY <1>1 DEF WaitInv, ArchiveAgrees, Grows, Flagged
  <1> QED BY <1>1, <1>2, <1>3, <1>4 DEF ArchiveOK, ArchiveAgrees, Grows

(* The verdict is "accepted" only for what AcceptedIsCurrent asks.          *)
LEMMA JudgedGood ==
    ASSUME NEW w \in Payload, NEW v \in Payload, Judge(w, v) = "none"
    PROVE  /\ w = [day |-> expected, form |-> "good"]
           /\ v.form = "good"
           /\ VolsDated => v.day = expected
  BY SignalWaitAssumption DEF Judge, Parsed, Validated, Payload

(* It holds of the new one, by the verdict and what was decided.            *)
LEMMA NewSnapshot == WaitInv /\ RecordSnapshot => ArchiveOK'
  <1> SUFFICES ASSUME WaitInv, RecordSnapshot PROVE ArchiveOK'
    OBVIOUS
  <1>0. PICK n : n = Len(snapshots) + 1
    OBVIOUS
  <1> DEFINE x == [weights |-> pull["weights"], vols |-> pull["vols"],
                   date |-> expected, verdict |-> Verdict,
                   planned |-> FALSE, rebalanced |-> FALSE]
  <1>1. /\ snapshots' = Append(snapshots, x) /\ UNCHANGED pulls
        /\ pc = "snapshot"
    BY DEF RecordSnapshot
  <1>2. /\ pull["weights"] \in DOMAIN pulls /\ pull["vols"] \in DOMAIN pulls
        /\ pulls[pull["weights"]].verdict = Verdict
        /\ pulls[pull["vols"]].verdict = Verdict
        /\ error = Judge(PayloadOf("weights"), PayloadOf("vols"))
    BY <1>1, Constants DEF WaitInv, PendingAreNew, Pending, Decided
  <1>3. x \in Snapshot
    BY Constants DEF WaitInv, TypeOK, Snapshot
  <1>4. /\ DOMAIN snapshots' = DOMAIN snapshots \cup {n} /\ snapshots'[n] = x
        /\ \A s \in DOMAIN snapshots : snapshots'[s] = snapshots[s]
    BY <1>0, <1>1, <1>3, SequenceAppended DEF WaitInv, TypeOK
  <1>5. PayloadOf("weights") \in Payload /\ PayloadOf("vols") \in Payload
    <2>1. \A i \in DOMAIN pulls : pulls[i] \in Pull
      BY DEF WaitInv, TypeOK
    <2> QED BY <1>2, <2>1 DEF PayloadOf, Pull
  <1>6. AcceptedIsCurrent'
    <2>1. Accepted(n)' => error = "none"
      BY <1>4 DEF Accepted, Verdict
    <2>2. Accepted(n)' =>
             /\ WeightsOf(n)'.payload
                  = [day |-> snapshots'[n].date, form |-> "good"]
             /\ VolsOf(n)'.payload.form = "good"
             /\ VolsDated => VolsOf(n)'.payload.day = snapshots'[n].date
      BY <1>1, <1>2, <1>4, <1>5, <2>1, JudgedGood
         DEF PayloadOf, WeightsOf, VolsOf
    <2> QED BY <1>1, <1>4, <2>2
            DEF WaitInv, AcceptedIsCurrent, Accepted, WeightsOf, VolsOf
  <1>7. \A s \in DOMAIN snapshots' :
            /\ WeightsOf(s)'.verdict = snapshots'[s].verdict
            /\ VolsOf(s)'.verdict = snapshots'[s].verdict
            /\ snapshots'[s].planned \/ snapshots'[s].rebalanced
                 => Accepted(s)'
    BY <1>1, <1>2, <1>4
       DEF WaitInv, ArchiveAgrees, WeightsOf, VolsOf, Accepted
  <1>8. \A i \in DOMAIN pulls' :
            pulls'[i].planned \/ pulls'[i].rebalanced =>
                \E s \in DOMAIN snapshots' : i \in PullsOf(s)' /\ Accepted(s)'
    BY <1>1, <1>4 DEF WaitInv, ArchiveAgrees, PullsOf, Accepted
  <1>9. \A s \in DOMAIN snapshots' : PullsOf(s)' \subseteq DOMAIN pulls'
    BY <1>1, <1>2, <1>4 DEF WaitInv, References, PullsOf
  <1> QED BY <1>6, <1>7, <1>8, <1>9 DEF ArchiveOK, ArchiveAgrees

(* Every action.                                                            *)
LEMMA ArchiveStep == WaitInv /\ [Next]_vars => ArchiveOK'
  <1> SUFFICES ASSUME WaitInv, [Next]_vars PROVE ArchiveOK'
    OBVIOUS
  <1>1. Grows
    BY Growing
  <1>2. CASE RecordSnapshot
    BY <1>2, NewSnapshot
  <1>3. CASE MarkPlanned \/ MarkRebalanced
    <2>1. \E s \in DOMAIN snapshots :
              \/ snapshots' = [snapshots EXCEPT ![s].planned = TRUE]
              \/ snapshots' = [snapshots EXCEPT ![s].rebalanced = TRUE]
      BY <1>3 DEF MarkPlanned, MarkRebalanced, WaitInv, Current, References
    <2>2. DOMAIN snapshots' = DOMAIN snapshots
      BY <2>1
    <2> QED BY <1>1, <2>2, NoNewSnapshot
  <1>4. CASE UNCHANGED snapshots
    BY <1>1, <1>4, NoNewSnapshot
  <1>5. RecordSnapshot \/ MarkPlanned \/ MarkRebalanced \/ UNCHANGED snapshots
    BY DEF Next, CommandStep, Start, Resume, Answered, Unreachable,
           ReadTimesOut, BadStatus, GoodStatus, MarkValidation, ExchangeRead,
           ExchangeFails, GiveUp, TooLate, Sleep, WakeUp, PlanBlocked,
           PersistNew, PersistAgain, DoNotExecute, Execute, Attention,
           Complete, Crash, Tick, vars, archiveVars
  <1> QED BY <1>2, <1>3, <1>4, <1>5

-----------------------------------------------------------------------------
(* The attempt under way *)

(* Every action: only those of the attempt can disturb it.                  *)
LEMMA AttemptStep == WaitInv /\ [Next]_vars => PendingAreNew' /\ Decided'
  <1> SUFFICES ASSUME WaitInv, [Next]_vars PROVE PendingAreNew' /\ Decided'
    OBVIOUS
  <1> USE Constants
  <1>1. /\ TypeOK /\ Grows
        /\ \A s \in DOMAIN snapshots : PullsOf(s) \subseteq DOMAIN pulls
    BY Growing DEF WaitInv, References
  <1>2. CASE pc' \notin {"fetch", "status", "mark", "snapshot", "caught"}
    BY <1>2 DEF PendingAreNew, Pending, Decided
  <1>3. CASE pc' = "fetch" /\ endpoint' = "weights"
    BY <1>3 DEF PendingAreNew, Pending, Decided
  <1>4. ASSUME NEW answer \in {"none", "busy", "http"},
               NEW payload \in Payload, Answered(answer, payload)
        PROVE  PendingAreNew' /\ Decided'
    <2> DEFINE n == Len(pulls) + 1
    <2>1. n \notin DOMAIN pulls /\ n \in DOMAIN pulls' /\ n \in Nat
      BY <1>1, <1>4 DEF Answered, TypeOK
    <2>2. /\ pull' = [pull EXCEPT ![endpoint] = n] /\ pc = "fetch"
          /\ pc' = "status" /\ UNCHANGED <<snapshots, endpoint>>
      BY <1>4 DEF Answered, Goto
    <2> HIDE DEF n
    <2>3. Decided'
      BY <2>2 DEF Decided
    <2>4. ASSUME NEW e \in Endpoints, Pending(e)'
          PROVE  /\ pull'[e] \in DOMAIN pulls'
                 /\ \A s \in DOMAIN snapshots : pull'[e] \notin PullsOf(s)
      <3>1. CASE e = endpoint
        BY <1>1, <2>1, <2>2, <3>1 DEF TypeOK
      <3>2. CASE e # endpoint
        <4>1. Pending(e) /\ pull'[e] = pull[e]
          BY <1>1, <2>2, <2>4, <3>2 DEF Pending, TypeOK
        <4> QED BY <1>1, <4>1 DEF WaitInv, PendingAreNew, Grows
      <3> QED BY <3>1, <3>2
    <2>5. PendingAreNew'
      BY <2>2, <2>4 DEF PendingAreNew, PullsOf
    <2> QED BY <2>3, <2>5
  <1>5. CASE Unreachable \/ ExchangeFails
    BY <1>5 DEF Unreachable, ExchangeFails, Raise, Goto, PendingAreNew,
                Pending, Decided
  <1>6. CASE BadStatus
    BY <1>6 DEF BadStatus, Raise, Goto, PendingAreNew, Pending, Decided
  <1>7. CASE GoodStatus
    <2>1. UNCHANGED <<pulls, snapshots, pull>>
          /\ (pc' = "mark" => UNCHANGED expected)
      BY <1>7 DEF GoodStatus, Goto, archiveVars
    <2>2. PendingAreNew'
      BY <1>1, <1>7, <2>1
         DEF GoodStatus, Goto, WaitInv, PendingAreNew, Pending, PullsOf, TypeOK
    <2>3. Decided'
      BY <1>7, <2>1 DEF GoodStatus, Goto, Decided, Judge, Parsed,
                        Validated, PayloadOf
    <2> QED BY <2>2, <2>3
  <1>8. CASE MarkValidation
    <2>1. /\ UNCHANGED <<snapshots, pull, error, expected>> /\ pc = "mark"
          /\ MarkPull(pull[endpoint], Verdict)
          /\ pc' \in {"mark", "snapshot"}
          /\ pc' = "mark" => endpoint = "weights"
          /\ pc' = "snapshot" => endpoint = "vols"
      BY <1>1, <1>8 DEF MarkValidation, Goto, waitVars, TypeOK
    <2>2. \A e \in Endpoints : Pending(e) /\ pull[e] \in DOMAIN pulls
      BY <2>1 DEF WaitInv, PendingAreNew, Pending
    <2>3. endpoint \in Endpoints
      BY <1>1 DEF TypeOK
    <2>4. /\ DOMAIN pulls' = DOMAIN pulls
          /\ pulls'[pull[endpoint]].verdict = Verdict
          /\ \A i \in DOMAIN pulls :
                /\ pulls'[i].payload = pulls[i].payload
                /\ i # pull[endpoint] => pulls'[i] = pulls[i]
      BY <1>1, <2>1, <2>2, <2>3, MarkedPull
    <2>5. PendingAreNew'
      BY <2>1, <2>2, <2>4 DEF WaitInv, PendingAreNew, PullsOf
    <2>6. error = Judge(PayloadOf("weights"), PayloadOf("vols"))
      BY <2>1 DEF WaitInv, Decided
    <2>7. error' = Judge(PayloadOf("weights"), PayloadOf("vols"))'
      BY <2>1, <2>2, <2>4, <2>6 DEF Judge, Parsed, Validated, PayloadOf
    <2>8. Verdict' = Verdict
      BY <2>1 DEF Verdict
    <2>9. pc' = "mark" => pulls'[pull["weights"]].verdict = Verdict
      BY <2>1, <2>4
    <2>10. pc' = "snapshot" =>
             \A e \in Endpoints : pulls'[pull[e]].verdict = Verdict
      <3> SUFFICES ASSUME endpoint = "vols"
                   PROVE  \A e \in Endpoints : pulls'[pull[e]].verdict = Verdict
        BY <2>1
      <3>1. pulls[pull["weights"]].verdict = Verdict
        BY <2>1 DEF WaitInv, Decided
      <3> QED BY <2>2, <2>4, <3>1
    <2> QED BY <2>1, <2>5, <2>7, <2>8, <2>9, <2>10 DEF Decided
  <1>9. CASE RecordSnapshot
    BY <1>9 DEF RecordSnapshot, Goto, PendingAreNew, Pending, Decided,
                attemptVars
  <1>10. CASE Tick \/ UNCHANGED vars
    <2>1. UNCHANGED <<pulls, snapshots, pc, endpoint, pull, error, expected>>
      BY <1>10 DEF Tick, vars, archiveVars, commandVars, attemptVars, waitVars
    <2> QED BY <2>1 DEF WaitInv, PendingAreNew, Pending, Decided, PullsOf,
                        Judge, Parsed, Validated, PayloadOf, Verdict
  <1>11. \/ pc' \notin {"fetch", "status", "mark", "snapshot", "caught"}
         \/ pc' = "fetch" /\ endpoint' = "weights"
         \/ \E answer \in {"none", "busy", "http"}, payload \in Payload :
                Answered(answer, payload)
         \/ Unreachable \/ ExchangeFails \/ BadStatus \/ GoodStatus
         \/ MarkValidation \/ RecordSnapshot \/ Tick \/ UNCHANGED vars
    BY DEF Next, CommandStep, Start, Resume, ReadTimesOut, ExchangeRead,
           GiveUp, TooLate, Sleep, WakeUp, BeginAttempt, PlanBlocked,
           PersistNew, PersistAgain, MarkPlanned, DoNotExecute, Execute,
           Attention, Complete, MarkRebalanced, Crash, Ended, Goto
  <1> QED BY <1>2, <1>3, <1>4, <1>5, <1>6, <1>7, <1>8, <1>9, <1>10, <1>11

-----------------------------------------------------------------------------
(* Runs and their snapshots *)

RunsOK == References /\ Current /\ RunsAreMarked /\ RebalancedWasPlanned

(* A step that leaves runs, snapshots and the run in hand alone.            *)
LEMMA RunsKept ==
    ASSUME WaitInv, ArchiveOK', UNCHANGED <<runs, snapshots, unmarked>>,
           pc # "markPlanned" \/ pc' = "markPlanned",
           pc' = "exchange" => pc = "exchange" /\ UNCHANGED error,
           pc' \in {"plan", "markPlanned"} => pc \in {"exchange", pc'},
           pc' \in {"markPlanned", "execute", "trade", "markRebalanced"} =>
               run' \in DOMAIN runs
    PROVE  RunsOK'
  <1>1. References'
    BY DEF WaitInv, References, ArchiveOK, PullsOf, Accepted
  <1>2. Current'
    BY DEF WaitInv, Current, Latest, Accepted
  <1>3. RunsAreMarked' /\ RebalancedWasPlanned'
    BY DEF WaitInv, RunsAreMarked, RebalancedWasPlanned, Latest
  <1> QED BY <1>1, <1>2, <1>3 DEF RunsOK

(* Every action.                                                            *)
LEMMA RunsStep == WaitInv /\ [Next]_vars => RunsOK'
  <1> SUFFICES ASSUME WaitInv, [Next]_vars PROVE RunsOK'
    OBVIOUS
  <1>1. /\ TypeOK /\ Grows /\ ArchiveOK'
        /\ \A s \in DOMAIN snapshots :
              /\ s \in DOMAIN snapshots' /\ Accepted(s)' = Accepted(s)
              /\ snapshots[s].planned => snapshots'[s].planned
        /\ \A r \in DOMAIN runs :
              /\ runs[r].snapshot \in DOMAIN snapshots
              /\ Accepted(runs[r].snapshot)
    BY Growing, ArchiveStep DEF WaitInv, References, Grows, Accepted
  <1>2. CASE \/ \E poll \in BOOLEAN : Start(poll)
             \/ \E r \in DOMAIN runs : Resume(r)
    <2>1. /\ UNCHANGED <<runs, snapshots, unmarked>>
          /\ pc = "idle" /\ pc' \in {"fetch", "trade"}
          /\ pc' = "trade" => run' \in DOMAIN runs
      BY <1>2 DEF Start, Resume, BeginAttempt, Goto, archiveVars
    <2> QED BY <1>1, <2>1, RunsKept
  <1>3. CASE \/ \E answer \in {"none", "busy", "http"}, payload \in Payload :
                    Answered(answer, payload)
             \/ Unreachable \/ ReadTimesOut \/ BadStatus \/ GoodStatus
             \/ MarkValidation \/ ExchangeFails \/ GiveUp \/ TooLate \/ Sleep
             \/ WakeUp \/ PlanBlocked \/ DoNotExecute \/ Attention
    <2>1. /\ UNCHANGED <<runs, snapshots, unmarked>>
          /\ pc # "markPlanned"
          /\ pc' \in {"idle", "fetch", "status", "mark", "snapshot", "caught",
                      "sleep"}
      BY <1>3 DEF Answered, Unreachable, ReadTimesOut, BadStatus, GoodStatus,
                  MarkValidation, ExchangeFails, GiveUp, TooLate, Sleep,
                  WakeUp, PlanBlocked, DoNotExecute, Attention, Raise, Goto,
                  Ended, BeginAttempt, archiveVars, historyVars
    <2> QED BY <1>1, <2>1, RunsKept
  <1>4. CASE ExchangeRead
    <2>1. /\ UNCHANGED <<runs, snapshots, unmarked>>
          /\ pc = "exchange" /\ pc' = "plan"
      BY <1>4 DEF ExchangeRead, Goto, archiveVars, historyVars
    <2> QED BY <1>1, <2>1, RunsKept
  <1>5. CASE Tick \/ UNCHANGED vars
    <2>1. UNCHANGED <<runs, snapshots, unmarked, pc, run, error>>
      BY <1>5 DEF Tick, vars, archiveVars, commandVars, attemptVars,
                  historyVars
    <2> QED BY <1>1, <2>1, RunsKept DEF WaitInv, Current
  <1>6. CASE Crash
    <2>1. /\ UNCHANGED <<runs, snapshots>> /\ pc' = "idle"
          /\ unmarked' = (unmarked \/ pc = "markPlanned")
      BY <1>6 DEF Crash, Ended, archiveVars
    <2>2. References'
      BY <1>1, <2>1 DEF References, ArchiveOK
    <2>3. Current'
      BY <2>1 DEF Current
    <2>4. RunsAreMarked' /\ RebalancedWasPlanned'
      BY <2>1 DEF WaitInv, RunsAreMarked, RebalancedWasPlanned
    <2> QED BY <2>2, <2>3, <2>4 DEF RunsOK
  <1>7. CASE RecordSnapshot
    <2> DEFINE x == [weights |-> pull["weights"], vols |-> pull["vols"],
                     date |-> expected, verdict |-> Verdict,
                     planned |-> FALSE, rebalanced |-> FALSE]
    <2>1. /\ snapshots' = Append(snapshots, x)
          /\ UNCHANGED <<runs, unmarked, error>>
          /\ pc = "snapshot"
          /\ pc' = IF error = "none" THEN "exchange" ELSE "caught"
      BY <1>7 DEF RecordSnapshot, Goto, historyVars, attemptVars
    <2>2. x \in Snapshot
      BY <1>1, Constants DEF TypeOK, Snapshot
    <2>3. /\ Len(snapshots') = Len(snapshots) + 1
          /\ DOMAIN snapshots' = DOMAIN snapshots \cup {Len(snapshots')}
          /\ snapshots'[Len(snapshots')] = x
          /\ \A s \in DOMAIN snapshots : snapshots'[s] = snapshots[s]
      BY <1>1, <2>1, <2>2, SequenceAppended DEF TypeOK
    <2>4. References'
      BY <1>1, <2>1 DEF References, ArchiveOK
    <2>5. Current'
      BY <2>1, <2>3 DEF Current, Latest, Accepted, Verdict
    <2>6. RunsAreMarked'
      BY <1>1, <2>1, <2>3 DEF WaitInv, RunsAreMarked
    <2>7. RebalancedWasPlanned'
      BY <2>1, <2>3 DEF WaitInv, RebalancedWasPlanned
    <2> QED BY <2>4, <2>5, <2>6, <2>7 DEF RunsOK
  <1>8. CASE PersistNew
    <2>1. Latest \in DOMAIN snapshots /\ Accepted(Latest)
      BY <1>8 DEF WaitInv, Current, PersistNew
    <2>2. [snapshot |-> Latest, status |-> "planned"] \in Run
      BY <1>1 DEF Run, Latest, TypeOK
    <2>3. /\ DOMAIN runs' = DOMAIN runs \cup {run'}
          /\ runs'[run'].snapshot = Latest
          /\ \A r \in DOMAIN runs : runs'[r] = runs[r]
      BY <1>1, <1>8, <2>2, SequenceAppended DEF PersistNew, TypeOK
    <2>4. /\ UNCHANGED <<snapshots, unmarked>>
          /\ pc = "plan" /\ pc' = "markPlanned"
      BY <1>8 DEF PersistNew, Goto, historyVars
    <2>5. References' /\ Current'
      BY <1>1, <2>1, <2>3, <2>4
         DEF References, Current, ArchiveOK, Latest, Accepted
    <2>6. RunsAreMarked' /\ RebalancedWasPlanned'
      BY <2>3, <2>4 DEF WaitInv, RunsAreMarked, RebalancedWasPlanned, Latest
    <2> QED BY <2>5, <2>6 DEF RunsOK
  <1>9. ASSUME NEW r \in DOMAIN runs, PersistAgain(r) PROVE RunsOK'
    <2>1. Latest \in DOMAIN snapshots /\ Accepted(Latest)
      BY <1>9 DEF WaitInv, Current, PersistAgain
    <2>2. /\ DOMAIN runs' = DOMAIN runs /\ run' = r
          /\ \A i \in DOMAIN runs : runs'[i].snapshot = runs[i].snapshot
                                    \/ runs'[i].snapshot = Latest
      <3>1. CASE UNCHANGED runs
        BY <1>9, <3>1 DEF PersistAgain
      <3>2. CASE runs' = [runs EXCEPT ![r].snapshot = Latest]
        <4>1. \A i \in DOMAIN runs : runs[i] \in Run
          BY <1>1 DEF TypeOK
        <4> QED BY <1>1, <1>9, <3>2, <4>1 DEF PersistAgain, Run, TypeOK
      <3> QED BY <1>9, <3>1, <3>2 DEF PersistAgain
    <2>3. /\ UNCHANGED <<snapshots, unmarked>>
          /\ pc = "plan" /\ pc' = "markPlanned"
      BY <1>9 DEF PersistAgain, Goto, historyVars
    <2>4. References' /\ Current'
      BY <1>1, <2>1, <2>2, <2>3
         DEF References, Current, ArchiveOK, Latest, Accepted
    <2>5. RunsAreMarked' /\ RebalancedWasPlanned'
      BY <2>2, <2>3 DEF WaitInv, RunsAreMarked, RebalancedWasPlanned, Latest
    <2> QED BY <2>4, <2>5 DEF RunsOK
  <1>10. CASE Execute \/ Complete
    <2>1. /\ run \in DOMAIN runs /\ run' = run
          /\ UNCHANGED <<snapshots, unmarked>>
          /\ pc # "markPlanned" /\ pc' \in {"trade", "markRebalanced"}
      BY <1>10 DEF WaitInv, Current, Execute, Complete, Goto, historyVars
    <2>2. \A i \in DOMAIN runs : runs[i] \in Run
      BY <1>1 DEF TypeOK
    <2>3. /\ DOMAIN runs' = DOMAIN runs
          /\ \A i \in DOMAIN runs : runs'[i].snapshot = runs[i].snapshot
      <3>1. PICK status \in {"started", "complete"} :
                runs' = [runs EXCEPT ![run].status = status]
        BY <1>10 DEF Execute, Complete
      <3>2. [runs[run] EXCEPT !.status = status].snapshot = runs[run].snapshot
        BY <2>1, <2>2 DEF Run
      <3>3. \A i \in DOMAIN runs :
                runs'[i] = IF i = run THEN [runs[run] EXCEPT !.status = status]
                           ELSE runs[i]
        BY <1>1, <2>1, <3>1 DEF TypeOK
      <3>4. DOMAIN runs' = DOMAIN runs
        BY <1>1, <3>1 DEF TypeOK
      <3> QED BY <3>2, <3>3, <3>4
    <2>4. References' /\ Current'
      BY <1>1, <2>1, <2>3 DEF References, Current, ArchiveOK
    <2>5. RunsAreMarked' /\ RebalancedWasPlanned'
      BY <2>1, <2>3 DEF WaitInv, RunsAreMarked, RebalancedWasPlanned
    <2> QED BY <2>4, <2>5 DEF RunsOK
  <1>11. CASE MarkPlanned
    <2>1. /\ Latest \in DOMAIN snapshots /\ run \in DOMAIN runs /\ run' = run
          /\ UNCHANGED <<runs, unmarked>>
          /\ snapshots' = [snapshots EXCEPT ![Latest].planned = TRUE]
          /\ pc = "markPlanned" /\ pc' = "execute"
      BY <1>11 DEF WaitInv, Current, MarkPlanned, Goto, historyVars
    <2>2. References' /\ Current'
      BY <1>1, <2>1 DEF References, Current, ArchiveOK
    <2>3. /\ DOMAIN snapshots' = DOMAIN snapshots
          /\ snapshots'[Latest].planned
          /\ \A s \in DOMAIN snapshots :
                snapshots'[s].rebalanced => snapshots[s].rebalanced
      <3>1. \A s \in DOMAIN snapshots : snapshots[s] \in Snapshot
        BY <1>1 DEF TypeOK
      <3> QED BY <1>1, <2>1, <3>1 DEF Snapshot, TypeOK
    <2>4. RunsAreMarked' /\ RebalancedWasPlanned'
      BY <1>1, <2>1, <2>3 DEF WaitInv, RunsAreMarked, RebalancedWasPlanned
    <2> QED BY <2>2, <2>4 DEF RunsOK
  <1>12. CASE MarkRebalanced
    <2> DEFINE m == runs[run].snapshot
    <2>1. /\ run \in DOMAIN runs /\ UNCHANGED <<runs, unmarked>>
          /\ snapshots' = [snapshots EXCEPT ![m].rebalanced = TRUE]
          /\ pc = "markRebalanced" /\ pc' = "idle"
      BY <1>12 DEF WaitInv, Current, MarkRebalanced, Goto, historyVars
    <2>2. m \in DOMAIN snapshots /\ (~unmarked => snapshots[m].planned)
      BY <1>1, <2>1 DEF WaitInv, RunsAreMarked
    <2> HIDE DEF m
    <2>3. References' /\ Current'
      BY <1>1, <2>1 DEF References, Current, ArchiveOK
    <2>4. /\ DOMAIN snapshots' = DOMAIN snapshots
          /\ \A s \in DOMAIN snapshots :
                snapshots'[s].rebalanced => snapshots[s].rebalanced \/ s = m
      <3>1. \A s \in DOMAIN snapshots : snapshots[s] \in Snapshot
        BY <1>1 DEF TypeOK
      <3> QED BY <1>1, <2>1, <2>2, <3>1 DEF Snapshot, TypeOK
    <2>5. RunsAreMarked' /\ RebalancedWasPlanned'
      BY <1>1, <2>1, <2>2, <2>4
         DEF WaitInv, RunsAreMarked, RebalancedWasPlanned
    <2> QED BY <2>3, <2>5 DEF RunsOK
  <1> QED
    BY <1>2, <1>3, <1>4, <1>5, <1>6, <1>7, <1>8, <1>9, <1>10, <1>11, <1>12
       DEF Next, CommandStep

-----------------------------------------------------------------------------
(* The window *)

(* Every action: no time passes but by Tick.                                *)
LEMMA TimeStep == WaitInv /\ [Next]_vars => Timely'
  <1> SUFFICES ASSUME WaitInv, [Next]_vars PROVE Timely'
    OBVIOUS
  <1> USE SignalWaitAssumption
  <1>1. CommandTyped /\ Timely
    BY DEF WaitInv, TypeOK, CommandTyped
  <1>2. CASE \/ \E poll \in BOOLEAN : Start(poll)
             \/ \E r \in DOMAIN runs : Resume(r)
    BY <1>1, <1>2
       DEF Start, Resume, BeginAttempt, Goto, Timely, WindowUsedUp, CommandTyped
  <1>3. CASE Crash \/ ExchangeRead
    BY <1>3 DEF Crash, ExchangeRead, Ended, Goto, LeaveWait, Timely,
                WindowUsedUp
  <1>4. CASE WakeUp
    BY <1>1, <1>4
       DEF WakeUp, BeginAttempt, Goto, Timely, WindowUsedUp, CommandTyped
  <1>5. CASE Sleep
    BY <1>1, <1>5
       DEF Sleep, Goto, Delay, Remaining, attemptVars, Timely,
           WindowUsedUp, CommandTyped
  <1>6. CASE GiveUp \/ TooLate \/ ReadTimesOut
    BY <1>1, <1>6
       DEF WaitInv, Decided, GiveUp, TooLate, ReadTimesOut, Ended, Remaining,
           Retryable, attemptVars, waitVars, Timely, WindowUsedUp, CommandTyped, Errors
  <1>7. CASE Tick \/ UNCHANGED vars
    <2>1. /\ UNCHANGED <<pc, polling, began, error, deadline, wake, outcome>>
          /\ clock <= clock' /\ clock' \in Nat
          /\ pc = "sleep" => clock' <= wake + Overshoot
      BY <1>1, <1>7
         DEF Tick, vars, commandVars, attemptVars, waitVars, CommandTyped,
             Timely
    <2> QED BY <1>1, <2>1 DEF Timely, WindowUsedUp,
                              CommandTyped
  <1>8. ASSUME UNCHANGED <<clock, polling, began, deadline, outcome>>,
               pc # "idle", pc' # "sleep",
               pc' \in {"fetch", "status", "mark", "snapshot", "exchange",
                        "caught"}
                 => pc \in {"fetch", "status", "mark", "snapshot", "exchange",
                            "caught"}
        PROVE  Timely'
    BY <1>1, <1>8 DEF Timely, WindowUsedUp
  <1>9. CASE \/ \E answer \in {"none", "busy", "http"}, payload \in Payload :
                    Answered(answer, payload)
             \/ Unreachable \/ BadStatus \/ GoodStatus \/ MarkValidation
             \/ RecordSnapshot \/ ExchangeFails
    BY <1>8, <1>9
       DEF Answered, Unreachable, BadStatus, GoodStatus, MarkValidation,
           RecordSnapshot, ExchangeFails, Raise, Goto, attemptVars, waitVars
  <1>10. CASE \/ PlanBlocked \/ PersistNew
              \/ \E r \in DOMAIN runs : PersistAgain(r)
              \/ MarkPlanned \/ DoNotExecute \/ Execute
              \/ Attention \/ Complete \/ MarkRebalanced
    BY <1>8, <1>10
       DEF PlanBlocked, PersistNew, PersistAgain, MarkPlanned, DoNotExecute,
           Execute, Attention, Complete, MarkRebalanced, Goto, attemptVars,
           waitVars
  <1> QED
    BY <1>2, <1>3, <1>4, <1>5, <1>6, <1>7, <1>9, <1>10 DEF Next, CommandStep

-----------------------------------------------------------------------------
(* The parts together.                                                      *)
LEMMA WaitStep == WaitInv /\ [Next]_vars => WaitInv'
  <1> SUFFICES ASSUME WaitInv, [Next]_vars PROVE WaitInv'
    OBVIOUS
  <1>1. TypeOK'
    BY CommandTypedStep, Growing DEF CommandTyped, Grows, ArchiveTyped, TypeOK
  <1>2. PendingAreNew' /\ Decided'
    BY AttemptStep
  <1>3. AcceptedIsCurrent' /\ ArchiveAgrees'
    BY ArchiveStep DEF ArchiveOK
  <1>4. References' /\ Current' /\ RunsAreMarked' /\ RebalancedWasPlanned'
    BY RunsStep DEF RunsOK
  <1>5. Timely'
    BY TimeStep
  <1> QED BY <1>1, <1>2, <1>3, <1>4, <1>5 DEF WaitInv

(* The variables have their types.                                          *)
THEOREM TypeCorrect == Spec => []TypeOK
  <1>1. WaitInv => TypeOK
    BY DEF WaitInv
  <1> QED BY <1>1, WaitInit, WaitStep, PTL DEF Spec

(* Whatever is published when, an accepted snapshot is sound and of its day. *)
THEOREM OnlyCurrentIsAccepted == Spec => []AcceptedIsCurrent
  <1>1. WaitInv => AcceptedIsCurrent
    BY DEF WaitInv
  <1> QED BY <1>1, WaitInit, WaitStep, PTL DEF Spec

(* Wherever commands die, a snapshot and its pulls have one verdict, and    *)
(* what is marked was accepted.                                             *)
THEOREM ArchiveTellsOneStory == Spec => []ArchiveAgrees
  <1>1. WaitInv => ArchiveAgrees
    BY DEF WaitInv
  <1> QED BY <1>1, WaitInit, WaitStep, PTL DEF Spec

(* However often a run is planned, kept and resumed, what was traded is     *)
(* marked as planned, unless a crash lost the mark.                         *)
THEOREM TradedIsMarked == Spec => []RebalancedWasPlanned
  <1>1. WaitInv => RebalancedWasPlanned
    BY DEF WaitInv
  <1> QED BY <1>1, WaitInit, WaitStep, PTL DEF Spec

(* For every window and interval, the window is used up and not exceeded.   *)
THEOREM WindowIsKept == Spec => []WindowUsedUp
  <1>1. WaitInv => WindowUsedUp
    BY DEF WaitInv, Timely
  <1> QED BY <1>1, WaitInit, WaitStep, PTL DEF Spec

(* Whatever was asked for and whenever midnight passes, what is executed is *)
(* sound and of the day.                                                    *)
THEOREM OnlyTodaysIsTraded == Spec => TradesTodaysSignal
  <1>1. WaitInv /\ [Next]_vars =>
          [pc # "trade" /\ pc' = "trade" =>
             LET s == runs[run'].snapshot
             IN  /\ Accepted(s)
                 /\ WeightsOf(s).payload = [day |-> Today, form |-> "good"]
                 /\ VolsOf(s).payload.form = "good"
                 /\ VolsDated => VolsOf(s).payload.day = Today]_vars
    <2> DEFINE s == runs[run'].snapshot
    <2> SUFFICES ASSUME WaitInv, [Next]_vars, pc # "trade", pc' = "trade"
                 PROVE  /\ Accepted(s)
                        /\ WeightsOf(s).payload
                             = [day |-> Today, form |-> "good"]
                        /\ VolsOf(s).payload.form = "good"
                        /\ VolsDated => VolsOf(s).payload.day = Today
      OBVIOUS
    <2>1. Execute \/ \E r \in DOMAIN runs : Resume(r)
      BY DEF Next, CommandStep, Start, BeginAttempt, Answered, Unreachable,
             ReadTimesOut, BadStatus, GoodStatus, MarkValidation,
             RecordSnapshot, ExchangeRead, ExchangeFails, Raise, GiveUp,
             TooLate, Sleep, WakeUp, PlanBlocked, PersistNew, PersistAgain,
             MarkPlanned, DoNotExecute, Attention, Complete, MarkRebalanced,
             Crash, Ended, Tick, Goto, vars, commandVars
    <2>2. run' \in DOMAIN runs /\ IsCurrent(run')
      BY <2>1 DEF Execute, Resume, WaitInv, Current
    <2>3. /\ s \in DOMAIN snapshots /\ Accepted(s)
          /\ snapshots[s].date = Today
      BY <2>2 DEF IsCurrent, DateOf, WaitInv, References
    <2> HIDE DEF s
    <2> QED BY <2>3 DEF WaitInv, AcceptedIsCurrent
  <1> QED BY <1>1, WaitInit, WaitStep, PTL DEF Spec, TradesTodaysSignal

-----------------------------------------------------------------------------
(* A command moves on *)

AttemptPcs == {"fetch", "status", "mark", "snapshot", "exchange", "caught",
               "sleep"}

(* What main does after the wait, one after the other ...                   *)
Part(p) ==
    CASE p \in AttemptPcs -> 0
      [] p = "plan" -> 1
      [] p = "markPlanned" -> 2
      [] p = "execute" -> 3
      [] p = "trade" -> 4
      [] p = "markRebalanced" -> 5
      [] OTHER -> 6

(* ... and the places within one attempt.                                   *)
Place(p, e) ==
    CASE p = "fetch" -> IF e = "weights" THEN 0 ELSE 2
      [] p = "status" -> IF e = "weights" THEN 1 ELSE 3
      [] p = "mark" -> IF e = "weights" THEN 4 ELSE 5
      [] p = "snapshot" -> 6
      [] p = "exchange" -> 7
      [] p = "caught" -> 8
      [] OTHER -> 9

(* A sleep ends after the attempt it follows began.                         *)
Since ==
    /\ pc \in AttemptPcs => began <= clock
    /\ pc = "sleep" => began < wake /\ polling

(* A command that did not end is further: in a later part, in an attempt    *)
(* that began later, after one that began before the deadline, or later in  *)
(* the same attempt.                                                        *)
Further ==
    \/ Part(pc) < Part(pc')
    \/ /\ Part(pc) = 0 /\ Part(pc') = 0
       /\ \/ /\ began < began' /\ began' <= MaxClock
             /\ polling /\ began < deadline /\ UNCHANGED deadline
          \/ /\ UNCHANGED <<began, deadline>>
             /\ Place(pc, endpoint) < Place(pc', endpoint')

(* The wait cannot go on for ever: every step of a command leads further,   *)
(* and time passing takes nothing back.                                     *)
OnlyFurther ==
    [][(CommandStep => Further) /\ (Tick => UNCHANGED commandVars)]_vars

LEMMA SinceStep == WaitInv /\ Since /\ [Next]_vars => Since'
  <1> SUFFICES ASSUME WaitInv, Since, [Next]_vars PROVE Since'
    OBVIOUS
  <1> USE SignalWaitAssumption
  <1>1. CommandTyped
    BY DEF WaitInv, TypeOK, CommandTyped
  <1>2. CASE \/ \E poll \in BOOLEAN : Start(poll)
             \/ \E r \in DOMAIN runs : Resume(r)
             \/ WakeUp
    BY <1>1, <1>2
       DEF Start, Resume, WakeUp, BeginAttempt, Goto, Since, AttemptPcs,
           CommandTyped
  <1>3. CASE Crash \/ ExchangeRead \/ GiveUp \/ TooLate \/ ReadTimesOut
    BY <1>3 DEF Crash, ExchangeRead, GiveUp, TooLate, ReadTimesOut, Ended,
                Goto, Since, AttemptPcs
  <1>4. CASE Sleep
    BY <1>1, <1>4
       DEF Sleep, Goto, Delay, Remaining, attemptVars, Since, AttemptPcs,
           CommandTyped
  <1>5. CASE Tick \/ UNCHANGED vars
    BY <1>1, <1>5
       DEF Tick, vars, commandVars, attemptVars, waitVars, Since, CommandTyped
  <1>6. ASSUME UNCHANGED <<clock, began>>, pc' # "sleep",
               pc' \in AttemptPcs => pc \in AttemptPcs
        PROVE  Since'
    BY <1>6 DEF Since
  <1>7. CASE \/ \E answer \in {"none", "busy", "http"}, payload \in Payload :
                    Answered(answer, payload)
             \/ Unreachable \/ BadStatus \/ GoodStatus \/ MarkValidation
             \/ RecordSnapshot \/ ExchangeFails
    BY <1>6, <1>7
       DEF Answered, Unreachable, BadStatus, GoodStatus, MarkValidation,
           RecordSnapshot, ExchangeFails, Raise, Goto, attemptVars, AttemptPcs
  <1>8. CASE \/ PlanBlocked \/ PersistNew
             \/ \E r \in DOMAIN runs : PersistAgain(r)
             \/ MarkPlanned \/ DoNotExecute \/ Execute
             \/ Attention \/ Complete \/ MarkRebalanced
    BY <1>8
       DEF PlanBlocked, PersistNew, PersistAgain, MarkPlanned, DoNotExecute,
           Execute, Attention, Complete, MarkRebalanced, Goto, Since,
           AttemptPcs
  <1> QED
    BY <1>2, <1>3, <1>4, <1>5, <1>7, <1>8 DEF Next, CommandStep

LEMMA FurtherStep ==
    ASSUME WaitInv, Since, CommandStep
    PROVE  Further
  <1> USE SignalWaitAssumption DEF Further, Part, AttemptPcs, Goto
  <1>1. CommandTyped /\ Timely
    BY DEF WaitInv, TypeOK, CommandTyped
  <1>2. CASE WakeUp
    <2>1. began < clock /\ clock <= MaxClock /\ began < deadline /\ polling
      BY <1>1, <1>2 DEF WakeUp, Since, Timely, CommandTyped
    <2> QED BY <1>2, <2>1 DEF WakeUp, BeginAttempt
  <1>3. CASE GiveUp \/ TooLate \/ ReadTimesOut
    BY <1>3 DEF GiveUp, TooLate, ReadTimesOut, Ended
  <1>4. CASE \/ PlanBlocked \/ PersistNew
             \/ \E r \in DOMAIN runs : PersistAgain(r)
             \/ MarkPlanned \/ DoNotExecute \/ Execute
             \/ Attention \/ Complete \/ MarkRebalanced \/ ExchangeRead
    BY <1>4
       DEF PlanBlocked, PersistNew, PersistAgain, MarkPlanned, DoNotExecute,
           Execute, Attention, Complete, MarkRebalanced, ExchangeRead
  <1>5. CASE \E answer \in {"none", "busy", "http"}, payload \in Payload :
                 Answered(answer, payload)
    BY <1>5 DEF Answered, waitVars, Place
  <1>6. CASE Unreachable \/ BadStatus \/ ExchangeFails
    BY <1>6 DEF Unreachable, BadStatus, ExchangeFails, Raise, waitVars, Place
  <1>7. CASE GoodStatus
    <2>1. endpoint \in {"weights", "vols"}
      BY <1>1 DEF CommandTyped, Endpoints
    <2> QED BY <1>7, <2>1 DEF GoodStatus, waitVars, Place
  <1>8. CASE MarkValidation
    <2>1. endpoint \in {"weights", "vols"}
      BY <1>1 DEF CommandTyped, Endpoints
    <2> QED BY <1>8, <2>1 DEF MarkValidation, waitVars, Place
  <1>9. CASE RecordSnapshot \/ Sleep
    BY <1>9 DEF RecordSnapshot, Sleep, attemptVars, waitVars, Place
  <1> QED
    BY <1>2, <1>3, <1>4, <1>5, <1>6, <1>7, <1>8, <1>9 DEF CommandStep

THEOREM WaitMovesOn == Spec => OnlyFurther
  <1>1. Init => Since
    BY DEF Init, Since, AttemptPcs
  <1>2. WaitInv /\ Since /\ [Next]_vars
          => [(CommandStep => Further) /\ (Tick => UNCHANGED commandVars)]_vars
    BY FurtherStep DEF Tick
  <1> QED
    BY WaitInit, WaitStep, SinceStep, <1>1, <1>2, PTL DEF Spec, OnlyFurther
=============================================================================
