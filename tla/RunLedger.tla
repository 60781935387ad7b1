------------------------------ MODULE RunLedger ------------------------------
(***************************************************************************)
(* One signal date of one account, seen by every yolo process that touches *)
(* it: planning and refreshing a run (persist_run), the execution lock of  *)
(* the day, the session of a run, and the commands that use them           *)
(* (--live-data in PLAN or EXECUTE mode, --resume-execution).  What happens *)
(* inside the session is module Execution; here it is "send" and "finish". *)
(*                                                                         *)
(* Every action is one SQLite transaction (or autocommitted SELECT) of one *)
(* process; nothing keeps a second process from running between two.       *)
(***************************************************************************)
EXTENDS Naturals

CONSTANTS
    Procs,          \* yolo processes that may run at the same time
    Runs,           \* run keys: the plans the account's states lead to
    NoRun,          \* the lock row does not exist
    MayCrash,       \* TRUE: a process may die between two transactions
    MaxPlans        \* bound: times --live-data is started

ASSUME RunLedgerAssumption ==
    /\ NoRun \notin Runs
    /\ MayCrash \in BOOLEAN
    /\ MaxPlans \in Nat

VARIABLES
    (* the SQLite ledger *)
    version,    \* per run: which rewriting of its intents is stored, 0: no row
    session,    \* per run: execution_sessions.status, or "none"
    sent,       \* per run: the versions of its intents an order was sent for
    lock,       \* execution_locks.run_id of the day, or NoRun
    (* the processes *)
    pc,         \* where the command is
    mode,       \* "plan", "execute" or "resume"
    run,        \* the run key (run id) it works on
    locked,     \* execution_locked, read before planning
    verdict,    \* what persist_run decided: "insert", "refresh" or "keep"
    seen,       \* session, read at the entry of execute_run
    intents,    \* the version of the intents execute_run works through
    plans,      \* bounds the model
    (* what happened, for the properties *)
    overlap,    \* a process was started while another one ran
    stolen      \* a lock was released that another process relied on

ledgerVars == <<version, session, sent, lock>>
localVars == <<mode, run, locked, verdict, seen, intents>>
history == <<plans, overlap, stolen>>
vars == <<ledgerVars, pc, localVars, history>>

Modes == {"plan", "execute", "resume"}
Statuses == {"none", "running", "attention", "complete"}
Planning == {"look", "readRun", "writeRun", "gate"}
Holding == {"read", "snapshot", "arm", "session", "executing"}
Pcs == {"idle", "entry", "reserve"} \cup Planning \cup Holding

TypeOK ==
    /\ version \in [Runs -> Nat]
    /\ session \in [Runs -> Statuses]
    /\ sent \in [Runs -> SUBSET Nat]
    /\ lock \in Runs \cup {NoRun}
    /\ pc \in [Procs -> Pcs]
    /\ mode \in [Procs -> Modes]
    /\ run \in [Procs -> Runs]
    /\ locked \in [Procs -> BOOLEAN]
    /\ verdict \in [Procs -> {"insert", "refresh", "keep"}]
    /\ seen \in [Procs -> Statuses]
    /\ intents \in [Procs -> Nat]
    /\ plans \in 0..MaxPlans
    /\ overlap \in BOOLEAN
    /\ stolen \in BOOLEAN

Init ==
    /\ version = [r \in Runs |-> 0]
    /\ session = [r \in Runs |-> "none"]
    /\ sent = [r \in Runs |-> {}]
    /\ lock = NoRun
    /\ pc = [p \in Procs |-> "idle"]
    /\ mode = [p \in Procs |-> "plan"]
    /\ run \in {[p \in Procs |-> r] : r \in Runs}
    /\ locked = [p \in Procs |-> FALSE]
    /\ verdict = [p \in Procs |-> "keep"]
    /\ seen = [p \in Procs |-> "none"]
    /\ intents = [p \in Procs |-> 0]
    /\ plans = 0
    /\ overlap = FALSE
    /\ stolen = FALSE

Goto(p, next) == pc' = [pc EXCEPT ![p] = next]

-----------------------------------------------------------------------------
(* Commands *)

NoteOverlap(p) ==
    /\ overlap' = (overlap \/ \E q \in Procs \ {p} : pc[q] # "idle")
    /\ UNCHANGED stolen

\* --live-data: the account's state decides the run key.
StartFresh(p, m, r) ==
    /\ pc[p] = "idle"
    /\ plans < MaxPlans
    /\ plans' = plans + 1
    /\ Goto(p, "look")
    /\ mode' = [mode EXCEPT ![p] = m]
    /\ run' = [run EXCEPT ![p] = r]
    /\ NoteOverlap(p)
    /\ UNCHANGED <<ledgerVars, locked, verdict, seen, intents>>

\* --resume-execution RUN_ID
StartResume(p, r) ==
    /\ pc[p] = "idle"
    /\ version[r] # 0
    /\ Goto(p, "entry")
    /\ mode' = [mode EXCEPT ![p] = "resume"]
    /\ run' = [run EXCEPT ![p] = r]
    /\ NoteOverlap(p)
    /\ UNCHANGED <<ledgerVars, locked, verdict, seen, intents, plans>>

Crash(p) ==
    /\ MayCrash
    /\ pc[p] # "idle"
    /\ Goto(p, "idle")
    /\ UNCHANGED <<ledgerVars, localVars, history>>

-----------------------------------------------------------------------------
(* Planning: _persist_and_print_prelive *)

LookAtLock(p) ==
    /\ pc[p] = "look"
    /\ locked' = [locked EXCEPT ![p] = (lock # NoRun)]
    /\ Goto(p, "readRun")
    /\ UNCHANGED <<ledgerVars, mode, run, verdict, seen, intents, history>>

\* Faulty: a stored plan is replaced whatever became of it.
RefreshableAlways(r) == TRUE

\* Nothing transmitted, no attempt prepared and no session.
Refreshable(r) == sent[r] = {} /\ session[r] = "none"

\* The SELECTs of persist_run, which hold no write lock yet.
ReadRun(p) ==
    /\ pc[p] = "readRun"
    /\ verdict' = [verdict EXCEPT ![p] =
                    IF version[run[p]] = 0 THEN "insert"
                    ELSE IF Refreshable(run[p]) THEN "refresh" ELSE "keep"]
    /\ Goto(p, "writeRun")
    /\ UNCHANGED <<ledgerVars, mode, run, locked, seen, intents, history>>

\* The key is unique: of two processes that insert the same run one dies.
InsertFails(p) ==
    /\ pc[p] = "writeRun"
    /\ verdict[p] = "insert" /\ version[run[p]] # 0
    /\ Goto(p, "idle")
    /\ UNCHANGED <<ledgerVars, localVars, history>>

\* Rewritten intents are new rows with new ids.
WriteRun(p) ==
    /\ pc[p] = "writeRun"
    /\ verdict[p] = "insert" => version[run[p]] = 0
    /\ version' = IF verdict[p] = "keep" THEN version
                  ELSE [version EXCEPT ![run[p]] = @ + 1]
    /\ Goto(p, "gate")
    /\ UNCHANGED <<session, sent, lock, localVars, history>>

\* The health summary: PLAN mode ends here, EXECUTE needs an unlocked day.
Gate(p) ==
    /\ pc[p] = "gate"
    /\ Goto(p, IF mode[p] = "execute" /\ ~locked[p] THEN "entry" ELSE "idle")
    /\ UNCHANGED <<ledgerVars, localVars, history>>

-----------------------------------------------------------------------------
(* Entry of execute_run *)

MayEnter(p) ==
    /\ mode[p] = "resume" => session[run[p]] # "none" \/ lock = run[p]
    /\ session[run[p]] # "complete"

ReadSession(p) ==
    /\ pc[p] = "entry"
    /\ seen' = [seen EXCEPT ![p] = session[run[p]]]
    /\ Goto(p, IF MayEnter(p) THEN "reserve" ELSE "idle")
    /\ UNCHANGED <<ledgerVars, mode, run, locked, verdict, intents, history>>

\* Faulty: a lock of another run is not looked at.
LockFreeForAll(p) == TRUE

LockFree(p) == lock \in {NoRun, run[p]}

\* Re-entrant for the run that holds the lock already.
Reserve(p) ==
    /\ pc[p] = "reserve"
    /\ IF LockFree(p)
       THEN lock' = run[p] /\ Goto(p, "read")
       ELSE lock' = lock /\ Goto(p, "idle")
    /\ UNCHANGED <<version, session, sent, localVars, history>>

ReadIntents(p) ==
    /\ pc[p] = "read"
    /\ intents' = [intents EXCEPT ![p] = version[run[p]]]
    /\ Goto(p, "snapshot")
    /\ UNCHANGED <<ledgerVars, mode, run, locked, verdict, seen, history>>

SnapshotOk(p) ==
    /\ pc[p] = "snapshot"
    /\ Goto(p, "arm")
    /\ UNCHANGED <<ledgerVars, localVars, history>>

\* The read failed or shows a position outside the run's targets: the
\* exception leaves execute_run with the lock held.
SnapshotFails(p) ==
    /\ pc[p] = "snapshot"
    /\ Goto(p, "idle")
    /\ UNCHANGED <<ledgerVars, localVars, history>>

\* Armed, waived by the operator, or no intent to arm it for.
ArmOk(p) ==
    /\ pc[p] = "arm"
    /\ Goto(p, "session")
    /\ UNCHANGED <<ledgerVars, localVars, history>>

\* Faulty: the lock is given up although a session refers to it.
ReleaseAlways(p) == lock' = IF lock = run[p] THEN NoRun ELSE lock

\* Only this run's reservation, and only if there was no session at entry.
ReleaseExecution(p) ==
    lock' = IF seen[p] = "none" /\ lock = run[p] THEN NoRun ELSE lock

\* Somebody else went on under the lock of this run.
ReliedOn(p) ==
    \/ session[run[p]] # "none"
    \/ \E q \in Procs \ {p} : pc[q] \in Holding

ArmFails(p) ==
    /\ pc[p] = "arm"
    /\ ReleaseExecution(p)
    /\ stolen' = (stolen \/ (lock' # lock /\ ReliedOn(p)))
    /\ Goto(p, "idle")
    /\ UNCHANGED <<version, session, sent, localVars, plans, overlap>>

StartSession(p) ==
    /\ pc[p] = "session"
    /\ session' = [session EXCEPT ![run[p]] =
                    IF @ = "complete" THEN @ ELSE "running"]
    /\ Goto(p, "executing")
    /\ UNCHANGED <<version, sent, lock, localVars, history>>

-----------------------------------------------------------------------------
(* The session: see Execution *)

\* An attempt is prepared for an intent, sent and recorded.
Send(p) ==
    /\ pc[p] = "executing"
    /\ sent' = [sent EXCEPT ![run[p]] = @ \cup {intents[p]}]
    /\ UNCHANGED <<version, session, lock, pc, localVars, history>>

\* Faulty: a spelling the check at the entry does not know.
FinalStatusesMisspelt == {"completed", "attention"}

FinalStatuses == {"complete", "attention"}

\* Faulty: the day is given up once the run is over.
FinishAndRelease(p) ==
    /\ pc[p] = "executing"
    /\ \E status \in FinalStatuses :
        session' = [session EXCEPT ![run[p]] = status]
    /\ lock' = NoRun
    /\ Goto(p, "idle")
    /\ UNCHANGED <<version, sent, localVars, history>>

FinishSession(p) ==
    /\ pc[p] = "executing"
    /\ \E status \in FinalStatuses :
        session' = [session EXCEPT ![run[p]] = status]
    /\ Goto(p, "idle")
    /\ UNCHANGED <<version, sent, lock, localVars, history>>

-----------------------------------------------------------------------------
Plan(p) ==
    LookAtLock(p) \/ ReadRun(p) \/ WriteRun(p) \/ InsertFails(p) \/ Gate(p)

Execute(p) ==
    \/ ReadSession(p) \/ Reserve(p) \/ ReadIntents(p)
    \/ SnapshotOk(p) \/ SnapshotFails(p) \/ ArmOk(p) \/ ArmFails(p)
    \/ StartSession(p) \/ Send(p) \/ FinishSession(p)

Next ==
    \E p \in Procs :
        \/ \E r \in Runs, m \in {"plan", "execute"} : StartFresh(p, m, r)
        \/ \E r \in Runs : StartResume(p, r)
        \/ Plan(p) \/ Execute(p) \/ Crash(p)

Spec == Init /\ [][Next]_vars
=============================================================================
