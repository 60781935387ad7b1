-------------------------- MODULE RunLedgerProofs --------------------------
(***************************************************************************)
(* Proofs about RunLedger for any number of processes, runs and plans.     *)
(*                                                                         *)
(* The lock argument (LockInv) only needs that no lock was released that   *)
(* another process relied on.  That this never happens while processes do  *)
(* not overlap, and that persist_run and execute_run then agree about the  *)
(* intents, is the second invariant (Solo): what a process read is still   *)
(* true when it acts on it, because nobody else runs.                      *)
(*                                                                         *)
(* Together they are what the abstract claim of a day (DayClaim) needs.    *)
(***************************************************************************)
EXTENDS RunLedgerProperties, TLAPS

(* An order was only ever sent inside a session.                            *)
SentUnderSession == \A r \in Runs : sent[r] # {} => session[r] # "none"

(* Past the start of its session a process has one.                         *)
ExecutesInSession ==
    \A p \in Procs : pc[p] = "executing" => session[run[p]] # "none"

(* What a process read at the entry of execute_run still holds when it      *)
(* decides to release the lock.                                             *)
SeenIsFresh ==
    \A p \in Procs :
        pc[p] \in {"reserve", "read", "snapshot", "arm"} /\ seen[p] = "none"
            => session[run[p]] = "none"

LockInv ==
    /\ TypeOK
    /\ LockCoversSession
    /\ HoldersAgree
    /\ SentUnderSession
    /\ ExecutesInSession

AtMostOneRuns ==
    \A p, q \in Procs : pc[p] # "idle" /\ pc[q] # "idle" => p = q

Stored == {"gate", "entry", "reserve"} \cup Holding

(* No order without a stored plan; and past planning the run is stored.     *)
PlanIsStored ==
    /\ \A r \in Runs : 0 \notin sent[r]
    /\ \A p \in Procs : pc[p] \in Stored => version[run[p]] # 0

(* The decision of persist_run is still right when it writes.               *)
VerdictIsFresh ==
    \A p \in Procs :
        pc[p] = "writeRun" => IF verdict[p] = "keep" THEN version[run[p]] # 0
                              ELSE sent[run[p]] = {}

(* execute_run works through the intents that are stored.                   *)
IntentsAreFresh ==
    \A p \in Procs :
        pc[p] \in {"snapshot", "arm", "session", "executing"} =>
            intents[p] = version[run[p]]

IntentsKept == \A r \in Runs : sent[r] \subseteq {version[r]}

Solo ==
    /\ AtMostOneRuns
    /\ ~stolen
    /\ SeenIsFresh
    /\ IntentsKept
    /\ PlanIsStored
    /\ VerdictIsFresh
    /\ IntentsAreFresh

SoloInv == TypeOK /\ (~overlap => Solo)

(* Types are preserved by every step.                                       *)
LEMMA TypeStep == TypeOK /\ [Next]_vars => TypeOK'
<1> SUFFICES ASSUME TypeOK, [Next]_vars PROVE TypeOK'
  OBVIOUS
<1> USE RunLedgerAssumption DEF TypeOK, Statuses, Modes, history
<1>1. CASE UNCHANGED vars
  BY <1>1 DEF vars, ledgerVars, localVars
<1>2. ASSUME NEW p \in Procs, NEW r \in Runs, NEW m \in {"plan", "execute"},
             StartFresh(p, m, r)
      PROVE  TypeOK'
  BY <1>2 DEF StartFresh, NoteOverlap, Goto, ledgerVars, Pcs, Planning
<1>3. ASSUME NEW p \in Procs, NEW r \in Runs, StartResume(p, r)
      PROVE  TypeOK'
  BY <1>3 DEF StartResume, NoteOverlap, Goto, ledgerVars, Pcs
<1>4. ASSUME NEW p \in Procs, Crash(p) PROVE TypeOK'
  BY <1>4 DEF Crash, Goto, ledgerVars, localVars, Pcs
<1>5. ASSUME NEW p \in Procs, Plan(p) PROVE TypeOK'
  <2>1. CASE LookAtLock(p)
    BY <2>1 DEF LookAtLock, Goto, ledgerVars, Pcs, Planning
  <2>2. CASE ReadRun(p)
    BY <2>2 DEF ReadRun, Goto, ledgerVars, Pcs, Planning
  <2>3. CASE WriteRun(p)
    BY <2>3 DEF WriteRun, Goto, localVars, Pcs, Planning
  <2>4. CASE InsertFails(p)
    BY <2>4 DEF InsertFails, Goto, ledgerVars, localVars, Pcs
  <2>5. CASE Gate(p)
    BY <2>5 DEF Gate, Goto, ledgerVars, localVars, Pcs
  <2>6. QED  BY <1>5, <2>1, <2>2, <2>3, <2>4, <2>5 DEF Plan
<1>6. ASSUME NEW p \in Procs, Execute(p) PROVE TypeOK'
  <2>1. CASE ReadSession(p)
    BY <2>1 DEF ReadSession, Goto, ledgerVars, Pcs
  <2>2. CASE Reserve(p)
    BY <2>2 DEF Reserve, Goto, localVars, Pcs, Holding
  <2>3. CASE ReadIntents(p)
    BY <2>3 DEF ReadIntents, Goto, ledgerVars, Pcs, Holding
  <2>4. CASE SnapshotOk(p) \/ SnapshotFails(p) \/ ArmOk(p)
    BY <2>4 DEF SnapshotOk, SnapshotFails, ArmOk, Goto, ledgerVars, localVars,
                Pcs, Holding
  <2>5. CASE ArmFails(p)
    BY <2>5 DEF ArmFails, ReleaseExecution, Goto, localVars, Pcs
  <2>6. CASE StartSession(p)
    BY <2>6 DEF StartSession, Goto, localVars, Pcs, Holding
  <2>7. CASE Send(p)
    BY <2>7 DEF Send, localVars
  <2>8. CASE FinishSession(p)
    BY <2>8 DEF FinishSession, FinalStatuses, Goto, localVars, Pcs
  <2>9. QED
    BY <1>6, <2>1, <2>2, <2>3, <2>4, <2>5, <2>6, <2>7, <2>8 DEF Execute
<1>7. QED  BY <1>1, <1>2, <1>3, <1>4, <1>5, <1>6 DEF Next

(* The lock is never taken from a run whose session exists or whose process *)
(* is past the reservation.                                                 *)
LEMMA LockStep == LockInv /\ [Next]_vars => LockInv'
<1> SUFFICES ASSUME LockInv, [Next]_vars PROVE LockInv'
  OBVIOUS
<1> USE RunLedgerAssumption DEF history
<1> TypeOK  BY DEF LockInv
<1> TypeOK'  BY TypeStep
<1>1. CASE UNCHANGED vars
  BY <1>1 DEF vars, ledgerVars, localVars, LockInv, LockCoversSession,
              HoldersAgree, SentUnderSession, ExecutesInSession
<1>2. ASSUME NEW p \in Procs, NEW r \in Runs,
             \/ \E m \in {"plan", "execute"} : StartFresh(p, m, r)
             \/ StartResume(p, r)
      PROVE  LockInv'
  BY <1>2 DEF StartFresh, StartResume, NoteOverlap, Goto, ledgerVars, LockInv,
              TypeOK, LockCoversSession, HoldersAgree, SentUnderSession,
              ExecutesInSession, Holding
<1>3. ASSUME NEW p \in Procs, Crash(p) \/ Plan(p) PROVE LockInv'
  <2>1. UNCHANGED <<session, sent, lock, run, seen, stolen>>
    BY <1>3 DEF Crash, Plan, LookAtLock, ReadRun, WriteRun, InsertFails, Gate,
                ledgerVars, localVars
  <2>2. \E s \in {"idle", "readRun", "writeRun", "gate", "entry"} : Goto(p, s)
    BY <1>3 DEF Crash, Plan, LookAtLock, ReadRun, WriteRun, InsertFails, Gate
  <2>3. QED
    BY <2>1, <2>2 DEF Goto, LockInv, TypeOK, LockCoversSession, HoldersAgree,
                      SentUnderSession, ExecutesInSession, Holding
<1>4. ASSUME NEW p \in Procs, Execute(p) PROVE LockInv'
  <2>1. CASE ReadSession(p)
    BY <2>1 DEF ReadSession, Goto, ledgerVars, LockInv, TypeOK,
                LockCoversSession, HoldersAgree, SentUnderSession,
                ExecutesInSession, Holding
  <2>2. CASE Reserve(p)
    BY <2>2 DEF Reserve, LockFree, Goto, localVars, LockInv, TypeOK,
                LockCoversSession, HoldersAgree, SentUnderSession,
                ExecutesInSession, Holding
  <2>3. CASE ReadIntents(p) \/ SnapshotOk(p) \/ SnapshotFails(p) \/ ArmOk(p)
    BY <2>3 DEF ReadIntents, SnapshotOk, SnapshotFails, ArmOk, Goto,
                ledgerVars, localVars, LockInv, TypeOK, LockCoversSession,
                HoldersAgree, SentUnderSession, ExecutesInSession, Holding
  <2>4. CASE ArmFails(p)
    <3>1. ASSUME ~stolen', lock' # lock
          PROVE  /\ lock = run[p] /\ session[run[p]] = "none"
                 /\ \A q \in Procs \ {p} : pc[q] \notin Holding
      BY <2>4, <3>1 DEF ArmFails, ReleaseExecution, ReliedOn, TypeOK
    <3>2. ~stolen' => ~stolen
      BY <2>4 DEF ArmFails
    <3>3. LockCoversSession'
      BY <2>4, <3>1, <3>2 DEF ArmFails, localVars, LockInv, LockCoversSession
    <3>4. HoldersAgree'
      BY <2>4, <3>1, <3>2 DEF ArmFails, Goto, localVars, LockInv, TypeOK,
                              HoldersAgree, Holding
    <3>5. SentUnderSession' /\ ExecutesInSession'
      BY <2>4 DEF ArmFails, Goto, localVars, LockInv, TypeOK, SentUnderSession,
                  ExecutesInSession
    <3>6. QED  BY <3>3, <3>4, <3>5 DEF LockInv
  <2>5. CASE StartSession(p)
    BY <2>5 DEF StartSession, Goto, localVars, LockInv, TypeOK,
                LockCoversSession, HoldersAgree, SentUnderSession,
                ExecutesInSession, Holding
  <2>6. CASE Send(p)
    BY <2>6 DEF Send, localVars, LockInv, TypeOK, LockCoversSession,
                HoldersAgree, SentUnderSession, ExecutesInSession
  <2>7. CASE FinishSession(p)
    BY <2>7 DEF FinishSession, FinalStatuses, Goto, localVars, LockInv,
                TypeOK, LockCoversSession, HoldersAgree, SentUnderSession,
                ExecutesInSession, Holding
  <2>8. QED
    BY <1>4, <2>1, <2>2, <2>3, <2>4, <2>5, <2>6, <2>7 DEF Execute
<1>5. QED  BY <1>1, <1>2, <1>3, <1>4 DEF Next

(* Overlap is never forgotten, and starting beside another process is one.  *)
LEMMA OverlapStep ==
    ASSUME [Next]_vars, ~overlap'
    PROVE  /\ ~overlap
           /\ \A p \in Procs, r \in Runs :
                (\E m \in {"plan", "execute"} : StartFresh(p, m, r))
                  \/ StartResume(p, r) =>
                    \A q \in Procs \ {p} : pc[q] = "idle"
<1>1. \A p \in Procs, r \in Runs :
        (\E m \in {"plan", "execute"} : StartFresh(p, m, r))
          \/ StartResume(p, r) =>
            ~overlap /\ \A q \in Procs \ {p} : pc[q] = "idle"
  BY DEF StartFresh, StartResume, NoteOverlap
<1>2. (\E p \in Procs : Plan(p) \/ Execute(p) \/ Crash(p)) => overlap' = overlap
  BY DEF Plan, Execute, Crash, LookAtLock, ReadRun, WriteRun, InsertFails, Gate,
         ReadSession, Reserve, ReadIntents, SnapshotOk, SnapshotFails, ArmOk,
         ArmFails, StartSession, Send, FinishSession, history
<1>3. UNCHANGED vars => overlap' = overlap
  BY DEF vars, history
<1>4. QED  BY <1>1, <1>2, <1>3 DEF Next

(* While processes run one after the other, rewriting the intents of a run  *)
(* and sending orders for them exclude each other, and no lock is stolen.   *)
LEMMA SoloStep == SoloInv /\ [Next]_vars => SoloInv'
<1> SUFFICES ASSUME TypeOK, Solo, [Next]_vars, ~overlap' PROVE Solo'
  BY TypeStep, OverlapStep DEF SoloInv
<1> USE RunLedgerAssumption DEF history
<1> TypeOK'  BY TypeStep
<1> USE DEF Solo, AtMostOneRuns, SeenIsFresh, IntentsKept, PlanIsStored,
            VerdictIsFresh, IntentsAreFresh, Stored, Holding
<1>1. CASE UNCHANGED vars
  BY <1>1 DEF vars, ledgerVars, localVars
<1>2. ASSUME NEW p \in Procs, pc[p] # "idle"
      PROVE  \A q \in Procs : q = p \/ pc[q] = "idle"
  BY <1>2
<1>3. ASSUME NEW p \in Procs, NEW r \in Runs,
             \/ \E m \in {"plan", "execute"} : StartFresh(p, m, r)
             \/ StartResume(p, r)
      PROVE  Solo'
  <2>1. \A q \in Procs : q = p \/ pc[q] = "idle"
    BY <1>3, OverlapStep
  <2>2. UNCHANGED <<version, session, sent, verdict, seen, intents, stolen>>
    BY <1>3 DEF StartFresh, StartResume, NoteOverlap, ledgerVars
  <2>3. /\ run'[p] = r
        /\ pc'[p] \in {"look", "entry"}
        /\ pc'[p] = "entry" => version[r] # 0
    BY <1>3 DEF StartFresh, StartResume, Goto, TypeOK
  <2>4. \A q \in Procs \ {p} : pc'[q] = "idle"
    BY <1>3, <2>1 DEF StartFresh, StartResume, Goto, TypeOK
  <2>5. AtMostOneRuns' /\ SeenIsFresh' /\ ~stolen'
    BY <2>2, <2>3, <2>4
  <2>6. IntentsKept' /\ PlanIsStored'
    BY <2>2, <2>3, <2>4
  <2>7. VerdictIsFresh' /\ IntentsAreFresh'
    BY <2>2, <2>3, <2>4
  <2>8. QED  BY <2>5, <2>6, <2>7
<1>4. ASSUME NEW p \in Procs, Crash(p) PROVE Solo'
  BY <1>2, <1>4 DEF Crash, Goto, ledgerVars, localVars, TypeOK
<1>5. ASSUME NEW p \in Procs, Plan(p) PROVE Solo'
  <2>1. CASE LookAtLock(p)
    BY <1>2, <2>1 DEF LookAtLock, Goto, ledgerVars, TypeOK
  <2>2. CASE ReadRun(p)
    <3>1. /\ sent' = sent /\ version' = version /\ run' = run
          /\ session' = session /\ seen' = seen /\ stolen' = stolen
      BY <2>2 DEF ReadRun, ledgerVars
    <3>2. version[run[p]] = 0 => sent[run[p]] = {}
      BY DEF TypeOK
    <3>3. VerdictIsFresh'
      <4>1. pc'[p] = "writeRun" /\ \A q \in Procs \ {p} : pc'[q] = "idle"
        BY <1>2, <2>2 DEF ReadRun, Goto, TypeOK
      <4>2. verdict'[p] = "keep" => version[run[p]] # 0
        BY <2>2 DEF ReadRun, TypeOK
      <4>3. verdict'[p] # "keep" => sent[run[p]] = {}
        BY <2>2, <3>2 DEF ReadRun, Refreshable, TypeOK
      <4>4. QED  BY <3>1, <4>1, <4>2, <4>3
    <3>4. PlanIsStored' /\ IntentsAreFresh' /\ IntentsKept'
      BY <1>2, <2>2, <3>1 DEF ReadRun, Goto, TypeOK
    <3>5. AtMostOneRuns' /\ SeenIsFresh' /\ ~stolen'
      BY <1>2, <2>2, <3>1 DEF ReadRun, Goto, TypeOK
    <3>6. QED  BY <3>3, <3>4, <3>5
  <2>3. CASE WriteRun(p)
    <3>1. version'[run[p]] # 0 /\ run' = run /\ sent' = sent
      BY <2>3 DEF WriteRun, localVars, TypeOK
    <3>2. \A r \in Runs : version'[r] # version[r] => sent[r] = {}
      BY <2>3 DEF WriteRun, TypeOK
    <3>3. PlanIsStored' /\ IntentsKept'
      BY <1>2, <2>3, <3>1, <3>2 DEF WriteRun, Goto, TypeOK
    <3>4. VerdictIsFresh' /\ IntentsAreFresh'
      BY <1>2, <2>3 DEF WriteRun, Goto, TypeOK
    <3>5. AtMostOneRuns' /\ SeenIsFresh' /\ ~stolen'
      BY <1>2, <2>3 DEF WriteRun, Goto, localVars, TypeOK
    <3>6. QED  BY <3>3, <3>4, <3>5
  <2>4. CASE InsertFails(p)
    BY <1>2, <2>4 DEF InsertFails, Goto, ledgerVars, localVars, TypeOK
  <2>5. CASE Gate(p)
    BY <1>2, <2>5 DEF Gate, Goto, ledgerVars, localVars, TypeOK
  <2>6. QED  BY <1>5, <2>1, <2>2, <2>3, <2>4, <2>5 DEF Plan
<1>6. ASSUME NEW p \in Procs, Execute(p) PROVE Solo'
  <2>1. CASE ReadSession(p)
    BY <1>2, <2>1 DEF ReadSession, Goto, ledgerVars, TypeOK
  <2>2. CASE Reserve(p)
    BY <1>2, <2>2 DEF Reserve, Goto, localVars, TypeOK
  <2>3. CASE ReadIntents(p)
    BY <1>2, <2>3 DEF ReadIntents, Goto, ledgerVars, TypeOK
  <2>4. CASE SnapshotOk(p) \/ SnapshotFails(p) \/ ArmOk(p)
    BY <1>2, <2>4 DEF SnapshotOk, SnapshotFails, ArmOk, Goto, ledgerVars,
                      localVars, TypeOK
  <2>5. CASE ArmFails(p)
    <3>1. ~stolen'
      BY <1>2, <2>5 DEF ArmFails, ReleaseExecution, ReliedOn
    <3>2. AtMostOneRuns' /\ SeenIsFresh' /\ VerdictIsFresh'
      BY <1>2, <2>5 DEF ArmFails, Goto, localVars, TypeOK
    <3>3. IntentsKept' /\ PlanIsStored' /\ IntentsAreFresh'
      BY <1>2, <2>5 DEF ArmFails, Goto, localVars, TypeOK
    <3>4. QED  BY <3>1, <3>2, <3>3
  <2>6. CASE StartSession(p)
    <3>1. PlanIsStored' /\ IntentsKept'
      BY <1>2, <2>6 DEF StartSession, Goto, localVars, TypeOK
    <3>2. VerdictIsFresh' /\ IntentsAreFresh'
      BY <1>2, <2>6 DEF StartSession, Goto, localVars, TypeOK
    <3>3. AtMostOneRuns' /\ SeenIsFresh' /\ ~stolen'
      BY <1>2, <2>6 DEF StartSession, Goto, localVars, TypeOK
    <3>4. QED  BY <3>1, <3>2, <3>3
  <2>7. CASE Send(p)
    <3>1. PlanIsStored' /\ IntentsKept'
      BY <2>7 DEF Send, localVars, TypeOK
    <3>2. VerdictIsFresh' /\ IntentsAreFresh'
      BY <1>2, <2>7 DEF Send, localVars, TypeOK
    <3>3. AtMostOneRuns' /\ SeenIsFresh' /\ ~stolen'
      BY <2>7 DEF Send, localVars, TypeOK
    <3>4. QED  BY <3>1, <3>2, <3>3
  <2>8. CASE FinishSession(p)
    BY <1>2, <2>8 DEF FinishSession, Goto, localVars, TypeOK
  <2>9. QED
    BY <1>6, <2>1, <2>2, <2>3, <2>4, <2>5, <2>6, <2>7, <2>8 DEF Execute
<1> HIDE DEF Solo, history
<1>7. QED  BY <1>1, <1>3, <1>4, <1>5, <1>6 DEF Next

LEMMA InitialLedger == Init => LockInv /\ SoloInv
<1> SUFFICES ASSUME Init PROVE LockInv /\ SoloInv
  OBVIOUS
<1> USE DEF Init
<1>1. TypeOK
  <2>1. run \in [Procs -> Runs]
    OBVIOUS
  <2>2. overlap \in BOOLEAN /\ stolen \in BOOLEAN
    OBVIOUS
  <2>3. QED
    BY <2>1, <2>2, RunLedgerAssumption DEF TypeOK, Pcs, Modes, Statuses
<1>2. LockCoversSession /\ HoldersAgree /\ SentUnderSession /\ ExecutesInSession
  BY DEF LockCoversSession, HoldersAgree, SentUnderSession, ExecutesInSession,
         Holding
<1>3. Solo
  BY DEF Solo, AtMostOneRuns, SeenIsFresh, IntentsKept, PlanIsStored,
         VerdictIsFresh, IntentsAreFresh, Stored, Holding
<1>4. QED  BY <1>1, <1>2, <1>3 DEF LockInv, SoloInv

-----------------------------------------------------------------------------
(* Every variable keeps its type, for any number of processes, runs and     *)
(* plans.                                                                   *)
THEOREM TypeCorrect == Spec => []TypeOK
<1>1. LockInv => TypeOK
  BY DEF LockInv
<1>2. QED  BY InitialLedger, LockStep, <1>1, PTL DEF Spec

(* Any number of processes: as long as no lock was released under another   *)
(* process, orders of one run only are sent on a day, and a run that has a  *)
(* session keeps the lock.                                                  *)
THEOREM DayBelongsToOneRun == Spec => [](OneRunTrades /\ LockCoversSession)
<1>1. LockInv => OneRunTrades /\ LockCoversSession
  BY DEF LockInv, LockCoversSession, SentUnderSession, OneRunTrades
<1>2. QED  BY InitialLedger, LockStep, <1>1, PTL DEF Spec

(* As long as no lock was released under another process, all processes     *)
(* past the reservation, however many, work on the run that holds it.       *)
THEOREM HoldersShareTheRun == Spec => []HoldersAgree
<1>1. LockInv => HoldersAgree
  BY DEF LockInv
<1>2. QED  BY InitialLedger, LockStep, <1>1, PTL DEF Spec

(* As long as no two processes ran at once, however often one crashes and   *)
(* is started again, an order belongs to intents the ledger still has.      *)
THEOREM OrdersKeepTheirIntents == Spec => []SentIntentsKept
<1>1. SoloInv => SentIntentsKept
  BY DEF SoloInv, Solo, IntentsKept, SentIntentsKept
<1>2. QED  BY InitialLedger, SoloStep, <1>1, PTL DEF Spec

(* A lock is only ever released under another process if two processes ran  *)
(* at once: alone, the release of a failed arming does what its text says.  *)
THEOREM LoneReleaseIsSafe == Spec => []ReleasesAreSafe
<1>1. SoloInv => ReleasesAreSafe
  BY DEF SoloInv, Solo, ReleasesAreSafe
<1>2. QED  BY InitialLedger, SoloStep, <1>1, PTL DEF Spec

-----------------------------------------------------------------------------
(* Every step of the ledger is a step of the abstract claim, or a stutter.  *)
LEMMA ClaimStep == LockInv /\ [Next]_vars => [Claimed!Next]_(Claimed!vars)
<1> SUFFICES ASSUME LockInv, [Next]_vars PROVE [Claimed!Next]_(Claimed!vars)
  OBVIOUS
<1> USE RunLedgerAssumption DEF history, Claimed!vars, Claimed!Next
<1> TypeOK  BY DEF LockInv
<1> DEFINE traders == {r \in Runs : sent[r] # {}}
<1>1. ASSUME UNCHANGED <<sent, lock, stolen>>
      PROVE  UNCHANGED Claimed!vars
  BY <1>1
<1>2. CASE stolen'
  BY <1>2 DEF Claimed!Breach
<1>3. ASSUME NEW p \in Procs, Reserve(p), ~stolen'
      PROVE  [Claimed!Next]_(Claimed!vars)
  <2>1. UNCHANGED <<sent, stolen>>
    BY <1>3 DEF Reserve
  <2>2. CASE lock' = lock
    BY <2>1, <2>2
  <2>3. CASE lock' # lock
    <3>1. lock = NoRun /\ lock' = run[p] /\ run[p] \in Runs
      BY <1>3, <2>3 DEF Reserve, LockFree, TypeOK
    <3>2. Claimed!Claim(run[p])
      BY <2>1, <3>1 DEF Claimed!Claim
    <3>3. QED  BY <1>3, <2>1, <3>1, <3>2
  <2>4. QED  BY <2>2, <2>3
<1>4. ASSUME NEW p \in Procs, ArmFails(p), ~stolen'
      PROVE  [Claimed!Next]_(Claimed!vars)
  <2>1. sent' = sent /\ ~stolen
    BY <1>4 DEF ArmFails
  <2>2. CASE lock' = lock
    BY <1>4, <2>1, <2>2
  <2>3. CASE lock' # lock
    <3>1. lock' = NoRun /\ lock = run[p] /\ session[run[p]] = "none"
      BY <1>4, <2>3 DEF ArmFails, ReleaseExecution, ReliedOn
    <3>2. lock \notin traders
      BY <3>1 DEF LockInv, SentUnderSession
    <3>3. Claimed!GiveBack
      BY <1>4, <2>1, <3>1, <3>2 DEF Claimed!GiveBack
    <3>4. QED  BY <2>1, <3>3
  <2>4. QED  BY <2>2, <2>3
<1>5. ASSUME NEW p \in Procs, Send(p), ~stolen'
      PROVE  [Claimed!Next]_(Claimed!vars)
  <2>1. lock = run[p] /\ ~stolen /\ run[p] \in Runs
    BY <1>5 DEF Send, LockInv, HoldersAgree, Holding, TypeOK
  <2>2. traders' = traders \cup {run[p]}
    <3>1. sent'[run[p]] # {}
      BY <1>5, <2>1 DEF Send, TypeOK
    <3>2. \A r \in Runs : r # run[p] => sent'[r] = sent[r]
      BY <1>5, <2>1 DEF Send, TypeOK
    <3>3. QED  BY <2>1, <3>1, <3>2
  <2>3. PICK r \in Runs : r = run[p]
    BY <2>1
  <2>4. Claimed!Trade(r)
    BY <1>5, <2>1, <2>2, <2>3 DEF Send, Claimed!Trade
  <2>5. QED  BY <2>1, <2>4
<1>6. ASSUME NEW p \in Procs,
             \/ \E r \in Runs, m \in {"plan", "execute"} : StartFresh(p, m, r)
             \/ \E r \in Runs : StartResume(p, r)
             \/ Plan(p) \/ Crash(p)
             \/ ReadSession(p) \/ ReadIntents(p) \/ SnapshotOk(p)
             \/ SnapshotFails(p) \/ ArmOk(p) \/ StartSession(p)
             \/ FinishSession(p)
      PROVE  UNCHANGED <<sent, lock, stolen>>
  BY <1>6 DEF StartFresh, StartResume, NoteOverlap, Plan, Crash, LookAtLock,
              ReadRun, WriteRun, InsertFails, Gate, ReadSession, ReadIntents,
              SnapshotOk, SnapshotFails, ArmOk, StartSession, FinishSession,
              ledgerVars
<1>7. UNCHANGED vars => UNCHANGED <<sent, lock, stolen>>
  BY DEF vars, ledgerVars
<1>8. QED  BY <1>1, <1>2, <1>3, <1>4, <1>5, <1>6, <1>7 DEF Next, Execute

(* The run ledger implements the exclusive claim of a day.                  *)
THEOREM ImplementsDayClaim == Spec => ClaimsTheDay
<1>1. Init => Claimed!Init
  BY DEF Init, Claimed!Init
<1>2. QED
  BY InitialLedger, LockStep, ClaimStep, <1>1, PTL
  DEF Spec, ClaimsTheDay, Claimed!Spec
=============================================================================
