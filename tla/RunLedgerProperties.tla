------------------------- MODULE RunLedgerProperties -------------------------
(***************************************************************************)
(* What the run ledger must guarantee over a signal date.  One process at  *)
(* a time is how the timer runs yolo; an operator's command may run beside *)
(* it ("overlap"), and then arming that fails in one process can take the  *)
(* lock away under another ("stolen").                                     *)
(***************************************************************************)
EXTENDS RunLedger

Idle == \A p \in Procs : pc[p] = "idle"

(* Orders of at most one run are sent on a signal date, whatever crashes,   *)
(* resumes and new plans do: "one execution lock per                        *)
(* signal-date/network/account" (reserve_execution, release_execution).     *)
OneRunTrades ==
    ~stolen => \A r, s \in Runs : sent[r] # {} /\ sent[s] # {} => r = s

(* A run that ever entered execution keeps the lock of the day, so every    *)
(* later --live-data of the day is refused and every resume finds it.       *)
LockCoversSession ==
    ~stolen => \A r \in Runs : session[r] # "none" => lock = r

(* All processes past the reservation work on the run that holds the lock.  *)
HoldersAgree == ~stolen => \A p \in Procs : pc[p] \in Holding => lock = run[p]

(* As long as no two processes ran at once, every order belongs to intents  *)
(* the ledger still has: persist_run never replaces them under an execution *)
(* ("until execution actually starts").                                     *)
SentIntentsKept == ~overlap => \A r \in Runs : sent[r] \subseteq {version[r]}

(* "Used for failures that occur before an execution session exists and     *)
(* before any order can be transmitted" (release_execution) is true of      *)
(* every release, unless two processes ran at once.                         *)
ReleasesAreSafe == stolen => overlap

(* The lock, the sessions and the orders are a claim on the day that one    *)
(* run has at a time and that is given back only before the first order.    *)
Claimed == INSTANCE DayClaim WITH
    owner <- lock, traded <- {r \in Runs : sent[r] # {}}, exclusive <- ~stolen

ClaimsTheDay == Claimed!Spec

(* While no run of the day has a session a new --live-data may execute:     *)
(* "rebuild with a fresh --live-data so YOLO can create explicit            *)
(* reduce-only exits", the advice of the check that found the position.     *)
UnstartedDayIsFree ==
    Idle /\ (\A r \in Runs : session[r] = "none") => lock = NoRun
=============================================================================
