------------------------ MODULE ExecutionProperties ------------------------
(***************************************************************************)
(* What Execution must guarantee.  Most of it holds as long as every       *)
(* placement the exchange accepted was recorded by the process that made   *)
(* it ("acknowledged"); the runs that allow a lost acknowledgement show    *)
(* which of them survive it and which do not.                              *)
(***************************************************************************)
EXTENDS Execution

Acknowledged == lost = 0

Open(c) == order[c].status = "open"
Placed(c) == order[c].status # "absent"
OfIntent(i) == {c \in Cloids : c[1] = i}
Filled(i) == MapThenSumSet(LAMBDA c : order[c].filled, OfIntent(i))
AtRisk(i) == MapThenSumSet(LAMBDA c : IF Open(c) THEN order[c].quantity
                                      ELSE order[c].filled, OfIntent(i))

(* An order the exchange accepted always belongs to a run that holds the    *)
(* day's lock, has an execution session and a durable attempt row, so no    *)
(* other run can reserve the day and persist_run can never refresh the plan *)
(* under it - whatever crashed or was lost.  reserve/release_execution      *)
(* (prelive.py 380-416) and the release in the arming failure path.         *)
OrdersAreClaimed ==
    \A c \in Cloids : Placed(c) =>
        /\ lock
        /\ session # "none"
        /\ attempt[c].status # "absent"

(* Of one intent at most one order rests at a time, and none does when the  *)
(* process is about to place another: reconciliation, cancel confirmation   *)
(* and the attempt loop of execute_run (603-806) leave no older CLOID alive.*)
OneOrderPerIntent ==
    Acknowledged =>
        /\ \A c, d \in Cloids : c[1] = d[1] /\ Open(c) /\ Open(d) => c = d
        /\ pc = "send" => \A c \in OfIntent(cur) : ~Open(c)

(* What has filled plus what can still fill never exceeds the intent's      *)
(* quantity: no crash, resume, reprice or feed lag over-trades a target.    *)
NoOverfill ==
    Acknowledged => \A i \in Intents : AtRisk(i) <= Plan[i].quantity

(* Seen from the exchange a run is serial trading: one order at a time, for *)
(* at most what its intent lacks, and no return to an intent after a later  *)
(* one has traded - through reprices, crashes and resumes.                  *)
Resting ==
    IF \E c \in Cloids : Open(c)
    THEN LET c == CHOOSE d \in Cloids : Open(d)
         IN  [intent |-> c[1], lots |-> order[c].quantity - order[c].filled]
    ELSE [intent |-> 0, lots |-> 0]

Serial == INSTANCE SerialTrading WITH
    Intents <- Intents, Quantity <- [i \in Intents |-> Plan[i].quantity],
    resting <- Resting, traded <- [i \in Intents |-> Filled(i)],
    accounted <- Acknowledged

TradesSerially == Serial!Spec

(* "The exchange-reported origSz - sz ... must reconcile before another     *)
(* order can be sent": at every send the ledger holds exactly what the      *)
(* exchange filled for this intent, order by order.                         *)
SendOnBookedFills ==
    pc = "send" /\ Acknowledged =>
        \A c \in OfIntent(cur) : attempt[c].booked = order[c].filled

(* An acceptance that was never recorded can cost at most the size it had:  *)
(* what fills and can still fill stays within the quantity once more per    *)
(* lost acknowledgement, however often the run is resumed and repriced.     *)
OverfillBoundedByLost ==
    \A i \in Intents : AtRisk(i) <= (1 + lost) * Plan[i].quantity

(* The drift check finds fills the ledger does not know, such as those of   *)
(* an order whose acceptance was lost: the process only goes on to send if  *)
(* what is missing on the ticker is within a minimum order at some price    *)
(* (an exact close: nothing is missing).  What fills after the check, and   *)
(* before the send, is not covered.                                         *)
UnbookedFillsBlockSend ==
    [][pc = "check" /\ pc' = "send" /\ manual = 0 =>
         LET missing == AbsVal(MapThenSumSet(
                 LAMBDA i : Sign(i) * (Filled(i) - ledgerQty[i]),
                 LegsOn(Plan[cur].ticker)))
         IN  \E mark \in DustLots :
               missing <= (IF ExactClose(cur) THEN 0
                           ELSE WithinMinimum(mark))]_vars

(* The opening leg of a sign flip (or any later intent) reaches the         *)
(* exchange only after every earlier intent is filled, or dust that may be  *)
(* left; an exact close must be filled to the last lot.                     *)
CloseBeforeOpen ==
    Acknowledged =>
        \A c \in Cloids, i \in Intents :
            Placed(c) /\ i < c[1] =>
                IF ExactClose(i) THEN Filled(i) = Plan[i].quantity
                ELSE intentStatus[i] \in {"filled", "dust"}

(* A completed run is quiet: nothing rests, every fill is booked, and       *)
(* without other trades the position is what the ledger says it is.         *)
CompleteIsQuiet ==
    session = "complete" /\ Acknowledged =>
        /\ \A c \in Cloids : ~Open(c) /\ attempt[c].booked = order[c].filled
        /\ manual = 0 =>
             \A t \in DOMAIN Destination : position[t] = ExpectedPosition(t)

(* With nobody else trading, a run whose intents all ended filled or dust   *)
(* passes its own final verification at every mark that is not above the    *)
(* prices its leftovers were dust at: the dust rules of build_alo_intents,  *)
(* of an attempt (709), of an intent's end (814) and of _postcheck agree.   *)
(* The prices are those of the plan and of the quotes nothing was sent at;  *)
(* only a mark above one of them can fail a settled run.                    *)
LeftAt(i) ==
    {Plan[i].refDust} \cup
    {attempt[c].dust : c \in {d \in OfIntent(i) : attempt[d].status \in Prepared}}

DustPrices(t) ==
    {AbsVal(LeftOut(t))} \cup
    UNION {LeftAt(i) : i \in {j \in LegsOn(t) : ledgerQty[j] < Plan[j].quantity}}

(* At every mark not above those prices the verification passes.            *)
DustRulesAgree ==
    pc = "postcheck" /\ Acknowledged /\ manual = 0 =>
        \A t \in DOMAIN Destination, mark \in DustLots :
            (\A d \in DustPrices(t) : d <= mark) => PostOk(t, mark)

(* The rebalanced mark is only set by a run that verified its positions     *)
(* and whose intents are all filled or dust, never by one in attention.     *)
MarkOnlyVerified ==
    [][rebalanced' # rebalanced =>
         /\ session = "complete"
         /\ \A i \in Intents : intentStatus[i] \in {"filled", "dust"}]_vars

(* A CLOID the exchange has taken is not sent a second time: no step leads  *)
(* to a send for a CLOID that is already placed.                            *)
NeverSentTwice ==
    [][pc' = "send" /\ lost' = 0 => order'[<<cur', no'>>].status = "absent"]_vars

(* A size prepared before a crash is still the remainder when a resume finds *)
(* it: what was reconciled in between cannot have changed it, so the branch *)
(* that abandons a "stale size" (667-681) is never needed.                  *)
PreparedSizeStands == PreparedFound => attempt[Cloid].quantity = Remaining

(* Once an attempt is recorded as finished it stays as it is: no resume     *)
(* revives a filled, canceled or rejected attempt under its number.         *)
FinishedAttemptsStay ==
    [][\A c \in Cloids :
         attempt[c].status \in Terminal \cup {"rejected"} =>
             /\ attempt'[c].status = attempt[c].status
             /\ attempt'[c].quantity = attempt[c].quantity]_vars

(* An order that rests is covered by a scheduled cancel while the process   *)
(* that works on the run is in its session, crash and resume included; it   *)
(* loses that cover by a deadline the run outlived, or by a finally clause  *)
(* that cleared it - never because a run went ahead without it.             *)
ArmedUntilCleared ==
    (\E c \in Cloids : Open(c)) =>
        \/ deadman \in {"armed", "early"}
        \/ deadman = "cleared" /\ pc \in {"idle", "snapshot", "arm"}

(* "If the process dies while an order rests, Hyperliquid can cancel        *)
(* remaining open orders after the configured deadline" (README.md:226): a  *)
(* process that ended with no verdict on its session left the schedule.     *)
ArmedWhenDead ==
    session = "running" /\ pc = "idle" /\ (\E c \in Cloids : Open(c)) =>
        deadman \in {"armed", "early"}

(* Whatever was sent before for this intent is out of the way before a new  *)
(* CLOID is sent, a lost acknowledgement included: "a previously            *)
(* transmitted CLOID is reconciled before anything new is sent".            *)
ReconciledBeforeNew ==
    pc = "send" => \A c \in OfIntent(cur) \ {Cloid} : ~Open(c)

(* Every start of the command ends: all polls and attempts are bounded.     *)
EveryRunEnds == pc # "idle" ~> pc = "idle"

(* Every resting order ends: its process cancels it, or the schedule does   *)
(* once the process is gone.  Only a finally clause that cleared the        *)
(* schedule (858-861), or a run that outlived it, can leave one for good.   *)
OrdersResolve ==
    \A c \in Cloids :
        Open(c) ~> \/ ~Open(c)
                   \/ pc = "idle" /\ deadman = "cleared"
                   \/ deadman = "early"
=============================================================================
