------------------------------ MODULE DayClaim ------------------------------
(***************************************************************************)
(* What the execution lock promises for one signal date of one account:    *)
(* the day is claimed for one run, only the run that has it trades, and it *)
(* is given back only if nothing was traded - for as long as the claim is  *)
(* exclusive.  Nothing is promised after a breach.                         *)
(***************************************************************************)
CONSTANTS Runs, NoRun

VARIABLES
    owner,      \* the run the day is claimed for
    traded,     \* the runs orders were sent for
    exclusive   \* FALSE: a claim was given back under somebody's feet

vars == <<owner, traded, exclusive>>

Init == owner = NoRun /\ traded = {} /\ exclusive = TRUE

Claim(r) ==
    /\ owner = NoRun
    /\ owner' = r
    /\ UNCHANGED <<traded, exclusive>>

GiveBack ==
    /\ owner \notin traded
    /\ owner' = NoRun
    /\ UNCHANGED <<traded, exclusive>>

Trade(r) ==
    /\ owner = r
    /\ traded' = traded \cup {r}
    /\ UNCHANGED <<owner, exclusive>>

Breach == exclusive' = FALSE

Next ==
    \/ exclusive /\ \E r \in Runs : Claim(r) \/ Trade(r)
    \/ exclusive /\ GiveBack
    \/ Breach

Spec == Init /\ [][Next]_vars

(* Only the owner of the day has traded.                                    *)
OwnerTrades == exclusive => traded \subseteq {owner}
=============================================================================
