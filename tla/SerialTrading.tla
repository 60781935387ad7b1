--------------------------- MODULE SerialTrading ---------------------------
(***************************************************************************)
(* What the executor promises of one run, seen from the exchange: one      *)
(* order at a time, for no more than what its intent still lacks, and the  *)
(* intents in their order - no return to an intent once a later one has    *)
(* traded.  Nothing is promised any more once an order that the exchange   *)
(* accepted was not recorded ("accounted" is FALSE).                       *)
(***************************************************************************)
EXTENDS Integers

CONSTANTS
    Intents,        \* numbers, in the order of the plan
    Quantity        \* [Intents -> Nat]

VARIABLES
    resting,        \* the order at the exchange: its intent and open lots
    traded,         \* lots filled, per intent
    accounted

vars == <<resting, traded, accounted>>

Nothing == [intent |-> 0, lots |-> 0]

Init ==
    /\ resting = Nothing
    /\ traded = [i \in Intents |-> 0]
    /\ accounted = TRUE

\* What is placed fills in full at once, or rests.
Place(i, lots) ==
    /\ resting = Nothing
    /\ \A j \in Intents : j > i => traded[j] = 0
    /\ traded[i] + lots <= Quantity[i]
    /\ \/ resting' = [intent |-> i, lots |-> lots] /\ UNCHANGED traded
       \/ traded' = [traded EXCEPT ![i] = @ + lots] /\ UNCHANGED resting
    /\ UNCHANGED accounted

Fill ==
    /\ resting # Nothing
    /\ traded' = [traded EXCEPT ![resting.intent] = @ + 1]
    /\ resting' = IF resting.lots = 1 THEN Nothing
                  ELSE [resting EXCEPT !.lots = @ - 1]
    /\ UNCHANGED accounted

Cancel ==
    /\ resting' = Nothing
    /\ UNCHANGED <<traded, accounted>>

Breach == accounted' = FALSE

Next ==
    \/ accounted /\ \E i \in Intents : \E lots \in 1..Quantity[i] : Place(i, lots)
    \/ accounted /\ (Fill \/ Cancel)
    \/ Breach

Spec == Init /\ [][Next]_vars
=============================================================================
