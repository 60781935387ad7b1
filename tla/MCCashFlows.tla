---------------------------- MODULE MCCashFlows ----------------------------
(* CashFlows with small values for TLC. *)
EXTENDS CashFlowsProperties

MCDepositKinds == {"deposit"}
MCFlowKinds == {"deposit", "withdraw"}
MCKinds == {"deposit", "withdraw", "spotTransfer"}
=============================================================================
