----------------------------- MODULE MCRunLedger -----------------------------
(* Instances of RunLedger for TLC: processes and runs are interchangeable. *)
EXTENDS RunLedgerProperties, TLC

Symmetry == Permutations(Procs) \cup Permutations(Runs)
=============================================================================
