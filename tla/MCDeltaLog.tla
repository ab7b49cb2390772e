----------------------------- MODULE MCDeltaLog ------------------------------
(* Instances of DeltaLog for TLC. *)
EXTENDS DeltaLog, TLC

AccountSymmetry == Permutations(Accounts)

=============================================================================
