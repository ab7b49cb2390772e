--------------------------- MODULE MCSequenceSwap ----------------------------
(* Instances of SequenceSwap for TLC. *)
EXTENDS SequenceSwap, TLC

AccountSymmetry == Permutations(Accounts)

=============================================================================
