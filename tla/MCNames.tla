------------------------------- MODULE MCNames -------------------------------
(* Instances of Names for TLC. *)
EXTENDS Names, TLC

CONSTANTS o1, o2, o3

OwnerSymmetry == Permutations(Owners)

=============================================================================
