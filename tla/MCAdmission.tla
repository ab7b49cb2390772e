----------------------------- MODULE MCAdmission -----------------------------
(* Two accounts, each the root of its own tree, and two sessions.           *)
EXTENDS Admission, TLC

CONSTANTS a1, a2, s1, s2

OwnRoot == [a \in Accounts |-> a]

Symmetry == Permutations(Accounts) \cup Permutations(SessionIds)
=============================================================================
