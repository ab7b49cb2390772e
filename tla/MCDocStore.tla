----------------------------- MODULE MCDocStore ------------------------------
(* Two accounts; root documents that share a file, or that do not.           *)
EXTENDS DocStore

CONSTANTS a, b, r, s, t, x, y, z

\* Every file belongs to one root.
Unshared == [d \in {r, s, t} |-> CASE d = r -> {x, y} [] d = s -> {z} [] d = t -> {}]

\* One file is in two roots.
Shared == [d \in {r, s, t} |-> CASE d = r -> {x, y} [] d = s -> {x} [] d = t -> {}]
=============================================================================
