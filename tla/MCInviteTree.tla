---------------------------- MODULE MCInviteTree -----------------------------
(* Instances of InviteTree for TLC. *)
EXTENDS InviteTree, TLC

CONSTANTS r, a, b, c

AllFour == {r, a, b, c}

\* The root invites a and b, which both may invite c.
Diamond == r :> {a, b} @@ a :> {c} @@ b :> {c} @@ c :> {}

\* The root invites a, a invites b, b invites a back and c.
Loop == r :> {a} @@ a :> {b} @@ b :> {a, c} @@ c :> {}

\* The root invites a and b, and a invites b as well.
Shortcut == r :> {a, b} @@ a :> {b} @@ b :> {} @@ c :> {}

\* The root invites a, and a and b invite each other.
Pair == r :> {a} @@ a :> {b} @@ b :> {a} @@ c :> {}
=============================================================================
