---------------------------- MODULE MCSyncSession ----------------------------
(* A bundle x and others whose accounts it invites; how many there are, which *)
(* have linked documents and how many arrive through other sessions differs   *)
(* between the configurations.                                                *)
EXTENDS SyncSession

CONSTANTS x, y, z

NoBundle == {}
OneLinked == {y}

\* The bundle x of the root account invites every other account.
MCInviters == [b \in Bundles |-> IF b = x THEN {} ELSE {x}]
=============================================================================
