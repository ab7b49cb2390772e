--------------------------- MODULE MCPeerSessions ---------------------------
(* Two peers.  The database has one of them, with one of its two URLs.      *)
EXTENDS PeerSessions, TLC

CONSTANTS p, q, up, up2, uq, s1, s2, s3, s4

MCUrls == {up, up2, uq}

MCPeerOf == (up :> p) @@ (up2 :> p) @@ (uq :> q)

Symmetry == Permutations(SessionIds)
=============================================================================
