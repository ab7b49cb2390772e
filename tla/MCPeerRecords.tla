---------------------------- MODULE MCPeerRecords ----------------------------
(* Two peers and three hosts; the list of endpoints against a loop.          *)
EXTENDS PeerRecords, FiniteSets, SequencesExt

CONSTANTS p1, p2, h0, h1, h2, s1, s2

MCOwner == [h \in Hosts |-> CASE h = h0 -> Self [] h = h1 -> p1 [] h = h2 -> p2]

Ws(h) == [host |-> h, secure |-> FALSE]
Wss(h) == [host |-> h, secure |-> TRUE]

\* p1 is behind TLS and announces only its port; p2 announces itself, or nothing.
MCListening == {Ws(h0), Wss(h1), Ws(h2)}
MCAnnounced ==
  [n \in Peers \cup {Self} |->
     CASE n = p1 -> <<Port>> [] n = p2 -> <<>> [] n = Self -> <<Ws(h0)>>]
MCBootstraps == {Wss(h1)}
Symmetry == Permutations(SessionIds)

MCLearnable == {Wss(h1), Ws(h2)}

\* AddEndpoints is what calling AddEndpoint for one after the other does.
ASSUME AddEndpointsIsLoop ==
  \A list \in SeqOf(EndPoint, 3), first \in EndPoint :
    AddEndpoints({first}, list) = FoldLeft(AddEndpoint, {first}, list)

=============================================================================
