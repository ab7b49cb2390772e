--------------------------- MODULE PeerRecordsProofs ---------------------------
(***************************************************************************)
(* Theorems about what a node remembers of its peers, for every set of     *)
(* peers, hosts and sessions, whatever the peers announce.                 *)
(***************************************************************************)
EXTENDS PeerRecords, TLAPS

(***************************************************************************)
(* The inductive invariant.                                                *)
(***************************************************************************)
\* A process that is over has no queue and no sessions.
IdleUnlessRunning ==
  process # "running" => queue = {} /\ \A s \in SessionIds : sessions[s] = Unused

\* What a record has as reachable was reached; so was the endpoint of a session
\* that this node dialled and that authenticated.
ReachableWereReached ==
  /\ \A p \in Peers : \A e \in records[p].reachable : <<p, e>> \in reached
  /\ \A s \in SessionIds :
       At(s, "authed") /\ sessions[s].weInitiated =>
         <<sessions[s].remote, sessions[s].endpoint>> \in reached

IInv ==
  /\ TypeOK
  /\ IdleUnlessRunning
  /\ ExpectedAreKnown
  /\ ReachableWereReached
  /\ EndpointsDistinct

(***************************************************************************)
(* The endpoints of a record.                                              *)
(***************************************************************************)
\* A list of endpoints is added without a host that is there twice, and nothing
\* is taken away.
LEMMA AddEndpointsDistinct ==
  ASSUME NEW endpoints \in SUBSET EndPoint, NEW list, NEW n \in Nat,
         DOMAIN list = 1..n, \A i \in 1..n : list[i] \in EndPoint,
         \A e, f \in endpoints : e.host = f.host => e = f
  PROVE  /\ AddEndpoints(endpoints, list) \in SUBSET EndPoint
         /\ endpoints \subseteq AddEndpoints(endpoints, list)
         /\ \A e, f \in AddEndpoints(endpoints, list) : e.host = f.host => e = f
<1> DEFINE new == {i \in DOMAIN list :
                    \A f \in endpoints \cup {list[j] : j \in 1..(i - 1)} : f.host # list[i].host}
<1>1. AddEndpoints(endpoints, list) = endpoints \cup {list[i] : i \in new}
  BY DEF AddEndpoints
<1>2. AddEndpoints(endpoints, list) \in SUBSET EndPoint
  BY <1>1
<1>3. ASSUME NEW e \in AddEndpoints(endpoints, list), NEW f \in AddEndpoints(endpoints, list),
             e.host = f.host
      PROVE  e = f
  <2>1. CASE e \in endpoints /\ f \in endpoints
    BY <1>3, <2>1
  <2>2. ASSUME NEW i \in new, list[i].host = e.host \/ list[i].host = f.host
        PROVE  e \notin endpoints \/ f \notin endpoints
    BY <1>3, <2>2
  <2>3. ASSUME NEW i \in new, NEW g \in endpoints PROVE g.host # list[i].host
    OBVIOUS
  <2>4. CASE e \notin endpoints /\ f \notin endpoints
    <3>1. PICK i \in new : e = list[i]
      BY <1>1, <1>3, <2>4
    <3>2. PICK j \in new : f = list[j]
      BY <1>1, <1>3, <2>4
    <3>3. i \in 1..n /\ j \in 1..n
      OBVIOUS
    <3>4. CASE i < j
      <4>1. i \in 1..(j - 1)
        BY <3>3, <3>4
      <4>2. QED
        BY <1>3, <3>1, <3>2, <4>1
    <3>5. CASE j < i
      <4>1. j \in 1..(i - 1)
        BY <3>3, <3>5
      <4>2. QED
        BY <1>3, <3>1, <3>2, <4>1
    <3>6. QED
      BY <3>1, <3>2, <3>3, <3>4, <3>5
  <2>5. QED
    BY <1>1, <1>3, <2>1, <2>3, <2>4
<1>4. QED
  BY <1>1, <1>2, <1>3

\* What UpdatePeer makes of the endpoints of a record.
LEMMA UpdatedEndpointsDistinct ==
  ASSUME TypeOK, EndpointsDistinct, NEW s \in SessionIds, At(s, "authed"),
         NEW p \in Peers, NEW n \in Peers \cup {Self}
  PROVE  LET endpoints == UpdatedEndpoints(s, records[p], Announced[n])
         IN  /\ endpoints \in SUBSET EndPoint
             /\ records[p].endpoints \subseteq endpoints
             /\ \A e, f \in endpoints : e.host = f.host => e = f
             /\ sessions[s].weInitiated => endpoints # {}
<1> DEFINE dialled == sessions[s].endpoint
           list == [i \in DOMAIN Announced[n] |-> FullEndpoint(s, Announced[n][i])]
           start == IF sessions[s].weInitiated THEN AddEndpoint(records[p].endpoints, dialled)
                    ELSE records[p].endpoints
<1>1. dialled \in EndPoint /\ records[p].endpoints \in SUBSET EndPoint
      /\ sessions[s].weInitiated \in BOOLEAN
  BY DEF TypeOK, At, Unused, SessionRecord, Record
<1>2. /\ Announced[n] \in Seq(EndPoint \cup {Port})
      /\ Len(Announced[n]) \in Nat /\ DOMAIN Announced[n] = 1..Len(Announced[n])
      /\ \A i \in DOMAIN Announced[n] : Announced[n][i] \in EndPoint \cup {Port}
  BY PeerRecordsAssumption
<1>3. DOMAIN list = 1..Len(Announced[n]) /\ \A i \in 1..Len(Announced[n]) : list[i] \in EndPoint
  BY <1>1, <1>2 DEF FullEndpoint
<1>4. /\ start \in SUBSET EndPoint
      /\ records[p].endpoints \subseteq start
      /\ \A e, f \in start : e.host = f.host => e = f
      /\ sessions[s].weInitiated => start # {}
  BY <1>1 DEF AddEndpoint, EndpointsDistinct
<1> HIDE DEF list, start
<1>5. /\ AddEndpoints(start, list) \in SUBSET EndPoint
      /\ start \subseteq AddEndpoints(start, list)
      /\ \A e, f \in AddEndpoints(start, list) : e.host = f.host => e = f
  BY <1>2, <1>3, <1>4, AddEndpointsDistinct
<1>6. UpdatedEndpoints(s, records[p], Announced[n]) = AddEndpoints(start, list)
  BY DEF UpdatedEndpoints, start, list
<1>7. QED
  BY <1>4, <1>5, <1>6

(***************************************************************************)
(* Every step keeps the invariant.                                         *)
(***************************************************************************)
LEMMA InitInv == Init => IInv
<1> SUFFICES ASSUME Init PROVE IInv
  OBVIOUS
<1>1. TypeOK
  BY PeerRecordsAssumption DEF Init, TypeOK, Record, NoRecord, At, Unused
<1>2. QED
  BY <1>1 DEF Init, IInv, IdleUnlessRunning, ExpectedAreKnown, ReachableWereReached,
     EndpointsDistinct, NoRecord, Unused, At, Live

\* Steps that leave the records alone, and end, at most, sessions.
LEMMA DeadKeeps ==
  ASSUME IInv, Dead, process' \in {"stopped", "panicked"}, stops' \in 0..MaxStops,
         UNCHANGED <<db, strangers, reached>>
  PROVE  IInv'
<1>1. TypeOK'
  BY DEF IInv, TypeOK, Dead, db, At, Unused
<1>2. QED
  BY <1>1 DEF IInv, TypeOK, Dead, db, At, Unused, IdleUnlessRunning, ExpectedAreKnown,
     ReachableWereReached, EndpointsDistinct, Live, Item

\* UpdatePeer keeps the invariant.
LEMMA UpdatePeerKeeps ==
  ASSUME IInv, NEW s \in SessionIds, At(s, "authed"), Running, NEW n \in Peers \cup {Self},
         UpdatePeer(s, n)
  PROVE  IInv'
<1> DEFINE p == sessions[s].remote
           endpoints == UpdatedEndpoints(s, records[p], Announced[n])
<1>1. sessions[s] \in SessionRecord /\ p \in Peers
  BY DEF IInv, TypeOK, At, Unused, SessionRecord
<1>2. /\ endpoints \in SUBSET EndPoint
      /\ records[p].endpoints \subseteq endpoints
      /\ \A e, f \in endpoints : e.host = f.host => e = f
  BY <1>1, UpdatedEndpointsDistinct DEF IInv
<1> HIDE DEF endpoints
<1>3. CASE GetEndPointFinds(s, endpoints)
  <2>1. process' = "panicked" /\ Dead /\ UNCHANGED <<db, strangers, stops, reached>>
    BY <1>3 DEF UpdatePeer, endpoints
  <2>2. stops' \in 0..MaxStops
    BY <2>1 DEF IInv, TypeOK
  <2>3. QED
    BY <2>1, <2>2, DeadKeeps
<1>4. CASE ~GetEndPointFinds(s, endpoints)
  <2> DEFINE record == [known |-> TRUE, endpoints |-> endpoints,
                        reachable |-> records[p].reachable \cup MarkedReachable(s), info |-> n]
  <2>1. /\ records' = [records EXCEPT ![p] = record]
        /\ UNCHANGED <<bootstraps, process, queue, unique, sessions, strangers, stops, reached>>
    BY <1>4 DEF UpdatePeer, endpoints
  <2>2. MarkedReachable(s) \subseteq endpoints
    BY <1>4 DEF GetEndPointFinds
  <2>3. record \in Record /\ records[p] \in Record
    BY <1>1, <1>2, <2>2 DEF Record, IInv, TypeOK
  <2>4. records[p].reachable \subseteq endpoints
    BY <1>1, <1>2 DEF IInv, EndpointsDistinct
  <2>5. \A e \in record.reachable : <<p, e>> \in reached
    BY <1>1 DEF IInv, ReachableWereReached, MarkedReachable
  <2>r. /\ record.endpoints = endpoints
        /\ record.reachable = records[p].reachable \cup MarkedReachable(s)
    OBVIOUS
  <2> HIDE DEF record
  <2>6. /\ records'[p] = record
        /\ \A q \in Peers : q # p => records'[q] = records[q]
        /\ records' \in [Peers -> Record]
    BY <1>1, <2>1, <2>3 DEF IInv, TypeOK
  <2>7. TypeOK'
    BY <2>1, <2>6 DEF IInv, TypeOK, At
  <2>8. IdleUnlessRunning'
    BY <2>1 DEF IInv, IdleUnlessRunning
  <2>9. \A q \in Peers : records[q].endpoints # {} => records'[q].endpoints # {}
    BY <1>2, <2>6, <2>r
  <2>10. ExpectedAreKnown'
    <3>1. \A item \in queue : item.peer # Nobody => item.peer \in Peers
      BY DEF IInv, TypeOK, Item
    <3>2. \A t \in SessionIds : Live(t) /\ sessions[t].expected # Nobody
                                 => sessions[t].expected \in Peers
      BY DEF IInv, TypeOK, Live, SessionRecord
    <3>3. QED
      BY <2>1, <2>9, <3>1, <3>2 DEF IInv, ExpectedAreKnown, Live
  <2>11. ReachableWereReached'
    BY <2>1, <2>5, <2>6 DEF IInv, ReachableWereReached, At
  <2>12. EndpointsDistinct'
    <3>1. \A q \in Peers : q # p =>
            /\ \A e, f \in records'[q].endpoints : e.host = f.host => e = f
            /\ records'[q].reachable \subseteq records'[q].endpoints
      BY <2>6 DEF IInv, EndpointsDistinct
    <3>2. /\ \A e, f \in records'[p].endpoints : e.host = f.host => e = f
          /\ records'[p].reachable \subseteq records'[p].endpoints
      BY <1>2, <2>2, <2>4, <2>6, <2>r
    <3>3. QED
      BY <3>1, <3>2 DEF EndpointsDistinct
  <2>13. QED
    BY <2>7, <2>8, <2>10, <2>11, <2>12 DEF IInv
<1>5. QED
  BY <1>3, <1>4

\* Ending a session, with what may be queued again, keeps the invariant.
LEMMA EndKeeps ==
  ASSUME IInv, NEW s \in SessionIds, Live(s), Running, NEW queued, EndWith(s, queued),
         queued \in {queue, Requeued(s)}
  PROVE  IInv'
<1>1. sessions[s] \in SessionRecord
  BY DEF IInv, TypeOK, Live
<1>2. \A item \in Requeued(s) :
        item \in Item /\ (item.peer # Nobody => records[item.peer].endpoints # {})
  BY <1>1 DEF Requeued, EndPointItem, PeerItem, Item, IInv, TypeOK, ExpectedAreKnown, SessionRecord
<1>3. \A item \in queue :
        item \in Item /\ (item.peer # Nobody => records[item.peer].endpoints # {})
  BY DEF IInv, TypeOK, ExpectedAreKnown
<1>4. /\ \A item \in queue' :
           item \in Item /\ (item.peer # Nobody => records[item.peer].endpoints # {})
      /\ sessions' = [sessions EXCEPT ![s] = Unused]
      /\ UNCHANGED <<db, process, unique, strangers, stops, reached>>
  BY <1>2, <1>3 DEF EndWith
<1>5. /\ sessions' \in [SessionIds -> SessionRecord \cup {Unused}]
      /\ sessions'[s] = Unused
      /\ \A t \in SessionIds : t # s => sessions'[t] = sessions[t]
  BY <1>4 DEF IInv, TypeOK
<1>6. TypeOK'
  BY <1>4, <1>5 DEF IInv, TypeOK, At, db, Unused
<1>7. QED
  BY <1>4, <1>5, <1>6 DEF IInv, IdleUnlessRunning, ExpectedAreKnown, ReachableWereReached,
     EndpointsDistinct, At, Live, db, Running, Unused

\* A session that authenticates with p keeps the invariant, if <<p, e>> is
\* reached when this node dialled e.
LEMMA AuthedKeeps ==
  ASSUME IInv, NEW s \in SessionIds, Running, NEW p \in Peers, NEW session \in SessionRecord,
         Authed(s, p, session), session.at = "authed", session.remote = p,
         session.expected # Nobody => records[session.expected].endpoints # {},
         reached \subseteq reached', reached' \subseteq Peers \X EndPoint,
         session.weInitiated => <<p, session.endpoint>> \in reached'
  PROVE  IInv'
<1>1. /\ queue' \subseteq queue
      /\ sessions' = [sessions EXCEPT ![s] = session]
      /\ UNCHANGED <<db, process, unique, strangers, stops>>
  BY DEF Authed
<1>2. /\ sessions' \in [SessionIds -> SessionRecord \cup {Unused}]
      /\ sessions'[s] = session
      /\ \A t \in SessionIds : t # s => sessions'[t] = sessions[t]
  BY <1>1 DEF IInv, TypeOK
<1>3. p # Nobody
  BY PeerRecordsAssumption
<1>4. TypeOK'
  BY <1>1, <1>2, <1>3 DEF IInv, TypeOK, At, db
<1>5. QED
  BY <1>1, <1>2, <1>4 DEF IInv, IdleUnlessRunning, ExpectedAreKnown, ReachableWereReached,
     EndpointsDistinct, At, Live, db, Running

\* Every step of the process keeps the invariant.
LEMMA NextInv == IInv /\ [Next]_vars => IInv'
<1> SUFFICES ASSUME IInv, [Next]_vars PROVE IInv'
  OBVIOUS
<1> USE PeerRecordsAssumption
<1>t. TypeOK
  BY DEF IInv
<1>1. CASE Start
  <2>1. /\ UNCHANGED <<records, sessions, strangers, stops, reached>> /\ process' = "running"
        /\ bootstraps' \subseteq EndPoint
    BY <1>1, <1>t DEF Start, TypeOK
  <2>2. \A s \in SessionIds : sessions[s] = Unused
    BY <1>1 DEF Start, IInv, IdleUnlessRunning
  <2>3. Recorded \subseteq EndPoint
    BY <1>t DEF Recorded, TypeOK, Record
  <2>4. \A item \in queue' : item \in Item /\ (item.peer # Nobody => records[item.peer].endpoints # {})
    <3>1. \A p \in Peers : PeerItem(p) \in Item /\ PeerItem(p).peer = p
      BY DEF PeerItem, Item
    <3>2. \A e \in EndPoint : EndPointItem(e) \in Item /\ EndPointItem(e).peer = Nobody
      BY DEF EndPointItem, Item
    <3>3. \A item \in PeersInit : item \in Item /\ records[item.peer].endpoints # {}
      BY <3>1 DEF PeersInit
    <3>4. queue' = PeersInit \cup {EndPointItem(e) : e \in bootstraps' \ Recorded}
      BY <1>1 DEF Start
    <3>5. QED
      BY <2>1, <3>2, <3>3, <3>4
  <2>5. unique' \subseteq EndPoint
    BY <1>1, <2>1, <2>3 DEF Start
  <2>6. TypeOK'
    BY <1>t, <2>1, <2>4, <2>5 DEF TypeOK, At
  <2>7. QED
    BY <2>1, <2>2, <2>4, <2>6 DEF IInv, IdleUnlessRunning, ExpectedAreKnown,
       ReachableWereReached, EndpointsDistinct, At, Live, Unused
<1>2. CASE Stop
  <2>1. stops' \in 0..MaxStops
    BY <1>2, <1>t DEF Stop, TypeOK
  <2>2. QED
    BY <1>2, <2>1, DeadKeeps DEF Stop
<1>3. CASE ClearBootstraps
  BY <1>3 DEF ClearBootstraps, IInv, TypeOK, IdleUnlessRunning, ExpectedAreKnown,
     ReachableWereReached, EndpointsDistinct, At, Live
<1>4. CASE ClearAll
  <2>1. NoRecord \in Record /\ NoRecord.reachable = {} /\ NoRecord.endpoints = {}
    BY DEF NoRecord, Record
  <2>2. queue = {} /\ \A s \in SessionIds : sessions[s] = Unused
    BY <1>4 DEF ClearAll, IInv, IdleUnlessRunning
  <2>3. TypeOK'
    BY <1>4, <1>t, <2>1 DEF ClearAll, TypeOK, At
  <2>4. QED
    BY <1>4, <2>1, <2>2, <2>3 DEF ClearAll, IInv, IdleUnlessRunning, ExpectedAreKnown,
       ReachableWereReached, EndpointsDistinct, At, Live, Unused
<1>5. ASSUME NEW e \in EndPoint, Running, AddEndpointToQueue(e) PROVE IInv'
  <2>1. EndPointItem(e) \in Item /\ EndPointItem(e).peer = Nobody
    BY DEF EndPointItem, Item
  <2>2. QED
    BY <1>5, <2>1 DEF AddEndpointToQueue, IInv, TypeOK, IdleUnlessRunning, ExpectedAreKnown,
       ReachableWereReached, EndpointsDistinct, At, Live, db, Running
<1>6. ASSUME NEW s \in SessionIds, NEW item \in queue, StartSession(s, item) PROVE IInv'
  <2>1. PICK e \in IF item.peer = Nobody THEN item.endpoints ELSE records[item.peer].endpoints :
          sessions' = [sessions EXCEPT ![s] =
             [at |-> "dialling", expected |-> item.peer, remote |-> Nobody, endpoint |-> e,
              weInitiated |-> TRUE, echo |-> FALSE]]
    BY <1>6 DEF StartSession
  <2>2. item \in Item /\ e \in EndPoint
        /\ (item.peer # Nobody => records[item.peer].endpoints # {})
    BY <1>t, <2>1 DEF TypeOK, Item, Record
  <2> DEFINE session == [at |-> "dialling", expected |-> item.peer, remote |-> Nobody,
                         endpoint |-> e, weInitiated |-> TRUE, echo |-> FALSE]
  <2>3. session \in SessionRecord /\ session.at = "dialling" /\ session.expected = item.peer
    BY <2>2 DEF SessionRecord, Item
  <2> HIDE DEF session
  <2>4. /\ sessions' \in [SessionIds -> SessionRecord \cup {Unused}]
        /\ sessions'[s] = session
        /\ \A t \in SessionIds : t # s => sessions'[t] = sessions[t]
    BY <1>t, <2>1, <2>3 DEF TypeOK, session
  <2>5. /\ queue' \subseteq queue /\ Running
        /\ UNCHANGED <<db, process, unique, strangers, stops, reached>>
    BY <1>6 DEF StartSession
  <2>6. TypeOK'
    BY <1>t, <2>3, <2>4, <2>5 DEF TypeOK, At, db
  <2>7. QED
    BY <2>2, <2>3, <2>4, <2>5, <2>6 DEF IInv, IdleUnlessRunning, ExpectedAreKnown,
       ReachableWereReached, EndpointsDistinct, At, Live, db, Running
<1>7. ASSUME NEW s \in SessionIds, NEW host \in Hosts, Accept(s, host) PROVE IInv'
  <2> DEFINE p == Owner[host]
             session == [at |-> "authed", expected |-> Nobody, remote |-> p,
                         endpoint |-> [host |-> host, secure |-> FALSE], weInitiated |-> FALSE,
                         echo |-> p \in strangers]
  <2>1. p \in Peers
    BY <1>7 DEF Accept, Authed
  <2>2. /\ session \in SessionRecord /\ session.at = "authed" /\ session.remote = p
        /\ session.expected = Nobody /\ ~session.weInitiated
    BY <2>1 DEF SessionRecord, EndPoint
  <2>3. Authed(s, p, session) /\ Running /\ UNCHANGED reached
    BY <1>7 DEF Accept
  <2>4. reached \subseteq Peers \X EndPoint
    BY <1>t DEF TypeOK
  <2> HIDE DEF session, p
  <2>5. QED
    BY <2>1, <2>2, <2>3, <2>4, AuthedKeeps
<1>8. ASSUME NEW s \in SessionIds, DialFails(s) PROVE IInv'
  <2>1. Live(s) /\ Running
    BY <1>8 DEF DialFails, Live, At, Unused
  <2>2. QED
    BY <1>8, <2>1, EndKeeps DEF DialFails
<1>9. ASSUME NEW s \in SessionIds, DialSucceeds(s) PROVE IInv'
  <2> DEFINE e == sessions[s].endpoint
             p == Owner[e.host]
             echo == p \in strangers
             session == [sessions[s] EXCEPT !.at = "authed", !.remote = p, !.echo = echo]
  <2>1. sessions[s] \in SessionRecord
    BY <1>9, <1>t DEF DialSucceeds, TypeOK, At, Unused
  <2>2. e \in EndPoint /\ p \in Peers
    <3>1. e \in EndPoint /\ e.host \in Hosts
      BY <2>1 DEF SessionRecord, EndPoint
    <3>2. p # Self
      BY <1>9 DEF DialSucceeds, Authed
    <3>3. p \in Peers \cup {Self}
      BY <3>1
    <3>4. QED
      BY <3>1, <3>2, <3>3
  <2>3. /\ session \in SessionRecord /\ session.at = "authed" /\ session.remote = p
        /\ session.expected = sessions[s].expected /\ session.endpoint = e
    <3>1. echo \in BOOLEAN
      OBVIOUS
    <3> HIDE DEF echo
    <3>2. QED
      BY <2>1, <2>2, <3>1 DEF SessionRecord
  <2>4. sessions[s].expected # Nobody => records[sessions[s].expected].endpoints # {}
    BY <1>9 DEF DialSucceeds, IInv, ExpectedAreKnown, Live, At, Unused
  <2>5. Authed(s, p, session) /\ Running /\ reached' = reached \cup {<<p, e>>}
    BY <1>9 DEF DialSucceeds
  <2>6. reached' \subseteq Peers \X EndPoint /\ reached \subseteq reached' /\ <<p, e>> \in reached'
    BY <1>t, <2>2, <2>5 DEF TypeOK
  <2> HIDE DEF session, p, e
  <2>7. QED
    BY <2>2, <2>3, <2>4, <2>5, <2>6, AuthedKeeps
<1>10. ASSUME NEW s \in SessionIds, OnEnd(s) PROVE IInv'
  BY <1>10, EndKeeps DEF OnEnd
<1>11. ASSUME NEW s \in SessionIds, PeerInfo(s) \/ PeerInfoEchoed(s) PROVE IInv'
  <2>1. At(s, "authed") /\ Running
    BY <1>11 DEF PeerInfo, PeerInfoEchoed
  <2>2. sessions[s].remote \in Peers
    BY <2>1, <1>t DEF TypeOK, At, Unused, SessionRecord
  <2>3. QED
    BY <1>11, <2>1, <2>2, UpdatePeerKeeps DEF PeerInfo, PeerInfoEchoed
<1>12. ASSUME NEW p \in Peers, Recognised(p) PROVE IInv'
  BY <1>12 DEF Recognised, IInv, TypeOK, IdleUnlessRunning, ExpectedAreKnown,
     ReachableWereReached, EndpointsDistinct, At, Live, db
<1>13. CASE UNCHANGED vars
  BY <1>13 DEF vars, IInv, TypeOK, IdleUnlessRunning, ExpectedAreKnown,
     ReachableWereReached, EndpointsDistinct, At, Live, db
<1>14. ASSUME NEW host \in Hosts, HearOnLan(host) PROVE IInv'
  <2>1. [host |-> host, secure |-> FALSE] \in EndPoint
    BY DEF EndPoint
  <2>2. QED
    BY <1>5, <1>14, <2>1 DEF HearOnLan
<1>15. ASSUME NEW s \in SessionIds, NEW e \in Learnable, OnPeerSwap(s, e) PROVE IInv'
  BY <1>5, <1>15 DEF OnPeerSwap
<1>16. QED
  BY <1>1, <1>2, <1>3, <1>4, <1>6, <1>7, <1>8, <1>9, <1>10, <1>11, <1>12, <1>13, <1>14, <1>15
  DEF Next

\* The invariant holds in every reachable state.
LEMMA Invariance == Spec => []IInv
  BY InitInv, NextInv, PTL DEF Spec

-----------------------------------------------------------------------------
(***************************************************************************)
(* The theorems.                                                           *)
(***************************************************************************)
\* Every variable has its type.
THEOREM TypeCorrect == Spec => []TypeOK
<1>1. IInv => TypeOK
  BY DEF IInv
<1>2. QED
  BY <1>1, Invariance, PTL

\* A peer that is queued or dialled by its id has a record with an endpoint.
THEOREM ExpectedKnown == Spec => []ExpectedAreKnown
<1>1. IInv => ExpectedAreKnown
  BY DEF IInv
<1>2. QED
  BY <1>1, Invariance, PTL

\* What this node hands on as reachable, it has dialled, and the peer answered.
THEOREM SwappedReached == Spec => []SwappedWereReached
<1>1. IInv => SwappedWereReached
  BY DEF IInv, ReachableWereReached, SwappedWereReached, SwapEndpoints
<1>2. QED
  BY <1>1, Invariance, PTL

\* A record has a host once, and what it has as reachable is one of its endpoints.
THEOREM HostsOnce == Spec => []EndpointsDistinct
<1>1. IInv => EndpointsDistinct
  BY DEF IInv
<1>2. QED
  BY <1>1, Invariance, PTL

\* No update of a record loses what another has written to it.
THEOREM NothingLost == Spec => NothingForgotten
<1> DEFINE Kept == \A p \in Peers : /\ records[p].endpoints \subseteq records'[p].endpoints
                                    /\ records[p].reachable \subseteq records'[p].reachable
<1>1. ASSUME IInv, [Next]_vars PROVE [process = "running" => Kept]_vars
  <2> SUFFICES ASSUME process = "running", Next PROVE Kept
    BY <1>1
  <2>1. CASE UNCHANGED records
    BY <2>1
  <2>2. ASSUME NEW s \in SessionIds, PeerInfo(s) \/ PeerInfoEchoed(s) PROVE Kept
    <3>1. At(s, "authed")
      BY <2>2 DEF PeerInfo, PeerInfoEchoed
    <3>2. sessions[s].remote \in Peers
      BY <1>1, <3>1 DEF IInv, TypeOK, At, Unused, SessionRecord
    <3>3. PICK n \in Peers \cup {Self} : UpdatePeer(s, n)
      BY <2>2, <3>2 DEF PeerInfo, PeerInfoEchoed
    <3> DEFINE p == sessions[s].remote
               endpoints == UpdatedEndpoints(s, records[p], Announced[n])
    <3>4. records[p].endpoints \subseteq endpoints
      BY <1>1, <3>1, <3>2, UpdatedEndpointsDistinct DEF IInv
    <3> HIDE DEF endpoints
    <3>5. \/ UNCHANGED records
          \/ records' = [records EXCEPT ![p] =
                [known |-> TRUE, endpoints |-> endpoints,
                 reachable |-> records[p].reachable \cup MarkedReachable(s), info |-> n]]
      BY <3>3 DEF UpdatePeer, endpoints, db
    <3>6. QED
      BY <1>1, <2>1, <3>2, <3>4, <3>5 DEF IInv, TypeOK
  <2>3. QED
    BY <2>1, <2>2 DEF Next, Start, Stop, ClearBootstraps, ClearAll, HearOnLan, OnPeerSwap,
       AddEndpointToQueue, StartSession, Accept, Authed, DialFails, DialSucceeds, OnEnd, EndWith,
       Recognised, db
<1>2. QED
  BY <1>1, Invariance, PTL DEF Spec, NothingForgotten

=============================================================================
