----------------------------- MODULE PeerRecords -----------------------------
(***************************************************************************)
(* What one node remembers about its peers, and whom it dials because of   *)
(* it.                                                                     *)
(*                                                                         *)
(* The database has a record per peer (package peer) and the bootstrap     *)
(* endpoints.  At start both go into the queue of package peermanager;     *)
(* endpoints heard on the local network or from other peers join it.  A    *)
(* session that authenticates and hears peer_info updates the record of    *)
(* the peer that answered, in one write transaction.  What is recorded as  *)
(* reachable is handed on in peer_swap.                                    *)
(*                                                                         *)
(* Retry times are not modelled: any item of the queue, and any endpoint   *)
(* of a record, may be the next to try.  How the goroutines share queue    *)
(* and sessions is PeerSessions; here one step takes an item and dials.    *)
(***************************************************************************)
EXTENDS Integers, Sequences

CONSTANTS
  Peers,      \* the other nodes
  Self,       \* this node
  Nobody,     \* the zero address: an endpoint was dialled, not a known peer
  Hosts,      \* a host with its port
  Owner,      \* host -> the node there
  Listening,  \* the endpoints at which a dial can succeed
  Announced,  \* node -> the sequence of endpoints in its peer_info
  Port,       \* ":port", an announced endpoint without a host
  Bootstraps, \* the endpoints that -boot may name
  Strangers,  \* the peers that do not have us in their tree at first
  Learnable,  \* the endpoints that other peers may name in peer_swap
  SessionIds, \* bounds: the sessions at a time,
  MaxStops    \* and how often the process stops

EndPoint == [host : Hosts, secure : BOOLEAN]

ASSUME PeerRecordsAssumption ==
  /\ Self \notin Peers /\ Nobody \notin Peers \cup {Self}
  /\ Owner \in [Hosts -> Peers \cup {Self}]
  /\ Port \notin EndPoint
  /\ Announced \in [Peers \cup {Self} -> Seq(EndPoint \cup {Port})]
  /\ \A set \in {Listening, Bootstraps, Learnable} : set \subseteq EndPoint
  /\ Strangers \subseteq Peers
  /\ MaxStops \in Nat

VARIABLES
  records,   \* db: peer -> its record
  bootstraps,\* db: the bootstrap endpoints
  process,   \* "stopped", "running", or "panicked"
  queue,     \* peerQueue, the items as a set (PeerSessions counts them)
  unique,    \* uniqueEndpointsMap
  sessions,  \* id -> the session
  strangers, \* the peers that do not have us in their tree
  stops,     \* how often the process stopped
  reached    \* history: <<p, e>>, p authenticated after a dial to e

vars == <<records, bootstraps, process, queue, unique, sessions, strangers, stops, reached>>
db == <<records, bootstraps>>

\* The record of a peer that FetchFromDb does not find.  info: the node whose
\* SequenceSeed, Merklehead, LatestSequenceNo and Version it holds.
NoRecord == [known |-> FALSE, endpoints |-> {}, reachable |-> {}, info |-> Nobody]

\* queueItem: a PeerId, or an UnauthedEndPoint.
PeerItem(p) == [peer |-> p, endpoints |-> {}]
EndPointItem(e) == [peer |-> Nobody, endpoints |-> {e}]

Unused == [at |-> "unused"]

At(s, step) == sessions[s].at = step

Live(s) == sessions[s] # Unused

Init ==
  /\ records = [p \in Peers |-> NoRecord]
  /\ bootstraps = {}
  /\ process = "stopped"
  /\ queue = {} /\ unique = {}
  /\ sessions = [s \in SessionIds |-> Unused]
  /\ strangers = Strangers
  /\ stops = 0
  /\ reached = {}

-----------------------------------------------------------------------------
(***************************************************************************)
(* Package peer.                                                           *)
(***************************************************************************)

\* An endpoint with the host and port of a listed one is not added, ws or wss.
AddEndpoint(endpoints, e) ==
  IF \E f \in endpoints : f.host = e.host THEN endpoints ELSE endpoints \cup {e}

\* ":port" stands for the host that the session is connected to.
FullEndpoint(s, e) == IF e = Port THEN sessions[s].endpoint ELSE e

\* A list is added in its order: an endpoint is left out when one before it, or
\* one already there, has its host.
AddEndpoints(endpoints, list) ==
  endpoints \cup
    {list[i] : i \in {i \in DOMAIN list :
       \A f \in endpoints \cup {list[j] : j \in 1..(i - 1)} : f.host # list[i].host}}

\* Variant of UpdatedEndpoints that does not start from the record.
UpdatedEndpointsAnew(s, record, announced) ==
  AddEndpoints(IF sessions[s].weInitiated THEN {sessions[s].endpoint} ELSE {},
               [i \in DOMAIN announced |-> FullEndpoint(s, announced[i])])

\* Variant of UpdatedEndpoints that compares the URLs.
UpdatedEndpointsByURL(s, record, announced) ==
  record.endpoints \cup {FullEndpoint(s, announced[i]) : i \in DOMAIN announced}
    \cup (IF sessions[s].weInitiated THEN {sessions[s].endpoint} ELSE {})

\* UpdatePeer: the endpoint that was dialled, then those announced.
UpdatedEndpoints(s, record, announced) ==
  AddEndpoints(IF sessions[s].weInitiated THEN AddEndpoint(record.endpoints, sessions[s].endpoint)
               ELSE record.endpoints,
               [i \in DOMAIN announced |-> FullEndpoint(s, announced[i])])

\* Variant of MarkedReachable that marks the other side's address too.
MarkedReachableAlways(s) == {sessions[s].endpoint}

MarkedReachable(s) == IF sessions[s].weInitiated THEN {sessions[s].endpoint} ELSE {}

\* GetEndPoint looks for the URL, and its caller does not mind nil.
GetEndPointFinds(s, endpoints) ==
  \E e \in MarkedReachable(s) : e \notin endpoints

\* GetReachableEndpointsForSegment for every record but the session's own.
SwapEndpoints(p) == UNION {records[q].reachable : q \in Peers \ {p}}

-----------------------------------------------------------------------------
(***************************************************************************)
(* The process.                                                            *)
(***************************************************************************)

\* Variant of PeersInit that queues every record.
PeersInitAll == {PeerItem(p) : p \in {q \in Peers : records[q].known}}

\* AddPeerToQueue leaves a peer without endpoints out.
PeersInit == {PeerItem(p) : p \in {q \in Peers : records[q].endpoints # {}}}

Recorded == UNION {records[p].endpoints : p \in Peers}

\* peermanager.Init: -boot's endpoints are saved, the records are queued, and
\* the bootstrap endpoints that no record has.
Start ==
  /\ process # "running"
  /\ \E boot \in SUBSET Bootstraps : bootstraps' = bootstraps \cup boot
  /\ process' = "running"
  /\ queue' = PeersInit \cup {EndPointItem(e) : e \in bootstraps' \ Recorded}
  /\ unique' = Recorded \cup bootstraps'
  /\ UNCHANGED <<records, sessions, strangers, stops, reached>>

\* -boot clear, which exits.
ClearBootstraps ==
  /\ process # "running"
  /\ bootstraps' = {}
  /\ UNCHANGED <<records, process, queue, unique, sessions, strangers, stops, reached>>

\* -clearpeers, which exits.
ClearAll ==
  /\ process # "running"
  /\ records' = [p \in Peers |-> NoRecord]
  /\ UNCHANGED <<bootstraps, process, queue, unique, sessions, strangers, stops, reached>>

\* Dead sets the variables of a process that is over.
Dead ==
  /\ queue' = {} /\ unique' = {}
  /\ sessions' = [s \in SessionIds |-> Unused]

\* The process is stopped, or crashes between two transactions.
Stop ==
  /\ process = "running"
  /\ stops < MaxStops
  /\ stops' = stops + 1
  /\ process' = "stopped"
  /\ Dead
  /\ UNCHANGED <<db, strangers, reached>>

-----------------------------------------------------------------------------
(***************************************************************************)
(* The queue and the sessions.                                             *)
(***************************************************************************)
Running == process = "running"

AddEndpointToQueue(e) ==
  /\ e \notin unique
  /\ unique' = unique \cup {e}
  /\ queue' = queue \cup {EndPointItem(e)}
  /\ UNCHANGED <<db, process, sessions, strangers, stops, reached>>

\* A broadcast of the local network, not from an address of ours.
HearOnLan(host) ==
  /\ Running
  /\ Owner[host] # Self
  /\ AddEndpointToQueue([host |-> host, secure |-> FALSE])

\* OnPeerSwap for one of the endpoints.
OnPeerSwap(s, e) ==
  /\ Running
  /\ At(s, "authed")
  /\ AddEndpointToQueue(e)

\* StartOutbound takes an item and startSession picks the endpoint: the item's,
\* or one of the record that the database has.
StartSession(s, item) ==
  /\ Running
  /\ sessions[s] = Unused
  /\ queue' = queue \ {item}
  /\ \E e \in IF item.peer = Nobody THEN item.endpoints ELSE records[item.peer].endpoints :
       sessions' = [sessions EXCEPT ![s] =
                      [at |-> "dialling", expected |-> item.peer, remote |-> Nobody, endpoint |-> e,
                       weInitiated |-> TRUE, echo |-> FALSE]]
  /\ UNCHANGED <<db, process, unique, strangers, stops, reached>>

\* What OnEnd queues again; an inbound session expects nobody and is not.
Requeued(s) ==
  IF ~sessions[s].weInitiated THEN queue
  ELSE IF sessions[s].expected = Nobody THEN queue \cup {EndPointItem(sessions[s].endpoint)}
  ELSE queue \cup {PeerItem(sessions[s].expected)}

EndWith(s, queued) ==
  /\ queue' = queued
  /\ sessions' = [sessions EXCEPT ![s] = Unused]
  /\ UNCHANGED <<db, process, unique, strangers, stops, reached>>

\* Dial fails.  The record is read again and saved, with one failure more.
DialFails(s) ==
  /\ Running
  /\ At(s, "dialling")
  /\ EndWith(s, Requeued(s))

\* OnAuthed for a session with p: p has no other, and leaves the queue.  Nobody
\* compares the peer that answers with the one that was expected.
Authed(s, p, session) ==
  /\ p # Self
  /\ \A t \in SessionIds : At(t, "authed") => sessions[t].remote # p
  /\ queue' = queue \ {PeerItem(p)}
  /\ sessions' = [sessions EXCEPT ![s] = session]
  /\ UNCHANGED <<db, process, unique, strangers, stops>>

\* Dial succeeds, and the peer there authenticates.
DialSucceeds(s) ==
  LET e == sessions[s].endpoint
      p == Owner[e.host]
  IN
  /\ Running
  /\ At(s, "dialling")
  /\ e \in Listening
  /\ Authed(s, p, [sessions[s] EXCEPT !.at = "authed", !.remote = p, !.echo = p \in strangers])
  /\ reached' = reached \cup {<<p, e>>}

\* serveWs, and the peer authenticates.  The endpoint is the other side's
\* address, a ws one.
Accept(s, host) ==
  /\ Running
  /\ sessions[s] = Unused
  /\ Authed(s, Owner[host],
            [at |-> "authed", expected |-> Nobody, remote |-> Owner[host],
             endpoint |-> [host |-> host, secure |-> FALSE], weInitiated |-> FALSE,
             echo |-> Owner[host] \in strangers])
  /\ UNCHANGED reached

\* The reader ends, with a LastError, after which nothing is queued, or without.
\* A second session with a peer, or one with this node itself, ends before it
\* authenticates.
OnEnd(s) ==
  /\ Running
  /\ At(s, "dialling") => sessions[s].endpoint \in Listening
  /\ Live(s)
  /\ EndWith(s, Requeued(s)) \/ (sessions[s].weInitiated /\ EndWith(s, queue))

\* UpdatePeer, for a peer_info that came or was answered: info is what node n
\* announces.
UpdatePeer(s, n) ==
  LET p == sessions[s].remote
      endpoints == UpdatedEndpoints(s, records[p], Announced[n])
  IN
  IF GetEndPointFinds(s, endpoints)
    THEN /\ process' = "panicked"
         /\ Dead
         /\ UNCHANGED <<db, strangers, stops, reached>>
    ELSE /\ records' = [records EXCEPT ![p] =
                          [known |-> TRUE, endpoints |-> endpoints,
                           reachable |-> @.reachable \cup MarkedReachable(s), info |-> n]]
         /\ UNCHANGED <<bootstraps, process, queue, unique, sessions, strangers, stops, reached>>

\* The peer's own info, as a request or an answer.
PeerInfo(s) ==
  /\ Running
  /\ At(s, "authed")
  /\ ~sessions[s].echo
  /\ UpdatePeer(s, sessions[s].remote)

\* A peer that restricts us answers our StartRecovery's peer_info with our own
\* info ("dont send restricted our info").
PeerInfoEchoed(s) ==
  /\ Running
  /\ At(s, "authed")
  /\ sessions[s].echo
  /\ UpdatePeer(s, Self)

\* A peer learns, from a recovery or otherwise, that we are of its tree.
Recognised(p) ==
  /\ p \in strangers
  /\ strangers' = strangers \ {p}
  /\ UNCHANGED <<db, process, queue, unique, sessions, stops, reached>>

Next ==
  \/ Start \/ Stop \/ ClearBootstraps \/ ClearAll
  \/ \E host \in Hosts : HearOnLan(host)
  \/ \E s \in SessionIds :
       \/ \E e \in Learnable : OnPeerSwap(s, e)
       \/ \E item \in queue : StartSession(s, item)
       \/ \E host \in Hosts : Accept(s, host)
       \/ DialFails(s) \/ DialSucceeds(s) \/ OnEnd(s) \/ PeerInfo(s) \/ PeerInfoEchoed(s)
  \/ \E p \in Peers : Recognised(p)

Spec == Init /\ [][Next]_vars

-----------------------------------------------------------------------------
(***************************************************************************)
(* Properties.                                                             *)
(***************************************************************************)
Record == [known : BOOLEAN, endpoints : SUBSET EndPoint, reachable : SUBSET EndPoint,
   info : Peers \cup {Self, Nobody}]

Item == [peer : Peers \cup {Nobody}, endpoints : SUBSET EndPoint]

\* echo: the peer has restricted the session, and answers peer_info with what it
\* was sent.
SessionRecord ==
  [at : {"dialling", "authed"}, expected : Peers \cup {Nobody},
   remote : Peers \cup {Nobody}, endpoint : EndPoint, weInitiated : BOOLEAN, echo : BOOLEAN]

\* The types.
TypeOK ==
  /\ records \in [Peers -> Record]
  /\ bootstraps \subseteq EndPoint /\ unique \subseteq EndPoint
  /\ process \in {"stopped", "running", "panicked"}
  /\ queue \subseteq Item
  /\ sessions \in [SessionIds -> SessionRecord \cup {Unused}]
  /\ \A s \in SessionIds : At(s, "authed") => sessions[s].remote # Nobody
  /\ strangers \subseteq Strangers
  /\ stops \in 0..MaxStops
  /\ reached \subseteq Peers \X EndPoint

\* endpoint.go dies of "pointer is nil" and init.go of "peer not found": a peer
\* that is dialled or queued by its id has a record with an endpoint to dial.
ExpectedAreKnown ==
  /\ \A item \in queue : item.peer # Nobody => records[item.peer].endpoints # {}
  /\ \A s \in SessionIds :
       Live(s) /\ sessions[s].expected # Nobody => records[sessions[s].expected].endpoints # {}

\* peer_swap: what this node hands on as a peer's reachable endpoint, it has
\* dialled itself, and that peer answered: not the port that a peer dialled from,
\* not what a peer says of itself, not where another peer was expected.
SwappedWereReached ==
  \A p, q \in Peers : \A e \in records[q].reachable :
    e \in SwapEndpoints(p) => \E r \in Peers \ {p} : <<r, e>> \in reached

\* AddEndpoint: a record has a host and port once, however it came to know it;
\* what is marked as reachable is among its endpoints.
EndpointsDistinct ==
  \A p \in Peers :
    /\ \A e, f \in records[p].endpoints : e.host = f.host => e = f
    /\ records[p].reachable \subseteq records[p].endpoints

\* UpdatePeer and Dial save a whole record: no update, by whichever session,
\* loses what another has written to it.
NothingForgotten ==
  [][process = "running" =>
       \A p \in Peers : /\ records[p].endpoints \subseteq records'[p].endpoints
                        /\ records[p].reachable \subseteq records'[p].reachable]_vars

\* startinfo.go is to "save peer to db" after an info swap.
InfoIsSaved == process # "panicked"

\* peer.go logs that "Peer %v has reset their sequence seed!" when the seed of a
\* record changes: what a record holds, old and new, is the peer's own.
InfoIsTheirs ==
  \A p \in Peers : records[p].known => records[p].info = p

=============================================================================
