----------------------------- MODULE PeerSessions -----------------------------
(***************************************************************************)
(* The peer manager of one node: the queue of peers to dial, the sessions  *)
(* it dials or accepts, and the map of peers that have authenticated.      *)
(*                                                                         *)
(* StartOutbound runs in one goroutine; every session has a reader         *)
(* (HandleMessages, which also runs OnAuthed and OnEnd) and, when this     *)
(* node dialled, a goroutine that registers it and runs StartComms.        *)
(* Nothing is locked between them: peerQueue is a plain slice, so an       *)
(* update of it may be lost to one that overlaps it, and the mutex of      *)
(* AddAuthedPeer is a local variable, so its check and its insert are two  *)
(* steps here.  A process that panics stops.                               *)
(***************************************************************************)
EXTENDS Integers, Sequences, FiniteSets, SequencesExt

CONSTANTS
  Peers,       \* the other nodes
  Urls,        \* the URLs that the node may hear of
  PeerOf,      \* the node that each of them leads to: one may have several
  Recorded,    \* the URLs in the peer records that the database has at boot
  SessionIds,  \* the sessions that one run may see (a bound)
  MaxLost      \* how many updates of the queue may be lost (a bound)

ASSUME PeersAssumption ==
  /\ Urls \cap Peers = {}
  /\ PeerOf \in [Urls -> Peers]
  /\ Recorded \subseteq Urls
  /\ IsFiniteSet(Recorded)
  /\ MaxLost \in Nat

VARIABLES
  peerQueue,   \* the queue items, the next to dial first
  lost,        \* history: how many updates of the queue another one undid
  endpoints,   \* uniqueEndpointsMap: the URLs heard of
  firstConnect,\* the item StartOutbound is about to take off, as a set
  sessions,    \* id -> the session
  connections, \* the registered sessions
  authedPeers, \* the peers that have a session
  panicked     \* "no", or where the process died

vars == <<peerQueue, lost, endpoints, firstConnect, sessions, connections, authedPeers,
          panicked>>

\* The peers whose record has an endpoint.
Known == {PeerOf[u] : u \in Recorded}

\* queueItem: the PeerId of a peer that the database has, or an endpoint.
Item == Known \cup Urls

\* A peer that is queued by its id is dialled at an endpoint of its record.
Reached(item) == IF item \in Urls THEN PeerOf[item] ELSE item

Unused == [at |-> "unused"]

\* "dialled": connected, not yet registered; "early": ended before that.
\* "checked": OnAuthed found no entry; "refused", "failing": about to close.
Steps == {"dialling", "dialled", "early", "open", "checked", "authed", "refused",
          "failing", "ended"}

SessionRecord ==
  [at : Steps, peer : Peers, weInitiated : BOOLEAN, item : Item \cup {"none"},
   hasAuthed : BOOLEAN, lastError : BOOLEAN, dropped : BOOLEAN]

Session(at, peer, item, weInitiated) ==
  [at |-> at, peer |-> peer, weInitiated |-> weInitiated, item |-> item,
   hasAuthed |-> FALSE, lastError |-> FALSE, dropped |-> FALSE]

At(s, step) == sessions[s].at = step

Move(s, step) == sessions' = [sessions EXCEPT ![s].at = step]

Alive == panicked = "no"

Init ==
  /\ peerQueue \in SetToSeqs(Known)
  /\ lost = 0
  /\ endpoints = Recorded
  /\ firstConnect = {}
  /\ sessions = [s \in SessionIds |-> Unused]
  /\ connections = {}
  /\ authedPeers = {}
  /\ panicked = "no"

-----------------------------------------------------------------------------
(***************************************************************************)
(* The queue.                                                              *)
(***************************************************************************)

\* An update loads the slice and stores the new one.  It comes to nothing when
\* another goroutine, which loaded the slice before, stores after it.
StoreQueue(queue) ==
  /\ peerQueue' \in IF lost < MaxLost THEN {queue, peerQueue} ELSE {queue}
  /\ lost' = IF peerQueue' = queue THEN lost ELSE lost + 1

\* AddEndpointToQueue: a URL of a peer swap, of the local network or of the
\* bootstrap list.
LearnEndpoint(u) ==
  /\ Alive
  /\ u \notin endpoints
  /\ endpoints' = endpoints \cup {u}
  /\ StoreQueue(Append(peerQueue, u))
  /\ UNCHANGED <<firstConnect, sessions, connections, authedPeers, panicked>>

\* StartOutbound sorts the queue by NextTryTime, which any item may have the
\* least of, and looks at the first.
PickFirst(i) ==
  /\ Alive
  /\ firstConnect = {}
  /\ firstConnect' = {peerQueue[i]}
  /\ StoreQueue(<<peerQueue[i]>> \o RemoveAt(peerQueue, i))
  /\ UNCHANGED <<endpoints, sessions, connections, authedPeers, panicked>>

Dialled(item) == Session("dialling", Reached(item), item, TRUE)

\* Variant of TakeFirst that leaves the item in the queue.
TakeFirstKeepsItem(s) ==
  /\ Alive
  /\ firstConnect # {}
  /\ sessions[s] = Unused
  /\ firstConnect' = {}
  /\ sessions' = [sessions EXCEPT ![s] = Dialled(CHOOSE i \in firstConnect : TRUE)]
  /\ UNCHANGED <<peerQueue, lost, endpoints, connections, authedPeers, panicked>>

\* peerQueue = peerQueue[1:], whatever is first by now, and go startSession.
TakeFirst(s) ==
  /\ Alive
  /\ firstConnect # {}
  /\ sessions[s] = Unused
  /\ firstConnect' = {}
  /\ IF peerQueue = <<>>
       THEN panicked' = "slice bounds" /\ UNCHANGED <<peerQueue, lost, sessions>>
       ELSE /\ StoreQueue(Tail(peerQueue))
            /\ \E item \in firstConnect : sessions' = [sessions EXCEPT ![s] = Dialled(item)]
            /\ UNCHANGED panicked
  /\ UNCHANGED <<endpoints, connections, authedPeers>>

-----------------------------------------------------------------------------
(***************************************************************************)
(* The sessions.                                                           *)
(***************************************************************************)

\* What OnEnd puts back: what this node dialled.
Requeued(s) ==
  IF sessions[s].weInitiated THEN Append(peerQueue, sessions[s].item) ELSE peerQueue

DialFails(s) ==
  /\ Alive
  /\ At(s, "dialling")
  /\ StoreQueue(Requeued(s))
  /\ Move(s, "ended")
  /\ UNCHANGED <<endpoints, firstConnect, connections, authedPeers, panicked>>

DialSucceeds(s) ==
  /\ Alive
  /\ At(s, "dialling")
  /\ Move(s, "dialled")
  /\ UNCHANGED <<peerQueue, lost, endpoints, firstConnect, connections, authedPeers, panicked>>

\* Variant of OnConnect that does not call AddSession.
OnConnectUnregistered(s) ==
  /\ Alive
  /\ At(s, "dialled") \/ At(s, "early")
  /\ Move(s, IF At(s, "dialled") THEN "open" ELSE "ended")
  /\ UNCHANGED <<peerQueue, lost, endpoints, firstConnect, connections, authedPeers, panicked>>

\* The dialling goroutine registers the session, whose reader may be over.
OnConnect(s) ==
  /\ Alive
  /\ At(s, "dialled") \/ At(s, "early")
  /\ connections' = connections \cup {s}
  /\ Move(s, IF At(s, "dialled") THEN "open" ELSE "ended")
  /\ UNCHANGED <<peerQueue, lost, endpoints, firstConnect, authedPeers, panicked>>

\* serveWs: a peer dials us.
Accept(s, p) ==
  /\ Alive
  /\ sessions[s] = Unused
  /\ sessions' = [sessions EXCEPT ![s] = Session("open", p, "none", FALSE)]
  /\ connections' = connections \cup {s}
  /\ UNCHANGED <<peerQueue, lost, endpoints, firstConnect, authedPeers, panicked>>

\* AddAuthedPeer looks for an entry.  A session that finds one is closed.
CheckAuthed(s) ==
  /\ Alive
  /\ At(s, "open")
  /\ Move(s, IF sessions[s].peer \in authedPeers THEN "refused" ELSE "checked")
  /\ UNCHANGED <<peerQueue, lost, endpoints, firstConnect, connections, authedPeers, panicked>>

\* OnAuthed takes the first item with the peer's id off the queue.
WithoutFirst(queue, p) ==
  LET found == {i \in DOMAIN queue : queue[i] = p /\ \A j \in 1..(i - 1) : queue[j] # p}
  IN  IF found = {} THEN queue ELSE RemoveAt(queue, CHOOSE i \in found : TRUE)

InsertAuthed(s) ==
  /\ Alive
  /\ At(s, "checked")
  /\ authedPeers' = authedPeers \cup {sessions[s].peer}
  /\ StoreQueue(WithoutFirst(peerQueue, sessions[s].peer))
  /\ sessions' = [sessions EXCEPT ![s].at = "authed", ![s].hasAuthed = TRUE]
  /\ UNCHANGED <<endpoints, firstConnect, connections, panicked>>

\* The peer refuses our peer_auth: StartAuthProcess records the error.
AuthRefusedByPeer(s) ==
  /\ Alive
  /\ At(s, "open")
  /\ sessions[s].weInitiated
  /\ sessions' = [sessions EXCEPT ![s].at = "failing", ![s].lastError = TRUE]
  /\ UNCHANGED <<peerQueue, lost, endpoints, firstConnect, connections, authedPeers, panicked>>

\* StartComms gives up: other root account, neither account has invites, or the
\* recovery failed.
CommsFail(s) ==
  /\ Alive
  /\ At(s, "authed")
  /\ sessions[s].weInitiated
  /\ sessions' = [sessions EXCEPT ![s].at = "failing", ![s].lastError = TRUE]
  /\ UNCHANGED <<peerQueue, lost, endpoints, firstConnect, connections, authedPeers, panicked>>

\* A duplicate that this node dialled is an error too, recorded by the goroutine
\* in StartAuthProcess: OnEnd may run before or after that.
MayHaveError(s) ==
  IF At(s, "refused") /\ sessions[s].weInitiated THEN BOOLEAN ELSE {sessions[s].lastError}

\* Variant of RemoveAuthedPeer that only minds the sessions this node dialled.
RemoveAuthedPeerIfDialled(s) ==
  IF sessions[s].hasAuthed /\ sessions[s].weInitiated
    THEN /\ authedPeers' = authedPeers \ {sessions[s].peer}
         /\ panicked' = IF sessions[s].peer \in authedPeers THEN panicked
                        ELSE "authedPeers missing peer id"
    ELSE UNCHANGED <<authedPeers, panicked>>

RemoveAuthedPeer(s) ==
  IF sessions[s].hasAuthed
    THEN /\ authedPeers' = authedPeers \ {sessions[s].peer}
         /\ panicked' = IF sessions[s].peer \in authedPeers THEN panicked
                        ELSE "authedPeers missing peer id"
    ELSE UNCHANGED <<authedPeers, panicked>>

\* The reader's read fails, and OnEnd runs.  It does nothing for a session that
\* ended with an error.
OnEnd(s) ==
  /\ Alive
  /\ sessions[s].at \in {"dialled", "open", "authed", "refused", "failing"}
  /\ \E lastError \in MayHaveError(s) :
       /\ sessions' = [sessions EXCEPT ![s].at = IF @ = "dialled" THEN "early" ELSE "ended",
                                       ![s].lastError = lastError]
       /\ IF lastError
            THEN UNCHANGED <<peerQueue, lost, connections, authedPeers, panicked>>
            ELSE /\ StoreQueue(Requeued(s))
                 /\ connections' = connections \ {s}
                 /\ RemoveAuthedPeer(s)
  /\ UNCHANGED <<endpoints, firstConnect>>

\* The Broadcaster cannot write to a session, closes its websocket and drops it,
\* whether or not its reader has ended.
BroadcasterDrops(s) ==
  /\ Alive
  /\ s \in connections
  /\ sessions[s] # Unused
  /\ sessions[s].hasAuthed
  /\ connections' = connections \ {s}
  /\ sessions' = [sessions EXCEPT ![s].dropped = TRUE]
  /\ UNCHANGED <<peerQueue, lost, endpoints, firstConnect, authedPeers, panicked>>

Next ==
  \/ \E u \in Urls : LearnEndpoint(u)
  \/ \E i \in DOMAIN peerQueue : PickFirst(i)
  \/ \E s \in SessionIds :
       \/ TakeFirst(s) \/ DialFails(s) \/ DialSucceeds(s) \/ OnConnect(s)
       \/ \E p \in Peers : Accept(s, p)
       \/ CheckAuthed(s) \/ InsertAuthed(s) \/ AuthRefusedByPeer(s) \/ CommsFail(s)
       \/ OnEnd(s) \/ BroadcasterDrops(s)

Spec == Init /\ [][Next]_vars

-----------------------------------------------------------------------------
(***************************************************************************)
(* Properties.                                                             *)
(***************************************************************************)

\* The types of the variables; only a peer that the database has is queued by
\* its id, for OnEnd stops the process when FetchFromDb does not find it.
TypeOK ==
  /\ peerQueue \in Seq(Item)
  /\ lost \in 0..MaxLost
  /\ endpoints \subseteq Urls
  /\ firstConnect \subseteq Item
  /\ sessions \in [SessionIds -> SessionRecord \cup {Unused}]
  /\ connections \subseteq SessionIds
  /\ authedPeers \subseteq Peers
  /\ panicked \in {"no", "slice bounds", "authedPeers missing peer id"}

Live(s) == sessions[s] # Unused /\ sessions[s].at \notin {"early", "ended"}

Queued(item) == {i \in DOMAIN peerQueue : peerQueue[i] = item}

Dialling(item) ==
  {s \in SessionIds : Live(s) /\ sessions[s].weInitiated /\ sessions[s].item = item}

Once(item) == Cardinality(Queued(item)) + Cardinality(Dialling(item)) <= 1

\* StartOutbound, OnEnd and AddEndpointToQueue: a peer's id, and a URL, is queued
\* once or dialled once, never both and never twice, in whatever order the
\* goroutines update the queue, as long as no two updates overlap.  (An item that
\* StartOutbound is looking at is still in the queue, or gone from it.)
DialledOnce == lost = 0 => \A item \in Item : Once(item)

\* authedPeers: an entry is there because of a session that authenticated and
\* is live, or that ended with an error, which OnEnd does not clean up after.
EntriesExplained ==
  \A p \in authedPeers : \E s \in SessionIds :
    /\ sessions[s] # Unused
    /\ sessions[s].peer = p
    /\ sessions[s].hasAuthed
    /\ Live(s) \/ sessions[s].lastError

\* Broadcaster: a live session that has authenticated is registered, so that the
\* bundles are sent to it unless this node restricts it, until a write to it fails.
AuthedAreBroadcastTo ==
  \A s \in SessionIds :
    Live(s) /\ sessions[s].hasAuthed /\ ~sessions[s].dropped => s \in connections

\* The same as DialledOnce, for updates of the queue that may overlap.
AlwaysDialledOnce == \A item \in Item : Once(item)

\* uniqueEndpointsMap should keep a node from being dialled twice: it does so by
\* URL, and a peer that is queued by its id has other URLs.
PeerDialledOnce ==
  lost = 0 => \A p \in Peers :
    Cardinality({s \in SessionIds : /\ Live(s)
                                    /\ sessions[s].weInitiated
                                    /\ sessions[s].peer = p}) <= 1

\* authed.go panics with "authedPeers missing peer id" when it removes a peer
\* that is not there.
EntriesAreThere == panicked # "authedPeers missing peer id"

\* A session is refused with "peer already has another session": the peer should
\* have one when that happens.
RefusedForAnother ==
  [][\A s \in SessionIds :
       At(s, "open") /\ sessions'[s].at = "refused" =>
         \E t \in SessionIds \ {s} : Live(t) /\ sessions[t].peer = sessions[s].peer]_vars

\* init.go wants the peer of an inbound session that ends in the queue: "its a
\* new peer, might as well add it to the queue".
InboundArePutInQueue ==
  \A s \in SessionIds :
    At(s, "ended") /\ ~sessions[s].weInitiated /\ sessions[s].hasAuthed =>
      \E item \in Item :
        /\ Reached(item) = sessions[s].peer
        /\ Queued(item) # {} \/ Dialling(item) # {} \/ item \in firstConnect

=============================================================================
