------------------------------ MODULE SyncSession -----------------------------
(***************************************************************************)
(* One authenticated session between two nodes, from peer_info to the end  *)
(* of the linked documents' swap.  Each node runs a reader (HandleMessages,*)
(* which handles one message at a time and runs the callbacks of the       *)
(* answers), a sync goroutine (StartComms on the node that dialled, one    *)
(* started by peer_syncFinished on the other) and linked-document swaps.   *)
(* They share the node's database: StartLinkedDocsSwap keeps a bolt write  *)
(* transaction open while it waits for the peer's documents, and any other *)
(* write waits for it.                                                     *)
(*                                                                         *)
(* Bundles arrive through other sessions too.  One that is posted there    *)
(* (bundle_save, ui_requestInvite) is broadcast over this session, one     *)
(* that another session's sync downloads is saved and told to nobody.  A   *)
(* bundle of an account that no saved bundle invites is refused, and       *)
(* whoever broadcast it does not send it again.                            *)
(*                                                                         *)
(* A bundle is saved once, so a node's content is a set that grows, and    *)
(* stands for its merklehead as well.  The paged download is one question  *)
(* and one answer here (SequenceSwap has the pages), the peer swap is left *)
(* out, and a bundle's root document links to at most one other (DocStore  *)
(* has the documents).                                                     *)
(***************************************************************************)
EXTENDS Integers, Sequences, SequencesExt

CONSTANTS
  Bundles,     \* the bundles there are, one per account
  Linked,      \* those whose root document links to further documents
  Inviters,    \* bundle -> those that invite its account, none for the root account
  MaxSaves     \* bound on the bundles that arrive through other sessions

ASSUME SyncAssumption ==
  /\ Linked \subseteq Bundles
  /\ Inviters \in [Bundles -> SUBSET Bundles]
  /\ MaxSaves \in Nat

VARIABLES
  connected,   \* the websocket is open
  inbox,       \* node -> the messages on their way to it, in order
  content,     \* node -> the bundles it has saved
  missing,     \* node -> those marked as lacking documents (SyncStatus 2)
  lacking,     \* node -> those whose linked documents it does lack
  peerHead,    \* node -> session.RemoteMerklehead
  hasSynced,   \* node -> session.HasSynced
  sync,        \* node -> where its sync goroutine is
  got,         \* node -> the bundles it downloads
  swaps,       \* node -> linked-document swaps started but without a transaction
  lock,        \* node -> a linked-document swap holds the write transaction
  todo,        \* node -> bundles that swap has yet to fetch
  asked,       \* node -> the bundle whose document it waits for, as a set
  fetched,     \* node -> bundles it has fetched
  outbox,      \* node -> bundles its Broadcaster has yet to send over this session
  saves,       \* bundles that arrived through other sessions so far
  silent,      \* history: node -> what other sessions downloaded since the peer's download
  refused      \* history: node -> what it refused since it asked for the peer's content

netVars == <<connected, inbox>>
syncVars == <<peerHead, hasSynced, sync, got>>
docVars == <<missing, lacking, swaps, lock, todo, asked, fetched>>
saveVars == <<outbox, saves, silent, refused>>
vars == <<netVars, content, syncVars, docVars, saveVars>>

Dialler == "dialler"
Listener == "listener"
Nodes == {Dialler, Listener}

Peer(n) == IF n = Dialler THEN Listener ELSE Dialler

SyncSteps == {"info", "waitInfo", "idle", "sync", "waitPages", "saving", "announce",
              "announced", "done"}

Kinds == {"info", "infoAnswer", "pages", "pagesAnswer", "syncFinished",
          "syncFinishedAnswer", "docGet", "docAnswer", "save"}

Message == [kind : Kinds, bundles : SUBSET Bundles]

Msg(kind, bundles) == [kind |-> kind, bundles |-> bundles]

\* ValidateAndSave: the account of the bundle is the root or invited by a saved bundle.
Accepts(saved, b) == Inviters[b] = {} \/ Inviters[b] \cap saved # {}

Init ==
  /\ connected = TRUE
  /\ inbox = [n \in Nodes |-> <<>>]
  /\ content \in [Nodes -> {S \in SUBSET Bundles : \A b \in S : Accepts(S, b)}]
  /\ missing \in [Nodes -> SUBSET Linked] /\ \A n \in Nodes : missing[n] \subseteq content[n]
  /\ lacking = missing
  /\ peerHead = [n \in Nodes |-> {}]
  /\ hasSynced = [n \in Nodes |-> FALSE]
  /\ sync = [n \in Nodes |-> IF n = Dialler THEN "info" ELSE "idle"]
  /\ got = [n \in Nodes |-> {}]
  /\ swaps = [n \in Nodes |-> 0]
  /\ lock = [n \in Nodes |-> FALSE]
  /\ todo = [n \in Nodes |-> {}]
  /\ asked = [n \in Nodes |-> {}]
  /\ fetched = [n \in Nodes |-> {}]
  /\ outbox = [n \in Nodes |-> {}]
  /\ saves = 0
  /\ silent = [n \in Nodes |-> {}]
  /\ refused = [n \in Nodes |-> {}]

-----------------------------------------------------------------------------
\* SendRPC, or the answer to a message: nothing is sent on a closed websocket.
Send(n, message) ==
  inbox' = IF connected THEN [inbox EXCEPT ![Peer(n)] = Append(@, message)] ELSE inbox

\* The reader takes a message off, and may answer it.
Take(n) == inbox' = [inbox EXCEPT ![n] = Tail(@)]

TakeAndAnswer(n, message) ==
  inbox' = [inbox EXCEPT ![n] = Tail(@), ![Peer(n)] = Append(@, message)]

Arrived(n, kind) == inbox[n] # <<>> /\ Head(inbox[n]).kind = kind

\* db.GetTx(true) returns at once.
MayWrite(n) == ~lock[n]

-----------------------------------------------------------------------------
(***************************************************************************)
(* The sync goroutine.                                                     *)
(***************************************************************************)

\* StartComms asks for the peer's merklehead and tells its own.
StartInfo(n) ==
  /\ sync[n] = "info"
  /\ Send(n, Msg("info", content[n]))
  /\ sync' = [sync EXCEPT ![n] = "waitInfo"]
  /\ UNCHANGED <<connected, content, peerHead, hasSynced, got, docVars, saveVars>>

\* The dialler goes on to its linked documents once it has synced.  The
\* listener's StartSync just ends.
SwapsAfterSync(n) ==
  IF n = Dialler /\ hasSynced'[n] THEN [swaps EXCEPT ![n] = @ + 1] ELSE swaps

\* StartSync with a peer that has the same merklehead returns at once.
AlreadySynced(n) ==
  /\ sync[n] = "sync"
  /\ peerHead[n] # {}
  /\ content[n] = peerHead[n]
  /\ hasSynced' = [hasSynced EXCEPT ![n] = TRUE]
  /\ sync' = [sync EXCEPT ![n] = "done"]
  /\ swaps' = SwapsAfterSync(n)
  /\ UNCHANGED <<netVars, content, peerHead, got, missing, lacking, lock, todo, asked, fetched,
                 saveVars>>

\* ... with an empty one it has nothing to download.
NothingToDownload(n) ==
  /\ sync[n] = "sync"
  /\ peerHead[n] = {}
  /\ sync' = [sync EXCEPT ![n] = "announce"]
  /\ UNCHANGED <<netVars, content, peerHead, hasSynced, got, docVars, saveVars>>

\* ... and otherwise it asks for the peer's content.
AskPages(n) ==
  /\ sync[n] = "sync"
  /\ peerHead[n] \notin {{}, content[n]}
  /\ Send(n, Msg("pages", {}))
  /\ sync' = [sync EXCEPT ![n] = "waitPages"]
  /\ refused' = [refused EXCEPT ![n] = {}]
  /\ UNCHANGED <<connected, content, peerHead, hasSynced, got, docVars, outbox, saves, silent>>

\* SaveAccountPlusMissingInviters: a downloaded bundle comes after that of its inviter,
\* and without linked documents.
SaveDownloaded(n, b) ==
  /\ sync[n] = "saving"
  /\ b \in got[n] \ content[n]
  /\ Accepts(content[n], b)
  /\ MayWrite(n)
  /\ content' = [content EXCEPT ![n] = @ \cup {b}]
  /\ missing' = [missing EXCEPT ![n] = @ \cup ({b} \cap Linked)]
  /\ lacking' = [lacking EXCEPT ![n] = @ \cup ({b} \cap Linked)]
  /\ UNCHANGED <<netVars, syncVars, swaps, lock, todo, asked, fetched, saveVars>>

\* "check again" after the download.
Downloaded(n) ==
  /\ sync[n] = "saving"
  /\ got[n] \subseteq content[n]
  /\ hasSynced' = [hasSynced EXCEPT ![n] = @ \/ content[n] = peerHead[n]]
  /\ got' = [got EXCEPT ![n] = {}]
  /\ sync' = [sync EXCEPT ![n] = "announce"]
  /\ UNCHANGED <<netVars, content, peerHead, docVars, saveVars>>

\* peer_syncFinished: now it is the peer's turn.
Announce(n) ==
  /\ sync[n] = "announce"
  /\ Send(n, Msg("syncFinished", content[n]))
  /\ sync' = [sync EXCEPT ![n] = "announced"]
  /\ UNCHANGED <<connected, content, peerHead, hasSynced, got, docVars, saveVars>>

\* StartComms after StartSync: without HasSynced it is "waiting for remote to
\* complete sync".
SyncEnds(n) ==
  /\ sync[n] = "announced"
  /\ sync' = [sync EXCEPT ![n] = "done"]
  /\ UNCHANGED hasSynced
  /\ swaps' = SwapsAfterSync(n)
  /\ UNCHANGED <<netVars, content, peerHead, got, missing, lacking, lock, todo, asked, fetched,
                 saveVars>>

-----------------------------------------------------------------------------
(***************************************************************************)
(* The reader: HandleMessages, one message at a time.                      *)
(***************************************************************************)

\* peer_info at the listener; UpdatePeer saves the peer.
HandleInfo(n) ==
  /\ Arrived(n, "info")
  /\ MayWrite(n)
  /\ peerHead' = [peerHead EXCEPT ![n] = Head(inbox[n]).bundles]
  /\ TakeAndAnswer(n, Msg("infoAnswer", content[n]))
  /\ UNCHANGED <<connected, content, hasSynced, sync, got, docVars, saveVars>>

HandleInfoAnswer(n) ==
  /\ Arrived(n, "infoAnswer")
  /\ MayWrite(n)
  /\ peerHead' = [peerHead EXCEPT ![n] = Head(inbox[n]).bundles]
  /\ sync' = [sync EXCEPT ![n] = "sync"]
  /\ Take(n)
  /\ UNCHANGED <<connected, content, hasSynced, got, docVars, saveVars>>

HandlePages(n) ==
  /\ Arrived(n, "pages")
  /\ TakeAndAnswer(n, Msg("pagesAnswer", content[n]))
  /\ silent' = [silent EXCEPT ![n] = {}]
  /\ UNCHANGED <<connected, content, syncVars, docVars, outbox, saves, refused>>

HandlePagesAnswer(n) ==
  /\ Arrived(n, "pagesAnswer")
  /\ got' = [got EXCEPT ![n] = Head(inbox[n]).bundles]
  /\ sync' = [sync EXCEPT ![n] = "saving"]
  /\ Take(n)
  /\ UNCHANGED <<connected, content, peerHead, hasSynced, docVars, saveVars>>

\* Variant of DiallerFinished that leaves the linked documents to StartComms.
DiallerFinishedOnly(n, head) ==
  /\ hasSynced' = [hasSynced EXCEPT ![n] = @ \/ content[n] = head]
  /\ UNCHANGED <<sync, swaps>>

\* peer_syncFinished at the node that dialled ends the sync, or logs "merkleheads
\* still dont match, consensus bug!!".
DiallerFinished(n, head) ==
  /\ hasSynced' = [hasSynced EXCEPT ![n] = @ \/ content[n] = head]
  /\ swaps' = IF content[n] = head THEN [swaps EXCEPT ![n] = @ + 1] ELSE swaps
  /\ UNCHANGED sync

\* At the other node it starts that node's own sync.
ListenerFinished(n) ==
  /\ sync' = [sync EXCEPT ![n] = "sync"]
  /\ UNCHANGED <<hasSynced, swaps>>

HandleSyncFinished(n) ==
  /\ Arrived(n, "syncFinished")
  /\ LET head == Head(inbox[n]).bundles IN
     /\ peerHead' = [peerHead EXCEPT ![n] = head]
     /\ IF n = Dialler THEN DiallerFinished(n, head) ELSE ListenerFinished(n)
  /\ TakeAndAnswer(n, Msg("syncFinishedAnswer", {}))
  /\ UNCHANGED <<connected, content, got, missing, lacking, lock, todo, asked, fetched, saveVars>>

\* Only the listener's callback starts the linked documents' swap.
HandleSyncFinishedAnswer(n) ==
  /\ Arrived(n, "syncFinishedAnswer")
  /\ swaps' = IF n = Listener THEN [swaps EXCEPT ![n] = @ + 1] ELSE swaps
  /\ Take(n)
  /\ UNCHANGED <<connected, content, syncVars, missing, lacking, lock, todo, asked, fetched,
                 saveVars>>

\* Variant of HandleDocGet that does not answer for a document it lacks.
HandleDocGetIfHeld(n) ==
  /\ Arrived(n, "docGet")
  /\ LET doc == Head(inbox[n]).bundles \cap (content[n] \ lacking[n]) IN
     IF doc = {} THEN Take(n) ELSE TakeAndAnswer(n, Msg("docAnswer", doc))
  /\ UNCHANGED <<connected, content, syncVars, docVars, saveVars>>

\* doc_get: the document, or the error "error fetching document".
HandleDocGet(n) ==
  /\ Arrived(n, "docGet")
  /\ TakeAndAnswer(n, Msg("docAnswer", Head(inbox[n]).bundles \cap (content[n] \ lacking[n])))
  /\ UNCHANGED <<connected, content, syncVars, docVars, saveVars>>

HandleDocAnswer(n) ==
  /\ Arrived(n, "docAnswer")
  /\ fetched' = [fetched EXCEPT ![n] = @ \cup Head(inbox[n]).bundles]
  /\ todo' = [todo EXCEPT ![n] = @ \ asked[n]]
  /\ asked' = [asked EXCEPT ![n] = {}]
  /\ Take(n)
  /\ UNCHANGED <<connected, content, syncVars, missing, lacking, swaps, lock, saveVars>>

\* bundle_save: ValidateAndSave of a bundle with all its documents, refused if
\* this node has it already, or nobody invited its account.  The answer has no callback.
HandleSave(n) ==
  LET bundles == Head(inbox[n]).bundles
      saved == {b \in bundles : Accepts(content[n], b)}
  IN
  /\ Arrived(n, "save")
  /\ MayWrite(n)
  /\ content' = [content EXCEPT ![n] = @ \cup saved]
  /\ refused' = [refused EXCEPT ![n] = @ \cup (bundles \ saved)]
  /\ Take(n)
  /\ UNCHANGED <<connected, syncVars, docVars, outbox, saves, silent>>

-----------------------------------------------------------------------------
(***************************************************************************)
(* StartLinkedDocsSwap: one write transaction from its first line to its   *)
(* last, with a doc_get to the peer for every document it lacks.           *)
(***************************************************************************)
StartDocs(n) ==
  /\ swaps[n] > 0
  /\ MayWrite(n)
  /\ swaps' = [swaps EXCEPT ![n] = @ - 1]
  /\ lock' = [lock EXCEPT ![n] = TRUE]
  /\ todo' = [todo EXCEPT ![n] = missing[n]]
  /\ UNCHANGED <<netVars, content, syncVars, missing, lacking, asked, fetched, saveVars>>

AskDoc(n, b) ==
  /\ lock[n]
  /\ asked[n] = {}
  /\ b \in todo[n]
  /\ asked' = [asked EXCEPT ![n] = {b}]
  /\ Send(n, Msg("docGet", {b}))
  /\ UNCHANGED <<connected, content, syncVars, missing, lacking, swaps, lock, todo, fetched,
                 saveVars>>

\* "LinkedDocs Swap finished", and the transaction commits.  A bundle is marked
\* complete when its document came, and when it did not: nothing fetched means a
\* second walk, of the root as dag-pb, which cannot be decoded and misses nothing.
FinishDocs(n) ==
  /\ lock[n]
  /\ todo[n] = {}
  /\ missing' = [missing EXCEPT ![n] = {}]
  /\ lacking' = [lacking EXCEPT ![n] = @ \ fetched[n]]
  /\ fetched' = [fetched EXCEPT ![n] = {}]
  /\ lock' = [lock EXCEPT ![n] = FALSE]
  /\ UNCHANGED <<netVars, content, syncVars, swaps, todo, asked, saveVars>>

-----------------------------------------------------------------------------
(***************************************************************************)
(* What comes from outside the session.                                    *)
(***************************************************************************)

\* Another session's reader saves a bundle that was posted there, and hands it to the
\* Broadcaster; two readers may do so in another order than they saved in.
SavePosted(n, b) ==
  /\ saves < MaxSaves
  /\ b \notin content[n]
  /\ Accepts(content[n], b)
  /\ MayWrite(n)
  /\ content' = [content EXCEPT ![n] = @ \cup {b}]
  /\ outbox' = [outbox EXCEPT ![n] = @ \cup {b}]
  /\ saves' = saves + 1
  /\ UNCHANGED <<netVars, syncVars, docVars, silent, refused>>

\* The sync goroutine of another session saves a bundle that it downloaded: no broadcast.
SaveSilently(n, b) ==
  /\ saves < MaxSaves
  /\ b \notin content[n]
  /\ Accepts(content[n], b)
  /\ MayWrite(n)
  /\ content' = [content EXCEPT ![n] = @ \cup {b}]
  /\ missing' = [missing EXCEPT ![n] = @ \cup ({b} \cap Linked)]
  /\ lacking' = [lacking EXCEPT ![n] = @ \cup ({b} \cap Linked)]
  /\ silent' = [silent EXCEPT ![n] = @ \cup {b}]
  /\ saves' = saves + 1
  /\ UNCHANGED <<netVars, syncVars, swaps, lock, todo, asked, fetched, outbox, refused>>

\* Variant of Broadcast that skips a session that has not synced.
BroadcastOnceSynced(n, b) ==
  /\ b \in outbox[n]
  /\ IF hasSynced[n] THEN Send(n, Msg("save", {b})) ELSE inbox' = inbox
  /\ outbox' = [outbox EXCEPT ![n] = @ \ {b}]
  /\ UNCHANGED <<connected, content, syncVars, docVars, saves, silent, refused>>

\* The Broadcaster sends it over this session, synced or not.
Broadcast(n, b) ==
  /\ b \in outbox[n]
  /\ Send(n, Msg("save", {b}))
  /\ outbox' = [outbox EXCEPT ![n] = @ \ {b}]
  /\ UNCHANGED <<connected, content, syncVars, docVars, saves, silent, refused>>

\* The websocket closes; what was on its way is lost, and nobody tells the
\* goroutines that wait for an answer.
Disconnect ==
  /\ connected
  /\ connected' = FALSE
  /\ inbox' = [n \in Nodes |-> <<>>]
  /\ UNCHANGED <<content, syncVars, docVars, saveVars>>

-----------------------------------------------------------------------------
SyncGoroutine(n) ==
  \/ StartInfo(n) \/ AlreadySynced(n) \/ NothingToDownload(n) \/ AskPages(n)
  \/ \E b \in Bundles : SaveDownloaded(n, b)
  \/ Downloaded(n) \/ Announce(n) \/ SyncEnds(n)

Reader(n) ==
  \/ HandleInfo(n) \/ HandleInfoAnswer(n) \/ HandlePages(n) \/ HandlePagesAnswer(n)
  \/ HandleSyncFinished(n) \/ HandleSyncFinishedAnswer(n)
  \/ HandleDocGet(n) \/ HandleDocAnswer(n) \/ HandleSave(n)

LinkedDocsSwap(n) ==
  StartDocs(n) \/ (\E b \in Bundles : AskDoc(n, b)) \/ FinishDocs(n)

Broadcaster(n) == \E b \in Bundles : Broadcast(n, b)

Next ==
  \/ \E n \in Nodes : SyncGoroutine(n) \/ Reader(n) \/ LinkedDocsSwap(n) \/ Broadcaster(n)
  \/ \E n \in Nodes, b \in Bundles : SavePosted(n, b) \/ SaveSilently(n, b)
  \/ Disconnect

Spec == Init /\ [][Next]_vars

\* Every goroutine that can run does in the end; bundles and disconnections need
\* not come.
FairSpec ==
  /\ Spec
  /\ \A n \in Nodes : /\ WF_vars(SyncGoroutine(n))
                       /\ WF_vars(Reader(n))
                       /\ WF_vars(LinkedDocsSwap(n))
                       /\ WF_vars(Broadcaster(n))

-----------------------------------------------------------------------------
(***************************************************************************)
(* Properties.                                                             *)
(***************************************************************************)

\* A bundle is marked as lacking documents only if the node has it and lacks
\* them, and a linked-documents swap leaves nothing behind when it commits.
DocsMarked(n) ==
  /\ missing[n] \subseteq lacking[n] /\ lacking[n] \subseteq content[n]
  /\ asked[n] \subseteq todo[n]
  /\ todo[n] \cup fetched[n] \subseteq missing[n]
  /\ ~lock[n] => todo[n] \cup fetched[n] = {}

\* The types of the variables, and the documents' bookkeeping.
TypeOK ==
  /\ connected \in BOOLEAN
  /\ inbox \in [Nodes -> Seq(Message)]
  /\ content \in [Nodes -> SUBSET Bundles]
  /\ missing \in [Nodes -> SUBSET Linked]
  /\ lacking \in [Nodes -> SUBSET Linked]
  /\ peerHead \in [Nodes -> SUBSET Bundles]
  /\ hasSynced \in [Nodes -> BOOLEAN]
  /\ sync \in [Nodes -> SyncSteps]
  /\ got \in [Nodes -> SUBSET Bundles]
  /\ swaps \in [Nodes -> Nat]
  /\ lock \in [Nodes -> BOOLEAN]
  /\ todo \in [Nodes -> SUBSET Linked]
  /\ asked \in [Nodes -> SUBSET Linked]
  /\ fetched \in [Nodes -> SUBSET Linked]
  /\ outbox \in [Nodes -> SUBSET Bundles]
  /\ saves \in 0..MaxSaves
  /\ silent \in [Nodes -> SUBSET Bundles]
  /\ refused \in [Nodes -> SUBSET Bundles]
  /\ \A n \in Nodes : DocsMarked(n)

OnItsWay(n, question, answer) ==
  \/ \E i \in DOMAIN inbox[Peer(n)] : inbox[Peer(n)][i].kind = question
  \/ \E i \in DOMAIN inbox[n] : inbox[n][i].kind = answer

\* SendRPC and ProcessRPCResult: while the websocket is open, a goroutine that
\* waits on a channel has its question or the answer to it on the way.  No
\* handler may leave a question unanswered, an error included.
WaitersAreServed ==
  connected => \A n \in Nodes :
    /\ sync[n] = "waitInfo" => OnItsWay(n, "info", "infoAnswer")
    /\ sync[n] = "waitPages" => OnItsWay(n, "pages", "pagesAnswer")
    /\ asked[n] # {} => OnItsWay(n, "docGet", "docAnswer")

\* Nothing is left to send, to read or to download.
Settled ==
  /\ connected
  /\ sync[Dialler] = "done"
  /\ sync[Listener] \in {"idle", "done"}
  /\ \A n \in Nodes : inbox[n] = <<>> /\ outbox[n] = {}

\* What n has and its peer has not came to n through the sync of another session after
\* the peer's download, or the peer refused it after that download.
Explained(n) == content[n] \ content[Peer(n)] \subseteq silent[n] \cup refused[Peer(n)]

\* StartSync, peer_syncFinished and the Broadcaster: when the session has come to rest,
\* the two nodes hold the same bundles, but for those that another session downloaded
\* since, which nobody broadcasts, and those that were broadcast before the bundle of an
\* inviter came.  No bundle is lost between the two downloads and the broadcasts.
SettledAgree == Settled => \A n \in Nodes : Explained(n)

\* ... and it does come to rest, as long as the websocket stays open, unless a
\* linked-documents swap keeps its write transaction for ever: nothing else in
\* the exchange can block it, however many bundles arrive meanwhile.
Converges ==
  []connected =>
    \/ <>[](Settled /\ \A n \in Nodes : Explained(n))
    \/ <>[](\E n \in Nodes : lock[n])

\* rpc_sync_finished.go calls it a "consensus bug!!": a session at rest should leave both
\* nodes with the same bundles.
SameAtRest == Settled => content[Dialler] = content[Listener]

NothingLacking == \A n \in Nodes : lacking[n] = {}

\* StartLinkedDocsSwap: on a session that nothing disturbs, the linked documents
\* of everything that was downloaded arrive on both sides.
LinkedDocsArrive ==
  (NothingLacking /\ [](connected /\ saves = 0)) => <>[]NothingLacking

\* startcomms.go says it is "waiting for remote to complete sync" when StartSync
\* ends without HasSynced: the wait should end while the session lasts.
WaitingEnds == sync[Dialler] = "done" ~> (hasSynced[Dialler] \/ ~connected)

\* swap_linkeddocs.go ends with "LinkedDocs Swap finished": it should get there
\* while the session lasts, and let go of the write transaction.
DocsSwapEnds == \A n \in Nodes : lock[n] ~> (~lock[n] \/ ~connected)

=============================================================================
