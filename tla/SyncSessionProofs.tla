--------------------------- MODULE SyncSessionProofs ---------------------------
(***************************************************************************)
(* Every question of a session is answered, and what differs between the   *)
(* nodes of a session at rest was downloaded by another session or refused *)
(* for want of an inviter: proved for any set of bundles and invites, any  *)
(* number of bundles from other sessions and every interleaving of the     *)
(* readers, the sync goroutines, the linked-document swaps and the         *)
(* Broadcasters of the two nodes.                                          *)
(***************************************************************************)
EXTENDS SyncSession, TLAPS

-----------------------------------------------------------------------------
(***************************************************************************)
(* What an inbox holds.                                                    *)
(***************************************************************************)
Has(box, kind) == \E i \in DOMAIN box : box[i].kind = kind

Carries(box, kind, b) == \E i \in DOMAIN box : box[i].kind = kind /\ b \in box[i].bundles

Once(box, kind) ==
  \A i, j \in DOMAIN box : box[i].kind = kind /\ box[j].kind = kind => i = j

Within(box, kind, bundles) ==
  \A i \in DOMAIN box : box[i].kind = kind => box[i].bundles \subseteq bundles

AllWithin(box, bundles) == \A i \in DOMAIN box : box[i].bundles \subseteq bundles

-----------------------------------------------------------------------------
(***************************************************************************)
(* The inductive invariant.                                                *)
(***************************************************************************)

\* A question and its answer are never both on their way, nor either twice.
OneExchange(n, question, answer) ==
  /\ Once(inbox[Peer(n)], question) /\ Once(inbox[n], answer)
  /\ ~(Has(inbox[Peer(n)], question) /\ Has(inbox[n], answer))

UnderWay(n, question, answer) == Has(inbox[Peer(n)], question) \/ Has(inbox[n], answer)

\* A goroutine waits exactly while its question or the answer is on its way.
InfoExchange(n) ==
  /\ OneExchange(n, "info", "infoAnswer")
  /\ sync[n] = "waitInfo" <=> UnderWay(n, "info", "infoAnswer")

PagesExchange(n) ==
  /\ OneExchange(n, "pages", "pagesAnswer")
  /\ sync[n] = "waitPages" <=> UnderWay(n, "pages", "pagesAnswer")

DocExchange(n) ==
  /\ OneExchange(n, "docGet", "docAnswer")
  /\ asked[n] # {} <=> UnderWay(n, "docGet", "docAnswer")
  /\ Within(inbox[n], "docAnswer", asked[n])
  /\ Within(inbox[Peer(n)], "docGet", asked[n])

Exchanges == \A n \in Nodes : InfoExchange(n) /\ PagesExchange(n) /\ DocExchange(n)

Announced(n) == sync[n] \in {"announced", "done"}

\* The listener's turn comes after the dialler's.
Turns ==
  /\ sync[Dialler] # "idle"
  /\ sync[Listener] \notin {"info", "waitInfo"}
  /\ sync[Listener] # "idle" => Announced(Dialler)
  /\ Once(inbox[Listener], "syncFinished")
  /\ Has(inbox[Listener], "syncFinished") => Announced(Dialler) /\ sync[Listener] = "idle"
  /\ Has(inbox[Dialler], "syncFinished") => Announced(Listener)

\* What a node was told of the other's content is still true: bundles stay.
ToldTrue(n) ==
  /\ peerHead[n] \subseteq content[Peer(n)]
  /\ got[n] \subseteq content[Peer(n)]
  /\ outbox[n] \subseteq content[n]
  /\ AllWithin(inbox[n], content[Peer(n)])

Told == \A n \in Nodes : ToldTrue(n)

\* The Broadcaster of n's peer brings the bundle.
Coming(n, b) == b \in outbox[Peer(n)] \/ Carries(inbox[n], "save", b)

\* n's download brings the bundle.
Downloads(n, b) ==
  \/ sync[n] = "sync" /\ b \in peerHead[n]
  \/ /\ sync[n] = "waitPages"
     /\ Has(inbox[Peer(n)], "pages") \/ Carries(inbox[n], "pagesAnswer", b)
  \/ sync[n] = "saving" /\ b \in got[n]

\* n's turn to learn of the bundle is still to come.
Ahead(n, b) ==
  \/ /\ n = Dialler
     /\ \/ sync[n] = "info"
        \/ /\ sync[n] = "waitInfo"
           /\ Has(inbox[Peer(n)], "info") \/ Carries(inbox[n], "infoAnswer", b)
  \/ /\ n = Listener
     /\ ~Announced(Dialler) \/ Carries(inbox[n], "syncFinished", b)

\* Nobody told n of the bundle since its download, or n refused it.
Untold(n, b) == b \in silent[Peer(n)] \/ b \in refused[n]

\* What only the peer has is on its way to n, or will be asked for, or n was not told
\* of it.
WillHave(n) ==
  \A b \in content[Peer(n)] \ content[n] :
    Coming(n, b) \/ Downloads(n, b) \/ Ahead(n, b) \/ Untold(n, b)

Transfers == \A n \in Nodes : WillHave(n)

Session == Exchanges /\ Turns /\ Told /\ Transfers

IInv ==
  /\ TypeOK
  /\ connected => Session
  /\ ~connected => \A n \in Nodes : inbox[n] = <<>>

-----------------------------------------------------------------------------
(***************************************************************************)
(* Lemmas about inboxes: what sending and reading change of them.          *)
(***************************************************************************)

\* There are two nodes, and each is the other's peer.
LEMMA Peers ==
  /\ Dialler \in Nodes /\ Listener \in Nodes /\ Dialler # Listener
  /\ Peer(Dialler) = Listener /\ Peer(Listener) = Dialler
  /\ \A n \in Nodes : /\ Peer(n) \in Nodes /\ Peer(n) # n /\ Peer(Peer(n)) = n
                      /\ n = Dialler \/ n = Listener
                      /\ \A m \in Nodes : m = n \/ m = Peer(n)
  BY DEF Dialler, Listener, Nodes, Peer

\* Msg makes messages.
LEMMA Messages ==
  ASSUME NEW kind \in Kinds, NEW bundles \in SUBSET Bundles
  PROVE  /\ Msg(kind, bundles) \in Message
         /\ Msg(kind, bundles).kind = kind
         /\ Msg(kind, bundles).bundles = bundles
  BY DEF Msg, Message

\* An empty inbox holds nothing.
LEMMA EmptyBox ==
  /\ \A k : ~Has(<<>>, k) /\ Once(<<>>, k)
  /\ \A k, set : Within(<<>>, k, set)
  /\ \A set : AllWithin(<<>>, set)
  BY DEF Has, Once, Within, AllWithin

\* What a message added to an inbox changes.
LEMMA Appended ==
  ASSUME NEW box \in Seq(Message), NEW m \in Message
  PROVE  /\ Append(box, m) \in Seq(Message)
         /\ \A k : Has(Append(box, m), k) <=> Has(box, k) \/ m.kind = k
         /\ \A k, b : Carries(Append(box, m), k, b) <=>
                        Carries(box, k, b) \/ (m.kind = k /\ b \in m.bundles)
         /\ \A k : Once(Append(box, m), k) <=>
                     Once(box, k) /\ (m.kind = k => ~Has(box, k))
         /\ \A k, set : Within(Append(box, m), k, set) <=>
                          Within(box, k, set) /\ (m.kind = k => m.bundles \subseteq set)
         /\ \A set : AllWithin(Append(box, m), set) <=>
                       AllWithin(box, set) /\ m.bundles \subseteq set
<1> DEFINE new == Append(box, m)
           last == Len(box) + 1
<1>1. /\ new \in Seq(Message)
      /\ DOMAIN box = 1..Len(box) /\ DOMAIN new = 1..last /\ Len(box) \in Nat
      /\ \A i \in DOMAIN box : new[i] = box[i]
      /\ new[last] = m
  OBVIOUS
<1>2. /\ \A i \in DOMAIN new : i \in DOMAIN box \/ i = last
      /\ \A i \in DOMAIN box : i \in DOMAIN new /\ i # last
      /\ last \in DOMAIN new
  BY <1>1
<1> HIDE DEF new, last
<1>3. \A k : Has(new, k) <=> Has(box, k) \/ m.kind = k
  BY <1>1, <1>2 DEF Has
<1>4. \A k, b : Carries(new, k, b) <=> Carries(box, k, b) \/ (m.kind = k /\ b \in m.bundles)
  BY <1>1, <1>2 DEF Carries
<1>5. \A k : Once(new, k) <=> Once(box, k) /\ (m.kind = k => ~Has(box, k))
  BY <1>1, <1>2 DEF Once, Has
<1>6. \A k, set : Within(new, k, set) <=>
                   Within(box, k, set) /\ (m.kind = k => m.bundles \subseteq set)
  BY <1>1, <1>2 DEF Within
<1>7. \A set : AllWithin(new, set) <=> AllWithin(box, set) /\ m.bundles \subseteq set
  BY <1>1, <1>2 DEF AllWithin
<1>8. QED
  BY <1>1, <1>3, <1>4, <1>5, <1>6, <1>7 DEF new

\* What an inbox holds is in its first message or in its rest.
LEMMA Taken ==
  ASSUME NEW box \in Seq(Message), box # <<>>
  PROVE  /\ Tail(box) \in Seq(Message) /\ Head(box) \in Message
         /\ \A k : Has(box, k) <=> Has(Tail(box), k) \/ Head(box).kind = k
         /\ \A k, b : Carries(box, k, b) <=>
                        \/ Carries(Tail(box), k, b)
                        \/ Head(box).kind = k /\ b \in Head(box).bundles
         /\ \A k : Once(box, k) <=>
                     Once(Tail(box), k) /\ (Head(box).kind = k => ~Has(Tail(box), k))
         /\ \A k, set : Within(box, k, set) <=>
              Within(Tail(box), k, set) /\ (Head(box).kind = k => Head(box).bundles \subseteq set)
         /\ \A set : AllWithin(box, set) <=>
                       AllWithin(Tail(box), set) /\ Head(box).bundles \subseteq set
         /\ \A k, b : Carries(Tail(box), k, b) => Has(Tail(box), k)
<1> DEFINE rest == Tail(box)
           m == Head(box)
           up(j) == j + 1
           down(i) == i - 1
<1>1. /\ rest \in Seq(Message) /\ m \in Message
      /\ Len(box) \in Nat /\ Len(box) >= 1
      /\ DOMAIN box = 1..Len(box) /\ DOMAIN rest = 1..(Len(box) - 1)
      /\ \A i \in DOMAIN rest : rest[i] = box[i + 1]
      /\ box[1] = m
  OBVIOUS
<1>2. /\ 1 \in DOMAIN box
      /\ \A j \in DOMAIN rest : up(j) \in DOMAIN box /\ up(j) # 1 /\ box[up(j)] = rest[j]
      /\ \A i \in DOMAIN box :
           i = 1 \/ (down(i) \in DOMAIN rest /\ box[i] = rest[down(i)] /\ up(down(i)) = i)
      /\ \A j \in DOMAIN rest : down(up(j)) = j
  BY <1>1
<1> HIDE DEF rest, m, up, down
<1>3. \A k : Has(box, k) <=> Has(rest, k) \/ m.kind = k
  BY <1>1, <1>2 DEF Has
<1>4. \A k, b : Carries(box, k, b) <=> Carries(rest, k, b) \/ (m.kind = k /\ b \in m.bundles)
  BY <1>1, <1>2 DEF Carries
<1>5. \A k : Once(box, k) <=> Once(rest, k) /\ (m.kind = k => ~Has(rest, k))
  BY <1>1, <1>2 DEF Once, Has
<1>6. \A k, set : Within(box, k, set) <=>
                   Within(rest, k, set) /\ (m.kind = k => m.bundles \subseteq set)
  BY <1>1, <1>2 DEF Within
<1>7. \A set : AllWithin(box, set) <=> AllWithin(rest, set) /\ m.bundles \subseteq set
  BY <1>1, <1>2 DEF AllWithin
<1>8. \A k, b : Carries(rest, k, b) => Has(rest, k)
  BY DEF Carries, Has
<1>9. QED
  BY <1>1, <1>3, <1>4, <1>5, <1>6, <1>7, <1>8 DEF rest, m

\* Send adds the message to the peer's inbox, if the websocket is open.
LEMMA SendEffect ==
  ASSUME TypeOK, NEW n \in Nodes, NEW m \in Message, Send(n, m)
  PROVE  /\ inbox' \in [Nodes -> Seq(Message)]
         /\ connected => /\ inbox'[n] = inbox[n]
                         /\ inbox'[Peer(n)] = Append(inbox[Peer(n)], m)
         /\ ~connected => inbox' = inbox
<1>1. Peer(n) \in Nodes /\ Peer(n) # n /\ inbox \in [Nodes -> Seq(Message)]
  BY Peers DEF TypeOK
<1>2. Append(inbox[Peer(n)], m) \in Seq(Message)
  BY <1>1
<1>3. QED
  BY <1>1, <1>2 DEF Send

\* Take leaves the rest of the inbox.
LEMMA TakeEffect ==
  ASSUME TypeOK, NEW n \in Nodes, inbox[n] # <<>>, Take(n)
  PROVE  /\ inbox' \in [Nodes -> Seq(Message)]
         /\ inbox'[n] = Tail(inbox[n])
         /\ inbox'[Peer(n)] = inbox[Peer(n)]
<1>1. Peer(n) \in Nodes /\ Peer(n) # n /\ inbox \in [Nodes -> Seq(Message)]
  BY Peers DEF TypeOK
<1>2. Tail(inbox[n]) \in Seq(Message)
  BY <1>1
<1>3. QED
  BY <1>1, <1>2 DEF Take

\* TakeAndAnswer does both.
LEMMA AnswerEffect ==
  ASSUME TypeOK, NEW n \in Nodes, inbox[n] # <<>>, NEW m \in Message, TakeAndAnswer(n, m)
  PROVE  /\ inbox' \in [Nodes -> Seq(Message)]
         /\ inbox'[n] = Tail(inbox[n])
         /\ inbox'[Peer(n)] = Append(inbox[Peer(n)], m)
<1>1. Peer(n) \in Nodes /\ Peer(n) # n /\ inbox \in [Nodes -> Seq(Message)]
  BY Peers DEF TypeOK
<1>2. Tail(inbox[n]) \in Seq(Message) /\ Append(inbox[Peer(n)], m) \in Seq(Message)
  BY <1>1
<1>3. QED
  BY <1>1, <1>2 DEF TakeAndAnswer

-----------------------------------------------------------------------------
(***************************************************************************)
(* Types.                                                                  *)
(***************************************************************************)

\* The messages a node sends are messages.
LEMMA SentMessages ==
  ASSUME TypeOK, NEW n \in Nodes
  PROVE  /\ \A k \in Kinds : Msg(k, content[n]) \in Message /\ Msg(k, {}) \in Message
         /\ \A k \in Kinds, b \in Bundles : Msg(k, {b}) \in Message
         /\ \A k \in Kinds, set \in SUBSET Bundles :
              /\ Msg(k, set) \in Message
              /\ Msg(k, set).kind = k /\ Msg(k, set).bundles = set
  BY Messages DEF TypeOK

\* What arrived is the first message.
LEMMA FirstMessage ==
  ASSUME TypeOK, NEW n \in Nodes, NEW k, Arrived(n, k)
  PROVE  /\ inbox[n] # <<>> /\ inbox[n] \in Seq(Message)
         /\ Head(inbox[n]) \in Message /\ Head(inbox[n]).kind = k
         /\ Head(inbox[n]).bundles \in SUBSET Bundles
<1>1. inbox[n] # <<>> /\ inbox[n] \in Seq(Message) /\ Head(inbox[n]).kind = k
  BY DEF TypeOK, Arrived
<1>2. Head(inbox[n]) \in Message
  BY <1>1
<1>3. QED
  BY <1>1, <1>2 DEF Message

\* The kinds of messages.
LEMMA KindsAre ==
  /\ "info" \in Kinds /\ "infoAnswer" \in Kinds /\ "pages" \in Kinds
  /\ "pagesAnswer" \in Kinds /\ "syncFinished" \in Kinds /\ "syncFinishedAnswer" \in Kinds
  /\ "docGet" \in Kinds /\ "docAnswer" \in Kinds /\ "save" \in Kinds
  BY DEF Kinds

\* The marks stay right while only content grows.
LEMMA MarksKept ==
  ASSUME TypeOK, UNCHANGED <<missing, lacking, lock, todo, asked, fetched>>,
         \A m \in Nodes : content[m] \subseteq content'[m]
  PROVE  \A m \in Nodes : DocsMarked(m)'
  BY DEF TypeOK, DocsMarked

\* The sync goroutine keeps the types.
LEMMA SyncGoroutineType ==
  ASSUME TypeOK, NEW n \in Nodes, SyncGoroutine(n)
  PROVE  TypeOK'
<1> USE DEF netVars, syncVars, docVars, saveVars
<1>1. CASE StartInfo(n)
  <2>1. inbox' \in [Nodes -> Seq(Message)]
    BY <1>1, SentMessages, KindsAre, SendEffect DEF StartInfo
  <2>2. \A m \in Nodes : DocsMarked(m)'
    BY <1>1, MarksKept DEF StartInfo
  <2>3. QED
    BY <1>1, <2>1, <2>2 DEF StartInfo, TypeOK, SyncSteps
<1>2. CASE AlreadySynced(n)
  <2>1. \A m \in Nodes : DocsMarked(m)'
    BY <1>2, MarksKept DEF AlreadySynced
  <2>2. QED
    BY <1>2, <2>1 DEF AlreadySynced, SwapsAfterSync, TypeOK, SyncSteps
<1>3. CASE NothingToDownload(n)
  <2>1. \A m \in Nodes : DocsMarked(m)'
    BY <1>3, MarksKept DEF NothingToDownload
  <2>2. QED
    BY <1>3, <2>1 DEF NothingToDownload, TypeOK, SyncSteps
<1>4. CASE AskPages(n)
  <2>1. inbox' \in [Nodes -> Seq(Message)]
    BY <1>4, SentMessages, KindsAre, SendEffect DEF AskPages
  <2>2. \A m \in Nodes : DocsMarked(m)'
    BY <1>4, MarksKept DEF AskPages
  <2>3. refused' \in [Nodes -> SUBSET Bundles]
    BY <1>4 DEF AskPages, TypeOK
  <2>4. QED
    BY <1>4, <2>1, <2>2, <2>3 DEF AskPages, TypeOK, SyncSteps
<1>5. CASE \E b \in Bundles : SaveDownloaded(n, b)
  <2>1. PICK b \in Bundles : SaveDownloaded(n, b)
    BY <1>5
  <2>2. UNCHANGED <<netVars, syncVars, swaps, lock, todo, asked, fetched, saveVars>>
    BY <2>1 DEF SaveDownloaded
  <2>3. /\ content' \in [Nodes -> SUBSET Bundles]
        /\ missing' \in [Nodes -> SUBSET Linked]
        /\ lacking' \in [Nodes -> SUBSET Linked]
    BY <2>1 DEF SaveDownloaded, TypeOK
  <2>4. \A m \in Nodes : DocsMarked(m)'
    <3>1. /\ content'[n] = content[n] \cup {b}
          /\ missing'[n] = missing[n] \cup ({b} \cap Linked)
          /\ lacking'[n] = lacking[n] \cup ({b} \cap Linked)
          /\ \A m \in Nodes \ {n} : /\ content'[m] = content[m] /\ missing'[m] = missing[m]
                                   /\ lacking'[m] = lacking[m]
      BY <2>1 DEF SaveDownloaded, TypeOK
    <3>2. QED
      BY <2>2, <3>1 DEF TypeOK, DocsMarked
  <2>5. QED
    BY <2>2, <2>3, <2>4 DEF TypeOK
<1>6. CASE Downloaded(n)
  <2>1. \A m \in Nodes : DocsMarked(m)'
    BY <1>6, MarksKept DEF Downloaded
  <2>2. QED
    BY <1>6, <2>1 DEF Downloaded, TypeOK, SyncSteps
<1>7. CASE Announce(n)
  <2>1. inbox' \in [Nodes -> Seq(Message)]
    BY <1>7, SentMessages, KindsAre, SendEffect DEF Announce
  <2>2. \A m \in Nodes : DocsMarked(m)'
    BY <1>7, MarksKept DEF Announce
  <2>3. QED
    BY <1>7, <2>1, <2>2 DEF Announce, TypeOK, SyncSteps
<1>8. CASE SyncEnds(n)
  <2>1. \A m \in Nodes : DocsMarked(m)'
    BY <1>8, MarksKept DEF SyncEnds
  <2>2. QED
    BY <1>8, <2>1 DEF SyncEnds, SwapsAfterSync, TypeOK, SyncSteps
<1>9. QED
  BY <1>1, <1>2, <1>3, <1>4, <1>5, <1>6, <1>7, <1>8 DEF SyncGoroutine

\* The reader keeps the types, if documents come only for what was asked.
LEMMA ReaderType ==
  ASSUME TypeOK, NEW n \in Nodes, Reader(n),
         Within(inbox[n], "docAnswer", asked[n])
  PROVE  TypeOK'
<1> USE DEF netVars, syncVars, docVars, saveVars
<1> DEFINE first == Head(inbox[n]).bundles
<1>1. CASE HandleInfo(n)
  <2>1. inbox' \in [Nodes -> Seq(Message)] /\ first \in SUBSET Bundles
    BY <1>1, FirstMessage, SentMessages, KindsAre, AnswerEffect DEF HandleInfo
  <2>2. \A m \in Nodes : DocsMarked(m)'
    BY <1>1, MarksKept DEF HandleInfo
  <2>3. QED
    BY <1>1, <2>1, <2>2 DEF HandleInfo, TypeOK
<1>2. CASE HandleInfoAnswer(n)
  <2>1. inbox' \in [Nodes -> Seq(Message)] /\ first \in SUBSET Bundles
    BY <1>2, FirstMessage, TakeEffect DEF HandleInfoAnswer
  <2>2. \A m \in Nodes : DocsMarked(m)'
    BY <1>2, MarksKept DEF HandleInfoAnswer
  <2>3. QED
    BY <1>2, <2>1, <2>2 DEF HandleInfoAnswer, TypeOK, SyncSteps
<1>3. CASE HandlePages(n)
  <2>1. inbox' \in [Nodes -> Seq(Message)]
    BY <1>3, FirstMessage, SentMessages, KindsAre, AnswerEffect DEF HandlePages
  <2>2. \A m \in Nodes : DocsMarked(m)'
    BY <1>3, MarksKept DEF HandlePages
  <2>3. QED
    BY <1>3, <2>1, <2>2 DEF HandlePages, TypeOK
<1>4. CASE HandlePagesAnswer(n)
  <2>1. inbox' \in [Nodes -> Seq(Message)] /\ first \in SUBSET Bundles
    BY <1>4, FirstMessage, TakeEffect DEF HandlePagesAnswer
  <2>2. \A m \in Nodes : DocsMarked(m)'
    BY <1>4, MarksKept DEF HandlePagesAnswer
  <2>3. QED
    BY <1>4, <2>1, <2>2 DEF HandlePagesAnswer, TypeOK, SyncSteps
<1>5. CASE HandleSyncFinished(n)
  <2>1. inbox' \in [Nodes -> Seq(Message)] /\ first \in SUBSET Bundles
    BY <1>5, FirstMessage, SentMessages, KindsAre, AnswerEffect DEF HandleSyncFinished
  <2>2. \A m \in Nodes : DocsMarked(m)'
    BY <1>5, MarksKept DEF HandleSyncFinished
  <2>3. peerHead' \in [Nodes -> SUBSET Bundles]
    BY <1>5, <2>1 DEF HandleSyncFinished, TypeOK
  <2>4. /\ hasSynced' \in [Nodes -> BOOLEAN] /\ sync' \in [Nodes -> SyncSteps]
        /\ swaps' \in [Nodes -> Nat]
    <3>1. CASE n = Dialler
      <4>1. /\ sync' = sync
            /\ hasSynced' = [hasSynced EXCEPT ![n] = @ \/ content[n] = first]
            /\ swaps' = IF content[n] = first THEN [swaps EXCEPT ![n] = @ + 1] ELSE swaps
        BY <1>5, <3>1 DEF HandleSyncFinished, DiallerFinished
      <4>2. hasSynced' \in [Nodes -> BOOLEAN]
        <5>1. hasSynced \in [Nodes -> BOOLEAN]
          BY DEF TypeOK
        <5>2. (hasSynced[n] \/ content[n] = first) \in BOOLEAN
          OBVIOUS
        <5>3. QED
          BY <4>1, <5>1, <5>2
      <4>3. swaps' \in [Nodes -> Nat]
        BY <4>1 DEF TypeOK
      <4>4. QED
        BY <4>1, <4>2, <4>3 DEF TypeOK
    <3>2. CASE n # Dialler
      BY <1>5, <3>2 DEF HandleSyncFinished, ListenerFinished, TypeOK, SyncSteps
    <3>3. QED
      BY <3>1, <3>2
  <2>5. QED
    BY <1>5, <2>1, <2>2, <2>3, <2>4 DEF HandleSyncFinished, TypeOK
<1>6. CASE HandleSyncFinishedAnswer(n)
  <2>1. inbox' \in [Nodes -> Seq(Message)]
    BY <1>6, FirstMessage, TakeEffect DEF HandleSyncFinishedAnswer
  <2>2. \A m \in Nodes : DocsMarked(m)'
    BY <1>6, MarksKept DEF HandleSyncFinishedAnswer
  <2>3. QED
    BY <1>6, <2>1, <2>2 DEF HandleSyncFinishedAnswer, TypeOK
<1>7. CASE HandleDocGet(n)
  <2>1. first \cap (content[n] \ lacking[n]) \in SUBSET Bundles
    BY <1>7, FirstMessage DEF HandleDocGet
  <2>2. inbox' \in [Nodes -> Seq(Message)]
    BY <1>7, <2>1, FirstMessage, SentMessages, KindsAre, AnswerEffect DEF HandleDocGet
  <2>3. \A m \in Nodes : DocsMarked(m)'
    BY <1>7, MarksKept DEF HandleDocGet
  <2>4. UNCHANGED <<connected, content, syncVars, docVars, saveVars>>
    BY <1>7 DEF HandleDocGet
  <2>5. QED
    BY <2>2, <2>3, <2>4 DEF TypeOK
<1>8. CASE HandleDocAnswer(n)
  <2>1. inbox' \in [Nodes -> Seq(Message)] /\ first \subseteq asked[n]
    BY <1>8, FirstMessage, TakeEffect, Taken DEF HandleDocAnswer
  <2>2. UNCHANGED <<connected, content, syncVars, missing, lacking, swaps, lock, saveVars>>
    BY <1>8 DEF HandleDocAnswer
  <2>3. first \subseteq Linked
    BY <2>1 DEF TypeOK
  <2>4. /\ fetched' \in [Nodes -> SUBSET Linked]
        /\ todo' \in [Nodes -> SUBSET Linked]
        /\ asked' \in [Nodes -> SUBSET Linked]
    BY <1>8, <2>3 DEF HandleDocAnswer, TypeOK
  <2>5. \A m \in Nodes : DocsMarked(m)'
    <3>1. /\ fetched'[n] = fetched[n] \cup first
          /\ todo'[n] = todo[n] \ asked[n] /\ asked'[n] = {}
          /\ \A m \in Nodes \ {n} : /\ fetched'[m] = fetched[m] /\ todo'[m] = todo[m]
                                   /\ asked'[m] = asked[m]
      BY <1>8 DEF HandleDocAnswer, TypeOK
    <3>2. DocsMarked(n)'
      BY <2>1, <2>2, <3>1 DEF TypeOK, DocsMarked
    <3>3. QED
      BY <2>2, <3>1, <3>2 DEF TypeOK, DocsMarked
  <2>6. QED
    BY <2>1, <2>2, <2>4, <2>5 DEF TypeOK
<1>9. CASE HandleSave(n)
  <2>1. inbox' \in [Nodes -> Seq(Message)] /\ first \in SUBSET Bundles
    BY <1>9, FirstMessage, TakeEffect DEF HandleSave
  <2>2. /\ content' \in [Nodes -> SUBSET Bundles] /\ refused' \in [Nodes -> SUBSET Bundles]
        /\ \A m \in Nodes : content[m] \subseteq content'[m]
    BY <1>9, <2>1 DEF HandleSave, TypeOK
  <2>3. \A m \in Nodes : DocsMarked(m)'
    BY <1>9, <2>2, MarksKept DEF HandleSave
  <2>4. QED
    BY <1>9, <2>1, <2>2, <2>3 DEF HandleSave, TypeOK
<1>10. QED
  BY <1>1, <1>2, <1>3, <1>4, <1>5, <1>6, <1>7, <1>8, <1>9 DEF Reader

\* So do the linked-document swaps, the Broadcaster and what comes from outside.
LEMMA OtherType ==
  ASSUME TypeOK, NEW n \in Nodes,
         \/ LinkedDocsSwap(n) \/ Broadcaster(n) \/ Disconnect
         \/ (\E b \in Bundles : SavePosted(n, b) \/ SaveSilently(n, b))
  PROVE  TypeOK'
<1> USE DEF netVars, syncVars, docVars, saveVars
<1>1. CASE StartDocs(n)
  <2>1. ~lock[n] /\ swaps[n] - 1 \in Nat
    BY <1>1 DEF StartDocs, MayWrite, TypeOK
  <2>2. UNCHANGED <<netVars, content, syncVars, missing, lacking, asked, fetched, saveVars>>
    BY <1>1 DEF StartDocs
  <2>3. /\ swaps' \in [Nodes -> Nat] /\ lock' \in [Nodes -> BOOLEAN]
        /\ todo' \in [Nodes -> SUBSET Linked]
        /\ todo'[n] = missing[n] /\ lock'[n]
        /\ \A m \in Nodes \ {n} : todo'[m] = todo[m] /\ lock'[m] = lock[m]
    BY <1>1, <2>1 DEF StartDocs, TypeOK
  <2>4. \A m \in Nodes : DocsMarked(m)'
    <3>1. DocsMarked(n)'
      BY <2>1, <2>2, <2>3 DEF TypeOK, DocsMarked
    <3>2. QED
      BY <2>2, <2>3, <3>1 DEF TypeOK, DocsMarked
  <2>5. QED
    BY <2>2, <2>3, <2>4 DEF TypeOK
<1>2. CASE \E b \in Bundles : AskDoc(n, b)
  <2>1. PICK b \in Bundles : AskDoc(n, b)
    BY <1>2
  <2>2. inbox' \in [Nodes -> Seq(Message)] /\ b \in todo[n] /\ b \in Linked
    BY <2>1, SentMessages, KindsAre, SendEffect DEF AskDoc, TypeOK
  <2>3. /\ asked' \in [Nodes -> SUBSET Linked] /\ asked'[n] = {b}
        /\ \A m \in Nodes \ {n} : asked'[m] = asked[m]
    BY <2>1, <2>2 DEF AskDoc, TypeOK
  <2>4. UNCHANGED <<connected, content, syncVars, missing, lacking, swaps, lock, todo, fetched,
                    saveVars>>
    BY <2>1 DEF AskDoc
  <2>5. \A m \in Nodes : DocsMarked(m)'
    BY <2>2, <2>3, <2>4 DEF TypeOK, DocsMarked
  <2>6. QED
    BY <2>2, <2>3, <2>4, <2>5 DEF TypeOK
<1>3. CASE FinishDocs(n)
  <2>1. UNCHANGED <<netVars, content, syncVars, swaps, todo, asked, saveVars>> /\ todo[n] = {}
    BY <1>3 DEF FinishDocs
  <2>2. /\ missing' \in [Nodes -> SUBSET Linked] /\ missing'[n] = {}
        /\ lacking' \in [Nodes -> SUBSET Linked] /\ lacking'[n] \subseteq lacking[n]
        /\ fetched' \in [Nodes -> SUBSET Linked] /\ fetched'[n] = {}
        /\ lock' \in [Nodes -> BOOLEAN]
        /\ \A m \in Nodes \ {n} : /\ missing'[m] = missing[m] /\ lacking'[m] = lacking[m]
                                 /\ fetched'[m] = fetched[m] /\ lock'[m] = lock[m]
    BY <1>3 DEF FinishDocs, TypeOK
  <2>3. \A m \in Nodes : DocsMarked(m)'
    BY <2>1, <2>2 DEF TypeOK, DocsMarked
  <2>4. QED
    BY <2>1, <2>2, <2>3 DEF TypeOK
<1>4. CASE Broadcaster(n)
  <2>1. PICK b \in Bundles : Broadcast(n, b)
    BY <1>4 DEF Broadcaster
  <2>2. inbox' \in [Nodes -> Seq(Message)]
    BY <2>1, SentMessages, KindsAre, SendEffect DEF Broadcast
  <2>3. \A m \in Nodes : DocsMarked(m)'
    BY <2>1, MarksKept DEF Broadcast
  <2>4. QED
    BY <2>1, <2>2, <2>3 DEF Broadcast, TypeOK
<1>5. CASE \E b \in Bundles : SavePosted(n, b)
  <2>1. PICK b \in Bundles : SavePosted(n, b)
    BY <1>5
  <2>2. /\ content' \in [Nodes -> SUBSET Bundles] /\ outbox' \in [Nodes -> SUBSET Bundles]
        /\ \A m \in Nodes : content[m] \subseteq content'[m]
        /\ saves' \in 0..MaxSaves
    BY <2>1, SyncAssumption DEF SavePosted, TypeOK
  <2>3. \A m \in Nodes : DocsMarked(m)'
    BY <2>1, <2>2, MarksKept DEF SavePosted
  <2>4. QED
    BY <2>1, <2>2, <2>3 DEF SavePosted, TypeOK
<1>s. CASE \E b \in Bundles : SaveSilently(n, b)
  <2>1. PICK b \in Bundles : SaveSilently(n, b)
    BY <1>s
  <2>2. UNCHANGED <<netVars, syncVars, swaps, lock, todo, asked, fetched, outbox, refused>>
    BY <2>1 DEF SaveSilently
  <2>3. /\ content' \in [Nodes -> SUBSET Bundles] /\ silent' \in [Nodes -> SUBSET Bundles]
        /\ missing' \in [Nodes -> SUBSET Linked]
        /\ lacking' \in [Nodes -> SUBSET Linked]
    BY <2>1 DEF SaveSilently, TypeOK
  <2>4. saves' \in 0..MaxSaves
    BY <2>1, SyncAssumption DEF SaveSilently, TypeOK
  <2>5. \A m \in Nodes : DocsMarked(m)'
    <3>1. /\ content'[n] = content[n] \cup {b}
          /\ missing'[n] = missing[n] \cup ({b} \cap Linked)
          /\ lacking'[n] = lacking[n] \cup ({b} \cap Linked)
          /\ \A m \in Nodes \ {n} : /\ content'[m] = content[m] /\ missing'[m] = missing[m]
                                   /\ lacking'[m] = lacking[m]
      BY <2>1 DEF SaveSilently, TypeOK
    <3>2. QED
      BY <2>2, <3>1 DEF TypeOK, DocsMarked
  <2>6. QED
    BY <2>2, <2>3, <2>4, <2>5 DEF TypeOK
<1>6. CASE Disconnect
  <2>1. \A m \in Nodes : DocsMarked(m)'
    BY <1>6, MarksKept DEF Disconnect
  <2>2. /\ connected' = FALSE /\ inbox' = [m \in Nodes |-> <<>>]
        /\ UNCHANGED <<content, syncVars, docVars, saveVars>>
    BY <1>6 DEF Disconnect
  <2>3. inbox' \in [Nodes -> Seq(Message)]
    BY <2>2
  <2>4. QED
    BY <2>1, <2>2, <2>3 DEF TypeOK
<1>7. QED
  BY <1>1, <1>2, <1>3, <1>4, <1>5, <1>s, <1>6 DEF LinkedDocsSwap

-----------------------------------------------------------------------------
(***************************************************************************)
(* What sending and reading do to the inboxes, in the invariant's terms.   *)
(***************************************************************************)

\* A message of that kind with those bundles was added to p's inbox.
SentTo(p, kind, set) ==
  /\ \A k : Has(inbox'[p], k) <=> Has(inbox[p], k) \/ k = kind
  /\ \A k, b : Carries(inbox'[p], k, b) <=> Carries(inbox[p], k, b) \/ (k = kind /\ b \in set)
  /\ \A k : Once(inbox'[p], k) <=> Once(inbox[p], k) /\ (k = kind => ~Has(inbox[p], k))
  /\ \A k, bound : Within(inbox'[p], k, bound) <=>
                     Within(inbox[p], k, bound) /\ (k = kind => set \subseteq bound)
  /\ \A bound : AllWithin(inbox'[p], bound) <=>
                  AllWithin(inbox[p], bound) /\ set \subseteq bound

\* The first message, of that kind and with those bundles, was taken off n's.
ReadBy(n, kind, set) ==
  /\ \A k : Has(inbox[n], k) <=> Has(inbox'[n], k) \/ k = kind
  /\ \A k, b : Carries(inbox[n], k, b) <=> Carries(inbox'[n], k, b) \/ (k = kind /\ b \in set)
  /\ \A k : Once(inbox[n], k) <=> Once(inbox'[n], k) /\ (k = kind => ~Has(inbox'[n], k))
  /\ \A k, bound : Within(inbox[n], k, bound) <=>
                     Within(inbox'[n], k, bound) /\ (k = kind => set \subseteq bound)
  /\ \A bound : AllWithin(inbox[n], bound) <=>
                  AllWithin(inbox'[n], bound) /\ set \subseteq bound
  /\ \A k, b : Carries(inbox'[n], k, b) => Has(inbox'[n], k)

\* Send, in the invariant's terms.
LEMMA Sending ==
  ASSUME TypeOK, connected, NEW n \in Nodes, NEW kind \in Kinds, NEW set \in SUBSET Bundles,
         Send(n, Msg(kind, set))
  PROVE  inbox'[n] = inbox[n] /\ SentTo(Peer(n), kind, set)
<1> DEFINE m == Msg(kind, set)
<1>1. m \in Message /\ m.kind = kind /\ m.bundles = set
  BY Messages
<1> HIDE DEF m
<1>2. inbox'[n] = inbox[n] /\ inbox'[Peer(n)] = Append(inbox[Peer(n)], m)
  BY <1>1, SendEffect DEF m
<1>3. inbox[Peer(n)] \in Seq(Message)
  BY Peers DEF TypeOK
<1>4. QED
  BY <1>1, <1>2, <1>3, Appended DEF SentTo

\* Take, in the invariant's terms.
LEMMA Reading ==
  ASSUME TypeOK, NEW n \in Nodes, NEW kind, Arrived(n, kind), Take(n)
  PROVE  ReadBy(n, kind, Head(inbox[n]).bundles) /\ inbox'[Peer(n)] = inbox[Peer(n)]
<1>1. inbox[n] # <<>> /\ inbox[n] \in Seq(Message) /\ Head(inbox[n]).kind = kind
  BY FirstMessage
<1>2. inbox'[n] = Tail(inbox[n]) /\ inbox'[Peer(n)] = inbox[Peer(n)]
  BY <1>1, TakeEffect
<1>3. QED
  BY <1>1, <1>2, Taken DEF ReadBy

\* TakeAndAnswer, in the invariant's terms.
LEMMA Answering ==
  ASSUME TypeOK, NEW n \in Nodes, NEW kind, Arrived(n, kind),
         NEW answer \in Kinds, NEW set \in SUBSET Bundles,
         TakeAndAnswer(n, Msg(answer, set))
  PROVE  ReadBy(n, kind, Head(inbox[n]).bundles) /\ SentTo(Peer(n), answer, set)
<1> DEFINE m == Msg(answer, set)
<1>1. m \in Message /\ m.kind = answer /\ m.bundles = set
  BY Messages
<1> HIDE DEF m
<1>2. inbox[n] # <<>> /\ inbox[n] \in Seq(Message) /\ Head(inbox[n]).kind = kind
  BY FirstMessage
<1>3. inbox'[n] = Tail(inbox[n]) /\ inbox'[Peer(n)] = Append(inbox[Peer(n)], m)
  BY <1>1, <1>2, AnswerEffect DEF m
<1>4. inbox[Peer(n)] \in Seq(Message)
  BY Peers DEF TypeOK
<1>5. ReadBy(n, kind, Head(inbox[n]).bundles)
  BY <1>2, <1>3, Taken DEF ReadBy
<1>6. SentTo(Peer(n), answer, set)
  BY <1>1, <1>3, <1>4, Appended DEF SentTo
<1>7. QED
  BY <1>5, <1>6

-----------------------------------------------------------------------------
(***************************************************************************)
(* The session's steps, while the websocket is open.                       *)
(***************************************************************************)

\* Steps that leave the exchange alone.
LEMMA QuietSession ==
  ASSUME Session, UNCHANGED <<inbox, sync, content, peerHead, got, asked, outbox, silent, refused>>
  PROVE  Session'
  BY DEF Session, Exchanges, InfoExchange, PagesExchange, DocExchange, OneExchange, UnderWay,
     Turns, Announced, Told, ToldTrue, Transfers, WillHave, Coming, Untold, Downloads, Ahead

\* The dialler's peer_info opens the one exchange of its kind.
LEMMA StartInfoSession ==
  ASSUME TypeOK, connected, Session, NEW n \in Nodes, StartInfo(n)
  PROVE  Session'
<1> DEFINE p == Peer(n)
<1>1. /\ sync[n] = "info" /\ Send(n, Msg("info", content[n]))
      /\ sync' = [sync EXCEPT ![n] = "waitInfo"]
      /\ UNCHANGED <<content, peerHead, got, asked, outbox, silent, refused>>
  BY DEF StartInfo, docVars, saveVars
<1>2. sync'[n] = "waitInfo" /\ sync'[p] = sync[p] /\ content[n] \in SUBSET Bundles
  BY <1>1, Peers DEF TypeOK
<1>3. n = Dialler /\ p = Listener
  BY <1>1, Peers DEF Session, Turns
<1>4. inbox'[n] = inbox[n] /\ SentTo(p, "info", content[n])
  BY <1>1, <1>2, KindsAre, Sending
<1>5. Exchanges'
  BY <1>1, <1>2, <1>3, <1>4, Peers
     DEF Session, Exchanges, InfoExchange, PagesExchange, DocExchange, OneExchange, UnderWay, SentTo
<1>6. Turns'
  BY <1>1, <1>2, <1>3, <1>4, Peers DEF Session, Turns, Announced, SentTo
<1>7. Told'
  BY <1>1, <1>3, <1>4, Peers DEF Session, Told, ToldTrue, SentTo
<1>8. Transfers'
  BY <1>1, <1>2, <1>3, <1>4, Peers
     DEF Session, Transfers, WillHave, Coming, Untold, Downloads, Ahead, Announced, SentTo
<1>9. QED
  BY <1>5, <1>6, <1>7, <1>8 DEF Session

\* What n had to expect from a download comes with the answer.
LEMMA AskPagesSession ==
  ASSUME TypeOK, connected, Session, NEW n \in Nodes, AskPages(n)
  PROVE  Session'
<1> DEFINE p == Peer(n)
<1>1. /\ sync[n] = "sync" /\ Send(n, Msg("pages", {}))
      /\ sync' = [sync EXCEPT ![n] = "waitPages"]
      /\ UNCHANGED <<content, peerHead, got, asked, outbox, silent>>
      /\ \A m \in Nodes : m # n => refused'[m] = refused[m]
  BY DEF AskPages, docVars, saveVars, TypeOK
<1>2. sync'[n] = "waitPages" /\ sync'[p] = sync[p]
  BY <1>1, Peers DEF TypeOK
<1>3. inbox'[n] = inbox[n] /\ SentTo(p, "pages", {})
  BY <1>1, KindsAre, Sending
<1>4. Exchanges'
  BY <1>1, <1>2, <1>3, Peers
     DEF Session, Exchanges, InfoExchange, PagesExchange, DocExchange, OneExchange, UnderWay, SentTo
<1>5. Turns'
  BY <1>1, <1>2, <1>3, Peers DEF Session, Turns, Announced, SentTo
<1>6. Told'
  BY <1>1, <1>3, Peers DEF Session, Told, ToldTrue, SentTo
<1>7. Transfers'
  BY <1>1, <1>2, <1>3, Peers
     DEF Session, Transfers, WillHave, Coming, Untold, Downloads, Ahead, Announced, SentTo
<1>8. QED
  BY <1>4, <1>5, <1>6, <1>7 DEF Session

\* peer_syncFinished tells the listener of all that the dialler has.
LEMMA AnnounceSession ==
  ASSUME TypeOK, connected, Session, NEW n \in Nodes, Announce(n)
  PROVE  Session'
<1> DEFINE p == Peer(n)
<1>1. /\ sync[n] = "announce" /\ Send(n, Msg("syncFinished", content[n]))
      /\ sync' = [sync EXCEPT ![n] = "announced"]
      /\ UNCHANGED <<content, peerHead, got, asked, outbox, silent, refused>>
  BY DEF Announce, docVars, saveVars
<1>2. sync'[n] = "announced" /\ sync'[p] = sync[p] /\ content[n] \in SUBSET Bundles
  BY <1>1, Peers DEF TypeOK
<1>3. inbox'[n] = inbox[n] /\ SentTo(p, "syncFinished", content[n])
  BY <1>1, <1>2, KindsAre, Sending
<1>4. Exchanges'
  BY <1>1, <1>2, <1>3, Peers
     DEF Session, Exchanges, InfoExchange, PagesExchange, DocExchange, OneExchange, UnderWay, SentTo
<1>5. Turns'
  BY <1>1, <1>2, <1>3, Peers DEF Session, Turns, Announced, SentTo
<1>6. Told'
  BY <1>1, <1>3, Peers DEF Session, Told, ToldTrue, SentTo
<1>7. Transfers'
  BY <1>1, <1>2, <1>3, Peers
     DEF Session, Transfers, WillHave, Coming, Untold, Downloads, Ahead, Announced, SentTo
<1>8. QED
  BY <1>4, <1>5, <1>6, <1>7 DEF Session

\* The sync goroutine's steps that send nothing.
LEMMA SyncTurnSession ==
  ASSUME TypeOK, Session, NEW n \in Nodes,
         AlreadySynced(n) \/ NothingToDownload(n) \/ Downloaded(n) \/ SyncEnds(n)
  PROVE  Session'
<1> DEFINE p == Peer(n)
<1> DEFINE SyncedWithPeer == sync[n] = "sync" /\ content[n] = peerHead[n]
<1>1. /\ UNCHANGED <<inbox, content, peerHead, asked, outbox, silent, refused>>
      /\ sync[n] \in {"sync", "saving", "announced"}
      /\ sync[n] = "sync" => peerHead[n] \subseteq content[n]
      /\ sync[n] = "saving" => got[n] \subseteq content[n]
  BY DEF AlreadySynced, NothingToDownload, Downloaded, SyncEnds, netVars, docVars, saveVars
<1>2. /\ sync'[n] \in {"announce", "done"} /\ sync'[p] = sync[p]
      /\ got'[n] \subseteq got[n] /\ got'[p] = got[p]
      /\ sync'[n] = "done" => (sync[n] = "announced" \/ SyncedWithPeer)
      /\ sync[n] = "announced" => sync'[n] = "done"
  <2>1. CASE AlreadySynced(n)
    BY <2>1, Peers DEF AlreadySynced, TypeOK
  <2>2. CASE NothingToDownload(n)
    BY <2>2, Peers DEF NothingToDownload, TypeOK
  <2>3. CASE Downloaded(n)
    BY <2>3, Peers DEF Downloaded, TypeOK
  <2>4. CASE SyncEnds(n)
    BY <2>4, Peers DEF SyncEnds, TypeOK
  <2>5. QED
    BY <2>1, <2>2, <2>3, <2>4
<1>3. Exchanges'
  BY <1>1, <1>2, Peers
     DEF Session, Exchanges, InfoExchange, PagesExchange, DocExchange, OneExchange, UnderWay
<1>4. Turns'
  BY <1>1, <1>2, Peers DEF Session, Turns, Announced
<1>5. Told'
  BY <1>1, <1>2, Peers DEF Session, Told, ToldTrue
<1>6. Transfers'
  <2>1. WillHave(n)'
    BY <1>1, <1>2, Peers
       DEF Session, Transfers, WillHave, Coming, Untold, Downloads, Ahead, Announced
  <2>2. WillHave(p)'
    BY <1>1, <1>2, Peers
       DEF Session, Told, ToldTrue, Transfers, WillHave, Coming, Untold, Downloads, Ahead, Announced
  <2>3. QED
    BY <2>1, <2>2, Peers DEF Transfers
<1>7. QED
  BY <1>3, <1>4, <1>5, <1>6 DEF Session

\* What is within a set is within a larger one.
LEMMA WithinGrows ==
  ASSUME NEW box, NEW small, NEW large, small \subseteq large, AllWithin(box, small)
  PROVE  AllWithin(box, large)
  BY DEF AllWithin

\* A downloaded bundle is one that the peer has.
LEMMA SaveDownloadedSession ==
  ASSUME TypeOK, Session, NEW n \in Nodes, NEW b \in Bundles, SaveDownloaded(n, b)
  PROVE  Session'
<1> DEFINE p == Peer(n)
<1>1. /\ content' = [content EXCEPT ![n] = @ \cup {b}] /\ b \in got[n]
      /\ UNCHANGED <<inbox, sync, peerHead, got, asked, outbox, silent, refused>>
  BY DEF SaveDownloaded, netVars, syncVars, saveVars
<1>2. content'[n] = content[n] \cup {b} /\ content'[p] = content[p]
  BY <1>1, Peers DEF TypeOK
<1>3. b \in content[p]
  BY <1>1, Peers DEF Session, Told, ToldTrue
<1>4. Exchanges' /\ Turns'
  BY <1>1 DEF Session, Exchanges, InfoExchange, PagesExchange, DocExchange, OneExchange,
              UnderWay, Turns, Announced
<1>5. Told'
  BY <1>1, <1>2, WithinGrows, Peers DEF Session, Told, ToldTrue
<1>6. Transfers'
  BY <1>1, <1>2, <1>3, Peers
     DEF Session, Transfers, WillHave, Coming, Untold, Downloads, Ahead, Announced
<1>7. QED
  BY <1>4, <1>5, <1>6 DEF Session

\* A bundle that another session's peer posts is put in the Broadcaster's outbox.
LEMMA SavePostedSession ==
  ASSUME TypeOK, Session, NEW n \in Nodes, NEW b \in Bundles, SavePosted(n, b)
  PROVE  Session'
<1> DEFINE p == Peer(n)
<1>1. /\ content' = [content EXCEPT ![n] = @ \cup {b}]
      /\ outbox' = [outbox EXCEPT ![n] = @ \cup {b}]
      /\ UNCHANGED <<inbox, sync, peerHead, got, asked, silent, refused>>
  BY DEF SavePosted, netVars, syncVars, docVars
<1>2. /\ content'[n] = content[n] \cup {b} /\ content'[p] = content[p]
      /\ outbox'[n] = outbox[n] \cup {b} /\ outbox'[p] = outbox[p]
  BY <1>1, Peers DEF TypeOK
<1>3. Exchanges' /\ Turns'
  BY <1>1 DEF Session, Exchanges, InfoExchange, PagesExchange, DocExchange, OneExchange,
              UnderWay, Turns, Announced
<1>4. Told'
  BY <1>1, <1>2, WithinGrows, Peers DEF Session, Told, ToldTrue
<1>5. Transfers'
  BY <1>1, <1>2, Peers
     DEF Session, Transfers, WillHave, Coming, Untold, Downloads, Ahead, Announced
<1>6. QED
  BY <1>3, <1>4, <1>5 DEF Session

\* A bundle that another session downloads is told to nobody.
LEMMA SaveSilentlySession ==
  ASSUME TypeOK, Session, NEW n \in Nodes, NEW b \in Bundles, SaveSilently(n, b)
  PROVE  Session'
<1> DEFINE p == Peer(n)
<1>1. /\ content' = [content EXCEPT ![n] = @ \cup {b}]
      /\ silent' = [silent EXCEPT ![n] = @ \cup {b}]
      /\ UNCHANGED <<inbox, sync, peerHead, got, asked, outbox, refused>>
  BY DEF SaveSilently, netVars, syncVars
<1>2. /\ content'[n] = content[n] \cup {b} /\ content'[p] = content[p]
      /\ silent'[n] = silent[n] \cup {b} /\ silent'[p] = silent[p]
  BY <1>1, Peers DEF TypeOK
<1>3. Exchanges' /\ Turns'
  BY <1>1 DEF Session, Exchanges, InfoExchange, PagesExchange, DocExchange, OneExchange,
              UnderWay, Turns, Announced
<1>4. Told'
  BY <1>1, <1>2, WithinGrows, Peers DEF Session, Told, ToldTrue
<1>5. Transfers'
  BY <1>1, <1>2, Peers
     DEF Session, Transfers, WillHave, Coming, Untold, Downloads, Ahead, Announced
<1>6. QED
  BY <1>3, <1>4, <1>5 DEF Session

\* A bundle that leaves the outbox is on its way to the peer.
LEMMA BroadcastSession ==
  ASSUME TypeOK, connected, Session, NEW n \in Nodes, NEW b \in Bundles, Broadcast(n, b)
  PROVE  Session'
<1> DEFINE p == Peer(n)
<1>1. /\ b \in outbox[n] /\ Send(n, Msg("save", {b}))
      /\ outbox' = [outbox EXCEPT ![n] = @ \ {b}]
      /\ UNCHANGED <<sync, content, peerHead, got, asked, silent, refused>>
  BY DEF Broadcast, syncVars, docVars
<1>2. outbox'[n] = outbox[n] \ {b} /\ outbox'[p] = outbox[p]
  BY <1>1, Peers DEF TypeOK
<1>3. inbox'[n] = inbox[n] /\ SentTo(p, "save", {b})
  BY <1>1, KindsAre, Sending
<1>4. Exchanges'
  BY <1>1, <1>3, Peers
     DEF Session, Exchanges, InfoExchange, PagesExchange, DocExchange, OneExchange, UnderWay, SentTo
<1>5. Turns'
  BY <1>1, <1>3, Peers DEF Session, Turns, Announced, SentTo
<1>6. Told'
  BY <1>1, <1>2, <1>3, Peers DEF Session, Told, ToldTrue, SentTo
<1>7. Transfers'
  BY <1>1, <1>2, <1>3, Peers
     DEF Session, Transfers, WillHave, Coming, Untold, Downloads, Ahead, Announced, SentTo
<1>8. QED
  BY <1>4, <1>5, <1>6, <1>7 DEF Session

\* A swap asks for one document at a time.
LEMMA AskDocSession ==
  ASSUME TypeOK, connected, Session, NEW n \in Nodes, NEW b \in Bundles, AskDoc(n, b)
  PROVE  Session'
<1> DEFINE p == Peer(n)
<1>1. /\ asked[n] = {} /\ b \in todo[n] /\ Send(n, Msg("docGet", {b}))
      /\ asked' = [asked EXCEPT ![n] = {b}]
      /\ UNCHANGED <<sync, content, peerHead, got, outbox, silent, refused>>
  BY DEF AskDoc, syncVars, saveVars
<1>2. asked'[n] = {b} /\ asked'[p] = asked[p] /\ b \in content[n]
  BY <1>1, Peers DEF TypeOK, DocsMarked
<1>3. inbox'[n] = inbox[n] /\ SentTo(p, "docGet", {b})
  BY <1>1, KindsAre, Sending
<1>4. Exchanges'
  <2>1. InfoExchange(n)' /\ PagesExchange(n)' /\ InfoExchange(p)' /\ PagesExchange(p)'
    BY <1>1, <1>3, Peers
       DEF Session, Exchanges, InfoExchange, PagesExchange, OneExchange, UnderWay, SentTo
  <2>2. DocExchange(n)'
    <3>1. ~Has(inbox[p], "docGet") /\ ~Has(inbox[n], "docAnswer")
      BY <1>1 DEF Session, Exchanges, DocExchange, UnderWay
    <3>3. Within(inbox[n], "docAnswer", {b}) /\ Within(inbox[p], "docGet", {b})
      BY <3>1 DEF Has, Within
    <3>4. QED
      BY <1>1, <1>2, <1>3, <3>1, <3>3, Peers
         DEF Session, Exchanges, DocExchange, OneExchange, UnderWay, SentTo
  <2>3. DocExchange(p)'
    BY <1>1, <1>2, <1>3, Peers
       DEF Session, Exchanges, DocExchange, OneExchange, UnderWay, SentTo
  <2>4. QED
    BY <2>1, <2>2, <2>3, Peers DEF Exchanges
<1>5. Turns'
  BY <1>1, <1>3, Peers DEF Session, Turns, Announced, SentTo
<1>6. Told'
  BY <1>1, <1>2, <1>3, Peers DEF Session, Told, ToldTrue, SentTo
<1>7. Transfers'
  BY <1>1, <1>2, <1>3, Peers
     DEF Session, Transfers, WillHave, Coming, Untold, Downloads, Ahead, Announced, SentTo
<1>8. QED
  BY <1>4, <1>5, <1>6, <1>7 DEF Session

-----------------------------------------------------------------------------
(***************************************************************************)
(* The reader's steps, while the websocket is open.                        *)
(***************************************************************************)

\* peer_info comes before the listener's turn.
LEMMA HandleInfoSession ==
  ASSUME TypeOK, connected, Session, NEW n \in Nodes, HandleInfo(n)
  PROVE  Session'
<1> DEFINE p == Peer(n)
           first == Head(inbox[n]).bundles
<1>1. /\ Arrived(n, "info") /\ TakeAndAnswer(n, Msg("infoAnswer", content[n]))
      /\ peerHead' = [peerHead EXCEPT ![n] = first]
      /\ UNCHANGED <<sync, content, got, asked, outbox, silent, refused>>
  BY DEF HandleInfo, docVars, saveVars
<1>2. peerHead'[n] = first /\ peerHead'[p] = peerHead[p] /\ content[n] \in SUBSET Bundles
  BY <1>1, Peers DEF TypeOK
<1>3. ReadBy(n, "info", first) /\ SentTo(p, "infoAnswer", content[n])
  BY <1>1, <1>2, KindsAre, Answering
<1>4. Has(inbox[n], "info")
  BY <1>3 DEF ReadBy
<1>5. n = Listener /\ p = Dialler /\ sync[p] = "waitInfo"
  BY <1>4, Peers DEF Session, Exchanges, InfoExchange, UnderWay, Turns
<1>6. sync[n] = "idle"
  BY <1>5, Peers DEF Session, Turns, Announced
<1>7. Exchanges'
  BY <1>1, <1>3, Peers
     DEF Session, Exchanges, InfoExchange, PagesExchange, DocExchange, OneExchange,
         UnderWay, SentTo, ReadBy
<1>8. Turns'
  BY <1>1, <1>3, <1>5, Peers DEF Session, Turns, Announced, SentTo, ReadBy
<1>9. Told'
  BY <1>1, <1>2, <1>3, Peers DEF Session, Told, ToldTrue, SentTo, ReadBy
<1>10. Transfers'
  <2>1. WillHave(n)'
    BY <1>1, <1>2, <1>3, <1>5, <1>6, Peers
       DEF Session, Transfers, WillHave, Coming, Untold, Downloads, Ahead, Announced, SentTo, ReadBy
  <2>2. WillHave(p)'
    BY <1>1, <1>2, <1>3, <1>5, <1>6, Peers
       DEF Session, Transfers, WillHave, Coming, Untold, Downloads, Ahead, Announced, SentTo, ReadBy
  <2>3. QED
    BY <2>1, <2>2, Peers DEF Transfers
<1>11. QED
  BY <1>7, <1>8, <1>9, <1>10 DEF Session

\* Its answer tells the dialler of all that the listener had then.
LEMMA HandleInfoAnswerSession ==
  ASSUME TypeOK, connected, Session, NEW n \in Nodes, HandleInfoAnswer(n)
  PROVE  Session'
<1> DEFINE p == Peer(n)
           first == Head(inbox[n]).bundles
<1>1. /\ Arrived(n, "infoAnswer") /\ Take(n)
      /\ peerHead' = [peerHead EXCEPT ![n] = first]
      /\ sync' = [sync EXCEPT ![n] = "sync"]
      /\ UNCHANGED <<content, got, asked, outbox, silent, refused>>
  BY DEF HandleInfoAnswer, docVars, saveVars
<1>2. /\ peerHead'[n] = first /\ peerHead'[p] = peerHead[p]
      /\ sync'[n] = "sync" /\ sync'[p] = sync[p]
  BY <1>1, Peers DEF TypeOK
<1>3. ReadBy(n, "infoAnswer", first) /\ inbox'[p] = inbox[p]
  BY <1>1, Reading
<1>4. Has(inbox[n], "infoAnswer")
  BY <1>3 DEF ReadBy
<1>5. n = Dialler /\ p = Listener /\ sync[n] = "waitInfo"
  BY <1>4, Peers DEF Session, Exchanges, InfoExchange, UnderWay, Turns
<1>6. Exchanges'
  BY <1>1, <1>2, <1>3, <1>4, <1>5, Peers
     DEF Session, Exchanges, InfoExchange, PagesExchange, DocExchange, OneExchange, UnderWay, ReadBy
<1>7. Turns'
  BY <1>1, <1>2, <1>3, <1>5, Peers DEF Session, Turns, Announced, ReadBy
<1>8. Told'
  BY <1>1, <1>2, <1>3, Peers DEF Session, Told, ToldTrue, ReadBy
<1>9. Transfers'
  <2>1. ~Has(inbox[p], "info") /\ ~Has(inbox'[n], "infoAnswer")
    BY <1>3, <1>4 DEF Session, Exchanges, InfoExchange, OneExchange, ReadBy
  <2>2. WillHave(n)'
    BY <1>1, <1>2, <1>3, <1>5, <2>1, Peers
       DEF Session, Transfers, WillHave, Coming, Untold, Downloads, Ahead, Announced, ReadBy
  <2>3. WillHave(p)'
    BY <1>1, <1>2, <1>3, <1>5, Peers
       DEF Session, Transfers, WillHave, Coming, Untold, Downloads, Ahead, Announced, ReadBy
  <2>4. QED
    BY <2>2, <2>3, Peers DEF Transfers
<1>10. QED
  BY <1>6, <1>7, <1>8, <1>9 DEF Session

\* The pages have all that the node has when it answers.
LEMMA HandlePagesSession ==
  ASSUME TypeOK, connected, Session, NEW n \in Nodes, HandlePages(n)
  PROVE  Session'
<1> DEFINE p == Peer(n)
           first == Head(inbox[n]).bundles
<1>1. /\ Arrived(n, "pages") /\ TakeAndAnswer(n, Msg("pagesAnswer", content[n]))
      /\ UNCHANGED <<sync, content, peerHead, got, asked, outbox, refused>>
      /\ \A m \in Nodes : m # n => silent'[m] = silent[m]
  BY DEF HandlePages, syncVars, docVars, TypeOK
<1>2. content[n] \in SUBSET Bundles
  BY DEF TypeOK
<1>3. ReadBy(n, "pages", first) /\ SentTo(p, "pagesAnswer", content[n])
  BY <1>1, <1>2, KindsAre, Answering
<1>4. Exchanges'
  BY <1>1, <1>3, Peers
     DEF Session, Exchanges, InfoExchange, PagesExchange, DocExchange, OneExchange,
         UnderWay, SentTo, ReadBy
<1>5. Turns'
  BY <1>1, <1>3, Peers DEF Session, Turns, Announced, SentTo, ReadBy
<1>6. Told'
  BY <1>1, <1>3, Peers DEF Session, Told, ToldTrue, SentTo, ReadBy
<1>7. Transfers'
  <2>1. WillHave(n)'
    BY <1>1, <1>3, Peers
       DEF Session, Transfers, WillHave, Coming, Untold, Downloads, Ahead, Announced, SentTo, ReadBy
  <2>2. WillHave(p)'
    <3>1. Has(inbox[n], "pages")
      BY <1>3 DEF ReadBy
    <3>2. sync[p] = "waitPages"
      BY <3>1, Peers DEF Session, Exchanges, PagesExchange, UnderWay
    <3>3. ASSUME NEW b \in content[n] PROVE Downloads(p, b)'
      BY <1>1, <1>3, <3>2 DEF Downloads, SentTo
    <3>4. QED
      BY <1>1, <3>3, Peers DEF WillHave
  <2>3. QED
    BY <2>1, <2>2, Peers DEF Transfers
<1>8. QED
  BY <1>4, <1>5, <1>6, <1>7 DEF Session

\* ... and the peer downloads them.
LEMMA HandlePagesAnswerSession ==
  ASSUME TypeOK, connected, Session, NEW n \in Nodes, HandlePagesAnswer(n)
  PROVE  Session'
<1> DEFINE p == Peer(n)
           first == Head(inbox[n]).bundles
<1>1. /\ Arrived(n, "pagesAnswer") /\ Take(n)
      /\ got' = [got EXCEPT ![n] = first]
      /\ sync' = [sync EXCEPT ![n] = "saving"]
      /\ UNCHANGED <<content, peerHead, asked, outbox, silent, refused>>
  BY DEF HandlePagesAnswer, docVars, saveVars
<1>2. /\ got'[n] = first /\ got'[p] = got[p]
      /\ sync'[n] = "saving" /\ sync'[p] = sync[p]
  BY <1>1, Peers DEF TypeOK
<1>3. ReadBy(n, "pagesAnswer", first) /\ inbox'[p] = inbox[p]
  BY <1>1, Reading
<1>4. Has(inbox[n], "pagesAnswer")
  BY <1>3 DEF ReadBy
<1>5. sync[n] = "waitPages"
  BY <1>4 DEF Session, Exchanges, PagesExchange, UnderWay
<1>6. Exchanges'
  BY <1>1, <1>2, <1>3, <1>4, <1>5, Peers
     DEF Session, Exchanges, InfoExchange, PagesExchange, DocExchange, OneExchange, UnderWay, ReadBy
<1>7. Turns'
  BY <1>1, <1>2, <1>3, <1>5, Peers DEF Session, Turns, Announced, ReadBy
<1>8. Told'
  BY <1>1, <1>2, <1>3, Peers DEF Session, Told, ToldTrue, ReadBy
<1>9. Transfers'
  <2>1. ~Has(inbox[p], "pages") /\ ~Has(inbox'[n], "pagesAnswer")
    BY <1>3, <1>4 DEF Session, Exchanges, PagesExchange, OneExchange, ReadBy
  <2>2. WillHave(n)'
    BY <1>1, <1>2, <1>3, <1>5, <2>1, Peers
       DEF Session, Transfers, WillHave, Coming, Untold, Downloads, Ahead, Announced, ReadBy
  <2>3. WillHave(p)'
    BY <1>1, <1>2, <1>3, <1>5, Peers
       DEF Session, Transfers, WillHave, Coming, Untold, Downloads, Ahead, Announced, ReadBy
  <2>4. QED
    BY <2>2, <2>3, Peers DEF Transfers
<1>10. QED
  BY <1>6, <1>7, <1>8, <1>9 DEF Session

\* peer_syncFinished begins the listener's turn, or finds the dialler's past.
LEMMA HandleSyncFinishedSession ==
  ASSUME TypeOK, connected, Session, NEW n \in Nodes, HandleSyncFinished(n)
  PROVE  Session'
<1> DEFINE p == Peer(n)
           first == Head(inbox[n]).bundles
<1>1. /\ Arrived(n, "syncFinished") /\ TakeAndAnswer(n, Msg("syncFinishedAnswer", {}))
      /\ peerHead' = [peerHead EXCEPT ![n] = first]
      /\ sync' = IF n = Dialler THEN sync ELSE [sync EXCEPT ![n] = "sync"]
      /\ UNCHANGED <<content, got, asked, outbox, silent, refused>>
  BY DEF HandleSyncFinished, DiallerFinished, ListenerFinished, saveVars
<1>2. /\ peerHead'[n] = first /\ peerHead'[p] = peerHead[p]
      /\ sync'[n] = (IF n = Dialler THEN sync[n] ELSE "sync") /\ sync'[p] = sync[p]
  BY <1>1, Peers DEF TypeOK
<1>3. ReadBy(n, "syncFinished", first) /\ SentTo(p, "syncFinishedAnswer", {})
  BY <1>1, KindsAre, Answering
<1>4. Has(inbox[n], "syncFinished")
  BY <1>3 DEF ReadBy
<1>5. /\ n = Listener => sync[n] = "idle" /\ ~Has(inbox'[n], "syncFinished")
      /\ Announced(Dialler)
  <2>1. n = Listener => sync[n] = "idle" /\ ~Has(inbox'[n], "syncFinished")
    BY <1>3, <1>4 DEF Session, Turns, ReadBy
  <2>2. Announced(Dialler)
    BY <1>4, Peers DEF Session, Turns, Announced
  <2>3. QED
    BY <2>1, <2>2
<1>6. Exchanges'
  BY <1>1, <1>2, <1>3, <1>5, Peers
     DEF Session, Exchanges, InfoExchange, PagesExchange, DocExchange, OneExchange,
         UnderWay, SentTo, ReadBy
<1>7. Turns'
  BY <1>1, <1>2, <1>3, <1>5, Peers DEF Session, Turns, Announced, SentTo, ReadBy
<1>8. Told'
  BY <1>1, <1>2, <1>3, Peers DEF Session, Told, ToldTrue, SentTo, ReadBy
<1>9. Transfers'
  <2>1. WillHave(n)'
    <3>1. CASE n = Dialler
      BY <3>1, <1>1, <1>2, <1>3, <1>5, Peers
         DEF Session, Transfers, WillHave, Coming, Untold, Downloads, Ahead, Announced, SentTo, ReadBy
    <3>2. CASE n = Listener
      BY <3>2, <1>1, <1>2, <1>3, <1>5, Peers
         DEF Session, Transfers, WillHave, Coming, Untold, Downloads, Ahead, Announced, SentTo, ReadBy
    <3>3. QED
      BY <3>1, <3>2, Peers
  <2>2. WillHave(p)'
    BY <1>1, <1>2, <1>3, <1>5, Peers
       DEF Session, Transfers, WillHave, Coming, Untold, Downloads, Ahead, Announced, SentTo, ReadBy
  <2>3. QED
    BY <2>1, <2>2, Peers DEF Transfers
<1>10. QED
  BY <1>6, <1>7, <1>8, <1>9 DEF Session

\* Its answer changes nothing of the exchange.
LEMMA HandleSyncFinishedAnswerSession ==
  ASSUME TypeOK, connected, Session, NEW n \in Nodes, HandleSyncFinishedAnswer(n)
  PROVE  Session'
<1> DEFINE p == Peer(n)
           first == Head(inbox[n]).bundles
<1>1. /\ Arrived(n, "syncFinishedAnswer") /\ Take(n)
      /\ UNCHANGED <<sync, content, peerHead, got, asked, outbox, silent, refused>>
  BY DEF HandleSyncFinishedAnswer, syncVars, saveVars
<1>2. ReadBy(n, "syncFinishedAnswer", first) /\ inbox'[p] = inbox[p]
  BY <1>1, Reading
<1>3. Exchanges'
  BY <1>1, <1>2, Peers
     DEF Session, Exchanges, InfoExchange, PagesExchange, DocExchange, OneExchange, UnderWay, ReadBy
<1>4. Turns'
  BY <1>1, <1>2, Peers DEF Session, Turns, Announced, ReadBy
<1>5. Told'
  BY <1>1, <1>2, Peers DEF Session, Told, ToldTrue, ReadBy
<1>6. Transfers'
  BY <1>1, <1>2, Peers
     DEF Session, Transfers, WillHave, Coming, Untold, Downloads, Ahead, Announced, ReadBy
<1>7. QED
  BY <1>3, <1>4, <1>5, <1>6 DEF Session

\* doc_get is answered, with the document or without.
LEMMA HandleDocGetSession ==
  ASSUME TypeOK, connected, Session, NEW n \in Nodes, HandleDocGet(n)
  PROVE  Session'
<1> DEFINE p == Peer(n)
           first == Head(inbox[n]).bundles
           held == first \cap (content[n] \ lacking[n])
<1>1. /\ Arrived(n, "docGet") /\ TakeAndAnswer(n, Msg("docAnswer", held))
      /\ UNCHANGED <<sync, content, peerHead, got, asked, outbox, silent, refused>>
  BY DEF HandleDocGet, syncVars, docVars, saveVars
<1>2. held \in SUBSET Bundles /\ held \subseteq first /\ held \subseteq content[n]
  BY <1>1, FirstMessage
<1> HIDE DEF held
<1>3. ReadBy(n, "docGet", first) /\ SentTo(p, "docAnswer", held)
  BY <1>1, <1>2, KindsAre, Answering
<1>4. Exchanges'
  <2>1. InfoExchange(n)' /\ PagesExchange(n)' /\ InfoExchange(p)' /\ PagesExchange(p)'
    BY <1>1, <1>3, Peers
       DEF Session, Exchanges, InfoExchange, PagesExchange, OneExchange, UnderWay, SentTo, ReadBy
  <2>2. DocExchange(n)'
    BY <1>1, <1>3, Peers
       DEF Session, Exchanges, DocExchange, OneExchange, UnderWay, SentTo, ReadBy
  <2>3. DocExchange(p)'
    BY <1>1, <1>2, <1>3, Peers
       DEF Session, Exchanges, DocExchange, OneExchange, UnderWay, SentTo, ReadBy
  <2>4. QED
    BY <2>1, <2>2, <2>3, Peers DEF Exchanges
<1>5. Turns'
  BY <1>1, <1>3, Peers DEF Session, Turns, Announced, SentTo, ReadBy
<1>6. Told'
  BY <1>1, <1>2, <1>3, Peers DEF Session, Told, ToldTrue, SentTo, ReadBy
<1>7. Transfers'
  BY <1>1, <1>3, Peers
     DEF Session, Transfers, WillHave, Coming, Untold, Downloads, Ahead, Announced, SentTo, ReadBy
<1>8. QED
  BY <1>4, <1>5, <1>6, <1>7 DEF Session

\* ... and the swap that asked waits no longer.
LEMMA HandleDocAnswerSession ==
  ASSUME TypeOK, connected, Session, NEW n \in Nodes, HandleDocAnswer(n)
  PROVE  Session'
<1> DEFINE p == Peer(n)
           first == Head(inbox[n]).bundles
<1>1. /\ Arrived(n, "docAnswer") /\ Take(n)
      /\ asked' = [asked EXCEPT ![n] = {}]
      /\ UNCHANGED <<sync, content, peerHead, got, outbox, silent, refused>>
  BY DEF HandleDocAnswer, syncVars, saveVars
<1>2. asked'[n] = {} /\ asked'[p] = asked[p]
  BY <1>1, Peers DEF TypeOK
<1>3. ReadBy(n, "docAnswer", first) /\ inbox'[p] = inbox[p]
  BY <1>1, Reading
<1>4. Exchanges'
  <2>1. InfoExchange(n)' /\ PagesExchange(n)' /\ InfoExchange(p)' /\ PagesExchange(p)'
    BY <1>1, <1>3, Peers
       DEF Session, Exchanges, InfoExchange, PagesExchange, OneExchange, UnderWay, ReadBy
  <2>2. DocExchange(n)'
    <3>1. ~Has(inbox[p], "docGet") /\ ~Has(inbox'[n], "docAnswer")
      BY <1>3 DEF Session, Exchanges, DocExchange, OneExchange, ReadBy
    <3>2. Within(inbox[p], "docGet", {}) /\ Within(inbox'[n], "docAnswer", {})
      BY <3>1 DEF Has, Within
    <3>3. QED
      BY <1>1, <1>2, <1>3, <3>1, <3>2, Peers
         DEF Session, Exchanges, DocExchange, OneExchange, UnderWay, ReadBy
  <2>3. DocExchange(p)'
    BY <1>1, <1>2, <1>3, Peers
       DEF Session, Exchanges, DocExchange, OneExchange, UnderWay, ReadBy
  <2>4. QED
    BY <2>1, <2>2, <2>3, Peers DEF Exchanges
<1>5. Turns'
  BY <1>1, <1>3, Peers DEF Session, Turns, Announced, ReadBy
<1>6. Told'
  BY <1>1, <1>3, Peers DEF Session, Told, ToldTrue, ReadBy
<1>7. Transfers'
  BY <1>1, <1>3, Peers
     DEF Session, Transfers, WillHave, Coming, Untold, Downloads, Ahead, Announced, ReadBy
<1>8. QED
  BY <1>4, <1>5, <1>6, <1>7 DEF Session

\* A broadcast bundle is one that the peer has, and is saved or refused.
LEMMA HandleSaveSession ==
  ASSUME TypeOK, connected, Session, NEW n \in Nodes, HandleSave(n)
  PROVE  Session'
<1> DEFINE p == Peer(n)
           first == Head(inbox[n]).bundles
           saved == {b \in first : Accepts(content[n], b)}
<1>1. /\ Arrived(n, "save") /\ Take(n)
      /\ content' = [content EXCEPT ![n] = @ \cup saved]
      /\ refused' = [refused EXCEPT ![n] = @ \cup (first \ saved)]
      /\ UNCHANGED <<sync, peerHead, got, asked, outbox, silent>>
  BY DEF HandleSave, syncVars, docVars
<1>a. saved \subseteq first
  OBVIOUS
<1> HIDE DEF saved
<1>2. /\ content'[n] = content[n] \cup saved /\ content'[p] = content[p]
      /\ refused'[n] = refused[n] \cup (first \ saved) /\ refused'[p] = refused[p]
  BY <1>1, Peers DEF TypeOK
<1>3. ReadBy(n, "save", first) /\ inbox'[p] = inbox[p]
  BY <1>1, Reading
<1>4. first \subseteq content[p] /\ saved \subseteq content[p]
  BY <1>3, <1>a, Peers DEF Session, Told, ToldTrue, ReadBy
<1>5. Exchanges'
  BY <1>1, <1>3, Peers
     DEF Session, Exchanges, InfoExchange, PagesExchange, DocExchange, OneExchange, UnderWay, ReadBy
<1>6. Turns'
  BY <1>1, <1>3, Peers DEF Session, Turns, Announced, ReadBy
<1>7. Told'
  <2>1. AllWithin(inbox'[n], content'[p])
    BY <1>2, <1>3 DEF Session, Told, ToldTrue, ReadBy
  <2>2. AllWithin(inbox'[p], content'[n])
    BY <1>2, <1>3, WithinGrows, Peers DEF Session, Told, ToldTrue
  <2>3. ToldTrue(n)'
    BY <1>1, <1>2, <2>1, Peers DEF Session, Told, ToldTrue
  <2>4. ToldTrue(p)'
    BY <1>1, <1>2, <2>2, Peers DEF Session, Told, ToldTrue
  <2>5. QED
    BY <2>3, <2>4, Peers DEF Told
<1>8. Transfers'
  BY <1>1, <1>2, <1>3, <1>4, Peers
     DEF Session, Transfers, WillHave, Coming, Untold, Downloads, Ahead, Announced, ReadBy
<1>9. QED
  BY <1>5, <1>6, <1>7, <1>8 DEF Session

-----------------------------------------------------------------------------
(***************************************************************************)
(* The theorems.                                                           *)
(***************************************************************************)

\* The invariant holds at the start.
LEMMA InitIInv == Init => IInv
<1> SUFFICES ASSUME Init PROVE IInv
  OBVIOUS
<1>1. \A n \in Nodes : /\ inbox[n] = <<>> /\ peerHead[n] = {} /\ got[n] = {}
                        /\ outbox[n] = {} /\ asked[n] = {}
  BY DEF Init
<1>2. sync[Dialler] = "info" /\ sync[Listener] = "idle"
  BY Peers DEF Init
<1>3. TypeOK
  <2>1. \A n \in Nodes : DocsMarked(n)
    BY DEF Init, DocsMarked
  <2>2. inbox \in [Nodes -> Seq(Message)]
    BY DEF Init
  <2>3. sync \in [Nodes -> SyncSteps]
    BY DEF Init, SyncSteps
  <2>4. /\ missing \in [Nodes -> SUBSET Linked] /\ lacking \in [Nodes -> SUBSET Linked]
        /\ content \in [Nodes -> SUBSET Bundles]
    BY DEF Init
  <2>5. saves \in 0..MaxSaves
    BY SyncAssumption DEF Init
  <2>6. silent \in [Nodes -> SUBSET Bundles] /\ refused \in [Nodes -> SUBSET Bundles]
    BY DEF Init
  <2>7. QED
    BY <2>1, <2>2, <2>3, <2>4, <2>5, <2>6 DEF Init, TypeOK
<1>4. \A n \in Nodes : /\ \A k : ~Has(inbox[n], k) /\ Once(inbox[n], k)
                       /\ \A k, set : Within(inbox[n], k, set)
                       /\ \A set : AllWithin(inbox[n], set)
  BY <1>1, EmptyBox
<1>5. Exchanges
  BY <1>1, <1>2, <1>4, Peers
     DEF Exchanges, InfoExchange, PagesExchange, DocExchange, OneExchange, UnderWay
<1>6. Turns /\ Told
  BY <1>1, <1>2, <1>4, Peers DEF Turns, Told, ToldTrue, Announced
<1>7. Transfers
  BY <1>2, Peers DEF Transfers, WillHave, Ahead, Announced
<1>8. QED
  BY <1>1, <1>3, <1>5, <1>6, <1>7 DEF IInv, Session

\* Every step on an open websocket keeps the session's part of the invariant.
LEMMA NextSession ==
  ASSUME TypeOK, connected, connected', Session, Next
  PROVE  Session'
<1>1. CASE \E n \in Nodes : SyncGoroutine(n)
  BY <1>1, StartInfoSession, AskPagesSession, AnnounceSession, SyncTurnSession,
     SaveDownloadedSession DEF SyncGoroutine
<1>2. CASE \E n \in Nodes : Reader(n)
  BY <1>2, HandleInfoSession, HandleInfoAnswerSession, HandlePagesSession,
     HandlePagesAnswerSession, HandleSyncFinishedSession, HandleSyncFinishedAnswerSession,
     HandleDocGetSession, HandleDocAnswerSession, HandleSaveSession DEF Reader
<1>3. CASE \E n \in Nodes : LinkedDocsSwap(n)
  <2>1. PICK n \in Nodes : LinkedDocsSwap(n)
    BY <1>3
  <2>2. CASE StartDocs(n) \/ FinishDocs(n)
    BY <2>2, QuietSession DEF StartDocs, FinishDocs, netVars, syncVars, saveVars
  <2>3. CASE \E b \in Bundles : AskDoc(n, b)
    BY <2>3, AskDocSession
  <2>4. QED
    BY <2>1, <2>2, <2>3 DEF LinkedDocsSwap
<1>4. CASE \E n \in Nodes : Broadcaster(n)
  BY <1>4, BroadcastSession DEF Broadcaster
<1>5. CASE \E n \in Nodes, b \in Bundles : SavePosted(n, b) \/ SaveSilently(n, b)
  BY <1>5, SavePostedSession, SaveSilentlySession
<1>6. CASE Disconnect
  BY <1>6 DEF Disconnect
<1>7. QED
  BY <1>1, <1>2, <1>3, <1>4, <1>5, <1>6 DEF Next

\* After the websocket closed nothing is on its way any more.
LEMMA NextClosed ==
  ASSUME IInv, Next, ~connected'
  PROVE  \A n \in Nodes : inbox'[n] = <<>>
<1>1. CASE Disconnect
  BY <1>1 DEF Disconnect
<1>2. CASE ~Disconnect
  <2>1. connected' = connected
    BY <1>2 DEF Next, SyncGoroutine, StartInfo, AlreadySynced, NothingToDownload, AskPages,
       SaveDownloaded, Downloaded, Announce, SyncEnds, Reader, HandleInfo, HandleInfoAnswer,
       HandlePages, HandlePagesAnswer, HandleSyncFinished, HandleSyncFinishedAnswer,
       HandleDocGet, HandleDocAnswer, HandleSave, LinkedDocsSwap, StartDocs, AskDoc,
       FinishDocs, Broadcaster, Broadcast, SavePosted, SaveSilently, netVars
  <2>2. ~connected /\ \A n \in Nodes : inbox[n] = <<>>
    BY <2>1 DEF IInv
  <2>3. \A n \in Nodes : ~Reader(n)
    BY <2>2 DEF Reader, Arrived, HandleInfo, HandleInfoAnswer, HandlePages, HandlePagesAnswer,
       HandleSyncFinished, HandleSyncFinishedAnswer, HandleDocGet, HandleDocAnswer, HandleSave
  <2>4. inbox' = inbox
    BY <1>2, <2>2, <2>3 DEF Next, Send, SyncGoroutine, StartInfo, AlreadySynced,
       NothingToDownload, AskPages, SaveDownloaded, Downloaded, Announce, SyncEnds,
       LinkedDocsSwap, StartDocs, AskDoc, FinishDocs, Broadcaster, Broadcast, SavePosted, SaveSilently,
       netVars
  <2>5. QED
    BY <2>2, <2>4
<1>3. QED
  BY <1>1, <1>2

\* Every step keeps the invariant.
LEMMA NextIInv == IInv /\ [Next]_vars => IInv'
<1> SUFFICES ASSUME IInv, [Next]_vars PROVE IInv'
  OBVIOUS
<1>1. CASE Next
  <2>1. TypeOK'
    <3>1. CASE \E n \in Nodes : Reader(n)
      <4>1. PICK n \in Nodes : Reader(n)
        BY <3>1
      <4>2. Within(inbox[n], "docAnswer", asked[n])
        <5>1. CASE connected
          BY <5>1 DEF IInv, Session, Exchanges, DocExchange
        <5>2. CASE ~connected
          BY <5>2, EmptyBox DEF IInv
        <5>3. QED
          BY <5>1, <5>2
      <4>3. QED
        BY <4>1, <4>2, ReaderType DEF IInv
    <3>2. CASE \E n \in Nodes : SyncGoroutine(n)
      BY <3>2, SyncGoroutineType DEF IInv
    <3>3. CASE ~(\E n \in Nodes : Reader(n) \/ SyncGoroutine(n))
      BY <1>1, <3>3, OtherType, Peers DEF IInv, Next
    <3>4. QED
      BY <3>1, <3>2, <3>3
  <2>2. connected' => connected
    BY <1>1 DEF Next, Disconnect, SyncGoroutine, StartInfo, AlreadySynced, NothingToDownload,
       AskPages, SaveDownloaded, Downloaded, Announce, SyncEnds, Reader, HandleInfo,
       HandleInfoAnswer, HandlePages, HandlePagesAnswer, HandleSyncFinished,
       HandleSyncFinishedAnswer, HandleDocGet, HandleDocAnswer, HandleSave, LinkedDocsSwap,
       StartDocs, AskDoc, FinishDocs, Broadcaster, Broadcast, SavePosted, SaveSilently, netVars
  <2>3. connected' => Session'
    BY <1>1, <2>2, NextSession DEF IInv
  <2>4. ~connected' => \A n \in Nodes : inbox'[n] = <<>>
    BY <1>1, NextClosed
  <2>5. QED
    BY <2>1, <2>3, <2>4 DEF IInv
<1>2. CASE UNCHANGED vars
  <2>1. UNCHANGED <<connected, inbox, content, peerHead, hasSynced, sync, got, missing, lacking,
                    swaps, lock, todo, asked, fetched, outbox, saves, silent, refused>>
    BY <1>2 DEF vars, netVars, syncVars, docVars, saveVars
  <2>2. \A m \in Nodes : DocsMarked(m)'
    BY <2>1, MarksKept DEF IInv
  <2>3. TypeOK'
    BY <2>1, <2>2 DEF IInv, TypeOK
  <2>4. connected => Session'
    BY <2>1, QuietSession DEF IInv
  <2>5. QED
    BY <2>1, <2>3, <2>4 DEF IInv
<1>3. QED
  BY <1>1, <1>2

\* The invariant holds of every state of every behaviour.
LEMMA Invariance == Spec => []IInv
<1>1. QED
  BY InitIInv, NextIInv, PTL DEF Spec

(***************************************************************************)
(* A session's variables keep their types, and a linked-documents swap     *)
(* marks and fetches only what the node has and lacks.                     *)
(***************************************************************************)
THEOREM TypeCorrect == Spec => []TypeOK
<1>1. IInv => TypeOK
  BY DEF IInv
<1>2. QED
  BY <1>1, Invariance, PTL

(***************************************************************************)
(* While the websocket is open, whoever waits in SendRPC has the question  *)
(* or its answer on the way: no handler leaves a question unanswered and   *)
(* no answer goes to another question.                                     *)
(***************************************************************************)
THEOREM NobodyWaitsInVain == Spec => []WaitersAreServed
<1>1. IInv => WaitersAreServed
  BY DEF IInv, Session, Exchanges, InfoExchange, PagesExchange, DocExchange, UnderWay, Has,
     WaitersAreServed, OnItsWay
<1>2. QED
  BY <1>1, Invariance, PTL

(***************************************************************************)
(* StartSync, peer_syncFinished and the Broadcaster together: what one     *)
(* node of a session at rest has and the other has not was downloaded by   *)
(* another session of the one after the other's own download, or refused   *)
(* by the other, whatever either had when the session began and whatever   *)
(* came through other sessions meanwhile.                                  *)
(***************************************************************************)
THEOREM RestMeansAgreement == Spec => []SettledAgree
<1>1. IInv => SettledAgree
  <2> SUFFICES ASSUME IInv, Settled, NEW m \in Nodes,
                      NEW b \in content[m] \ content[Peer(m)]
               PROVE  b \in silent[m] \cup refused[Peer(m)]
    BY DEF SettledAgree, Explained
  <2>1. /\ connected
        /\ sync[Dialler] = "done" /\ sync[Listener] \in {"idle", "done"}
        /\ \A n \in Nodes : inbox[n] = <<>> /\ outbox[n] = {}
    BY DEF Settled
  <2>2. \A n \in Nodes : \A k, x : ~Carries(inbox[n], k, x)
    BY <2>1 DEF Carries
  <2> DEFINE n == Peer(m)
  <2>3. n \in Nodes /\ Peer(n) = m
    BY Peers
  <2>4. Coming(n, b) \/ Downloads(n, b) \/ Ahead(n, b) \/ Untold(n, b)
    BY <2>1, <2>3 DEF IInv, Session, Transfers, WillHave
  <2>5. ~Coming(n, b)
    BY <2>1, <2>2, <2>3 DEF Coming
  <2>6. ~Downloads(n, b)
    BY <2>1, <2>3, Peers DEF Downloads
  <2>7. ~Ahead(n, b)
    BY <2>1, <2>2, <2>3, Peers DEF Ahead, Announced
  <2>8. QED
    BY <2>3, <2>4, <2>5, <2>6, <2>7 DEF Untold
<1>2. QED
  BY <1>1, Invariance, PTL

=============================================================================
