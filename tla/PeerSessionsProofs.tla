--------------------------- MODULE PeerSessionsProofs ---------------------------
(***************************************************************************)
(* Theorems about the peer manager, for every set of peers, URLs and       *)
(* sessions, and any number of lost updates of the queue.                  *)
(***************************************************************************)
EXTENDS PeerSessions, FiniteSetTheorems, SequenceTheorems, TLAPS

(***************************************************************************)
(* The inductive invariant.                                                *)
(***************************************************************************)
\* A session authenticates after it is registered and stays registered unless the
\* Broadcaster drops it; what this node dialled carries an item.
SessionsInOrder ==
  \A s \in SessionIds : sessions[s] # Unused =>
    /\ sessions[s].hasAuthed => sessions[s].at \in {"authed", "failing", "ended"}
    /\ sessions[s].at \in {"open", "checked", "authed", "refused", "failing"} =>
         s \in connections \/ sessions[s].dropped
    /\ sessions[s].weInitiated => sessions[s].item \in Item

\* An item is in the queue once, or carried by one session that this node dialled.
OneOfEach ==
  /\ \A i, j \in DOMAIN peerQueue : peerQueue[i] = peerQueue[j] => i = j
  /\ \A s, t \in SessionIds :
       /\ Live(s) /\ sessions[s].weInitiated
       /\ Live(t) /\ sessions[t].weInitiated
       /\ sessions[s].item = sessions[t].item
       => s = t
  /\ \A s \in SessionIds : Live(s) /\ sessions[s].weInitiated =>
       \A i \in DOMAIN peerQueue : peerQueue[i] # sessions[s].item

\* The item that StartOutbound looks at is the first, or gone; nothing that it
\* does not know comes in its place.
FirstIsFirst ==
  \A f \in firstConnect :
    /\ \A g \in firstConnect : f = g
    /\ \A i \in DOMAIN peerQueue : peerQueue[i] = f => i = 1
    /\ \A s \in SessionIds : Live(s) /\ sessions[s].weInitiated => sessions[s].item # f

\* Every URL that is queued, looked at or dialled is a known endpoint, so none is
\* learnt again.
EndpointsKnown ==
  /\ \A i \in DOMAIN peerQueue : peerQueue[i] \in Urls => peerQueue[i] \in endpoints
  /\ \A f \in firstConnect : f \in Urls => f \in endpoints
  /\ \A s \in SessionIds :
       sessions[s] # Unused /\ sessions[s].weInitiated /\ sessions[s].item \in Urls =>
         sessions[s].item \in endpoints

\* What the updates of the queue keep, as long as none is lost.
QueueInv == OneOfEach /\ FirstIsFirst /\ EndpointsKnown

IInv ==
  /\ TypeOK
  /\ SessionsInOrder
  /\ EntriesExplained
  /\ lost = 0 => QueueInv

(***************************************************************************)
(* Sequences.                                                              *)
(***************************************************************************)
\* Taking an item out moves the later ones up.
LEMMA RemoveAtProperties ==
  ASSUME NEW S, NEW q \in Seq(S), NEW i \in 1..Len(q)
  PROVE  /\ RemoveAt(q, i) \in Seq(S)
         /\ Len(RemoveAt(q, i)) = Len(q) - 1
         /\ \A k \in 1..(Len(q) - 1) : RemoveAt(q, i)[k] = q[IF k < i THEN k ELSE k + 1]
<1> DEFINE left == SubSeq(q, 1, i - 1)
           right == SubSeq(q, i + 1, Len(q))
<1>1. Len(q) \in Nat /\ i \in Int /\ i >= 1 /\ i <= Len(q) /\ \A k \in 1..Len(q) : q[k] \in S
  BY LenProperties, ElementOfSeq
<1>2. /\ left \in Seq(S) /\ Len(left) = i - 1
      /\ \A k \in 1..(i - 1) : left[k] = q[k]
  <2>1. \A k \in 1..(i - 1) : q[k] \in S
    BY <1>1
  <2>2. /\ left \in Seq(S)
        /\ Len(left) = IF 1 <= i - 1 THEN (i - 1) - 1 + 1 ELSE 0
        /\ \A k \in 1..((i - 1) - 1 + 1) : left[k] = q[1 + k - 1]
    BY <1>1, <2>1, SubSeqProperties
  <2>3. QED
    BY <1>1, <2>2
<1>3. /\ right \in Seq(S) /\ Len(right) = Len(q) - i
      /\ \A k \in 1..(Len(q) - i) : right[k] = q[i + k]
  <2>1. \A k \in (i + 1)..Len(q) : q[k] \in S
    BY <1>1
  <2>2. /\ right \in Seq(S)
        /\ Len(right) = IF i + 1 <= Len(q) THEN Len(q) - (i + 1) + 1 ELSE 0
        /\ \A k \in 1..(Len(q) - (i + 1) + 1) : right[k] = q[(i + 1) + k - 1]
    BY <1>1, <2>1, SubSeqProperties
  <2>3. QED
    BY <1>1, <2>2
<1>4. RemoveAt(q, i) = left \o right
  BY DEF RemoveAt
<1> HIDE DEF left, right
<1>5. /\ left \o right \in Seq(S)
      /\ Len(left \o right) = Len(left) + Len(right)
      /\ \A k \in 1..(Len(left) + Len(right)) :
           (left \o right)[k] = IF k <= Len(left) THEN left[k] ELSE right[k - Len(left)]
  BY <1>2, <1>3, ConcatProperties
<1>6. ASSUME NEW k \in 1..(Len(q) - 1)
      PROVE  (left \o right)[k] = q[IF k < i THEN k ELSE k + 1]
  <2>1. CASE k < i
    BY <1>1, <1>2, <1>3, <1>5, <2>1
  <2>2. CASE k >= i
    <3>1. k - (i - 1) \in 1..(Len(q) - i)
      BY <1>1, <2>2
    <3>2. right[k - (i - 1)] = q[i + (k - (i - 1))]
      BY <1>3, <3>1
    <3>3. i + (k - (i - 1)) = k + 1
      BY <1>1
    <3>4. QED
      BY <1>1, <1>2, <1>3, <1>5, <2>2, <3>2, <3>3
  <2>3. i \in Int /\ k \in Int
    BY <1>1
  <2>4. k < i \/ k >= i
    BY <2>3
  <2>5. QED
    BY <2>1, <2>2, <2>4
<1>7. QED
  BY <1>1, <1>2, <1>3, <1>4, <1>5, <1>6

\* Taking an item to the front.
LEMMA ToFrontProperties ==
  ASSUME NEW S, NEW q \in Seq(S), NEW i \in 1..Len(q)
  PROVE  LET front == <<q[i]>> \o RemoveAt(q, i)
         IN  /\ front \in Seq(S)
             /\ Len(front) = Len(q)
             /\ front[1] = q[i]
             /\ \A k \in 2..Len(q) : front[k] = q[IF k - 1 < i THEN k - 1 ELSE k]
<1>1. Len(q) \in Nat /\ q[i] \in S
  BY LenProperties, ElementOfSeq
<1>2. <<q[i]>> \in Seq(S) /\ Len(<<q[i]>>) = 1 /\ <<q[i]>>[1] = q[i]
  BY <1>1
<1>3. /\ RemoveAt(q, i) \in Seq(S)
      /\ Len(RemoveAt(q, i)) = Len(q) - 1
      /\ \A k \in 1..(Len(q) - 1) : RemoveAt(q, i)[k] = q[IF k < i THEN k ELSE k + 1]
  BY RemoveAtProperties
<1> DEFINE one == <<q[i]>>
           rest == RemoveAt(q, i)
<1> HIDE DEF one, rest
<1>4. /\ one \o rest \in Seq(S)
      /\ Len(one \o rest) = Len(one) + Len(rest)
      /\ \A k \in 1..(Len(one) + Len(rest)) :
           (one \o rest)[k] = IF k <= Len(one) THEN one[k] ELSE rest[k - Len(one)]
  BY <1>2, <1>3, ConcatProperties DEF one, rest
<1>5. Len(one) = 1 /\ one[1] = q[i] /\ Len(rest) = Len(q) - 1
  BY <1>2, <1>3 DEF one, rest
<1>6. (one \o rest)[1] = q[i]
  BY <1>1, <1>4, <1>5
<1>7. ASSUME NEW k \in 2..Len(q)
      PROVE  (one \o rest)[k] = q[IF k - 1 < i THEN k - 1 ELSE k]
  <2>1. (one \o rest)[k] = rest[k - 1]
    BY <1>1, <1>4, <1>5
  <2>2. k - 1 \in 1..(Len(q) - 1)
    BY <1>1
  <2>3. rest[k - 1] = q[IF k - 1 < i THEN k - 1 ELSE (k - 1) + 1]
    BY <1>3, <2>2 DEF rest
  <2>4. (k - 1) + 1 = k
    BY <1>1
  <2>5. QED
    BY <2>1, <2>3, <2>4
<1>8. QED
  BY <1>1, <1>4, <1>5, <1>6, <1>7 DEF one, rest

\* A set without two different elements has at most one.
LEMMA AtMostOne ==
  ASSUME NEW S, \A x, y \in S : x = y
  PROVE  Cardinality(S) \in {0, 1} /\ (Cardinality(S) = 0 <=> S = {})
<1>1. CASE S = {}
  BY <1>1, FS_EmptySet
<1>2. CASE S # {}
  <2>1. PICK x \in S : TRUE
    BY <1>2
  <2>2. S = {x}
    BY <2>1
  <2>3. Cardinality(S) = 1
    BY <2>2, FS_Singleton
  <2>4. QED
    BY <1>2, <2>3
<1>3. QED
  BY <1>1, <1>2

(***************************************************************************)
(* The initial states.                                                     *)
(***************************************************************************)
LEMMA InitInv == Init => IInv
<1> SUFFICES ASSUME Init PROVE IInv
  OBVIOUS
<1>1. Known \subseteq Item
  BY DEF Item
<1>2. IsFiniteSet(Known)
  <2> DEFINE map == [u \in Recorded |-> PeerOf[u]]
  <2>1. map \in Surjection(Recorded, Known)
    BY DEF Surjection, Known
  <2> HIDE DEF map
  <2>2. QED
    BY <2>1, PeersAssumption, FS_Surjection
<1>3. Cardinality(Known) \in Nat
  BY <1>2, FS_CardinalityType
<1>4. /\ peerQueue \in [1..Cardinality(Known) -> Known]
      /\ \A i, j \in 1..Cardinality(Known) : i # j => peerQueue[i] # peerQueue[j]
  BY DEF Init, SetToSeqs
<1>5. DOMAIN peerQueue = 1..Cardinality(Known) /\ \A i \in DOMAIN peerQueue : peerQueue[i] \in Known
  BY <1>4
<1>6. peerQueue \in Seq(Item)
  <2>1. peerQueue \in [1..Cardinality(Known) -> Item]
    BY <1>1, <1>4
  <2>2. QED
    BY <1>3, <2>1
<1>7. TypeOK
  <2>1. endpoints \subseteq Urls /\ firstConnect \subseteq Item /\ connections \subseteq SessionIds
        /\ authedPeers \subseteq Peers /\ panicked = "no"
    BY PeersAssumption DEF Init
  <2>2. sessions \in [SessionIds -> SessionRecord \cup {Unused}]
    BY DEF Init
  <2>3. lost \in 0..MaxLost
    BY PeersAssumption DEF Init
  <2>4. QED
    BY <1>6, <2>1, <2>2, <2>3 DEF TypeOK
<1>8. \A s \in SessionIds : sessions[s] = Unused
  BY DEF Init
<1>9. SessionsInOrder /\ FirstIsFirst /\ EntriesExplained
  BY <1>8 DEF Init, SessionsInOrder, FirstIsFirst, EntriesExplained
<1>10. OneOfEach
  BY <1>4, <1>5, <1>8 DEF OneOfEach, Live
<1>11. EndpointsKnown
  <2>1. \A i \in DOMAIN peerQueue : peerQueue[i] \notin Urls
    BY <1>5, PeersAssumption DEF Known
  <2>2. QED
    BY <1>8, <2>1 DEF Init, EndpointsKnown
<1>12. QED
  BY <1>7, <1>9, <1>10, <1>11 DEF IInv, QueueInv

\* An update that is not lost is what the queue becomes.
LEMMA StoredQueue ==
  ASSUME TypeOK, NEW queue \in Seq(Item), StoreQueue(queue)
  PROVE  /\ peerQueue' \in Seq(Item)
         /\ lost' \in 0..MaxLost
         /\ lost' = 0 => lost = 0 /\ peerQueue' = queue
<1>1. peerQueue \in Seq(Item) /\ lost \in 0..MaxLost /\ MaxLost \in Nat
  BY PeersAssumption DEF TypeOK
<1>2. peerQueue' \in Seq(Item)
  BY <1>1 DEF StoreQueue
<1>3. CASE peerQueue' = queue
  <2>1. lost' = lost
    BY <1>3 DEF StoreQueue
  <2>2. QED
    BY <1>1, <1>2, <1>3, <2>1
<1>4. CASE peerQueue' # queue
  <2>1. lost' = lost + 1 /\ lost < MaxLost
    BY <1>4 DEF StoreQueue
  <2>2. QED
    BY <1>1, <1>2, <2>1
<1>5. QED
  BY <1>3, <1>4

(***************************************************************************)
(* Steps.                                                                  *)
(***************************************************************************)
\* A step of session s, which stays what it is: the others do nothing.
StepOf(s) ==
  /\ sessions[s] \in SessionRecord /\ sessions'[s] \in SessionRecord
  /\ sessions' \in [SessionIds -> SessionRecord \cup {Unused}]
  /\ \A t \in SessionIds \ {s} : sessions'[t] = sessions[t]
  /\ sessions'[s].peer = sessions[s].peer
  /\ sessions'[s].item = sessions[s].item
  /\ sessions'[s].weInitiated = sessions[s].weInitiated

\* What a session that is not free looks like.
LEMMA InUse ==
  ASSUME TypeOK, NEW s \in SessionIds, sessions[s].at # "unused"
  PROVE  sessions[s] # Unused /\ sessions[s] \in SessionRecord
<1>1. sessions[s] # Unused
  BY DEF Unused
<1>2. QED
  BY <1>1 DEF TypeOK

\* The record of a session that was started is not the unused one.
LEMMA RecordIsUsed ==
  ASSUME NEW r \in SessionRecord
  PROVE  r # Unused
BY DEF SessionRecord, Steps, Unused

\* What Move does.
LEMMA MoveIsStep ==
  ASSUME TypeOK, NEW s \in SessionIds, sessions[s].at # "unused", NEW at \in Steps, Move(s, at)
  PROVE  /\ StepOf(s)
         /\ sessions'[s].at = at
         /\ sessions'[s].hasAuthed = sessions[s].hasAuthed
         /\ sessions'[s].lastError = sessions[s].lastError
         /\ sessions'[s].dropped = sessions[s].dropped
<1>1. sessions[s] \in SessionRecord
  BY InUse
<1>2. sessions \in [SessionIds -> SessionRecord \cup {Unused}]
  BY DEF TypeOK
<1>3. sessions'[s] = [sessions[s] EXCEPT !.at = at]
  BY <1>2 DEF Move
<1>4. /\ sessions'[s] \in SessionRecord
      /\ sessions'[s].peer = sessions[s].peer
      /\ sessions'[s].item = sessions[s].item
      /\ sessions'[s].weInitiated = sessions[s].weInitiated
      /\ sessions'[s].at = at
      /\ sessions'[s].hasAuthed = sessions[s].hasAuthed
      /\ sessions'[s].lastError = sessions[s].lastError
      /\ sessions'[s].dropped = sessions[s].dropped
  BY <1>1, <1>3 DEF SessionRecord
<1>5. \A t \in SessionIds \ {s} : sessions'[t] = sessions[t]
  BY <1>2 DEF Move
<1>6. sessions' \in [SessionIds -> SessionRecord \cup {Unused}]
  BY <1>2, <1>4, <1>5 DEF Move
<1>7. QED
  BY <1>1, <1>4, <1>5, <1>6 DEF StepOf

\* An assignment to the step of a session and to hasAuthed.
LEMMA AuthedIsStep ==
  ASSUME TypeOK, NEW s \in SessionIds, sessions[s].at # "unused",
         NEW at \in Steps, NEW flag \in BOOLEAN,
         sessions' = [sessions EXCEPT ![s].at = at, ![s].hasAuthed = flag]
  PROVE  /\ StepOf(s)
         /\ sessions'[s].at = at
         /\ sessions'[s].hasAuthed = flag
         /\ sessions'[s].lastError = sessions[s].lastError
         /\ sessions'[s].dropped = sessions[s].dropped
<1> DEFINE r == sessions[s]
           r1 == [r EXCEPT !.at = at]
           r2 == [r1 EXCEPT !.hasAuthed = flag]
<1>1. r \in SessionRecord /\ r = sessions[s]
  BY InUse
<1>2. sessions \in [SessionIds -> SessionRecord \cup {Unused}]
  BY DEF TypeOK
<1>3. sessions' = [sessions EXCEPT ![s] = r2]
  BY <1>2, Zenon
<1> HIDE DEF r
<1>4. /\ r1 \in SessionRecord /\ r1.at = at /\ r1.peer = r.peer /\ r1.item = r.item
      /\ r1.weInitiated = r.weInitiated /\ r1.lastError = r.lastError /\ r1.dropped = r.dropped
  BY <1>1 DEF SessionRecord
<1> HIDE DEF r1
<1>5. /\ r2 \in SessionRecord /\ r2.at = r1.at /\ r2.peer = r1.peer /\ r2.item = r1.item
      /\ r2.weInitiated = r1.weInitiated /\ r2.lastError = r1.lastError /\ r2.hasAuthed = flag
      /\ r2.dropped = r1.dropped
  BY <1>4 DEF SessionRecord
<1> HIDE DEF r2
<1>6. sessions'[s] = r2
  BY <1>2, <1>3
<1>7. /\ \A t \in SessionIds \ {s} : sessions'[t] = sessions[t]
      /\ sessions' \in [SessionIds -> SessionRecord \cup {Unused}]
  BY <1>2, <1>3, <1>5
<1>8. QED
  BY <1>1, <1>4, <1>5, <1>6, <1>7 DEF StepOf

\* An assignment to the step of a session and to LastError.
LEMMA ErrorIsStep ==
  ASSUME TypeOK, NEW s \in SessionIds, sessions[s].at # "unused",
         NEW at \in Steps, NEW flag \in BOOLEAN,
         sessions' = [sessions EXCEPT ![s].at = at, ![s].lastError = flag]
  PROVE  /\ StepOf(s)
         /\ sessions'[s].at = at
         /\ sessions'[s].lastError = flag
         /\ sessions'[s].hasAuthed = sessions[s].hasAuthed
         /\ sessions'[s].dropped = sessions[s].dropped
<1> DEFINE r == sessions[s]
           r1 == [r EXCEPT !.at = at]
           r2 == [r1 EXCEPT !.lastError = flag]
<1>1. r \in SessionRecord /\ r = sessions[s]
  BY InUse
<1>2. sessions \in [SessionIds -> SessionRecord \cup {Unused}]
  BY DEF TypeOK
<1>3. sessions' = [sessions EXCEPT ![s] = r2]
  BY <1>2, Zenon
<1> HIDE DEF r
<1>4. /\ r1 \in SessionRecord /\ r1.at = at /\ r1.peer = r.peer /\ r1.item = r.item
      /\ r1.weInitiated = r.weInitiated /\ r1.hasAuthed = r.hasAuthed /\ r1.dropped = r.dropped
  BY <1>1 DEF SessionRecord
<1> HIDE DEF r1
<1>5. /\ r2 \in SessionRecord /\ r2.at = r1.at /\ r2.peer = r1.peer /\ r2.item = r1.item
      /\ r2.weInitiated = r1.weInitiated /\ r2.hasAuthed = r1.hasAuthed /\ r2.lastError = flag
      /\ r2.dropped = r1.dropped
  BY <1>4 DEF SessionRecord
<1> HIDE DEF r2
<1>6. sessions'[s] = r2
  BY <1>2, <1>3
<1>7. /\ \A t \in SessionIds \ {s} : sessions'[t] = sessions[t]
      /\ sessions' \in [SessionIds -> SessionRecord \cup {Unused}]
  BY <1>2, <1>3, <1>5
<1>8. QED
  BY <1>1, <1>4, <1>5, <1>6, <1>7 DEF StepOf

\* A step that leaves the queue alone and brings no session to life.
LEMMA QueueUntouched ==
  ASSUME QueueInv, NEW s \in SessionIds, StepOf(s), Live(s)' => Live(s),
         UNCHANGED <<peerQueue, firstConnect, endpoints>>
  PROVE  QueueInv'
<1>1. \A t \in SessionIds :
        /\ Live(t)' => Live(t)
        /\ sessions'[t].weInitiated = sessions[t].weInitiated
        /\ sessions'[t].item = sessions[t].item
        /\ sessions'[t] # Unused => sessions[t] # Unused
  <2>1. sessions[s] # Unused
    BY RecordIsUsed DEF StepOf
  <2>2. QED
    BY <2>1 DEF StepOf, Live
<1>2. peerQueue' = peerQueue /\ firstConnect' = firstConnect /\ endpoints' = endpoints
  OBVIOUS
<1>3. OneOfEach'
  BY <1>1, <1>2 DEF QueueInv, OneOfEach
<1>4. FirstIsFirst'
  BY <1>1, <1>2 DEF QueueInv, FirstIsFirst
<1>5. EndpointsKnown'
  BY <1>1, <1>2 DEF QueueInv, EndpointsKnown
<1>6. QED
  BY <1>3, <1>4, <1>5 DEF QueueInv

\* The order of a session's steps concerns that session only.
LEMMA OrderKept ==
  ASSUME IInv, NEW s \in SessionIds, StepOf(s),
         \A t \in connections \ {s} : t \in connections',
         sessions'[s].hasAuthed => sessions'[s].at \in {"authed", "failing", "ended"},
         sessions'[s].at \in {"open", "checked", "authed", "refused", "failing"} =>
           s \in connections' \/ sessions'[s].dropped
  PROVE  SessionsInOrder'
<1>1. ASSUME NEW t \in SessionIds, sessions'[t] # Unused
      PROVE  /\ sessions'[t].hasAuthed => sessions'[t].at \in {"authed", "failing", "ended"}
             /\ sessions'[t].at \in {"open", "checked", "authed", "refused", "failing"} =>
                  t \in connections' \/ sessions'[t].dropped
             /\ sessions'[t].weInitiated => sessions'[t].item \in Item
  <2>1. CASE t = s
    <3>1. sessions[s] # Unused
      BY RecordIsUsed DEF StepOf
    <3>2. QED
      BY <2>1, <3>1 DEF IInv, SessionsInOrder, StepOf
  <2>2. CASE t # s
    BY <1>1, <2>2 DEF IInv, SessionsInOrder, StepOf
  <2>3. QED
    BY <2>1, <2>2
<1>2. QED
  BY <1>1 DEF SessionsInOrder

\* The entries keep their explanation when the session that steps does, or loses
\* its entry.
LEMMA EntriesKept ==
  ASSUME IInv, NEW s \in SessionIds, StepOf(s), authedPeers' \subseteq authedPeers,
         sessions[s].hasAuthed /\ (Live(s) \/ sessions[s].lastError) =>
           \/ sessions'[s].hasAuthed /\ (Live(s)' \/ sessions'[s].lastError)
           \/ sessions[s].peer \notin authedPeers'
  PROVE  EntriesExplained'
<1>1. ASSUME NEW p \in authedPeers'
      PROVE  \E t \in SessionIds :
               /\ sessions'[t] # Unused
               /\ sessions'[t].peer = p
               /\ sessions'[t].hasAuthed
               /\ Live(t)' \/ sessions'[t].lastError
  <2>1. PICK t \in SessionIds :
          /\ sessions[t] # Unused
          /\ sessions[t].peer = p
          /\ sessions[t].hasAuthed
          /\ Live(t) \/ sessions[t].lastError
    BY <1>1 DEF IInv, EntriesExplained
  <2>2. CASE t = s
    <3>1. sessions'[s] # Unused
      BY RecordIsUsed DEF StepOf
    <3>2. QED
      BY <1>1, <2>1, <2>2, <3>1 DEF StepOf
  <2>3. CASE t # s
    BY <2>1, <2>3 DEF StepOf, Live
  <2>4. QED
    BY <2>2, <2>3
<1>2. QED
  BY <1>1 DEF EntriesExplained

\* Only one item leaves the queue, the others keep their order.
Out(r, queue, i) ==
  /\ r \in Seq(Item)
  /\ i \in 1..(Len(queue) + 1)
  /\ \A k \in 1..Len(r) :
       /\ (IF k < i THEN k ELSE k + 1) \in 1..Len(queue)
       /\ r[k] = queue[IF k < i THEN k ELSE k + 1]

\* OnAuthed takes out one item or none.
LEMMA WithoutFirstTakesOne ==
  ASSUME NEW queue \in Seq(Item), NEW p
  PROVE  \E i \in 1..(Len(queue) + 1) : Out(WithoutFirst(queue, p), queue, i)
<1> DEFINE found == {i \in DOMAIN queue :
                       queue[i] = p /\ \A j \in 1..(i - 1) : queue[j] # p}
           first == CHOOSE i \in found : TRUE
<1>1. Len(queue) \in Nat /\ DOMAIN queue = 1..Len(queue)
  BY LenProperties
<1>2. CASE found = {}
  <2>1. WithoutFirst(queue, p) = queue
    BY <1>2 DEF WithoutFirst
  <2>2. Out(queue, queue, Len(queue) + 1)
    BY <1>1 DEF Out
  <2>3. QED
    BY <1>1, <2>1, <2>2
<1>3. CASE found # {}
  <2>1. first \in 1..Len(queue)
    BY <1>1, <1>3
  <2>2. WithoutFirst(queue, p) = RemoveAt(queue, first)
    BY <1>3 DEF WithoutFirst
  <2> HIDE DEF first, found
  <2>3. /\ RemoveAt(queue, first) \in Seq(Item)
        /\ Len(RemoveAt(queue, first)) = Len(queue) - 1
        /\ \A k \in 1..(Len(queue) - 1) :
             RemoveAt(queue, first)[k] = queue[IF k < first THEN k ELSE k + 1]
    BY <2>1, RemoveAtProperties
  <2>4. Out(RemoveAt(queue, first), queue, first)
    BY <1>1, <2>1, <2>3 DEF Out
  <2>5. first \in 1..(Len(queue) + 1)
    BY <1>1, <2>1
  <2>6. QED
    BY <2>2, <2>4, <2>5
<1>4. QED
  BY <1>2, <1>3

\* An item leaves the queue, and no session comes to life.
LEMMA QueueShrinks ==
  ASSUME TypeOK, QueueInv, NEW s \in SessionIds, StepOf(s), Live(s)' => Live(s),
         NEW i \in 1..(Len(peerQueue) + 1), Out(peerQueue', peerQueue, i),
         UNCHANGED <<firstConnect, endpoints>>
  PROVE  QueueInv'
<1> DEFINE old(k) == IF k < i THEN k ELSE k + 1
<1>1. \A t \in SessionIds :
        /\ Live(t)' => Live(t)
        /\ sessions'[t].weInitiated = sessions[t].weInitiated
        /\ sessions'[t].item = sessions[t].item
        /\ sessions'[t] # Unused => sessions[t] # Unused
  <2>1. sessions[s] # Unused
    BY RecordIsUsed DEF StepOf
  <2>2. QED
    BY <2>1 DEF StepOf, Live
<1>2. /\ Len(peerQueue) \in Nat /\ DOMAIN peerQueue = 1..Len(peerQueue)
      /\ Len(peerQueue') \in Nat /\ DOMAIN peerQueue' = 1..Len(peerQueue')
  BY LenProperties DEF TypeOK, Out
<1>3. \A k \in DOMAIN peerQueue' :
        old(k) \in DOMAIN peerQueue /\ peerQueue'[k] = peerQueue[old(k)]
  BY <1>2 DEF Out
<1>4. \A a, b \in DOMAIN peerQueue' : old(a) = old(b) => a = b
  BY <1>2
<1>5. \A k \in DOMAIN peerQueue' : old(k) = 1 => k = 1
  BY <1>2
<1> HIDE DEF old
<1>6. OneOfEach'
  <2>1. \A a, b \in DOMAIN peerQueue' : peerQueue'[a] = peerQueue'[b] => a = b
    BY <1>3, <1>4 DEF QueueInv, OneOfEach
  <2>2. QED
    BY <1>1, <1>3, <2>1 DEF QueueInv, OneOfEach
<1>7. FirstIsFirst'
  <2>1. \A f \in firstConnect : \A k \in DOMAIN peerQueue' : peerQueue'[k] = f => k = 1
    BY <1>3, <1>5 DEF QueueInv, FirstIsFirst
  <2>2. QED
    BY <1>1, <2>1 DEF QueueInv, FirstIsFirst
<1>8. EndpointsKnown'
  BY <1>1, <1>3 DEF QueueInv, EndpointsKnown
<1>9. QED
  BY <1>6, <1>7, <1>8 DEF QueueInv

\* What OnEnd makes of the queue is a queue.
LEMMA RequeuedType ==
  ASSUME TypeOK, SessionsInOrder, NEW s \in SessionIds, sessions[s] # Unused
  PROVE  Requeued(s) \in Seq(Item)
<1>1. peerQueue \in Seq(Item)
  BY DEF TypeOK
<1>2. sessions[s].weInitiated => sessions[s].item \in Item
  BY DEF SessionsInOrder
<1>3. QED
  BY <1>1, <1>2, AppendProperties DEF Requeued

\* A session that this node dialled is over, and its item is back in the queue.
LEMMA QueueGrows ==
  ASSUME TypeOK, SessionsInOrder, QueueInv,
         NEW s \in SessionIds, StepOf(s), Live(s), ~Live(s)',
         peerQueue' = Requeued(s), UNCHANGED <<firstConnect, endpoints>>
  PROVE  QueueInv'
<1>1. CASE ~sessions[s].weInitiated
  <2>1. peerQueue' = peerQueue
    BY <1>1 DEF Requeued
  <2>2. QED
    BY <2>1, QueueUntouched
<1>2. CASE sessions[s].weInitiated
  <2> DEFINE item == sessions[s].item
             n == Len(peerQueue)
  <2>1. item \in Item /\ peerQueue \in Seq(Item) /\ item = sessions[s].item
    BY <1>2, RecordIsUsed DEF TypeOK, StepOf, SessionsInOrder
  <2>2. peerQueue' = Append(peerQueue, item)
    BY <1>2 DEF Requeued
  <2> HIDE DEF item
  <2>3. /\ peerQueue' \in Seq(Item)
        /\ Len(peerQueue') = n + 1
        /\ \A k \in 1..n : peerQueue'[k] = peerQueue[k]
        /\ peerQueue'[n + 1] = item
    BY <2>1, <2>2, AppendProperties
  <2>4. n \in Nat /\ DOMAIN peerQueue = 1..n /\ DOMAIN peerQueue' = 1..(n + 1)
    BY <2>1, <2>3, LenProperties
  <2> HIDE DEF n
  <2>5. \A t \in SessionIds :
          /\ Live(t)' => Live(t) /\ t # s
          /\ sessions'[t].weInitiated = sessions[t].weInitiated
          /\ sessions'[t].item = sessions[t].item
          /\ sessions'[t] # Unused => sessions[t] # Unused
    <3>1. sessions[s] # Unused
      BY RecordIsUsed DEF StepOf
    <3>2. QED
      BY <3>1 DEF StepOf, Live
  <2>6. \A k \in DOMAIN peerQueue' :
          \/ k \in DOMAIN peerQueue /\ peerQueue'[k] = peerQueue[k]
          \/ k = n + 1 /\ peerQueue'[k] = sessions[s].item
    BY <2>1, <2>3, <2>4
  <2>7. \A k \in DOMAIN peerQueue : peerQueue[k] # sessions[s].item
    BY <1>2 DEF QueueInv, OneOfEach
  <2>8. OneOfEach'
    <3>1. \A a, b \in DOMAIN peerQueue' : peerQueue'[a] = peerQueue'[b] => a = b
      BY <2>6, <2>7 DEF QueueInv, OneOfEach
    <3>2. \A t \in SessionIds : Live(t)' /\ sessions'[t].weInitiated =>
            sessions[t].item # sessions[s].item
      BY <1>2, <2>5 DEF QueueInv, OneOfEach
    <3>3. QED
      BY <2>5, <2>6, <3>1, <3>2 DEF QueueInv, OneOfEach
  <2>9. FirstIsFirst'
    <3>1. \A f \in firstConnect : f # sessions[s].item
      BY <1>2 DEF QueueInv, FirstIsFirst
    <3>2. QED
      BY <2>5, <2>6, <3>1 DEF QueueInv, FirstIsFirst
  <2>10. EndpointsKnown'
    <3>1. sessions[s].item \in Urls => sessions[s].item \in endpoints
      BY <1>2 DEF QueueInv, EndpointsKnown, Live
    <3>2. QED
      BY <2>5, <2>6, <3>1 DEF QueueInv, EndpointsKnown
  <2>11. QED
    BY <2>8, <2>9, <2>10 DEF QueueInv
<1>3. QED
  BY <1>1, <1>2

(***************************************************************************)
(* The actions.                                                            *)
(***************************************************************************)
\* A URL is queued the first time that it is heard of.
LEMMA LearnEndpointInv ==
  ASSUME IInv, NEW u \in Urls, LearnEndpoint(u)
  PROVE  IInv'
<1> DEFINE n == Len(peerQueue)
           queue == Append(peerQueue, u)
<1>1. peerQueue \in Seq(Item) /\ n \in Nat /\ u \in Item
  BY LenProperties DEF IInv, TypeOK, Item
<1>2. /\ queue \in Seq(Item)
      /\ Len(queue) = n + 1
      /\ \A k \in 1..n : queue[k] = peerQueue[k]
      /\ queue[n + 1] = u
  BY <1>1, AppendProperties
<1>3. DOMAIN peerQueue = 1..n /\ DOMAIN queue = 1..(n + 1)
  BY <1>1, <1>2, LenProperties
<1>4. StoreQueue(queue)
  BY DEF LearnEndpoint
<1> HIDE DEF n, queue
<1>5. /\ peerQueue' \in Seq(Item) /\ lost' \in 0..MaxLost
      /\ lost' = 0 => lost = 0 /\ peerQueue' = queue
  BY <1>2, <1>4, StoredQueue DEF IInv
<1>6. /\ u \notin endpoints /\ endpoints' = endpoints \cup {u}
      /\ UNCHANGED <<firstConnect, sessions, connections, authedPeers, panicked>>
  BY DEF LearnEndpoint
<1>7. TypeOK'
  BY <1>5, <1>6 DEF IInv, TypeOK
<1>8. SessionsInOrder' /\ EntriesExplained'
  BY <1>6 DEF IInv, SessionsInOrder, EntriesExplained, Live
<1>9. ASSUME lost' = 0 PROVE QueueInv'
  <2>1. QueueInv /\ peerQueue' = queue
    BY <1>5, <1>9 DEF IInv
  <2>2. \A k \in DOMAIN peerQueue' :
          \/ k \in DOMAIN peerQueue /\ peerQueue'[k] = peerQueue[k]
          \/ k = n + 1 /\ peerQueue'[k] = u
    BY <1>1, <1>2, <1>3, <2>1
  <2>3. /\ \A k \in DOMAIN peerQueue : peerQueue[k] # u
        /\ \A f \in firstConnect : f # u
        /\ \A t \in SessionIds : Live(t) /\ sessions[t].weInitiated => sessions[t].item # u
    BY <1>6, <2>1 DEF QueueInv, EndpointsKnown, Live
  <2>4. OneOfEach'
    <3>1. \A a, b \in DOMAIN peerQueue' : peerQueue'[a] = peerQueue'[b] => a = b
      BY <2>1, <2>2, <2>3 DEF QueueInv, OneOfEach
    <3>2. QED
      BY <1>6, <2>1, <2>2, <2>3, <3>1 DEF QueueInv, OneOfEach, Live
  <2>5. FirstIsFirst'
    BY <1>6, <2>1, <2>2, <2>3 DEF QueueInv, FirstIsFirst, Live
  <2>6. EndpointsKnown'
    BY <1>6, <2>1, <2>2 DEF QueueInv, EndpointsKnown
  <2>7. QED
    BY <2>4, <2>5, <2>6 DEF QueueInv
<1>10. QED
  BY <1>7, <1>8, <1>9 DEF IInv

\* Choosing an item moves it to the front of the queue, and no item is lost.
LEMMA PickFirstInv ==
  ASSUME IInv, NEW i \in DOMAIN peerQueue, PickFirst(i)
  PROVE  IInv'
<1> DEFINE n == Len(peerQueue)
           queue == <<peerQueue[i]>> \o RemoveAt(peerQueue, i)
           old(k) == IF k = 1 THEN i ELSE IF k - 1 < i THEN k - 1 ELSE k
<1>1. peerQueue \in Seq(Item) /\ n \in Nat /\ DOMAIN peerQueue = 1..n /\ i \in 1..n
  BY LenProperties DEF IInv, TypeOK
<1>2. /\ queue \in Seq(Item)
      /\ Len(queue) = n
      /\ queue[1] = peerQueue[i]
      /\ \A k \in 2..n : queue[k] = peerQueue[IF k - 1 < i THEN k - 1 ELSE k]
  BY <1>1, ToFrontProperties
<1>3. StoreQueue(queue)
  BY DEF PickFirst
<1>4. DOMAIN queue = 1..n
  BY <1>2, LenProperties
<1> HIDE DEF n, queue
<1>5. /\ peerQueue' \in Seq(Item) /\ lost' \in 0..MaxLost
      /\ lost' = 0 => lost = 0 /\ peerQueue' = queue
  BY <1>2, <1>3, StoredQueue DEF IInv
<1>6. /\ firstConnect' = {peerQueue[i]}
      /\ UNCHANGED <<endpoints, sessions, connections, authedPeers, panicked>>
  BY DEF PickFirst
<1>7. TypeOK'
  <2>1. peerQueue[i] \in Item
    BY <1>1, ElementOfSeq
  <2>2. QED
    BY <1>5, <1>6, <2>1 DEF IInv, TypeOK
<1>8. SessionsInOrder' /\ EntriesExplained'
  BY <1>6 DEF IInv, SessionsInOrder, EntriesExplained, Live
<1>9. ASSUME lost' = 0 PROVE QueueInv'
  <2>1. QueueInv /\ peerQueue' = queue
    BY <1>5, <1>9 DEF IInv
  <2>2. \A k \in 1..n : old(k) \in 1..n /\ peerQueue'[k] = peerQueue[old(k)]
    BY <1>1, <1>2, <2>1
  <2>3. \A a, b \in 1..n : old(a) = old(b) => a = b
    BY <1>1
  <2>4. old(1) = i /\ 1 \in 1..n
    BY <1>1
  <2> HIDE DEF old
  <2>5. \A a, b \in 1..n : peerQueue'[a] = peerQueue'[b] => a = b
    BY <1>1, <2>1, <2>2, <2>3 DEF QueueInv, OneOfEach
  <2>6. OneOfEach'
    <3>1. \A s \in SessionIds : Live(s)' = Live(s) /\ sessions'[s] = sessions[s]
      BY <1>6 DEF Live
    <3>2. \A s \in SessionIds : Live(s) /\ sessions[s].weInitiated =>
            \A k \in 1..n : peerQueue'[k] # sessions[s].item
      BY <1>1, <2>1, <2>2 DEF QueueInv, OneOfEach
    <3>3. DOMAIN peerQueue' = 1..n
      BY <1>4, <2>1
    <3>4. QED
      BY <2>1, <2>5, <3>1, <3>2, <3>3 DEF QueueInv, OneOfEach
  <2>7. FirstIsFirst'
    <3>1. \A k \in 1..n : peerQueue'[k] = peerQueue[i] => k = 1
      BY <1>2, <2>1, <2>4, <2>5
    <3>2. QED
      BY <1>1, <1>4, <1>6, <2>1, <3>1 DEF QueueInv, OneOfEach, FirstIsFirst, Live
  <2>8. EndpointsKnown'
    BY <1>1, <1>4, <1>6, <2>1, <2>2 DEF QueueInv, EndpointsKnown
  <2>9. QED
    BY <2>6, <2>7, <2>8 DEF QueueInv
<1>10. QED
  BY <1>7, <1>8, <1>9 DEF IInv

\* An item leads to a peer.
LEMMA ReachedIsPeer ==
  ASSUME NEW item \in Item
  PROVE  Reached(item) \in Peers
BY PeersAssumption DEF Reached, Item, Known

\* The item that is dropped is the one that was looked at, or that one has left the queue.
LEMMA TakeFirstInv ==
  ASSUME IInv, NEW s \in SessionIds, TakeFirst(s)
  PROVE  IInv'
<1>1. /\ firstConnect' = {} /\ sessions[s] = Unused
      /\ UNCHANGED <<endpoints, connections, authedPeers>>
  BY DEF TakeFirst
<1>2. CASE peerQueue = <<>>
  <2>1. UNCHANGED <<peerQueue, lost, sessions>> /\ panicked' = "slice bounds"
    BY <1>2 DEF TakeFirst
  <2>2. TypeOK'
    BY <1>1, <2>1 DEF IInv, TypeOK
  <2>3. \A t \in SessionIds : Live(t)' = Live(t) /\ sessions'[t] = sessions[t]
    BY <2>1 DEF Live
  <2>4. SessionsInOrder' /\ EntriesExplained'
    BY <1>1, <2>1, <2>3 DEF IInv, SessionsInOrder, EntriesExplained
  <2>5. QueueInv => QueueInv'
    BY <1>1, <2>1, <2>3 DEF QueueInv, OneOfEach, FirstIsFirst, EndpointsKnown
  <2>6. QED
    BY <2>1, <2>2, <2>4, <2>5 DEF IInv
<1>3. CASE peerQueue # <<>>
  <2>1. StoreQueue(Tail(peerQueue)) /\ UNCHANGED panicked
    BY <1>3 DEF TakeFirst
  <2>2. PICK item \in firstConnect : sessions' = [sessions EXCEPT ![s] = Dialled(item)]
    BY <1>3 DEF TakeFirst
  <2> DEFINE r == Session("dialling", Reached(item), item, TRUE)
             n == Len(peerQueue)
  <2>3. item \in Item
    BY <2>2 DEF IInv, TypeOK
  <2>4. /\ r \in SessionRecord /\ r.at = "dialling" /\ r.item = item
        /\ r.weInitiated = TRUE /\ r.hasAuthed = FALSE
    <3>1. /\ "dialling" \in Steps /\ item \in Item \cup {"none"}
          /\ Reached(item) \in Peers
      BY <2>3, ReachedIsPeer DEF Steps
    <3>2. r = [at |-> "dialling", peer |-> Reached(item), weInitiated |-> TRUE, item |-> item,
               hasAuthed |-> FALSE, lastError |-> FALSE, dropped |-> FALSE]
      BY DEF Session
    <3> HIDE DEF r
    <3>3. r.at = "dialling" /\ r.item = item /\ r.hasAuthed = FALSE
      BY <3>2
    <3>4. r.weInitiated = TRUE
      BY <3>2, Zenon
    <3>5. r \in SessionRecord
      BY <3>1, <3>2, Zenon DEF SessionRecord
    <3>6. QED
      BY <3>3, <3>4, <3>5
  <2> HIDE DEF r
  <2>5. /\ sessions' \in [SessionIds -> SessionRecord \cup {Unused}]
        /\ sessions'[s] = r
        /\ \A t \in SessionIds : t # s => sessions'[t] = sessions[t]
    BY <2>2, <2>4 DEF IInv, TypeOK, Dialled, r
  <2>6. \A t \in SessionIds : t # s => Live(t)' = Live(t)
    BY <2>5 DEF Live
  <2>7. /\ Tail(peerQueue) \in Seq(Item) /\ Len(Tail(peerQueue)) = n - 1
        /\ \A k \in 1..(n - 1) : Tail(peerQueue)[k] = peerQueue[k + 1]
        /\ n \in Nat /\ DOMAIN peerQueue = 1..n /\ DOMAIN Tail(peerQueue) = 1..(n - 1)
    BY <1>3, HeadTailProperties, LenProperties DEF IInv, TypeOK
  <2> HIDE DEF n
  <2>8. /\ peerQueue' \in Seq(Item) /\ lost' \in 0..MaxLost
        /\ lost' = 0 => lost = 0 /\ peerQueue' = Tail(peerQueue)
    BY <2>1, <2>7, StoredQueue DEF IInv
  <2>9. TypeOK'
    BY <1>1, <2>1, <2>5, <2>8 DEF IInv, TypeOK
  <2>10. SessionsInOrder'
    <3>1. ASSUME NEW t \in SessionIds, sessions'[t] # Unused
          PROVE  /\ sessions'[t].hasAuthed => sessions'[t].at \in {"authed", "failing", "ended"}
                 /\ sessions'[t].at \in {"open", "checked", "authed", "refused", "failing"} =>
                      t \in connections' \/ sessions'[t].dropped
                 /\ sessions'[t].weInitiated => sessions'[t].item \in Item
      <4>1. CASE t = s
        BY <2>3, <2>4, <2>5, <4>1
      <4>2. CASE t # s
        BY <1>1, <2>5, <3>1, <4>2 DEF IInv, SessionsInOrder
      <4>3. QED
        BY <4>1, <4>2
    <3>2. QED
      BY <3>1 DEF SessionsInOrder
  <2>11. EntriesExplained'
    BY <1>1, <2>5, <2>6 DEF IInv, EntriesExplained
  <2>12. ASSUME lost' = 0 PROVE QueueInv'
    <3>1. QueueInv /\ peerQueue' = Tail(peerQueue)
      BY <2>8, <2>12 DEF IInv
    <3>2. /\ \A k \in 1..(n - 1) : peerQueue'[k] = peerQueue[k + 1] /\ k + 1 \in 1..n /\ k + 1 # 1
          /\ DOMAIN peerQueue' = 1..(n - 1)
      BY <2>7, <3>1
    <3>3. /\ \A k \in 1..(n - 1) : peerQueue'[k] # item
          /\ \A t \in SessionIds : Live(t) /\ sessions[t].weInitiated => sessions[t].item # item
          /\ item \in Urls => item \in endpoints
      BY <2>2, <2>7, <3>1, <3>2 DEF QueueInv, FirstIsFirst, EndpointsKnown
    <3>4. \A a, b \in 1..(n - 1) : peerQueue'[a] = peerQueue'[b] => a = b
      <4>1. \A i, j \in 1..n : peerQueue[i] = peerQueue[j] => i = j
        BY <2>7, <3>1 DEF QueueInv, OneOfEach
      <4>2. \A a, b \in 1..(n - 1) : a + 1 = b + 1 => a = b
        BY <2>7
      <4>3. QED
        BY <3>2, <4>1, <4>2
    <3>5. \A t \in SessionIds : t # s /\ Live(t)' /\ sessions'[t].weInitiated =>
            /\ Live(t) /\ sessions[t].weInitiated /\ sessions'[t].item = sessions[t].item
            /\ sessions'[t].item # item
            /\ \A k \in 1..(n - 1) : peerQueue'[k] # sessions'[t].item
      <4>1. \A t \in SessionIds : Live(t) /\ sessions[t].weInitiated =>
              \A k \in 1..(n - 1) : peerQueue[k + 1] # sessions[t].item
        BY <2>7, <3>1, <3>2 DEF QueueInv, OneOfEach
      <4>2. QED
        BY <2>5, <2>6, <3>2, <3>3, <4>1
    <3>6. sessions'[s].item = item
      BY <2>4, <2>5
    <3>7. ASSUME NEW t \in SessionIds, NEW u \in SessionIds,
                 Live(t)', sessions'[t].weInitiated, Live(u)', sessions'[u].weInitiated,
                 sessions'[t].item = sessions'[u].item
          PROVE  t = u
      <4>1. t # s /\ u # s => t = u
        BY <3>1, <3>5, <3>7 DEF QueueInv, OneOfEach
      <4>2. QED
        BY <3>5, <3>6, <3>7, <4>1
    <3>8. ASSUME NEW t \in SessionIds, Live(t)', sessions'[t].weInitiated, NEW k \in 1..(n - 1)
          PROVE  peerQueue'[k] # sessions'[t].item
      BY <3>3, <3>5, <3>6, <3>8
    <3>9. OneOfEach'
      BY <3>2, <3>4, <3>7, <3>8 DEF OneOfEach
    <3>10. FirstIsFirst'
      BY <1>1 DEF FirstIsFirst
    <3>11. EndpointsKnown'
      <4>1. \A k \in DOMAIN peerQueue' : peerQueue'[k] \in Urls => peerQueue'[k] \in endpoints'
        BY <1>1, <2>7, <3>1, <3>2 DEF QueueInv, EndpointsKnown
      <4>2. \A t \in SessionIds :
              sessions'[t] # Unused /\ sessions'[t].weInitiated /\ sessions'[t].item \in Urls =>
                sessions'[t].item \in endpoints'
        BY <1>1, <2>5, <3>1, <3>3, <3>6 DEF QueueInv, EndpointsKnown
      <4>3. QED
        BY <1>1, <4>1, <4>2 DEF EndpointsKnown
    <3>12. QED
      BY <3>9, <3>10, <3>11 DEF QueueInv
  <2>13. QED
    BY <2>9, <2>10, <2>11, <2>12 DEF IInv
<1>4. QED
  BY <1>2, <1>3

\* An inbound session touches the queue only through what it learns of its peer later.
LEMMA AcceptInv ==
  ASSUME IInv, NEW s \in SessionIds, NEW p \in Peers, Accept(s, p)
  PROVE  IInv'
<1> DEFINE r == Session("open", p, "none", FALSE)
<1>1. sessions' = [sessions EXCEPT ![s] = r]
  BY DEF Accept
<1>2. /\ r \in SessionRecord /\ r.at = "open" /\ r.weInitiated = FALSE /\ r.hasAuthed = FALSE
      /\ r.peer = p /\ r.item = "none"
  <2>1. "open" \in Steps /\ "none" \in Item \cup {"none"}
    BY DEF Steps
  <2>2. r = [at |-> "open", peer |-> p, weInitiated |-> FALSE, item |-> "none",
             hasAuthed |-> FALSE, lastError |-> FALSE, dropped |-> FALSE]
    BY DEF Session
  <2> HIDE DEF r
  <2>3. r.at = "open" /\ r.hasAuthed = FALSE /\ r.peer = p /\ r.item = "none"
    BY <2>2
  <2>4. r.weInitiated = FALSE
    BY <2>2, Zenon
  <2>5. r \in SessionRecord
    BY <2>1, <2>2, Zenon DEF SessionRecord
  <2>6. QED
    BY <2>3, <2>4, <2>5
<1> HIDE DEF r
<1>3. /\ sessions[s] = Unused /\ connections' = connections \cup {s}
      /\ UNCHANGED <<peerQueue, lost, endpoints, firstConnect, authedPeers, panicked>>
  BY DEF Accept
<1>4. /\ sessions' \in [SessionIds -> SessionRecord \cup {Unused}]
      /\ sessions'[s] = r
      /\ \A t \in SessionIds : t # s => sessions'[t] = sessions[t]
  BY <1>1, <1>2 DEF IInv, TypeOK
<1>5. \A t \in SessionIds : t # s => Live(t)' = Live(t)
  BY <1>4 DEF Live
<1>6. TypeOK'
  BY <1>3, <1>4 DEF IInv, TypeOK
<1>7. SessionsInOrder'
  <2>1. ASSUME NEW t \in SessionIds, sessions'[t] # Unused
        PROVE  /\ sessions'[t].hasAuthed => sessions'[t].at \in {"authed", "failing", "ended"}
               /\ sessions'[t].at \in {"open", "checked", "authed", "refused", "failing"} =>
                    t \in connections' \/ sessions'[t].dropped
               /\ sessions'[t].weInitiated => sessions'[t].item \in Item
    <3>1. CASE t = s
      BY <1>2, <1>3, <1>4, <3>1
    <3>2. CASE t # s
      BY <1>3, <1>4, <2>1, <3>2 DEF IInv, SessionsInOrder
    <3>3. QED
      BY <3>1, <3>2
  <2>2. QED
    BY <2>1 DEF SessionsInOrder
<1>8. EntriesExplained'
  BY <1>3, <1>4, <1>5 DEF IInv, EntriesExplained
<1>9. ASSUME QueueInv PROVE QueueInv'
  <2>1. \A t \in SessionIds : Live(t)' /\ sessions'[t].weInitiated =>
          t # s /\ Live(t) /\ sessions[t].weInitiated /\ sessions'[t].item = sessions[t].item
    BY <1>2, <1>4, <1>5
  <2>2. OneOfEach'
    BY <1>3, <1>9, <2>1 DEF QueueInv, OneOfEach
  <2>3. FirstIsFirst'
    BY <1>3, <1>9, <2>1 DEF QueueInv, FirstIsFirst
  <2>4. EndpointsKnown'
    BY <1>2, <1>3, <1>4, <1>9 DEF QueueInv, EndpointsKnown
  <2>5. QED
    BY <2>2, <2>3, <2>4 DEF QueueInv
<1>10. QED
  BY <1>3, <1>6, <1>7, <1>8, <1>9 DEF IInv

\* An item whose peer did not answer is put back at the end of the queue, where it is not yet.
LEMMA DialFailsInv ==
  ASSUME IInv, NEW s \in SessionIds, DialFails(s)
  PROVE  IInv'
<1>1. /\ sessions[s].at = "dialling" /\ Move(s, "ended") /\ StoreQueue(Requeued(s))
      /\ UNCHANGED <<endpoints, firstConnect, connections, authedPeers, panicked>>
  BY DEF DialFails, At
<1>2. /\ StepOf(s) /\ sessions'[s].at = "ended"
      /\ sessions'[s].hasAuthed = sessions[s].hasAuthed
      /\ sessions'[s].lastError = sessions[s].lastError
  BY <1>1, MoveIsStep DEF IInv, Steps
<1>3. Live(s) /\ ~Live(s)'
  BY <1>1, <1>2, InUse DEF IInv, Live
<1>4. /\ peerQueue' \in Seq(Item) /\ lost' \in 0..MaxLost
      /\ lost' = 0 => lost = 0 /\ peerQueue' = Requeued(s)
  <2>1. Requeued(s) \in Seq(Item)
    BY <1>3, RequeuedType DEF IInv, Live
  <2>2. QED
    BY <1>1, <2>1, StoredQueue DEF IInv
<1>5. lost' = 0 => QueueInv'
  BY <1>1, <1>2, <1>3, <1>4, QueueGrows DEF IInv
<1>6. ~sessions[s].hasAuthed
  BY <1>1, <1>3 DEF IInv, SessionsInOrder, Live
<1>7. SessionsInOrder'
  BY <1>1, <1>2, OrderKept
<1>8. EntriesExplained'
  BY <1>1, <1>2, <1>6, EntriesKept
<1>9. TypeOK'
  BY <1>1, <1>2, <1>4 DEF IInv, TypeOK, StepOf
<1>10. QED
  BY <1>5, <1>7, <1>8, <1>9 DEF IInv

\* A websocket that opens moves its session alone.
LEMMA DialSucceedsInv ==
  ASSUME IInv, NEW s \in SessionIds, DialSucceeds(s)
  PROVE  IInv'
<1>1. /\ sessions[s].at = "dialling" /\ Move(s, "dialled")
      /\ UNCHANGED <<peerQueue, lost, endpoints, firstConnect, connections, authedPeers, panicked>>
  BY DEF DialSucceeds, At
<1>2. /\ StepOf(s) /\ sessions'[s].at = "dialled"
      /\ sessions'[s].hasAuthed = sessions[s].hasAuthed
      /\ sessions'[s].lastError = sessions[s].lastError
  BY <1>1, MoveIsStep DEF IInv, Steps
<1>3. Live(s)
  BY <1>1, InUse DEF IInv, Live
<1>4. ~sessions[s].hasAuthed
  BY <1>1, <1>3 DEF IInv, SessionsInOrder, Live
<1>5. QueueInv => QueueInv'
  BY <1>1, <1>2, <1>3, QueueUntouched
<1>6. SessionsInOrder'
  BY <1>1, <1>2, <1>4, OrderKept
<1>7. EntriesExplained'
  BY <1>1, <1>2, <1>4, EntriesKept
<1>8. TypeOK'
  BY <1>1, <1>2 DEF IInv, TypeOK, StepOf
<1>9. QED
  BY <1>1, <1>5, <1>6, <1>7, <1>8 DEF IInv

\* A session is registered for the Broadcaster before it can authenticate.
LEMMA OnConnectInv ==
  ASSUME IInv, NEW s \in SessionIds, OnConnect(s)
  PROVE  IInv'
<1> DEFINE at == IF At(s, "dialled") THEN "open" ELSE "ended"
<1>1. /\ sessions[s].at \in {"dialled", "early"} /\ Move(s, at)
      /\ at = (IF sessions[s].at = "dialled" THEN "open" ELSE "ended")
      /\ connections' = connections \cup {s}
      /\ UNCHANGED <<peerQueue, lost, endpoints, firstConnect, authedPeers, panicked>>
  BY DEF OnConnect, At
<1> HIDE DEF at
<1>2. at \in Steps
  BY <1>1 DEF Steps
<1>3. /\ StepOf(s) /\ sessions'[s].at = at
      /\ sessions'[s].hasAuthed = sessions[s].hasAuthed
      /\ sessions'[s].lastError = sessions[s].lastError
      /\ sessions'[s].dropped = sessions[s].dropped
  BY <1>1, <1>2, MoveIsStep DEF IInv
<1>4. sessions[s] # Unused /\ sessions'[s] # Unused
  BY <1>3, RecordIsUsed DEF StepOf
<1>5. ~sessions[s].hasAuthed
  BY <1>1, <1>4 DEF IInv, SessionsInOrder
<1>6. Live(s)' => Live(s)
  BY <1>1, <1>3, <1>4 DEF Live
<1>7. QueueInv => QueueInv'
  BY <1>1, <1>3, <1>6, QueueUntouched
<1>8. SessionsInOrder'
  BY <1>1, <1>3, <1>5, OrderKept
<1>9. EntriesExplained'
  BY <1>1, <1>3, <1>5, EntriesKept
<1>10. TypeOK'
  BY <1>1, <1>3 DEF IInv, TypeOK, StepOf
<1>11. QED
  BY <1>1, <1>7, <1>8, <1>9, <1>10 DEF IInv

\* The check of authedPeers changes nothing but where the session stands.
LEMMA CheckAuthedInv ==
  ASSUME IInv, NEW s \in SessionIds, CheckAuthed(s)
  PROVE  IInv'
<1> DEFINE at == IF sessions[s].peer \in authedPeers THEN "refused" ELSE "checked"
<1>1. /\ sessions[s].at = "open" /\ Move(s, at) /\ at \in {"refused", "checked"}
      /\ UNCHANGED <<peerQueue, lost, endpoints, firstConnect, connections, authedPeers, panicked>>
  BY DEF CheckAuthed, At
<1> HIDE DEF at
<1>2. at \in Steps
  BY <1>1 DEF Steps
<1>3. /\ StepOf(s) /\ sessions'[s].at = at
      /\ sessions'[s].hasAuthed = sessions[s].hasAuthed
      /\ sessions'[s].lastError = sessions[s].lastError
      /\ sessions'[s].dropped = sessions[s].dropped
  BY <1>1, <1>2, MoveIsStep DEF IInv
<1>4. sessions[s] # Unused
  BY <1>3, RecordIsUsed DEF StepOf
<1>5. ~sessions[s].hasAuthed /\ (s \in connections \/ sessions[s].dropped)
  BY <1>1, <1>4 DEF IInv, SessionsInOrder
<1>6. Live(s)
  BY <1>1, <1>4 DEF Live
<1>7. QueueInv => QueueInv'
  BY <1>1, <1>3, <1>6, QueueUntouched
<1>8. SessionsInOrder'
  BY <1>1, <1>3, <1>5, OrderKept
<1>9. EntriesExplained'
  BY <1>1, <1>3, <1>5, EntriesKept
<1>10. TypeOK'
  BY <1>1, <1>3 DEF IInv, TypeOK, StepOf
<1>11. QED
  BY <1>1, <1>7, <1>8, <1>9, <1>10 DEF IInv

\* An entry is made for a session that authenticates, whose peer leaves the queue.
LEMMA InsertAuthedInv ==
  ASSUME IInv, NEW s \in SessionIds, InsertAuthed(s)
  PROVE  IInv'
<1>1. /\ sessions[s].at = "checked"
      /\ authedPeers' = authedPeers \cup {sessions[s].peer}
      /\ StoreQueue(WithoutFirst(peerQueue, sessions[s].peer))
      /\ sessions' = [sessions EXCEPT ![s].at = "authed", ![s].hasAuthed = TRUE]
      /\ UNCHANGED <<endpoints, firstConnect, connections, panicked>>
  BY DEF InsertAuthed, At
<1>2. "authed" \in Steps
  BY DEF Steps
<1>3. /\ StepOf(s) /\ sessions'[s].at = "authed" /\ sessions'[s].hasAuthed = TRUE
      /\ sessions'[s].dropped = sessions[s].dropped
  BY <1>1, <1>2, AuthedIsStep DEF IInv
<1>4. sessions[s] # Unused /\ sessions'[s] # Unused
  BY <1>3, RecordIsUsed DEF StepOf
<1>5. /\ Live(s) /\ Live(s)' /\ sessions[s].peer \in Peers
      /\ s \in connections \/ sessions[s].dropped
  BY <1>1, <1>3, <1>4 DEF IInv, SessionsInOrder, Live, StepOf, SessionRecord
<1> DEFINE queue == WithoutFirst(peerQueue, sessions[s].peer)
<1>6. PICK i \in 1..(Len(peerQueue) + 1) : Out(queue, peerQueue, i)
  BY WithoutFirstTakesOne DEF IInv, TypeOK
<1>12. StoreQueue(queue) /\ queue \in Seq(Item)
  BY <1>1, <1>6 DEF Out
<1> HIDE DEF queue
<1>13. /\ peerQueue' \in Seq(Item) /\ lost' \in 0..MaxLost
       /\ lost' = 0 => lost = 0 /\ peerQueue' = queue
  BY <1>12, StoredQueue DEF IInv
<1>7. ASSUME lost' = 0 PROVE QueueInv'
  <2>1. QueueInv /\ Out(peerQueue', peerQueue, i)
    BY <1>6, <1>7, <1>13 DEF IInv
  <2>2. QED
    BY <1>1, <1>3, <1>5, <2>1, QueueShrinks DEF IInv
<1>8. SessionsInOrder'
  BY <1>1, <1>3, <1>5, OrderKept
<1>9. EntriesExplained'
  <2>1. ASSUME NEW p \in authedPeers'
        PROVE  \E t \in SessionIds :
                 /\ sessions'[t] # Unused
                 /\ sessions'[t].peer = p
                 /\ sessions'[t].hasAuthed
                 /\ Live(t)' \/ sessions'[t].lastError
    <3>1. CASE p = sessions[s].peer
      BY <1>3, <1>4, <1>5, <3>1 DEF StepOf
    <3>2. CASE p # sessions[s].peer
      <4>1. PICK t \in SessionIds :
              /\ sessions[t] # Unused
              /\ sessions[t].peer = p
              /\ sessions[t].hasAuthed
              /\ Live(t) \/ sessions[t].lastError
        BY <1>1, <2>1, <3>2 DEF IInv, EntriesExplained
      <4>2. t # s
        BY <3>2, <4>1
      <4>3. QED
        BY <1>3, <4>1, <4>2 DEF StepOf, Live
    <3>3. QED
      BY <3>1, <3>2
  <2>2. QED
    BY <2>1 DEF EntriesExplained
<1>10. TypeOK'
  BY <1>1, <1>3, <1>5, <1>13 DEF IInv, TypeOK, StepOf
<1>11. QED
  BY <1>7, <1>8, <1>9, <1>10 DEF IInv

\* Both ways of failing.
LEMMA FailingInv ==
  ASSUME IInv, NEW s \in SessionIds, sessions[s].at \in {"open", "authed"},
         sessions' = [sessions EXCEPT ![s].at = "failing", ![s].lastError = TRUE],
         UNCHANGED <<peerQueue, lost, endpoints, firstConnect, connections, authedPeers, panicked>>
  PROVE  IInv'
<1>1. "failing" \in Steps
  BY DEF Steps
<1>2. /\ StepOf(s) /\ sessions'[s].at = "failing"
      /\ sessions'[s].hasAuthed = sessions[s].hasAuthed
      /\ sessions'[s].dropped = sessions[s].dropped
  BY <1>1, ErrorIsStep DEF IInv
<1>3. sessions[s] # Unused /\ sessions'[s] # Unused
  BY <1>2, RecordIsUsed DEF StepOf
<1>4. (s \in connections \/ sessions[s].dropped) /\ Live(s) /\ Live(s)'
  BY <1>2, <1>3 DEF IInv, SessionsInOrder, Live
<1>5. QueueInv => QueueInv'
  BY <1>2, <1>4, QueueUntouched
<1>6. SessionsInOrder'
  BY <1>2, <1>4, OrderKept
<1>7. EntriesExplained'
  BY <1>2, <1>4, EntriesKept
<1>8. TypeOK'
  BY <1>2 DEF IInv, TypeOK, StepOf
<1>9. QED
  BY <1>5, <1>6, <1>7, <1>8 DEF IInv

\* A session that ends takes its entry along, or keeps it after an error.
LEMMA OnEndInv ==
  ASSUME IInv, NEW s \in SessionIds, OnEnd(s)
  PROVE  IInv'
<1> DEFINE at == IF sessions[s].at = "dialled" THEN "early" ELSE "ended"
<1>1. sessions[s].at \in {"dialled", "open", "authed", "refused", "failing"}
  BY DEF OnEnd
<1>2. UNCHANGED <<endpoints, firstConnect>>
  BY DEF OnEnd
<1>3. PICK lastError \in MayHaveError(s) :
        /\ sessions' = [sessions EXCEPT ![s].at = at, ![s].lastError = lastError]
        /\ IF lastError
             THEN UNCHANGED <<peerQueue, lost, connections, authedPeers, panicked>>
             ELSE /\ StoreQueue(Requeued(s))
                  /\ connections' = connections \ {s}
                  /\ RemoveAuthedPeer(s)
  BY DEF OnEnd
<1>4. at \in Steps /\ at \in {"early", "ended"} /\ (at = "early" => sessions[s].at = "dialled")
  BY DEF Steps
<1> HIDE DEF at
<1>5. sessions[s] \in SessionRecord /\ sessions[s] # Unused
  BY <1>1, InUse DEF IInv
<1>6. lastError \in BOOLEAN
  BY <1>5 DEF MayHaveError, SessionRecord
<1>7. sessions[s].hasAuthed => lastError = sessions[s].lastError
  BY <1>5 DEF MayHaveError, IInv, SessionsInOrder, At
<1>8. /\ StepOf(s) /\ sessions'[s].at = at /\ sessions'[s].lastError = lastError
      /\ sessions'[s].hasAuthed = sessions[s].hasAuthed
  BY <1>1, <1>3, <1>4, <1>6, ErrorIsStep DEF IInv
<1>9. Live(s) /\ ~Live(s)'
  BY <1>1, <1>4, <1>5, <1>8 DEF Live
<1>10. sessions[s].hasAuthed => at = "ended"
  BY <1>4, <1>5 DEF IInv, SessionsInOrder
<1>11. CASE lastError
  <2>1. UNCHANGED <<peerQueue, lost, connections, authedPeers, panicked>>
    BY <1>3, <1>11
  <2>2. QueueInv => QueueInv'
    BY <1>2, <1>8, <1>9, <2>1, QueueUntouched
  <2>3. SessionsInOrder'
    BY <1>4, <1>8, <1>10, <2>1, OrderKept
  <2>4. EntriesExplained'
    BY <1>8, <1>11, <2>1, EntriesKept
  <2>5. TypeOK'
    BY <1>2, <1>8, <2>1 DEF IInv, TypeOK, StepOf
  <2>6. QED
    BY <2>1, <2>2, <2>3, <2>4, <2>5 DEF IInv
<1>12. CASE ~lastError
  <2>1. StoreQueue(Requeued(s)) /\ connections' = connections \ {s} /\ RemoveAuthedPeer(s)
    BY <1>3, <1>12
  <2>8. /\ peerQueue' \in Seq(Item) /\ lost' \in 0..MaxLost
        /\ lost' = 0 => lost = 0 /\ peerQueue' = Requeued(s)
    <3>1. Requeued(s) \in Seq(Item)
      BY <1>5, RequeuedType DEF IInv
    <3>2. QED
      BY <2>1, <3>1, StoredQueue DEF IInv
  <2>2. lost' = 0 => QueueInv'
    BY <1>2, <1>8, <1>9, <2>8, QueueGrows DEF IInv
  <2>3. SessionsInOrder'
    BY <1>4, <1>8, <1>10, <2>1, OrderKept
  <2>4. /\ authedPeers' \subseteq authedPeers
        /\ sessions[s].hasAuthed => sessions[s].peer \notin authedPeers'
        /\ panicked' \in {panicked, "authedPeers missing peer id"}
    BY <2>1 DEF RemoveAuthedPeer
  <2>5. EntriesExplained'
    BY <1>8, <2>4, EntriesKept
  <2>6. TypeOK'
    BY <1>2, <1>8, <2>1, <2>4, <2>8 DEF IInv, TypeOK, StepOf
  <2>7. QED
    BY <2>2, <2>3, <2>5, <2>6 DEF IInv
<1>13. QED
  BY <1>11, <1>12

\* A session that the Broadcaster drops is marked as dropped, and nothing else of it
\* changes.
LEMMA BroadcasterDropsInv ==
  ASSUME IInv, NEW s \in SessionIds, BroadcasterDrops(s)
  PROVE  IInv'
<1> DEFINE r == sessions[s]
           r1 == [r EXCEPT !.dropped = TRUE]
<1>1. /\ sessions[s].hasAuthed /\ connections' = connections \ {s}
      /\ sessions' = [sessions EXCEPT ![s].dropped = TRUE]
      /\ UNCHANGED <<peerQueue, lost, endpoints, firstConnect, authedPeers, panicked>>
  BY DEF BroadcasterDrops
<1>2. sessions \in [SessionIds -> SessionRecord \cup {Unused}] /\ connections \subseteq SessionIds
  BY DEF IInv, TypeOK
<1>3. sessions' = [sessions EXCEPT ![s] = r1]
  BY <1>1, <1>2, Zenon
<1>4. sessions[s] # Unused
  BY DEF BroadcasterDrops
<1>5. r \in SessionRecord /\ r = sessions[s]
  BY <1>2, <1>4
<1> HIDE DEF r
<1>6. /\ r1 \in SessionRecord /\ r1.at = r.at /\ r1.peer = r.peer /\ r1.item = r.item
      /\ r1.weInitiated = r.weInitiated /\ r1.hasAuthed = r.hasAuthed
      /\ r1.lastError = r.lastError /\ r1.dropped = TRUE
  BY <1>5 DEF SessionRecord
<1> HIDE DEF r1
<1>7. /\ sessions'[s] = r1
      /\ \A t \in SessionIds \ {s} : sessions'[t] = sessions[t]
      /\ sessions' \in [SessionIds -> SessionRecord \cup {Unused}]
  BY <1>2, <1>3, <1>6
<1>8. StepOf(s)
  BY <1>5, <1>6, <1>7 DEF StepOf
<1>9. Live(s)' = Live(s)
  BY <1>5, <1>6, <1>7, RecordIsUsed DEF Live
<1>10. QueueInv => QueueInv'
  BY <1>1, <1>8, <1>9, QueueUntouched
<1>11. SessionsInOrder'
  <2>1. r.hasAuthed => r.at \in {"authed", "failing", "ended"}
    BY <1>4, <1>5 DEF IInv, SessionsInOrder
  <2>2. QED
    BY <1>1, <1>6, <1>7, <1>8, <2>1, OrderKept
<1>12. EntriesExplained'
  BY <1>1, <1>5, <1>6, <1>7, <1>8, <1>9, EntriesKept
<1>13. TypeOK'
  BY <1>1, <1>2, <1>7 DEF IInv, TypeOK
<1>14. QED
  BY <1>1, <1>10, <1>11, <1>12, <1>13 DEF IInv

\* Every step preserves the invariant.
LEMMA NextInv == IInv /\ [Next]_vars => IInv'
<1> SUFFICES ASSUME IInv, [Next]_vars PROVE IInv'
  OBVIOUS
<1>1. CASE \E u \in Urls : LearnEndpoint(u)
  BY <1>1, LearnEndpointInv
<1>2. CASE \E i \in DOMAIN peerQueue : PickFirst(i)
  BY <1>2, PickFirstInv
<1>3. ASSUME NEW s \in SessionIds,
             \/ TakeFirst(s) \/ DialFails(s) \/ DialSucceeds(s) \/ OnConnect(s)
             \/ \E p \in Peers : Accept(s, p)
             \/ CheckAuthed(s) \/ InsertAuthed(s) \/ AuthRefusedByPeer(s) \/ CommsFail(s)
             \/ OnEnd(s) \/ BroadcasterDrops(s)
      PROVE  IInv'
  <2>1. AuthRefusedByPeer(s) => IInv'
    BY FailingInv DEF AuthRefusedByPeer, At
  <2>2. CommsFail(s) => IInv'
    BY FailingInv DEF CommsFail, At
  <2>3. QED
    BY <1>3, <2>1, <2>2, TakeFirstInv, DialFailsInv, DialSucceedsInv, OnConnectInv, AcceptInv,
       CheckAuthedInv, InsertAuthedInv, OnEndInv, BroadcasterDropsInv
<1>4. CASE UNCHANGED vars
  <2>1. \A t \in SessionIds : Live(t)' = Live(t) /\ sessions'[t] = sessions[t]
    BY <1>4 DEF vars, Live
  <2>2. TypeOK' /\ SessionsInOrder' /\ EntriesExplained'
    BY <1>4, <2>1 DEF vars, IInv, TypeOK, SessionsInOrder, EntriesExplained
  <2>3. QueueInv => QueueInv'
    BY <1>4, <2>1 DEF vars, QueueInv, OneOfEach, FirstIsFirst, EndpointsKnown
  <2>4. QED
    BY <1>4, <2>2, <2>3 DEF vars, IInv
<1>5. QED
  BY <1>1, <1>2, <1>3, <1>4 DEF Next

(***************************************************************************)
(* The theorems.                                                           *)
(***************************************************************************)
LEMMA Invariance == Spec => []IInv
BY InitInv, NextInv, PTL DEF Spec

\* Every reachable state of the peer manager is well typed; in particular only a
\* peer that the database knows is ever queued by its id.
THEOREM TypeCorrect == Spec => []TypeOK
<1>1. IInv => TypeOK
  BY DEF IInv
<1>2. QED
  BY <1>1, Invariance, PTL

\* In whatever order the goroutines update the queue, as long as no update is lost:
\* StartOutbound and OnEnd never have a peer's id, or a URL, queued twice, dialled
\* twice, or queued while it is dialled.
THEOREM DialledOnlyOnce == Spec => []DialledOnce
<1>1. IInv => DialledOnce
  <2> SUFFICES ASSUME IInv, lost = 0, NEW item \in Item
               PROVE  Cardinality(Queued(item)) + Cardinality(Dialling(item)) <= 1
    BY DEF DialledOnce, Once
  <2>1. OneOfEach
    BY DEF IInv, QueueInv
  <2>2. \A i, j \in Queued(item) : i = j
    BY <2>1 DEF OneOfEach, Queued
  <2>3. \A s, t \in Dialling(item) : s = t
    BY <2>1 DEF OneOfEach, Dialling
  <2>4. Queued(item) = {} \/ Dialling(item) = {}
    BY <2>1 DEF OneOfEach, Queued, Dialling
  <2>5. /\ Cardinality(Queued(item)) \in {0, 1}
        /\ Cardinality(Queued(item)) = 0 <=> Queued(item) = {}
    BY <2>2, AtMostOne
  <2>6. /\ Cardinality(Dialling(item)) \in {0, 1}
        /\ Cardinality(Dialling(item)) = 0 <=> Dialling(item) = {}
    BY <2>3, AtMostOne
  <2>7. QED
    BY <2>4, <2>5, <2>6
<1>2. QED
  BY <1>1, Invariance, PTL

\* An entry of authedPeers always belongs to a session that authenticated and is
\* live, or that ended with an error.
THEOREM EntriesHaveReason == Spec => []EntriesExplained
<1>1. IInv => EntriesExplained
  BY DEF IInv
<1>2. QED
  BY <1>1, Invariance, PTL

\* A live session that has authenticated is registered for the Broadcaster, unless
\* the Broadcaster could not write to it.
THEOREM BroadcastReachesAuthed == Spec => []AuthedAreBroadcastTo
<1>1. IInv => AuthedAreBroadcastTo
  BY DEF IInv, SessionsInOrder, AuthedAreBroadcastTo, Live
<1>2. QED
  BY <1>1, Invariance, PTL

=============================================================================
