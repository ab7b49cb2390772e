-------------------------- MODULE SequenceSwapProofs --------------------------
(***************************************************************************)
(* What the sequence swap promises, proved for any number of accounts, any *)
(* page size, any bound on the server's log and every interleaving of the  *)
(* server's writes with the handler's two reads and the client's steps.    *)
(***************************************************************************)
EXTENDS SequenceSwap, DeltaLogOpsProofs

-----------------------------------------------------------------------------
(***************************************************************************)
(* The inductive invariant.                                                *)
(***************************************************************************)

\* An account has content the reader may see.
Visible(a) == a \in enabled /\ stamp[a] # 0

\* The log tells of every account what the accounts bucket holds.
RowsFollowContent ==
  /\ \A r \in disk.log : ~r.removed <=> Visible(r.account)
  /\ \A a \in Accounts : Visible(a) => disk.index[a] # 0

\* No timestamp is of the future, and the client never holds content newer
\* than the server's.
NotAhead ==
  \A a \in Accounts :
    /\ stamp[a] <= disk.seq
    /\ have[a] <= disk.seq
    /\ stamp[a] # 0 => have[a] <= stamp[a]

\* The position follows the page's numbers.
Positioned ==
  /\ start <= frontier /\ frontier <= disk.seq + 1
  /\ pc = "idle" => frontier = 1 /\ start = 1
  /\ pc = "asked" => frontier = start
  /\ pc \in {"processing", "fetching", "saving"} =>
       (frontier = start /\ last = start) \/ frontier = last + 1
  /\ hpc = "accounts" => pc = "asked"
  /\ pc \in {"idle", "asked"} => items = {}

\* What of a page is still to be dealt with: numbers from the position on, each
\* row told as the log has it if the log still has it, none of the log's rows
\* between the position and the page's end left out.
PageOf(page, store, position) ==
  /\ \A x \in page : position <= x.seq /\ x.seq <= store.seq
  /\ \A x, y \in page : x.seq = y.seq => x = y
  /\ \A x \in page : \A r \in store.log :
       r.seq = x.seq => r.account = x.account /\ r.removed = x.removed
  /\ \A x \in page : \A r \in store.log :
       position <= r.seq /\ r.seq <= x.seq => \E y \in page : y.seq = r.seq

\* The bundle the client waits to save is as new as the account's current row.
AnswerIsCurrent ==
  pc = "saving" =>
    \A item \in items : IsNext(item) =>
      /\ answer <= disk.seq
      /\ stamp[item.account] # 0 => answer <= stamp[item.account]
      /\ \A r \in disk.log :
           r.seq = item.seq /\ ~r.removed => answer = stamp[item.account]

IInv ==
  /\ TypeOK
  /\ IsFiniteSet(disk.log)
  /\ StoreOK(disk)
  /\ RowsFollowContent
  /\ NotAhead
  /\ Positioned
  /\ hpc = "accounts" => PageOf(hRows, disk, frontier)
  /\ PageOf(items, disk, frontier)
  /\ ItemsAreCurrent
  /\ AnswerIsCurrent
  /\ CaughtUp

-----------------------------------------------------------------------------
(***************************************************************************)
(* The server's writes.                                                    *)
(***************************************************************************)

\* What a write of account a does to what the swap relies on: rows appear only
\* past the sequence and only for a, no older row of a tells of content, and
\* what else changes is a's own.
Written(a) ==
  /\ disk' \in Store /\ IsFiniteSet(disk.log)' /\ StoreOK(disk)'
  /\ disk.seq <= disk'.seq
  /\ \A r \in disk'.log : r \in disk.log \/ (r.account = a /\ r.seq > disk.seq)
  /\ \A r \in disk'.log : r.account = a /\ ~r.removed => r.seq > disk.seq
  /\ RowsFollowContent'
  /\ enabled' \in SUBSET Accounts
  /\ stamp' \in [Accounts -> Nat]
  /\ stamp'[a] = 0 \/ stamp'[a] = stamp[a] \/ stamp'[a] > disk.seq
  /\ stamp'[a] <= disk'.seq
  /\ \A b \in Accounts \ {a} : stamp'[b] = stamp[b]
  /\ UNCHANGED <<handlerVars, clientVars>>

\* A logged write that leaves the row telling what the account has become.
LEMMA LoggedWrite ==
  ASSUME IInv, NEW a \in Accounts, NEW removal \in BOOLEAN,
         disk' = LogUpdate(disk, a, removal),
         enabled' \in SUBSET Accounts,
         stamp' \in [Accounts -> Nat],
         ~removal <=> Visible(a)',
         stamp'[a] = 0 \/ stamp'[a] = stamp[a] \/ stamp'[a] = disk'.seq,
         \A b \in Accounts \ {a} : stamp'[b] = stamp[b] /\ (b \in enabled' <=> b \in enabled),
         UNCHANGED <<handlerVars, clientVars>>
  PROVE  Written(a)
<1> DEFINE seqNo == disk.seq + 1
           row   == [seq |-> seqNo, account |-> a, removed |-> removal]
<1>1. disk \in Store /\ StoreOK(disk) /\ IsFiniteSet(disk.log) /\ stamp \in [Accounts -> Nat]
  BY DEF IInv, TypeOK
<1>2. disk.seq \in Nat /\ disk.log \subseteq Row /\ disk.index \in [Accounts -> Nat]
  BY <1>1 DEF Store
<1>3. disk' \in Store /\ StoreOK(disk')
  BY <1>1, LogUpdateType, LogUpdateKeepsOK
<1>4. /\ disk'.seq = seqNo
      /\ disk'.index = [disk.index EXCEPT ![a] = seqNo]
      /\ disk'.log = (disk.log \ {r \in disk.log : r.seq = disk.index[a] \/ r.seq = seqNo}) \cup {row}
  BY DEF LogUpdate
<1>5. IsFiniteSet(disk'.log)
  <2> DEFINE kept == disk.log \ {r \in disk.log : r.seq = disk.index[a] \/ r.seq = seqNo}
  <2>1. IsFiniteSet(kept)
    <3>1. kept \subseteq disk.log
      OBVIOUS
    <3>2. QED
      BY <3>1, <1>1, FS_Subset
  <2>2. disk'.log = kept \cup {row}
    BY <1>4
  <2> HIDE DEF kept, row
  <2>3. QED
    BY <2>1, <2>2, FS_AddElement
<1>6. \A r \in disk'.log : r = row \/ (r \in disk.log /\ r.account # a)
  BY <1>1, <1>4 DEF StoreOK, RowsIndexed
<1>7. row.seq = seqNo /\ row.account = a /\ row.removed = removal
  OBVIOUS
<1>8. RowsFollowContent'
  <2>1. ASSUME NEW r \in disk'.log PROVE ~r.removed <=> Visible(r.account)'
    <3>1. CASE r = row
      BY <3>1, <1>7
    <3>2. CASE r \in disk.log /\ r.account # a
      <4>1. r.account \in Accounts
        BY <3>2, <1>2 DEF Row
      <4>2. Visible(r.account)' <=> Visible(r.account)
        BY <3>2, <4>1 DEF Visible
      <4>3. QED
        BY <3>2, <4>2 DEF IInv, RowsFollowContent
    <3>3. QED
      BY <1>6, <3>1, <3>2
  <2>2. ASSUME NEW b \in Accounts, Visible(b)' PROVE disk'.index[b] # 0
    <3>1. CASE b = a
      BY <3>1, <1>2, <1>4
    <3>2. CASE b # a
      <4>1. Visible(b)
        BY <3>2, <2>2 DEF Visible
      <4>2. disk.index[b] # 0
        BY <4>1 DEF IInv, RowsFollowContent
      <4>3. QED
        BY <3>2, <4>2, <1>2, <1>4
    <3>3. QED
      BY <3>1, <3>2
  <2>3. QED
    BY <2>1, <2>2 DEF RowsFollowContent
<1>9. \A r \in disk'.log : r \in disk.log \/ (r.account = a /\ r.seq > disk.seq)
  BY <1>2, <1>6, <1>7
<1>10. \A r \in disk'.log : r.account = a /\ ~r.removed => r.seq > disk.seq
  BY <1>2, <1>6, <1>7
<1>11. stamp'[a] <= disk'.seq /\ (stamp'[a] = 0 \/ stamp'[a] = stamp[a] \/ stamp'[a] > disk.seq)
  BY <1>1, <1>2, <1>4 DEF IInv, NotAhead
<1>12. disk.seq <= disk'.seq
  BY <1>2, <1>4
<1>13. QED
  BY <1>3, <1>5, <1>8, <1>9, <1>10, <1>11, <1>12 DEF Written

\* Every write of the server is one of an account.
LEMMA WriteIsWritten ==
  ASSUME IInv, ServerWrite
  PROVE  \E a \in Accounts : Written(a)
<1>1. /\ disk \in Store /\ StoreOK(disk) /\ IsFiniteSet(disk.log)
      /\ enabled \in SUBSET Accounts /\ stamp \in [Accounts -> Nat]
  BY DEF IInv, TypeOK
<1>2. disk.seq \in Nat /\ disk.log \subseteq Row
  BY <1>1 DEF Store
<1>3. PICK a \in Accounts :
        \/ SaveContent(a)
        \/ Disable(a)
        \/ ReenableWithContent(a)
        \/ ReenableWithoutContent(a)
        \/ DropContent(a)
  BY DEF ServerWrite
<1>4. SUFFICES Written(a)
  OBVIOUS
<1>5. CASE SaveContent(a)
  <2>1. /\ disk' = LogUpdate(disk, a, FALSE)
        /\ stamp' = [stamp EXCEPT ![a] = disk'.seq]
        /\ enabled' = enabled /\ a \in enabled
        /\ UNCHANGED <<handlerVars, clientVars>>
    BY <1>5 DEF SaveContent
  <2>2. disk'.seq = disk.seq + 1 /\ disk.seq + 1 \in Nat \ {0}
    BY <2>1, <1>2 DEF LogUpdate
  <2>3. /\ stamp' \in [Accounts -> Nat] /\ stamp'[a] = disk'.seq
        /\ \A b \in Accounts \ {a} : stamp'[b] = stamp[b]
    <3>1. stamp' = [stamp EXCEPT ![a] = disk.seq + 1]
      BY <2>1, <2>2
    <3>2. QED
      BY <3>1, <2>2, <1>1
  <2>4. Visible(a)'
    BY <2>1, <2>2, <2>3 DEF Visible
  <2>5. QED
    BY <2>1, <2>3, <2>4, <1>1, LoggedWrite
<1>6. CASE Disable(a)
  <2>1. /\ enabled' = enabled \ {a}
        /\ disk' = IF stamp[a] # 0 THEN LogUpdate(disk, a, TRUE) ELSE disk
        /\ stamp' = stamp
        /\ UNCHANGED <<handlerVars, clientVars>>
    BY <1>6 DEF Disable
  <2>2. ~Visible(a)'
    BY <2>1 DEF Visible
  <2>3. CASE stamp[a] # 0
    BY <2>1, <2>2, <2>3, <1>1, LoggedWrite
  <2>4. CASE stamp[a] = 0
    <3>1. disk' = disk
      BY <2>1, <2>4
    <3>2. \A b \in Accounts : Visible(b)' <=> Visible(b)
      BY <2>1, <2>4 DEF Visible
    <3>3. RowsFollowContent'
      <4>1. \A r \in disk.log : r.account \in Accounts
        BY <1>2 DEF Row
      <4>2. QED
        BY <3>1, <3>2, <4>1 DEF IInv, RowsFollowContent
    <3>4. \A r \in disk'.log : r.account = a => r.removed
      BY <3>1, <2>4 DEF IInv, RowsFollowContent, Visible
    <3>5. stamp'[a] <= disk'.seq
      BY <2>1, <2>4, <3>1, <1>2
    <3>6. disk' \in Store /\ IsFiniteSet(disk.log)' /\ StoreOK(disk)'
      BY <3>1, <1>1
    <3>7. disk.seq <= disk'.seq
      BY <3>1, <1>2
    <3>8. \A r \in disk'.log : r \in disk.log
      BY <3>1
    <3>9. enabled' \in SUBSET Accounts
      BY <2>1, <1>1
    <3>10. QED
      BY <2>1, <3>3, <3>4, <3>5, <3>6, <3>7, <3>8, <3>9, <1>1 DEF Written
  <2>5. QED
    BY <2>3, <2>4
<1>7. CASE ReenableWithContent(a)
  <2>1. /\ enabled' = enabled \cup {a} /\ stamp[a] # 0
        /\ disk' = LogUpdate(disk, a, FALSE)
        /\ stamp' = stamp
        /\ UNCHANGED <<handlerVars, clientVars>>
    BY <1>7 DEF ReenableWithContent
  <2>2. Visible(a)'
    BY <2>1 DEF Visible
  <2>3. QED
    BY <2>1, <2>2, <1>1, LoggedWrite
<1>8. CASE ReenableWithoutContent(a)
  <2>1. /\ enabled' = enabled \cup {a} /\ a \notin enabled
        /\ stamp' = [stamp EXCEPT ![a] = 0]
        /\ disk' = disk
        /\ UNCHANGED <<handlerVars, clientVars>>
    BY <1>8 DEF ReenableWithoutContent
  <2>2. /\ stamp' \in [Accounts -> Nat] /\ stamp'[a] = 0
        /\ \A b \in Accounts \ {a} : stamp'[b] = stamp[b]
    BY <2>1, <1>1
  <2>3. \A b \in Accounts : Visible(b)' <=> Visible(b)
    <3>1. ~Visible(a) /\ ~Visible(a)'
      BY <2>1, <2>2 DEF Visible
    <3>2. \A b \in Accounts \ {a} : Visible(b)' <=> Visible(b)
      BY <2>1, <2>2 DEF Visible
    <3>3. QED
      BY <3>1, <3>2
  <2>4. RowsFollowContent'
    <3>1. \A r \in disk.log : r.account \in Accounts
      BY <1>2 DEF Row
    <3>2. QED
      BY <2>1, <2>3, <3>1 DEF IInv, RowsFollowContent
  <2>5. \A r \in disk'.log : r.account = a => r.removed
    BY <2>1 DEF IInv, RowsFollowContent, Visible
  <2>6. QED
    BY <2>1, <2>2, <2>4, <2>5, <1>1, <1>2 DEF Written
<1>9. CASE DropContent(a)
  <2>1. /\ disk' = LogUpdate(disk, a, TRUE)
        /\ stamp' = [stamp EXCEPT ![a] = 0]
        /\ enabled' = enabled
        /\ UNCHANGED <<handlerVars, clientVars>>
    BY <1>9 DEF DropContent
  <2>2. /\ stamp' \in [Accounts -> Nat] /\ stamp'[a] = 0
        /\ \A b \in Accounts \ {a} : stamp'[b] = stamp[b]
    BY <2>1, <1>1
  <2>3. ~Visible(a)'
    BY <2>2 DEF Visible
  <2>4. QED
    BY <2>1, <2>2, <2>3, <1>1, LoggedWrite
<1>10. QED
  BY <1>3, <1>5, <1>6, <1>7, <1>8, <1>9

\* A page stays a page when rows are added past the sequence and others go.
LEMMA PageOutlivesWrites ==
  ASSUME NEW old \in Store, NEW new \in Store, old.seq <= new.seq,
         \A r \in new.log : r \in old.log \/ r.seq > old.seq,
         NEW position \in Nat, NEW page, \A x \in page : x.seq \in Nat,
         PageOf(page, old, position)
  PROVE  PageOf(page, new, position)
<1>1. /\ old.seq \in Nat /\ new.seq \in Nat
      /\ \A r \in old.log : r.seq \in Nat
      /\ \A r \in new.log : r.seq \in Nat
  BY DEF Store, Row
<1>2. ASSUME NEW x \in page PROVE position <= x.seq /\ x.seq <= new.seq /\ x.seq <= old.seq
  BY <1>1 DEF PageOf
<1>3. ASSUME NEW x \in page, NEW r \in new.log, r.seq <= x.seq PROVE r \in old.log
  BY <1>1, <1>2, <1>3
<1>4. ASSUME NEW x \in page, NEW r \in new.log, r.seq = x.seq
      PROVE  r.account = x.account /\ r.removed = x.removed
  <2>1. r \in old.log
    BY <1>1, <1>3, <1>4
  <2>2. QED
    BY <2>1, <1>4 DEF PageOf
<1>5. ASSUME NEW x \in page, NEW r \in new.log, position <= r.seq, r.seq <= x.seq
      PROVE  \E y \in page : y.seq = r.seq
  <2>1. r \in old.log
    BY <1>3, <1>5
  <2>2. QED
    BY <2>1, <1>5 DEF PageOf
<1>6. \A x, y \in page : x.seq = y.seq => x = y
  BY DEF PageOf
<1>7. QED
  BY <1>2, <1>4, <1>5, <1>6 DEF PageOf

\* What GetBatch reads is a page of the log it was read from.
LEMMA BatchIsPage ==
  ASSUME NEW store \in Store, StoreOK(store), IsFiniteSet(store.log),
         NEW position \in Nat
  PROVE  PageOf(GetBatch(store.log, position, TRUE), store, position)
<1> DEFINE page == GetBatch(store.log, position, TRUE)
<1>1. /\ \A r \in store.log : r.seq \in Nat
      /\ store.seq \in Nat
  BY DEF Store, Row
<1>2. /\ page \subseteq store.log
      /\ \A x \in page : position <= x.seq
  BY <1>1 DEF GetBatch, RowsFrom
<1>3. \A x \in page : x.seq <= store.seq
  BY <1>2 DEF StoreOK, NumbersInRange
<1>4. \A x \in page : \A r \in store.log : r.seq = x.seq => r = x
  BY <1>2 DEF StoreOK, NumbersUnique
<1>5. ASSUME NEW x \in page, NEW r \in store.log, position <= r.seq, r.seq <= x.seq
      PROVE  r \in page
  <2>1. r \in RowsFrom(store.log, position, TRUE)
    BY <1>5, <1>1 DEF RowsFrom
  <2>2. SUFFICES ASSUME r \notin page PROVE FALSE
    OBVIOUS
  <2>3. x.seq < r.seq
    BY <2>1, <2>2, PageIsPrefix
  <2>4. x.seq \in Nat /\ r.seq \in Nat
    BY <1>1, <1>2
  <2>5. QED
    BY <2>3, <2>4, <1>5
<1> HIDE DEF page
<1>6. QED
  BY <1>2, <1>3, <1>4, <1>5 DEF PageOf, page

\* Past its first item, the rest of a page is a page.
LEMMA RestIsPage ==
  ASSUME NEW store \in Store, NEW position \in Nat, NEW page,
         \A x \in page : x.seq \in Nat, NEW item \in page,
         \A other \in page : item.seq <= other.seq,
         PageOf(page, store, position)
  PROVE  PageOf(page \ {item}, store, item.seq + 1)
<1> DEFINE rest == page \ {item}
<1>1. \A r \in store.log : r.seq \in Nat
  BY DEF Store, Row
<1>2. ASSUME NEW x \in rest PROVE item.seq + 1 <= x.seq
  BY DEF PageOf
<1>3. ASSUME NEW x \in rest, NEW r \in store.log, item.seq + 1 <= r.seq, r.seq <= x.seq
      PROVE  \E y \in rest : y.seq = r.seq
  <2>1. position <= item.seq /\ item.seq \in Nat /\ r.seq \in Nat
    BY <1>1 DEF PageOf
  <2>2. position <= r.seq
    BY <2>1, <1>3
  <2>3. PICK y \in page : y.seq = r.seq
    BY <2>2, <1>3 DEF PageOf
  <2>4. y # item
    BY <2>1, <2>3, <1>3
  <2>5. QED
    BY <2>3, <2>4
<1>4. \A x \in rest : x.seq <= store.seq
  BY DEF PageOf
<1>5. \A x, y \in rest : x.seq = y.seq => x = y
  BY DEF PageOf
<1>6. \A x \in rest : \A r \in store.log :
        r.seq = x.seq => r.account = x.account /\ r.removed = x.removed
  BY DEF PageOf
<1> HIDE DEF rest
<1>7. QED
  BY <1>2, <1>3, <1>4, <1>5, <1>6 DEF PageOf, rest

\* What the type invariant says of the data the steps compute with.
LEMMA Types ==
  ASSUME TypeOK
  PROVE  /\ disk \in Store /\ disk.seq \in Nat /\ disk.log \subseteq Row
         /\ \A r \in disk.log : r.seq \in Nat /\ r.account \in Accounts /\ r.removed \in BOOLEAN
         /\ \A x \in hRows : x.seq \in Nat /\ x.account \in Accounts /\ x.removed \in BOOLEAN
         /\ \A x \in items : /\ x.seq \in Nat /\ x.account \in Accounts
                             /\ x.removed \in BOOLEAN /\ x.timestamp \in Nat
         /\ \A a \in Accounts : stamp[a] \in Nat /\ have[a] \in Nat
         /\ start \in Nat /\ last \in Nat /\ frontier \in Nat /\ answer \in Nat
  BY DEF TypeOK, Store, Row, Item

\* The server's writes keep the invariant.
LEMMA WriteStep ==
  ASSUME IInv, ServerWrite
  PROVE  IInv'
<1>1. PICK a \in Accounts : Written(a)
  BY WriteIsWritten
<1>2. TypeOK
  BY DEF IInv
<1>3. /\ disk \in Store /\ disk.seq \in Nat
      /\ \A r \in disk.log : r.seq \in Nat /\ r.account \in Accounts
      /\ \A x \in hRows : x.seq \in Nat
      /\ \A x \in items : x.seq \in Nat /\ x.account \in Accounts
      /\ \A b \in Accounts : stamp[b] \in Nat /\ have[b] \in Nat
      /\ frontier \in Nat /\ answer \in Nat
  BY <1>2, Types
<1>4. UNCHANGED <<serverUp, hpc, hRows, connected, pc, start, last, items,
                  answer, have, frontier, failed>>
  BY <1>1 DEF Written, handlerVars, clientVars
<1>5. TypeOK'
  BY <1>1, <1>2, <1>4 DEF Written, TypeOK
<1>6. /\ disk' \in Store /\ disk'.seq \in Nat /\ disk.seq <= disk'.seq
      /\ \A r \in disk'.log : r.seq \in Nat /\ r.account \in Accounts
      /\ \A b \in Accounts : stamp'[b] \in Nat
  <2>1. disk' \in Store /\ disk.seq <= disk'.seq /\ stamp' \in [Accounts -> Nat]
    BY <1>1 DEF Written
  <2>2. QED
    BY <2>1 DEF Store, Row
<1>7. /\ \A r \in disk'.log : r \in disk.log \/ (r.account = a /\ r.seq > disk.seq)
      /\ \A r \in disk'.log : r.account = a /\ ~r.removed => r.seq > disk.seq
      /\ stamp'[a] = 0 \/ stamp'[a] = stamp[a] \/ stamp'[a] > disk.seq
      /\ stamp'[a] <= disk'.seq
      /\ \A b \in Accounts \ {a} : stamp'[b] = stamp[b]
  BY <1>1 DEF Written
<1>8. \A r \in disk'.log : ~r.removed /\ r.seq <= disk.seq =>
        r \in disk.log /\ r.account # a /\ stamp'[r.account] = stamp[r.account]
  BY <1>3, <1>6, <1>7
<1>9. NotAhead'
  <2>1. ASSUME NEW b \in Accounts
        PROVE  /\ stamp'[b] <= disk'.seq
               /\ have[b] <= disk'.seq
               /\ stamp'[b] # 0 => have[b] <= stamp'[b]
    <3>1. /\ stamp[b] <= disk.seq
          /\ have[b] <= disk.seq
          /\ stamp[b] # 0 => have[b] <= stamp[b]
      BY DEF IInv, NotAhead
    <3>2. CASE b = a
      BY <3>1, <3>2, <1>3, <1>6, <1>7
    <3>3. CASE b # a
      BY <3>1, <3>3, <1>3, <1>6, <1>7
    <3>4. QED
      BY <3>2, <3>3
  <2>2. QED
    BY <2>1, <1>4 DEF NotAhead
<1>10. Positioned'
  BY <1>2, <1>3, <1>4, <1>6 DEF IInv, Positioned, TypeOK
<1>11. hpc' = "accounts" => PageOf(hRows, disk', frontier)
  BY <1>3, <1>4, <1>6, <1>7, PageOutlivesWrites DEF IInv
<1>12. PageOf(items, disk', frontier)
  BY <1>3, <1>4, <1>6, <1>7, PageOutlivesWrites DEF IInv
<1>13. \A x \in items : x.seq <= disk.seq
  BY DEF IInv, PageOf
<1>14. ItemsAreCurrent'
  <2>1. ASSUME NEW item \in items, NEW r \in disk'.log,
               r.seq = item.seq, ~item.removed
        PROVE  item.timestamp = stamp'[item.account]
    <3>1. r.seq <= disk.seq
      BY <2>1, <1>13
    <3>2. r.account = item.account /\ r.removed = item.removed
      BY <2>1, <1>12 DEF PageOf
    <3>3. r \in disk.log /\ stamp'[r.account] = stamp[r.account]
      BY <3>1, <3>2, <2>1, <1>8
    <3>4. item.timestamp = stamp[item.account]
      BY <3>3, <2>1 DEF IInv, ItemsAreCurrent
    <3>5. QED
      BY <3>2, <3>3, <3>4
  <2>2. QED
    BY <2>1, <1>4 DEF ItemsAreCurrent
<1>15. AnswerIsCurrent'
  <2>1. ASSUME pc = "saving", NEW item \in items, IsNext(item)
        PROVE  /\ answer <= disk'.seq
               /\ stamp'[item.account] # 0 => answer <= stamp'[item.account]
               /\ \A r \in disk'.log :
                    r.seq = item.seq /\ ~r.removed => answer = stamp'[item.account]
    <3>1. /\ answer <= disk.seq
          /\ stamp[item.account] # 0 => answer <= stamp[item.account]
          /\ \A r \in disk.log :
               r.seq = item.seq /\ ~r.removed => answer = stamp[item.account]
      BY <2>1 DEF IInv, AnswerIsCurrent
    <3>2. answer <= disk'.seq
      BY <3>1, <1>3, <1>6
    <3>3. stamp'[item.account] # 0 => answer <= stamp'[item.account]
      <4>1. CASE item.account = a
        BY <4>1, <3>1, <1>3, <1>6, <1>7
      <4>2. CASE item.account # a
        BY <4>2, <3>1, <1>3, <1>7
      <4>3. QED
        BY <4>1, <4>2
    <3>4. ASSUME NEW r \in disk'.log, r.seq = item.seq, ~r.removed
          PROVE  answer = stamp'[item.account]
      <4>1. r.account = item.account
        BY <3>4, <1>12 DEF PageOf
      <4>2. r \in disk.log /\ stamp'[r.account] = stamp[r.account]
        BY <3>4, <1>8, <1>13
      <4>3. QED
        BY <4>1, <4>2, <3>1, <3>4
    <3>5. QED
      BY <3>2, <3>3, <3>4
  <2>2. \A item \in items : IsNext(item)' <=> IsNext(item)
    BY <1>4 DEF IsNext
  <2>3. QED
    BY <2>1, <2>2, <1>4 DEF AnswerIsCurrent
<1>16. CaughtUp'
  <2>1. ASSUME NEW r \in disk'.log, ~r.removed, r.seq < frontier, r.account \notin failed
        PROVE  have[r.account] = stamp'[r.account]
    <3>1. CASE r.seq <= disk.seq
      <4>1. r \in disk.log /\ stamp'[r.account] = stamp[r.account]
        BY <3>1, <2>1, <1>8
      <4>2. have[r.account] = stamp[r.account]
        BY <4>1, <2>1 DEF IInv, CaughtUp, Settled
      <4>3. QED
        BY <4>1, <4>2
    <3>2. CASE ~(r.seq <= disk.seq)
      BY <3>2, <2>1, <1>3, <1>6 DEF IInv, Positioned
    <3>3. QED
      BY <3>1, <3>2
  <2>2. QED
    BY <2>1, <1>4 DEF CaughtUp, Settled
<1>17. QED
  BY <1>1, <1>4, <1>5, <1>9, <1>10, <1>11, <1>12, <1>14, <1>15, <1>16 DEF IInv, Written

-----------------------------------------------------------------------------
(***************************************************************************)
(* The handler's two reads.                                                *)
(***************************************************************************)

\* The handler's first transaction reads a page of the log as it is.
LEMMA HandlerReadLogStep ==
  ASSUME IInv, HandlerReadLog
  PROVE  IInv'
<1>1. TypeOK /\ pc = "asked"
  BY DEF IInv, HandlerReadLog
<1>2. /\ hRows' = GetBatch(disk.log, start, TRUE) /\ hpc' = "accounts"
      /\ UNCHANGED <<disk, enabled, stamp, serverUp, connected, pc, start, last, items,
                     answer, have, frontier, failed>>
  BY DEF HandlerReadLog, serverVars, clientVars
<1>3. disk \in Store /\ start \in Nat /\ frontier = start /\ disk.log \subseteq Row
  BY <1>1, Types DEF IInv, Positioned
<1>4. PageOf(hRows', disk, frontier)
  BY <1>2, <1>3, BatchIsPage DEF IInv
<1>5. hRows' \subseteq disk.log
  BY <1>2 DEF GetBatch, RowsFrom
<1>6. TypeOK'
  BY <1>1, <1>2, <1>3, <1>5 DEF TypeOK
<1>7. RowsFollowContent' /\ NotAhead' /\ Positioned' /\ ItemsAreCurrent' /\ CaughtUp'
  BY <1>1, <1>2 DEF IInv, RowsFollowContent, Visible, NotAhead, Positioned,
     ItemsAreCurrent, CaughtUp, Settled
<1>8. AnswerIsCurrent'
  BY <1>1, <1>2 DEF AnswerIsCurrent
<1>9. QED
  BY <1>2, <1>4, <1>6, <1>7, <1>8 DEF IInv

\* Its second gives every row the timestamp that its account has by then.
LEMMA HandlerReadAccountsStep ==
  ASSUME IInv, HandlerReadAccounts
  PROVE  IInv'
<1>1. TypeOK /\ hpc = "accounts" /\ pc = "asked" /\ frontier = start
  BY DEF IInv, HandlerReadAccounts, Positioned
<1>2. /\ hpc' = "idle" /\ hRows' = {} /\ last' = start /\ pc' = "processing"
      /\ items' = {ListItem(r) : r \in hRows}
      /\ UNCHANGED <<disk, enabled, stamp, serverUp, connected, start,
                     answer, have, frontier, failed>>
  BY DEF HandlerReadAccounts, serverVars
<1>3. \A r \in hRows : /\ ListItem(r).seq = r.seq
                       /\ ListItem(r).account = r.account
                       /\ ListItem(r).removed = r.removed
                       /\ ListItem(r).timestamp = IF r.removed THEN 0 ELSE stamp[r.account]
  BY DEF ListItem
<1>4. \A r \in hRows : ListItem(r) \in Item
  <2>1. ASSUME NEW r \in hRows PROVE ListItem(r) \in Item
    <3>1. /\ r.seq \in Nat /\ r.account \in Accounts /\ r.removed \in BOOLEAN
          /\ stamp[r.account] \in Nat
      BY <1>1, Types
    <3>2. (IF r.removed THEN 0 ELSE stamp[r.account]) \in Nat
      BY <3>1
    <3>3. QED
      BY <3>1, <3>2 DEF ListItem, Item
  <2>2. QED
    BY <2>1
<1>5. PageOf(hRows, disk, frontier)
  BY <1>1 DEF IInv
<1>6. PageOf(items', disk, frontier)
  <2>1. \A x \in items' : frontier <= x.seq /\ x.seq <= disk.seq
    BY <1>2, <1>3, <1>5 DEF PageOf
  <2>2. \A x, y \in items' : x.seq = y.seq => x = y
    BY <1>2, <1>3, <1>5 DEF PageOf
  <2>3. \A x \in items' : \A r \in disk.log :
          r.seq = x.seq => r.account = x.account /\ r.removed = x.removed
    BY <1>2, <1>3, <1>5 DEF PageOf
  <2>4. ASSUME NEW x \in items', NEW r \in disk.log, frontier <= r.seq, r.seq <= x.seq
        PROVE  \E y \in items' : y.seq = r.seq
    <3>1. PICK h \in hRows : x = ListItem(h)
      BY <1>2
    <3>2. PICK g \in hRows : g.seq = r.seq
      BY <3>1, <2>4, <1>3, <1>5 DEF PageOf
    <3>3. ListItem(g) \in items' /\ ListItem(g).seq = r.seq
      BY <3>2, <1>2, <1>3
    <3>4. QED
      BY <3>3
  <2>5. QED
    BY <2>1, <2>2, <2>3, <2>4 DEF PageOf
<1>7. ItemsAreCurrent'
  <2>1. ASSUME NEW item \in items', ~item.removed
        PROVE  item.timestamp = stamp[item.account]
    BY <2>1, <1>2, <1>3
  <2>2. QED
    BY <2>1, <1>2 DEF ItemsAreCurrent
<1>8. TypeOK'
  <2>1. items' \subseteq Item
    BY <1>2, <1>4
  <2>2. QED
    BY <1>1, <1>2, <2>1 DEF TypeOK
<1>9. RowsFollowContent' /\ NotAhead' /\ Positioned' /\ CaughtUp'
  BY <1>1, <1>2 DEF IInv, RowsFollowContent, Visible, NotAhead, Positioned,
     CaughtUp, Settled
<1>10. AnswerIsCurrent'
  BY <1>2 DEF AnswerIsCurrent
<1>11. QED
  BY <1>2, <1>6, <1>7, <1>8, <1>9, <1>10 DEF IInv

-----------------------------------------------------------------------------
(***************************************************************************)
(* The client's steps.                                                     *)
(***************************************************************************)

\* Steps that leave the log, the contents, the page and the position alone.
LEMMA SteadyStep ==
  ASSUME IInv, TypeOK',
         UNCHANGED <<disk, enabled, stamp, hpc, hRows, items, have, frontier, failed>>,
         Positioned', AnswerIsCurrent'
  PROVE  IInv'
<1>1. RowsFollowContent' /\ NotAhead' /\ ItemsAreCurrent' /\ CaughtUp'
  BY DEF IInv, RowsFollowContent, Visible, NotAhead, ItemsAreCurrent, CaughtUp, Settled
<1>2. QED
  BY <1>1 DEF IInv

\* The client moves past the page's next item: it holds what the item's account
\* has by now, or counts the account as failed.
LEMMA PassedStep ==
  ASSUME IInv, NEW item \in items, IsNext(item),
         pc \in {"processing", "fetching", "saving"},
         NEW rest, rest = items \ {item} \/ rest = {}, Passed(item, rest),
         UNCHANGED <<disk, enabled, stamp, serverUp, hpc, hRows, connected, start, answer>>,
         have' \in [Accounts -> Nat], NotAhead',
         \A a \in Accounts \ {item.account} : have'[a] = have[a],
         failed' \in SUBSET Accounts, failed \subseteq failed',
         \/ item.account \in failed'
         \/ \A r \in disk.log :
              /\ ~r.removed
              /\ r.account = item.account
              /\ r.seq = item.seq \/ (r.seq < frontier /\ r.account \notin failed)
              => have'[r.account] = stamp[r.account]
  PROVE  IInv'
<1>1. TypeOK
  BY DEF IInv
<1>2. /\ disk \in Store /\ disk.seq \in Nat
      /\ \A r \in disk.log : r.seq \in Nat /\ r.account \in Accounts
      /\ \A x \in items : x.seq \in Nat /\ x.account \in Accounts
      /\ frontier \in Nat /\ start \in Nat
  BY <1>1, Types
<1>3. /\ pc' = "processing" /\ items' = rest /\ last' = item.seq
      /\ frontier' = item.seq + 1
  BY DEF Passed
<1>4. \A other \in items : item.seq <= other.seq
  BY DEF IsNext
<1>5. PageOf(items, disk, frontier)
  BY DEF IInv
<1>6. PageOf(items', disk, frontier')
  <2>1. PageOf(items \ {item}, disk, item.seq + 1)
    BY <1>2, <1>4, <1>5, RestIsPage
  <2>2. PageOf({}, disk, item.seq + 1)
    BY DEF PageOf
  <2>3. QED
    BY <2>1, <2>2, <1>3
<1>7. TypeOK'
  <2>1. items' \subseteq items
    BY <1>3
  <2>2. item.seq \in Nat /\ item.seq + 1 \in Nat
    BY <1>2
  <2>3. QED
    BY <1>1, <1>3, <2>1, <2>2 DEF TypeOK
<1>8. Positioned'
  <2>1. hpc # "accounts" /\ start <= frontier
    BY DEF IInv, Positioned
  <2>2. frontier <= item.seq /\ item.seq <= disk.seq
    BY <1>5 DEF PageOf
  <2>3. QED
    BY <2>1, <2>2, <1>2, <1>3 DEF Positioned
<1>9. ItemsAreCurrent'
  BY <1>3 DEF IInv, ItemsAreCurrent
<1>10. AnswerIsCurrent'
  BY <1>3 DEF AnswerIsCurrent
<1>11. CaughtUp'
  <2>1. ASSUME NEW r \in disk.log, ~r.removed, r.seq < item.seq + 1, r.account \notin failed'
        PROVE  have'[r.account] = stamp[r.account]
    <3>1. r.seq < frontier \/ r.seq = item.seq
      <4>1. CASE frontier <= r.seq
        <5>1. r.seq <= item.seq
          BY <2>1, <1>2
        <5>2. PICK y \in items : y.seq = r.seq
          BY <5>1, <4>1, <1>5 DEF PageOf
        <5>3. QED
          BY <5>1, <5>2, <1>2, <1>4
      <4>2. CASE ~(frontier <= r.seq)
        BY <4>2, <1>2
      <4>3. QED
        BY <4>1, <4>2
    <3>2. CASE r.account = item.account
      BY <3>1, <3>2, <2>1
    <3>3. CASE r.account # item.account
      <4>1. r.seq # item.seq
        BY <3>3, <1>5 DEF PageOf
      <4>2. have[r.account] = stamp[r.account]
        BY <3>1, <4>1, <2>1 DEF IInv, CaughtUp, Settled
      <4>3. QED
        BY <4>2, <3>3, <1>2
    <3>4. QED
      BY <3>2, <3>3
  <2>2. QED
    BY <2>1, <1>3 DEF CaughtUp, Settled
<1>12. RowsFollowContent'
  BY DEF IInv, RowsFollowContent, Visible
<1>13. hpc' = "accounts" => PageOf(hRows, disk, frontier)'
  BY <1>8, <1>3 DEF Positioned
<1>14. QED
  BY <1>6, <1>7, <1>8, <1>9, <1>10, <1>11, <1>12, <1>13 DEF IInv

\* Of an item whose row is still current the client may compare timestamps.
LEMMA CurrentRow ==
  ASSUME IInv, NEW item \in items, NEW r \in disk.log, r.seq = item.seq, ~r.removed
  PROVE  /\ r.account = item.account /\ ~item.removed
         /\ stamp[item.account] # 0
         /\ item.timestamp = stamp[item.account]
<1>1. r.account = item.account /\ r.removed = item.removed
  BY DEF IInv, PageOf
<1>2. QED
  BY <1>1 DEF IInv, RowsFollowContent, Visible, ItemsAreCurrent

\* An item is passed over only if the client has what it tells of.
LEMMA SkipItemStep ==
  ASSUME IInv, NEW item \in items, SkipItem(item)
  PROVE  IInv'
<1>1. TypeOK /\ have' = have
  BY DEF IInv, SkipItem
<1>2. /\ IsNext(item) /\ pc = "processing" /\ Passed(item, items \ {item})
      /\ item.removed \/ item.timestamp <= have[item.account]
      /\ UNCHANGED <<disk, enabled, stamp, serverUp, hpc, hRows, connected, start,
                     answer, have, failed>>
  BY DEF SkipItem, serverVars, handlerVars
<1>3. \A a \in Accounts : stamp[a] \in Nat /\ have[a] \in Nat
  BY <1>1, Types
<1>4. ASSUME NEW r \in disk.log, ~r.removed, r.account = item.account,
             r.seq = item.seq \/ (r.seq < frontier /\ r.account \notin failed)
      PROVE  have[r.account] = stamp[r.account]
  <2>1. CASE r.seq = item.seq
    <3>1. ~item.removed /\ stamp[item.account] # 0 /\ item.timestamp = stamp[item.account]
      BY <2>1, <1>4, CurrentRow
    <3>2. item.account \in Accounts
      BY <1>1, Types
    <3>3. have[item.account] <= stamp[item.account]
      BY <3>1, <3>2 DEF IInv, NotAhead
    <3>4. QED
      BY <3>1, <3>2, <3>3, <1>2, <1>3, <1>4
  <2>2. CASE r.seq < frontier /\ r.account \notin failed
    BY <2>2, <1>4 DEF IInv, CaughtUp, Settled
  <2>3. QED
    BY <1>4, <2>1, <2>2
<1>5. NotAhead' /\ have' \in [Accounts -> Nat] /\ failed' \in SUBSET Accounts
  BY <1>1, <1>2 DEF IInv, NotAhead, TypeOK
<1>6. QED
  BY <1>1, <1>2, <1>4, <1>5, PassedStep

\* ui_getAccount answers with what the account has by then.
LEMMA AccountAnsweredStep ==
  ASSUME IInv, NEW item \in items, AccountAnswered(item)
  PROVE  IInv'
<1>1. TypeOK
  BY DEF IInv
<1>2. /\ IsNext(item) /\ pc = "fetching" /\ pc' = "saving"
      /\ answer' = stamp[item.account]
      /\ UNCHANGED <<disk, enabled, stamp, serverUp, hpc, hRows, connected, start,
                     last, items, have, frontier, failed>>
  BY DEF AccountAnswered, serverVars, handlerVars
<1>3. /\ \A x \in items : x.seq \in Nat /\ x.account \in Accounts
      /\ \A a \in Accounts : stamp[a] \in Nat
  BY <1>1, Types
<1>4. TypeOK'
  BY <1>1, <1>2, <1>3 DEF TypeOK
<1>5. Positioned'
  BY <1>2 DEF IInv, Positioned
<1>6. AnswerIsCurrent'
  <2>1. ASSUME NEW x \in items, IsNext(x) PROVE x = item
    BY <2>1, <1>2, <1>3 DEF IsNext, IInv, PageOf
  <2>2. stamp[item.account] <= disk.seq /\ stamp[item.account] <= stamp[item.account]
    BY <1>3 DEF IInv, NotAhead
  <2>3. \A x \in items : IsNext(x)' <=> IsNext(x)
    BY <1>2 DEF IsNext
  <2>4. QED
    BY <2>1, <2>2, <2>3, <1>2 DEF AnswerIsCurrent
<1>7. QED
  BY <1>2, <1>4, <1>5, <1>6, SteadyStep

\* An inviter saved on the way is saved as the server has it.
LEMMA SaveInviterStep ==
  ASSUME IInv, NEW item \in items, NEW inviter \in Accounts, SaveInviter(item, inviter)
  PROVE  IInv'
<1>1. TypeOK
  BY DEF IInv
<1>2. /\ have' = [have EXCEPT ![inviter] = stamp[inviter]]
      /\ UNCHANGED <<disk, enabled, stamp, serverUp, hpc, hRows, connected, pc, start,
                     last, items, answer, frontier, failed>>
  BY DEF SaveInviter, serverVars, handlerVars
<1>3. \A a \in Accounts : stamp[a] \in Nat /\ have[a] \in Nat
  BY <1>1, Types
<1>4. /\ have' \in [Accounts -> Nat] /\ have'[inviter] = stamp[inviter]
      /\ \A a \in Accounts : a # inviter => have'[a] = have[a]
  BY <1>1, <1>2, <1>3 DEF TypeOK
<1>5. TypeOK'
  BY <1>1, <1>2, <1>4 DEF TypeOK
<1>6. NotAhead'
  <2>1. ASSUME NEW a \in Accounts
        PROVE  /\ stamp[a] <= disk.seq
               /\ have'[a] <= disk.seq
               /\ stamp[a] # 0 => have'[a] <= stamp[a]
    <3>1. CASE a = inviter
      BY <3>1, <1>3, <1>4 DEF IInv, NotAhead
    <3>2. CASE a # inviter
      BY <3>2, <1>4 DEF IInv, NotAhead
    <3>3. QED
      BY <3>1, <3>2
  <2>2. QED
    BY <2>1, <1>2 DEF NotAhead
<1>7. CaughtUp'
  <2>1. ASSUME NEW r \in disk.log, ~r.removed, r.seq < frontier, r.account \notin failed
        PROVE  have'[r.account] = stamp[r.account]
    <3>1. have[r.account] = stamp[r.account] /\ r.account \in Accounts
      BY <2>1, <1>1, Types DEF IInv, CaughtUp, Settled
    <3>2. QED
      BY <3>1, <1>4
  <2>2. QED
    BY <2>1, <1>2 DEF CaughtUp, Settled
<1>8. RowsFollowContent' /\ Positioned' /\ ItemsAreCurrent'
  BY <1>2 DEF IInv, RowsFollowContent, Visible, Positioned, ItemsAreCurrent
<1>9. AnswerIsCurrent'
  BY <1>2 DEF IInv, AnswerIsCurrent, IsNext
<1>10. QED
  BY <1>2, <1>5, <1>6, <1>7, <1>8, <1>9 DEF IInv

\* The bundle saved for an item is the current one if the row still is.
LEMMA AccountSavedStep ==
  ASSUME IInv, NEW item \in items, AccountSaved(item)
  PROVE  IInv'
<1>1. TypeOK
  BY DEF IInv
<1>2. /\ IsNext(item) /\ pc = "saving" /\ Passed(item, items \ {item})
      /\ answer > have[item.account]
      /\ have' = [have EXCEPT ![item.account] = answer]
      /\ UNCHANGED <<disk, enabled, stamp, serverUp, hpc, hRows, connected, start,
                     answer, failed>>
  BY DEF AccountSaved, Newer, serverVars, handlerVars
<1>3. /\ item.account \in Accounts /\ answer \in Nat
      /\ \A a \in Accounts : stamp[a] \in Nat /\ have[a] \in Nat
  BY <1>1, Types
<1>4. /\ have' \in [Accounts -> Nat] /\ have'[item.account] = answer
      /\ \A a \in Accounts : a # item.account => have'[a] = have[a]
  BY <1>1, <1>2, <1>3 DEF TypeOK
<1>5. /\ answer <= disk.seq
      /\ stamp[item.account] # 0 => answer <= stamp[item.account]
      /\ \A r \in disk.log :
           r.seq = item.seq /\ ~r.removed => answer = stamp[item.account]
  BY <1>2 DEF IInv, AnswerIsCurrent
<1>6. NotAhead'
  <2>1. ASSUME NEW a \in Accounts
        PROVE  /\ stamp[a] <= disk.seq
               /\ have'[a] <= disk.seq
               /\ stamp[a] # 0 => have'[a] <= stamp[a]
    <3>1. CASE a = item.account
      BY <3>1, <1>4, <1>5 DEF IInv, NotAhead
    <3>2. CASE a # item.account
      BY <3>2, <1>4 DEF IInv, NotAhead
    <3>3. QED
      BY <3>1, <3>2
  <2>2. QED
    BY <2>1, <1>2 DEF NotAhead
<1>7. ASSUME NEW r \in disk.log, ~r.removed, r.account = item.account,
             r.seq = item.seq \/ (r.seq < frontier /\ r.account \notin failed)
      PROVE  have'[r.account] = stamp[r.account]
  <2>1. CASE r.seq = item.seq
    BY <2>1, <1>4, <1>5, <1>7
  <2>2. CASE r.seq < frontier /\ r.account \notin failed
    <3>1. have[item.account] = stamp[item.account]
      BY <2>2, <1>7 DEF IInv, CaughtUp, Settled
    <3>2. stamp[item.account] # 0
      BY <1>7 DEF IInv, RowsFollowContent, Visible
    <3>3. QED
      BY <3>1, <3>2, <1>2, <1>3, <1>5
  <2>3. QED
    BY <1>7, <2>1, <2>2
<1>8. failed' \in SUBSET Accounts
  BY <1>1, <1>2 DEF TypeOK
<1>9. QED
  BY <1>2, <1>4, <1>6, <1>7, <1>8, PassedStep

\* An account that could not be saved counts as failed.
LEMMA AccountRefusedStep ==
  ASSUME IInv, NEW item \in items, AccountRefused(item)
  PROVE  IInv'
<1>1. TypeOK
  BY DEF IInv
<1>2. /\ IsNext(item) /\ pc \in {"fetching", "saving"} /\ Passed(item, {})
      /\ failed' = failed \cup {item.account}
      /\ UNCHANGED <<disk, enabled, stamp, serverUp, hpc, hRows, connected, start,
                     answer, have>>
  BY DEF AccountRefused, serverVars, handlerVars
<1>3. item.account \in Accounts
  BY <1>1, Types
<1>4. /\ NotAhead' /\ have' \in [Accounts -> Nat]
      /\ failed' \in SUBSET Accounts /\ failed \subseteq failed' /\ item.account \in failed'
  BY <1>1, <1>2, <1>3 DEF IInv, NotAhead, TypeOK
<1>5. QED
  BY <1>2, <1>4, PassedStep

\* The steps that only turn to the next request or the next answer.
LEMMA TurnStep ==
  ASSUME IInv,
         \/ \E item \in items : AskAccount(item)
         \/ StartSequenceSwap \/ NextPage \/ SwapDone
         \/ HandlerFatal \/ Disconnect
  PROVE  IInv'
<1>1. TypeOK
  BY DEF IInv
<1>2. /\ start \in Nat /\ last \in Nat /\ frontier \in Nat /\ disk.seq \in Nat
  BY <1>1, Types
<1>3. CASE \E item \in items : AskAccount(item)
  <2>1. /\ pc = "processing" /\ pc' = "fetching"
        /\ UNCHANGED <<serverVars, handlerVars, connected, start, last, items, answer,
                       have, frontier, failed>>
    BY <1>3 DEF AskAccount
  <2>2. TypeOK' /\ Positioned' /\ AnswerIsCurrent'
    BY <2>1, <1>1 DEF IInv, TypeOK, Positioned, AnswerIsCurrent, serverVars, handlerVars
  <2>3. QED
    BY <2>1, <2>2, SteadyStep DEF serverVars, handlerVars
<1>4. CASE StartSequenceSwap
  <2>1. /\ pc = "idle" /\ pc' = "asked" /\ start' = 1
        /\ UNCHANGED <<serverVars, handlerVars, connected, last, items, answer,
                       have, frontier, failed>>
    BY <1>4 DEF StartSequenceSwap
  <2>2. TypeOK' /\ Positioned' /\ AnswerIsCurrent'
    BY <2>1, <1>1, <1>2 DEF IInv, TypeOK, Positioned, AnswerIsCurrent, serverVars, handlerVars
  <2>3. QED
    BY <2>1, <2>2, SteadyStep DEF serverVars, handlerVars
<1>5. CASE NextPage
  <2>1. /\ pc = "processing" /\ pc' = "asked" /\ items = {} /\ last # start
        /\ start' = last + 1
        /\ UNCHANGED <<serverVars, handlerVars, connected, last, items, answer,
                       have, frontier, failed>>
    BY <1>5 DEF NextPage, NextStart
  <2>2. TypeOK' /\ Positioned' /\ AnswerIsCurrent'
    BY <2>1, <1>1, <1>2 DEF IInv, TypeOK, Positioned, AnswerIsCurrent, serverVars, handlerVars
  <2>3. QED
    BY <2>1, <2>2, SteadyStep DEF serverVars, handlerVars
<1>6. CASE SwapDone
  <2>1. /\ pc = "processing" /\ pc' = "done"
        /\ UNCHANGED <<serverVars, handlerVars, connected, start, last, items, answer,
                       have, frontier, failed>>
    BY <1>6 DEF SwapDone
  <2>2. TypeOK' /\ Positioned' /\ AnswerIsCurrent'
    BY <2>1, <1>1 DEF IInv, TypeOK, Positioned, AnswerIsCurrent, serverVars, handlerVars
  <2>3. QED
    BY <2>1, <2>2, SteadyStep DEF serverVars, handlerVars
<1>7. CASE HandlerFatal \/ Disconnect
  <2>1. /\ serverUp' \in BOOLEAN /\ connected' \in BOOLEAN
        /\ UNCHANGED <<serverVars, hpc, hRows, pc, start, last, items, answer,
                       have, frontier, failed>>
    BY <1>1, <1>7 DEF HandlerFatal, Disconnect, handlerVars, clientVars, TypeOK
  <2>2. TypeOK' /\ Positioned'
    BY <2>1, <1>1 DEF IInv, TypeOK, Positioned, serverVars
  <2>3. AnswerIsCurrent'
    BY <2>1 DEF IInv, AnswerIsCurrent, IsNext, serverVars
  <2>4. QED
    BY <2>1, <2>2, <2>3, SteadyStep DEF serverVars
<1>8. QED
  BY <1>3, <1>4, <1>5, <1>6, <1>7

-----------------------------------------------------------------------------
(***************************************************************************)
(* The theorems.                                                           *)
(***************************************************************************)

\* The invariant holds at the start.
LEMMA InitIInv == Init => IInv
<1> SUFFICES ASSUME Init PROVE IInv
  OBVIOUS
<1>1. disk \in Store /\ StoreOK(disk)
  BY EmptyStoreOK DEF Init
<1>2. disk.log = {} /\ disk.seq = 0
  BY DEF Init, EmptyStore
<1>3. TypeOK
  BY <1>1 DEF Init, TypeOK
<1>4. IsFiniteSet(disk.log)
  BY <1>2, FS_EmptySet
<1>5. RowsFollowContent /\ NotAhead /\ Positioned
  BY <1>2 DEF Init, RowsFollowContent, Visible, NotAhead, Positioned
<1>6. PageOf(items, disk, frontier) /\ ItemsAreCurrent /\ AnswerIsCurrent /\ CaughtUp
  BY <1>2 DEF Init, PageOf, ItemsAreCurrent, AnswerIsCurrent, CaughtUp
<1>7. QED
  BY <1>1, <1>3, <1>4, <1>5, <1>6 DEF Init, IInv

\* Every step keeps the invariant.
LEMMA NextIInv == IInv /\ [Next]_vars => IInv'
<1> SUFFICES ASSUME IInv, [Next]_vars PROVE IInv'
  OBVIOUS
<1>1. CASE ServerWrite
  BY <1>1, WriteStep
<1>2. CASE HandlerReadLog
  BY <1>2, HandlerReadLogStep
<1>3. CASE HandlerReadAccounts
  BY <1>3, HandlerReadAccountsStep
<1>4. CASE ClientItem
  <2>1. PICK item \in items :
          \/ SkipItem(item)
          \/ AskAccount(item)
          \/ AccountAnswered(item)
          \/ \E inviter \in Accounts : SaveInviter(item, inviter)
          \/ AccountSaved(item)
          \/ AccountRefused(item)
    BY <1>4 DEF ClientItem
  <2>2. QED
    BY <2>1, SkipItemStep, TurnStep, AccountAnsweredStep, SaveInviterStep,
       AccountSavedStep, AccountRefusedStep
<1>5. CASE StartSequenceSwap \/ NextPage \/ SwapDone \/ HandlerFatal \/ Disconnect
  BY <1>5, TurnStep
<1>6. CASE UNCHANGED vars
  <2>1. UNCHANGED <<disk, enabled, stamp, hpc, hRows, pc, start, last, items, answer,
                    have, frontier, failed, serverUp, connected>>
    BY <1>6 DEF vars, serverVars, handlerVars, clientVars
  <2>2. TypeOK' /\ Positioned'
    BY <2>1 DEF IInv, TypeOK, Positioned
  <2>3. AnswerIsCurrent'
    BY <2>1 DEF IInv, AnswerIsCurrent, IsNext
  <2>4. QED
    BY <2>1, <2>2, <2>3, SteadyStep
<1>7. QED
  BY <1>1, <1>2, <1>3, <1>4, <1>5, <1>6 DEF Next, Handler, Client

\* The invariant holds of every state of every behaviour.
LEMMA Invariance == Spec => []IInv
<1>1. QED
  BY InitIInv, NextIInv, PTL DEF Spec

(***************************************************************************)
(* The server's log, the handler's page and the client's position keep     *)
(* their types (StartSequenceSwap, bundle_getBySequence).                  *)
(***************************************************************************)
THEOREM TypeCorrect == Spec => []TypeOK
<1>1. IInv => TypeOK
  BY DEF IInv
<1>2. QED
  BY <1>1, Invariance, PTL

(***************************************************************************)
(* The client holds what the server has of every account whose row it is   *)
(* past, however the server's writes fall between the pages, between the   *)
(* handler's two transactions and before the answers of ui_getAccount.     *)
(***************************************************************************)
THEOREM SwapKeepsUp == Spec => []CaughtUp
<1>1. IInv => CaughtUp
  BY DEF IInv
<1>2. QED
  BY <1>1, Invariance, PTL

(***************************************************************************)
(* A page item is as new as its row while the row is current, although     *)
(* bundle_getBySequence reads the log and the accounts in two              *)
(* transactions.                                                           *)
(***************************************************************************)
THEOREM PagesAreCurrent == Spec => []ItemsAreCurrent
<1>1. IInv => ItemsAreCurrent
  BY DEF IInv
<1>2. QED
  BY <1>1, Invariance, PTL

(***************************************************************************)
(* A swap that ended without a failed save left nothing out below the      *)
(* number it asked from last.                                              *)
(***************************************************************************)
THEOREM SwapIsComplete == Spec => []DoneMeansComplete
<1>1. IInv => DoneMeansComplete
  <2> SUFFICES ASSUME IInv, failed = {}, NEW a \in enabled, stamp[a] # 0,
                      disk.index[a] < start
               PROVE  have[a] = stamp[a]
    BY DEF DoneMeansComplete
  <2>1. a \in Accounts /\ disk \in Store /\ start \in Nat /\ frontier \in Nat
    BY DEF IInv, TypeOK
  <2>2. disk.index[a] # 0 /\ disk.index[a] \in Nat
    BY <2>1 DEF IInv, RowsFollowContent, Visible, Store
  <2>3. PICK r \in disk.log : r.account = a /\ r.seq = disk.index[a]
    BY <2>1, <2>2 DEF IInv, StoreOK, EntriesHaveRows
  <2>4. ~r.removed
    BY <2>3 DEF IInv, RowsFollowContent, Visible
  <2>5. r.seq < frontier
    BY <2>1, <2>2, <2>3 DEF IInv, Positioned
  <2>6. QED
    BY <2>3, <2>4, <2>5 DEF IInv, CaughtUp, Settled
<1>2. QED
  BY <1>1, Invariance, PTL

=============================================================================
