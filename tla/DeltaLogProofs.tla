---------------------------- MODULE DeltaLogProofs ----------------------------
(***************************************************************************)
(* Theorems about the delta log, for every set of accounts and every bound *)
(* on sequence numbers and restarts.                                       *)
(***************************************************************************)
EXTENDS DeltaLog, DeltaLogOpsProofs

(***************************************************************************)
(* The inductive invariant.                                                *)
(***************************************************************************)

\* A transaction that has changed nothing yet appends nothing.
LEMMA SameAppendsNothing ==
  ASSUME NEW store \in Store
  PROVE  /\ store.seq >= store.seq
         /\ \A r \in store.log \ store.log : r.seq > store.seq
         /\ \A a \in Accounts : store.index[a] <= store.index[a]
  BY DEF Store

\* A node that has never run satisfies the inductive invariant.
LEMMA InitInductive == Init => InductiveInv
<1> SUFFICES ASSUME Init PROVE InductiveInv
  OBVIOUS
<1> USE DEF Init
<1>1. TypeOK
  BY EmptyStoreOK DEF TypeOK
<1>2. LogIndexAgree
  BY EmptyStoreOK DEF LogIndexAgree
<1>3. TxAppends
  BY SameAppendsNothing, EmptyStoreOK DEF TxAppends
<1>4. ClosedMeansSame /\ StoppedMeansClosed
  BY DEF ClosedMeansSame, StoppedMeansClosed
<1>5. UnnamedMeansEmpty /\ ToldNotBehindTx
  BY DEF UnnamedMeansEmpty, ToldNotBehindTx
<1>6. QED
  BY <1>1, <1>2, <1>3, <1>4, <1>5 DEF InductiveInv

\* Reloading the sequence number gives a machine word, whatever the store.
LEMMA LoadedType ==
  ASSUME NEW store \in Store
  PROVE  LoadedSequenceNo(store) \in Nat
  BY WordAssumption DEF LoadedSequenceNo, GetDeltaLogSequence, Store

\* An update appends: it adds one row, past the store's sequence.
LEMMA LogUpdateAppends ==
  ASSUME NEW store \in Store, NEW a \in Accounts, NEW removal \in BOOLEAN
  PROVE  /\ LogUpdate(store, a, removal).seq = store.seq + 1
         /\ \A r \in LogUpdate(store, a, removal).log \ store.log :
              r.seq = store.seq + 1
  BY DEF LogUpdate, Store, Row

\* Every step of the process, its crashes included, preserves the inductive
\* invariant.
LEMMA NextInductive == InductiveInv /\ [Next]_vars => InductiveInv'
<1> SUFFICES ASSUME InductiveInv, [Next]_vars PROVE InductiveInv'
  OBVIOUS
<1> USE DEF InductiveInv
<1>1. CASE Start
  <2> USE <1>1 DEF Start
  <2>1. seed \in Nat /\ boots \in Nat /\ boots + 1 \in Nat /\ boots + 1 # 0
    BY DEF TypeOK
  <2>2. latest' \in Nat /\ seed' \in Nat /\ seed' # 0
    <3>1. LoadedSequenceNo(disk) \in Nat
      BY LoadedType DEF TypeOK
    <3>2. QED
      BY <2>1, <3>1
  <2>3. TypeOK'
    BY <2>1, <2>2 DEF TypeOK
  <2>4. LogIndexAgree' /\ TxAppends' /\ ClosedMeansSame'
    BY DEF LogIndexAgree, TxAppends, ClosedMeansSame
  <2>5. StoppedMeansClosed' /\ UnnamedMeansEmpty' /\ ToldNotBehindTx'
    BY <2>2 DEF StoppedMeansClosed, UnnamedMeansEmpty, ToldNotBehindTx
  <2>6. QED
    BY <2>3, <2>4, <2>5
<1>2. CASE BeginWrite
  <2> USE <1>2 DEF BeginWrite
  <2>1. tx.seq \in Nat /\ disk.seq \in Nat
    BY DEF TypeOK, Store
  <2>2. TypeOK'
    BY <2>1 DEF TypeOK
  <2>3. LogIndexAgree'
    BY DEF LogIndexAgree
  <2>4. TxAppends'
    BY SameAppendsNothing, EmptyStoreOK DEF TxAppends, TypeOK
  <2>5. ClosedMeansSame'
    BY DEF ClosedMeansSame
  <2>6. StoppedMeansClosed'
    BY DEF StoppedMeansClosed
  <2>7. UnnamedMeansEmpty'
    BY DEF UnnamedMeansEmpty
  <2>8. ToldNotBehindTx'
    BY <2>1 DEF ToldNotBehindTx, TxAppends, ClosedMeansSame
  <2>9. QED
    BY <2>2, <2>3, <2>4, <2>5, <2>6, <2>7, <2>8
<1>3. ASSUME NEW a \in Accounts, NEW removal \in BOOLEAN, Update(a, removal)
      PROVE  InductiveInv'
  <2> USE <1>3 DEF Update
  <2>1. TypeOK'
    <3>1. tx' \in Store
      BY LogUpdateType DEF TypeOK
    <3>2. tx'.seq \in Nat
      BY <3>1 DEF Store
    <3>3. QED
      BY <3>1, <3>2 DEF TypeOK
  <2>2. LogIndexAgree'
    BY LogUpdateKeepsOK DEF TypeOK, LogIndexAgree
  <2>3. TxAppends'
    <3>1. /\ tx'.seq = tx.seq + 1
          /\ \A r \in tx'.log \ tx.log : r.seq = tx.seq + 1
      BY LogUpdateAppends DEF TypeOK
    <3>2. tx.seq \in Nat /\ disk.seq \in Nat
      BY DEF TypeOK, Store
    <3>3. \A b \in Accounts : disk.index[b] <= tx'.index[b]
      <4>1. tx.index[a] <= tx.seq
        BY IndexInRange DEF TypeOK, LogIndexAgree
      <4>2. \A b \in Accounts : disk.index[b] \in Nat /\ tx.index[b] \in Nat
        BY DEF TypeOK, Store
      <4>3. tx.index \in [Accounts -> Nat]
        BY DEF TypeOK, Store
      <4>4. tx'.index = [tx.index EXCEPT ![a] = tx.seq + 1]
        BY DEF LogUpdate
      <4>5. QED
        BY <3>2, <4>1, <4>2, <4>3, <4>4 DEF TxAppends
    <3>4. QED
      BY <3>1, <3>2, <3>3 DEF TxAppends
  <2>4. ToldNotBehindTx'
    BY <2>1 DEF ToldNotBehindTx, TypeOK, Store
  <2>5. ClosedMeansSame' /\ StoppedMeansClosed' /\ UnnamedMeansEmpty'
    BY DEF ClosedMeansSame, StoppedMeansClosed, UnnamedMeansEmpty
  <2>6. QED
    BY <2>1, <2>2, <2>3, <2>4, <2>5
<1>4. CASE Commit
  <2> USE <1>4 DEF Commit
  <2>1. tx.seq \in Nat /\ disk.seq \in Nat
    BY DEF TypeOK, Store
  <2>2. TypeOK'
    BY <2>1 DEF TypeOK
  <2>3. LogIndexAgree'
    BY DEF LogIndexAgree
  <2>4. TxAppends'
    BY SameAppendsNothing, EmptyStoreOK DEF TxAppends, TypeOK
  <2>5. ClosedMeansSame'
    BY DEF ClosedMeansSame
  <2>6. StoppedMeansClosed'
    BY DEF StoppedMeansClosed
  <2>7. UnnamedMeansEmpty'
    BY DEF UnnamedMeansEmpty
  <2>8. ToldNotBehindTx'
    BY <2>1 DEF ToldNotBehindTx
  <2>9. QED
    BY <2>2, <2>3, <2>4, <2>5, <2>6, <2>7, <2>8
<1>5. CASE Abandon
  <2> USE <1>5 DEF Abandon
  <2>1. tx.seq \in Nat /\ disk.seq \in Nat
    BY DEF TypeOK, Store
  <2>2. TypeOK'
    BY <2>1 DEF TypeOK
  <2>3. LogIndexAgree'
    BY DEF LogIndexAgree
  <2>4. TxAppends'
    BY SameAppendsNothing, EmptyStoreOK DEF TxAppends, TypeOK
  <2>5. ClosedMeansSame'
    BY DEF ClosedMeansSame
  <2>6. StoppedMeansClosed'
    BY DEF StoppedMeansClosed
  <2>7. UnnamedMeansEmpty'
    BY DEF UnnamedMeansEmpty
  <2>8. ToldNotBehindTx'
    BY <2>1 DEF ToldNotBehindTx, TxAppends, TypeOK
  <2>9. QED
    BY <2>2, <2>3, <2>4, <2>5, <2>6, <2>7, <2>8
<1>6. CASE Stop
  <2> USE <1>6 DEF Stop
  <2>1. tx.seq \in Nat /\ disk.seq \in Nat
    BY DEF TypeOK, Store
  <2>2. TypeOK'
    BY <2>1 DEF TypeOK
  <2>3. LogIndexAgree'
    BY DEF LogIndexAgree
  <2>4. TxAppends'
    BY SameAppendsNothing, EmptyStoreOK DEF TxAppends, TypeOK
  <2>5. ClosedMeansSame'
    BY DEF ClosedMeansSame
  <2>6. StoppedMeansClosed'
    BY DEF StoppedMeansClosed
  <2>7. UnnamedMeansEmpty'
    BY DEF UnnamedMeansEmpty
  <2>8. ToldNotBehindTx'
    BY <2>1 DEF ToldNotBehindTx
  <2>9. QED
    BY <2>2, <2>3, <2>4, <2>5, <2>6, <2>7, <2>8
<1>7. CASE ClearContent
  <2> USE <1>7 DEF ClearContent
  <2>1. EmptyStore.seq \in Nat
    BY DEF EmptyStore
  <2>2. TypeOK'
    BY <2>1, EmptyStoreOK DEF TypeOK
  <2>3. LogIndexAgree'
    BY EmptyStoreOK DEF LogIndexAgree
  <2>4. TxAppends'
    BY SameAppendsNothing, EmptyStoreOK DEF TxAppends, TypeOK
  <2>5. ClosedMeansSame'
    BY DEF ClosedMeansSame
  <2>6. StoppedMeansClosed'
    BY DEF StoppedMeansClosed
  <2>7. UnnamedMeansEmpty'
    BY DEF UnnamedMeansEmpty
  <2>8. ToldNotBehindTx'
    BY <2>1 DEF ToldNotBehindTx
  <2>9. QED
    BY <2>2, <2>3, <2>4, <2>5, <2>6, <2>7, <2>8
<1>8. CASE UNCHANGED vars
  BY <1>8 DEF vars, TypeOK, LogIndexAgree, TxAppends, ClosedMeansSame,
              StoppedMeansClosed, UnnamedMeansEmpty, ToldNotBehindTx
<1>9. QED
  BY <1>1, <1>2, <1>3, <1>4, <1>5, <1>6, <1>7, <1>8 DEF Next

\* So the inductive invariant holds in every reachable state.
LEMMA Inductive == Spec => []InductiveInv
  BY InitInductive, NextInductive, PTL DEF Spec

\* Every reachable state is well typed.
THEOREM TypeCorrect == Spec => []TypeOK
  BY Inductive, PTL DEF InductiveInv

\* The log and its index never disagree, on disk or inside a transaction,
\* through any sequence of updates, aborted commits, crashes and clearings.
THEOREM LogAndIndexAgree == Spec => []LogIndexAgree
  BY Inductive, PTL DEF InductiveInv

\* After its first update a process never tells peers a sequence number that
\* is behind its committed log.
THEOREM NeverToldBehind == Spec => []ToldNotBehindLog
<1>1. InductiveInv => ToldNotBehindLog
  BY DEF InductiveInv, ToldNotBehindTx, ToldNotBehindLog, TxAppends, TypeOK, Store
<1>2. QED
  BY <1>1, Inductive, PTL

\* No committed row is ever added at or below a number the log had reached.
THEOREM NumbersNeverReused == Spec => RowsOnlyAtTail
<1>1. InductiveInv /\ [Next]_vars =>
        [disk' # EmptyStore => \A r \in disk'.log \ disk.log : r.seq > disk.seq]_vars
  <2> SUFFICES ASSUME InductiveInv, Next, disk' # EmptyStore
               PROVE  \A r \in disk'.log \ disk.log : r.seq > disk.seq
    OBVIOUS
  <2>1. disk' = disk \/ Commit
    BY DEF Next, Start, BeginWrite, Update, Abandon, Stop, ClearContent
  <2>2. QED
    BY <2>1 DEF Commit, InductiveInv, TxAppends
<1>2. QED
  BY <1>1, Inductive, PTL DEF Spec, RowsOnlyAtTail

(***************************************************************************)
(* The log implements the change feed.                                     *)
(***************************************************************************)

\* What a store shows of the feed has the type of a feed.
LEMMA FeedType ==
  ASSUME NEW store \in Store
  PROVE  FeedOf(store) \in [Accounts -> Feed!Entry]
  BY DEF FeedOf, RemovedFlag, Feed!Entry, Store

\* An account's flag is the flag of the one row its index entry names.
LEMMA FlagOfRow ==
  ASSUME NEW store \in Store, StoreOK(store), NEW a \in Accounts,
         NEW r \in store.log, r.account = a
  PROVE  RemovedFlag(store, a) = r.removed
<1>1. r.seq = store.index[a]
  BY DEF StoreOK, RowsIndexed
<1>2. \A q \in store.log : q.account = a => q = r
  BY <1>1 DEF StoreOK, RowsIndexed, NumbersUnique
<1>3. r.removed \in BOOLEAN
  BY DEF Store, Row
<1>4. QED
  BY <1>2, <1>3 DEF RemovedFlag

\* An account without an index entry has no row, so no flag.
LEMMA NoEntryNoFlag ==
  ASSUME NEW store \in Store, StoreOK(store), NEW a \in Accounts,
         store.index[a] = 0
  PROVE  RemovedFlag(store, a) = FALSE
<1>1. \A r \in store.log : r.account # a
  BY DEF StoreOK, RowsIndexed, NumbersInRange
<1>2. QED
  BY <1>1 DEF RemovedFlag

\* A node that has never run shows an empty feed.
LEMMA InitImplements == Init => Feed!Init
<1> SUFFICES ASSUME Init PROVE Feed!Init
  OBVIOUS
<1>1. FeedOf(EmptyStore) = [a \in Accounts |-> Feed!Unchanged0]
  BY DEF FeedOf, RemovedFlag, EmptyStore, Feed!Unchanged0
<1>2. QED
  BY <1>1 DEF Init, Feed!Init, EmptyStore

\* What the transaction did not number past the disk's sequence it did not
\* change at all.
LEMMA UntouchedEntry ==
  ASSUME InductiveInv, NEW a \in Accounts, ~(disk.seq < tx.index[a])
  PROVE  FeedOf(tx)[a] = FeedOf(disk)[a]
<1> USE DEF InductiveInv, TypeOK, LogIndexAgree
<1>1. /\ disk.seq \in Nat /\ tx.index[a] \in Nat /\ disk.index[a] \in Nat
      /\ disk.index[a] <= tx.index[a]
  BY DEF Store, TxAppends
<1>2. CASE tx.index[a] = 0
  <2>1. disk.index[a] = 0
    BY <1>1, <1>2
  <2>2. RemovedFlag(tx, a) = FALSE /\ RemovedFlag(disk, a) = FALSE
    BY <1>2, <2>1, NoEntryNoFlag
  <2>3. QED
    BY <1>2, <2>1, <2>2 DEF FeedOf
<1>3. CASE tx.index[a] # 0
  <2>1. PICK r \in tx.log : r.account = a /\ r.seq = tx.index[a]
    BY <1>3 DEF StoreOK, EntriesHaveRows
  <2>2. r \in disk.log
    BY <1>1, <2>1 DEF TxAppends
  <2>3. disk.index[a] = tx.index[a]
    BY <2>1, <2>2 DEF StoreOK, RowsIndexed
  <2>4. RemovedFlag(tx, a) = r.removed /\ RemovedFlag(disk, a) = r.removed
    BY <2>1, <2>2, FlagOfRow
  <2>5. QED
    BY <2>3, <2>4 DEF FeedOf
<1>4. QED
  BY <1>2, <1>3

\* A commit publishes the entries the transaction numbered past the disk.
LEMMA CommitPublishes == InductiveInv /\ Commit => Feed!Publish
<1> SUFFICES ASSUME InductiveInv, Commit PROVE Feed!Publish
  OBVIOUS
<1> USE DEF InductiveInv, TypeOK, LogIndexAgree
<1> DEFINE changed == {a \in Accounts : disk.seq < tx.index[a]}
<1>1. disk' = tx /\ seed' = seed
  BY DEF Commit
<1>2. FeedOf(disk)' = FeedOf(tx)
  BY <1>1 DEF FeedOf, RemovedFlag
<1>3. FeedOf(tx) \in [Accounts -> Feed!Entry] /\ tx.seq \in Nat /\ tx.seq >= disk.seq
  BY FeedType DEF Store, TxAppends
<1>4. \A a \in Accounts \ changed : FeedOf(tx)[a] = FeedOf(disk)[a]
  BY UntouchedEntry
<1>5. \A a \in Accounts : FeedOf(tx)[a].seq = tx.index[a] /\ tx.index[a] <= tx.seq
  BY IndexInRange DEF FeedOf
<1>6. \A a \in changed : disk.seq < FeedOf(tx)[a].seq /\ FeedOf(tx)[a].seq <= tx.seq
  BY <1>5
<1>7. \A a, b \in changed : FeedOf(tx)[a].seq = FeedOf(tx)[b].seq => a = b
  <2> SUFFICES ASSUME NEW a \in changed, NEW b \in changed,
                      tx.index[a] = tx.index[b]
               PROVE  a = b
    BY <1>5
  <2>1. tx.index[a] # 0 /\ tx.index[b] # 0
    BY DEF Store
  <2>2. PICK r \in tx.log : r.account = a /\ r.seq = tx.index[a]
    BY <2>1 DEF StoreOK, EntriesHaveRows
  <2>3. PICK q \in tx.log : q.account = b /\ q.seq = tx.index[b]
    BY <2>1 DEF StoreOK, EntriesHaveRows
  <2>4. QED
    BY <2>2, <2>3 DEF StoreOK, NumbersUnique
<1>8. changed \in SUBSET Accounts
  OBVIOUS
<1>9. QED
  BY <1>1, <1>2, <1>3, <1>4, <1>6, <1>7, <1>8 DEF Feed!Publish

\* Every step of the log is a step of the feed or leaves it as it is.
LEMMA NextImplements ==
  InductiveInv /\ [Next]_vars => [Feed!Next]_Feed!feedVars
<1> SUFFICES ASSUME InductiveInv, [Next]_vars PROVE [Feed!Next]_Feed!feedVars
  OBVIOUS
<1> USE DEF Feed!feedVars
<1>1. CASE Commit
  BY <1>1, CommitPublishes DEF Feed!Next
<1>2. CASE Start
  <2>1. disk' = disk /\ FeedOf(disk)' = FeedOf(disk)
    BY <1>2 DEF Start, FeedOf, RemovedFlag
  <2>2. CASE seed # 0
    BY <1>2, <2>1, <2>2 DEF Start
  <2>3. CASE seed = 0
    <3>1. disk.seq = 0
      BY <2>3 DEF InductiveInv, UnnamedMeansEmpty, EmptyStore
    <3>2. seed' \in Nat /\ seed' # seed
      BY <1>2, <2>3 DEF Start, InductiveInv, TypeOK
    <3>3. QED
      BY <2>1, <3>1, <3>2 DEF Feed!Next, Feed!NameEpoch
  <2>4. QED
    BY <2>2, <2>3
<1>3. CASE ClearContent
  <2>1. /\ disk'.seq = 0
        /\ FeedOf(disk)' = [a \in Accounts |-> Feed!Unchanged0]
        /\ seed' = 0
    BY <1>3 DEF ClearContent, FeedOf, RemovedFlag, EmptyStore, Feed!Unchanged0
  <2>2. CASE seed = 0
    <3>1. disk' = disk /\ seed' = seed
      BY <1>3, <2>2 DEF ClearContent, InductiveInv, UnnamedMeansEmpty
    <3>2. FeedOf(disk)' = FeedOf(disk)
      BY <3>1 DEF FeedOf, RemovedFlag
    <3>3. QED
      BY <3>1, <3>2
  <2>3. CASE seed # 0
    BY <2>1, <2>3 DEF Feed!Next, Feed!Reset
  <2>4. QED
    BY <2>2, <2>3
<1>4. CASE disk' = disk /\ seed' = seed
  <2>1. FeedOf(disk)' = FeedOf(disk)
    BY <1>4 DEF FeedOf, RemovedFlag
  <2>2. QED
    BY <1>4, <2>1
<1>5. QED
  BY <1>1, <1>2, <1>3, <1>4
     DEF Next, BeginWrite, Update, Abandon, Stop, vars

\* The log and its index implement the change feed: readers can treat the log
\* as one numbered entry per account that only moves forward.
THEOREM LogImplementsFeed == Spec => ImplementsFeed
  BY InitImplements, NextImplements, Inductive, PTL
     DEF Spec, ImplementsFeed, Feed!Spec

=============================================================================
