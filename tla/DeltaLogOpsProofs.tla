--------------------------- MODULE DeltaLogOpsProofs ---------------------------
(***************************************************************************)
(* Lemmas about the delta log as a data structure, for the proofs of the   *)
(* modules that use it.                                                    *)
(***************************************************************************)
EXTENDS DeltaLogOps, FiniteSetTheorems, TLAPS

(***************************************************************************)
(* Facts about deltalog.Update and deltalog.GetBatch.                      *)
(***************************************************************************)

\* An update of a well-typed store is a well-typed store.
LEMMA LogUpdateType ==
  ASSUME NEW store \in Store, NEW a \in Accounts, NEW removal \in BOOLEAN
  PROVE  LogUpdate(store, a, removal) \in Store
  BY DEF LogUpdate, Store, Row

\* The bucket a first start creates is well typed and agrees with its index.
LEMMA EmptyStoreOK == EmptyStore \in Store /\ StoreOK(EmptyStore)
  BY DEF EmptyStore, Store, StoreOK, RowsIndexed, EntriesHaveRows,
         NumbersUnique, NumbersInRange

\* Update keeps log and index in agreement.
LEMMA LogUpdateKeepsOK ==
  ASSUME NEW store \in Store, StoreOK(store),
         NEW a \in Accounts, NEW removal \in BOOLEAN
  PROVE  StoreOK(LogUpdate(store, a, removal))
<1> DEFINE new   == LogUpdate(store, a, removal)
           seqNo == store.seq + 1
           row   == [seq |-> seqNo, account |-> a, removed |-> removal]
<1> USE DEF StoreOK
<1>1. /\ new.seq = seqNo
      /\ new.index = [store.index EXCEPT ![a] = seqNo]
      /\ \A r \in new.log :
           r = row \/ (r \in store.log /\ r.seq # store.index[a])
      /\ row \in new.log
      /\ \A r \in store.log : r.seq # store.index[a] => r \in new.log
  BY DEF LogUpdate, Store, Row, NumbersInRange
<1>2. seqNo \in Nat /\ row \in Row /\ seqNo > store.seq
  BY DEF Store, Row
<1>3. RowsIndexed(new)
  BY <1>1, <1>2 DEF RowsIndexed, Store, Row
<1>4. EntriesHaveRows(new)
  <2> SUFFICES ASSUME NEW b \in Accounts, new.index[b] # 0
               PROVE  \E r \in new.log : r.account = b /\ r.seq = new.index[b]
    BY DEF EntriesHaveRows
  <2>1. CASE b = a
    BY <2>1, <1>1, <1>2 DEF Store
  <2>2. CASE b # a
    <3>1. new.index[b] = store.index[b]
      BY <2>2, <1>1 DEF Store
    <3>2. PICK r \in store.log : r.account = b /\ r.seq = store.index[b]
      BY <3>1 DEF EntriesHaveRows
    <3>3. r.seq # store.index[a]
      <4> SUFFICES ASSUME r.seq = store.index[a] PROVE FALSE
        OBVIOUS
      <4>1. PICK q \in store.log : q.account = a /\ q.seq = store.index[a]
        BY <3>1, <3>2 DEF EntriesHaveRows
      <4>2. QED
        BY <4>1, <3>2, <2>2 DEF NumbersUnique
    <3>4. QED
      BY <3>1, <3>2, <3>3, <1>1
  <2>3. QED
    BY <2>1, <2>2
<1>5. NumbersUnique(new)
  BY <1>1, <1>2 DEF NumbersUnique, NumbersInRange, Store, Row
<1>6. NumbersInRange(new)
  BY <1>1, <1>2 DEF NumbersInRange, Store, Row
<1>7. QED
  BY <1>3, <1>4, <1>5, <1>6

\* An index entry never exceeds the bucket sequence.
LEMMA IndexInRange ==
  ASSUME NEW store \in Store, StoreOK(store), NEW a \in Accounts
  PROVE  store.index[a] <= store.seq
<1>1. store.index[a] \in Nat /\ store.seq \in Nat
  BY DEF Store
<1>2. CASE store.index[a] = 0
  BY <1>1, <1>2
<1>3. CASE store.index[a] # 0
  BY <1>3 DEF StoreOK, EntriesHaveRows, NumbersInRange
<1>4. QED
  BY <1>2, <1>3

\* A page is a prefix of what is asked for: a row past the requested start
\* that is not on the page lies after every row on the page.  A reader that
\* goes on after the page's last row misses nothing.
LEMMA PageIsPrefix ==
  ASSUME NEW store \in Store, IsFiniteSet(store.log), NEW start \in Nat,
         NEW r \in RowsFrom(store.log, start, TRUE),
         r \notin GetBatch(store.log, start, TRUE),
         NEW p \in GetBatch(store.log, start, TRUE)
  PROVE  p.seq < r.seq
<1> DEFINE rows == RowsFrom(store.log, start, TRUE)
           upTo(q) == {x \in rows : x.seq <= q.seq}
<1>1. rows \subseteq store.log /\ p \in rows /\ p.seq \in Nat /\ r.seq \in Nat
      /\ \A x \in rows : x.seq \in Nat
  BY DEF RowsFrom, GetBatch, Store, Row
<1>2. IsFiniteSet(rows)
  BY <1>1, FS_Subset
<1>3. SUFFICES ASSUME r.seq <= p.seq PROVE FALSE
  BY <1>1
<1>4. upTo(r) \subseteq upTo(p)
  <2> SUFFICES ASSUME NEW x \in rows, x.seq <= r.seq PROVE x.seq <= p.seq
    OBVIOUS
  <2>1. x.seq \in Nat /\ r.seq \in Nat /\ p.seq \in Nat
    BY <1>1
  <2> QED
    BY <2>1, <1>3
<1>5. /\ Cardinality(upTo(r)) \in Nat
      /\ Cardinality(upTo(p)) \in Nat
      /\ Cardinality(upTo(r)) <= Cardinality(upTo(p))
  <2>1. IsFiniteSet(upTo(p)) /\ IsFiniteSet(upTo(r))
    BY <1>2, FS_Subset
  <2>2. QED
    BY <2>1, <1>4, FS_Subset, FS_CardinalityType
<1>6. Cardinality(upTo(p)) <= BatchSize
  BY DEF GetBatch
<1>7. ~ (Cardinality(upTo(r)) <= BatchSize)
  BY DEF GetBatch
<1>8. QED
  BY <1>5, <1>6, <1>7, BatchSizeAssumption

=============================================================================
