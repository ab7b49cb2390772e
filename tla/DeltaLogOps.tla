----------------------------- MODULE DeltaLogOps -----------------------------
(***************************************************************************)
(* The delta log of package deltalog as a data structure.  The bolt bucket *)
(* "deltalog" holds two kinds of keys: 0x01+seqNo -> account|isRemoval     *)
(* (the log) and 0x02+account -> seqNo (the index of the account's current *)
(* log row).  The bucket's own sequence numbers the rows; the config key   *)
(* latestSequenceNo is a copy of it written in the same transaction.       *)
(*                                                                         *)
(* A store is a record with the log as a set of rows, the index as a       *)
(* function (0: the account has no 0x02 key; bolt numbers rows from 1),    *)
(* the bucket sequence and the config copy.                                *)
(***************************************************************************)
EXTENDS Integers, FiniteSets

CONSTANTS
  Accounts,    \* the accounts whose changes are logged
  BatchSize    \* rows per bundle_getBySequence page (10 in the code)

ASSUME BatchSizeAssumption == BatchSize \in Nat \ {0}

Row == [seq : Nat, account : Accounts, removed : BOOLEAN]

Store == [log : SUBSET Row, index : [Accounts -> Nat], seq : Nat, latest : Nat]

\* deltalog.Init: the bucket right after it was created.
EmptyStore ==
  [log |-> {}, index |-> [a \in Accounts |-> 0], seq |-> 0, latest |-> 0]

\* Variant of LogUpdate that forgets to drop the account's old row.
LogUpdateLeavesOldRow(store, account, isRemoval) ==
  LET seqNo == store.seq + 1
      row   == [seq |-> seqNo, account |-> account, removed |-> isRemoval]
  IN  [log    |-> store.log \cup {row},
       index  |-> [store.index EXCEPT ![account] = seqNo],
       seq    |-> seqNo,
       latest |-> seqNo]

\* Variant of LogUpdate that overwrites an account's row where it is.
LogUpdateInPlace(store, account, isRemoval) ==
  LET known == store.index[account] # 0
      next  == IF known THEN store.seq ELSE store.seq + 1
      seqNo == IF known THEN store.index[account] ELSE next
      row   == [seq |-> seqNo, account |-> account, removed |-> isRemoval]
  IN  [log    |-> {r \in store.log : r.seq # seqNo} \cup {row},
       index  |-> [store.index EXCEPT ![account] = seqNo],
       seq    |-> next,
       latest |-> next]

(***************************************************************************)
(* deltalog.Update: take the next bucket sequence, copy it to the config,  *)
(* drop the row the account's index entry names, put the new row and point *)
(* the index at it.  Put replaces whatever is stored under its key.        *)
(***************************************************************************)
LogUpdate(store, account, isRemoval) ==
  LET seqNo == store.seq + 1
      stale == {r \in store.log : r.seq = store.index[account] \/ r.seq = seqNo}
      row   == [seq |-> seqNo, account |-> account, removed |-> isRemoval]
  IN  [log    |-> (store.log \ stale) \cup {row},
       index  |-> [store.index EXCEPT ![account] = seqNo],
       seq    |-> seqNo,
       latest |-> seqNo]

\* The rows a cursor over the 0x01 keys meets from startSequence on.
RowsFrom(log, startSequence, includeRemovals) ==
  {r \in log : r.seq >= startSequence /\ (includeRemovals \/ ~r.removed)}

(***************************************************************************)
(* deltalog.GetBatch: the first BatchSize of those rows in key order (a    *)
(* set is enough: the rows carry their sequence numbers).                  *)
(***************************************************************************)
GetBatch(log, startSequence, includeRemovals) ==
  LET rows == RowsFrom(log, startSequence, includeRemovals)
  IN  {r \in rows : Cardinality({q \in rows : q.seq <= r.seq}) <= BatchSize}

\* deltalog.GetDeltaLogSequence: the number NextSequence would hand out, less
\* one.  The write transaction it takes is rolled back.
GetDeltaLogSequence(store) == (store.seq + 1) - 1

-----------------------------------------------------------------------------
(***************************************************************************)
(* Log and index are two views of one fact: an account has at most one     *)
(* row, exactly when it has an index entry, and the entry names that row;  *)
(* no two rows share a number and none lies beyond the sequence.  Update   *)
(* rebuilds this with three separate bucket writes (delete the old row,    *)
(* put the new, put the index); a row the index does not name would never  *)
(* be deleted again.                                                       *)
(***************************************************************************)
RowsIndexed(store) ==
  \A r \in store.log : r.seq = store.index[r.account]

EntriesHaveRows(store) ==
  \A a \in Accounts :
    store.index[a] # 0 => \E r \in store.log : r.account = a /\ r.seq = store.index[a]

NumbersUnique(store) ==
  \A r, q \in store.log : r.seq = q.seq => r = q

NumbersInRange(store) ==
  \A r \in store.log : 1 <= r.seq /\ r.seq <= store.seq

StoreOK(store) ==
  /\ RowsIndexed(store)
  /\ EntriesHaveRows(store)
  /\ NumbersUnique(store)
  /\ NumbersInRange(store)

=============================================================================
