------------------------------ MODULE DeltaLog -------------------------------
(***************************************************************************)
(* The life of the delta log on one node: bolt write transactions that     *)
(* update it, commits that fail, crashes, restarts and -clearcontent.      *)
(*                                                                         *)
(* bolt admits one write transaction at a time (db.GetTx(true)), readers   *)
(* see the last committed contents, and an uncommitted transaction is lost *)
(* when the process stops.  globals.LatestSequenceNo is process memory: it *)
(* is assigned inside the transaction and reloaded by core.Start.          *)
(***************************************************************************)
EXTENDS DeltaLogOps

CONSTANTS
  WordSize,    \* 2^64 in the code: uint arithmetic wraps
  MaxSeq,      \* bound on the bucket sequence
  MaxBoots     \* bound on process starts

ASSUME WordAssumption == WordSize \in Nat \ {0} /\ MaxSeq \in Nat /\ MaxBoots \in Nat

VARIABLES
  disk,        \* the committed bucket and its config copy
  seed,        \* config key sequenceSeed; 0: not set
  tx,          \* what the open write transaction sees; disk when none is
  open,        \* a write transaction is open
  latest,      \* globals.LatestSequenceNo
  up,          \* the process runs
  boots,       \* process starts so far; stands for the wall clock in seeds
  wrote        \* history: this process has called deltalog.Update

vars == <<disk, seed, tx, open, latest, up, boots, wrote>>

TypeOK ==
  /\ disk \in Store
  /\ tx \in Store
  /\ seed \in Nat
  /\ open \in BOOLEAN
  /\ latest \in Nat
  /\ up \in BOOLEAN
  /\ boots \in Nat
  /\ wrote \in BOOLEAN

Init ==
  /\ disk = EmptyStore
  /\ seed = 0
  /\ tx = EmptyStore
  /\ open = FALSE
  /\ latest = 0
  /\ up = FALSE
  /\ boots = 0
  /\ wrote = FALSE

\* Variant of LoadedSequenceNo in arithmetic without a word size.
LoadedSequenceNoUnbounded(store) == GetDeltaLogSequence(store) - 1

\* globals.LatestSequenceNo after a restart: a uint.
LoadedSequenceNo(store) == (GetDeltaLogSequence(store) - 1) % WordSize

(***************************************************************************)
(* core.Start: create the bucket if it is missing (deltalog.Init), then    *)
(* name the sequence on a first run, or reload the last sequence number.   *)
(***************************************************************************)
Start ==
  /\ ~up
  /\ boots < MaxBoots
  /\ up' = TRUE
  /\ boots' = boots + 1
  /\ wrote' = FALSE
  /\ \/ /\ seed = 0
        /\ seed' = boots + 1
        /\ latest' = 0
     \/ /\ seed # 0
        /\ seed' = seed
        /\ latest' = LoadedSequenceNo(disk)
  /\ UNCHANGED <<disk, tx, open>>

\* db.GetTx(true): waits while another write transaction is open.
BeginWrite ==
  /\ up
  /\ ~open
  /\ open' = TRUE
  /\ tx' = disk
  /\ UNCHANGED <<disk, seed, latest, up, boots, wrote>>

\* Variant of Update that forgets to assign the global.
UpdateWithoutGlobal(account, isRemoval) ==
  /\ up
  /\ open
  /\ tx.seq < MaxSeq
  /\ tx' = LogUpdate(tx, account, isRemoval)
  /\ wrote' = TRUE
  /\ UNCHANGED <<disk, seed, open, latest, up, boots>>

\* deltalog.Update in the open transaction; the global is assigned at once.
Update(account, isRemoval) ==
  /\ up
  /\ open
  /\ tx.seq < MaxSeq
  /\ tx' = LogUpdate(tx, account, isRemoval)
  /\ latest' = tx'.seq
  /\ wrote' = TRUE
  /\ UNCHANGED <<disk, seed, open, up, boots>>

Commit ==
  /\ up
  /\ open
  /\ disk' = tx
  /\ open' = FALSE
  /\ UNCHANGED <<seed, tx, latest, up, boots, wrote>>

\* db.RollbackTx, or db.CommitTx when bolt's Commit fails: the error is
\* printed and the caller goes on; the global keeps the lost number.
Abandon ==
  /\ up
  /\ open
  /\ tx' = disk
  /\ open' = FALSE
  /\ UNCHANGED <<disk, seed, latest, up, boots, wrote>>

\* The process stops at any point: killed, log.Fatal or panic.
Stop ==
  /\ up
  /\ up' = FALSE
  /\ tx' = disk
  /\ open' = FALSE
  /\ latest' = 0
  /\ UNCHANGED <<disk, seed, boots, wrote>>

\* Variant of ClearContent that keeps the sequence seed.
ClearContentKeepsSeed ==
  /\ ~up
  /\ disk' = EmptyStore
  /\ tx' = EmptyStore
  /\ UNCHANGED <<seed, open, latest, up, boots, wrote>>

\* wip2p -clearcontent: db.ClearContent in a process of its own, which exits.
ClearContent ==
  /\ ~up
  /\ disk' = EmptyStore
  /\ tx' = EmptyStore
  /\ seed' = 0
  /\ UNCHANGED <<open, latest, up, boots, wrote>>

Next ==
  \/ Start
  \/ BeginWrite
  \/ \E a \in Accounts, isRemoval \in BOOLEAN : Update(a, isRemoval)
  \/ Commit
  \/ Abandon
  \/ Stop
  \/ ClearContent

Spec == Init /\ [][Next]_vars

-----------------------------------------------------------------------------
\* Log and index agree (StoreOK), on disk and inside the transaction.
LogIndexAgree == StoreOK(disk) /\ StoreOK(tx)

(***************************************************************************)
(* A peer that pages through the log with increasing numbers can only be   *)
(* complete if a committed transaction never adds a row at or below the    *)
(* number the log had already reached: aborted transactions hand out       *)
(* numbers that are used again, but no committed number ever is, until     *)
(* the log is cleared and a new seed names the new numbering.              *)
(***************************************************************************)
RowsOnlyAtTail ==
  [][disk' # EmptyStore =>
       \A r \in disk'.log \ disk.log : r.seq > disk.seq]_vars

(***************************************************************************)
(* Once this process has updated the log, the sequence number it tells     *)
(* peers (peer_info's latestSequenceNo) is not behind the committed log,   *)
(* whatever was rolled back: a peer is never told less than it could get.  *)
(***************************************************************************)
ToldNotBehindLog == up /\ wrote => latest >= disk.seq

(***************************************************************************)
(* core.Start, "get latest sequenceNo from db" (core.go:74): whenever no   *)
(* transaction is open the number in memory is the number of the log's     *)
(* last row, also after a restart.                                         *)
(***************************************************************************)
LatestIsFromDb == up /\ ~open /\ ~wrote => latest = disk.seq

(***************************************************************************)
(* The log implements the change feed: an account's entry is its index     *)
(* number with the flag of the row it names, the clock is the sequence,    *)
(* and the epoch is the sequence seed.  Only a commit publishes.           *)
(***************************************************************************)
RemovedFlag(store, a) ==
  \E r \in store.log : r.account = a /\ r.removed

FeedOf(store) ==
  [a \in Accounts |-> [seq |-> store.index[a], removed |-> RemovedFlag(store, a)]]

Feed == INSTANCE ChangeFeed WITH
          feed <- FeedOf(disk), clock <- disk.seq, epoch <- seed

ImplementsFeed == Feed!Spec

(***************************************************************************)
(* The inductive invariant behind the theorems of DeltaLogProofs.  Besides *)
(* the agreement of log and index it says what an open transaction may     *)
(* differ in from the disk: only by rows past the disk's sequence.         *)
(***************************************************************************)
TxAppends ==
  /\ tx.seq >= disk.seq
  /\ \A r \in tx.log \ disk.log : r.seq > disk.seq
  /\ \A a \in Accounts : disk.index[a] <= tx.index[a]

ClosedMeansSame == ~open => tx = disk

StoppedMeansClosed == ~up => ~open

UnnamedMeansEmpty == seed = 0 => disk = EmptyStore /\ ~up

ToldNotBehindTx == up /\ wrote => latest >= tx.seq

InductiveInv ==
  /\ TypeOK
  /\ LogIndexAgree
  /\ TxAppends
  /\ ClosedMeansSame
  /\ StoppedMeansClosed
  /\ UnnamedMeansEmpty
  /\ ToldNotBehindTx

=============================================================================
