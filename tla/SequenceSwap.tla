----------------------------- MODULE SequenceSwap ----------------------------
(***************************************************************************)
(* A peer (the client) downloads another peer's content by paging through  *)
(* its delta log: StartSequenceSwap asks bundle_getBySequence for a page,  *)
(* saves the accounts on it one by one, and goes on after the last row.    *)
(* Meanwhile the server keeps committing bundles of its own.               *)
(*                                                                         *)
(* The server's handler reads the log in one read transaction and the      *)
(* accounts in a second one, so a write can be committed between the two.  *)
(* The client's reads of the server (ui_getAccount) are later still.       *)
(*                                                                         *)
(* An account's content is represented by its timestamp; a timestamp is    *)
(* the log number of the save that introduced it, which keeps the order    *)
(* ValidateAndSave demands (a newer bundle has a larger timestamp).        *)
(***************************************************************************)
EXTENDS DeltaLogOps

CONSTANT MaxSeq      \* bound on the server's log sequence

VARIABLES
  \* the server's database, as committed
  disk,        \* the delta log
  enabled,     \* accounts FetchAccountFromDb finds (Enabled = true)
  stamp,       \* account -> Timestamp of its content, 0: no content
  \* the server's process
  serverUp,    \* FALSE once log.Fatal stopped it
  hpc,         \* bundle_getBySequence: "idle" or between its two reads
  hRows,       \* the log rows it read
  \* the client's StartSequenceSwap goroutine
  connected,
  pc,          \* "idle", "asked", "processing", "fetching", "saving", "done"
  start,       \* curSeqNo: where the current page was asked to start
  last,        \* lastSeqNo of the current page
  items,       \* items of the page not yet processed
  answer,      \* Timestamp of the bundle ui_getAccount answered with
  have,        \* account -> Timestamp the client holds, 0: none
  \* history
  frontier,    \* the client has dealt with every row below this number
  failed       \* accounts whose save failed

serverVars == <<disk, enabled, stamp>>
handlerVars == <<serverUp, hpc, hRows>>
clientVars == <<connected, pc, start, last, items, answer, have, frontier, failed>>
vars == <<serverVars, handlerVars, clientVars>>

Item == [seq : Nat, account : Accounts, removed : BOOLEAN, timestamp : Nat]

TypeOK ==
  /\ disk \in Store
  /\ enabled \in SUBSET Accounts
  /\ stamp \in [Accounts -> Nat]
  /\ serverUp \in BOOLEAN
  /\ hpc \in {"idle", "accounts"}
  /\ hRows \in SUBSET Row
  /\ connected \in BOOLEAN
  /\ pc \in {"idle", "asked", "processing", "fetching", "saving", "done"}
  /\ start \in Nat
  /\ last \in Nat
  /\ items \in SUBSET Item
  /\ answer \in Nat
  /\ have \in [Accounts -> Nat]
  /\ frontier \in Nat
  /\ failed \in SUBSET Accounts

Init ==
  /\ disk = EmptyStore
  /\ enabled = Accounts
  /\ stamp = [a \in Accounts |-> 0]
  /\ serverUp = TRUE
  /\ hpc = "idle"
  /\ hRows = {}
  /\ connected = TRUE
  /\ pc = "idle"
  /\ start = 1
  /\ last = 0
  /\ items = {}
  /\ answer = 0
  /\ have = [a \in Accounts |-> 0]
  /\ frontier = 1
  /\ failed = {}

-----------------------------------------------------------------------------
(***************************************************************************)
(* What a committed write transaction of the server changes of the data    *)
(* the reader sees.  InviteTree models the transactions themselves and     *)
(* checks that each logs exactly these changes.                            *)
(***************************************************************************)

\* ValidateAndSave: an enabled account's new content is logged.
SaveContent(a) ==
  /\ serverUp
  /\ disk.seq < MaxSeq
  /\ a \in enabled
  /\ disk' = LogUpdate(disk, a, FALSE)
  /\ stamp' = [stamp EXCEPT ![a] = disk'.seq]
  /\ UNCHANGED <<enabled, handlerVars, clientVars>>

\* DisableAccount: the account is hidden; a removal is logged if it had
\* content, which stays in the account record.
Disable(a) ==
  /\ serverUp
  /\ disk.seq < MaxSeq
  /\ a \in enabled
  /\ enabled' = enabled \ {a}
  /\ disk' = IF stamp[a] # 0 THEN LogUpdate(disk, a, TRUE) ELSE disk
  /\ UNCHANGED <<stamp, handlerVars, clientVars>>

\* ReenableWithContent: the account returns with the content it had.
ReenableWithContent(a) ==
  /\ serverUp
  /\ disk.seq < MaxSeq
  /\ a \notin enabled
  /\ stamp[a] # 0
  /\ enabled' = enabled \cup {a}
  /\ disk' = LogUpdate(disk, a, FALSE)
  /\ UNCHANGED <<stamp, handlerVars, clientVars>>

\* RecurseUpdateStatus on an account invited again later than its content:
\* it returns without content and nothing is logged.
ReenableWithoutContent(a) ==
  /\ serverUp
  /\ a \notin enabled
  /\ enabled' = enabled \cup {a}
  /\ stamp' = [stamp EXCEPT ![a] = 0]
  /\ UNCHANGED <<disk, handlerVars, clientVars>>

\* RecurseUpdateStatus on an enabled account that gets a newer inviter than
\* its content: the content is dropped and a removal is logged.
DropContent(a) ==
  /\ serverUp
  /\ disk.seq < MaxSeq
  /\ a \in enabled
  /\ stamp[a] # 0
  /\ stamp' = [stamp EXCEPT ![a] = 0]
  /\ disk' = LogUpdate(disk, a, TRUE)
  /\ UNCHANGED <<enabled, handlerVars, clientVars>>

-----------------------------------------------------------------------------
(***************************************************************************)
(* bundle_getBySequence on the server: deltalog.GetBatch in a transaction  *)
(* of its own, then every account on the page in a second one.  A content  *)
(* row whose account is not found stops the process (log.Fatal).           *)
(***************************************************************************)
HandlerReadLog ==
  /\ serverUp
  /\ connected
  /\ pc = "asked"
  /\ hpc = "idle"
  /\ hRows' = GetBatch(disk.log, start, TRUE)
  /\ hpc' = "accounts"
  /\ UNCHANGED <<serverVars, serverUp, clientVars>>

ListItem(r) ==
  [seq |-> r.seq, account |-> r.account, removed |-> r.removed,
   timestamp |-> IF r.removed THEN 0 ELSE stamp[r.account]]

AllFound == \A r \in hRows : r.removed \/ r.account \in enabled

HandlerReadAccounts ==
  /\ serverUp
  /\ connected
  /\ hpc = "accounts"
  /\ AllFound
  /\ hpc' = "idle"
  /\ hRows' = {}
  /\ items' = {ListItem(r) : r \in hRows}
  /\ last' = start
  /\ pc' = "processing"
  /\ UNCHANGED <<serverVars, serverUp, connected, start, answer, have, frontier,
                 failed>>

HandlerFatal ==
  /\ serverUp
  /\ hpc = "accounts"
  /\ ~AllFound
  /\ serverUp' = FALSE
  /\ UNCHANGED <<serverVars, hpc, hRows, clientVars>>

-----------------------------------------------------------------------------
(***************************************************************************)
(* The client.  What it holds changes only through this swap.              *)
(***************************************************************************)

\* StartSequenceSwap with LastSyncSequenceNo 0, which nothing ever advances.
StartSequenceSwap ==
  /\ pc = "idle"
  /\ pc' = "asked"
  /\ start' = 1
  /\ UNCHANGED <<serverVars, handlerVars, connected, last, items, answer, have,
                 frontier, failed>>

IsNext(item) == item \in items /\ \A other \in items : item.seq <= other.seq

\* doSequenceSwapBatch has dealt with the item; rest is what it still does.
Passed(item, rest) ==
  /\ pc' = "processing"
  /\ items' = rest
  /\ last' = item.seq
  /\ frontier' = item.seq + 1

\* An item that needs no save: a removal, or an account the client holds at
\* least as new.
SkipItem(item) ==
  /\ pc = "processing"
  /\ IsNext(item)
  /\ item.removed \/ item.timestamp <= have[item.account]
  /\ Passed(item, items \ {item})
  /\ UNCHANGED <<serverVars, handlerVars, connected, start, answer, have, failed>>

\* SaveAccountPlusMissingInviters asks ui_getAccount for the bundle; an account
\* the client does not know is asked for whatever the item's timestamp.
AskAccount(item) ==
  /\ pc = "processing"
  /\ IsNext(item)
  /\ ~item.removed
  /\ item.timestamp > have[item.account] \/ have[item.account] = 0
  /\ pc' = "fetching"
  /\ UNCHANGED <<serverVars, handlerVars, connected, start, last, items, answer,
                 have, frontier, failed>>

\* ui_getAccount answers with the account as it is by now.
AccountAnswered(item) ==
  /\ serverUp
  /\ connected
  /\ pc = "fetching"
  /\ IsNext(item)
  /\ item.account \in enabled
  /\ answer' = stamp[item.account]
  /\ pc' = "saving"
  /\ UNCHANGED <<serverVars, handlerVars, connected, start, last, items, have,
                 frontier, failed>>

\* The recursion for an account the client did not know: its active inviter is
\* fetched and saved first, while the account's own bundle waits in memory.
SaveInviter(item, inviter) ==
  /\ serverUp
  /\ connected
  /\ pc = "saving"
  /\ IsNext(item)
  /\ have[item.account] = 0
  /\ inviter # item.account
  /\ inviter \in enabled
  /\ stamp[inviter] > have[inviter]
  /\ have' = [have EXCEPT ![inviter] = stamp[inviter]]
  /\ UNCHANGED <<serverVars, handlerVars, connected, pc, start, last, items, answer,
                 frontier, failed>>

\* ValidateAndSave takes a bundle newer than what the client holds.
Newer(timestamp, account) == timestamp > have[account]

AccountSaved(item) ==
  /\ pc = "saving"
  /\ IsNext(item)
  /\ Newer(answer, item.account)
  /\ have' = [have EXCEPT ![item.account] = answer]
  /\ Passed(item, items \ {item})
  /\ UNCHANGED <<serverVars, handlerVars, connected, start, answer, failed>>

\* The server no longer finds the account, an inviter cannot be saved, or
\* ValidateAndSave refuses: the rest of the page is left ("break").
AccountRefused(item) ==
  /\ IsNext(item)
  /\ \/ pc = "fetching" /\ serverUp /\ connected /\ item.account \notin enabled
     \/ pc = "saving"
  /\ Passed(item, {})
  /\ failed' = failed \cup {item.account}
  /\ UNCHANGED <<serverVars, handlerVars, connected, start, answer, have>>

\* Variants of NextStart: one past the next row, and the first row again.
NextStartSkipsOne(lastSeqNo) == lastSeqNo + 2
NextStartFromFirst(lastSeqNo) == 1

\* StartSequenceSwap's loop: ask for the page after the last row dealt with.
NextStart(lastSeqNo) == lastSeqNo + 1

NextPage ==
  /\ pc = "processing"
  /\ items = {}
  /\ last # start
  /\ start' = NextStart(last)
  /\ pc' = "asked"
  /\ UNCHANGED <<serverVars, handlerVars, connected, last, items, answer, have,
                 frontier, failed>>

\* ... and stop when the page led no further than its own start.
SwapDone ==
  /\ pc = "processing"
  /\ items = {}
  /\ last = start
  /\ pc' = "done"
  /\ UNCHANGED <<serverVars, handlerVars, connected, start, last, items, answer,
                 have, frontier, failed>>

\* The websocket closes.  No one answers the channel a request waits on.
Disconnect ==
  /\ connected
  /\ pc # "done"
  /\ connected' = FALSE
  /\ UNCHANGED <<serverVars, handlerVars, pc, start, last, items, answer, have,
                 frontier, failed>>

ServerWrite ==
  \E a \in Accounts :
    \/ SaveContent(a)
    \/ Disable(a)
    \/ ReenableWithContent(a)
    \/ ReenableWithoutContent(a)
    \/ DropContent(a)

Handler == HandlerReadLog \/ HandlerReadAccounts \/ HandlerFatal

ClientItem ==
  \E item \in items :
    \/ SkipItem(item)
    \/ AskAccount(item)
    \/ AccountAnswered(item)
    \/ \E inviter \in Accounts : SaveInviter(item, inviter)
    \/ AccountSaved(item)
    \/ AccountRefused(item)

Client == StartSequenceSwap \/ ClientItem \/ NextPage \/ SwapDone

Next == ServerWrite \/ Handler \/ Client \/ Disconnect

Spec == Init /\ [][Next]_vars

(***************************************************************************)
(* Both ends are goroutines that run whenever they can; nothing obliges    *)
(* anyone to write bundles or the connection to fail.                      *)
(***************************************************************************)
Fairness ==
  /\ WF_vars(Handler)
  /\ WF_vars(Client)

FairSpec == Spec /\ Fairness

-----------------------------------------------------------------------------
(***************************************************************************)
(* The promise of the swap, while the server keeps writing: an account     *)
(* whose current row lies below the client's position is held by the       *)
(* client exactly as the server has it, unless saving it failed.  Paging   *)
(* by number with no transaction around the pages can only do that because *)
(* every change moves the account's row past the position.                 *)
(***************************************************************************)
Settled(r) == ~r.removed /\ r.seq < frontier /\ r.account \notin failed

CaughtUp ==
  \A r \in disk.log : Settled(r) => have[r.account] = stamp[r.account]

(***************************************************************************)
(* An item is never older than the log row it came from: the handler reads *)
(* the log before the accounts, so a timestamp it serves for a row that is *)
(* still current is that row's content.                                    *)
(***************************************************************************)
ItemsAreCurrent ==
  \A item \in items :
    \A r \in disk.log :
      r.seq = item.seq /\ ~item.removed => item.timestamp = stamp[item.account]

(***************************************************************************)
(* A swap that ends without a failed save has dealt with every row up to   *)
(* where it asked last: what is still below that position was not skipped. *)
(***************************************************************************)
DoneMeansComplete ==
  pc = "done" /\ failed = {} =>
    \A a \in enabled :
      stamp[a] # 0 /\ disk.index[a] < start => have[a] = stamp[a]

(***************************************************************************)
(* The swap comes to an end: it stops by itself unless the connection or   *)
(* the server is lost.                                                     *)
(***************************************************************************)
SwapEnds == pc = "asked" ~> pc = "done" \/ ~connected \/ ~serverUp

(***************************************************************************)
(* bundle_getBySequence's own assertion (rpc_bundle_getbysequence.go:39,   *)
(* log.Fatal "sequence account not found in db"): a content row's account  *)
(* is in the database when the handler looks for it.                       *)
(***************************************************************************)
RowAccountsFound == hpc = "accounts" => AllFound

=============================================================================
