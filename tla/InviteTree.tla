------------------------------ MODULE InviteTree ------------------------------
(***************************************************************************)
(* The account tree of package account: who invited whom, which accounts   *)
(* are enabled, which inviter is active, and whose content counts.         *)
(*                                                                         *)
(* sigbundle.ValidateAndSave runs in one exclusive bolt write transaction  *)
(* and commits at its end, so a save is one step here.  Everything below   *)
(* it is the recursion that step runs inside the transaction: UpdateInvited*)
(* (new, changed and dropped invites), then RecurseUpdateStatus for every  *)
(* account touched, which disables, re-enables and re-parents accounts     *)
(* down the tree.  The recursion works on copies read from the database    *)
(* and writes each one back after its children: what is read, from where,  *)
(* and when it is saved is kept exactly.  log.Fatal and panic stop the     *)
(* process and lose the transaction.                                       *)
(*                                                                         *)
(* A database is a record: the account records, the delta log as one entry *)
(* per account (DeltaLogProofs!LogImplementsFeed), the merklehead's leaves *)
(* (account -> timestamp, 0: no leaf), how many names may be registered    *)
(* for an account, at most, and fatal, the reason the process died in this *)
(* transaction ("": it did not).  The recursion reads neither leaves nor   *)
(* names, so what a removal of theirs may do besides is decided apart from *)
(* it: names by their bound, leaves at the end of the transaction.         *)
(*                                                                         *)
(* AccountProofs proves the type invariant and the safety properties for   *)
(* any graph of who may invite whom; ContentIsTracked and RecursionEnds    *)
(* for graphs with NoCycles, the former with NoShortcuts too and for a     *)
(* merklehead of one document.                                             *)
(***************************************************************************)
EXTENDS Integers, Sequences, FiniteSets, SequencesExt

CONSTANTS
  AccountIds,    \* account addresses: 20 bytes, so finitely many
  TreeRoot,      \* globals.RootAccount
  ZeroAddress,   \* the zero address
  CanInvite,     \* account -> accounts it may list; bounds the inputs
  NameOwners,    \* accounts whose bundles may carry names
  MaxNames,      \* bound on the names of a bundle
  HeadCapacity,  \* the entries a document of the merklehead has room for: 16
  LastTs,        \* timestamps are 1..LastTs; the root's own invite is 1
  LvlGaps,       \* values of an invite's lvlgap
  MaxInvites,    \* bound on the length of an invite list
  MaxDepth       \* bound on the recursion over cyclic invites

ASSUME TreeAssumption ==
  /\ IsFiniteSet(AccountIds)
  /\ TreeRoot \in AccountIds
  /\ ZeroAddress \notin AccountIds
  /\ CanInvite \in [AccountIds -> SUBSET AccountIds]
  /\ LastTs \in Nat \ {0} /\ MaxInvites \in Nat /\ MaxDepth \in Nat
  /\ MaxNames \in Nat /\ HeadCapacity \in Nat
  /\ LvlGaps \subseteq Nat

VARIABLES
  db,        \* the committed database
  process    \* "running", or the reason the process died

treeVars == <<db, process>>

Timestamps == 1..LastTs

(***************************************************************************)
(* invite.Invite, invite.Inviter and AccountStruct.  RootMultihash matters *)
(* only as nil or not; Signature, sizes and SyncStatus, and the inviter's  *)
(* InvitersActiveTimestamp, which nothing reads, are left out.             *)
(***************************************************************************)
NoInviter == [account |-> ZeroAddress, level |-> 0, timestamp |-> 0, gap |-> 0]

\* Inviter.AssignedLevel
AssignedLevel(inviter) ==
  IF inviter.account = ZeroAddress THEN 0 ELSE inviter.level + 1 + inviter.gap

\* Inviter.Equals and Invite.Equals: the inviter's own level is not compared.
SameInviter(i, c) ==
  i.account = c.account /\ i.timestamp = c.timestamp /\ i.gap = c.gap

SameInvite(i, c) ==
  i.account = c.account /\ i.timestamp = c.timestamp /\ i.gap = c.gap

NewAccount(address) ==
  [address |-> address, enabled |-> FALSE, inviters |-> <<>>, invited |-> <<>>,
   active |-> NoInviter, timestamp |-> 0, content |-> FALSE]

\* FetchAccountFromDb(address, tx, true), or a new AccountStruct: a record
\* never saved reads as a new one.
FetchAny(base, address) == base.accounts[address]

\* FetchAccountFromDb(address, tx, false) finds the account.
Found(base, address) == base.accounts[address].enabled

Die(base, reason) == [base EXCEPT !.fatal = reason]

\* account.SaveToDb
SaveToDb(base, me) ==
  IF me.address # TreeRoot /\ me.enabled /\ me.active.timestamp = 0
  THEN Die(base, "account requires active inviter to be set")
  ELSE [base EXCEPT !.accounts[me.address] = me]

\* deltalog.Update, seen as the account's entry in the change feed, and a variant
\* of it that moves a row and never adds one.
LogContentMoves(base, a) ==
  IF base.log[a] = "none" THEN base ELSE [base EXCEPT !.log[a] = "content"]

LogContent(base, a) == [base EXCEPT !.log[a] = "content"]
LogRemoval(base, a) == [base EXCEPT !.log[a] = "removed"]

\* merklehead.Add and merklehead.Remove, seen as the set of leaves.  This is all
\* they do to a tree of one document; see AfterFolding for larger ones.
MerkleAdd(base, a, timestamp) == [base EXCEPT !.merkle[a] = timestamp]
MerkleRemove(base, a) == [base EXCEPT !.merkle[a] = 0]

\* Variant of NamesRemoveAll that removes nothing.
NamesRemoveNone(base, a) == base

\* names.RemoveAllForAddress walks the bucket with a cursor that skips the key after
\* a deleted one, once the transaction has written to the bucket (Names!Visits): so
\* at most every second name of the account stays.
NamesRemoveAll(base, a) == [base EXCEPT !.names[a] = @ \div 2]

\* names.Update replaces the account's names by the count names of its bundle.  It is the
\* transaction's first write to the bucket, so its own removal skips nothing.
NamesUpdate(base, me, count) == [base EXCEPT !.names[me.address] = count]

-----------------------------------------------------------------------------
\* AccountStruct.AddInviter: a known inviter keeps its place and the level it
\* was first recorded with.
AddInviter(me, inviter) ==
  LET known == {k \in DOMAIN me.inviters : me.inviters[k].account = inviter.account}
  IN  IF known = {}
      THEN [me EXCEPT !.inviters = Append(@, inviter)]
      ELSE [me EXCEPT !.inviters =
              [k \in DOMAIN @ |->
                 IF k \in known
                 THEN [@[k] EXCEPT !.timestamp = inviter.timestamp, !.gap = inviter.gap]
                 ELSE @[k]]]

HasInviter(me, address) ==
  \E k \in DOMAIN me.inviters : me.inviters[k].account = address

\* AccountStruct.RemoveInviter
RemoveInviter(me, address) ==
  LET kept[k \in 0..Len(me.inviters)] ==
        IF k = 0 THEN <<>>
        ELSE IF me.inviters[k].account = address THEN kept[k - 1]
        ELSE Append(kept[k - 1], me.inviters[k])
  IN  [me EXCEPT !.inviters = kept[Len(me.inviters)]]

\* The inviter record account me gives an account it invites.
InviterFor(me, invite) ==
  [account |-> me.address, level |-> AssignedLevel(me.active),
   timestamp |-> invite.timestamp, gap |-> invite.gap]

\* AccountStruct.DetermineActiveInviter: the oldest invite; log.Fatal when
\* two are the oldest.
Oldest(inviters) ==
  {k \in DOMAIN inviters :
     \A j \in DOMAIN inviters : inviters[k].timestamp <= inviters[j].timestamp}

\* Variant of DetermineActiveInviter: the inviter recorded last.
DetermineLatestInviter(me) == me.inviters[Len(me.inviters)]

DetermineActiveInviter(me) == me.inviters[CHOOSE k \in Oldest(me.inviters) : TRUE]

-----------------------------------------------------------------------------
(***************************************************************************)
(* The values that a save passes down the recursion.                       *)
(***************************************************************************)
InviterType ==
  [account : AccountIds \cup {ZeroAddress}, level : Nat, timestamp : 0..LastTs,
   gap : LvlGaps \cup {0}]

InviteType ==
  [account : AccountIds, timestamp : Timestamps, gap : LvlGaps, active : BOOLEAN]

AccountRecords ==
  [address : AccountIds, enabled : BOOLEAN, inviters : Seq(InviterType),
   invited : Seq(InviteType), active : InviterType, timestamp : 0..LastTs,
   content : BOOLEAN]

Deaths ==
  {"runaway recursion", "missing account", "DisableAccount() - missing account",
   "Should not happen", "could not remove invite", "uh oh, two invites with same age",
   "account requires active inviter to be set", "merklehead"}

Databases ==
  [accounts : [AccountIds -> AccountRecords],
   log : [AccountIds -> {"none", "content", "removed"}],
   merkle : [AccountIds -> 0..LastTs], names : [AccountIds -> 0..MaxNames],
   fatal : Deaths \cup {""}]

-----------------------------------------------------------------------------
(***************************************************************************)
(* AccountStruct.UpdateInvited decides which invites of a list are active, *)
(* which of those are new or changed, and which of the old ones are        *)
(* dropped.  An invite relisted with a timestamp too old to be active      *)
(* counts as dropped.                                                      *)
(***************************************************************************)
WithActive(me, invites) ==
  [k \in DOMAIN invites |->
     [invites[k] EXCEPT !.active = invites[k].timestamp > me.active.timestamp]]

IsChanged(me, invite) ==
  /\ invite.timestamp > me.active.timestamp
  /\ ~\E k \in DOMAIN me.invited : SameInvite(invite, me.invited[k])

DroppedInvites(me, invites) ==
  LET kept == {i.account : i \in {x \in ToSet(invites) : x.timestamp > me.active.timestamp}}
  IN  {i.account : i \in {x \in ToSet(me.invited) :
                            x.account \notin kept /\ x.timestamp > me.active.timestamp}}

\* Its two log.Fatals.
UpdateInvitedFatal(base, me, order) ==
  CASE \E a \in ToSet(order) : ~Found(base, a) -> "Should not happen"
    [] \E a \in ToSet(order) : ~HasInviter(FetchAny(base, a), me.address) ->
         "could not remove invite"
    [] OTHER -> ""

(***************************************************************************)
(* The recursion.  me is the in-memory AccountStruct; base is what the     *)
(* transaction has written so far; update is RecurseUpdateStatus one call  *)
(* deeper: from a database and an account to the database it leaves.       *)
(*                                                                         *)
(* UpdateInvited collects a copy of each account concerned, with the       *)
(* inviter added or removed, and its caller updates them afterwards, one   *)
(* after the other: the copies are those of read, the database before any  *)
(* of them was updated.                                                    *)
(***************************************************************************)
UpdateNew(read, base, me, invites, update) ==
  LET after[k \in 0..Len(invites)] ==
        IF k = 0 THEN base
        ELSE IF ~IsChanged(me, invites[k]) THEN after[k - 1]
        ELSE update[<<after[k - 1], AddInviter(FetchAny(read, invites[k].account),
                                               InviterFor(me, invites[k]))>>]
  IN  after[Len(invites)]

\* order is the order in which Go's map hands out the dropped accounts.
UpdateDropped(read, base, me, order, update) ==
  LET after[k \in 0..Len(order)] ==
        IF k = 0 THEN base
        ELSE update[<<after[k - 1], RemoveInviter(FetchAny(read, order[k]), me.address)>>]
  IN  after[Len(order)]

\* CheckAllInvited for one invite.  Setting Active on it changes the loop's
\* copy only.
CheckInvited(base, me, invite, update) ==
  LET child == FetchAny(base, invite.account)
  IN  IF base.fatal # "" THEN base
      ELSE IF invite.active
      THEN IF Found(base, invite.account) THEN update[<<base, child>>]
           ELSE Die(base, "missing account")
      ELSE IF me.active.timestamp < invite.timestamp
      THEN update[<<base, AddInviter(child, InviterFor(me, invite))>>]
      ELSE base

CheckAllInvited(base, me, update) ==
  LET after[k \in 0..Len(me.invited)] ==
        IF k = 0 THEN base ELSE CheckInvited(after[k - 1], me, me.invited[k], update)
  IN  after[Len(me.invited)]

\* DisableAccount's loop over Invited, for one invite, and the loop.
DisableChild(base, me, invite, update) ==
  IF base.fatal # "" THEN base
  ELSE IF Found(base, invite.account)
  THEN update[<<base, RemoveInviter(FetchAny(base, invite.account), me.address)>>]
  ELSE Die(base, "DisableAccount() - missing account")

DisableChildren(base, me, update) ==
  LET after[k \in 0..Len(me.invited)] ==
        IF k = 0 THEN base ELSE DisableChild(after[k - 1], me, me.invited[k], update)
  IN  after[Len(me.invited)]

\* The save at the end of a call, unless the process died on the way.
SaveLast(base, me) == IF base.fatal # "" THEN base ELSE SaveToDb(base, me)

\* DisableAccount, and the save after it.
DisableAccount(base, me, update) ==
  LET gone    == [me EXCEPT !.enabled = FALSE, !.active = NoInviter]
      logged  == IF me.content
                 THEN LogRemoval(MerkleRemove(base, me.address), me.address)
                 ELSE base
      below   == DisableChildren(logged, gone, update)
  IN  SaveLast(NamesRemoveAll(below, me.address), gone)

\* ReenableWithContent: UpdateInvited against an empty list, so every active
\* invite is new and none is dropped.
ReenableWithContent(base, me, update) ==
  LET bare  == [me EXCEPT !.invited = <<>>]
      below == UpdateNew(base, base, bare, me.invited, update)
  IN  IF below.fatal # "" THEN below
      ELSE MerkleAdd(LogContent(below, me.address), me.address, me.timestamp)

\* Variant of WithoutContent that resets the timestamp and keeps the content.
WithoutTimestamp(me) == [me EXCEPT !.timestamp = 0]

WithoutContent(me) == [me EXCEPT !.content = FALSE, !.timestamp = 0]

(***************************************************************************)
(* RecurseUpdateStatus for an account that has inviters, once its new      *)
(* active inviter is known: the account is enabled; if it was disabled its *)
(* content returns or is forgotten; if it was enabled its content is       *)
(* removed when the new invite is newer; the invited accounts are checked  *)
(* when the active inviter changed; the account is saved last.             *)
(***************************************************************************)
Returns(me, newInviter) ==
  ~me.enabled /\ me.content /\ me.timestamp > newInviter.timestamp

Forgotten(me, newInviter) ==
  ~me.enabled /\ me.content /\ me.timestamp <= newInviter.timestamp

Outdated(me, newInviter) ==
  me.enabled /\ me.content /\ newInviter.timestamp > me.timestamp

Adopted(me, newInviter) ==
  [me EXCEPT !.enabled = TRUE,
             !.active = IF SameInviter(newInviter, @) THEN @ ELSE newInviter]

\* What becomes of the account ...
Reparented(me, newInviter) ==
  LET adopted == Adopted(me, newInviter)
  IN  IF Returns(me, newInviter)
      THEN [adopted EXCEPT !.invited = WithActive(adopted, @)]
      ELSE IF Outdated(me, newInviter) \/ Forgotten(me, newInviter)
      THEN WithoutContent(adopted)
      ELSE adopted

\* ... and of log, merklehead and the accounts below it.
Reparent(base, me, newInviter, update) ==
  LET changed    == ~SameInviter(newInviter, me.active)
      relevelled == /\ changed
                    /\ me.enabled
                    /\ AssignedLevel(me.active) # AssignedLevel(newInviter)
                    /\ me.content
      base1 == IF relevelled THEN MerkleAdd(base, me.address, me.timestamp) ELSE base
      base2 == IF Returns(me, newInviter)
               THEN ReenableWithContent(base1, Adopted(me, newInviter), update)
               ELSE IF Outdated(me, newInviter)
               THEN LogRemoval(MerkleRemove(base1, me.address), me.address)
               ELSE base1
      base3 == IF changed
               THEN CheckAllInvited(base2, Reparented(me, newInviter), update)
               ELSE base2
  IN  SaveLast(base3, Reparented(me, newInviter))

UpdateStatus(base, me, update) ==
  IF base.fatal # "" THEN base
  ELSE IF me.address = TreeRoot
  THEN SaveLast(CheckAllInvited(base, me, update), me)
  ELSE IF me.inviters = <<>>
  THEN DisableAccount(base, me, update)
  ELSE IF Cardinality(Oldest(me.inviters)) > 1
  THEN Die(base, "uh oh, two invites with same age")
  ELSE Reparent(base, me, DetermineActiveInviter(me), update)

Calls == Databases \X AccountRecords

\* RecurseUpdateStatus to a depth of at most left calls.
RecurseUpdateStatus[left \in Nat] ==
  [call \in Calls |->
     IF left = 0
     THEN IF call[1].fatal # "" THEN call[1] ELSE Die(call[1], "runaway recursion")
     ELSE UpdateStatus(call[1], call[2], RecurseUpdateStatus[left - 1])]

-----------------------------------------------------------------------------
(***************************************************************************)
(* ValidateAndSave in a transaction of its own, after the checks of size,  *)
(* signature and root hash.                                                *)
(***************************************************************************)
\* Variant of Acceptable without the comparison with the invite.
AcceptableBeforeInvite(me, timestamp) ==
  /\ me.enabled
  /\ timestamp > me.timestamp

Acceptable(me, timestamp) ==
  /\ me.enabled
  /\ timestamp > me.timestamp
  /\ timestamp > me.active.timestamp

\* A bundle with a new root document.
SaveChanged(base, a, timestamp, invites, count, order) ==
  LET me      == FetchAny(base, a)
      why     == UpdateInvitedFatal(base, me, order)
      saved   == [me EXCEPT !.invited = WithActive(me, invites),
                            !.content = TRUE, !.timestamp = timestamp]
      written == MerkleAdd(SaveToDb(LogContent(NamesUpdate(base, me, count), a), saved),
                           a, timestamp)
      update  == RecurseUpdateStatus[MaxDepth]
  IN  IF why # "" THEN Die(base, why)
      ELSE UpdateDropped(base, UpdateNew(base, written, me, invites, update),
                         me, order, update)

\* A bundle whose root document is the one already held: logged and added to
\* the merklehead, while the account keeps its timestamp and signature.
SaveUnchanged(base, a, timestamp) ==
  MerkleAdd(LogContent(base, a), a, timestamp)

(***************************************************************************)
(* The merklehead of more accounts than fit into one document.  Its leaves *)
(* are then split over documents and folded together again by removals,    *)
(* which may lose leaves of any account, or stop the process (Merklehead:  *)
(* FoldKeepsAccounts is refuted, NothingStale holds).  The recursion never *)
(* reads a leaf, so all of that may as well happen at its end.             *)
(***************************************************************************)
OneDocument == Cardinality(AccountIds) < HeadCapacity

\* What may remain of the leaves.
Remains(leaves) ==
  {left \in [AccountIds -> 0..LastTs] : \A a \in AccountIds : left[a] \in {leaves[a], 0}}

\* The outcomes of a save that only adds a leaf ...
AfterAdding(result) ==
  IF OneDocument THEN {result} ELSE {result, Die(result, "merklehead")}

\* ... and of one that may have removed leaves, in any of its updates.
AfterFolding(result) ==
  IF OneDocument THEN {result}
  ELSE {Die(result, "merklehead")}
         \cup {[result EXCEPT !.merkle = left] : left \in Remains(result.merkle)}

\* Commit, or die and lose the transaction.
Finish(result) ==
  IF result.fatal = ""
  THEN db' = result /\ process' = "running"
  ELSE db' = db /\ process' = result.fatal

\* The invite lists a bundle of account a can hold, as invite.Parse returns
\* them: no account twice, not the inviter itself.
InviteLists(a) ==
  LET invites == {[account |-> b, timestamp |-> t, gap |-> g, active |-> FALSE] :
                    b \in CanInvite[a] \ {a}, t \in Timestamps, g \in LvlGaps}
      distinct(s) == \A j, k \in DOMAIN s : s[j].account = s[k].account => j = k
  IN  {s \in BoundedSeq(invites, MaxInvites) : distinct(s)}

BundleSave(a, timestamp) ==
  /\ process = "running"
  /\ Acceptable(db.accounts[a], timestamp)
  /\ \E invites \in InviteLists(a) :
     \E count \in (IF a \in NameOwners THEN 0..MaxNames ELSE {0}) :
     \E order \in SetToSeqs(DroppedInvites(db.accounts[a], invites)) :
     \E result \in AfterFolding(SaveChanged(db, a, timestamp, invites, count, order)) :
       Finish(result)

BundleSaveUnchanged(a, timestamp) ==
  /\ process = "running"
  /\ Acceptable(db.accounts[a], timestamp)
  /\ db.accounts[a].content
  /\ \E result \in AfterAdding(SaveUnchanged(db, a, timestamp)) : Finish(result)

\* The process is started again on the database it left.
RestartProcess ==
  /\ process # "running"
  /\ process' = "running"
  /\ UNCHANGED db

\* core.SaveRootAccount: the root is enabled by an invite of its own at 1.
RootInviter == [NoInviter EXCEPT !.timestamp = 1]

TreeInit ==
  /\ db = [accounts |->
             [a \in AccountIds |->
                IF a = TreeRoot
                THEN [NewAccount(TreeRoot) EXCEPT !.enabled = TRUE, !.active = RootInviter,
                                              !.inviters = <<RootInviter>>]
                ELSE NewAccount(a)],
           log    |-> [a \in AccountIds |-> "none"],
           merkle |-> [a \in AccountIds |-> 0],
           names  |-> [a \in AccountIds |-> 0],
           fatal  |-> ""]
  /\ process = "running"

TreeNext ==
  \/ \E a \in AccountIds, timestamp \in Timestamps : BundleSave(a, timestamp)
  \/ \E a \in AccountIds, timestamp \in Timestamps : BundleSaveUnchanged(a, timestamp)
  \/ RestartProcess

TreeSpec == TreeInit /\ [][TreeNext]_treeVars

-----------------------------------------------------------------------------
(***************************************************************************)
(* Properties.                                                             *)
(***************************************************************************)
\* Every account record, log entry, leaf and registration has its shape, and a
\* transaction that died is never committed.
TreeTypeOK ==
  /\ db \in Databases
  /\ db.fatal = ""
  /\ \A a \in AccountIds : db.accounts[a].address = a
  /\ process \in Deaths \cup {"running"}

Acc(a) == db.accounts[a]

\* The account is served: it is enabled and has content.
HasContent(a) == Acc(a).enabled /\ Acc(a).content

\* The delta log, the merklehead and the account records are written in three
\* places, deep in the recursion and from copies; yet after every save they
\* agree on which accounts have content.  Peers compare the merklehead and
\* ask for what the log lists.  (A merklehead of more than one document may have
\* lost a leaf; it has none of an account without content.)  It is so on the
\* instance Loop and not on every graph: where an account lists two accounts of which
\* one lists the other (Shortcut), UpdateInvited copies both before the update of one
\* reaches the other, whose copy is outdated when it is saved.
ContentIsTracked ==
  \A a \in AccountIds :
    /\ db.log[a] = "content" <=> HasContent(a)
    /\ db.merkle[a] # 0 => HasContent(a)
    /\ OneDocument /\ HasContent(a) => db.merkle[a] # 0

\* An account is enabled exactly while somebody invites it, and its active
\* inviter is the oldest of the invites it holds (DetermineActiveInviter,
\* DisableAccount), whatever order invites came, changed and went in.
EnabledByOldestInvite ==
  \A a \in AccountIds \ {TreeRoot} :
    /\ Acc(a).enabled <=> Acc(a).inviters # <<>>
    /\ Acc(a).enabled =>
         \E k \in Oldest(Acc(a).inviters) : SameInviter(Acc(a).active, Acc(a).inviters[k])

\* No served content is older than the invite its account lives under: a
\* re-parenting removes what became outdated, however deep in the tree.
ContentNotBeforeInvite ==
  \A a \in AccountIds : HasContent(a) => Acc(a).timestamp >= Acc(a).active.timestamp

\* Disabling an account takes its names away, whichever way the recursion reached
\* it, but for those that the cursor skipped: of a single name none is left, of
\* several at most half.  (Content that becomes outdated by a newer invite leaves its
\* names behind.)
NamesNeedAccount ==
  \A a \in AccountIds : ~Acc(a).enabled => db.names[a] <= MaxNames \div 2

\* Whatever there is of an account to be withdrawn one day, content, a leaf of
\* the merklehead or names, the delta log has a row for the account: content
\* comes and goes in five places, some of them working from outdated copies,
\* and none leaves anything behind of an account that the log never listed.
ContentIsLogged ==
  \A a \in AccountIds :
    Acc(a).content \/ db.merkle[a] # 0 \/ db.names[a] # 0 => db.log[a] # "none"

-----------------------------------------------------------------------------
(***************************************************************************)
(* The graph of who may invite whom: what of a save depends on it.         *)
(***************************************************************************)
MayInvite(a) == CanInvite[a] \ {a}

\* The accounts that the invites of a may lead to, a among them.
Below(a) ==
  {b \in AccountIds :
     \A S \in SUBSET AccountIds :
       a \in S /\ (\A x \in S : MayInvite(x) \subseteq S) => b \in S}

\* Nobody invites, however indirectly, who invited him.
NoCycles == \A a \in AccountIds : \A b \in MayInvite(a) : a \notin Below(b)

\* Nobody invites twice, directly and through another of those he invites.
NoShortcuts ==
  \A a \in AccountIds : \A b, c \in MayInvite(a) : c \in Below(b) => c = b

\* The recursion may call once for each account below the one it starts from.
DepthSuffices == \A a \in AccountIds : Cardinality(Below(a)) <= MaxDepth

\* The recursion of a save ends by itself (CheckAllInvited, DisableAccount): the bound
\* is never what stops it.  It is so where there are no cycles (AccountProofs); TLC
\* refutes it for accounts that invite each other, with any bound (the instance Pair).
RecursionEnds == process # "runaway recursion"

\* However far its recursion goes, a save changes nothing of an account that the
\* invites of its own account do not lead to: neither record nor log entry, leaf
\* or names.  (Folding the documents of a large merklehead may lose its leaf.)
SavesReachDown ==
  [][\A a \in AccountIds :
       (\E t \in Timestamps : BundleSave(a, t) \/ BundleSaveUnchanged(a, t)) =>
         \A b \in AccountIds \ Below(a) :
           /\ db'.accounts[b] = db.accounts[b]
           /\ db'.log[b] = db.log[b]
           /\ db'.merkle[b] \in {db.merkle[b]} \cup (IF OneDocument THEN {} ELSE {0})
           /\ db'.names[b] = db.names[b]]_db

-----------------------------------------------------------------------------
(***************************************************************************)
(* What the code says of itself and does not keep: TLC refutes each with   *)
(* the configuration Unkept (see the README).                              *)
(***************************************************************************)

\* CheckAllInvited finds every account on whose list entry it relies: the
\* panic behind "error missing account" is never reached.
ActiveInvitesExist == process # "missing account"

\* DisableAccount finds every account its account invites.
InvitedExistOnDisable == process # "DisableAccount() - missing account"

\* UpdateInvited finds the account of a dropped invite, and the inviter in it.
DroppedInvitesExist == process \notin {"Should not happen", "could not remove invite"}

\* UpdateInvited skips the removal of an invite only if it was never active:
\* so whoever is recorded as an account's inviter still lists it.
SkippedWasNeverActive ==
  \A a \in AccountIds \ {TreeRoot} : \A i \in ToSet(Acc(a).inviters) :
    \E v \in ToSet(Acc(i.account).invited) : v.account = a

\* The log and the merklehead, written side by side, agree on which accounts
\* have content.
LogMatchesHead ==
  \A a \in AccountIds : db.log[a] = "content" <=> db.merkle[a] # 0

\* The log announces the removal of an account's content only when it had
\* announced that content before.
RemovalsFollowContent ==
  [][\A a \in AccountIds : db'.log[a] = "removed" => db.log[a] # "none"]_db

\* A bundle is saved only when it is newer than the newest saved before: the
\* timestamp of an account's leaf never goes back.
NewerOnly ==
  [][\A a \in AccountIds :
       db.merkle[a] # 0 /\ db'.merkle[a] # 0 => db'.merkle[a] >= db.merkle[a]]_db

\* Served content is newer than the invite its account lives under.
ContentAfterInvite ==
  \A a \in AccountIds : HasContent(a) => Acc(a).timestamp > Acc(a).active.timestamp

=============================================================================
