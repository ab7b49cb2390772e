------------------------------ MODULE Admission ------------------------------
(***************************************************************************)
(* How a node gets its root account and whom it invites by itself.         *)
(*                                                                         *)
(* core.Start opens the database, reads or writes the one-shot flags       *)
(* (nextAuthIsRoot, nextAuthGetsInvite, getRootFromNextPeer) and the root  *)
(* account in transactions of their own; peerAuth and peerInfo act on the  *)
(* flags' copies in package globals, which no lock protects, before they   *)
(* open the transaction that saves what they did; ui_requestInvite redeems *)
(* a key and writes the node's invite document in one transaction, and     *)
(* hands the new bundle to the Broadcaster before it commits.  The process *)
(* may stop between any two steps and be started again, with other flags   *)
(* on its command line; a root account given there (-root) is left out,    *)
(* and so are commits that fail.                                           *)
(***************************************************************************)
EXTENDS Integers

CONSTANTS
  Accounts,    \* the accounts that connect to the node
  Node,        \* the node's own account
  DefaultRoot, \* the root account of the default tree
  RootOf,      \* account -> the root account that its node announces
  NoRoot,      \* no root account: the key is missing, the global is all zero
  Keys,        \* the keys of invites, the empty one ("nokey") among them
  Life,        \* how long an invite made with a key lasts (Days)
  MaxNum, MaxTime, MaxStops, SessionIds  \* bounds

Roots == {Node, DefaultRoot} \cup Accounts \cup {RootOf[a] : a \in Accounts}

ASSUME ConstantsAssumption ==
  /\ RootOf \in [Accounts -> Roots]
  /\ NoRoot \notin Roots
  /\ Node \notin Accounts
  /\ Life \in Nat /\ MaxNum \in Nat /\ MaxTime \in Nat \ {0} /\ MaxStops \in Nat

VARIABLES
  db,          \* what is committed
  uncommitted, \* the open transaction of ui_requestInvite: {} or what it will commit
  globals,     \* the root account and the flags, as package globals has them
  process,     \* where core.Start is, with which mode, and was it the first run
  sessions,    \* id -> the account, and where its handler is
  now,         \* the clock, in the seconds that bundles are stamped with
  sent,        \* history: the invites given to the Broadcaster
  ledger,      \* history: key -> invites granted and made since; 0 granted: unlimited
  stops        \* history: how often the process stopped on its way

vars == <<db, uncommitted, globals, process, sessions, now, sent, ledger, stops>>

\* Num of an entry of the invites bucket is 0 for "unlimited".
NoEntry == -1

Invite == [account : Accounts, at : 1..MaxTime, expire : {0, Life}]

Modes == {"plain", "new", "noroot", "peerboot", "clearcontent", "autoinvite"}

Phases == {"down", "opened", "cleared", "flags", "root", "saved", "ready", "serving"}

\* Where a handler is: "isRoot", "getsInvite" and "adopts" have seen a flag,
\* "saveRoot" and "saveAdopted" have set the global, "commits" has broadcast.
Steps == {"none", "asked", "isRoot", "saveRoot", "getsInvite", "authed",
          "adopts", "saveAdopted", "commits"}

NoSession == [at |-> "none", account |-> Node]

Flags(isRoot, getsInvite, fromPeer, root) ==
  [root |-> root, nextAuthIsRoot |-> isRoot, nextAuthGetsInvite |-> getsInvite,
   getRootFromNextPeer |-> fromPeer]

NoFlags == Flags(FALSE, FALSE, FALSE, NoRoot)

EmptyDb ==
  [exists |-> FALSE, flags |-> NoFlags, rooted |-> {}, member |-> FALSE,
   invites |-> [k \in Keys |-> NoEntry], doc |-> {}, newerThan |-> 0]

Init ==
  /\ db = EmptyDb
  /\ uncommitted = {}
  /\ globals = NoFlags
  /\ process = [phase |-> "down", mode |-> "plain", firstRun |-> FALSE]
  /\ sessions = [s \in SessionIds |-> NoSession]
  /\ now = 1
  /\ sent = {}
  /\ ledger = [k \in Keys |-> [granted |-> 0, made |-> 0]]
  /\ stops = 0

-----------------------------------------------------------------------------
(***************************************************************************)
(* The process starts and stops.                                           *)
(***************************************************************************)
At(phase) == process.phase = phase

Goto(phase) == process' = [process EXCEPT !.phase = phase]

\* Variant of SaveRootAccount that does not save the account.
SaveRootOnly(base, root) == [base EXCEPT !.flags.root = root]

\* rootAccount in the config, and an account with an invite of its own.
SaveRootAccount(base, root) ==
  [base EXCEPT !.flags.root = root, !.rooted = @ \cup {root}]

\* ProcessArgs(1) and DbInit: -peerboot wants a new database.
Start(mode) ==
  /\ At("down")
  /\ mode = "peerboot" => ~db.exists
  /\ process' = [phase |-> "opened", mode |-> mode, firstRun |-> ~db.exists]
  /\ db' = [db EXCEPT !.exists = TRUE]
  /\ globals' = [globals EXCEPT !.getRootFromNextPeer = (mode = "peerboot")]
  /\ UNCHANGED <<uncommitted, sessions, now, sent, ledger, stops>>

\* ProcessArgs(2): -clearcontent deletes accounts and documents first.
ProcessArgs ==
  /\ At("opened")
  /\ \/ /\ process.mode = "clearcontent"
        /\ db' = [db EXCEPT !.rooted = {}, !.member = FALSE, !.doc = {}, !.newerThan = 0]
        /\ Goto("cleared")
        /\ UNCHANGED globals
     \/ /\ process.mode = "peerboot"
        /\ db' = [db EXCEPT !.flags.getRootFromNextPeer = TRUE]
        /\ Goto("flags")
        /\ UNCHANGED globals
     \/ /\ process.mode \notin {"clearcontent", "peerboot"}
        /\ globals' = [globals EXCEPT !.getRootFromNextPeer = db.flags.getRootFromNextPeer]
        /\ Goto("flags")
        /\ UNCHANGED db
  /\ UNCHANGED <<uncommitted, sessions, now, sent, ledger, stops>>

\* The second half of clearContent, after which the process exits; without a
\* root account SaveRootAccount stops it with "rootAccount not 20 bytes".
RestoreRootAccount ==
  /\ At("cleared")
  /\ db' = IF db.flags.root = NoRoot THEN db ELSE SaveRootAccount(db, db.flags.root)
  /\ Goto("down")
  /\ globals' = NoFlags
  /\ UNCHANGED <<uncommitted, sessions, now, sent, ledger, stops>>

\* core.Start: "import the NextAuths".
ImportNextAuths ==
  /\ At("flags")
  /\ globals' = [globals EXCEPT !.nextAuthIsRoot = db.flags.nextAuthIsRoot,
                                !.nextAuthGetsInvite = db.flags.nextAuthGetsInvite]
  /\ Goto("root")
  /\ UNCHANGED <<db, uncommitted, sessions, now, sent, ledger, stops>>

\* InitRootAccount.  -new (with -noroot or -peerboot) on an existing database
\* stops the process.
InitRootAccount ==
  LET newTree == process.mode \in {"new", "noroot", "peerboot"}
      fresh   == process.firstRun /\ db.flags.root = NoRoot
  IN
  /\ At("root")
  /\ \/ /\ newTree /\ ~process.firstRun
        /\ Goto("down")
        /\ globals' = NoFlags
        /\ UNCHANGED db
     \/ /\ ~(newTree /\ ~process.firstRun) /\ db.flags.root # NoRoot
        /\ Goto("ready")
        /\ globals' = [globals EXCEPT !.root = db.flags.root]
        /\ UNCHANGED db
     \/ /\ ~newTree /\ ~process.firstRun /\ db.flags.root = NoRoot
        /\ Goto("ready")
        /\ UNCHANGED <<globals, db>>
     \/ /\ process.mode = "peerboot" /\ fresh
        /\ Goto("ready")
        /\ globals' = [globals EXCEPT !.getRootFromNextPeer = TRUE]
        /\ db' = [db EXCEPT !.flags.getRootFromNextPeer = TRUE]
     \/ /\ process.mode = "noroot" /\ fresh
        /\ Goto("ready")
        /\ globals' = [globals EXCEPT !.nextAuthIsRoot = TRUE]
        /\ db' = [db EXCEPT !.flags.nextAuthIsRoot = TRUE]
     \/ /\ process.mode = "new" /\ fresh
        /\ Goto("saved")
        /\ db' = SaveRootAccount(db, Node)
        /\ UNCHANGED globals
     \/ /\ ~newTree /\ fresh
        /\ Goto("ready")
        /\ db' = SaveRootAccount(db, DefaultRoot)
        /\ globals' = [globals EXCEPT !.root = DefaultRoot]
  /\ UNCHANGED <<uncommitted, sessions, now, sent, ledger, stops>>

\* -new: the flag, in a transaction after that of SaveRootAccount.
WriteNextAuthGetsInvite ==
  /\ At("saved")
  /\ db' = [db EXCEPT !.flags.nextAuthGetsInvite = TRUE]
  /\ globals' = [globals EXCEPT !.nextAuthGetsInvite = TRUE, !.root = Node]
  /\ Goto("ready")
  /\ UNCHANGED <<uncommitted, sessions, now, sent, ledger, stops>>

Serve ==
  /\ At("ready")
  /\ process.mode # "autoinvite"
  /\ Goto("serving")
  /\ UNCHANGED <<db, uncommitted, globals, sessions, now, sent, ledger, stops>>

\* ProcessInviteFlag, and Start returns.  An entry is replaced, with a new Num;
\* "clear" deletes all.
AutoInvite(invites, counts) ==
  /\ At("ready")
  /\ process.mode = "autoinvite"
  /\ db' = [db EXCEPT !.invites = invites]
  /\ ledger' = counts
  /\ globals' = NoFlags
  /\ Goto("down")
  /\ UNCHANGED <<uncommitted, sessions, now, sent, stops>>

Grant(key, num) ==
  AutoInvite([db.invites EXCEPT ![key] = num],
             [ledger EXCEPT ![key] = [granted |-> num, made |-> 0]])

ClearInvites ==
  AutoInvite([k \in Keys |-> NoEntry], [k \in Keys |-> [granted |-> 0, made |-> 0]])

\* The process ends, on its own (log.Fatal, panic) or not: what is not
\* committed is lost.
Stop ==
  /\ ~At("down")
  /\ stops < MaxStops
  /\ stops' = stops + 1
  /\ Goto("down")
  /\ uncommitted' = {}
  /\ globals' = NoFlags
  /\ sessions' = [s \in SessionIds |-> NoSession]
  /\ UNCHANGED <<db, now, sent, ledger>>

-----------------------------------------------------------------------------
(***************************************************************************)
(* The node's invite document.                                             *)
(***************************************************************************)
\* The node is an account of its own tree.
Inviting(base) == Node \in base.rooted \/ base.member

\* FetchAccountFromDb finds the account, enabled.
Enabled(base, a) ==
  \/ a \in base.rooted
  \/ a = Node /\ base.member
  \/ Inviting(base) /\ \E i \in base.doc : i.account = a

Expired(i) == i.expire > 0 /\ i.at + i.expire < now

\* Variant of OldestExpired that takes the oldest, expired or not.
Oldest(doc) == {i \in doc : \A j \in doc : i.at + i.expire <= j.at + j.expire}

OldestExpired(doc) ==
  {i \in doc : Expired(i) /\ \A j \in doc : Expired(j) => i.at + i.expire <= j.at + j.expire}

\* CreateInvite: at most one expired invite makes room for the new one.
InviteDocs(doc, a, expire) ==
  LET invite == [account |-> a, at |-> now, expire |-> expire]
  IN  IF OldestExpired(doc) = {} THEN {doc \cup {invite}}
      ELSE {(doc \ {i}) \cup {invite} : i \in OldestExpired(doc)}

AlreadyInvited(base, a) == \E i \in base.doc : i.account = a

\* ValidateAndSave wants a newer timestamp than the last bundle and the node's
\* own invite.
StampIsNewer(base) == now > base.newerThan

CanCreate(base, a) == Inviting(base) /\ ~AlreadyInvited(base, a) /\ StampIsNewer(base)

\* What the transaction holds when CreateInvite succeeded.
Created(base, a, expire) ==
  {[base EXCEPT !.doc = doc, !.newerThan = now] : doc \in InviteDocs(base.doc, a, expire)}

\* Another bundle of the tree invites the node's account.
NodeIsInvited ==
  /\ At("serving")
  /\ uncommitted = {}
  /\ db.flags.root \in db.rooted
  /\ ~Inviting(db)
  /\ db' = [db EXCEPT !.member = TRUE, !.newerThan = IF @ > now THEN @ ELSE now]
  /\ UNCHANGED <<uncommitted, globals, process, sessions, now, sent, ledger, stops>>

Tick ==
  /\ now < MaxTime
  /\ now' = now + 1
  /\ UNCHANGED <<db, uncommitted, globals, process, sessions, sent, ledger, stops>>

-----------------------------------------------------------------------------
(***************************************************************************)
(* The sessions' handlers.                                                 *)
(***************************************************************************)
SessionAt(s, step) == At("serving") /\ sessions[s].at = step

Move(s, step) == sessions' = [sessions EXCEPT ![s].at = step]

\* A peer_auth request arrives.
Connect(s, a) ==
  /\ SessionAt(s, "none")
  /\ sessions' = [sessions EXCEPT ![s] = [at |-> "asked", account |-> a]]
  /\ UNCHANGED <<db, uncommitted, globals, process, now, sent, ledger, stops>>

Close(s) ==
  /\ SessionAt(s, "asked") \/ SessionAt(s, "authed")
  /\ sessions' = [sessions EXCEPT ![s] = NoSession]
  /\ UNCHANGED <<db, uncommitted, globals, process, now, sent, ledger, stops>>

\* peerAuth looks at the flags, in this order.
PeerAuth(s) ==
  /\ SessionAt(s, "asked")
  /\ Move(s, IF globals.nextAuthIsRoot THEN "isRoot"
             ELSE IF globals.nextAuthGetsInvite THEN "getsInvite" ELSE "authed")
  /\ UNCHANGED <<db, uncommitted, globals, process, now, sent, ledger, stops>>

\* copy(globals.RootAccount[:], recAddressB)
BecomeRoot(s) ==
  /\ SessionAt(s, "isRoot")
  /\ globals' = [globals EXCEPT !.root = sessions[s].account]
  /\ Move(s, "saveRoot")
  /\ UNCHANGED <<db, uncommitted, process, now, sent, ledger, stops>>

\* Variant of SaveRoot that writes the address of its own session.
SaveRootOfSession(s) ==
  /\ SessionAt(s, "saveRoot")
  /\ uncommitted = {}
  /\ db' = [db EXCEPT !.flags.root = sessions[s].account,
                      !.flags.nextAuthIsRoot = FALSE,
                      !.rooted = @ \cup {sessions[s].account}]
  /\ globals' = [globals EXCEPT !.nextAuthIsRoot = FALSE]
  /\ Move(s, "authed")
  /\ UNCHANGED <<uncommitted, process, now, sent, ledger, stops>>

\* Variant of SaveRoot whose first transaction only deletes the flag.
SaveRootLater(s) ==
  /\ SessionAt(s, "saveRoot")
  /\ uncommitted = {}
  /\ db' = [db EXCEPT !.flags.nextAuthIsRoot = FALSE]
  /\ globals' = [globals EXCEPT !.nextAuthIsRoot = FALSE]
  /\ UNCHANGED <<uncommitted, process, sessions, now, sent, ledger, stops>>

\* The transaction writes the global, whoever set it last, and saves the
\* account of this session.
SaveRoot(s) ==
  /\ SessionAt(s, "saveRoot")
  /\ uncommitted = {}
  /\ db' = [db EXCEPT !.flags.root = globals.root,
                      !.flags.nextAuthIsRoot = FALSE,
                      !.rooted = @ \cup {sessions[s].account}]
  /\ globals' = [globals EXCEPT !.nextAuthIsRoot = FALSE]
  /\ Move(s, "authed")
  /\ UNCHANGED <<uncommitted, process, now, sent, ledger, stops>>

\* peerAuth ignores an error of CreateInvite and clears the flag; when
\* ValidateAndSave refused the timestamp it has rolled the transaction back,
\* and deleting the flag in it panics ("tx closed").
InviteNextAuth(s) ==
  LET a == sessions[s].account IN
  /\ SessionAt(s, "getsInvite")
  /\ uncommitted = {}
  /\ IF Inviting(db) /\ ~AlreadyInvited(db, a) /\ ~StampIsNewer(db)
     THEN /\ Goto("down")
          /\ globals' = NoFlags
          /\ sessions' = [t \in SessionIds |-> NoSession]
          /\ UNCHANGED db
     ELSE /\ \E saved \in (IF CanCreate(db, a) THEN Created(db, a, 0) ELSE {db}) :
               db' = [saved EXCEPT !.flags.nextAuthGetsInvite = FALSE]
          /\ globals' = [globals EXCEPT !.nextAuthGetsInvite = FALSE]
          /\ Move(s, "authed")
          /\ UNCHANGED process
  /\ UNCHANGED <<uncommitted, now, sent, ledger, stops>>

\* peerInfo sees getRootFromNextPeer.
PeerInfo(s) ==
  /\ SessionAt(s, "authed")
  /\ globals.getRootFromNextPeer
  /\ Move(s, "adopts")
  /\ UNCHANGED <<db, uncommitted, globals, process, now, sent, ledger, stops>>

AdoptRoot(s) ==
  /\ SessionAt(s, "adopts")
  /\ globals' = [globals EXCEPT !.root = RootOf[sessions[s].account]]
  /\ Move(s, "saveAdopted")
  /\ UNCHANGED <<db, uncommitted, process, now, sent, ledger, stops>>

\* Both the root account and the account saved are the global.
SaveAdopted(s) ==
  /\ SessionAt(s, "saveAdopted")
  /\ uncommitted = {}
  /\ db' = [SaveRootAccount(db, globals.root) EXCEPT !.flags.getRootFromNextPeer = FALSE]
  /\ globals' = [globals EXCEPT !.getRootFromNextPeer = FALSE]
  /\ Move(s, "authed")
  /\ UNCHANGED <<uncommitted, process, now, sent, ledger, stops>>

\* RedeemInviteKey: the last one deletes the entry.
Redeemed(base, key) ==
  [base EXCEPT !.invites[key] = CASE @ = 0 -> 0
                                  [] @ = 1 -> NoEntry
                                  [] OTHER -> @ - 1]

\* What a transaction that redeems the key and invites the account may hold.
Redemptions(base, a, key) ==
  {[db |-> created, key |-> key, made |-> TRUE] : created \in Created(Redeemed(base, key), a, Life)}

\* Variant of RequestInvite that commits what was redeemed when the invite fails.
RequestKeepsRedeemed(s, key) ==
  LET a == sessions[s].account IN
  /\ SessionAt(s, "authed")
  /\ uncommitted = {}
  /\ db.invites[key] # NoEntry
  /\ \E result \in (IF CanCreate(db, a) THEN Redemptions(db, a, key)
                    ELSE {[db |-> Redeemed(db, key), key |-> key, made |-> FALSE]}) :
       uncommitted' = {result}
  /\ sent' = sent \cup {[account |-> a, at |-> now, expire |-> Life]}
  /\ Move(s, "commits")
  /\ UNCHANGED <<db, globals, process, now, ledger, stops>>

\* ui_requestInvite up to the broadcast; any error rolls the transaction back
\* and changes nothing.
RequestInvite(s, key) ==
  LET a == sessions[s].account IN
  /\ SessionAt(s, "authed")
  /\ uncommitted = {}
  /\ db.invites[key] # NoEntry
  /\ CanCreate(db, a)
  /\ \E result \in Redemptions(db, a, key) : uncommitted' = {result}
  /\ sent' = sent \cup {[account |-> a, at |-> now, expire |-> Life]}
  /\ Move(s, "commits")
  /\ UNCHANGED <<db, globals, process, now, ledger, stops>>

CommitInvite(s) ==
  /\ SessionAt(s, "commits")
  /\ \E result \in uncommitted :
       /\ db' = result.db
       /\ ledger' = [ledger EXCEPT ![result.key].made =
                       IF ledger[result.key].granted > 0 /\ result.made THEN @ + 1 ELSE @]
  /\ uncommitted' = {}
  /\ Move(s, "authed")
  /\ UNCHANGED <<globals, process, now, sent, stops>>

Next ==
  \/ \E mode \in Modes : Start(mode)
  \/ ProcessArgs \/ RestoreRootAccount \/ ImportNextAuths \/ InitRootAccount
  \/ WriteNextAuthGetsInvite \/ Serve
  \/ \E key \in Keys, num \in 0..MaxNum : Grant(key, num)
  \/ ClearInvites
  \/ Stop \/ NodeIsInvited \/ Tick
  \/ \E s \in SessionIds :
       \/ \E a \in Accounts : Connect(s, a)
       \/ Close(s) \/ PeerAuth(s) \/ BecomeRoot(s) \/ SaveRoot(s) \/ InviteNextAuth(s)
       \/ PeerInfo(s) \/ AdoptRoot(s) \/ SaveAdopted(s)
       \/ \E key \in Keys : RequestInvite(s, key)
       \/ CommitInvite(s)

Spec == Init /\ [][Next]_vars

-----------------------------------------------------------------------------
(***************************************************************************)
(* Properties.                                                             *)
(***************************************************************************)
FlagsType ==
  [root : Roots \cup {NoRoot}, nextAuthIsRoot : BOOLEAN, nextAuthGetsInvite : BOOLEAN,
   getRootFromNextPeer : BOOLEAN]

DbType ==
  [exists : BOOLEAN, flags : FlagsType, rooted : SUBSET Roots, member : BOOLEAN,
   invites : [Keys -> {NoEntry} \cup 0..MaxNum], doc : SUBSET Invite, newerThan : 0..MaxTime]

TypeOK ==
  /\ db \in DbType
  /\ uncommitted \subseteq [db : DbType, key : Keys, made : BOOLEAN]
  /\ globals \in FlagsType
  /\ process \in [phase : Phases, mode : Modes, firstRun : BOOLEAN]
  /\ sessions \in [SessionIds -> [at : Steps, account : Accounts \cup {Node}]]
  /\ \A s \in SessionIds : sessions[s].at # "none" => sessions[s].account \in Accounts
  /\ now \in 1..MaxTime
  /\ sent \subseteq Invite
  /\ ledger \in [Keys -> [granted : 0..MaxNum, made : Nat]]
  /\ stops \in 0..MaxStops

SomeAt(steps) == \E s \in SessionIds : sessions[s].at \in steps

\* The globals are written before and outside the transactions, by several
\* sessions, and read back after a restart; yet whenever no handler is between
\* the two, the node that serves works with the root account and the flags that
\* its database has, so a restart changes neither.
GlobalsMatchDb ==
  At("serving") /\ ~SomeAt({"saveRoot", "saveAdopted"}) => globals = db.flags

\* RedeemInviteKey and CreateInvite: of the invites granted to a key, as many
\* are left as were not made, whatever failed, expired or was lost on the way.
RedeemedWereInvited ==
  \A k \in Keys : ledger[k].granted > 0 =>
    ledger[k].made + (IF db.invites[k] = NoEntry THEN 0 ELSE db.invites[k]) = ledger[k].granted

HasWayToRoot(base) ==
  \/ base.flags.root # NoRoot
  \/ base.flags.nextAuthIsRoot
  \/ base.flags.getRootFromNextPeer

\* Once the database has a root account, or a flag by which it will get one, it
\* keeps one of them, wherever the process stops.
KeepsWayToRoot == [][HasWayToRoot(db) => HasWayToRoot(db')]_vars

\* As long as the process never stopped on its way, the root account of a node
\* that serves is an account it can save bundles for (peerAuth writes the two
\* from different variables), unless a handler is about to save it.
RootHasAccount ==
  At("serving") /\ stops = 0 /\ db.flags.root # NoRoot /\ ~SomeAt({"saveRoot", "saveAdopted"}) =>
    db.flags.root \in db.rooted

\* CreateInvite makes room by dropping what has expired: an invite that is still
\* good stays in the document, unless the content is cleared.
GoodInvitesStay ==
  [][~At("opened") => \A i \in db.doc : i \in db'.doc \/ Expired(i)]_vars

-----------------------------------------------------------------------------
(***************************************************************************)
(* What the code says of itself and does not keep.                         *)
(***************************************************************************)
\* InitRootAccount: "cannot change root on already existing tree".
RootIsFinal ==
  [][db.flags.root # NoRoot => db'.flags.root = db.flags.root]_vars

\* InitRootAccount: "No RootAccount set, first account will be assigned as Root".
FirstWillBeRoot ==
  At("serving") /\ db.flags.root = NoRoot =>
    globals.nextAuthIsRoot \/ globals.getRootFromNextPeer

\* What is broadcast, as an invite of this node, is in the database of this node.
SentIsSaved ==
  At("serving") /\ uncommitted = {} => \A i \in sent : Expired(i) \/ i \in db.doc

=============================================================================
