---------------------------- MODULE AdmissionProofs ----------------------------
(***************************************************************************)
(* Theorems about how a node gets its root account and invites others, for *)
(* every set of accounts, keys and sessions and every bound.               *)
(***************************************************************************)
EXTENDS Admission, TLAPS

(***************************************************************************)
(* The inductive invariant: what the root account and the flags are at     *)
(* every step of core.Start, what the open transaction holds, and what the *)
(* invites that are left add up to.                                        *)
(***************************************************************************)
\* A handler that is about to save the root account has set the global.
GlobalIsSet ==
  At("serving") /\ SomeAt({"saveRoot", "saveAdopted"}) => globals.root # NoRoot

\* No session, and no open transaction, before the node serves.
QuietUntilServing ==
  ~At("serving") => uncommitted = {} /\ \A s \in SessionIds : sessions[s] = NoSession

SameFlags(a, b) ==
  /\ a.nextAuthIsRoot = b.nextAuthIsRoot
  /\ a.nextAuthGetsInvite = b.nextAuthGetsInvite
  /\ a.getRootFromNextPeer = b.getRootFromNextPeer

\* The globals as core.Start fills them in.
GlobalsFollow ==
  /\ At("down") => globals.root = NoRoot
  /\ At("opened") => globals.root = NoRoot
  /\ At("opened") => (globals.getRootFromNextPeer <=> process.mode = "peerboot")
  /\ At("flags") => /\ globals.root = NoRoot
                    /\ globals.getRootFromNextPeer = db.flags.getRootFromNextPeer
  /\ At("root") => globals.root = NoRoot /\ SameFlags(globals, db.flags)
  /\ At("saved") => db.flags.root = Node /\ SameFlags(globals, db.flags)
  /\ At("ready") => globals.root = db.flags.root /\ SameFlags(globals, db.flags)
  /\ At("serving") =>
       /\ SameFlags(globals, db.flags)
       /\ globals.root = db.flags.root \/ SomeAt({"saveRoot", "saveAdopted"})

\* What the open transaction will commit differs from the database in one
\* redemption and one invite.
OpenTransaction ==
  \A u \in uncommitted :
    /\ u.db.flags = db.flags
    /\ u.made
    /\ db.invites[u.key] # NoEntry
    /\ u.db.invites = Redeemed(db, u.key).invites
    /\ \A i \in db.doc : i \in u.db.doc \/ Expired(i)

LimitedStayLimited ==
  \A k \in Keys : ledger[k].granted > 0 => db.invites[k] # 0

IInv ==
  /\ TypeOK
  /\ GlobalIsSet
  /\ QuietUntilServing
  /\ GlobalsFollow
  /\ OpenTransaction
  /\ LimitedStayLimited
  /\ RedeemedWereInvited

(***************************************************************************)
(* Types.                                                                  *)
(***************************************************************************)

\* SaveRootAccount keeps a well-typed database well typed.
LEMMA SaveRootAccountType ==
  ASSUME NEW base \in DbType, NEW root \in Roots
  PROVE  SaveRootAccount(base, root) \in DbType
  BY DEF SaveRootAccount, DbType, FlagsType

\* RedeemInviteKey keeps a well-typed database well typed.
LEMMA RedeemedType ==
  ASSUME NEW base \in DbType, NEW key \in Keys, base.invites[key] # NoEntry
  PROVE  Redeemed(base, key) \in DbType
<1>1. base.invites \in [Keys -> {NoEntry} \cup 0..MaxNum] /\ MaxNum \in Nat /\ NoEntry = -1
  BY ConstantsAssumption DEF DbType, NoEntry
<1>2. base.invites[key] \in 0..MaxNum
  BY <1>1
<1> DEFINE left == CASE base.invites[key] = 0 -> 0
                     [] base.invites[key] = 1 -> NoEntry
                     [] OTHER -> base.invites[key] - 1
<1>3. left \in {NoEntry} \cup 0..MaxNum
  BY <1>1, <1>2
<1>4. Redeemed(base, key) = [base EXCEPT !.invites[key] = left]
  BY DEF Redeemed
<1> HIDE DEF left
<1>5. QED
  BY <1>1, <1>3, <1>4 DEF DbType

\* CreateInvite keeps a well-typed database well typed.
LEMMA CreatedType ==
  ASSUME NEW base \in DbType, NEW a \in Accounts, NEW expire \in {0, Life}, now \in 1..MaxTime,
         NEW created \in Created(base, a, expire)
  PROVE  created \in DbType
<1> DEFINE invite == [account |-> a, at |-> now, expire |-> expire]
<1>1. PICK doc \in InviteDocs(base.doc, a, expire) :
        created = [base EXCEPT !.doc = doc, !.newerThan = now]
  BY DEF Created
<1>2. invite \in Invite
  BY DEF Invite
<1>3. base.doc \subseteq Invite
  BY DEF DbType
<1>4. doc \subseteq Invite
  BY <1>2, <1>3 DEF InviteDocs
<1>5. now \in 0..MaxTime
  BY ConstantsAssumption
<1>6. QED
  BY <1>1, <1>4, <1>5 DEF DbType

\* Setting a flag or the root account keeps the flags well typed.
LEMMA FlagsSet ==
  ASSUME NEW f \in FlagsType, NEW b \in BOOLEAN, NEW root \in Roots \cup {NoRoot}
  PROVE  /\ [f EXCEPT !.root = root] \in FlagsType
         /\ [f EXCEPT !.nextAuthIsRoot = b] \in FlagsType
         /\ [f EXCEPT !.nextAuthGetsInvite = b] \in FlagsType
         /\ [f EXCEPT !.getRootFromNextPeer = b] \in FlagsType
  BY DEF FlagsType

\* So does setting them in the database.
LEMMA DbFlagsSet ==
  ASSUME NEW base \in DbType, NEW b \in BOOLEAN
  PROVE  /\ base.flags \in FlagsType
         /\ [base EXCEPT !.flags.nextAuthIsRoot = b] \in DbType
         /\ [base EXCEPT !.flags.nextAuthGetsInvite = b] \in DbType
         /\ [base EXCEPT !.flags.getRootFromNextPeer = b] \in DbType
<1>1. base.flags \in FlagsType
  BY DEF DbType
<1>2. \A f \in FlagsType : [base EXCEPT !.flags = f] \in DbType
  BY DEF DbType
<1>3. QED
  BY <1>1, <1>2, FlagsSet DEF FlagsType

\* CreateInvite changes the invite document and its timestamp, and drops from
\* the document only what has expired.
LEMMA CreatedKeeps ==
  ASSUME NEW base \in DbType, NEW a, NEW expire, NEW created \in Created(base, a, expire)
  PROVE  /\ created.flags = base.flags /\ created.invites = base.invites
         /\ created.rooted = base.rooted
         /\ \A i \in base.doc : i \in created.doc \/ Expired(i)
<1>1. PICK doc \in InviteDocs(base.doc, a, expire) :
        created = [base EXCEPT !.doc = doc, !.newerThan = now]
  BY DEF Created
<1>2. \A i \in base.doc : i \in doc \/ Expired(i)
  BY <1>1 DEF InviteDocs, OldestExpired
<1>3. QED
  BY <1>1, <1>2 DEF DbType

\* clearContent keeps a well-typed database well typed.
LEMMA ClearedType ==
  ASSUME NEW base \in DbType
  PROVE  [base EXCEPT !.rooted = {}, !.member = FALSE, !.doc = {}, !.newerThan = 0] \in DbType
<1>1. 0 \in 0..MaxTime
  BY ConstantsAssumption
<1>2. [base EXCEPT !.rooted = {}] \in DbType
  BY DEF DbType
<1>3. [base EXCEPT !.rooted = {}, !.member = FALSE] \in DbType
  BY <1>2 DEF DbType
<1>4. [base EXCEPT !.rooted = {}, !.member = FALSE, !.doc = {}] \in DbType
  BY <1>3 DEF DbType
<1>5. QED
  BY <1>1, <1>4 DEF DbType

\* SaveAdopted keeps the database well typed: without NoRoot, which its session
\* replaced, as the root account.
LEMMA SaveAdoptedType ==
  ASSUME TypeOK, NEW s \in SessionIds, SaveAdopted(s), globals.root # NoRoot
  PROVE  db' \in DbType
<1>1. SaveRootAccount(db, globals.root) \in DbType
  BY SaveRootAccountType DEF TypeOK, FlagsType
<1>2. QED
  BY <1>1, DbFlagsSet DEF SaveAdopted

\* InitRootAccount keeps the types.
LEMMA InitRootAccountType ==
  ASSUME TypeOK, InitRootAccount
  PROVE  TypeOK'
<1> USE DEF TypeOK
<1>1. Node \in Roots /\ DefaultRoot \in Roots
  BY DEF Roots
<1>2. NoFlags \in FlagsType
  BY DEF NoFlags, Flags, FlagsType
<1>3. SaveRootAccount(db, Node) \in DbType /\ SaveRootAccount(db, DefaultRoot) \in DbType
  BY <1>1, SaveRootAccountType
<1>4. db' \in DbType
  BY <1>3, DbFlagsSet DEF InitRootAccount
<1>5. globals' \in FlagsType
  <2>1. db.flags.root \in Roots \cup {NoRoot}
    BY DEF DbType, FlagsType
  <2>2. /\ [globals EXCEPT !.root = db.flags.root] \in FlagsType
        /\ [globals EXCEPT !.root = DefaultRoot] \in FlagsType
        /\ [globals EXCEPT !.getRootFromNextPeer = TRUE] \in FlagsType
        /\ [globals EXCEPT !.nextAuthIsRoot = TRUE] \in FlagsType
    BY <1>1, <2>1, FlagsSet
  <2>3. QED
    BY <1>2, <2>2 DEF InitRootAccount
<1>6. process' \in [phase : Phases, mode : Modes, firstRun : BOOLEAN]
  BY DEF InitRootAccount, Phases, Goto
<1>7. QED
  BY <1>4, <1>5, <1>6 DEF InitRootAccount

\* A node that has never run is well typed.
LEMMA InitType == Init => TypeOK
  BY ConstantsAssumption
  DEF Init, TypeOK, DbType, FlagsType, EmptyDb, NoFlags, Flags, NoSession, Steps, Phases, Modes,
      NoEntry

\* Moving the handler of a session keeps the sessions well typed.
LEMMA MoveType ==
  ASSUME TypeOK, NEW s \in SessionIds, NEW step \in Steps, sessions[s].at # "none",
         Move(s, step)
  PROVE  /\ sessions' \in [SessionIds -> [at : Steps, account : Accounts \cup {Node}]]
         /\ \A t \in SessionIds : sessions'[t].at # "none" => sessions'[t].account \in Accounts
  BY DEF TypeOK, Move

\* RequestInvite keeps the types.
LEMMA RequestInviteType ==
  ASSUME TypeOK, NEW s \in SessionIds, NEW key \in Keys, RequestInvite(s, key)
  PROVE  TypeOK'
<1> DEFINE a == sessions[s].account
<1>1. db \in DbType /\ now \in 1..MaxTime /\ db.invites[key] # NoEntry /\ a \in Accounts
  BY DEF TypeOK, RequestInvite, SessionAt
<1>2. Redeemed(db, key) \in DbType
  BY <1>1, RedeemedType
<1>3. \A created \in Created(Redeemed(db, key), a, Life) : created \in DbType
  <2>1. TAKE created \in Created(Redeemed(db, key), a, Life)
  <2>2. Life \in {0, Life}
    OBVIOUS
  <2>3. QED
    BY <1>1, <1>2, <2>2, CreatedType
<1>4. ASSUME NEW r \in Redemptions(db, a, key)
      PROVE  r \in [db : DbType, key : Keys, made : BOOLEAN]
  <2>1. PICK created \in Created(Redeemed(db, key), a, Life) :
          r = [db |-> created, key |-> key, made |-> TRUE]
    BY DEF Redemptions
  <2>2. created \in DbType
    BY <1>3
  <2>3. QED
    BY <2>1, <2>2
<1>5. uncommitted' \subseteq [db : DbType, key : Keys, made : BOOLEAN]
  BY <1>4 DEF RequestInvite
<1>6. sent' \subseteq Invite
  BY <1>1 DEF RequestInvite, Invite, TypeOK
<1>7. Move(s, "commits") /\ sessions[s].at # "none" /\ "commits" \in Steps
  BY DEF RequestInvite, SessionAt, Steps
<1>8. QED
  BY <1>5, <1>6, <1>7, MoveType DEF RequestInvite, TypeOK

\* InviteNextAuth keeps the types.
LEMMA InviteNextAuthType ==
  ASSUME TypeOK, NEW s \in SessionIds, InviteNextAuth(s)
  PROVE  TypeOK'
<1> DEFINE a == sessions[s].account
<1>1. CASE UNCHANGED db /\ globals' = NoFlags /\ sessions' = [t \in SessionIds |-> NoSession]
           /\ Goto("down")
  <2>1. NoFlags \in FlagsType /\ NoSession.at = "none"
        /\ NoSession \in [at : Steps, account : Accounts \cup {Node}]
    BY DEF NoFlags, Flags, FlagsType, NoSession, Steps
  <2>2. QED
    BY <1>1, <2>1 DEF InviteNextAuth, Phases, TypeOK, Goto
<1>2. CASE /\ \E saved \in (IF CanCreate(db, a) THEN Created(db, a, 0) ELSE {db}) :
                db' = [saved EXCEPT !.flags.nextAuthGetsInvite = FALSE]
           /\ globals' = [globals EXCEPT !.nextAuthGetsInvite = FALSE]
           /\ Move(s, "authed")
           /\ UNCHANGED process
  <2>1. PICK saved \in (IF CanCreate(db, a) THEN Created(db, a, 0) ELSE {db}) :
          db' = [saved EXCEPT !.flags.nextAuthGetsInvite = FALSE]
    BY <1>2
  <2>2. db \in DbType /\ now \in 1..MaxTime /\ a \in Accounts /\ globals \in FlagsType
    BY DEF TypeOK, InviteNextAuth, SessionAt
  <2>3. saved \in DbType
    <3>1. 0 \in {0, Life}
      OBVIOUS
    <3>2. QED
      BY <2>1, <2>2, <3>1, CreatedType
  <2>4. db' \in DbType
    BY <2>1, <2>3, DbFlagsSet
  <2>5. globals' \in FlagsType
    BY <1>2, <2>2, FlagsSet DEF FlagsType
  <2>6. sessions[s].at # "none" /\ "authed" \in Steps
    BY DEF InviteNextAuth, SessionAt, Steps
  <2>7. QED
    BY <1>2, <2>4, <2>5, <2>6, MoveType DEF InviteNextAuth, TypeOK
<1>3. QED
  BY <1>1, <1>2 DEF InviteNextAuth

\* Every step keeps the types.
LEMMA NextType == TypeOK /\ GlobalIsSet /\ [Next]_vars => TypeOK'
<1> SUFFICES ASSUME TypeOK, GlobalIsSet, [Next]_vars PROVE TypeOK'
  OBVIOUS
<1> USE ConstantsAssumption
<1> USE DEF TypeOK, Goto, Move
<1>n. NoFlags \in FlagsType
  BY DEF NoFlags, Flags, FlagsType
<1>m. NoSession \in [at : Steps, account : Accounts \cup {Node}] /\ NoSession.at = "none"
  BY DEF NoSession, Steps
<1>d. /\ db.flags \in FlagsType /\ db.flags.root \in Roots \cup {NoRoot}
      /\ db.flags.nextAuthIsRoot \in BOOLEAN /\ db.flags.nextAuthGetsInvite \in BOOLEAN
      /\ db.flags.getRootFromNextPeer \in BOOLEAN
  BY DEF DbType, FlagsType
<1>a. Accounts \subseteq Roots /\ \A a \in Accounts : RootOf[a] \in Roots
  BY DEF Roots
<1>1. ASSUME NEW mode \in Modes, Start(mode) PROVE TypeOK'
  BY <1>1 DEF Start, DbType, FlagsType, Phases, Modes
<1>2. CASE ProcessArgs
  <2>1. db' \in DbType
    BY <1>2, ClearedType, DbFlagsSet DEF ProcessArgs
  <2>2. globals' \in FlagsType
    <3>1. [globals EXCEPT !.getRootFromNextPeer = db.flags.getRootFromNextPeer] \in FlagsType
      BY <1>d, FlagsSet DEF FlagsType
    <3>2. QED
      BY <1>2, <3>1 DEF ProcessArgs
  <2>3. process' \in [phase : Phases, mode : Modes, firstRun : BOOLEAN]
    BY <1>2 DEF ProcessArgs, Phases
  <2>4. QED
    BY <1>2, <2>1, <2>2, <2>3 DEF ProcessArgs
<1>3. CASE RestoreRootAccount
  <2>1. db' \in DbType
    BY <1>3, SaveRootAccountType DEF RestoreRootAccount, DbType, FlagsType
  <2>2. QED
    BY <1>3, <2>1, <1>n DEF RestoreRootAccount, Phases
<1>4. CASE ImportNextAuths
  BY <1>4 DEF ImportNextAuths, DbType, FlagsType, Phases
<1>5. CASE InitRootAccount
  BY <1>5, InitRootAccountType
<1>6. CASE WriteNextAuthGetsInvite
  BY <1>6 DEF WriteNextAuthGetsInvite, DbType, FlagsType, Phases, Roots
<1>7. CASE Serve
  BY <1>7 DEF Serve, Phases
<1>8. ASSUME NEW key \in Keys, NEW num \in 0..MaxNum, Grant(key, num) PROVE TypeOK'
  <2>1. db' \in DbType /\ ledger' \in [Keys -> [granted : 0..MaxNum, made : Nat]]
    BY <1>8 DEF Grant, AutoInvite, DbType
  <2>2. QED
    BY <1>8, <1>n, <2>1 DEF Grant, AutoInvite, Phases
<1>9. CASE ClearInvites
  <2>1. db' \in DbType /\ ledger' \in [Keys -> [granted : 0..MaxNum, made : Nat]]
    <3>1. NoEntry \in {NoEntry} \cup 0..MaxNum /\ 0 \in 0..MaxNum /\ 0 \in Nat
      OBVIOUS
    <3>2. [k \in Keys |-> NoEntry] \in [Keys -> {NoEntry} \cup 0..MaxNum]
      OBVIOUS
    <3>3. db' = [db EXCEPT !.invites = [k \in Keys |-> NoEntry]]
      BY <1>9 DEF ClearInvites, AutoInvite
    <3>4. db' \in DbType
      BY <3>2, <3>3 DEF DbType
    <3>5. QED
      BY <1>9, <3>1, <3>4 DEF ClearInvites, AutoInvite
  <2>2. QED
    BY <1>9, <1>n, <2>1 DEF ClearInvites, AutoInvite, Phases
<1>10. CASE Stop
  <2>1. stops' \in 0..MaxStops /\ uncommitted' = {} /\ globals' \in FlagsType
    BY <1>10, <1>n DEF Stop
  <2>2. /\ sessions' \in [SessionIds -> [at : Steps, account : Accounts \cup {Node}]]
        /\ \A s \in SessionIds : sessions'[s].at = "none"
    BY <1>10, <1>m DEF Stop
  <2>3. process' \in [phase : Phases, mode : Modes, firstRun : BOOLEAN]
    BY <1>10 DEF Stop, Phases
  <2>4. QED
    BY <1>10, <2>1, <2>2, <2>3 DEF Stop
<1>11. CASE NodeIsInvited
  <2>1. db' = [db EXCEPT !.member = TRUE,
                         !.newerThan = IF db.newerThan > now THEN db.newerThan ELSE now]
    BY <1>11 DEF NodeIsInvited
  <2>2. [db EXCEPT !.member = TRUE] \in DbType
    BY DEF DbType
  <2>3. (IF db.newerThan > now THEN db.newerThan ELSE now) \in 0..MaxTime
    BY DEF DbType
  <2>4. db' \in DbType
    BY <2>1, <2>2, <2>3 DEF DbType
  <2>5. QED
    BY <1>11, <2>4 DEF NodeIsInvited
<1>12. CASE Tick
  <2>1. now' \in 1..MaxTime
    BY <1>12 DEF Tick
  <2>2. QED
    BY <1>12, <2>1 DEF Tick
<1>13. ASSUME NEW s \in SessionIds, NEW a \in Accounts, Connect(s, a) PROVE TypeOK'
  BY <1>13 DEF Connect, Steps
<1>14. ASSUME NEW s \in SessionIds, Close(s) PROVE TypeOK'
  BY <1>14, <1>m DEF Close
<1>15. ASSUME NEW s \in SessionIds, PeerAuth(s) PROVE TypeOK'
  <2>1. PICK step \in {"isRoot", "getsInvite", "authed"} : Move(s, step)
    BY <1>15 DEF PeerAuth
  <2>2. step \in Steps /\ sessions[s].at # "none"
    BY <1>15 DEF PeerAuth, SessionAt, Steps
  <2>3. QED
    BY <1>15, <2>1, <2>2, MoveType DEF PeerAuth
<1>16. ASSUME NEW s \in SessionIds, BecomeRoot(s) PROVE TypeOK'
  <2>1. "saveRoot" \in Steps /\ sessions[s].at # "none"
    BY <1>16 DEF BecomeRoot, SessionAt, Steps
  <2>2. globals' \in FlagsType
    BY <1>16, <1>a, <2>1, FlagsSet DEF BecomeRoot
  <2>3. QED
    BY <1>16, <2>1, <2>2, MoveType DEF BecomeRoot
<1>17. ASSUME NEW s \in SessionIds, SaveRoot(s) PROVE TypeOK'
  <2>1. "authed" \in Steps /\ sessions[s].at # "none"
    BY <1>17 DEF SaveRoot, SessionAt, Steps
  <2>2. globals' \in FlagsType
    BY <1>17, FlagsSet DEF SaveRoot, FlagsType
  <2>3. db' \in DbType
    BY <1>17, <1>a, <2>1 DEF SaveRoot, FlagsType, DbType
  <2>4. QED
    BY <1>17, <2>1, <2>2, <2>3, MoveType DEF SaveRoot
<1>18. ASSUME NEW s \in SessionIds, InviteNextAuth(s) PROVE TypeOK'
  BY <1>18, InviteNextAuthType
<1>19. ASSUME NEW s \in SessionIds, PeerInfo(s) PROVE TypeOK'
  <2>1. "adopts" \in Steps /\ sessions[s].at # "none"
    BY <1>19 DEF PeerInfo, SessionAt, Steps
  <2>2. QED
    BY <1>19, <2>1, MoveType DEF PeerInfo
<1>20. ASSUME NEW s \in SessionIds, AdoptRoot(s) PROVE TypeOK'
  <2>1. "saveAdopted" \in Steps /\ sessions[s].at # "none"
    BY <1>20 DEF AdoptRoot, SessionAt, Steps
  <2>2. globals' \in FlagsType
    BY <1>20, <1>a, <2>1, FlagsSet DEF AdoptRoot
  <2>3. QED
    BY <1>20, <2>1, <2>2, MoveType DEF AdoptRoot
<1>21. ASSUME NEW s \in SessionIds, SaveAdopted(s) PROVE TypeOK'
  <2>1. "authed" \in Steps /\ sessions[s].at # "none"
    BY <1>21 DEF SaveAdopted, SessionAt, Steps
  <2>2. globals' \in FlagsType
    BY <1>21, FlagsSet DEF SaveAdopted, FlagsType
  <2>3. db' \in DbType
    <3>1. globals.root # NoRoot
      BY <1>21 DEF SaveAdopted, SessionAt, GlobalIsSet, SomeAt
    <3>2. QED
      BY <1>21, <3>1, SaveAdoptedType
  <2>4. QED
    BY <1>21, <2>1, <2>2, <2>3, MoveType DEF SaveAdopted
<1>22. ASSUME NEW s \in SessionIds, NEW key \in Keys, RequestInvite(s, key) PROVE TypeOK'
  BY <1>22, RequestInviteType
<1>23. ASSUME NEW s \in SessionIds, CommitInvite(s) PROVE TypeOK'
  <2>1. PICK result \in uncommitted :
          /\ db' = result.db
          /\ ledger' = [ledger EXCEPT ![result.key].made =
                       IF ledger[result.key].granted > 0 /\ result.made THEN @ + 1 ELSE @]
    BY <1>23 DEF CommitInvite
  <2>2. ledger' \in [Keys -> [granted : 0..MaxNum, made : Nat]]
    BY <2>1
  <2>3. "authed" \in Steps /\ sessions[s].at # "none"
    BY <1>23 DEF CommitInvite, SessionAt, Steps
  <2>4. QED
    BY <1>23, <2>1, <2>2, <2>3, MoveType DEF CommitInvite
<1>24. CASE UNCHANGED vars
  BY <1>24 DEF vars
<1>25. QED
  BY <1>1, <1>2, <1>3, <1>4, <1>5, <1>6, <1>7, <1>8, <1>9, <1>10, <1>11, <1>12, <1>13, <1>14,
     <1>15, <1>16, <1>17, <1>18, <1>19, <1>20, <1>21, <1>22, <1>23, <1>24 DEF Next

-----------------------------------------------------------------------------
(***************************************************************************)
(* The rest of the inductive invariant.                                    *)
(***************************************************************************)
LEMMA InitInv == Init => IInv
<1> SUFFICES ASSUME Init PROVE IInv
  OBVIOUS
<1>1. TypeOK
  BY InitType
<1>2. GlobalIsSet /\ QuietUntilServing /\ GlobalsFollow /\ OpenTransaction
  BY DEF Init, GlobalIsSet, QuietUntilServing, GlobalsFollow, OpenTransaction, At, NoFlags, Flags
<1>3. LimitedStayLimited /\ RedeemedWereInvited
  BY DEF Init, LimitedStayLimited, RedeemedWereInvited, EmptyDb, NoEntry
<1>4. QED
  BY <1>1, <1>2, <1>3 DEF IInv

\* Before the node serves, no session is about to save a root account.
LEMMA QuietMeansNone ==
  ASSUME QuietUntilServing, ~At("serving")
  PROVE  uncommitted = {} /\ \A s \in SessionIds : sessions[s].at = "none"
  BY DEF QuietUntilServing, NoSession

\* Every step keeps QuietUntilServing.
LEMMA NextQuiet == TypeOK /\ QuietUntilServing /\ [Next]_vars => QuietUntilServing'
<1> SUFFICES ASSUME TypeOK, QuietUntilServing, [Next]_vars PROVE QuietUntilServing'
  OBVIOUS
<1> USE DEF QuietUntilServing, At, Goto, SessionAt, Move
<1>p. process \in [phase : Phases, mode : Modes, firstRun : BOOLEAN]
  BY DEF TypeOK
<1>1. ASSUME NEW mode \in Modes, Start(mode) PROVE QuietUntilServing'
  BY <1>p, <1>1 DEF Start
<1>2. CASE ProcessArgs \/ RestoreRootAccount \/ ImportNextAuths \/ WriteNextAuthGetsInvite
  BY <1>p, <1>2 DEF ProcessArgs, RestoreRootAccount, ImportNextAuths, WriteNextAuthGetsInvite
<1>3. CASE InitRootAccount
  BY <1>p, <1>3 DEF InitRootAccount
<1>4. CASE Serve
  BY <1>p, <1>4 DEF Serve
<1>5. ASSUME NEW invites, NEW counts, AutoInvite(invites, counts) PROVE QuietUntilServing'
  BY <1>p, <1>5 DEF AutoInvite
<1>6. CASE Stop
  BY <1>6 DEF Stop
<1>7. CASE NodeIsInvited \/ Tick
  BY <1>7 DEF NodeIsInvited, Tick
<1>8. ASSUME NEW s \in SessionIds, NEW a \in Accounts, Connect(s, a) PROVE QuietUntilServing'
  BY <1>8 DEF Connect
<1>9. ASSUME NEW s \in SessionIds,
             Close(s) \/ PeerAuth(s) \/ BecomeRoot(s) \/ SaveRoot(s) \/ PeerInfo(s)
               \/ AdoptRoot(s) \/ SaveAdopted(s) \/ CommitInvite(s)
      PROVE  QuietUntilServing'
  BY <1>9 DEF Close, PeerAuth, BecomeRoot, SaveRoot, PeerInfo, AdoptRoot, SaveAdopted, CommitInvite
<1>10. ASSUME NEW s \in SessionIds, InviteNextAuth(s) PROVE QuietUntilServing'
  BY <1>10 DEF InviteNextAuth
<1>11. ASSUME NEW s \in SessionIds, NEW key \in Keys, RequestInvite(s, key)
       PROVE  QuietUntilServing'
  BY <1>11 DEF RequestInvite
<1>12. CASE UNCHANGED vars
  BY <1>12 DEF vars
<1>13. QED
  BY <1>1, <1>2, <1>3, <1>4, <1>5, <1>6, <1>7, <1>8, <1>9, <1>10, <1>11, <1>12
  DEF Next, Grant, ClearInvites

\* Every step keeps GlobalIsSet.
LEMMA NextGlobal == TypeOK /\ QuietUntilServing /\ GlobalIsSet /\ [Next]_vars => GlobalIsSet'
<1> SUFFICES ASSUME TypeOK, QuietUntilServing, GlobalIsSet, [Next]_vars PROVE GlobalIsSet'
  OBVIOUS
<1> USE DEF GlobalIsSet, SomeAt, At, Goto, SessionAt, Move
<1>p. /\ process \in [phase : Phases, mode : Modes, firstRun : BOOLEAN]
      /\ globals \in FlagsType
      /\ sessions \in [SessionIds -> [at : Steps, account : Accounts \cup {Node}]]
      /\ \A s \in SessionIds : sessions[s].at # "none" => sessions[s].account \in Accounts
      /\ NoSession.at = "none"
  BY DEF TypeOK, NoSession
<1>a. \A a \in Accounts : a # NoRoot /\ RootOf[a] # NoRoot
  BY ConstantsAssumption DEF Roots
<1>1. CASE ~At("serving")
  <2>1. \A s \in SessionIds : sessions[s].at = "none"
    BY <1>1, QuietMeansNone
  <2>2. CASE sessions' = sessions
    BY <2>1, <2>2
  <2>3. CASE sessions' # sessions
    BY <1>p, <1>1, <2>3 DEF Next, vars, Start, ProcessArgs, RestoreRootAccount, ImportNextAuths,
       InitRootAccount, WriteNextAuthGetsInvite, Serve, Grant, ClearInvites, AutoInvite, Stop,
       NodeIsInvited, Tick, Connect, Close, PeerAuth, BecomeRoot, SaveRoot, InviteNextAuth,
       PeerInfo, AdoptRoot, SaveAdopted, RequestInvite, CommitInvite
  <2>4. QED
    BY <2>2, <2>3
<1>2. CASE At("serving")
  <2>1. CASE Stop
    BY <2>1 DEF Stop
  <2>2. CASE NodeIsInvited \/ Tick
    BY <2>2 DEF NodeIsInvited, Tick
  <2>3. ASSUME NEW s \in SessionIds, NEW a \in Accounts, Connect(s, a) PROVE GlobalIsSet'
    BY <1>p, <1>2, <2>3 DEF Connect
  <2>4. ASSUME NEW s \in SessionIds, Close(s) PROVE GlobalIsSet'
    BY <1>p, <1>2, <2>4 DEF Close
  <2>5. ASSUME NEW s \in SessionIds, BecomeRoot(s) PROVE GlobalIsSet'
    BY <1>p, <1>2, <1>a, <2>5 DEF BecomeRoot, FlagsType
  <2>6. ASSUME NEW s \in SessionIds, AdoptRoot(s) PROVE GlobalIsSet'
    BY <1>p, <1>2, <1>a, <2>6 DEF AdoptRoot, FlagsType
  <2>7. ASSUME NEW s \in SessionIds, SaveRoot(s) \/ SaveAdopted(s) PROVE GlobalIsSet'
    BY <1>p, <1>2, <2>7 DEF SaveRoot, SaveAdopted, FlagsType
  <2>8. ASSUME NEW s \in SessionIds, InviteNextAuth(s) PROVE GlobalIsSet'
    BY <1>p, <1>2, <2>8 DEF InviteNextAuth, FlagsType
  <2>9. ASSUME NEW s \in SessionIds, PeerAuth(s) \/ CommitInvite(s) PROVE GlobalIsSet'
    <3>1. PICK step \in {"isRoot", "getsInvite", "authed"} : Move(s, step)
      BY <2>9 DEF PeerAuth, CommitInvite
    <3>2. UNCHANGED <<globals, process>>
      BY <2>9 DEF PeerAuth, CommitInvite
    <3>3. QED
      BY <1>p, <1>2, <3>1, <3>2
  <2>10. ASSUME NEW s \in SessionIds, PeerInfo(s) PROVE GlobalIsSet'
    BY <1>p, <1>2, <2>10 DEF PeerInfo
  <2>11. ASSUME NEW s \in SessionIds, NEW key \in Keys, RequestInvite(s, key) PROVE GlobalIsSet'
    BY <1>p, <1>2, <2>11 DEF RequestInvite
  <2>12. CASE UNCHANGED vars
    BY <2>12 DEF vars
  <2>13. QED
    BY <1>2, <2>1, <2>2, <2>3, <2>4, <2>5, <2>6, <2>7, <2>8, <2>9, <2>10, <2>11, <2>12
    DEF Next, Start, ProcessArgs, RestoreRootAccount, ImportNextAuths, InitRootAccount,
        WriteNextAuthGetsInvite, Serve, Grant, ClearInvites, AutoInvite
<1>3. QED
  BY <1>1, <1>2

\* Every step keeps GlobalsFollow.
LEMMA NextFollow ==
  TypeOK /\ QuietUntilServing /\ GlobalsFollow /\ OpenTransaction /\ [Next]_vars => GlobalsFollow'
<1> SUFFICES ASSUME TypeOK, QuietUntilServing, GlobalsFollow, OpenTransaction, [Next]_vars
             PROVE  GlobalsFollow'
  OBVIOUS
<1> USE DEF GlobalsFollow, SameFlags, SomeAt, At, Goto, SessionAt, Move
<1>p. /\ process \in [phase : Phases, mode : Modes, firstRun : BOOLEAN]
      /\ globals \in FlagsType
      /\ db.flags \in FlagsType
      /\ db \in DbType
      /\ sessions \in [SessionIds -> [at : Steps, account : Accounts \cup {Node}]]
  BY DEF TypeOK, DbType
<1>n. NoFlags.root = NoRoot
  BY DEF NoFlags, Flags
<1>1. ASSUME NEW mode \in Modes, Start(mode) PROVE GlobalsFollow'
  BY <1>p, <1>1 DEF Start, FlagsType, DbType
<1>2. CASE ProcessArgs
  <2>1. CASE process.mode = "clearcontent"
    BY <1>p, <1>2, <2>1 DEF ProcessArgs
  <2>2. CASE process.mode = "peerboot"
    <3>1. globals.getRootFromNextPeer = TRUE /\ globals.root = NoRoot
      BY <1>p, <1>2, <2>2 DEF ProcessArgs, FlagsType
    <3>2. db'.flags.getRootFromNextPeer = TRUE
      BY <1>p, <1>2, <2>2 DEF ProcessArgs, FlagsType, DbType
    <3>3. QED
      BY <1>p, <1>2, <2>2, <3>1, <3>2 DEF ProcessArgs
  <2>3. CASE process.mode \notin {"clearcontent", "peerboot"}
    BY <1>p, <1>2, <2>3 DEF ProcessArgs, FlagsType
  <2>4. QED
    BY <2>1, <2>2, <2>3
<1>3. CASE RestoreRootAccount
  BY <1>p, <1>n, <1>3 DEF RestoreRootAccount
<1>4. CASE ImportNextAuths
  BY <1>p, <1>4 DEF ImportNextAuths, FlagsType
<1>5. CASE InitRootAccount
  <2>1. CASE Goto("down") /\ globals' = NoFlags
    BY <1>p, <1>n, <2>1
  <2>2. CASE Goto("ready") /\ UNCHANGED db /\ globals' = [globals EXCEPT !.root = db.flags.root]
    BY <1>p, <1>5, <2>2 DEF InitRootAccount, FlagsType
  <2>3. CASE Goto("ready") /\ UNCHANGED <<db, globals>> /\ db.flags.root = NoRoot
    BY <1>p, <1>5, <2>3 DEF InitRootAccount
  <2>4. CASE /\ Goto("ready") /\ db.flags.root = NoRoot
             /\ globals' = [globals EXCEPT !.getRootFromNextPeer = TRUE]
             /\ db' = [db EXCEPT !.flags.getRootFromNextPeer = TRUE]
    BY <1>p, <1>5, <2>4 DEF InitRootAccount, FlagsType, DbType
  <2>5. CASE /\ Goto("ready") /\ db.flags.root = NoRoot
             /\ globals' = [globals EXCEPT !.nextAuthIsRoot = TRUE]
             /\ db' = [db EXCEPT !.flags.nextAuthIsRoot = TRUE]
    BY <1>p, <1>5, <2>5 DEF InitRootAccount, FlagsType, DbType
  <2>6. CASE Goto("saved") /\ UNCHANGED globals /\ db' = SaveRootAccount(db, Node)
    BY <1>p, <1>5, <2>6 DEF InitRootAccount, SaveRootAccount, FlagsType, DbType
  <2>7. CASE /\ Goto("ready") /\ db' = SaveRootAccount(db, DefaultRoot)
             /\ globals' = [globals EXCEPT !.root = DefaultRoot]
    BY <1>p, <1>5, <2>7 DEF InitRootAccount, SaveRootAccount, FlagsType, DbType
  <2>8. QED
    BY <1>5, <2>1, <2>2, <2>3, <2>4, <2>5, <2>6, <2>7 DEF InitRootAccount
<1>6. CASE WriteNextAuthGetsInvite
  BY <1>p, <1>6 DEF WriteNextAuthGetsInvite, FlagsType, DbType
<1>7. CASE Serve
  BY <1>p, <1>7 DEF Serve
<1>8. ASSUME NEW invites, NEW counts, AutoInvite(invites, counts) PROVE GlobalsFollow'
  BY <1>p, <1>n, <1>8 DEF AutoInvite
<1>9. CASE Stop
  BY <1>p, <1>n, <1>9 DEF Stop
<1>10. CASE NodeIsInvited
  BY <1>p, <1>10 DEF NodeIsInvited, DbType
<1>11. CASE Tick
  BY <1>11 DEF Tick
<1>12. ASSUME NEW s \in SessionIds, NEW a \in Accounts, Connect(s, a) PROVE GlobalsFollow'
  BY <1>p, <1>12 DEF Connect
<1>13. ASSUME NEW s \in SessionIds, Close(s) PROVE GlobalsFollow'
  BY <1>p, <1>13 DEF Close
<1>14. ASSUME NEW s \in SessionIds, PeerAuth(s) PROVE GlobalsFollow'
  <2>1. PICK step \in {"isRoot", "getsInvite", "authed"} : Move(s, step)
    BY <1>14 DEF PeerAuth
  <2>2. QED
    BY <1>p, <1>14, <2>1 DEF PeerAuth
<1>15. ASSUME NEW s \in SessionIds, BecomeRoot(s) \/ AdoptRoot(s) PROVE GlobalsFollow'
  <2>1. PICK root : globals' = [globals EXCEPT !.root = root]
    BY <1>15 DEF BecomeRoot, AdoptRoot
  <2>2. PICK step \in {"saveRoot", "saveAdopted"} : Move(s, step)
    BY <1>15 DEF BecomeRoot, AdoptRoot
  <2>3. UNCHANGED <<db, process>> /\ At("serving")
    BY <1>15 DEF BecomeRoot, AdoptRoot
  <2>4. QED
    BY <1>p, <2>1, <2>2, <2>3 DEF FlagsType
<1>16. ASSUME NEW s \in SessionIds, SaveRoot(s) PROVE GlobalsFollow'
  BY <1>p, <1>16 DEF SaveRoot, FlagsType, DbType
<1>17. ASSUME NEW s \in SessionIds, SaveAdopted(s) PROVE GlobalsFollow'
  BY <1>p, <1>17 DEF SaveAdopted, SaveRootAccount, FlagsType, DbType
<1>18. ASSUME NEW s \in SessionIds, InviteNextAuth(s) PROVE GlobalsFollow'
  <2>1. CASE Goto("down") /\ globals' = NoFlags
    BY <1>p, <1>n, <2>1
  <2>2. CASE ~(Goto("down") /\ globals' = NoFlags)
    <3>1. PICK saved \in {db} \cup Created(db, sessions[s].account, 0) :
            db' = [saved EXCEPT !.flags.nextAuthGetsInvite = FALSE]
      BY <1>18, <2>2 DEF InviteNextAuth
    <3>2. /\ globals' = [globals EXCEPT !.nextAuthGetsInvite = FALSE]
          /\ Move(s, "authed") /\ UNCHANGED process /\ At("serving")
          /\ sessions[s].at = "getsInvite"
      BY <1>18, <2>2 DEF InviteNextAuth
    <3>3. saved.flags = db.flags
      BY <3>1, <1>p, CreatedKeeps
    <3>4. saved \in [exists : BOOLEAN, flags : FlagsType, rooted : SUBSET Roots, member : BOOLEAN,
                     invites : [Keys -> {NoEntry} \cup 0..MaxNum], doc : SUBSET Invite,
                     newerThan : 0..MaxTime]
      <4>1. now \in 1..MaxTime /\ sessions[s].account \in Accounts /\ 0 \in {0, Life}
        BY <1>18 DEF TypeOK, InviteNextAuth
      <4>2. QED
        BY <3>1, <1>p, <4>1, CreatedType DEF DbType
    <3>5. db'.flags = [db.flags EXCEPT !.nextAuthGetsInvite = FALSE]
      BY <3>1, <3>3, <3>4
    <3>6. QED
      BY <1>p, <3>2, <3>5 DEF FlagsType
  <2>3. QED
    BY <2>1, <2>2
<1>19. ASSUME NEW s \in SessionIds, PeerInfo(s) PROVE GlobalsFollow'
  BY <1>p, <1>19 DEF PeerInfo
<1>20. ASSUME NEW s \in SessionIds, NEW key \in Keys, RequestInvite(s, key)
       PROVE  GlobalsFollow'
  BY <1>p, <1>20 DEF RequestInvite
<1>21. ASSUME NEW s \in SessionIds, CommitInvite(s) PROVE GlobalsFollow'
  <2>1. db'.flags = db.flags
    BY <1>21 DEF CommitInvite, OpenTransaction
  <2>2. QED
    BY <1>p, <1>21, <2>1 DEF CommitInvite
<1>22. CASE UNCHANGED vars
  BY <1>22 DEF vars
<1>23. QED
  BY <1>1, <1>2, <1>3, <1>4, <1>5, <1>6, <1>7, <1>8, <1>9, <1>10, <1>11, <1>12, <1>13, <1>14,
     <1>15, <1>16, <1>17, <1>18, <1>19, <1>20, <1>21, <1>22 DEF Next, Grant, ClearInvites

\* What the open transaction of RequestInvite holds.
LEMMA RequestInviteHolds ==
  ASSUME TypeOK, NEW s \in SessionIds, NEW key \in Keys, RequestInvite(s, key),
         NEW u \in uncommitted'
  PROVE  /\ u.key = key /\ u.made
         /\ u.db.flags = db.flags
         /\ u.db.invites = Redeemed(db, key).invites
         /\ \A i \in db.doc : i \in u.db.doc \/ Expired(i)
<1> DEFINE a == sessions[s].account
<1>1. db \in DbType /\ db.invites[key] # NoEntry
  BY DEF TypeOK, RequestInvite
<1>2. Redeemed(db, key) \in DbType
  BY <1>1, RedeemedType
<1>3. PICK created \in Created(Redeemed(db, key), a, Life) :
        u = [db |-> created, key |-> key, made |-> TRUE]
  BY DEF RequestInvite, Redemptions
<1>4. Redeemed(db, key).flags = db.flags /\ Redeemed(db, key).doc = db.doc
  BY <1>1 DEF Redeemed, DbType
<1>5. QED
  BY <1>2, <1>3, <1>4, CreatedKeeps

\* As long as a transaction is open no other writes the database, so what it
\* will commit stays what RequestInvite made of the database.
LEMMA NextOpen ==
  TypeOK /\ QuietUntilServing /\ OpenTransaction /\ [Next]_vars => OpenTransaction'
<1> SUFFICES ASSUME TypeOK, QuietUntilServing, OpenTransaction, [Next]_vars
             PROVE  OpenTransaction'
  OBVIOUS
<1> USE DEF OpenTransaction
<1>1. CASE uncommitted' = {}
  BY <1>1
<1>2. CASE UNCHANGED <<uncommitted, db>> /\ now' \in {now, now + 1}
  <2>1. \A i \in Invite : Expired(i) => Expired(i)'
    BY <1>2, ConstantsAssumption DEF Expired, Invite, TypeOK
  <2>2. db.doc \subseteq Invite
    BY DEF TypeOK, DbType
  <2>3. \A u \in uncommitted : Redeemed(db', u.key) = Redeemed(db, u.key)
    BY <1>2
  <2>4. QED
    BY <1>2, <2>1, <2>2, <2>3
<1>3. ASSUME NEW s \in SessionIds, NEW key \in Keys, RequestInvite(s, key)
      PROVE  OpenTransaction'
  <2>1. \A i : Expired(i)' <=> Expired(i)
    BY <1>3 DEF RequestInvite, Expired
  <2>2. db.invites[key] # NoEntry /\ UNCHANGED db
    BY <1>3 DEF RequestInvite
  <2>3. \A u \in uncommitted' :
          /\ u.key = key /\ u.made /\ u.db.flags = db.flags
          /\ u.db.invites = Redeemed(db, key).invites
          /\ \A i \in db.doc : i \in u.db.doc \/ Expired(i)
    BY <1>3, RequestInviteHolds
  <2>4. Redeemed(db', key) = Redeemed(db, key)
    BY <2>2
  <2>5. QED
    BY <2>1, <2>2, <2>3, <2>4
<1>4. CASE ~At("serving")
  <2>1. uncommitted = {}
    BY <1>4, QuietMeansNone
  <2>2. UNCHANGED uncommitted \/ uncommitted' = {}
    BY <1>4 DEF Next, vars, Start, ProcessArgs, RestoreRootAccount, ImportNextAuths,
       InitRootAccount, WriteNextAuthGetsInvite, Serve, Grant, ClearInvites, AutoInvite, Stop,
       NodeIsInvited, Tick, Connect, Close, PeerAuth, BecomeRoot, SaveRoot, InviteNextAuth,
       PeerInfo, AdoptRoot, SaveAdopted, RequestInvite, CommitInvite, SessionAt, At
  <2>3. QED
    BY <1>1, <2>1, <2>2
<1>5. CASE UNCHANGED vars
  BY <1>2, <1>5 DEF vars
<1>6. CASE Tick \/ Stop \/ NodeIsInvited
  BY <1>1, <1>2, <1>6 DEF Tick, Stop, NodeIsInvited
<1>7. ASSUME NEW s \in SessionIds, NEW a \in Accounts, Connect(s, a) PROVE OpenTransaction'
  BY <1>2, <1>7 DEF Connect
<1>8. ASSUME NEW s \in SessionIds,
             Close(s) \/ PeerAuth(s) \/ BecomeRoot(s) \/ PeerInfo(s) \/ AdoptRoot(s)
      PROVE  OpenTransaction'
  BY <1>2, <1>8 DEF Close, PeerAuth, BecomeRoot, PeerInfo, AdoptRoot
<1>9. ASSUME NEW s \in SessionIds,
             SaveRoot(s) \/ InviteNextAuth(s) \/ SaveAdopted(s) \/ CommitInvite(s)
      PROVE  OpenTransaction'
  BY <1>1, <1>9 DEF SaveRoot, InviteNextAuth, SaveAdopted, CommitInvite
<1>10. QED
  BY <1>3, <1>4, <1>5, <1>6, <1>7, <1>8, <1>9
  DEF Next, Start, ProcessArgs, RestoreRootAccount, ImportNextAuths, InitRootAccount,
      WriteNextAuthGetsInvite, Serve, Grant, ClearInvites, AutoInvite, At

\* The entry of the redeemed key goes down by one, and no other entry changes.
LEMMA RedeemedCounts ==
  ASSUME NEW base \in DbType, NEW key \in Keys, base.invites[key] # NoEntry
  PROVE  /\ \A k \in Keys : k # key => Redeemed(base, key).invites[k] = base.invites[k]
         /\ base.invites[key] = 0 => Redeemed(base, key).invites[key] = 0
         /\ base.invites[key] = 1 => Redeemed(base, key).invites[key] = NoEntry
         /\ base.invites[key] > 1 => Redeemed(base, key).invites[key] = base.invites[key] - 1
<1> DEFINE left == CASE base.invites[key] = 0 -> 0
                     [] base.invites[key] = 1 -> NoEntry
                     [] OTHER -> base.invites[key] - 1
<1>1. /\ base.invites[key] = 0 => left = 0
      /\ base.invites[key] = 1 => left = NoEntry
      /\ base.invites[key] > 1 => left = base.invites[key] - 1
  BY DEF DbType
<1>2. Redeemed(base, key) = [base EXCEPT !.invites[key] = left]
  BY DEF Redeemed
<1> HIDE DEF left
<1>3. QED
  BY <1>1, <1>2 DEF DbType

\* Every step keeps the books of the invites.
LEMMA NextLedger ==
  ASSUME TypeOK, QuietUntilServing, OpenTransaction, LimitedStayLimited, RedeemedWereInvited,
         [Next]_vars
  PROVE  LimitedStayLimited' /\ RedeemedWereInvited'
<1> USE DEF LimitedStayLimited, RedeemedWereInvited
<1>p. /\ db \in DbType
      /\ db.invites \in [Keys -> {NoEntry} \cup 0..MaxNum]
      /\ ledger \in [Keys -> [granted : 0..MaxNum, made : Nat]]
  BY DEF TypeOK, DbType
<1>1. CASE UNCHANGED <<ledger, db.invites>>
  BY <1>1
<1>2. ASSUME NEW key \in Keys, NEW num \in 0..MaxNum, Grant(key, num)
      PROVE  LimitedStayLimited' /\ RedeemedWereInvited'
  <2>1. db'.invites = [db.invites EXCEPT ![key] = num]
    BY <1>p, <1>2 DEF Grant, AutoInvite, DbType
  <2>2. ledger' = [ledger EXCEPT ![key] = [granted |-> num, made |-> 0]]
    BY <1>2 DEF Grant, AutoInvite
  <2>3. num \in Nat /\ num # NoEntry /\ 0 + num = num
    BY DEF NoEntry
  <2>4. ASSUME NEW k \in Keys, k # key
        PROVE  ledger'[k] = ledger[k] /\ db'.invites[k] = db.invites[k]
    BY <1>p, <2>1, <2>2, <2>4
  <2>5. ledger'[key].granted = num /\ ledger'[key].made = 0 /\ db'.invites[key] = num
    BY <1>p, <2>1, <2>2
  <2>6. QED
    BY <2>3, <2>4, <2>5
<1>3. CASE ClearInvites
  <2>1. \A k \in Keys : ledger'[k].granted = 0
    BY <1>3 DEF ClearInvites, AutoInvite
  <2>2. QED
    BY <2>1
<1>4. ASSUME NEW s \in SessionIds, CommitInvite(s)
      PROVE  LimitedStayLimited' /\ RedeemedWereInvited'
  <2>1. PICK u \in uncommitted :
          /\ db' = u.db
          /\ ledger' = [ledger EXCEPT ![u.key].made =
                          IF ledger[u.key].granted > 0 /\ u.made THEN @ + 1 ELSE @]
    BY <1>4 DEF CommitInvite
  <2>2. u.key \in Keys /\ u.made /\ db.invites[u.key] # NoEntry
        /\ db'.invites = Redeemed(db, u.key).invites
    BY <2>1 DEF OpenTransaction, TypeOK
  <2>3. ASSUME NEW k \in Keys, k # u.key
        PROVE  ledger'[k] = ledger[k] /\ db'.invites[k] = db.invites[k]
    BY <1>p, <2>1, <2>2, <2>3, RedeemedCounts
  <2>4. CASE ledger[u.key].granted = 0
    <3>1. ledger'[u.key].granted = 0
      BY <1>p, <2>1, <2>2, <2>4
    <3>2. QED
      BY <2>3, <3>1
  <2>5. CASE ledger[u.key].granted > 0
    <3>1. ledger'[u.key].granted = ledger[u.key].granted
          /\ ledger'[u.key].made = ledger[u.key].made + 1
      BY <1>p, <2>1, <2>2, <2>5
    <3>2. db.invites[u.key] \in 1..MaxNum
      BY <1>p, <2>2, <2>5, ConstantsAssumption DEF NoEntry
    <3>3. db.invites[u.key] = 1 => db'.invites[u.key] = NoEntry
      BY <1>p, <2>2, RedeemedCounts
    <3>4. db.invites[u.key] > 1 => db'.invites[u.key] = db.invites[u.key] - 1
      BY <1>p, <2>2, RedeemedCounts
    <3>5. ledger[u.key].made + db.invites[u.key] = ledger[u.key].granted
      BY <2>2, <2>5
    <3>6. /\ db'.invites[u.key] # 0
          /\ ledger'[u.key].made + (IF db'.invites[u.key] = NoEntry THEN 0 ELSE db'.invites[u.key])
               = ledger'[u.key].granted
      <4>1. ledger[u.key].made \in Nat
        BY <1>p, <2>2
      <4>2. CASE db.invites[u.key] = 1
        BY <3>1, <3>3, <3>5, <4>1, <4>2 DEF NoEntry
      <4>3. CASE db.invites[u.key] > 1
        <5>1. db'.invites[u.key] = db.invites[u.key] - 1 /\ db'.invites[u.key] \in Nat \ {0}
          BY <3>2, <3>4, <4>3, ConstantsAssumption
        <5>2. db'.invites[u.key] # NoEntry
          BY <5>1 DEF NoEntry
        <5>3. QED
          BY <3>1, <3>2, <3>5, <4>1, <5>1, <5>2, ConstantsAssumption
      <4>4. QED
        BY <3>2, <4>2, <4>3, ConstantsAssumption
    <3>7. QED
      BY <2>3, <3>6
  <2>6. QED
    BY <1>p, <2>2, <2>4, <2>5
<1>5. ASSUME NEW s \in SessionIds, InviteNextAuth(s) PROVE UNCHANGED <<ledger, db.invites>>
  <2>1. CASE UNCHANGED db
    BY <1>5, <2>1 DEF InviteNextAuth
  <2>2. CASE ~UNCHANGED db
    <3>1. PICK saved \in {db} \cup Created(db, sessions[s].account, 0) :
            db' = [saved EXCEPT !.flags.nextAuthGetsInvite = FALSE]
      BY <1>5, <2>2 DEF InviteNextAuth
    <3>2. saved.invites = db.invites
      BY <1>p, <3>1, CreatedKeeps
    <3>3. now \in 1..MaxTime /\ sessions[s].account \in Accounts /\ 0 \in {0, Life}
      BY <1>5 DEF TypeOK, InviteNextAuth, SessionAt
    <3>4. saved \in DbType
      BY <1>p, <3>1, <3>3, CreatedType
    <3>5. db'.invites = saved.invites
      BY <3>1, <3>4 DEF DbType
    <3>6. QED
      BY <1>5, <3>2, <3>5 DEF InviteNextAuth
  <2>3. QED
    BY <2>1, <2>2
<1>6. ASSUME NEW s \in SessionIds, SaveRoot(s) PROVE UNCHANGED <<ledger, db.invites>>
  BY <1>p, <1>6 DEF SaveRoot, DbType
<1>7. ASSUME NEW s \in SessionIds, SaveAdopted(s) PROVE UNCHANGED <<ledger, db.invites>>
  BY <1>p, <1>7 DEF SaveAdopted, SaveRootAccount, DbType
<1>8. CASE InitRootAccount
  BY <1>p, <1>1, <1>8 DEF InitRootAccount, SaveRootAccount, DbType
<1>9. ASSUME \/ \E mode \in Modes : Start(mode)
             \/ ProcessArgs \/ RestoreRootAccount \/ ImportNextAuths \/ WriteNextAuthGetsInvite
             \/ Serve \/ Stop \/ NodeIsInvited \/ Tick \/ UNCHANGED vars
      PROVE  UNCHANGED <<ledger, db.invites>>
  BY <1>p, <1>9 DEF Start, ProcessArgs, RestoreRootAccount, ImportNextAuths, SaveRootAccount,
     WriteNextAuthGetsInvite, Serve, Stop, NodeIsInvited, Tick, DbType, vars
<1>10. ASSUME NEW s \in SessionIds,
              \/ \E a \in Accounts : Connect(s, a)
              \/ Close(s) \/ PeerAuth(s) \/ BecomeRoot(s) \/ PeerInfo(s) \/ AdoptRoot(s)
              \/ \E key \in Keys : RequestInvite(s, key)
       PROVE  UNCHANGED <<ledger, db.invites>>
  BY <1>10 DEF Connect, Close, PeerAuth, BecomeRoot, PeerInfo, AdoptRoot, RequestInvite
<1>11. QED
  BY <1>1, <1>2, <1>3, <1>4, <1>5, <1>6, <1>7, <1>8, <1>9, <1>10 DEF Next

\* The inductive invariant holds in every reachable state.
LEMMA Invariance == Spec => []IInv
<1>1. Init => IInv
  BY InitInv
<1>2. IInv /\ [Next]_vars => IInv'
  BY NextType, NextQuiet, NextGlobal, NextFollow, NextOpen, NextLedger DEF IInv
<1>3. QED
  BY <1>1, <1>2, PTL DEF Spec

-----------------------------------------------------------------------------
(***************************************************************************)
(* The theorems.                                                           *)
(***************************************************************************)
\* Every variable has its type, and a redeemed entry never leaves 0..MaxNum.
THEOREM TypeCorrect == Spec => []TypeOK
<1>1. IInv => TypeOK
  BY DEF IInv
<1>2. QED
  BY <1>1, Invariance, PTL

\* The node that serves works with the root account and the flags that its
\* database has, whenever no handler is between its write of the global and its
\* transaction.
THEOREM GlobalsMatch == Spec => []GlobalsMatchDb
<1>1. ASSUME IInv PROVE GlobalsMatchDb
  <2>1. globals \in FlagsType /\ db.flags \in FlagsType
    BY <1>1 DEF IInv, TypeOK, DbType
  <2>2. SUFFICES ASSUME At("serving"), ~SomeAt({"saveRoot", "saveAdopted"})
                 PROVE  globals = db.flags
    BY DEF GlobalsMatchDb
  <2>3. globals.root = db.flags.root /\ SameFlags(globals, db.flags)
    BY <1>1, <2>2 DEF IInv, GlobalsFollow
  <2>4. QED
    BY <2>1, <2>3 DEF FlagsType, SameFlags
<1>2. QED
  BY <1>1, Invariance, PTL

\* Of the invites granted to a key, as many are left as were not made.
THEOREM RedeemedMatch == Spec => []RedeemedWereInvited
<1>1. IInv => RedeemedWereInvited
  BY DEF IInv
<1>2. QED
  BY <1>1, Invariance, PTL

\* A database that has a root account, or a flag by which it will get one, keeps
\* one of them in every step.
THEOREM WayToRootKept == Spec => KeepsWayToRoot
<1>1. ASSUME IInv, [Next]_vars PROVE [HasWayToRoot(db) => HasWayToRoot(db')]_vars
  <2> SUFFICES ASSUME HasWayToRoot(db), Next PROVE HasWayToRoot(db')
    BY <1>1
  <2>p. /\ db \in DbType /\ db.flags \in FlagsType /\ globals \in FlagsType
    BY <1>1 DEF IInv, TypeOK, DbType
  <2>1. CASE db'.flags = db.flags
    BY <2>1 DEF HasWayToRoot
  <2>2. ASSUME NEW s \in SessionIds, SaveRoot(s) PROVE HasWayToRoot(db')
    <3>1. globals.root # NoRoot
      BY <1>1, <2>2 DEF IInv, GlobalIsSet, SomeAt, SaveRoot, SessionAt
    <3>2. QED
      BY <2>p, <2>2, <3>1 DEF SaveRoot, HasWayToRoot, DbType, FlagsType
  <2>3. ASSUME NEW s \in SessionIds, SaveAdopted(s) PROVE HasWayToRoot(db')
    <3>1. globals.root # NoRoot
      BY <1>1, <2>3 DEF IInv, GlobalIsSet, SomeAt, SaveAdopted, SessionAt
    <3>2. QED
      BY <2>p, <2>3, <3>1 DEF SaveAdopted, SaveRootAccount, HasWayToRoot, DbType, FlagsType
  <2>4. ASSUME NEW s \in SessionIds, InviteNextAuth(s) PROVE HasWayToRoot(db')
    <3>1. CASE UNCHANGED db
      BY <3>1
    <3>2. CASE ~UNCHANGED db
      <4>1. PICK saved \in {db} \cup Created(db, sessions[s].account, 0) :
              db' = [saved EXCEPT !.flags.nextAuthGetsInvite = FALSE]
        BY <2>4, <3>2 DEF InviteNextAuth
      <4>2. saved.flags = db.flags
        BY <2>p, <4>1, CreatedKeeps
      <4>3. now \in 1..MaxTime /\ sessions[s].account \in Accounts /\ 0 \in {0, Life}
        BY <1>1, <2>4 DEF IInv, TypeOK, InviteNextAuth, SessionAt
      <4>4. saved \in DbType
        BY <2>p, <4>1, <4>3, CreatedType
      <4>5. db'.flags = [db.flags EXCEPT !.nextAuthGetsInvite = FALSE]
        BY <4>1, <4>2, <4>4 DEF DbType
      <4>6. QED
        BY <2>p, <4>5 DEF HasWayToRoot, FlagsType
    <3>3. QED
      BY <3>1, <3>2
  <2>5. ASSUME NEW s \in SessionIds, CommitInvite(s) PROVE db'.flags = db.flags
    BY <1>1, <2>5 DEF IInv, OpenTransaction, CommitInvite
  <2>6. CASE InitRootAccount
    <3>1. \/ UNCHANGED db
          \/ db' = [db EXCEPT !.flags.getRootFromNextPeer = TRUE]
          \/ db' = [db EXCEPT !.flags.nextAuthIsRoot = TRUE]
          \/ db' = SaveRootAccount(db, Node)
          \/ db' = SaveRootAccount(db, DefaultRoot)
      BY <2>6 DEF InitRootAccount
    <3>2. CASE db' = [db EXCEPT !.flags.getRootFromNextPeer = TRUE]
      BY <2>p, <3>2 DEF HasWayToRoot, DbType, FlagsType
    <3>3. CASE db' = [db EXCEPT !.flags.nextAuthIsRoot = TRUE]
      BY <2>p, <3>3 DEF HasWayToRoot, DbType, FlagsType
    <3>4. ASSUME NEW root \in {Node, DefaultRoot}, db' = SaveRootAccount(db, root)
          PROVE  HasWayToRoot(db')
      <4>1. root # NoRoot
        BY ConstantsAssumption DEF Roots
      <4>2. db'.flags = [db.flags EXCEPT !.root = root]
        BY <2>p, <3>4 DEF SaveRootAccount, DbType
      <4>3. QED
        BY <2>p, <4>1, <4>2 DEF HasWayToRoot, FlagsType
    <3>5. QED
      BY <2>1, <3>1, <3>2, <3>3, <3>4
  <2>7. CASE ProcessArgs
    <3>1. \/ UNCHANGED db
          \/ db' = [db EXCEPT !.flags.getRootFromNextPeer = TRUE]
          \/ db' = [db EXCEPT !.rooted = {}, !.member = FALSE, !.doc = {}, !.newerThan = 0]
      BY <2>7 DEF ProcessArgs
    <3>2. CASE db' = [db EXCEPT !.flags.getRootFromNextPeer = TRUE]
      BY <2>p, <3>2 DEF HasWayToRoot, DbType, FlagsType
    <3>3. CASE db' = [db EXCEPT !.rooted = {}, !.member = FALSE, !.doc = {}, !.newerThan = 0]
      BY <2>p, <3>3 DEF HasWayToRoot, DbType
    <3>4. QED
      BY <2>1, <3>1, <3>2, <3>3
  <2>8. CASE RestoreRootAccount
    BY <2>p, <2>8 DEF RestoreRootAccount, SaveRootAccount, HasWayToRoot, DbType, FlagsType
  <2>9. CASE WriteNextAuthGetsInvite
    BY <2>p, <2>9 DEF WriteNextAuthGetsInvite, HasWayToRoot, DbType, FlagsType
  <2>10. ASSUME \/ \E mode \in Modes : Start(mode)
                \/ \E invites, counts : AutoInvite(invites, counts)
                \/ ImportNextAuths \/ Serve \/ Stop \/ NodeIsInvited \/ Tick
         PROVE  db'.flags = db.flags
    BY <2>p, <2>10 DEF Start, AutoInvite, ImportNextAuths, Serve, Stop, NodeIsInvited, Tick, DbType
  <2>11. ASSUME NEW s \in SessionIds,
                \/ \E a \in Accounts : Connect(s, a)
                \/ Close(s) \/ PeerAuth(s) \/ BecomeRoot(s) \/ PeerInfo(s) \/ AdoptRoot(s)
                \/ \E key \in Keys : RequestInvite(s, key)
         PROVE  db'.flags = db.flags
    BY <2>11 DEF Connect, Close, PeerAuth, BecomeRoot, PeerInfo, AdoptRoot, RequestInvite
  <2>12. QED
    BY <2>1, <2>2, <2>3, <2>4, <2>5, <2>6, <2>7, <2>8, <2>9, <2>10, <2>11
    DEF Next, Grant, ClearInvites
<1>2. QED
  BY <1>1, Invariance, PTL DEF Spec, KeepsWayToRoot

\* An invite that is still good stays in the node's document, unless the content
\* of the database is cleared.
THEOREM GoodInvitesKept == Spec => GoodInvitesStay
<1> DEFINE Kept == \A i \in db.doc : i \in db'.doc \/ Expired(i)
<1>1. ASSUME IInv, [Next]_vars PROVE [~At("opened") => Kept]_vars
  <2> SUFFICES ASSUME ~At("opened"), Next PROVE Kept
    BY <1>1
  <2>p. db \in DbType
    BY <1>1 DEF IInv, TypeOK
  <2>1. CASE db'.doc = db.doc
    BY <2>1
  <2>2. ASSUME NEW s \in SessionIds, InviteNextAuth(s) PROVE Kept
    <3>1. CASE UNCHANGED db
      BY <3>1
    <3>2. CASE ~UNCHANGED db
      <4>1. PICK saved \in {db} \cup Created(db, sessions[s].account, 0) :
              db' = [saved EXCEPT !.flags.nextAuthGetsInvite = FALSE]
        BY <2>2, <3>2 DEF InviteNextAuth
      <4>2. \A i \in db.doc : i \in saved.doc \/ Expired(i)
        BY <2>p, <4>1, CreatedKeeps
      <4>3. now \in 1..MaxTime /\ sessions[s].account \in Accounts /\ 0 \in {0, Life}
        BY <1>1, <2>2 DEF IInv, TypeOK, InviteNextAuth, SessionAt
      <4>4. saved \in DbType
        BY <2>p, <4>1, <4>3, CreatedType
      <4>5. db'.doc = saved.doc
        BY <4>1, <4>4 DEF DbType
      <4>6. QED
        BY <4>2, <4>5
    <3>3. QED
      BY <3>1, <3>2
  <2>3. ASSUME NEW s \in SessionIds, CommitInvite(s) PROVE Kept
    BY <1>1, <2>3 DEF IInv, OpenTransaction, CommitInvite
  <2>4. ASSUME \/ \E mode \in Modes : Start(mode)
               \/ \E invites, counts : AutoInvite(invites, counts)
               \/ ProcessArgs \/ RestoreRootAccount \/ ImportNextAuths \/ InitRootAccount
               \/ WriteNextAuthGetsInvite \/ Serve \/ Stop \/ NodeIsInvited \/ Tick
        PROVE  db'.doc = db.doc
    BY <2>p, <2>4 DEF Start, AutoInvite, ProcessArgs, RestoreRootAccount, ImportNextAuths,
       InitRootAccount, WriteNextAuthGetsInvite, Serve, Stop, NodeIsInvited, Tick,
       SaveRootAccount, DbType, At
  <2>5. ASSUME NEW s \in SessionIds,
               \/ \E a \in Accounts : Connect(s, a)
               \/ Close(s) \/ PeerAuth(s) \/ BecomeRoot(s) \/ SaveRoot(s) \/ PeerInfo(s)
               \/ AdoptRoot(s) \/ SaveAdopted(s)
               \/ \E key \in Keys : RequestInvite(s, key)
        PROVE  db'.doc = db.doc
    BY <2>p, <2>5 DEF Connect, Close, PeerAuth, BecomeRoot, SaveRoot, PeerInfo, AdoptRoot,
       SaveAdopted, RequestInvite, SaveRootAccount, DbType
  <2>6. QED
    BY <2>1, <2>2, <2>3, <2>4, <2>5 DEF Next, Grant, ClearInvites
<1>2. QED
  BY <1>1, Invariance, PTL DEF Spec, GoodInvitesStay

-----------------------------------------------------------------------------
(***************************************************************************)
(* The root account of a node that serves, and never stopped on its way,   *)
(* is an account that it has: for every set of accounts and sessions.  It  *)
(* has an inductive invariant of its own.                                  *)
(***************************************************************************)
\* A database gets its root account in one way.  The flag that makes the next
\* peer the root account excludes the other two.
OneWay(flags) ==
  flags.nextAuthIsRoot => ~flags.nextAuthGetsInvite /\ ~flags.getRootFromNextPeer

\* InitRootAccount of a first run finds nothing but what -peerboot has written.
FirstRunIsEmpty ==
  /\ ~db.exists => At("down") /\ db.flags = NoFlags
  /\ process.firstRun /\ process.phase \in {"opened", "flags", "root"} =>
       /\ db.flags.root = NoRoot
       /\ ~db.flags.nextAuthIsRoot /\ ~db.flags.nextAuthGetsInvite
       /\ db.flags.getRootFromNextPeer => process.mode = "peerboot"
  /\ process.mode = "peerboot" /\ process.phase \in {"opened", "flags", "root"} =>
       process.firstRun
  /\ At("saved") => ~db.flags.nextAuthIsRoot

\* What the open transaction leaves alone.
OpenKeepsRooted ==
  \A u \in uncommitted : u.db.rooted = db.rooted /\ u.db.exists = db.exists

\* No handler makes its peer the root account while another invites or adopts.
HandlersApart ==
  At("serving") /\ (globals.nextAuthIsRoot \/ SomeAt({"isRoot", "saveRoot"})) =>
    /\ ~globals.nextAuthGetsInvite /\ ~globals.getRootFromNextPeer
    /\ ~SomeAt({"getsInvite", "adopts", "saveAdopted"})

\* The account has been saved, or its own session is about to save it.
Coming(root) ==
  \/ root \in db.rooted
  \/ \E s \in SessionIds : sessions[s].at = "saveRoot" /\ sessions[s].account = root

GlobalIsComing == SomeAt({"saveRoot"}) => Coming(globals.root)

RootIsComing == db.flags.root # NoRoot /\ ~At("cleared") => Coming(db.flags.root)

RootInv ==
  stops = 0 =>
    /\ OneWay(db.flags)
    /\ FirstRunIsEmpty
    /\ OpenKeepsRooted
    /\ HandlersApart
    /\ GlobalIsComing
    /\ RootIsComing

-----------------------------------------------------------------------------
(***************************************************************************)
(* While the node starts: there is no session.                             *)
(***************************************************************************)

\* The values that the proofs below need to know well typed.
LEMMA Typed ==
  ASSUME IInv
  PROVE  /\ db \in DbType /\ db.flags \in FlagsType /\ globals \in FlagsType
         /\ process \in [phase : Phases, mode : Modes, firstRun : BOOLEAN]
         /\ sessions \in [SessionIds -> [at : Steps, account : Accounts \cup {Node}]]
         /\ stops \in Nat
  BY ConstantsAssumption DEF IInv, TypeOK, DbType

\* A node that has never run.
LEMMA InitRoot == Init => RootInv
  BY DEF Init, RootInv, OneWay, FirstRunIsEmpty, OpenKeepsRooted, HandlersApart, GlobalIsComing,
     RootIsComing, SomeAt, At, EmptyDb, NoFlags, Flags, NoSession

\* What core.Start does to the database leaves the root account saved.
LEMMA StartingRoot ==
  ASSUME IInv, RootInv, stops = 0, ~At("serving"), sessions' = sessions, uncommitted' = uncommitted,
         OneWay(db.flags)', FirstRunIsEmpty',
         At("serving")' => SameFlags(globals, db.flags)',
         db'.flags.root # NoRoot /\ process'.phase # "cleared" =>
           \/ db'.flags.root \in db'.rooted
           \/ db'.flags.root = db.flags.root /\ db.rooted \subseteq db'.rooted /\ ~At("cleared")
  PROVE  RootInv'
<1>1. uncommitted = {} /\ \A s \in SessionIds : sessions[s].at = "none"
  BY QuietMeansNone DEF IInv
<1>2. \A root : (Coming(root) <=> root \in db.rooted) /\ (Coming(root)' <=> root \in db'.rooted)
  BY <1>1 DEF Coming
<1>3. OpenKeepsRooted' /\ GlobalIsComing'
  BY <1>1 DEF OpenKeepsRooted, GlobalIsComing, SomeAt
<1>4. HandlersApart'
  BY <1>1 DEF HandlersApart, SomeAt, SameFlags, OneWay
<1>5. RootIsComing'
  BY <1>2 DEF RootInv, RootIsComing, At
<1>6. QED
  BY <1>3, <1>4, <1>5 DEF RootInv

\* core.Start, every step of it.
LEMMA StartRoot ==
  ASSUME IInv, RootInv, stops = 0,
         \/ \E mode \in Modes : Start(mode)
         \/ ProcessArgs \/ RestoreRootAccount \/ ImportNextAuths \/ InitRootAccount
         \/ WriteNextAuthGetsInvite \/ Serve
         \/ \E invites, counts : AutoInvite(invites, counts)
  PROVE  RootInv'
<1>t. /\ db \in DbType /\ db.flags \in FlagsType /\ globals \in FlagsType
      /\ process \in [phase : Phases, mode : Modes, firstRun : BOOLEAN]
  BY Typed
<1>r. OneWay(db.flags) /\ FirstRunIsEmpty
  BY DEF RootInv
<1> USE DEF At, Goto, OneWay, FirstRunIsEmpty
<1>1. ASSUME NEW mode \in Modes, Start(mode) PROVE RootInv'
  <2>1. /\ db' = [db EXCEPT !.exists = TRUE]
        /\ process' = [phase |-> "opened", mode |-> mode, firstRun |-> ~db.exists]
    BY <1>1 DEF Start
  <2>2. db'.flags = db.flags /\ db'.rooted = db.rooted /\ db'.exists
    BY <1>t, <2>1 DEF DbType
  <2>3. At("down") /\ UNCHANGED <<sessions, uncommitted>> /\ (mode = "peerboot" => ~db.exists)
    BY <1>1 DEF Start
  <2>4. ~db.exists => /\ db.flags.root = NoRoot /\ ~db.flags.nextAuthIsRoot
                      /\ ~db.flags.nextAuthGetsInvite /\ ~db.flags.getRootFromNextPeer
    BY <1>r DEF NoFlags, Flags
  <2>5. OneWay(db.flags)' /\ FirstRunIsEmpty'
    BY <1>r, <2>1, <2>2, <2>3, <2>4
  <2>6. ~At("serving") /\ ~At("cleared") /\ ~At("serving")'
    BY <2>1, <2>3
  <2>7. QED
    BY <2>2, <2>3, <2>5, <2>6, StartingRoot
<1>2. CASE ProcessArgs
  <2>1. CASE /\ process' = [process EXCEPT !.phase = "cleared"]
             /\ db'.flags = db.flags /\ db'.exists = db.exists
    BY <1>2, <1>t, <1>r, <2>1, StartingRoot DEF ProcessArgs
  <2>2. CASE /\ process.mode = "peerboot" /\ process' = [process EXCEPT !.phase = "flags"]
             /\ db' = [db EXCEPT !.flags.getRootFromNextPeer = TRUE]
    BY <1>2, <1>t, <1>r, <2>2, StartingRoot DEF ProcessArgs, DbType, FlagsType
  <2>3. CASE process' = [process EXCEPT !.phase = "flags"] /\ db' = db
    BY <1>2, <1>t, <1>r, <2>3, StartingRoot DEF ProcessArgs
  <2>4. QED
    BY <1>2, <1>t, <2>1, <2>2, <2>3 DEF ProcessArgs, DbType
<1>3. CASE RestoreRootAccount
  <2>1. db'.flags = db.flags /\ db'.exists = db.exists
    BY <1>3, <1>t DEF RestoreRootAccount, SaveRootAccount, DbType, FlagsType
  <2>2. db.flags.root # NoRoot => db.flags.root \in db'.rooted
    BY <1>3, <1>t DEF RestoreRootAccount, SaveRootAccount, DbType
  <2>3. QED
    BY <1>3, <1>t, <1>r, <2>1, <2>2, StartingRoot DEF RestoreRootAccount
<1>4. CASE ImportNextAuths
  BY <1>4, <1>t, <1>r, StartingRoot DEF ImportNextAuths
<1>5. CASE InitRootAccount
  <2>1. CASE UNCHANGED db /\ process'.phase \in {"down", "ready"}
    BY <1>5, <1>t, <1>r, <2>1, StartingRoot DEF InitRootAccount
  <2>2. CASE /\ process.firstRun /\ db.flags.root = NoRoot /\ Goto("ready")
             /\ db' = [db EXCEPT !.flags.getRootFromNextPeer = TRUE]
    BY <1>5, <1>t, <1>r, <2>2, StartingRoot DEF InitRootAccount, DbType, FlagsType
  <2>3. CASE /\ process.firstRun /\ db.flags.root = NoRoot /\ Goto("ready")
             /\ process.mode = "noroot"
             /\ db' = [db EXCEPT !.flags.nextAuthIsRoot = TRUE]
    BY <1>5, <1>t, <1>r, <2>3, StartingRoot DEF InitRootAccount, DbType, FlagsType
  <2>4. CASE /\ process.firstRun /\ Goto("saved") /\ db' = SaveRootAccount(db, Node)
    BY <1>5, <1>t, <1>r, <2>4, StartingRoot DEF InitRootAccount, SaveRootAccount, DbType, FlagsType
  <2>5. CASE /\ process.firstRun /\ Goto("ready") /\ db' = SaveRootAccount(db, DefaultRoot)
    BY <1>5, <1>t, <1>r, <2>5, StartingRoot DEF InitRootAccount, SaveRootAccount, DbType, FlagsType
  <2>6. QED
    BY <1>5, <1>t, <2>1, <2>2, <2>3, <2>4, <2>5 DEF InitRootAccount
<1>6. CASE WriteNextAuthGetsInvite
  BY <1>6, <1>t, <1>r, StartingRoot DEF WriteNextAuthGetsInvite, DbType, FlagsType
<1>7. CASE Serve
  <2>1. SameFlags(globals, db.flags)
    BY <1>7 DEF Serve, IInv, GlobalsFollow
  <2>2. QED
    BY <1>7, <1>t, <1>r, <2>1, StartingRoot DEF Serve, SameFlags
<1>8. ASSUME NEW invites, NEW counts, AutoInvite(invites, counts) PROVE RootInv'
  BY <1>8, <1>t, <1>r, StartingRoot DEF AutoInvite, DbType
<1>9. QED
  BY <1>1, <1>2, <1>3, <1>4, <1>5, <1>6, <1>7, <1>8

-----------------------------------------------------------------------------
(***************************************************************************)
(* While the node serves.                                                  *)
(***************************************************************************)
\* Where a handler has a part in how the root account or an invite is found.
Deciding == {"isRoot", "saveRoot", "getsInvite", "adopts", "saveAdopted"}

\* The first two parts of the invariant, while the node serves.
LEMMA ServingDb ==
  ASSUME RootInv, stops = 0, At("serving"), process' = process, stops' = stops,
         OneWay(db.flags)', db'.exists = db.exists,
         OpenKeepsRooted', HandlersApart', GlobalIsComing', RootIsComing'
  PROVE  RootInv'
<1>1. FirstRunIsEmpty'
  BY DEF RootInv, FirstRunIsEmpty, At
<1>2. QED
  BY <1>1 DEF RootInv

\* Steps that have no part in finding the root account.
LEMMA OtherSteps ==
  ASSUME RootInv, stops = 0, At("serving"), UNCHANGED <<process, stops, globals>>,
         db'.flags = db.flags, db'.rooted = db.rooted, db'.exists = db.exists, OpenKeepsRooted',
         \A t \in SessionIds :
           \/ sessions'[t] = sessions[t]
           \/ sessions[t].at \notin Deciding /\ sessions'[t].at \notin Deciding
  PROVE  RootInv'
<1>1. \A root : Coming(root) => Coming(root)'
  BY DEF Coming, Deciding
<1>2. \A steps \in SUBSET Deciding : SomeAt(steps)' => SomeAt(steps)
  BY DEF SomeAt
<1>3. \A steps \in {{"isRoot", "saveRoot"}, {"saveRoot"}, {"getsInvite", "adopts", "saveAdopted"}} :
        SomeAt(steps)' => SomeAt(steps)
  BY <1>2 DEF Deciding
<1>4. HandlersApart' /\ GlobalIsComing'
  BY <1>1, <1>3 DEF RootInv, HandlersApart, GlobalIsComing, At
<1>5. RootIsComing'
  BY <1>1 DEF RootInv, RootIsComing, At
<1>6. OneWay(db.flags)'
  BY DEF RootInv, OneWay
<1>7. QED
  BY <1>4, <1>5, <1>6, ServingDb

\* Nothing but the clock changes.
LEMMA StillRoot ==
  ASSUME RootInv, UNCHANGED <<db, uncommitted, globals, process, sessions, stops>>
  PROVE  RootInv'
  BY DEF RootInv, OneWay, FirstRunIsEmpty, OpenKeepsRooted, HandlersApart, GlobalIsComing,
     RootIsComing, Coming, SomeAt, At

\* The clock, and an invite from elsewhere in the tree.
LEMMA TickRoot ==
  ASSUME IInv, RootInv, stops = 0, At("serving"), Tick \/ NodeIsInvited
  PROVE  RootInv'
<1>1. UNCHANGED <<process, stops, globals, sessions, uncommitted>>
  BY DEF Tick, NodeIsInvited
<1>2. db'.flags = db.flags /\ db'.rooted = db.rooted /\ db'.exists = db.exists
  BY Typed DEF Tick, NodeIsInvited, DbType
<1>3. OpenKeepsRooted'
  BY <1>1, <1>2 DEF RootInv, OpenKeepsRooted
<1>4. QED
  BY <1>1, <1>2, <1>3, OtherSteps

\* Steps of a session that has not seen a flag, or is through.
LEMMA SessionRoot ==
  ASSUME IInv, RootInv, stops = 0, NEW s \in SessionIds,
         (\E a \in Accounts : Connect(s, a)) \/ Close(s)
  PROVE  RootInv'
<1>1. /\ At("serving") /\ UNCHANGED <<db, uncommitted, process, stops, globals>>
      /\ sessions[s].at \notin Deciding /\ sessions'[s].at \notin Deciding
      /\ \A t \in SessionIds : t # s => sessions'[t] = sessions[t]
  BY Typed DEF Connect, Close, SessionAt, Deciding, NoSession
<1>2. OpenKeepsRooted'
  BY <1>1 DEF RootInv, OpenKeepsRooted
<1>3. QED
  BY <1>1, <1>2, OtherSteps

\* The transaction of ui_requestInvite leaves the accounts alone.
LEMMA RequestRoot ==
  ASSUME IInv, RootInv, stops = 0, NEW s \in SessionIds, NEW key \in Keys, RequestInvite(s, key)
  PROVE  RootInv'
<1>1. /\ At("serving") /\ UNCHANGED <<db, process, stops, globals>>
      /\ sessions[s].at \notin Deciding /\ sessions'[s].at \notin Deciding
      /\ \A t \in SessionIds : t # s => sessions'[t] = sessions[t]
  BY Typed DEF RequestInvite, SessionAt, Deciding, Move
<1>2. ASSUME NEW u \in uncommitted' PROVE u.db.rooted = db.rooted /\ u.db.exists = db.exists
  <2> DEFINE redeemed == Redeemed(db, key)
  <2>1. db.invites[key] # NoEntry /\ db \in DbType
    BY Typed DEF RequestInvite
  <2>2. redeemed \in DbType
    BY <2>1, RedeemedType
  <2>3. redeemed.rooted = db.rooted /\ redeemed.exists = db.exists
    BY <2>1 DEF Redeemed, DbType
  <2>4. PICK created \in Created(redeemed, sessions[s].account, Life) :
          u = [db |-> created, key |-> key, made |-> TRUE]
    BY <1>2 DEF RequestInvite, Redemptions
  <2>5. created.rooted = redeemed.rooted /\ created.exists = redeemed.exists
    <3> HIDE DEF redeemed
    <3>1. QED
      BY <2>2, <2>4 DEF Created, DbType
  <2>6. QED
    BY <2>3, <2>4, <2>5
<1>3. OpenKeepsRooted'
  BY <1>1, <1>2 DEF OpenKeepsRooted
<1>4. QED
  BY <1>1, <1>3, OtherSteps

\* ... and so does its commit.
LEMMA CommitRoot ==
  ASSUME IInv, RootInv, stops = 0, NEW s \in SessionIds, CommitInvite(s)
  PROVE  RootInv'
<1>1. /\ At("serving") /\ UNCHANGED <<process, stops, globals>> /\ uncommitted' = {}
      /\ sessions[s].at \notin Deciding /\ sessions'[s].at \notin Deciding
      /\ \A t \in SessionIds : t # s => sessions'[t] = sessions[t]
  BY Typed DEF CommitInvite, SessionAt, Deciding, Move
<1>2. PICK result \in uncommitted : db' = result.db
  BY DEF CommitInvite
<1>3. result.db.flags = db.flags /\ result.db.rooted = db.rooted /\ result.db.exists = db.exists
  BY DEF IInv, OpenTransaction, RootInv, OpenKeepsRooted
<1>4. OpenKeepsRooted'
  BY <1>1 DEF OpenKeepsRooted
<1>5. QED
  BY <1>1, <1>2, <1>3, <1>4, OtherSteps

\* A handler sees a flag.
LEMMA SeesFlag ==
  ASSUME IInv, RootInv, stops = 0, NEW s \in SessionIds, PeerAuth(s) \/ PeerInfo(s)
  PROVE  RootInv'
<1>1. /\ At("serving") /\ UNCHANGED <<db, uncommitted, process, stops, globals>>
      /\ sessions[s].at \notin Deciding
      /\ \A t \in SessionIds : t # s => sessions'[t] = sessions[t]
  BY Typed DEF PeerAuth, PeerInfo, SessionAt, Deciding, Move
<1>2. /\ sessions'[s].at = "isRoot" => globals.nextAuthIsRoot
      /\ sessions'[s].at = "getsInvite" => globals.nextAuthGetsInvite
      /\ sessions'[s].at = "adopts" => globals.getRootFromNextPeer
      /\ sessions'[s].at \in {"isRoot", "getsInvite", "adopts", "authed"}
  BY Typed DEF PeerAuth, PeerInfo, SessionAt, Move
<1>3. \A root : Coming(root) => Coming(root)'
  BY <1>1 DEF Coming, Deciding
<1>4. OneWay(db.flags)' /\ OpenKeepsRooted' /\ RootIsComing'
  BY <1>1, <1>3 DEF RootInv, OneWay, OpenKeepsRooted, RootIsComing, At
<1>5. SomeAt({"saveRoot"})' => SomeAt({"saveRoot"})
  BY <1>1, <1>2 DEF SomeAt
<1>6. GlobalIsComing'
  BY <1>1, <1>3, <1>5 DEF RootInv, GlobalIsComing
<1>7. HandlersApart'
  BY <1>1, <1>2 DEF RootInv, HandlersApart, SomeAt, At
<1>8. QED
  BY <1>1, <1>4, <1>6, <1>7, ServingDb

\* A peer becomes the root account: first the global, then the database, which
\* takes the global and saves the peer's own account.
LEMMA BecomesRoot ==
  ASSUME IInv, RootInv, stops = 0, NEW s \in SessionIds, BecomeRoot(s) \/ SaveRoot(s)
  PROVE  RootInv'
<1>t. /\ db \in DbType /\ db.flags \in FlagsType /\ globals \in FlagsType
      /\ sessions \in [SessionIds -> [at : Steps, account : Accounts \cup {Node}]]
  BY Typed
<1>s. /\ At("serving") /\ UNCHANGED <<uncommitted, process, stops>>
      /\ sessions[s].at \in {"isRoot", "saveRoot"}
      /\ Move(s, "saveRoot") \/ Move(s, "authed")
  BY DEF BecomeRoot, SaveRoot, SessionAt
<1>m. /\ \A t \in SessionIds : t # s => sessions'[t] = sessions[t]
      /\ sessions'[s].at \in {"saveRoot", "authed"} /\ sessions'[s].account = sessions[s].account
  BY <1>t, <1>s DEF Move
<1>g. /\ globals'.nextAuthIsRoot \in {FALSE, globals.nextAuthIsRoot}
      /\ globals'.nextAuthGetsInvite = globals.nextAuthGetsInvite
      /\ globals'.getRootFromNextPeer = globals.getRootFromNextPeer
  <2>1. CASE BecomeRoot(s)
    BY <1>t, <2>1 DEF BecomeRoot, FlagsType
  <2>2. CASE SaveRoot(s)
    BY <1>t, <2>2 DEF SaveRoot, FlagsType
  <2>3. QED
    BY <2>1, <2>2
<1>1. /\ At("serving") /\ UNCHANGED <<uncommitted, process, stops>>
      /\ sessions[s].at \in {"isRoot", "saveRoot"}
      /\ \A t \in SessionIds : t # s => sessions'[t] = sessions[t]
      /\ sessions'[s].at \in {"saveRoot", "authed"} /\ sessions'[s].account = sessions[s].account
      /\ globals'.nextAuthIsRoot \in {FALSE, globals.nextAuthIsRoot}
      /\ globals'.nextAuthGetsInvite = globals.nextAuthGetsInvite
      /\ globals'.getRootFromNextPeer = globals.getRootFromNextPeer
  BY <1>s, <1>m, <1>g
<1>2. HandlersApart'
  BY <1>1 DEF RootInv, HandlersApart, SomeAt, At
<1>3. CASE BecomeRoot(s)
  <2>1. /\ UNCHANGED db /\ globals'.root = sessions[s].account /\ sessions'[s].at = "saveRoot"
        /\ sessions[s].at = "isRoot"
    BY <1>t, <1>3 DEF BecomeRoot, SessionAt, Move, FlagsType
  <2>2. Coming(globals.root)' /\ \A root : Coming(root) => Coming(root)'
    BY <1>1, <2>1 DEF Coming
  <2>3. GlobalIsComing' /\ RootIsComing'
    BY <1>1, <2>1, <2>2 DEF RootInv, GlobalIsComing, RootIsComing, At
  <2>4. OneWay(db.flags)' /\ OpenKeepsRooted'
    BY <1>1, <2>1 DEF RootInv, OneWay, OpenKeepsRooted
  <2>5. QED
    BY <1>1, <1>2, <2>1, <2>3, <2>4, ServingDb
<1>4. CASE SaveRoot(s)
  <2>1. /\ uncommitted = {} /\ sessions[s].at = "saveRoot" /\ globals'.root = globals.root
        /\ db'.rooted = db.rooted \cup {sessions[s].account} /\ db'.exists = db.exists
        /\ db'.flags.root = globals.root /\ ~db'.flags.nextAuthIsRoot
    BY <1>t, <1>4 DEF SaveRoot, SessionAt, DbType, FlagsType
  <2>2. \A root : Coming(root) => Coming(root)'
    BY <1>1, <2>1 DEF Coming
  <2>3. Coming(globals.root)
    BY <2>1 DEF RootInv, GlobalIsComing, SomeAt
  <2>4. GlobalIsComing' /\ RootIsComing' /\ OneWay(db.flags)' /\ OpenKeepsRooted'
    BY <1>1, <2>1, <2>2, <2>3 DEF GlobalIsComing, RootIsComing, OneWay, OpenKeepsRooted
  <2>5. QED
    BY <1>1, <1>2, <2>1, <2>4, ServingDb
<1>5. QED
  BY <1>3, <1>4

\* The root account of a peer is adopted: nobody becomes the root account then.
LEMMA AdoptsRoot ==
  ASSUME IInv, RootInv, stops = 0, NEW s \in SessionIds, AdoptRoot(s) \/ SaveAdopted(s)
  PROVE  RootInv'
<1>t. /\ db \in DbType /\ db.flags \in FlagsType /\ globals \in FlagsType
      /\ sessions \in [SessionIds -> [at : Steps, account : Accounts \cup {Node}]]
  BY Typed
<1>1. /\ At("serving") /\ UNCHANGED <<process, stops>>
      /\ sessions[s].at \in {"adopts", "saveAdopted"}
      /\ \A t \in SessionIds : t # s => sessions'[t] = sessions[t]
      /\ sessions'[s].at \in {"saveAdopted", "authed"}
      /\ globals'.nextAuthIsRoot = globals.nextAuthIsRoot
  BY <1>t DEF AdoptRoot, SaveAdopted, SessionAt, Move, FlagsType
<1>2. ~globals.nextAuthIsRoot /\ \A t \in SessionIds : sessions[t].at \notin {"isRoot", "saveRoot"}
  BY <1>1 DEF RootInv, HandlersApart, SomeAt
<1>3. HandlersApart' /\ GlobalIsComing'
  BY <1>1, <1>2 DEF HandlersApart, GlobalIsComing, SomeAt
<1>4. \A root : (Coming(root) => root \in db.rooted) /\ (root \in db'.rooted => Coming(root)')
  BY <1>2 DEF Coming
<1>5. CASE AdoptRoot(s)
  <2>1. UNCHANGED <<db, uncommitted>>
    BY <1>5 DEF AdoptRoot
  <2>2. OneWay(db.flags)' /\ OpenKeepsRooted' /\ RootIsComing'
    BY <1>1, <1>4, <2>1 DEF RootInv, OneWay, OpenKeepsRooted, RootIsComing, At
  <2>3. QED
    BY <1>1, <1>3, <2>1, <2>2, ServingDb
<1>6. CASE SaveAdopted(s)
  <2>1. /\ uncommitted' = {} /\ db'.rooted = db.rooted \cup {globals.root} /\ db'.exists = db.exists
        /\ db'.flags.root = globals.root
        /\ db'.flags.nextAuthIsRoot = db.flags.nextAuthIsRoot
    BY <1>t, <1>6 DEF SaveAdopted, SaveRootAccount, DbType, FlagsType
  <2>2. ~db.flags.nextAuthIsRoot
    BY <1>1, <1>2 DEF IInv, GlobalsFollow, SameFlags
  <2>3. OneWay(db.flags)' /\ OpenKeepsRooted' /\ RootIsComing'
    BY <1>4, <2>1, <2>2 DEF OneWay, OpenKeepsRooted, RootIsComing
  <2>4. QED
    BY <1>1, <1>3, <2>1, <2>3, ServingDb
<1>7. QED
  BY <1>5, <1>6

\* The first peer is invited: nobody becomes the root account then, and a panic
\* leaves nothing unsaved.
LEMMA InvitesFirst ==
  ASSUME IInv, RootInv, stops = 0, NEW s \in SessionIds, InviteNextAuth(s)
  PROVE  RootInv'
<1>t. /\ db \in DbType /\ db.flags \in FlagsType /\ globals \in FlagsType
      /\ process \in [phase : Phases, mode : Modes, firstRun : BOOLEAN]
      /\ sessions \in [SessionIds -> [at : Steps, account : Accounts \cup {Node}]]
      /\ now \in 1..MaxTime
  BY Typed DEF IInv, TypeOK
<1>1. /\ At("serving") /\ UNCHANGED stops /\ uncommitted = {} /\ uncommitted' = {}
      /\ sessions[s].at = "getsInvite"
  BY DEF InviteNextAuth, SessionAt
<1>2. ~globals.nextAuthIsRoot /\ \A t \in SessionIds : sessions[t].at \notin {"isRoot", "saveRoot"}
  BY <1>1 DEF RootInv, HandlersApart, SomeAt
<1>3. \A root : (Coming(root) => root \in db.rooted) /\ (root \in db'.rooted => Coming(root)')
  BY <1>2 DEF Coming
<1>4. OpenKeepsRooted'
  BY <1>1 DEF OpenKeepsRooted
<1>5. CASE UNCHANGED db /\ Goto("down") /\ sessions' = [t \in SessionIds |-> NoSession]
  <2>1. process'.phase = "down"
    BY <1>t, <1>5 DEF Goto
  <2>2. HandlersApart' /\ GlobalIsComing'
    BY <1>5, <2>1 DEF HandlersApart, GlobalIsComing, SomeAt, At, NoSession
  <2>3. OneWay(db.flags)' /\ FirstRunIsEmpty' /\ RootIsComing'
    BY <1>1, <1>3, <1>5, <2>1 DEF RootInv, OneWay, FirstRunIsEmpty, RootIsComing, At
  <2>4. QED
    BY <1>4, <2>2, <2>3 DEF RootInv
<1>6. CASE /\ \E saved \in (IF CanCreate(db, sessions[s].account)
                            THEN Created(db, sessions[s].account, 0) ELSE {db}) :
                db' = [saved EXCEPT !.flags.nextAuthGetsInvite = FALSE]
           /\ globals' = [globals EXCEPT !.nextAuthGetsInvite = FALSE]
           /\ Move(s, "authed")
           /\ UNCHANGED process
  <2>1. PICK saved \in (IF CanCreate(db, sessions[s].account)
                        THEN Created(db, sessions[s].account, 0) ELSE {db}) :
          db' = [saved EXCEPT !.flags.nextAuthGetsInvite = FALSE]
    BY <1>6
  <2>2. saved.flags = db.flags /\ saved.rooted = db.rooted /\ saved.exists = db.exists
        /\ saved \in DbType
    <3>1. CASE saved = db
      BY <1>t, <3>1
    <3>2. CASE saved \in Created(db, sessions[s].account, 0)
      <4>1. 0 \in {0, Life} /\ sessions[s].account \in Accounts
        BY <1>1 DEF IInv, TypeOK
      <4>2. saved \in DbType
        BY <1>t, <3>2, <4>1, CreatedType
      <4>3. QED
        BY <1>t, <3>2, <4>2 DEF Created, DbType
    <3>3. QED
      BY <2>1, <3>1, <3>2
  <2>3. /\ db'.rooted = db.rooted /\ db'.exists = db.exists /\ db'.flags.root = db.flags.root
        /\ db'.flags.nextAuthIsRoot = db.flags.nextAuthIsRoot
    BY <2>1, <2>2, <1>t DEF DbType, FlagsType
  <2>4. ~db.flags.nextAuthIsRoot
    BY <1>1, <1>2 DEF IInv, GlobalsFollow, SameFlags
  <2>5. OneWay(db.flags)' /\ RootIsComing'
    BY <1>1, <1>3, <2>3, <2>4 DEF RootInv, OneWay, RootIsComing, At
  <2>6. /\ ~globals'.nextAuthIsRoot
        /\ \A t \in SessionIds : sessions'[t].at \notin {"isRoot", "saveRoot"}
    BY <1>t, <1>2, <1>6 DEF Move, FlagsType
  <2>7. HandlersApart' /\ GlobalIsComing'
    BY <2>6 DEF HandlersApart, GlobalIsComing, SomeAt
  <2>8. QED
    BY <1>1, <1>4, <1>6, <2>3, <2>5, <2>7, ServingDb
<1>7. QED
  BY <1>5, <1>6 DEF InviteNextAuth

\* Every step keeps the invariant.
LEMMA NextRoot == IInv /\ RootInv /\ [Next]_vars => RootInv'
<1> SUFFICES ASSUME IInv, RootInv, [Next]_vars PROVE RootInv'
  OBVIOUS
<1>1. CASE stops' # 0
  BY <1>1 DEF RootInv
<1>2. CASE stops' = 0 /\ stops # 0
  <2>1. stops \in Nat
    BY Typed
  <2>2. stops' = stops \/ stops' = stops + 1
    BY DEF Next, vars, Start, ProcessArgs, RestoreRootAccount, ImportNextAuths,
       InitRootAccount, WriteNextAuthGetsInvite, Serve, Grant, ClearInvites, AutoInvite, Stop,
       NodeIsInvited, Tick, Connect, Close, PeerAuth, BecomeRoot, SaveRoot, InviteNextAuth,
       PeerInfo, AdoptRoot, SaveAdopted, RequestInvite, CommitInvite
  <2>3. QED
    BY <1>2, <2>1, <2>2
<1>3. CASE stops' = 0 /\ stops = 0
  <2>1. CASE \/ \E mode \in Modes : Start(mode)
             \/ ProcessArgs \/ RestoreRootAccount \/ ImportNextAuths \/ InitRootAccount
             \/ WriteNextAuthGetsInvite \/ Serve
             \/ \E key \in Keys, num \in 0..MaxNum : Grant(key, num)
             \/ ClearInvites
    BY <1>3, <2>1, StartRoot DEF Grant, ClearInvites
  <2>2. CASE Stop
    BY <1>3, <2>2 DEF Stop
  <2>3. CASE NodeIsInvited \/ Tick
    <3>1. CASE At("serving")
      BY <1>3, <2>3, <3>1, TickRoot
    <3>2. CASE ~At("serving")
      BY <1>3, <2>3, <3>2, StillRoot DEF NodeIsInvited, Tick
    <3>3. QED
      BY <3>1, <3>2
  <2>4. ASSUME NEW s \in SessionIds,
               \/ \E a \in Accounts : Connect(s, a)
               \/ Close(s) \/ PeerAuth(s) \/ BecomeRoot(s) \/ SaveRoot(s) \/ InviteNextAuth(s)
               \/ PeerInfo(s) \/ AdoptRoot(s) \/ SaveAdopted(s)
               \/ \E key \in Keys : RequestInvite(s, key)
               \/ CommitInvite(s)
        PROVE  RootInv'
    BY <1>3, <2>4, SessionRoot, SeesFlag, BecomesRoot, InvitesFirst, AdoptsRoot, RequestRoot,
       CommitRoot
  <2>5. CASE UNCHANGED vars
    BY <2>5, StillRoot DEF vars
  <2>6. QED
    BY <2>1, <2>2, <2>3, <2>4, <2>5 DEF Next
<1>4. QED
  BY <1>1, <1>2, <1>3

-----------------------------------------------------------------------------
(***************************************************************************)
(* peerAuth writes the root account from the global, and saves the account *)
(* of its own session; yet, unless the process was stopped on its way, the *)
(* root account of a node that serves is one of its accounts whenever no   *)
(* handler is about to save it.                                            *)
(***************************************************************************)
THEOREM RootIsAccount == Spec => []RootHasAccount
<1>1. IInv /\ RootInv => RootHasAccount
  BY DEF RootInv, RootIsComing, Coming, RootHasAccount, SomeAt, At
<1>2. Init => RootInv
  BY InitRoot
<1>3. IInv /\ RootInv /\ [Next]_vars => RootInv'
  BY NextRoot
<1>4. QED
  BY <1>1, <1>2, <1>3, Invariance, PTL DEF Spec

=============================================================================
