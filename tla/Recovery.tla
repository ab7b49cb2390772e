------------------------------- MODULE Recovery -------------------------------
(***************************************************************************)
(* What two nodes of one tree do when one of them does not know the other. *)
(*                                                                         *)
(* In private mode a node flags a session as restricted when the account   *)
(* of its peer is not in its tree.  StartComms and peer_restricted turn    *)
(* the two flags into one of four outcomes: a normal session, a recovery   *)
(* by either side, in which the side that is not recognised sends the      *)
(* bundles of its inviters (StartRecovery), or an error.                   *)
(*                                                                         *)
(* A node's tree is the accounts that the bundles it holds lead to; how a  *)
(* save computes it is InviteTree.  A newer bundle may withdraw invites,   *)
(* and the accounts below are then out of the tree, but the flags of open  *)
(* sessions are not decided again.  A sync brings both nodes the newer of  *)
(* their bundles in one step (SequenceSwap); the queue and the authed map  *)
(* are PeerSessions, of which this module keeps that a session that ends   *)
(* with LastError leaves its peer locked out.                              *)
(***************************************************************************)
EXTENDS Integers, Sequences, FiniteSets, SequencesExt

CONSTANTS
  Nodes,      \* the nodes, named by their accounts
  Root,       \* the root account
  Nobody,     \* the zero address
  Invites,    \* account -> the invited accounts of each version of its bundle
  PublicIn,   \* the versions of the root's bundle that make the tree public
  PostsAt,    \* account -> the nodes at which it posts its bundles
  Dials,      \* who dials whom, a set of pairs
  Askers,     \* nodes of another program, which dial and ask for a recovery uninvited
  MaxBundles, \* bounds: how often StartRecovery's loop is followed,
  MaxBreaks   \* and how often connections break and nodes restart

TreeAccounts == Nodes \cup {Root}

ASSUME ConstantsAssumption ==
  /\ Nobody \notin TreeAccounts
  /\ IsFiniteSet(Nodes)
  /\ Invites \in [TreeAccounts -> Seq(SUBSET Nodes)]
  /\ PostsAt \in [TreeAccounts -> SUBSET Nodes]
  /\ PublicIn \subseteq Nat \ {0}
  /\ Dials \subseteq Nodes \X Nodes
  /\ \A p \in Dials : p[1] # p[2]
  /\ MaxBundles \in Nat /\ MaxBreaks \in Nat

VARIABLES
  held,     \* node -> account -> the newest version of its bundle that the node had
  forgotten,\* node -> the accounts whose content went with an outdated invite
  sessions, \* <<dialler, listener>> -> their session
  lockedOut,\* <<n, m>>: n's authedPeers keeps m after a session with LastError
  breaks,   \* how many connections broke or nodes restarted
  since     \* history: dial -> who would have let in the other since it was dialled

recoveryVars == <<held, forgotten, sessions, lockedOut, breaks, since>>

\* "answered": the listener has handled peer_auth; "authed": the dialler has
\* its answer; "asked": peer_restricted is sent; "recover", "collect", "info"
\* and "post": where StartRecovery is; "comms": a normal session.
Steps == {"none", "hello", "answered", "authed", "asked", "recover", "collect",
          "info", "post", "comms"}

\* restricts: the nodes whose LocalRestricted is set.  by and to: who recovers,
\* and for whom; bundles: what it collected.
NoSession == [at |-> "none", restricts |-> {}, by |-> Nobody, to |-> Nobody, bundles |-> <<>>]

RecoveryInit ==
  /\ held = [n \in Nodes |-> [a \in TreeAccounts |-> 0]]
  /\ forgotten = [n \in Nodes |-> {}]
  /\ sessions = [p \in Dials |-> NoSession]
  /\ lockedOut = {}
  /\ breaks = 0
  /\ since = [p \in Dials |-> {}]

-----------------------------------------------------------------------------
(***************************************************************************)
(* A node's tree, of the bundles that it holds.                            *)
(***************************************************************************)
InvitedBy(bundles, a) == IF bundles[a] = 0 THEN {} ELSE Invites[a][bundles[a]]

\* The accounts of the tree at level k or above.
UpTo(bundles) ==
  LET levels[k \in Nat] ==
        IF k = 0 THEN {Root}
        ELSE LET above == levels[k - 1]
             IN  above \cup UNION {InvitedBy(bundles, a) : a \in above}
  IN  levels

Depth == Cardinality(Nodes)

\* The bundles of node n that count.
Content(n) == [a \in TreeAccounts |-> IF a \in forgotten[n] THEN 0 ELSE held[n][a]]

\* Its tree.
Tree(n) == UpTo(Content(n))[Depth]

\* FetchAccountFromDb finds the account, enabled.
Knows(n, a) == a \in Tree(n)

Level(n, a) ==
  CHOOSE k \in 0..Depth :
    a \in UpTo(Content(n))[k] /\ \A j \in 0..(k - 1) : a \notin UpTo(Content(n))[j]

\* ActiveInviter.InviterAccount, zero for an account that is not found.
Inviter(n, a) ==
  IF ~Knows(n, a) \/ a = Root THEN Nobody
  ELSE CHOOSE b \in UpTo(Content(n))[Level(n, a) - 1] : a \in InvitedBy(Content(n), b)

Public(n) == held[n][Root] \in PublicIn

\* ValidateAndSave; a bundle without content is refused by ParseBundle.  Of an account
\* that is invited again the content returns if it is newer than the new invite, and is
\* forgotten otherwise (InviteTree!Returns, InviteTree!Forgotten).
ValidateAndSave(n, a, version) ==
  LET without(lost) ==
        [b \in TreeAccounts |->
           IF b = a THEN version ELSE IF b \in lost THEN 0 ELSE Content(n)[b]]
  IN
  IF a \in TreeAccounts /\ version > held[n][a] /\ Knows(n, a)
  THEN /\ held' = [held EXCEPT ![n][a] = version]
       /\ \E lost \in SUBSET {b \in TreeAccounts \ Tree(n) : Content(n)[b] > 0} :
            /\ lost \subseteq UpTo(without(lost))[Depth]
            /\ forgotten' = [forgotten EXCEPT ![n] = (@ \ {a}) \cup lost]
  ELSE UNCHANGED <<held, forgotten>>

\* An account posts the next version of its bundle at node n.
Publish(n, a) ==
  /\ n \in PostsAt[a]
  /\ Knows(n, a)
  /\ held[n][a] < Len(Invites[a])
  /\ ValidateAndSave(n, a, held[n][a] + 1)
  /\ UNCHANGED <<sessions, lockedOut, breaks>>

-----------------------------------------------------------------------------
(***************************************************************************)
(* Authentication, and StartComms.                                         *)
(***************************************************************************)
At(p, step) == sessions[p].at = step

Move(p, step) == sessions' = [sessions EXCEPT ![p].at = step]

\* Neither is in a session with the other, nor locked out.
MayDial(n, m) ==
  /\ <<n, m>> \notin lockedOut /\ <<m, n>> \notin lockedOut
  /\ \A p \in {<<n, m>>, <<m, n>>} \cap Dials : At(p, "none")

Dial(p) ==
  /\ MayDial(p[1], p[2])
  /\ Move(p, "hello")
  /\ UNCHANGED <<held, forgotten, lockedOut, breaks>>

\* Both sides of the check: public, or the root, or an account of the tree.
Restricts(n, m) == ~Public(n) /\ m # Root /\ ~Knows(n, m)

Flagged(n, m) == IF Restricts(n, m) THEN {n} ELSE {}

\* The listener's peer_auth handler.
PeerAuth(p) ==
  /\ At(p, "hello")
  /\ sessions' = [sessions EXCEPT ![p].at = "answered", ![p].restricts = Flagged(p[2], p[1])]
  /\ UNCHANGED <<held, forgotten, lockedOut, breaks>>

\* The dialler's callback: its own flag, and "restricted" from the answer.
StartAuth(p) ==
  /\ At(p, "answered")
  /\ sessions' = [sessions EXCEPT ![p].at = "authed", ![p].restricts = @ \cup Flagged(p[1], p[2])]
  /\ UNCHANGED <<held, forgotten, lockedOut, breaks>>

\* Variant of StartComms that does not look whether both are restricted.
StartCommsEither(p) ==
  /\ At(p, "authed")
  /\ CASE p[1] \in sessions[p].restricts -> Move(p, "asked")
       [] p[1] \notin sessions[p].restricts /\ p[2] \in sessions[p].restricts ->
            sessions' = [sessions EXCEPT ![p].at = "recover", ![p].by = p[1], ![p].to = p[2]]
       [] OTHER -> Move(p, "comms")
  /\ UNCHANGED <<held, forgotten, lockedOut, breaks>>

\* "neither account has invites" is an error, and OnEnd leaves such a session's
\* peer in authedPeers and out of the queue.
StartComms(p) ==
  LET local == p[1] \in sessions[p].restricts
      remote == p[2] \in sessions[p].restricts
  IN
  /\ At(p, "authed")
  /\ CASE local /\ remote ->
            /\ sessions' = [sessions EXCEPT ![p] = NoSession]
            /\ lockedOut' = lockedOut \cup {p}
       [] local /\ ~remote -> Move(p, "asked") /\ UNCHANGED lockedOut
       [] ~local /\ remote ->
            /\ sessions' = [sessions EXCEPT ![p].at = "recover", ![p].by = p[1], ![p].to = p[2]]
            /\ UNCHANGED lockedOut
       [] ~local /\ ~remote -> Move(p, "comms") /\ UNCHANGED lockedOut
  /\ UNCHANGED <<held, forgotten, breaks>>

\* Another program than this one may send peer_restricted whatever it was told: it is
\* among the methods that a session is allowed while it is restricted.
AskUninvited(p) ==
  /\ At(p, "authed")
  /\ p[1] \in Askers
  /\ Move(p, "asked")
  /\ UNCHANGED <<held, forgotten, lockedOut, breaks>>

\* Variant of PeerRestricted that answers "ok" and does nothing.
PeerRestrictedIgnored(p) ==
  /\ At(p, "asked")
  /\ sessions' = [sessions EXCEPT ![p] = NoSession]
  /\ UNCHANGED <<held, forgotten, lockedOut, breaks>>

\* The listener's peer_restricted handler starts a recovery for the dialler, and does not
\* look whether it restricts the dialler itself.
PeerRestricted(p) ==
  /\ At(p, "asked")
  /\ sessions' = [sessions EXCEPT ![p].at = "recover", ![p].by = p[2], ![p].to = p[1]]
  /\ UNCHANGED <<held, forgotten, lockedOut, breaks>>

\* A normal session: a bundle that one side has and the other has not, or has
\* older, goes over in the sync or as a broadcast, and is saved.
Exchange(p) ==
  /\ At(p, "comms")
  /\ \E from \in {p[1], p[2]}, to \in {p[1], p[2]}, a \in TreeAccounts :
       /\ Knows(from, a)
       /\ Content(from)[a] > held[to][a]
       /\ ValidateAndSave(to, a, Content(from)[a])
  /\ UNCHANGED <<sessions, lockedOut, breaks>>

-----------------------------------------------------------------------------
(***************************************************************************)
(* StartRecovery.                                                          *)
(***************************************************************************)
Bundle(n, a) ==
  [account |-> a, version |-> IF a = Nobody THEN 0 ELSE Content(n)[a]]

\* In public mode it sends the root's bundle.  Otherwise the first round of its
\* loop takes the node's inviter as the target.
BeginRecovery(p) ==
  LET n == sessions[p].by IN
  /\ At(p, "recover")
  /\ sessions' = IF Public(n)
                 THEN [sessions EXCEPT ![p].at = "info", ![p].bundles = <<Bundle(n, Root)>>]
                 ELSE [sessions EXCEPT ![p].at = "collect", ![p].bundles = <<Bundle(n, Inviter(n, n))>>]
  /\ UNCHANGED <<held, forgotten, lockedOut, breaks>>

\* The target has no inviter: ActiveLevel() is 0.
TargetIsTop(n, a) == a = Nobody \/ ~Knows(n, a) \/ Level(n, a) = 0

\* The later rounds: the target is the same, so a target with an inviter is
\* collected again and again.
Collect(p) ==
  LET n == sessions[p].by
      a == Last(sessions[p].bundles).account
  IN
  /\ At(p, "collect")
  /\ IF TargetIsTop(n, a) THEN Move(p, "info")
     ELSE /\ Len(sessions[p].bundles) < MaxBundles
          /\ sessions' = [sessions EXCEPT ![p].bundles = Append(@, Bundle(n, a))]
  /\ UNCHANGED <<held, forgotten, lockedOut, breaks>>

\* StartInfo: both have the same root account here.
SendInfo(p) ==
  /\ At(p, "info")
  /\ Move(p, "post")
  /\ UNCHANGED <<held, forgotten, lockedOut, breaks>>

\* postBundle for the last bundle that is left, and the peer's bundle_save.
PostBundle(p) ==
  LET bundle == Last(sessions[p].bundles) IN
  /\ At(p, "post")
  /\ sessions[p].bundles # <<>>
  /\ ValidateAndSave(sessions[p].to, bundle.account, bundle.version)
  /\ sessions' = [sessions EXCEPT ![p].bundles = Front(@)]
  /\ UNCHANGED <<lockedOut, breaks>>

\* All are sent, and the session is closed.
EndRecovery(p) ==
  /\ At(p, "post")
  /\ sessions[p].bundles = <<>>
  /\ sessions' = [sessions EXCEPT ![p] = NoSession]
  /\ UNCHANGED <<held, forgotten, lockedOut, breaks>>

-----------------------------------------------------------------------------
\* The connection breaks: both readers end.
Break(p) ==
  /\ ~At(p, "none")
  /\ breaks < MaxBreaks
  /\ breaks' = breaks + 1
  /\ sessions' = [sessions EXCEPT ![p] = NoSession]
  /\ UNCHANGED <<held, forgotten, lockedOut>>

\* A node restarts: its sessions end, and it locks nobody out.
Restart(n) ==
  /\ breaks < MaxBreaks
  /\ breaks' = breaks + 1
  /\ sessions' = [p \in Dials |-> IF n \in {p[1], p[2]} THEN NoSession ELSE sessions[p]]
  /\ lockedOut' = {p \in lockedOut : p[1] # n}
  /\ UNCHANGED <<held, forgotten>>

Step(p) ==
  \/ PeerAuth(p) \/ StartAuth(p) \/ StartComms(p) \/ PeerRestricted(p)
  \/ BeginRecovery(p) \/ Collect(p) \/ SendInfo(p) \/ PostBundle(p) \/ EndRecovery(p)

\* What the two nodes of p do next, of which at allows only one.
Proceed(p) == Dial(p) \/ Step(p) \/ Exchange(p)

Other(p, n) == IF n = p[1] THEN p[2] ELSE p[1]

Remember ==
  since' = [p \in Dials |->
              IF sessions'[p].at = "none" THEN {}
              ELSE since[p] \cup {n \in {p[1], p[2]} : ~Restricts(n, Other(p, n))}]

RecoveryNext ==
  /\ \/ \E n \in Nodes, a \in TreeAccounts : Publish(n, a)
     \/ \E p \in Dials : Proceed(p) \/ AskUninvited(p) \/ Break(p)
     \/ \E n \in Nodes : Restart(n)
  /\ Remember

\* StartOutbound keeps dialling, handlers and goroutines run, an answer comes
\* unless the connection breaks, and a session that stays open syncs.
Fairness == \A p \in Dials : WF_recoveryVars(Proceed(p) /\ Remember)

RecoverySpec == RecoveryInit /\ [][RecoveryNext]_recoveryVars /\ Fairness

-----------------------------------------------------------------------------
(***************************************************************************)
(* Properties.                                                             *)
(***************************************************************************)
BundleType == [account : TreeAccounts \cup {Nobody}, version : Nat]

RecoveryTypeOK ==
  /\ held \in [Nodes -> [TreeAccounts -> Nat]]
  /\ \A n \in Nodes, a \in TreeAccounts : held[n][a] <= Len(Invites[a])
  /\ sessions \in [Dials -> [at : Steps, restricts : SUBSET Nodes, by : Nodes \cup {Nobody},
                             to : Nodes \cup {Nobody}, bundles : Seq(BundleType)]]
  /\ \A p \in Dials : sessions[p].at \in {"recover", "collect", "info", "post"} =>
       {sessions[p].by, sessions[p].to} = {p[1], p[2]}
  /\ forgotten \in [Nodes -> SUBSET TreeAccounts]
  /\ lockedOut \subseteq Dials
  /\ breaks \in 0..MaxBreaks
  /\ since \in [Dials -> SUBSET Nodes]

Recovering(p) == sessions[p].at \in {"recover", "collect", "info", "post"}

\* Each side decides by itself and at a moment of its own whether the other is
\* restricted, and acts on both decisions later, when its tree may be another.  Yet a
\* normal session has two sides, and a recovery one, that would have let in the other at
\* some moment of this very session: no decision is left over from an earlier one, or
\* taken for the other's.  Only whoever asks by peer_restricted uninvited is sent the
\* bundle of an inviter without it.
OnlyMembersGetBundles ==
  \A p \in Dials :
    /\ Recovering(p) =>
         sessions[p].by \in since[p] \/ (sessions[p].by = p[2] /\ p[1] \in Askers)
    /\ At(p, "comms") => {p[1], p[2]} \subseteq since[p]

\* Node n has the newest bundle of the root that there is, and it invites n.
InvitedByRoot(n) ==
  /\ \A m \in Nodes : held[m][Root] <= held[n][Root]
  /\ n \in InvitedBy(Content(n), Root)

IsIn(n, m) == InvitedByRoot(n) => Knows(m, n) \/ Public(m)

\* startrecovery.go, "send all bundles to remote peer": sooner or later each node
\* that the root invites, and knows it, is in the tree of each peer it dials or is
\* dialled by, unless somebody is locked out or the tree is public, in which nobody is
\* restricted; also after invites were withdrawn and given again.
InvitedGetsIn ==
  []<>(lockedOut # {} \/ \A p \in Dials : IsIn(p[1], p[2]) /\ IsIn(p[2], p[1]))

\* startauth.go: "we dont want to send private data to this peer unless we are a
\* member".  Nobody is sent the bundles of a recovery who was not let in.
MembersGetBundles == \A p \in Dials : Recovering(p) => sessions[p].by \in since[p]

\* The same of the moment: whoever takes part in a normal session is a member.
SessionsOfMembers ==
  \A p \in Dials : At(p, "comms") => ~Restricts(p[1], p[2]) /\ ~Restricts(p[2], p[1])

\* startrecovery.go: "loop upwards through inviters and send all bundles to
\* remote peer".
LoopsUpwards ==
  \A p \in Dials : \A i \in 2..Len(sessions[p].bundles) :
    At(p, "collect") =>
      sessions[p].bundles[i].account = Inviter(sessions[p].by, sessions[p].bundles[i - 1].account)

=============================================================================
