---------------------------- MODULE AccountProofs ----------------------------
(***************************************************************************)
(* Proofs about what a node keeps of the accounts: whose bundles it may    *)
(* get (Recovery), the names they registered (Names), the documents of     *)
(* their content (DocStore), the tree of their timestamps (Merklehead) and *)
(* the records of who invited whom (InviteTree).  The five share no state  *)
(* and no names, so they stand side by side.  What is recursive in them is *)
(* (but for Merklehead) a recursive function over the naturals; the first  *)
(* part of this module has lemmas that such a function exists, and that    *)
(* what its steps keep it has.                                             *)
(***************************************************************************)
EXTENDS Recovery, Names, DocStore, Merklehead, InviteTree, WellFoundedInduction,
  NaturalsInduction, FiniteSetTheorems, SequenceTheorems, TLAPS

-----------------------------------------------------------------------------
(***************************************************************************)
(* Induction: the least number that is a counterexample; recursive         *)
(* functions over the naturals, and over 0..n.                             *)
(***************************************************************************)

\* A set of naturals that is not empty has a least element: induction is done
\* with the least counterexample.
LEMMA LeastNatural ==
  ASSUME NEW T, T \subseteq Nat, T # {}
  PROVE  \E m \in T : \A k \in T : m <= k
<1>1. \E m \in T : \A k \in T : ~ (<<k, m>> \in OpToRel(<, Nat))
  BY NatLessThanWellFounded, WFMin
<1>2. PICK m \in T : \A k \in T : ~ (<<k, m>> \in OpToRel(<, Nat))
  BY <1>1
<1>3. \A k \in T : ~ (k < m)
  BY <1>2 DEF OpToRel
<1>4. QED
  BY <1>3

\* f runs from b through n steps of G.
Runs(G, b, n, f) ==
  f[0] = b /\ \A k \in Nat : k < n => f[k + 1] = G[<<k, f[k]>>]

\* Two runs of the same steps agree as far as both go.
LEMMA RunsAgree ==
  ASSUME NEW b, NEW G, NEW n \in Nat, NEW m \in Nat,
         NEW f, Runs(G, b, n, f), NEW g, Runs(G, b, m, g)
  PROVE  \A k \in Nat : k <= n /\ k <= m => f[k] = g[k]
<1> DEFINE T == {k \in Nat : k <= n /\ k <= m /\ f[k] # g[k]}
<1> SUFFICES ASSUME T # {} PROVE FALSE
  OBVIOUS
<1>1. PICK k \in T : \A j \in T : k <= j
  BY LeastNatural
<1>2. k # 0
  BY DEF Runs
<1>3. /\ k - 1 \in Nat /\ k - 1 < n /\ k - 1 < m /\ (k - 1) + 1 = k
  BY <1>2
<1>4. f[k - 1] = g[k - 1]
  BY <1>1, <1>3
<1>5. f[k] = G[<<k - 1, f[k - 1]>>] /\ g[k] = G[<<k - 1, g[k - 1]>>]
  BY <1>3 DEF Runs
<1>6. QED
  BY <1>4, <1>5

\* There is a run of any length.
LEMMA SomeRuns ==
  ASSUME NEW X, NEW b \in X, NEW G \in [Nat \X X -> X], NEW n \in Nat
  PROVE  \E f \in [Nat -> X] : Runs(G, b, n, f)
<1> DEFINE T == {k \in Nat : \A f \in [Nat -> X] : ~Runs(G, b, k, f)}
<1>1. T = {}
  <2> SUFFICES ASSUME T # {} PROVE FALSE
    OBVIOUS
  <2>1. PICK k \in T : \A j \in T : k <= j
    BY LeastNatural
  <2>2. CASE k = 0
    <3>1. [i \in Nat |-> b] \in [Nat -> X] /\ Runs(G, b, 0, [i \in Nat |-> b])
      BY DEF Runs
    <3>2. QED
      BY <3>1, <2>2
  <2>3. CASE k # 0
    <3>1. k - 1 \in Nat /\ k - 1 \notin T
      BY <2>1, <2>3
    <3>2. PICK f \in [Nat -> X] : Runs(G, b, k - 1, f)
      BY <3>1
    <3> DEFINE g == [f EXCEPT ![k] = G[<<k - 1, f[k - 1]>>]]
    <3>3. g \in [Nat -> X]
      BY <3>1
    <3>4. g[0] = b
      BY <2>3, <3>2 DEF Runs
    <3>5. \A i \in Nat : i < k => g[i + 1] = G[<<i, g[i]>>]
      <4> SUFFICES ASSUME NEW i \in Nat, i < k PROVE g[i + 1] = G[<<i, g[i]>>]
        OBVIOUS
      <4>1. g[i] = f[i]
        OBVIOUS
      <4>2. CASE i = k - 1
        BY <4>1, <4>2
      <4>3. CASE i # k - 1
        <5>1. i < k - 1 /\ i + 1 # k
          BY <4>3
        <5>2. QED
          BY <4>1, <5>1, <3>2 DEF Runs
      <4>4. QED
        BY <4>2, <4>3
    <3>6. QED
      BY <3>3, <3>4, <3>5 DEF Runs
  <2>4. QED
    BY <2>2, <2>3
<1>2. QED
  BY <1>1

\* The steps in X: from a number and a value to the next value.
StepsOf(X) == [Nat \X X -> X]

\* There is a function over the naturals that starts at b and follows G.
HasRun(X, b, G) ==
  \E f \in [Nat -> X] : f[0] = b /\ \A k \in Nat : f[k + 1] = G[<<k, f[k]>>]

\* A function over the naturals may be defined by its value at 0 and by a step
\* from each value to the next.
LEMMA RecursionOnNat ==
  ASSUME NEW X, NEW b \in X, NEW G \in StepsOf(X)
  PROVE  HasRun(X, b, G)
<1> USE DEF StepsOf
<1>1. PICK run \in [Nat -> [Nat -> X]] : \A n \in Nat : Runs(G, b, n, run[n])
  <2> DEFINE r == [n \in Nat |-> CHOOSE f \in [Nat -> X] : Runs(G, b, n, f)]
  <2>1. \A n \in Nat : r[n] \in [Nat -> X] /\ Runs(G, b, n, r[n])
    BY SomeRuns
  <2> HIDE DEF r
  <2>2. [n \in Nat |-> r[n]] \in [Nat -> [Nat -> X]]
    BY <2>1
  <2>3. QED
    BY <2>1, <2>2
<1> DEFINE F == [n \in Nat |-> run[n][n]]
<1>2. F \in [Nat -> X]
  OBVIOUS
<1>3. F[0] = b
  BY <1>1 DEF Runs
<1>4. ASSUME NEW k \in Nat PROVE F[k + 1] = G[<<k, F[k]>>]
  <2>1. run[k + 1][k] = run[k][k]
    <3>1. Runs(G, b, k + 1, run[k + 1]) /\ Runs(G, b, k, run[k])
      BY <1>1
    <3>2. QED
      BY <3>1, RunsAgree
  <2>2. run[k + 1][k + 1] = G[<<k, run[k + 1][k]>>]
    BY <1>1 DEF Runs
  <2>3. QED
    BY <2>1, <2>2
<1>5. QED
  BY <1>2, <1>3, <1>4 DEF HasRun

\* G's first n steps, as a function that gives it all that a recursive function
\* over 0..n is defined from.
Loop(b, step, n, f) ==
  f = [k \in 0..n |-> IF k = 0 THEN b ELSE step[<<k, f[k - 1]>>]]

\* There is a function over 0..n that starts at b and follows step.
HasLoop(X, b, step, n) == \E f \in [0..n -> X] : Loop(b, step, n, f)

\* So may a function over 0..n.
LEMMA LoopExists ==
  ASSUME NEW X, NEW b \in X, NEW n \in Nat, NEW step \in [(1..n) \X X -> X]
  PROVE  HasLoop(X, b, step, n)
<1> DEFINE G == [p \in Nat \X X |-> IF p[1] < n THEN step[<<p[1] + 1, p[2]>>] ELSE p[2]]
<1>1. G \in StepsOf(X)
  BY DEF StepsOf
<1>2. \A k \in Nat : k < n => \A x \in X : G[<<k, x>>] = step[<<k + 1, x>>]
  OBVIOUS
<1> HIDE DEF G
<1>3. PICK f \in [Nat -> X] : f[0] = b /\ \A k \in Nat : f[k + 1] = G[<<k, f[k]>>]
  <2>1. HasRun(X, b, G)
    BY <1>1, RecursionOnNat
  <2>2. QED
    BY <2>1 DEF HasRun
<1> DEFINE g == [k \in 0..n |-> f[k]]
<1>4. ASSUME NEW k \in 0..n, k # 0 PROVE g[k] = step[<<k, g[k - 1]>>]
  <2>1. k - 1 \in Nat /\ (k - 1) + 1 = k /\ k - 1 < n /\ k - 1 \in 0..n
    BY <1>4
  <2>2. f[k] = G[<<k - 1, f[k - 1]>>]
    BY <1>3, <2>1
  <2>3. G[<<k - 1, f[k - 1]>>] = step[<<k, f[k - 1]>>]
    BY <1>2, <2>1
  <2>4. QED
    BY <2>1, <2>2, <2>3
<1>5. g \in [0..n -> X] /\ g[0] = b
  BY <1>3
<1>6. g = [k \in 0..n |-> IF k = 0 THEN b ELSE step[<<k, g[k - 1]>>]]
  BY <1>3, <1>4
<1>7. QED
  BY <1>5, <1>6 DEF HasLoop, Loop

\* What holds at 0, and at each number up to n if it holds at the one before,
\* holds at n.
LEMMA Ascends ==
  ASSUME NEW n \in Nat, NEW S, 0 \in S, \A k \in 1..n : k - 1 \in S => k \in S
  PROVE  n \in S
<1> DEFINE T == {k \in Nat : k <= n /\ k \notin S}
<1>1. T = {}
  <2> SUFFICES ASSUME T # {} PROVE FALSE
    OBVIOUS
  <2>1. PICK k \in T : \A j \in T : k <= j
    BY LeastNatural
  <2>2. k # 0 /\ k \in 1..n /\ k - 1 \in Nat /\ k - 1 \notin T
    BY <2>1
  <2>3. QED
    BY <2>2
<1>2. QED
  BY <1>1

\* A loop that starts in P and whose every round stays there ends in P.
LEMMA LoopEnds ==
  ASSUME NEW P, NEW n \in Nat, NEW b \in P, NEW step \in [(1..n) \X P -> P],
         NEW after, after[0] = b,
         \A k \in 1..n : after[k - 1] \in P => after[k] = step[<<k, after[k - 1]>>]
  PROVE  after[n] \in P
<1> DEFINE S == {k \in Nat : after[k] \in P}
<1>1. 0 \in S
  OBVIOUS
<1>2. ASSUME NEW k \in 1..n, k - 1 \in S PROVE k \in S
  <2>1. after[k] = step[<<k, after[k - 1]>>] /\ k \in Nat
    BY <1>2
  <2>2. QED
    BY <1>2, <2>1
<1>3. n \in S
  BY <1>1, <1>2, Ascends
<1>4. QED
  BY <1>3

-----------------------------------------------------------------------------
(***************************************************************************)
(* Recovery.                                                               *)
(***************************************************************************)

\* The assumption on the constants of Recovery.
TreeConstants == ConstantsAssumption

\* The bundles that a node may hold, one version of each account's at most.
Bundles == {b \in [TreeAccounts -> Nat] : \A a \in TreeAccounts : b[a] <= Len(Invites[a])}

\* One level more.
Invited(bundles, above) == above \cup UNION {InvitedBy(bundles, a) : a \in above}

\* The accounts invited by accounts of the tree are accounts.
LEMMA InvitedType ==
  ASSUME TreeConstants, NEW bundles \in Bundles, NEW above \in SUBSET TreeAccounts
  PROVE  Invited(bundles, above) \in SUBSET TreeAccounts
<1>1. ASSUME NEW a \in TreeAccounts PROVE InvitedBy(bundles, a) \subseteq TreeAccounts
  <2>1. CASE bundles[a] = 0
    BY <2>1 DEF InvitedBy
  <2>2. CASE bundles[a] # 0
    <3>1. bundles[a] \in 1..Len(Invites[a]) /\ Invites[a] \in Seq(SUBSET Nodes)
      BY <2>2 DEF Bundles, TreeConstants, ConstantsAssumption
    <3>2. Invites[a][bundles[a]] \subseteq Nodes
      BY <3>1
    <3>3. QED
      BY <3>2, <2>2 DEF InvitedBy, TreeAccounts
  <2>3. QED
    BY <2>1, <2>2
<1>2. QED
  BY <1>1 DEF Invited

\* UpTo is what its recursive definition says: the root, and one level more
\* with each step.
LEMMA TreeLevels ==
  ASSUME TreeConstants, NEW bundles \in Bundles
  PROVE  /\ UpTo(bundles) \in [Nat -> SUBSET TreeAccounts]
         /\ UpTo(bundles)[0] = {Root}
         /\ \A k \in Nat : UpTo(bundles)[k + 1] = Invited(bundles, UpTo(bundles)[k])
<1> DEFINE X == SUBSET TreeAccounts
           G == [p \in Nat \X X |-> Invited(bundles, p[2])]
           F(g) == [k \in Nat |->
                      IF k = 0 THEN {Root}
                      ELSE LET above == g[k - 1]
                           IN  above \cup UNION {InvitedBy(bundles, a) : a \in above}]
<1>1. G \in StepsOf(X) /\ {Root} \in X
  BY InvitedType DEF TreeAccounts, StepsOf
<1> HIDE DEF X, G, F
<1>2. PICK f \in [Nat -> X] : f[0] = {Root} /\ \A k \in Nat : f[k + 1] = G[<<k, f[k]>>]
  <2>1. HasRun(X, {Root}, G)
    BY <1>1, RecursionOnNat
  <2>2. QED
    BY <2>1 DEF HasRun
<1>3. f = F(f)
  <2>1. ASSUME NEW k \in Nat, k # 0 PROVE f[k] = Invited(bundles, f[k - 1])
    <3>1. k - 1 \in Nat /\ (k - 1) + 1 = k
      BY <2>1
    <3>2. f[k] = G[<<k - 1, f[k - 1]>>]
      BY <3>1, <1>2
    <3>3. QED
      BY <3>1, <3>2 DEF G
  <2>2. QED
    BY <2>1, <1>2 DEF Invited, F
<1>4. UpTo(bundles) = F(UpTo(bundles))
  BY <1>3, Zenon DEF UpTo, F
<1> DEFINE g == UpTo(bundles)
<1> HIDE DEF g
<1>5. g = F(g)
  BY <1>4 DEF g
<1>6. g[0] = {Root}
  BY <1>5 DEF F
<1>7. ASSUME NEW k \in Nat PROVE g[k + 1] = Invited(bundles, g[k])
  BY <1>5 DEF Invited, F
<1>8. g \in [Nat -> X]
  <2> DEFINE T == {k \in Nat : g[k] \notin X}
  <2>1. T = {}
    <3> SUFFICES ASSUME T # {} PROVE FALSE
      OBVIOUS
    <3>1. PICK k \in T : \A j \in T : k <= j
      BY LeastNatural
    <3>2. k # 0
      BY <1>6, <1>1
    <3>3. k - 1 \in Nat /\ (k - 1) + 1 = k /\ g[k - 1] \in X
      BY <3>1, <3>2
    <3>4. g[k] = Invited(bundles, g[k - 1])
      BY <3>3, <1>7
    <3>5. g[k] \in X
      BY <3>3, <3>4, InvitedType DEF X
    <3>6. QED
      BY <3>1, <3>5
  <2>2. QED
    BY <2>1, <1>5 DEF F
<1>9. QED
  BY <1>6, <1>7, <1>8 DEF X, g

\* The depth of a tree is a number of levels.
LEMMA DepthType == ASSUME TreeConstants PROVE Depth \in Nat
<1>1. IsFiniteSet(Nodes)
  BY DEF TreeConstants, ConstantsAssumption
<1>2. QED
  BY <1>1, FS_CardinalityType DEF Depth

\* The inviter that a node finds for an account is an account, or nobody.
LEMMA InviterInTree ==
  ASSUME TreeConstants, NEW n \in Nodes, Content(n) \in Bundles, NEW a \in TreeAccounts
  PROVE  Inviter(n, a) \in TreeAccounts \cup {Nobody}
<1>1. CASE ~Knows(n, a) \/ a = Root
  BY <1>1 DEF Inviter
<1>2. CASE Knows(n, a) /\ a # Root
  <2> DEFINE c == Content(n)
             f == UpTo(c)
             T == {k \in Nat : a \in f[k]}
             least(k) == k \in 0..Depth /\ a \in f[k] /\ \A j \in 0..(k - 1) : a \notin f[j]
             l == Level(n, a)
  <2>1. /\ f \in [Nat -> SUBSET TreeAccounts] /\ f[0] = {Root}
        /\ \A k \in Nat : f[k + 1] = Invited(c, f[k])
    BY TreeLevels
  <2>2. Depth \in Nat /\ a \in f[Depth]
    BY <1>2, DepthType DEF Knows, Tree
  <2>3. l = CHOOSE k \in 0..Depth : a \in f[k] /\ \A j \in 0..(k - 1) : a \notin f[j]
    BY DEF Level
  <2> HIDE DEF f, l
  <2>4. PICK m \in T : \A k \in T : m <= k
    BY <2>2, LeastNatural
  <2>5. least(m)
    BY <2>2, <2>4
  <2>6. least(l)
    BY <2>3, <2>5
  <2>7. l - 1 \in Nat /\ (l - 1) + 1 = l /\ a \notin f[l - 1]
    <3>1. l # 0
      BY <1>2, <2>1, <2>6
    <3>2. QED
      BY <2>2, <2>6, <3>1
  <2>8. a \in Invited(c, f[l - 1])
    BY <2>1, <2>6, <2>7
  <2>9. \E b \in f[l - 1] : a \in InvitedBy(c, b)
    BY <2>7, <2>8 DEF Invited
  <2>10. Inviter(n, a) \in f[l - 1]
    BY <1>2, <2>9 DEF Inviter, f, l
  <2>11. QED
    BY <2>1, <2>7, <2>10
<1>3. QED
  BY <1>1, <1>2

-----------------------------------------------------------------------------
\* What a recovery sends: a version of an account's bundle that there is.
Sendable == {b \in BundleType : b.account # Nobody => b.version <= Len(Invites[b.account])}

\* Bundles on their way are of versions that there are.
SessionsFit ==
  \A p \in Dials :
    /\ sessions[p].bundles \in Seq(Sendable)
    /\ At(p, "collect") => sessions[p].bundles # <<>>

\* The inductive invariant of Recovery behind its types.
RecoveryTyped == RecoveryTypeOK /\ SessionsFit

\* What a step does to the bundles that a node had, and to those it forgot.
HeldTyped ==
  /\ held' \in [Nodes -> Bundles]
  /\ forgotten' \in [Nodes -> SUBSET TreeAccounts]

\* What a node holds is a version, or none, of each bundle.
LEMMA HeldBundles ==
  ASSUME TreeConstants, RecoveryTypeOK, NEW n \in Nodes
  PROVE  held[n] \in Bundles
  BY DEF RecoveryTypeOK, Bundles

\* So is what it holds without what it forgot.
LEMMA ContentBundles ==
  ASSUME TreeConstants, RecoveryTypeOK, NEW n \in Nodes
  PROVE  Content(n) \in Bundles
<1>1. \A a \in TreeAccounts : held[n][a] \in Nat /\ held[n][a] <= Len(Invites[a])
  BY DEF RecoveryTypeOK
<1>2. \A a \in TreeAccounts : 0 <= Len(Invites[a])
  BY DEF TreeConstants, ConstantsAssumption
<1>3. QED
  BY <1>1, <1>2 DEF Content, Bundles

\* A dial is from a node to another.
LEMMA EndsOfDial ==
  ASSUME TreeConstants, NEW p \in Dials
  PROVE  /\ p[1] \in Nodes /\ p[2] \in Nodes /\ p[1] # p[2]
         /\ Nobody \notin Nodes /\ Nobody \notin TreeAccounts /\ Nodes \subseteq TreeAccounts
  BY DEF TreeConstants, ConstantsAssumption, TreeAccounts

\* Save takes a newer bundle of an account of the tree, and forgets others.
LEMMA SaveTyped ==
  ASSUME TreeConstants, RecoveryTypeOK, NEW n \in Nodes, NEW a, NEW v \in Nat,
         a \in TreeAccounts => v <= Len(Invites[a]),
         ValidateAndSave(n, a, v)
  PROVE  HeldTyped
<1>0. /\ held \in [Nodes -> [TreeAccounts -> Nat]] /\ forgotten \in [Nodes -> SUBSET TreeAccounts]
      /\ \A m \in Nodes : held[m] \in Bundles
  BY HeldBundles DEF RecoveryTypeOK
<1>1. CASE a \in TreeAccounts /\ v > held[n][a] /\ Knows(n, a)
  <2>1. held' = [held EXCEPT ![n][a] = v]
    BY <1>1 DEF ValidateAndSave
  <2>2. PICK lost \in SUBSET {b \in TreeAccounts \ Tree(n) : Content(n)[b] > 0} :
          forgotten' = [forgotten EXCEPT ![n] = (@ \ {a}) \cup lost]
    BY <1>1 DEF ValidateAndSave
  <2>3. lost \subseteq TreeAccounts
    OBVIOUS
  <2>4. forgotten' \in [Nodes -> SUBSET TreeAccounts]
    BY <1>0, <2>2, <2>3
  <2>5. ASSUME NEW m \in Nodes PROVE held'[m] \in Bundles
    <3>1. CASE m = n
      BY <1>0, <1>1, <2>1, <3>1 DEF Bundles
    <3>2. CASE m # n
      BY <1>0, <2>1, <3>2 DEF Bundles
    <3>3. QED
      BY <3>1, <3>2
  <2>6. held' = [m \in Nodes |-> held'[m]]
    BY <1>0, <2>1
  <2>7. QED
    BY <2>4, <2>5, <2>6 DEF HeldTyped
<1>2. CASE ~ (a \in TreeAccounts /\ v > held[n][a] /\ Knows(n, a))
  <2>1. held' = held /\ forgotten' = forgotten
    BY <1>2 DEF ValidateAndSave
  <2>2. QED
    BY <1>0, <2>1 DEF HeldTyped
<1>3. QED
  BY <1>1, <1>2

\* Neither does a step that leaves the bundles alone change their types.
LEMMA SameTyped ==
  ASSUME TreeConstants, RecoveryTypeOK, held' = held, forgotten' = forgotten
  PROVE  HeldTyped
<1>1. /\ held \in [Nodes -> [TreeAccounts -> Nat]] /\ forgotten \in [Nodes -> SUBSET TreeAccounts]
      /\ \A m \in Nodes : held[m] \in Bundles
  BY HeldBundles DEF RecoveryTypeOK
<1>2. QED
  BY <1>1 DEF HeldTyped

\* Every step of Recovery is such a step.
LEMMA HeldStep ==
  ASSUME TreeConstants, RecoveryTyped, [RecoveryNext]_recoveryVars
  PROVE  HeldTyped
<1> USE DEF RecoveryTyped
<1>1. CASE UNCHANGED recoveryVars
  BY <1>1, SameTyped DEF recoveryVars
<1>2. ASSUME NEW n \in Nodes, NEW a \in TreeAccounts, Publish(n, a)
      PROVE  HeldTyped
  <2>1. held[n][a] \in Nat /\ Len(Invites[a]) \in Nat /\ held[n][a] < Len(Invites[a])
    BY <1>2 DEF Publish, RecoveryTypeOK, TreeConstants, ConstantsAssumption
  <2>2. QED
    BY <1>2, <2>1, SaveTyped DEF Publish
<1>3. ASSUME NEW p \in Dials, Exchange(p)
      PROVE  HeldTyped
  <2>1. PICK from \in {p[1], p[2]}, to \in {p[1], p[2]}, a \in TreeAccounts :
           ValidateAndSave(to, a, Content(from)[a])
    BY <1>3 DEF Exchange
  <2>2. from \in Nodes /\ to \in Nodes
    BY EndsOfDial
  <2>3. Content(from)[a] \in Nat /\ Content(from)[a] <= Len(Invites[a])
    BY <2>2, ContentBundles DEF Bundles
  <2>4. QED
    BY <2>1, <2>2, <2>3, SaveTyped
<1>4. ASSUME NEW p \in Dials, PostBundle(p)
      PROVE  HeldTyped
  <2> DEFINE b == Last(sessions[p].bundles)
  <2>1. b \in Sendable
    BY <1>4 DEF SessionsFit, PostBundle, Last
  <2>2. sessions[p].to \in Nodes
    <3>1. {sessions[p].by, sessions[p].to} = {p[1], p[2]}
      BY <1>4 DEF RecoveryTypeOK, PostBundle, At
    <3>2. QED
      BY <3>1, EndsOfDial
  <2>3. ValidateAndSave(sessions[p].to, b.account, b.version)
    BY <1>4 DEF PostBundle
  <2>4. b.version \in Nat /\ (b.account \in TreeAccounts => b.version <= Len(Invites[b.account]))
    BY <2>1, EndsOfDial DEF Sendable, BundleType
  <2> HIDE DEF b
  <2>5. QED
    BY <2>2, <2>3, <2>4, SaveTyped
<1>5. ASSUME NEW p \in Dials,
             Dial(p) \/ PeerAuth(p) \/ StartAuth(p) \/ StartComms(p)
             \/ AskUninvited(p) \/ PeerRestricted(p) \/ BeginRecovery(p) \/ Collect(p)
             \/ SendInfo(p) \/ EndRecovery(p) \/ Break(p)
      PROVE  HeldTyped
  <2>1. held' = held /\ forgotten' = forgotten
    BY <1>5 DEF Dial, PeerAuth, StartAuth, StartComms, AskUninvited, PeerRestricted,
                BeginRecovery, Collect, SendInfo, EndRecovery, Break
  <2>2. QED
    BY <2>1, SameTyped
<1>6. ASSUME NEW n \in Nodes, Restart(n)
      PROVE  HeldTyped
  BY <1>6, SameTyped DEF Restart
<1>7. QED
  BY <1>1, <1>2, <1>3, <1>4, <1>5, <1>6 DEF RecoveryNext, Proceed, Step

\* A session between the two ends of p.
SessionOf(p) ==
  {s \in [at : Steps, restricts : SUBSET Nodes, by : Nodes \cup {Nobody},
          to : Nodes \cup {Nobody}, bundles : Seq(Sendable)] :
     /\ s.at = "collect" => s.bundles # <<>>
     /\ s.at \in {"recover", "collect", "info", "post"} => {s.by, s.to} = {p[1], p[2]}}

\* Every session is between its two ends.
SessionsWell ==
  /\ sessions = [p \in Dials |-> sessions[p]]
  /\ \A p \in Dials : sessions[p] \in SessionOf(p)

\* The types of the sessions, each by itself.
LEMMA SessionsTyped ==
  ASSUME TreeConstants, RecoveryTyped
  PROVE  SessionsWell
  BY DEF RecoveryTyped, RecoveryTypeOK, SessionsFit, SessionOf, SessionsWell, At

\* A step to sessions that are well formed is one to a state of the right types.
LEMMA TypedBySessions ==
  ASSUME TreeConstants, HeldTyped, since' \in [Dials -> SUBSET Nodes],
         lockedOut' \subseteq Dials, breaks' \in 0..MaxBreaks, SessionsWell'
  PROVE  RecoveryTyped'
<1>1. ASSUME NEW S \in Seq(Sendable) PROVE S \in Seq(BundleType)
  BY DEF Sendable
<1>2. ASSUME NEW p \in Dials
      PROVE  sessions'[p] \in [at : Steps, restricts : SUBSET Nodes, by : Nodes \cup {Nobody},
                               to : Nodes \cup {Nobody}, bundles : Seq(BundleType)]
  BY <1>1 DEF SessionOf, SessionsWell
<1>3. QED
  BY <1>2 DEF RecoveryTyped, RecoveryTypeOK, SessionsFit, SessionOf, SessionsWell, At, Bundles,
                HeldTyped

\* A step moves one session at a time.
LEMMA OneSession ==
  ASSUME SessionsWell, NEW p \in Dials, NEW s \in SessionOf(p),
         sessions' = [sessions EXCEPT ![p] = s]
  PROVE  SessionsWell'
  BY DEF SessionsWell

\* Every step leaves the sessions well formed.
LEMMA SessionsStep ==
  ASSUME TreeConstants, RecoveryTyped, [RecoveryNext]_recoveryVars
  PROVE  SessionsWell'
<1>1. SessionsWell
  BY SessionsTyped
<1>2. CASE UNCHANGED sessions
  BY <1>1, <1>2 DEF SessionsWell
<1>3. ASSUME NEW p \in Dials, Dial(p) \/ Step(p) \/ Exchange(p) \/ AskUninvited(p) \/ Break(p)
      PROVE  SessionsWell'
  <2> DEFINE old == sessions[p]
  <2>0. old \in SessionOf(p) /\ p \in DOMAIN sessions
    BY <1>1 DEF SessionsWell
  <2>e. p[1] \in Nodes /\ p[2] \in Nodes /\ Nobody \notin Nodes
    BY EndsOfDial
  <2> USE <2>0, <2>e DEF Move, At, Steps
  <2>1. CASE Dial(p)
    <3>1. sessions' = [sessions EXCEPT ![p] = [old EXCEPT !.at = "hello"]]
      BY <2>1 DEF Dial
    <3>2. [old EXCEPT !.at = "hello"] \in SessionOf(p)
      BY DEF SessionOf
    <3>3. QED
      BY <1>1, <3>1, <3>2, OneSession
  <2>2. CASE PeerAuth(p)
    <3>1. sessions' = [sessions EXCEPT ![p] =
             [old EXCEPT !.at = "answered", !.restricts = Flagged(p[2], p[1])]]
      BY <2>2 DEF PeerAuth
    <3>2. Flagged(p[2], p[1]) \subseteq Nodes
      BY DEF Flagged
    <3>3. [old EXCEPT !.at = "answered", !.restricts = Flagged(p[2], p[1])] \in SessionOf(p)
      BY <3>2 DEF SessionOf
    <3>4. QED
      BY <1>1, <3>1, <3>3, OneSession
  <2>3. CASE StartAuth(p)
    <3>1. sessions' = [sessions EXCEPT ![p] =
             [old EXCEPT !.at = "authed", !.restricts = @ \cup Flagged(p[1], p[2])]]
      BY <2>3 DEF StartAuth
    <3>2. Flagged(p[1], p[2]) \subseteq Nodes
      BY DEF Flagged
    <3>3. [old EXCEPT !.at = "authed", !.restricts = @ \cup Flagged(p[1], p[2])] \in SessionOf(p)
      BY <3>2 DEF SessionOf
    <3>4. QED
      BY <1>1, <3>1, <3>3, OneSession
  <2>n. NoSession \in SessionOf(p)
    BY DEF NoSession, SessionOf
  <2>4. CASE StartComms(p)
    <3>1. \/ sessions' = [sessions EXCEPT ![p] = NoSession]
          \/ sessions' = [sessions EXCEPT ![p] = [old EXCEPT !.at = "asked"]]
          \/ sessions' = [sessions EXCEPT ![p] =
               [old EXCEPT !.at = "recover", !.by = p[1], !.to = p[2]]]
          \/ sessions' = [sessions EXCEPT ![p] = [old EXCEPT !.at = "comms"]]
      BY <2>4 DEF StartComms
    <3>2. /\ [old EXCEPT !.at = "asked"] \in SessionOf(p)
          /\ [old EXCEPT !.at = "comms"] \in SessionOf(p)
          /\ [old EXCEPT !.at = "recover", !.by = p[1], !.to = p[2]] \in SessionOf(p)
      BY DEF SessionOf
    <3>3. QED
      BY <1>1, <3>1, <3>2, <2>n, OneSession
  <2>5. CASE PeerRestricted(p)
    <3>1. sessions' = [sessions EXCEPT ![p] =
             [old EXCEPT !.at = "recover", !.by = p[2], !.to = p[1]]]
      BY <2>5 DEF PeerRestricted
    <3>2. [old EXCEPT !.at = "recover", !.by = p[2], !.to = p[1]] \in SessionOf(p)
      BY DEF SessionOf
    <3>3. QED
      BY <1>1, <3>1, <3>2, OneSession
  <2>6. CASE BeginRecovery(p)
    <3> DEFINE n == old.by
               top == Bundle(n, Root)
               first == Bundle(n, Inviter(n, n))
    <3>1. n \in Nodes /\ n \in TreeAccounts /\ Content(n) \in Bundles /\ Root \in TreeAccounts
      BY <2>6, ContentBundles DEF BeginRecovery, SessionOf, RecoveryTyped, TreeAccounts
    <3>2. top \in Sendable /\ first \in Sendable
      BY <3>1, InviterInTree DEF Sendable, Bundle, BundleType, Bundles
    <3>3. \/ sessions' = [sessions EXCEPT ![p] = [old EXCEPT !.at = "info", !.bundles = <<top>>]]
          \/ sessions' = [sessions EXCEPT ![p] = [old EXCEPT !.at = "collect", !.bundles = <<first>>]]
      BY <2>6 DEF BeginRecovery
    <3> HIDE DEF top, first
    <3>4. <<top>> \in Seq(Sendable) /\ <<first>> \in Seq(Sendable) /\ <<first>> # <<>>
      BY <3>2
    <3>5. old.at = "recover"
      BY <2>6 DEF BeginRecovery
    <3>6. /\ [old EXCEPT !.at = "info", !.bundles = <<top>>] \in SessionOf(p)
          /\ [old EXCEPT !.at = "collect", !.bundles = <<first>>] \in SessionOf(p)
      BY <3>4, <3>5 DEF SessionOf
    <3>7. QED
      BY <1>1, <3>3, <3>6, OneSession
  <2>7. CASE Collect(p)
    <3> DEFINE n == old.by
               a == Last(old.bundles).account
               next == Append(old.bundles, Bundle(n, a))
    <3>1. n \in Nodes /\ Content(n) \in Bundles /\ old.bundles \in Seq(Sendable) /\ old.bundles # <<>>
      BY <2>7, ContentBundles DEF Collect, SessionOf, RecoveryTyped
    <3>2. Last(old.bundles) \in Sendable
      BY <3>1 DEF Last
    <3>3. Bundle(n, a) \in Sendable
      BY <3>1, <3>2, EndsOfDial DEF Sendable, Bundle, BundleType, Bundles
    <3>4. \/ sessions' = [sessions EXCEPT ![p] = [old EXCEPT !.at = "info"]]
          \/ sessions' = [sessions EXCEPT ![p] = [old EXCEPT !.bundles = next]]
      BY <2>7 DEF Collect
    <3>5. next \in Seq(Sendable) /\ next # <<>>
      BY <3>1, <3>3
    <3> HIDE DEF next
    <3>6. old.at = "collect"
      BY <2>7 DEF Collect
    <3>7. /\ [old EXCEPT !.at = "info"] \in SessionOf(p)
          /\ [old EXCEPT !.bundles = next] \in SessionOf(p)
      BY <3>5, <3>6 DEF SessionOf
    <3>8. QED
      BY <1>1, <3>4, <3>7, OneSession
  <2>8. CASE SendInfo(p)
    <3>1. sessions' = [sessions EXCEPT ![p] = [old EXCEPT !.at = "post"]]
      BY <2>8 DEF SendInfo
    <3>2. [old EXCEPT !.at = "post"] \in SessionOf(p)
      BY <2>8 DEF SendInfo, SessionOf
    <3>3. QED
      BY <1>1, <3>1, <3>2, OneSession
  <2>9. CASE PostBundle(p)
    <3> DEFINE rest == Front(old.bundles)
    <3>1. old.bundles \in Seq(Sendable) /\ old.bundles # <<>> /\ old.at = "post"
      BY <2>9 DEF PostBundle, SessionOf
    <3>2. rest \in Seq(Sendable)
      BY <3>1 DEF Front
    <3>3. sessions' = [sessions EXCEPT ![p] = [old EXCEPT !.bundles = rest]]
      BY <2>9 DEF PostBundle
    <3> HIDE DEF rest
    <3>4. [old EXCEPT !.bundles = rest] \in SessionOf(p)
      BY <3>1, <3>2 DEF SessionOf
    <3>5. QED
      BY <1>1, <3>3, <3>4, OneSession
  <2>10. CASE EndRecovery(p) \/ Break(p)
    <3>1. sessions' = [sessions EXCEPT ![p] = NoSession]
      BY <2>10 DEF EndRecovery, Break
    <3>2. QED
      BY <1>1, <3>1, <2>n, OneSession
  <2>11. CASE Exchange(p)
    BY <2>11, <1>2 DEF Exchange
  <2>12. CASE AskUninvited(p)
    <3>1. sessions' = [sessions EXCEPT ![p] = [old EXCEPT !.at = "asked"]]
      BY <2>12 DEF AskUninvited
    <3>2. [old EXCEPT !.at = "asked"] \in SessionOf(p)
      BY DEF SessionOf
    <3>3. QED
      BY <1>1, <3>1, <3>2, OneSession
  <2>13. QED
    BY <1>3, <2>1, <2>2, <2>3, <2>4, <2>5, <2>6, <2>7, <2>8, <2>9, <2>10, <2>11, <2>12 DEF Step
<1>4. ASSUME NEW n \in Nodes, Restart(n)
      PROVE  SessionsWell'
  <2>1. \A p \in Dials : NoSession \in SessionOf(p)
    BY DEF NoSession, Steps, SessionOf
  <2>2. QED
    BY <1>1, <1>4, <2>1 DEF Restart, SessionsWell
<1>5. QED
  BY <1>2, <1>3, <1>4 DEF RecoveryNext, Proceed, Publish, recoveryVars

\* Every step keeps the types.
LEMMA RecoveryTypedStep ==
  ASSUME TreeConstants, RecoveryTyped, [RecoveryNext]_recoveryVars
  PROVE  RecoveryTyped'
<1>1. SessionsWell' /\ HeldTyped
  BY SessionsStep, HeldStep
<1>2. lockedOut' \subseteq Dials /\ breaks' \in 0..MaxBreaks
  <2>1. MaxBreaks \in Nat /\ lockedOut \subseteq Dials /\ breaks \in 0..MaxBreaks
    BY DEF RecoveryTyped, RecoveryTypeOK, TreeConstants, ConstantsAssumption
  <2>2. CASE UNCHANGED <<lockedOut, breaks>>
    BY <2>1, <2>2
  <2>3. ASSUME NEW p \in Dials, StartComms(p) \/ Break(p)
        PROVE  lockedOut' \subseteq Dials /\ breaks' \in 0..MaxBreaks
    <3>1. CASE StartComms(p)
      <4>1. lockedOut' \in {lockedOut, lockedOut \cup {p}} /\ breaks' = breaks
        BY <3>1 DEF StartComms
      <4>2. QED
        BY <2>1, <4>1
    <3>2. CASE Break(p)
      BY <2>1, <3>2 DEF Break
    <3>3. QED
      BY <2>3, <3>1, <3>2
  <2>4. ASSUME NEW n \in Nodes, Restart(n)
        PROVE  lockedOut' \subseteq Dials /\ breaks' \in 0..MaxBreaks
    BY <2>1, <2>4 DEF Restart
  <2>5. ASSUME NEW p \in Dials,
               Dial(p) \/ PeerAuth(p) \/ StartAuth(p) \/ AskUninvited(p) \/ PeerRestricted(p)
               \/ BeginRecovery(p) \/ Collect(p) \/ SendInfo(p) \/ PostBundle(p)
               \/ EndRecovery(p) \/ Exchange(p)
        PROVE  UNCHANGED <<lockedOut, breaks>>
    BY <2>5 DEF Dial, PeerAuth, StartAuth, AskUninvited, PeerRestricted, BeginRecovery, Collect,
                SendInfo, PostBundle, EndRecovery, Exchange
  <2>6. QED
    BY <2>2, <2>3, <2>4, <2>5 DEF RecoveryNext, recoveryVars, Publish, Proceed, Step
<1>3. since' \in [Dials -> SUBSET Nodes]
  <2>0. since \in [Dials -> SUBSET Nodes]
    BY DEF RecoveryTyped, RecoveryTypeOK
  <2>1. CASE UNCHANGED recoveryVars
    BY <2>0, <2>1 DEF recoveryVars
  <2>2. CASE Remember
    <3>1. ASSUME NEW p \in Dials PROVE p[1] \in Nodes /\ p[2] \in Nodes
      BY EndsOfDial
    <3>2. QED
      BY <2>0, <2>2, <3>1 DEF Remember
  <2>3. QED
    BY <2>1, <2>2 DEF RecoveryNext
<1>4. QED
  BY <1>1, <1>2, <1>3, TypedBySessions

\* The initial states have the right types.
LEMMA RecoveryTypedInit ==
  ASSUME TreeConstants, RecoveryInit
  PROVE  RecoveryTyped
<1>1. ASSUME NEW a \in TreeAccounts PROVE 0 <= Len(Invites[a])
  BY DEF TreeConstants, ConstantsAssumption
<1>2. held \in [Nodes -> [TreeAccounts -> Nat]] /\ \A n \in Nodes, a \in TreeAccounts : held[n][a] = 0
  BY DEF RecoveryInit
<1>3. 0 \in 0..MaxBreaks
  BY DEF TreeConstants, ConstantsAssumption
<1>4. <<>> \in Seq(Sendable) /\ <<>> \in Seq(BundleType)
  OBVIOUS
<1>5. \A p \in Dials : sessions[p] = NoSession
  BY DEF RecoveryInit
<1>6. RecoveryTypeOK
  BY <1>1, <1>2, <1>3, <1>4, <1>5 DEF RecoveryInit, RecoveryTypeOK, At, NoSession, Steps
<1>7. SessionsFit
  <2>1. \A p \in Dials : sessions[p].at = "none" /\ sessions[p].bundles = <<>>
    BY <1>5 DEF NoSession
  <2>2. QED
    BY <1>4, <2>1 DEF SessionsFit, At
<1>8. QED
  BY <1>6, <1>7 DEF RecoveryTyped

\* Whatever the tree of invites, the dials and the bounds: the variables of
\* Recovery have their types.
THEOREM RecoveryTypeCorrect ==
  ASSUME ConstantsAssumption
  PROVE  RecoverySpec => []RecoveryTypeOK
<1>0. TreeConstants
  BY DEF TreeConstants
<1>1. RecoveryInit => RecoveryTyped
  BY <1>0, RecoveryTypedInit
<1>2. RecoveryTyped /\ [RecoveryNext]_recoveryVars => RecoveryTyped'
  BY <1>0, RecoveryTypedStep
<1>3. RecoveryTyped => RecoveryTypeOK
  BY DEF RecoveryTyped
<1>4. QED
  BY <1>1, <1>2, <1>3, PTL DEF RecoverySpec

-----------------------------------------------------------------------------

\* Who let the other in at some moment of the session, by where it stands.  A side
\* that is not flagged let the other in when its flag was decided; a dialler that asks
\* has the listener's answer without a flag, or asks uninvited.
Entitled(p) ==
  /\ sessions[p].at \in {"answered", "authed", "asked"} /\ p[2] \notin sessions[p].restricts =>
       p[2] \in since[p]
  /\ sessions[p].at = "authed" /\ p[1] \notin sessions[p].restricts => p[1] \in since[p]
  /\ sessions[p].at = "asked" => p[2] \notin sessions[p].restricts \/ p[1] \in Askers
  /\ Recovering(p) => sessions[p].by \in since[p] \/ (sessions[p].by = p[2] /\ p[1] \in Askers)
  /\ sessions[p].at = "comms" => p[1] \in since[p] /\ p[2] \in since[p]

\* Who is not flagged lets the other in, and that is remembered as long as the
\* session is open.
Remembered(p) ==
  sessions'[p].at # "none" =>
    /\ since[p] \subseteq since'[p]
    /\ p[1] \notin Flagged(p[1], p[2]) => p[1] \in since'[p]
    /\ p[2] \notin Flagged(p[2], p[1]) => p[2] \in since'[p]

LEMMA WhatIsRemembered ==
  ASSUME TreeConstants, RecoveryTyped, Remember, NEW p \in Dials
  PROVE  Remembered(p)
<1>1. p[1] \in Nodes /\ p[2] \in Nodes /\ p[1] # p[2]
  BY EndsOfDial
<1>2. ASSUME sessions'[p].at # "none"
      PROVE  since'[p] = since[p] \cup {n \in {p[1], p[2]} : ~Restricts(n, Other(p, n))}
  BY <1>2 DEF Remember
<1>3. Other(p, p[1]) = p[2] /\ Other(p, p[2]) = p[1]
  BY <1>1 DEF Other
<1>4. /\ p[1] \notin Flagged(p[1], p[2]) => ~Restricts(p[1], p[2])
      /\ p[2] \notin Flagged(p[2], p[1]) => ~Restricts(p[2], p[1])
  BY DEF Flagged
<1>5. QED
  BY <1>2, <1>3, <1>4 DEF Remembered

\* A session that does not move stays entitled.
LEMMA StaysEntitled ==
  ASSUME NEW p \in Dials, Entitled(p), Remembered(p), sessions'[p] = sessions[p]
  PROVE  Entitled(p)'
<1>1. CASE sessions[p].at = "none"
  BY <1>1 DEF Entitled, Recovering
<1>2. CASE sessions[p].at # "none"
  BY <1>2 DEF Entitled, Recovering, Remembered
<1>3. QED
  BY <1>1, <1>2

\* A step of a session leaves it entitled.
LEMMA EntitledStep ==
  ASSUME TreeConstants, RecoveryTyped, RecoveryNext, \A q \in Dials : Entitled(q),
         NEW p \in Dials
  PROVE  Entitled(p)'
<1>1. Remembered(p)
  BY WhatIsRemembered DEF RecoveryNext
<1>2. CASE sessions'[p] = sessions[p]
  BY <1>1, <1>2, StaysEntitled
<1>3. /\ p[1] \in Nodes /\ p[2] \in Nodes /\ p[1] # p[2]
      /\ p \in DOMAIN sessions
      /\ sessions[p] \in [at : Steps, restricts : SUBSET Nodes, by : Nodes \cup {Nobody},
                          to : Nodes \cup {Nobody}, bundles : Seq(Sendable)]
  BY EndsOfDial, SessionsTyped DEF SessionsWell, SessionOf
<1>4. Entitled(p) /\ sessions[p] \in SessionOf(p)
  BY SessionsTyped DEF SessionsWell
<1>n. ASSUME sessions'[p] = NoSession PROVE Entitled(p)'
  BY <1>n DEF NoSession, Entitled, Recovering
<1>5. ASSUME Dial(p) \/ Step(p) \/ Exchange(p) \/ AskUninvited(p) \/ Break(p)
      PROVE  Entitled(p)'
  <2> USE <1>3, <1>4 DEF Move, At
  <2> DEFINE old == sessions[p]
             new == sessions'[p]
  <2>1. CASE Dial(p)
    <3>1. new.at = "hello"
      BY <2>1 DEF Dial
    <3>2. QED
      BY <3>1 DEF Entitled, Recovering
  <2>2. CASE PeerAuth(p)
    <3>1. new.at = "answered" /\ new.restricts = Flagged(p[2], p[1])
      BY <2>2 DEF PeerAuth
    <3>2. QED
      BY <3>1, <1>1 DEF Entitled, Remembered, Recovering
  <2>3. CASE StartAuth(p)
    <3>1. /\ old.at = "answered" /\ new.at = "authed"
          /\ new.restricts = old.restricts \cup Flagged(p[1], p[2])
      BY <2>3 DEF StartAuth
    <3>2. QED
      BY <3>1, <1>1 DEF Entitled, Remembered, Recovering
  <2>4. CASE StartComms(p)
    <3>1. CASE p[1] \in old.restricts /\ p[2] \in old.restricts
      BY <2>4, <3>1, <1>n DEF StartComms
    <3>2. CASE p[1] \in old.restricts /\ p[2] \notin old.restricts
      <4>1. old.at = "authed" /\ new.at = "asked" /\ new.restricts = old.restricts
        BY <2>4, <3>2 DEF StartComms
      <4>2. QED
        BY <4>1, <3>2, <1>1 DEF Entitled, Remembered, Recovering
    <3>3. CASE p[1] \notin old.restricts /\ p[2] \in old.restricts
      <4>1. /\ old.at = "authed"
            /\ sessions' = [sessions EXCEPT ![p].at = "recover", ![p].by = p[1], ![p].to = p[2]]
        BY <2>4, <3>3 DEF StartComms
      <4>2. new.at = "recover" /\ new.by = p[1]
        BY <4>1
      <4>3. QED
        BY <4>1, <4>2, <3>3, <1>1 DEF Entitled, Remembered, Recovering
    <3>4. CASE p[1] \notin old.restricts /\ p[2] \notin old.restricts
      <4>1. old.at = "authed" /\ new.at = "comms"
        BY <2>4, <3>4 DEF StartComms
      <4>2. QED
        BY <4>1, <3>4, <1>1 DEF Entitled, Remembered, Recovering
    <3>5. QED
      BY <3>1, <3>2, <3>3, <3>4
  <2>5. CASE PeerRestricted(p)
    <3>1. old.at = "asked" /\ new.at = "recover" /\ new.by = p[2]
      BY <2>5 DEF PeerRestricted
    <3>2. QED
      BY <3>1, <1>1 DEF Entitled, Remembered, Recovering
  <2>6. CASE BeginRecovery(p) \/ Collect(p) \/ SendInfo(p) \/ PostBundle(p)
    <3>1. /\ old.at \in {"recover", "collect", "info", "post"}
          /\ new.at \in {"recover", "collect", "info", "post"}
          /\ new.by = old.by
      BY <2>6 DEF BeginRecovery, Collect, SendInfo, PostBundle
    <3>2. QED
      BY <3>1, <1>1 DEF Entitled, Remembered, Recovering
  <2>7. CASE EndRecovery(p) \/ Break(p)
    BY <2>7, <1>n DEF EndRecovery, Break
  <2>8. CASE Exchange(p)
    BY <2>8, <1>2 DEF Exchange
  <2>9. CASE AskUninvited(p)
    <3>1. old.at = "authed" /\ new.at = "asked" /\ new.restricts = old.restricts /\ p[1] \in Askers
      BY <2>9 DEF AskUninvited
    <3>2. QED
      BY <3>1, <1>1 DEF Entitled, Remembered, Recovering
  <2>10. QED
    BY <1>5, <2>1, <2>2, <2>3, <2>4, <2>5, <2>6, <2>7, <2>8, <2>9 DEF Step
<1>6. ASSUME NEW q \in Dials, q # p,
             Dial(q) \/ Step(q) \/ Exchange(q) \/ AskUninvited(q) \/ Break(q)
      PROVE  sessions'[p] = sessions[p]
  <2> USE DEF Move
  <2>1. CASE Dial(q) \/ PeerAuth(q) \/ StartAuth(q) \/ PeerRestricted(q) \/ AskUninvited(q)
             \/ SendInfo(q) \/ PostBundle(q) \/ EndRecovery(q) \/ Break(q) \/ Exchange(q)
    BY <1>3, <1>6, <2>1 DEF Dial, PeerAuth, StartAuth, PeerRestricted, AskUninvited, SendInfo,
                      PostBundle, EndRecovery, Break, Exchange
  <2>2. CASE StartComms(q)
    BY <1>3, <1>6, <2>2 DEF StartComms
  <2>3. CASE BeginRecovery(q) \/ Collect(q)
    BY <1>3, <1>6, <2>3 DEF BeginRecovery, Collect
  <2>4. QED
    BY <1>6, <2>1, <2>2, <2>3 DEF Step
<1>7. ASSUME NEW n \in Nodes, Restart(n)
      PROVE  sessions'[p] \in {NoSession, sessions[p]}
  BY <1>7 DEF Restart
<1>8. QED
  BY <1>2, <1>n, <1>5, <1>6, <1>7 DEF RecoveryNext, Proceed, Publish

\* OnlyMembersGetBundles: whatever the tree of invites and whoever is invited and
\* disinvited meanwhile, a normal session has two sides that let in each other at some
\* moment of it, and a recovery one that let in the one it is for, or was asked
\* for it uninvited (startauth.go, rpc_peer_auth.go, rpc_peer_restricted.go).
THEOREM RecoveryOnlyMembers ==
  ASSUME ConstantsAssumption
  PROVE  RecoverySpec => []OnlyMembersGetBundles
<1>0. TreeConstants
  BY DEF TreeConstants
<1> DEFINE Inv == RecoveryTyped /\ \A p \in Dials : Entitled(p)
<1>1. RecoveryInit => Inv
  BY <1>0, RecoveryTypedInit DEF RecoveryInit, NoSession, Entitled, Recovering
<1>2. Inv /\ [RecoveryNext]_recoveryVars => Inv'
  <2> SUFFICES ASSUME RecoveryTyped, \A p \in Dials : Entitled(p), [RecoveryNext]_recoveryVars
               PROVE  RecoveryTyped' /\ \A p \in Dials : Entitled(p)'
    OBVIOUS
  <2>1. CASE RecoveryNext
    BY <1>0, <2>1, RecoveryTypedStep, EntitledStep
  <2>2. CASE UNCHANGED recoveryVars
    <3>1. \A p \in Dials : Entitled(p)'
      BY <2>2 DEF recoveryVars, Entitled, Recovering
    <3>2. QED
      BY <1>0, <3>1, RecoveryTypedStep
  <2>3. QED
    BY <2>1, <2>2
<1>3. Inv => OnlyMembersGetBundles
  BY DEF OnlyMembersGetBundles, At, Entitled
<1>4. QED
  BY <1>1, <1>2, <1>3, PTL DEF RecoverySpec
-----------------------------------------------------------------------------
(***************************************************************************)
(* Names.                                                                  *)
(***************************************************************************)

\* A registration.
Record == [owner : Owners, timestamp : Times, conflict : BOOLEAN]

\* The registrations of one name.
Lists == Seq(Record)

\* A younger record that stands before a record of somebody comes after
\* another record of theirs.
Ordered(s) ==
  \A j, k \in 1..Len(s) :
    j < k /\ s[j].timestamp > s[k].timestamp =>
      \E i \in 1..Len(s) : i < j /\ s[i].owner = s[k].owner

\* The fields of a registration that are compared.
LEMMA RecordFields ==
  ASSUME NEW r \in Record
  PROVE  r.owner \in Owners /\ r.timestamp \in Int
BY DEF Record, Times

\* One element more.
LEMMA Appended ==
  ASSUME NEW X, NEW w \in Seq(X), NEW r \in X
  PROVE  /\ Append(w, r) \in Seq(X)
         /\ Len(w) \in Nat /\ Len(Append(w, r)) = Len(w) + 1
         /\ \A j \in 1..Len(w) : Append(w, r)[j] = w[j]
         /\ Append(w, r)[Len(w) + 1] = r
OBVIOUS

\* w is what Without leaves of the first k records of s.
WithoutUpTo(s, owner, k, w) ==
  /\ w \in Lists
  /\ \A i \in 1..k : s[i].owner # owner => \E p \in 1..Len(w) : w[p] = s[i]
  /\ \A j \in 1..Len(w) : \E m \in 1..k :
       /\ w[j] = s[m] /\ s[m].owner # owner
       /\ \A i \in 1..(m - 1) : s[i].owner # owner =>
            \E p \in 1..(j - 1) : w[p].owner = s[i].owner

\* One record more of s.
LEMMA WithoutStep ==
  ASSUME NEW s \in Lists, NEW owner, NEW k \in 1..Len(s),
         NEW w, WithoutUpTo(s, owner, k - 1, w)
  PROVE  WithoutUpTo(s, owner, k, IF s[k].owner = owner THEN w ELSE Append(w, s[k]))
<1>1. CASE s[k].owner = owner
  BY <1>1 DEF WithoutUpTo
<1>2. CASE s[k].owner # owner
  <2> DEFINE v == Append(w, s[k])
  <2>1. w \in Seq(Record) /\ s[k] \in Record
    BY DEF WithoutUpTo, Lists
  <2>2. /\ v \in Seq(Record)
        /\ Len(w) \in Nat /\ Len(v) = Len(w) + 1
        /\ \A j \in 1..Len(w) : v[j] = w[j]
        /\ v[Len(w) + 1] = s[k]
    BY <2>1, Appended
  <2> HIDE DEF v
  <2>3. ASSUME NEW i \in 1..k, s[i].owner # owner PROVE \E p \in 1..Len(v) : v[p] = s[i]
    <3>1. CASE i = k
      BY <2>2, <3>1
    <3>2. CASE i # k
      <4>1. i \in 1..(k - 1)
        BY <3>2
      <4>2. PICK p \in 1..Len(w) : w[p] = s[i]
        BY <2>3, <4>1 DEF WithoutUpTo
      <4>3. QED
        BY <2>2, <4>2
    <3>3. QED
      BY <3>1, <3>2
  <2>4. ASSUME NEW j \in 1..Len(v)
        PROVE \E m \in 1..k :
                /\ v[j] = s[m] /\ s[m].owner # owner
                /\ \A i \in 1..(m - 1) : s[i].owner # owner =>
                     \E p \in 1..(j - 1) : v[p].owner = s[i].owner
    <3>1. CASE j = Len(w) + 1
      <4>1. \A i \in 1..(k - 1) : s[i].owner # owner =>
              \E p \in 1..(j - 1) : v[p].owner = s[i].owner
        <5>1. ASSUME NEW i \in 1..(k - 1), s[i].owner # owner
              PROVE  \E p \in 1..(j - 1) : v[p].owner = s[i].owner
          <6>1. PICK p \in 1..Len(w) : w[p] = s[i]
            BY <5>1 DEF WithoutUpTo
          <6>2. p \in 1..(j - 1) /\ v[p] = s[i]
            BY <2>2, <3>1, <6>1
          <6>3. QED
            BY <6>2
        <5>2. QED
          BY <5>1
      <4>2. k \in 1..k /\ v[j] = s[k]
        BY <2>2, <3>1
      <4>3. QED
        BY <1>2, <4>1, <4>2
    <3>2. CASE j # Len(w) + 1
      <4>1. j \in 1..Len(w)
        BY <2>2, <3>2
      <4>2. PICK m \in 1..(k - 1) :
              /\ w[j] = s[m] /\ s[m].owner # owner
              /\ \A i \in 1..(m - 1) : s[i].owner # owner =>
                   \E p \in 1..(j - 1) : w[p].owner = s[i].owner
        BY <4>1 DEF WithoutUpTo
      <4>3. \A p \in 1..(j - 1) : v[p] = w[p]
        BY <2>2, <4>1
      <4>4. m \in 1..k /\ v[j] = s[m]
        BY <2>2, <4>1, <4>2
      <4>5. QED
        BY <4>2, <4>3, <4>4
    <3>3. QED
      BY <3>1, <3>2
  <2>5. WithoutUpTo(s, owner, k, v)
    BY <2>2, <2>3, <2>4 DEF WithoutUpTo, Lists
  <2>6. QED
    BY <1>2, <2>5 DEF v
<1>3. QED
  BY <1>1, <1>2

\* Without leaves what the loop of its definition leaves.
LEMMA WithoutPrefix ==
  ASSUME NEW s \in Lists, NEW owner
  PROVE  WithoutUpTo(s, owner, Len(s), Without(s, owner))
<1> DEFINE step == [p \in (1..Len(s)) \X Lists |->
                      IF s[p[1]].owner = owner THEN p[2] ELSE Append(p[2], s[p[1]])]
           F(g) == [k \in 0..Len(s) |->
                      IF k = 0 THEN <<>>
                      ELSE IF s[k].owner = owner THEN g[k - 1]
                      ELSE Append(g[k - 1], s[k])]
<1>1. Len(s) \in Nat /\ <<>> \in Lists /\ step \in [(1..Len(s)) \X Lists -> Lists]
  BY DEF Lists
<1>2. \A k \in 1..Len(s) : \A w \in Lists :
        step[<<k, w>>] = IF s[k].owner = owner THEN w ELSE Append(w, s[k])
  OBVIOUS
<1> HIDE DEF step, F
<1>3. PICK f \in [0..Len(s) -> Lists] : Loop(<<>>, step, Len(s), f)
  <2>1. HasLoop(Lists, <<>>, step, Len(s))
    BY <1>1, LoopExists
  <2>2. QED
    BY <2>1 DEF HasLoop
<1>4. f = F(f)
  <2>1. \A k \in 0..Len(s) : k # 0 => k \in 1..Len(s) /\ k - 1 \in 0..Len(s)
    BY <1>1
  <2>2. QED
    BY <1>2, <1>3, <2>1 DEF Loop, F
<1> DEFINE kept == CHOOSE g : g = F(g)
<1>5. kept = F(kept)
  BY <1>4, Zenon
<1>6. Without(s, owner) = kept[Len(s)]
  BY DEF Without, F
<1> HIDE DEF kept
<1>7. kept[0] = <<>>
  BY <1>1, <1>5 DEF F
<1>8. ASSUME NEW k \in 1..Len(s)
      PROVE  kept[k] = IF s[k].owner = owner THEN kept[k - 1] ELSE Append(kept[k - 1], s[k])
  <2>1. k \in 0..Len(s) /\ k # 0
    BY <1>1
  <2>2. F(kept)[k] = IF s[k].owner = owner THEN kept[k - 1] ELSE Append(kept[k - 1], s[k])
    BY <2>1 DEF F
  <2>3. QED
    BY <1>5, <2>2, Zenon
<1> DEFINE T == {k \in Nat : k <= Len(s) /\ ~WithoutUpTo(s, owner, k, kept[k])}
<1>9. T = {}
  <2> SUFFICES ASSUME T # {} PROVE FALSE
    OBVIOUS
  <2>1. PICK k \in T : \A j \in T : k <= j
    BY LeastNatural
  <2>2. CASE k = 0
    <3>1. WithoutUpTo(s, owner, 0, <<>>)
      BY DEF WithoutUpTo, Lists
    <3>2. QED
      BY <2>2, <3>1, <1>7
  <2>3. CASE k # 0
    <3>1. k \in 1..Len(s) /\ k - 1 \in Nat /\ k - 1 \notin T
      BY <1>1, <2>1, <2>3
    <3>2. WithoutUpTo(s, owner, k - 1, kept[k - 1])
      BY <1>1, <3>1
    <3>3. WithoutUpTo(s, owner, k, kept[k])
      BY <1>8, <3>1, <3>2, WithoutStep
    <3>4. QED
      BY <3>3
  <2>4. QED
    BY <2>2, <2>3
<1>10. QED
  BY <1>1, <1>6, <1>9

\* Without keeps the records of the others, and the order.
LEMMA WithoutKeeps ==
  ASSUME NEW s \in Lists, Ordered(s), NEW owner
  PROVE  /\ Without(s, owner) \in Lists
         /\ Ordered(Without(s, owner))
         /\ \A i \in 1..Len(s) : s[i].owner # owner =>
              \E p \in 1..Len(Without(s, owner)) : Without(s, owner)[p] = s[i]
<1> DEFINE w == Without(s, owner)
<1>1. WithoutUpTo(s, owner, Len(s), w)
  BY WithoutPrefix
<1> HIDE DEF w
<1>2. Len(w) \in Nat /\ Len(s) \in Nat /\ w \in Seq(Record) /\ s \in Seq(Record)
  BY <1>1 DEF WithoutUpTo, Lists
<1>3. ASSUME NEW j \in 1..Len(w), NEW k \in 1..Len(w),
             j < k, w[j].timestamp > w[k].timestamp
      PROVE  \E i \in 1..Len(w) : i < j /\ w[i].owner = w[k].owner
  <2>1. PICK m \in 1..Len(s) :
          /\ w[j] = s[m] /\ s[m].owner # owner
          /\ \A i \in 1..(m - 1) : s[i].owner # owner =>
               \E p \in 1..(j - 1) : w[p].owner = s[i].owner
    BY <1>1, <1>3 DEF WithoutUpTo
  <2>2. PICK n \in 1..Len(s) : w[k] = s[n] /\ s[n].owner # owner
    BY <1>1, <1>3 DEF WithoutUpTo
  <2>3. s[m].timestamp \in Int /\ s[n].timestamp \in Int
    BY <1>2, RecordFields
  <2>4. m # n
    BY <1>3, <2>1, <2>2, <2>3
  <2>5. \E i \in 1..(m - 1) : s[i].owner = s[n].owner
    <3>1. CASE n < m
      BY <3>1, <1>2
    <3>2. CASE m < n
      <4>1. PICK i \in 1..Len(s) : i < m /\ s[i].owner = s[n].owner
        BY <1>3, <2>1, <2>2, <3>2 DEF Ordered
      <4>2. QED
        BY <4>1, <1>2
    <3>3. QED
      BY <2>4, <3>1, <3>2, <1>2
  <2>6. QED
    BY <1>2, <2>1, <2>2, <2>5
<1>4. QED
  BY <1>1, <1>3 DEF WithoutUpTo, Ordered, w

\* Two records of one claim; they may differ in conflict.
Same(r, x) == r.owner = x.owner /\ r.timestamp = x.timestamp

\* The list q holds h of the others' records, and the new one if one of the first
\* k of them is no older.
Claimed(others, new, h, k, q) ==
  /\ \A i \in 1..h : \E p \in 1..Len(q) : Same(q[p], others[i])
  /\ \A i \in 1..k : new.timestamp <= others[i].timestamp =>
       \E p \in 1..Len(q) : Same(q[p], new)

\* Where a record stands in the list.
Placed(others, new, k, q) ==
  \A j \in 1..Len(q) :
    /\ Same(q[j], new) \/ \E m \in 1..k : Same(q[j], others[m])
    /\ \E m \in 1..k :
         /\ q[j].timestamp <= others[m].timestamp
         /\ \A i \in 1..(m - 1) : \E p \in 1..(j - 1) : q[p].owner = others[i].owner
    /\ new.timestamp < q[j].timestamp => \E p \in 1..(j - 1) : q[p].owner = new.owner

\* What the list holds it holds with one record more.
LEMMA AppendClaimed ==
  ASSUME NEW others, NEW new, NEW h \in Nat, NEW k \in Nat,
         NEW q \in Seq(Record), Claimed(others, new, h, k, q), NEW r \in Record
  PROVE  /\ Claimed(others, new, h, k, Append(q, r))
         /\ \E p \in 1..Len(Append(q, r)) : Append(q, r)[p] = r
<1> DEFINE v == Append(q, r)
<1>1. /\ Len(q) \in Nat /\ Len(v) = Len(q) + 1
      /\ \A j \in 1..Len(q) : v[j] = q[j]
      /\ v[Len(q) + 1] = r
  BY Appended
<1> HIDE DEF v
<1>2. ASSUME NEW x, \E p \in 1..Len(q) : Same(q[p], x)
      PROVE  \E p \in 1..Len(v) : Same(v[p], x)
  <2>1. PICK p \in 1..Len(q) : Same(q[p], x)
    BY <1>2
  <2>2. p \in 1..Len(v) /\ Same(v[p], x)
    BY <1>1, <2>1
  <2>3. QED
    BY <2>2
<1>3. Claimed(others, new, h, k, v)
  BY <1>2 DEF Claimed
<1>4. QED
  BY <1>1, <1>3 DEF v

\* A record of the new claim, or of the next of the others', takes its place at
\* the end.
LEMMA AppendPlaced ==
  ASSUME NEW others \in Lists, NEW new \in Record, NEW k \in 1..Len(others),
         NEW i \in {k - 1, k}, NEW q \in Seq(Record),
         Claimed(others, new, k - 1, i, q), Placed(others, new, i, q),
         NEW r \in Record,
         Same(r, new) \/ Same(r, others[k]),
         r.timestamp <= others[k].timestamp,
         new.timestamp < r.timestamp => \E p \in 1..Len(q) : Same(q[p], new)
  PROVE  Placed(others, new, k, Append(q, r))
<1> DEFINE v == Append(q, r)
<1>1. /\ Len(q) \in Nat /\ Len(v) = Len(q) + 1
      /\ \A j \in 1..Len(q) : v[j] = q[j]
      /\ v[Len(q) + 1] = r
  BY Appended
<1> HIDE DEF v
<1>2. k \in Int /\ i \in Int /\ k \in 1..k
  BY DEF Lists
<1>3. ASSUME NEW j \in 1..Len(v)
      PROVE  /\ Same(v[j], new) \/ \E m \in 1..k : Same(v[j], others[m])
             /\ \E m \in 1..k :
                  /\ v[j].timestamp <= others[m].timestamp
                  /\ \A n \in 1..(m - 1) : \E p \in 1..(j - 1) : v[p].owner = others[n].owner
             /\ new.timestamp < v[j].timestamp => \E p \in 1..(j - 1) : v[p].owner = new.owner
  <2>1. CASE j = Len(q) + 1
    <3>1. j - 1 = Len(q) /\ v[j] = r
      BY <1>1, <2>1
    <3>2. \A n \in 1..(k - 1) : \E p \in 1..(j - 1) : v[p].owner = others[n].owner
      BY <1>1, <3>1 DEF Claimed, Same
    <3>3. new.timestamp < v[j].timestamp => \E p \in 1..(j - 1) : v[p].owner = new.owner
      BY <1>1, <3>1 DEF Same
    <3>4. QED
      BY <1>2, <3>1, <3>2, <3>3
  <2>2. CASE j # Len(q) + 1
    <3>1. j \in 1..Len(q) /\ v[j] = q[j] /\ \A p \in 1..(j - 1) : v[p] = q[p]
      BY <1>1, <2>2
    <3>2. /\ Same(q[j], new) \/ \E m \in 1..i : Same(q[j], others[m])
          /\ new.timestamp < q[j].timestamp => \E p \in 1..(j - 1) : q[p].owner = new.owner
      BY <3>1 DEF Placed
    <3>3. PICK m \in 1..i :
            /\ q[j].timestamp <= others[m].timestamp
            /\ \A n \in 1..(m - 1) : \E p \in 1..(j - 1) : q[p].owner = others[n].owner
      BY <3>1 DEF Placed
    <3>4. \A x \in 1..i : x \in 1..k
      BY <1>2
    <3>5. \A n \in 1..(m - 1) : \E p \in 1..(j - 1) : v[p].owner = others[n].owner
      BY <3>1, <3>3
    <3>6. new.timestamp < v[j].timestamp => \E p \in 1..(j - 1) : v[p].owner = new.owner
      BY <3>1, <3>2
    <3>7. QED
      BY <3>1, <3>2, <3>3, <3>4, <3>5, <3>6
  <2>3. QED
    BY <2>1, <2>2
<1>4. QED
  BY <1>3 DEF Placed, v

\* q is the list after k rounds of the loop.
RoundsUpTo(others, new, k, q) ==
  q \in Lists /\ Claimed(others, new, k, k, q) /\ Placed(others, new, k, q)

\* The new record, if it goes before the next of the others'.
LEMMA RoundNew ==
  ASSUME NEW others \in Lists, NEW new \in Record, NEW k \in 1..Len(others),
         NEW q, RoundsUpTo(others, new, k - 1, q),
         NEW r \in Record, Same(r, new), new.timestamp <= others[k].timestamp
  PROVE  /\ Append(q, r) \in Seq(Record)
         /\ Claimed(others, new, k - 1, k, Append(q, r))
         /\ Placed(others, new, k, Append(q, r))
<1>1. k \in Int /\ k - 1 \in Nat /\ q \in Seq(Record) /\ others[k] \in Record
  BY DEF RoundsUpTo, Lists
<1>2. new.timestamp \in Int
  BY RecordFields
<1>3. Append(q, r) \in Seq(Record)
  BY <1>1, Appended
<1>4. Claimed(others, new, k - 1, k - 1, q) /\ Placed(others, new, k - 1, q)
  BY DEF RoundsUpTo
<1>5. /\ Claimed(others, new, k - 1, k - 1, Append(q, r))
      /\ \E p \in 1..Len(Append(q, r)) : Append(q, r)[p] = r
  BY <1>1, <1>4, AppendClaimed
<1>6. Claimed(others, new, k - 1, k, Append(q, r))
  BY <1>1, <1>5 DEF Claimed
<1>7. r.timestamp <= others[k].timestamp /\ ~(new.timestamp < r.timestamp)
  BY <1>2 DEF Same
<1>8. Placed(others, new, k, Append(q, r))
  BY <1>1, <1>4, <1>7, AppendPlaced
<1>9. QED
  BY <1>3, <1>6, <1>8

\* The next of the others' records.
LEMMA RoundOther ==
  ASSUME NEW others \in Lists, NEW new \in Record, NEW k \in 1..Len(others),
         NEW i \in {k - 1, k}, NEW q \in Seq(Record),
         Claimed(others, new, k - 1, i, q), Placed(others, new, i, q),
         NEW r \in Record, Same(r, others[k]),
         i # k => others[k].timestamp < new.timestamp
  PROVE  RoundsUpTo(others, new, k, Append(q, r))
<1>1. k \in Int /\ k - 1 \in Nat /\ i \in Nat /\ others[k] \in Record
  BY DEF Lists
<1>2. new.timestamp \in Int /\ others[k].timestamp \in Int
  BY <1>1, RecordFields
<1>3. Append(q, r) \in Seq(Record)
  BY Appended
<1>4. /\ Claimed(others, new, k - 1, i, Append(q, r))
      /\ \E p \in 1..Len(Append(q, r)) : Append(q, r)[p] = r
  BY <1>1, AppendClaimed
<1>5. Claimed(others, new, k, k, Append(q, r))
  <2>1. \A x \in 1..k : new.timestamp <= others[x].timestamp => x \in 1..i
    BY <1>1, <1>2
  <2>2. \A x \in 1..k : x \in 1..(k - 1) \/ x = k
    BY <1>1
  <2>3. QED
    BY <1>4, <2>1, <2>2 DEF Claimed
<1>6. Placed(others, new, k, Append(q, r))
  <2>1. new.timestamp < others[k].timestamp => \E p \in 1..Len(q) : Same(q[p], new)
    <3>1. new.timestamp < others[k].timestamp => k \in 1..i /\ new.timestamp <= others[k].timestamp
      BY <1>1, <1>2
    <3>2. QED
      BY <3>1 DEF Claimed
  <2>2. r.timestamp = others[k].timestamp
    BY DEF Same
  <2>3. r.timestamp <= others[k].timestamp
    BY <1>2, <2>2
  <2>4. QED
    BY <2>1, <2>2, <2>3, AppendPlaced
<1>7. QED
  BY <1>3, <1>5, <1>6 DEF RoundsUpTo, Lists

\* A claim does not depend on its conflict flag.
LEMMA OtherConflict ==
  ASSUME NEW r \in Record, NEW c \in BOOLEAN
  PROVE  [r EXCEPT !.conflict = c] \in Record /\ Same([r EXCEPT !.conflict = c], r)
BY DEF Record, Same

\* One round, from the list q.
Round(others, new, k, q) ==
  LET tieAt(m) == others[m].timestamp = new.timestamp
      newAt == [new EXCEPT !.conflict = \E j \in 1..k : tieAt(j)]
  IN  IF tieAt(k)
        THEN Append(Append(q, newAt), [others[k] EXCEPT !.conflict = TRUE])
      ELSE IF new.timestamp < others[k].timestamp
        THEN Append(Append(q, newAt), others[k])
      ELSE Append(q, others[k])

\* A round makes a list of registrations.
LEMMA RoundType ==
  ASSUME NEW others \in Lists, NEW new \in Record, NEW k \in 1..Len(others), NEW q \in Lists
  PROVE  Round(others, new, k, q) \in Lists
<1>1. others[k] \in Record
  BY DEF Lists
<1>2. [others[k] EXCEPT !.conflict = TRUE] \in Record
  BY <1>1, OtherConflict
<1> DEFINE newAt == [new EXCEPT !.conflict = \E j \in 1..k : others[j].timestamp = new.timestamp]
<1>3. newAt \in Record
  <2>1. (\E j \in 1..k : others[j].timestamp = new.timestamp) \in BOOLEAN
    OBVIOUS
  <2>2. QED
    BY <2>1, OtherConflict
<1> HIDE DEF newAt
<1>4. \A r \in Record : \A w \in Lists : Append(w, r) \in Lists
  BY Appended DEF Lists
<1>5. /\ Append(q, newAt) \in Lists
      /\ Append(Append(q, newAt), [others[k] EXCEPT !.conflict = TRUE]) \in Lists
      /\ Append(Append(q, newAt), others[k]) \in Lists
      /\ Append(q, others[k]) \in Lists
  BY <1>1, <1>2, <1>3, <1>4
<1>6. QED
  BY <1>5 DEF Round, newAt

\* A round of the loop.
LEMMA RoundStep ==
  ASSUME NEW others \in Lists, NEW new \in Record, NEW k \in 1..Len(others),
         NEW q, RoundsUpTo(others, new, k - 1, q)
  PROVE  RoundsUpTo(others, new, k, Round(others, new, k, q))
<1>1. others[k] \in Record
  BY DEF Lists
<1>2. new.timestamp \in Int /\ others[k].timestamp \in Int
  BY <1>1, RecordFields
<1> DEFINE newAt == [new EXCEPT !.conflict = \E j \in 1..k : others[j].timestamp = new.timestamp]
           tied == [others[k] EXCEPT !.conflict = TRUE]
<1>3. newAt \in Record /\ Same(newAt, new)
  <2>1. (\E j \in 1..k : others[j].timestamp = new.timestamp) \in BOOLEAN
    OBVIOUS
  <2>2. QED
    BY <2>1, OtherConflict
<1>4. tied \in Record /\ Same(tied, others[k])
  BY <1>1, OtherConflict
<1>5. Round(others, new, k, q) =
        IF others[k].timestamp = new.timestamp THEN Append(Append(q, newAt), tied)
        ELSE IF new.timestamp < others[k].timestamp THEN Append(Append(q, newAt), others[k])
        ELSE Append(q, others[k])
  BY DEF Round
<1> HIDE DEF newAt, tied
<1>6. Same(others[k], others[k])
  BY DEF Same
<1>7. CASE new.timestamp <= others[k].timestamp
  <2>1. /\ Append(q, newAt) \in Seq(Record)
        /\ Claimed(others, new, k - 1, k, Append(q, newAt))
        /\ Placed(others, new, k, Append(q, newAt))
    BY <1>3, <1>7, RoundNew
  <2>2. \A r \in Record : Same(r, others[k]) =>
          RoundsUpTo(others, new, k, Append(Append(q, newAt), r))
    BY <2>1, RoundOther
  <2>3. QED
    BY <1>1, <1>2, <1>4, <1>5, <1>6, <1>7, <2>2
<1>8. CASE others[k].timestamp < new.timestamp
  <2>1. RoundsUpTo(others, new, k, Append(q, others[k]))
    BY <1>1, <1>6, <1>8, RoundOther DEF RoundsUpTo, Lists
  <2>2. QED
    BY <1>2, <1>5, <1>8, <2>1
<1>9. QED
  BY <1>2, <1>7, <1>8

\* Rounds is what its loop makes.
LEMMA RoundsPrefix ==
  ASSUME NEW others \in Lists, NEW new \in Record
  PROVE  RoundsUpTo(others, new, Len(others), Rounds(others, new)[Len(others)])
<1> DEFINE n == Len(others)
           step == [p \in (1..n) \X Lists |-> Round(others, new, p[1], p[2])]
           F(g) == [k \in 0..n |-> IF k = 0 THEN <<>> ELSE Round(others, new, k, g[k - 1])]
           upTo == Rounds(others, new)
<1>1. n \in Nat /\ <<>> \in Lists
  BY DEF Lists
<1>2. step \in [(1..n) \X Lists -> Lists]
  BY RoundType
<1>3. \A k \in 1..n : \A q \in Lists : step[<<k, q>>] = Round(others, new, k, q)
  OBVIOUS
<1>4. upTo = CHOOSE g : g = F(g)
  BY Zenon DEF Rounds, Round
<1> HIDE DEF n, step, F, upTo
<1>5. PICK f \in [0..n -> Lists] : Loop(<<>>, step, n, f)
  <2>1. HasLoop(Lists, <<>>, step, n)
    BY <1>1, <1>2, LoopExists
  <2>2. QED
    BY <2>1 DEF HasLoop
<1>6. f = F(f)
  <2>1. \A k \in 0..n : k # 0 => k \in 1..n /\ k - 1 \in 0..n
    BY <1>1
  <2>2. QED
    BY <1>3, <1>5, <2>1 DEF Loop, F
<1>7. upTo = F(upTo)
  BY <1>4, <1>6, Zenon
<1>8. upTo[0] = <<>>
  BY <1>1, <1>7 DEF F
<1>9. ASSUME NEW k \in 1..n PROVE upTo[k] = Round(others, new, k, upTo[k - 1])
  <2>1. k \in 0..n /\ k # 0
    BY <1>1
  <2>2. F(upTo)[k] = Round(others, new, k, upTo[k - 1])
    BY <2>1 DEF F
  <2>3. QED
    BY <1>7, <2>2, Zenon
<1> DEFINE T == {k \in Nat : k <= n /\ ~RoundsUpTo(others, new, k, upTo[k])}
<1>10. T = {}
  <2> SUFFICES ASSUME T # {} PROVE FALSE
    OBVIOUS
  <2>1. PICK k \in T : \A j \in T : k <= j
    BY LeastNatural
  <2>2. CASE k = 0
    <3>1. RoundsUpTo(others, new, 0, <<>>)
      BY DEF RoundsUpTo, Claimed, Placed, Lists
    <3>2. QED
      BY <2>2, <3>1, <1>8
  <2>3. CASE k # 0
    <3>1. k \in 1..n /\ k - 1 \in Nat /\ k - 1 \notin T
      BY <1>1, <2>1, <2>3
    <3>2. RoundsUpTo(others, new, k - 1, upTo[k - 1])
      BY <1>1, <3>1
    <3>3. RoundsUpTo(others, new, k, upTo[k])
      BY <1>9, <3>1, <3>2, RoundStep DEF n
    <3>4. QED
      BY <3>3
  <2>4. QED
    BY <2>2, <2>3
<1>11. QED
  BY <1>1, <1>10 DEF n, upTo

\* The loop keeps the order.
LEMMA RoundsOrdered ==
  ASSUME NEW others \in Lists, Ordered(others), NEW new \in Record,
         NEW q, RoundsUpTo(others, new, Len(others), q)
  PROVE  Ordered(q)
<1>1. Len(others) \in Nat /\ Len(q) \in Nat /\ q \in Seq(Record) /\ others \in Seq(Record)
  BY DEF RoundsUpTo, Lists
<1>2. \A j \in 1..Len(q) : q[j].timestamp \in Int
  BY <1>1, RecordFields
<1>3. \A m \in 1..Len(others) : others[m].timestamp \in Int
  BY <1>1, RecordFields
<1>4. ASSUME NEW j \in 1..Len(q), NEW k \in 1..Len(q),
             j < k, q[j].timestamp > q[k].timestamp
      PROVE  \E i \in 1..Len(q) : i < j /\ q[i].owner = q[k].owner
  <2>1. \A p \in 1..(j - 1) : p \in 1..Len(q) /\ p < j
    BY <1>1
  <2>2. CASE Same(q[k], new)
    <3>1. new.timestamp < q[j].timestamp
      BY <1>2, <1>4, <2>2 DEF Same
    <3>2. QED
      BY <2>1, <2>2, <3>1 DEF RoundsUpTo, Placed, Same
  <2>3. CASE \E n \in 1..Len(others) : Same(q[k], others[n])
    <3>1. PICK n \in 1..Len(others) : Same(q[k], others[n])
      BY <2>3
    <3>2. PICK m \in 1..Len(others) :
            /\ q[j].timestamp <= others[m].timestamp
            /\ \A i \in 1..(m - 1) : \E p \in 1..(j - 1) : q[p].owner = others[i].owner
      BY DEF RoundsUpTo, Placed
    <3>3. others[m].timestamp > others[n].timestamp
      BY <1>2, <1>3, <1>4, <3>1, <3>2 DEF Same
    <3>4. \E i \in 1..(m - 1) : others[i].owner = others[n].owner
      <4>1. CASE n < m
        BY <4>1, <1>1
      <4>2. CASE m < n
        <5>1. PICK i \in 1..Len(others) : i < m /\ others[i].owner = others[n].owner
          BY <3>3, <4>2 DEF Ordered
        <5>2. QED
          BY <5>1, <1>1
      <4>3. QED
        BY <1>1, <1>3, <3>3, <4>1, <4>2
    <3>5. QED
      BY <2>1, <3>1, <3>2, <3>4 DEF Same
  <2>4. QED
    BY <2>2, <2>3 DEF RoundsUpTo, Placed
<1>5. QED
  BY <1>4 DEF Ordered

\* v keeps what others have in s.
Keeps(s, owner, v) ==
  /\ v \in Lists
  /\ Ordered(v)
  /\ \A i \in 1..Len(s) : s[i].owner # owner => \E p \in 1..Len(v) : Same(v[p], s[i])

\* Insert keeps the others' records and the order, and the new record is in the
\* list.
LEMMA InsertKeeps ==
  ASSUME NEW s \in Lists, Ordered(s), NEW new \in Record
  PROVE  /\ Keeps(s, new.owner, Insert(s, new))
         /\ \E p \in 1..Len(Insert(s, new)) : Same(Insert(s, new)[p], new)
<1> DEFINE others == Without(s, new.owner)
           q == Rounds(others, new)[Len(others)]
           added == \E k \in DOMAIN others : new.timestamp <= others[k].timestamp
<1>1. /\ others \in Lists /\ Ordered(others)
      /\ \A i \in 1..Len(s) : s[i].owner # new.owner =>
           \E p \in 1..Len(others) : others[p] = s[i]
  BY WithoutKeeps
<1>2. Insert(s, new) = IF added THEN q ELSE Append(q, new)
  BY DEF Insert
<1> HIDE DEF others
<1>3. RoundsUpTo(others, new, Len(others), q)
  BY <1>1, RoundsPrefix
<1>4. added <=> \E k \in 1..Len(others) : new.timestamp <= others[k].timestamp
  BY <1>1 DEF Lists
<1> HIDE DEF q, added
<1>5. Ordered(q) /\ q \in Seq(Record) /\ Len(others) \in Nat
  BY <1>1, <1>3, RoundsOrdered DEF RoundsUpTo, Lists
<1>6. \A i \in 1..Len(s) : s[i].owner # new.owner => \E p \in 1..Len(q) : Same(q[p], s[i])
  BY <1>1, <1>3 DEF RoundsUpTo, Claimed
<1>7. CASE added
  <2>1. \E p \in 1..Len(q) : Same(q[p], new)
    BY <1>3, <1>4, <1>7 DEF RoundsUpTo, Claimed
  <2>2. QED
    BY <1>2, <1>5, <1>6, <1>7, <2>1 DEF Keeps, Lists
<1>8. CASE ~added
  <2> DEFINE v == Append(q, new)
  <2>1. /\ v \in Seq(Record) /\ Len(q) \in Nat /\ Len(v) = Len(q) + 1
        /\ \A j \in 1..Len(q) : v[j] = q[j]
        /\ v[Len(q) + 1] = new
    BY <1>5, Appended
  <2> HIDE DEF v
  <2>2. \A i \in 1..Len(s) : s[i].owner # new.owner => \E p \in 1..Len(v) : Same(v[p], s[i])
    BY <1>6, <2>1
  <2>3. \E p \in 1..Len(v) : Same(v[p], new)
    BY <2>1 DEF Same
  <2>4. ASSUME NEW j \in 1..Len(v), NEW k \in 1..Len(v),
               j < k, v[j].timestamp > v[k].timestamp
        PROVE  \E i \in 1..Len(v) : i < j /\ v[i].owner = v[k].owner
    <3>1. j \in 1..Len(q) /\ v[j] = q[j]
      BY <2>1, <2>4
    <3>2. CASE k = Len(q) + 1
      <4>1. new.timestamp < q[j].timestamp
        <5>1. new.timestamp \in Int /\ q[j].timestamp \in Int
          BY <1>5, <3>1, RecordFields
        <5>2. QED
          BY <2>1, <2>4, <3>1, <3>2, <5>1
      <4>2. PICK p \in 1..(j - 1) : q[p].owner = new.owner
        BY <1>3, <3>1, <4>1 DEF RoundsUpTo, Placed
      <4>3. QED
        BY <2>1, <3>1, <3>2, <4>2
    <3>3. CASE k # Len(q) + 1
      <4>1. k \in 1..Len(q) /\ v[k] = q[k]
        BY <2>1, <3>3
      <4>2. PICK i \in 1..Len(q) : i < j /\ q[i].owner = q[k].owner
        BY <1>5, <2>4, <3>1, <4>1 DEF Ordered
      <4>3. QED
        BY <2>1, <4>1, <4>2
    <3>4. QED
      BY <3>2, <3>3
  <2>5. Keeps(s, new.owner, v)
    BY <2>1, <2>2, <2>4 DEF Keeps, Lists, Ordered
  <2>6. QED
    BY <1>2, <1>8, <2>3, <2>5 DEF v
<1>9. QED
  BY <1>7, <1>8

\* RemoveFrom keeps the others' records and the order.
LEMMA RemoveFromKeeps ==
  ASSUME NEW s \in Lists, Ordered(s), NEW owner
  PROVE  Keeps(s, owner, RemoveFrom(s, owner))
<1> DEFINE rest == Without(s, owner)
<1>1. /\ rest \in Lists /\ Ordered(rest)
      /\ \A i \in 1..Len(s) : s[i].owner # owner => \E p \in 1..Len(rest) : rest[p] = s[i]
  BY WithoutKeeps
<1>2. \E t : RemoveFrom(s, owner) \in {rest, ClearFirst(rest, t)}
  BY DEF RemoveFrom
<1> HIDE DEF rest
<1>3. Keeps(s, owner, rest)
  BY <1>1 DEF Keeps, Same
<1>4. ASSUME NEW t PROVE Keeps(s, owner, ClearFirst(rest, t))
  <2> DEFINE v == ClearFirst(rest, t)
  <2>1. rest \in Seq(Record) /\ Len(rest) \in Nat /\ DOMAIN rest = 1..Len(rest)
    BY <1>1 DEF Lists
  <2>2. v = [k \in 1..Len(rest) |-> v[k]]
    BY <2>1 DEF ClearFirst
  <2>3. ASSUME NEW k \in 1..Len(rest) PROVE v[k] \in Record /\ Same(v[k], rest[k])
    <3>1. rest[k] \in Record
      BY <2>1
    <3>2. v[k] = rest[k] \/ v[k] = [rest[k] EXCEPT !.conflict = FALSE]
      BY <2>1 DEF ClearFirst
    <3>3. QED
      BY <3>1, <3>2, OtherConflict DEF Same
  <2> HIDE DEF v
  <2>4. v \in Seq(Record) /\ Len(v) = Len(rest)
    BY <2>1, <2>2, <2>3
  <2>5. Ordered(v)
    <3> SUFFICES ASSUME NEW j \in 1..Len(v), NEW k \in 1..Len(v),
                        j < k, v[j].timestamp > v[k].timestamp
                 PROVE  \E i \in 1..Len(v) : i < j /\ v[i].owner = v[k].owner
      BY DEF Ordered
    <3>1. rest[j].timestamp > rest[k].timestamp
      BY <2>3, <2>4 DEF Same
    <3>2. PICK i \in 1..Len(rest) : i < j /\ rest[i].owner = rest[k].owner
      BY <1>1, <2>4, <3>1 DEF Ordered
    <3>3. QED
      BY <2>3, <2>4, <3>2 DEF Same
  <2>6. QED
    BY <1>1, <2>3, <2>4, <2>5 DEF Keeps, Lists, Same, v
<1>5. QED
  BY <1>2, <1>3, <1>4

\* The bucket, with every list in order.
Buckets == {b \in [AllNames -> Lists] : \A n \in AllNames : Ordered(b[n])}

\* RemoveAllForAddress does so under every name, whichever names its cursor
\* skips.
LEMMA RemoveAllKeeps ==
  ASSUME NEW b \in Buckets, NEW owner, NEW mayskip, NEW c \in RemoveAll(b, owner, mayskip)
  PROVE  /\ c \in Buckets
         /\ \A n \in AllNames : Keeps(b[n], owner, c[n])
<1>1. PICK v : c = [n \in AllNames |-> IF n \in v THEN RemoveFrom(b[n], owner) ELSE b[n]]
  BY DEF RemoveAll
<1>2. ASSUME NEW n \in AllNames PROVE Keeps(b[n], owner, c[n])
  <2>1. b[n] \in Lists /\ Ordered(b[n])
    BY DEF Buckets
  <2>2. Keeps(b[n], owner, b[n])
    BY <2>1 DEF Keeps, Same
  <2>3. QED
    BY <1>1, <2>1, <2>2, RemoveFromKeeps
<1>3. c \in Buckets
  BY <1>1, <1>2 DEF Keeps, Buckets
<1>4. QED
  BY <1>2, <1>3

\* Update does so under every name, and the owner is found under its own.
LEMMA InsertAllKeeps ==
  ASSUME NEW b \in Buckets, NEW owner \in Owners, NEW timestamp \in Times, NEW names
  PROVE  LET c == InsertAll(b, owner, timestamp, names)
         IN  /\ c \in Buckets
             /\ \A n \in AllNames : Keeps(b[n], owner, c[n])
             /\ \A n \in AllNames \cap names : \E p \in 1..Len(c[n]) :
                  c[n][p].owner = owner /\ c[n][p].timestamp = timestamp
<1> DEFINE c == InsertAll(b, owner, timestamp, names)
           new == Registration(owner, timestamp)
<1>1. new \in Record /\ new.owner = owner /\ new.timestamp = timestamp
  BY DEF Registration, Record
<1> HIDE DEF new
<1>2. c = [n \in AllNames |-> IF n \in names THEN Insert(b[n], new) ELSE b[n]]
  BY DEF InsertAll, new
<1> HIDE DEF c
<1>3. ASSUME NEW n \in AllNames
      PROVE  /\ Keeps(b[n], owner, c[n])
             /\ n \in names => \E p \in 1..Len(c[n]) : Same(c[n][p], new)
  <2>1. b[n] \in Lists /\ Ordered(b[n])
    BY DEF Buckets
  <2>2. Keeps(b[n], owner, b[n])
    BY <2>1 DEF Keeps, Same
  <2>3. QED
    BY <1>1, <1>2, <2>1, <2>2, InsertKeeps
<1>4. c \in Buckets
  BY <1>2, <1>3 DEF Keeps, Buckets
<1>5. QED
  BY <1>1, <1>3, <1>4 DEF Same, c

\* The owner has a record of that age in the list.
FoundAt(s, owner, timestamp) ==
  \E p \in 1..Len(s) : s[p].owner = owner /\ s[p].timestamp = timestamp

\* The inductive invariant of Names.
NamesKept ==
  /\ bucket \in Buckets
  /\ written \in BOOLEAN
  /\ registered \in [Owners -> [timestamp : 0..MaxTs, names : SUBSET AllNames]]
  /\ RegisteredAreFound

\* The positions of a list.
LEMMA ListPositions ==
  ASSUME NEW b \in Buckets, NEW n \in AllNames
  PROVE  DOMAIN b[n] = 1..Len(b[n]) /\ Len(b[n]) \in Nat
BY DEF Buckets, Lists

\* The empty bucket is kept.
LEMMA NamesKeptInit == ASSUME NamesAssumption PROVE NamesInit => NamesKept
<1> SUFFICES ASSUME NamesInit PROVE NamesKept
  OBVIOUS
<1>1. <<>> \in Lists /\ Ordered(<<>>)
  BY DEF Lists, Ordered
<1>2. bucket \in Buckets
  BY <1>1 DEF NamesInit, Buckets
<1>3. Nothing \in [timestamp : 0..MaxTs, names : SUBSET AllNames] /\ Nothing.names = {}
  BY DEF Nothing, NamesAssumption
<1>4. QED
  BY <1>2, <1>3 DEF NamesInit, NamesKept, RegisteredAreFound

\* Every step of Names keeps the lists in order and the registered names found.
LEMMA NamesKeptStep == ASSUME NamesAssumption PROVE NamesKept /\ [NamesNext]_namesVars => NamesKept'
<1> SUFFICES ASSUME NamesKept, [NamesNext]_namesVars PROVE NamesKept'
  OBVIOUS
<1> USE DEF NamesKept
<1>1. CASE Commit \/ UNCHANGED namesVars
  <2>1. bucket' = bucket /\ registered' = registered /\ written' \in BOOLEAN
    BY <1>1 DEF Commit, namesVars
  <2>2. RegisteredAreFound'
    BY <2>1 DEF RegisteredAreFound
  <2>3. QED
    BY <2>1, <2>2
<1>2. ASSUME NEW owner \in Owners, NEW timestamp \in Times, NEW names \in SUBSET AllNames,
             Update(owner, timestamp, names)
      PROVE  NamesKept'
  <2>1. PICK b \in RemoveAll(bucket, owner, FALSE) :
          bucket' = InsertAll(b, owner, timestamp, names)
    BY <1>2 DEF Update
  <2>2. b \in Buckets /\ \A n \in AllNames : Keeps(bucket[n], owner, b[n])
    BY <2>1, RemoveAllKeeps
  <2>3. /\ bucket' \in Buckets
        /\ \A n \in AllNames : Keeps(b[n], owner, bucket'[n])
        /\ \A n \in AllNames \cap names : \E p \in 1..Len(bucket'[n]) :
             bucket'[n][p].owner = owner /\ bucket'[n][p].timestamp = timestamp
    BY <2>1, <2>2, InsertAllKeeps
  <2>4. /\ written' = TRUE
        /\ registered' = [registered EXCEPT ![owner] = [timestamp |-> timestamp, names |-> names]]
    BY <1>2 DEF Update
  <2>5. registered' \in [Owners -> [timestamp : 0..MaxTs, names : SUBSET AllNames]]
    BY <2>4 DEF Times
  <2>6. ASSUME NEW o \in Owners, NEW n \in registered'[o].names
        PROVE  FoundAt(bucket'[n], o, registered'[o].timestamp)
    <3>1. n \in AllNames
      BY <2>5
    <3>2. CASE o = owner
      BY <2>3, <2>4, <3>1, <3>2 DEF FoundAt
    <3>3. CASE o # owner
      <4>1. registered'[o] = registered[o]
        BY <2>4, <3>3
      <4>2. PICK k \in 1..Len(bucket[n]) :
              bucket[n][k].owner = o /\ bucket[n][k].timestamp = registered[o].timestamp
        BY <3>1, <4>1, ListPositions DEF RegisteredAreFound
      <4>3. PICK i \in 1..Len(b[n]) : Same(b[n][i], bucket[n][k])
        BY <2>2, <3>1, <3>3, <4>2 DEF Keeps
      <4>4. \E p \in 1..Len(bucket'[n]) : Same(bucket'[n][p], b[n][i])
        BY <2>3, <3>1, <3>3, <4>2, <4>3 DEF Keeps, Same
      <4>5. QED
        BY <4>1, <4>2, <4>3, <4>4 DEF Same, FoundAt
    <3>4. QED
      BY <3>2, <3>3
  <2>7. RegisteredAreFound'
    <3> SUFFICES ASSUME NEW o \in Owners, NEW n \in registered'[o].names
                 PROVE  \E k \in DOMAIN bucket'[n] :
                          /\ bucket'[n][k].owner = o
                          /\ bucket'[n][k].timestamp = registered'[o].timestamp
      BY DEF RegisteredAreFound
    <3>1. n \in AllNames
      BY <2>5
    <3>2. DOMAIN bucket'[n] = 1..Len(bucket'[n])
      BY <2>3, <3>1, ListPositions
    <3>3. QED
      BY <2>6, <3>2 DEF FoundAt
  <2>8. QED
    BY <2>3, <2>4, <2>5, <2>7
<1>3. ASSUME NEW owner \in Owners, RemoveAllForAddress(owner)
      PROVE  NamesKept'
  <2>1. /\ bucket' \in Buckets
        /\ \A n \in AllNames : Keeps(bucket[n], owner, bucket'[n])
    BY <1>3, RemoveAllKeeps DEF RemoveAllForAddress
  <2>2. /\ written' = written
        /\ registered' = [registered EXCEPT ![owner] = Nothing]
    BY <1>3 DEF RemoveAllForAddress
  <2>3. Nothing \in [timestamp : 0..MaxTs, names : SUBSET AllNames] /\ Nothing.names = {}
    BY DEF Nothing, NamesAssumption
  <2>4. registered' \in [Owners -> [timestamp : 0..MaxTs, names : SUBSET AllNames]]
    BY <2>2, <2>3
  <2>5. ASSUME NEW o \in Owners, NEW n \in registered'[o].names
        PROVE  FoundAt(bucket'[n], o, registered'[o].timestamp)
    <3>1. n \in AllNames /\ o # owner /\ registered'[o] = registered[o]
      BY <2>2, <2>3, <2>4
    <3>2. PICK k \in 1..Len(bucket[n]) :
            bucket[n][k].owner = o /\ bucket[n][k].timestamp = registered[o].timestamp
      BY <3>1, ListPositions DEF RegisteredAreFound
    <3>3. QED
      BY <2>1, <3>1, <3>2 DEF Keeps, Same, FoundAt
  <2>6. RegisteredAreFound'
    <3> SUFFICES ASSUME NEW o \in Owners, NEW n \in registered'[o].names
                 PROVE  \E k \in DOMAIN bucket'[n] :
                          /\ bucket'[n][k].owner = o
                          /\ bucket'[n][k].timestamp = registered'[o].timestamp
      BY DEF RegisteredAreFound
    <3>1. n \in AllNames
      BY <2>4
    <3>2. DOMAIN bucket'[n] = 1..Len(bucket'[n])
      BY <2>1, <3>1, ListPositions
    <3>3. QED
      BY <2>5, <3>2 DEF FoundAt
  <2>7. QED
    BY <2>1, <2>2, <2>4, <2>6
<1>4. QED
  BY <1>1, <1>2, <1>3 DEF NamesNext

\* For any owners, names, ages and bounds: the variables of Names have their
\* types.
THEOREM NamesTypeCorrect == ASSUME NamesAssumption PROVE NamesSpec => []NamesTypeOK
<1>1. NamesKept => NamesTypeOK
  <2> SUFFICES ASSUME NamesKept PROVE NamesTypeOK
    OBVIOUS
  <2>1. bucket \in Buckets
    BY DEF NamesKept
  <2>2. DOMAIN bucket = AllNames
    BY <2>1 DEF Buckets
  <2>3. \A n \in AllNames : \A k \in DOMAIN bucket[n] : bucket[n][k] \in Record
    BY <2>1 DEF Buckets, Lists
  <2>4. QED
    BY <2>2, <2>3 DEF NamesKept, Record, NamesTypeOK
<1>2. QED
  BY <1>1, NamesKeptInit, NamesKeptStep, PTL DEF NamesSpec

\* RegisteredAreFound: Update and RemoveAllForAddress (names.go) of any owners
\* in any order lose no name of an owner's current bundle, though the cursor
\* may skip names.
THEOREM NamesRegisteredAreFound == ASSUME NamesAssumption PROVE NamesSpec => []RegisteredAreFound
<1>1. NamesKept => RegisteredAreFound
  BY DEF NamesKept
<1>2. QED
  BY <1>1, NamesKeptInit, NamesKeptStep, PTL DEF NamesSpec

\* OldestFirst: Lookup's answer, the first record, is no younger than any claim
\* to the name.  It holds as a younger record stands before an older one of
\* somebody only after another of theirs: so never first.
THEOREM NamesOldestFirst == ASSUME NamesAssumption PROVE NamesSpec => []OldestFirst
<1>1. NamesKept => OldestFirst
  <2> SUFFICES ASSUME NamesKept, NEW o \in Owners, NEW n \in registered[o].names
               PROVE  bucket[n][1].timestamp <= registered[o].timestamp
    BY DEF OldestFirst
  <2>1. n \in AllNames /\ bucket \in Buckets
    BY DEF NamesKept
  <2>2. PICK k \in 1..Len(bucket[n]) :
          bucket[n][k].owner = o /\ bucket[n][k].timestamp = registered[o].timestamp
    BY <2>1, ListPositions DEF NamesKept, RegisteredAreFound
  <2>3. Len(bucket[n]) \in Nat /\ bucket[n] \in Seq(Record) /\ Ordered(bucket[n])
    BY <2>1 DEF Buckets, Lists
  <2>4. bucket[n][1].timestamp \in Int /\ bucket[n][k].timestamp \in Int /\ 1 \in 1..Len(bucket[n])
    BY <2>2, <2>3, RecordFields
  <2>5. ~ (bucket[n][1].timestamp > bucket[n][k].timestamp)
    BY <2>2, <2>3, <2>4 DEF Ordered
  <2>6. QED
    BY <2>2, <2>4, <2>5
<1>2. QED
  BY <1>1, NamesKeptInit, NamesKeptStep, PTL DEF NamesSpec

-----------------------------------------------------------------------------
(***************************************************************************)
(* DocStore.                                                               *)
(***************************************************************************)

\* A store of documents with up to m references each.
Store(st, m) ==
  /\ st = [d \in DOMAIN st |-> st[d]]
  /\ DOMAIN st \subseteq Docs
  /\ \A d \in DOMAIN st : st[d] \in [data : BOOLEAN, refs : 1..m]

\* The references to a document, 0 for one that is not there.
Refs(st, d) == IF d \in DOMAIN st THEN st[d].refs ELSE 0

\* References are counted in naturals.
LEMMA RefsType ==
  ASSUME NEW m \in Nat, NEW st, Store(st, m), NEW d
  PROVE  Refs(st, d) \in 0..m
BY DEF Store, Refs

\* v is st with one reference more to d.
OneMore(m, st, d, data, v) ==
  /\ Store(v, m + 1)
  /\ d \in DOMAIN v
  /\ v[d] \in [data : BOOLEAN, refs : 1..(m + 1)]
  /\ v[d].refs = Refs(st, d) + 1
  /\ data => v[d].data
  /\ \A x : x # d => Refs(v, x) = Refs(st, x)
  /\ \A x \in DOMAIN st : x # d => v[x] = st[x]

\* Add counts one reference more of its document, and changes no other.
LEMMA AddRefs ==
  ASSUME NEW m \in Nat, NEW st, Store(st, m), NEW d \in Docs, NEW data \in BOOLEAN
  PROVE  OneMore(m, st, d, data, Add(st, d, data))
<1> DEFINE v == Add(st, d, data)
<1>1. v = [x \in DOMAIN st \cup {d} |->
            IF x # d THEN st[x]
            ELSE IF d \in DOMAIN st THEN [data |-> st[d].data \/ data, refs |-> st[d].refs + 1]
            ELSE [data |-> data, refs |-> 1]]
  BY DEF Add, Held
<1> HIDE DEF v
<1>2. DOMAIN v = DOMAIN st \cup {d}
  BY <1>1
<1>3. \A x \in DOMAIN st : x # d => v[x] = st[x]
  BY <1>1
<1>4. CASE d \in DOMAIN st
  <2>1. v[d] = [data |-> st[d].data \/ data, refs |-> st[d].refs + 1]
    BY <1>1, <1>4
  <2>2. st[d].refs \in 1..m /\ st[d].data \in BOOLEAN
    BY <1>4 DEF Store
  <2>3. (st[d].data \/ data) \in BOOLEAN
    OBVIOUS
  <2>4. v[d].refs = st[d].refs + 1 /\ v[d].data = (st[d].data \/ data)
    BY <2>1
  <2>5. v[d] \in [data : BOOLEAN, refs : 1..(m + 1)]
    <3>1. st[d].refs + 1 \in 1..(m + 1)
      BY <2>2
    <3>2. QED
      BY <2>1, <2>3, <3>1
  <2>6. data => v[d].data
    BY <2>4
  <2>7. QED
    BY <1>1, <1>2, <1>3, <1>4, <2>4, <2>5, <2>6 DEF Store, Refs, OneMore, v
<1>5. CASE d \notin DOMAIN st
  <2>1. v[d] = [data |-> data, refs |-> 1]
    BY <1>1, <1>5
  <2>2. v[d].refs = 1 /\ v[d].data = data
    BY <2>1
  <2>3. v[d] \in [data : BOOLEAN, refs : 1..(m + 1)]
    <3>1. 1 \in 1..(m + 1)
      OBVIOUS
    <3>2. QED
      BY <2>1, <3>1
  <2>4. data => v[d].data
    BY <2>2
  <2>5. QED
    BY <1>1, <1>2, <1>3, <1>5, <2>2, <2>3, <2>4 DEF Store, Refs, OneMore, v
<1>6. QED
  BY <1>4, <1>5

\* v is st with one reference more to each of the links.
EachMore(m, st, links, v) ==
  /\ Store(v, m + 1)
  /\ DOMAIN v = DOMAIN st \cup links
  /\ \A d : Refs(v, d) = IF d \in links THEN Refs(st, d) + 1 ELSE Refs(st, d)
  /\ \A d \in DOMAIN st \ links : v[d] = st[d]

\* AddEach counts one reference more of each of the links.
LEMMA AddEachRefs ==
  ASSUME NEW m \in Nat, NEW st, Store(st, m), NEW links \in SUBSET Docs, NEW given
  PROVE  EachMore(m, st, links, AddEach(st, links, given))
<1> DEFINE v == AddEach(st, links, given)
<1>1. v = [d \in DOMAIN st \cup links |->
            IF d \in links THEN Add(st, d, d \in given)[d] ELSE st[d]]
  BY DEF AddEach
<1> HIDE DEF v
<1>2. DOMAIN v = DOMAIN st \cup links
  BY <1>1
<1>3. ASSUME NEW d \in links
      PROVE  v[d] \in [data : BOOLEAN, refs : 1..(m + 1)] /\ v[d].refs = Refs(st, d) + 1
  <2>1. (d \in given) \in BOOLEAN
    OBVIOUS
  <2>2. v[d] = Add(st, d, d \in given)[d]
    BY <1>1
  <2>3. OneMore(m, st, d, d \in given, Add(st, d, d \in given))
    BY <2>1, AddRefs, Zenon
  <2>4. QED
    BY <2>2, <2>3 DEF OneMore
<1>4. ASSUME NEW d \in DOMAIN st \ links
      PROVE  v[d] = st[d] /\ v[d] \in [data : BOOLEAN, refs : 1..(m + 1)]
  <2>1. v[d] = st[d]
    BY <1>1
  <2>2. st[d] \in [data : BOOLEAN, refs : 1..m] /\ \A x \in 1..m : x \in 1..(m + 1)
    BY DEF Store
  <2>3. QED
    BY <2>1, <2>2
<1>5. Store(v, m + 1)
  BY <1>1, <1>2, <1>3, <1>4 DEF Store
<1>6. ASSUME NEW d PROVE Refs(v, d) = IF d \in links THEN Refs(st, d) + 1 ELSE Refs(st, d)
  BY <1>2, <1>3, <1>4 DEF Refs
<1>7. QED
  BY <1>2, <1>4, <1>5, <1>6 DEF EachMore, v

\* RemoveRef takes one reference, and the document with the last one.
LEMMA RemoveRefRefs ==
  ASSUME NEW m \in Nat, NEW st, Store(st, m), NEW d
  PROVE  LET v == RemoveRef(st, d)
         IN  /\ Store(v, m)
             /\ DOMAIN v \subseteq DOMAIN st
             /\ Refs(v, d) = IF Refs(st, d) = 0 THEN 0 ELSE Refs(st, d) - 1
             /\ \A x : x # d => Refs(v, x) = Refs(st, x)
             /\ \A x \in DOMAIN v : v[x].data = st[x].data /\ (x # d => v[x] = st[x])
<1> DEFINE v == RemoveRef(st, d)
<1>1. CASE d \notin DOMAIN st
  BY <1>1 DEF RemoveRef, Held, Refs
<1>2. CASE d \in DOMAIN st /\ st[d].refs > 1
  <2>1. v = [st EXCEPT ![d].refs = @ - 1]
    BY <1>2 DEF RemoveRef, Held
  <2>2. st[d] \in [data : BOOLEAN, refs : 1..m]
    BY <1>2 DEF Store
  <2> HIDE DEF v
  <2>3. DOMAIN v = DOMAIN st /\ \A x \in DOMAIN st : x # d => v[x] = st[x]
    BY <2>1
  <2>4. v[d] = [st[d] EXCEPT !.refs = st[d].refs - 1]
    BY <1>2, <2>1
  <2>5. /\ v[d] \in [data : BOOLEAN, refs : 1..m]
        /\ v[d].refs = st[d].refs - 1 /\ v[d].data = st[d].data
    BY <1>2, <2>2, <2>4
  <2>6. v = [x \in DOMAIN v |-> v[x]]
    BY <2>1
  <2>7. Store(v, m)
    BY <2>3, <2>5, <2>6 DEF Store
  <2>8. QED
    BY <1>2, <2>2, <2>3, <2>5, <2>7 DEF Refs, v
<1>3. CASE d \in DOMAIN st /\ ~(st[d].refs > 1)
  <2>1. v = [x \in DOMAIN st \ {d} |-> st[x]]
    BY <1>3 DEF RemoveRef, Held, Restrict
  <2>2. st[d].refs = 1
    BY <1>3 DEF Store
  <2> HIDE DEF v
  <2>3. Store(v, m)
    BY <2>1 DEF Store
  <2>4. QED
    BY <1>3, <2>1, <2>2, <2>3 DEF Refs, v
<1>4. QED
  BY <1>1, <1>2, <1>3

\* RemoveLinks takes one reference of each of the links.
LEMMA RemoveLinksRefs ==
  ASSUME NEW m \in Nat, NEW st, Store(st, m), NEW links
  PROVE  LET v == RemoveLinks(st, links)
         IN  /\ Store(v, m)
             /\ DOMAIN v \subseteq DOMAIN st
             /\ \A d : Refs(v, d) = IF d \in links /\ Refs(st, d) # 0 THEN Refs(st, d) - 1 ELSE Refs(st, d)
             /\ \A d \in DOMAIN v \ links : v[d] = st[d]
<1> DEFINE v == RemoveLinks(st, links)
           left == {x \in DOMAIN st : x \in links => x \in DOMAIN RemoveRef(st, x)}
<1>1. v = [d \in left |-> IF d \in links THEN RemoveRef(st, d)[d] ELSE st[d]]
  BY DEF RemoveLinks, Held
<1>2. left \subseteq DOMAIN st
  OBVIOUS
<1>3. \A d \in DOMAIN st \ links : d \in left
  OBVIOUS
<1>4. \A d \in links : d \in left <=> d \in DOMAIN st /\ d \in DOMAIN RemoveRef(st, d)
  OBVIOUS
<1> HIDE DEF v, left
<1>5. DOMAIN v = left
  BY <1>1
<1>6. ASSUME NEW d \in links, d \in left
      PROVE  v[d] \in [data : BOOLEAN, refs : 1..m] /\ v[d].refs = Refs(RemoveRef(st, d), d)
  <2>1. v[d] = RemoveRef(st, d)[d] /\ d \in DOMAIN RemoveRef(st, d)
    BY <1>1, <1>4, <1>6
  <2>2. Store(RemoveRef(st, d), m)
    BY RemoveRefRefs
  <2>3. QED
    BY <2>1, <2>2 DEF Store, Refs
<1>7. ASSUME NEW d \in left, d \notin links
      PROVE  v[d] = st[d] /\ v[d] \in [data : BOOLEAN, refs : 1..m]
  BY <1>1, <1>2, <1>7 DEF Store
<1>8. Store(v, m)
  BY <1>1, <1>2, <1>5, <1>6, <1>7 DEF Store
<1>9. ASSUME NEW d \in links
      PROVE  Refs(v, d) = IF Refs(st, d) # 0 THEN Refs(st, d) - 1 ELSE Refs(st, d)
  <2>1. /\ Refs(RemoveRef(st, d), d) = IF Refs(st, d) = 0 THEN 0 ELSE Refs(st, d) - 1
        /\ DOMAIN RemoveRef(st, d) \subseteq DOMAIN st
    BY RemoveRefRefs
  <2>2. CASE d \in left
    BY <1>5, <1>6, <2>1, <2>2 DEF Refs
  <2>3. CASE d \notin left
    <3>1. Refs(v, d) = 0 /\ d \notin DOMAIN RemoveRef(st, d)
      BY <1>4, <1>5, <2>1, <2>3 DEF Refs
    <3>2. QED
      BY <2>1, <3>1 DEF Refs
  <2>4. QED
    BY <2>2, <2>3
<1>10. ASSUME NEW d, d \notin links PROVE Refs(v, d) = Refs(st, d)
  BY <1>2, <1>3, <1>5, <1>7, <1>10 DEF Refs
<1>11. QED
  BY <1>2, <1>5, <1>7, <1>8, <1>9, <1>10 DEF v

\* The accounts with the root document r.
Users(r) == {a \in Accounts : root[a] = r}

\* The references of a root document are no fewer than the accounts that have
\* it, and neither are those of a leaf that no other root document links to.
Counted ==
  \A r \in Roots :
    /\ Cardinality(Users(r)) <= Refs(pastes, r)
    /\ r \in DOMAIN pastes => pastes[r].data
    /\ \A leaf \in Links[r] : ~SharedLeaf(leaf) => Cardinality(Users(r)) <= Refs(pastes, leaf)

\* The inductive invariant of DocStore.
DocsKept ==
  /\ Store(pastes, MaxRefs + 1)
  /\ root \in [Accounts -> Roots \cup {NoRoot}]
  /\ syncStatus \in [Accounts -> {Complete, SomeMissing}]
  /\ Counted

\* The assumption on the constants of DocStore.
LEMMA DocConstants ==
  ASSUME DocAssumption
  PROVE  /\ IsFiniteSet(Accounts)
         /\ NoRoot \notin Roots
         /\ MaxRefs \in Nat /\ MaxRefs # 0
         /\ \A r \in Roots : Links[r] \in SUBSET Leaves
         /\ Roots \cap Leaves = {}
         /\ Docs = Roots \cup Leaves
BY DEF DocAssumption, Roots, Leaves, Docs

\* v is the store st after an account has saved new for old: the references of
\* the root documents, and of the leaves of one root document.
SavedFrom(m, st, old, new, v) ==
  /\ Store(v, m + 2)
  /\ \A r \in Roots : r \in DOMAIN v => v[r].data
  /\ \A r \in Roots : Refs(v, r) =
       IF r = new THEN Refs(st, r) + 1
       ELSE IF r = old /\ Refs(st, r) # 0 THEN Refs(st, r) - 1
       ELSE Refs(st, r)
  /\ \A leaf \in Links[new] : ~SharedLeaf(leaf) => Refs(v, leaf) = Refs(st, leaf) + 1
  /\ \A r \in Roots \ {new} : \A leaf \in Links[r] : ~SharedLeaf(leaf) =>
       \/ Refs(v, leaf) = Refs(st, leaf) /\ r # old
       \/ r = old /\ (Refs(st, r) > 1 => Refs(v, leaf) + 1 >= Refs(st, leaf))

\* What UpdateRoot and RecursiveRemove do to the references when an account's
\* root changes from old, which it has one of, to new.
LEMMA SaveRefs ==
  ASSUME DocAssumption, NEW m \in Nat, NEW st, Store(st, m),
         \A r \in Roots : r \in DOMAIN st => st[r].data,
         NEW old \in Roots \cup {NoRoot}, NEW new \in Roots, old # new,
         NEW given
  PROVE  SavedFrom(m, st, old, new,
                   LET u == UpdateRoot(st, old, new, given)
                   IN  IF old = NoRoot THEN u ELSE RecursiveRemove(u, old))
<1> DEFINE w == AddLinks(st, new, given)
           x == RemoveLinks(w, RemovedLinks(old, new))
           u == UpdateRoot(st, old, new, given)
           links == IF old \in DOMAIN u /\ u[old].refs = 1 THEN LinksOf(old) ELSE {}
           y == RemoveLinks(u, links)
           v == IF old = NoRoot THEN u ELSE RecursiveRemove(u, old)
<1>0. /\ NoRoot \notin Roots /\ Roots \cap Leaves = {}
      /\ Docs = Roots \cup Leaves /\ \A r \in Roots : Links[r] \in SUBSET Leaves
  BY DocConstants
<1>1. /\ LinksOf(new) = Links[new] /\ Links[new] \in SUBSET Leaves
      /\ LinksOf(old) \in SUBSET Leaves
      /\ old \in Roots => LinksOf(old) = Links[old]
      /\ old = NoRoot => LinksOf(old) = {}
  BY <1>0 DEF LinksOf
<1>2. /\ Store(w, m + 1)
      /\ \A d : Refs(w, d) = IF d \in Links[new] THEN Refs(st, d) + 1 ELSE Refs(st, d)
      /\ DOMAIN w = DOMAIN st \cup Links[new]
      /\ \A d \in DOMAIN st \ Links[new] : w[d] = st[d]
  <2>1. Links[new] \in SUBSET Docs
    BY <1>0, <1>1
  <2>2. w = AddEach(st, Links[new], given)
    BY <1>1 DEF AddLinks
  <2>3. EachMore(m, st, Links[new], AddEach(st, Links[new], given))
    BY <2>1, AddEachRefs
  <2> HIDE DEF w
  <2>4. QED
    BY <2>2, <2>3 DEF EachMore
<1>3. /\ Store(x, m + 1)
      /\ DOMAIN x \subseteq DOMAIN w
      /\ \A d : Refs(x, d) = IF d \in RemovedLinks(old, new) /\ Refs(w, d) # 0
                             THEN Refs(w, d) - 1 ELSE Refs(w, d)
      /\ \A d \in DOMAIN x \ RemovedLinks(old, new) : x[d] = w[d]
  <2> HIDE DEF w
  <2>1. m + 1 \in Nat
    OBVIOUS
  <2>2. QED
    BY <1>2, <2>1, RemoveLinksRefs
<1>4. /\ Store(u, m + 2)
      /\ new \in DOMAIN u /\ u[new].data
      /\ Refs(u, new) = Refs(x, new) + 1
      /\ \A d : d # new => Refs(u, d) = Refs(x, d)
      /\ \A d \in DOMAIN u : d # new => d \in DOMAIN x /\ u[d] = x[d]
  <2>1. u = Add(x, new, TRUE)
    BY DEF UpdateRoot
  <2> HIDE DEF x, u
  <2>2. m + 1 \in Nat /\ (m + 1) + 1 = m + 2 /\ new \in Docs /\ TRUE \in BOOLEAN
    BY <1>0
  <2>3. DOMAIN u = DOMAIN x \cup {new}
    BY <2>1 DEF Add
  <2>4. OneMore(m + 1, x, new, TRUE, Add(x, new, TRUE))
    BY <1>3, <2>2, AddRefs, Zenon
  <2>5. QED
    BY <2>1, <2>2, <2>3, <2>4 DEF Refs, OneMore
<1>5. /\ Store(y, m + 2)
      /\ DOMAIN y \subseteq DOMAIN u
      /\ \A d : Refs(y, d) = IF d \in links /\ Refs(u, d) # 0 THEN Refs(u, d) - 1 ELSE Refs(u, d)
      /\ \A d \in DOMAIN y \ links : y[d] = u[d]
  <2> HIDE DEF u, links
  <2>1. m + 2 \in Nat
    OBVIOUS
  <2>2. QED
    BY <1>4, <2>1, RemoveLinksRefs
<1>6. old \in Roots =>
        /\ Store(v, m + 2)
        /\ DOMAIN v \subseteq DOMAIN y
        /\ Refs(v, old) = IF Refs(y, old) = 0 THEN 0 ELSE Refs(y, old) - 1
        /\ \A d : d # old => Refs(v, d) = Refs(y, d)
        /\ \A d \in DOMAIN v : v[d].data = y[d].data
  <2> SUFFICES ASSUME old \in Roots
               PROVE  /\ Store(v, m + 2)
                      /\ DOMAIN v \subseteq DOMAIN y
                      /\ Refs(v, old) = IF Refs(y, old) = 0 THEN 0 ELSE Refs(y, old) - 1
                      /\ \A d : d # old => Refs(v, d) = Refs(y, d)
                      /\ \A d \in DOMAIN v : v[d].data = y[d].data
    OBVIOUS
  <2>1. v = RemoveRef(y, old)
    BY <1>0 DEF RecursiveRemove, Held
  <2> HIDE DEF y, v
  <2>2. m + 2 \in Nat
    OBVIOUS
  <2>3. QED
    BY <1>5, <2>1, <2>2, RemoveRefRefs
<1>7. old = NoRoot => v = u
  OBVIOUS
<1>8. links \in SUBSET Leaves
  BY <1>1
<1>9. Refs(u, old) # 1 => links = {}
  BY DEF Refs
<1>10. links \in {{}, LinksOf(old)}
  OBVIOUS
<1> HIDE DEF w, x, u, links, y, v
<1>11. \A r \in Roots : Refs(x, r) = Refs(st, r)
  BY <1>0, <1>1, <1>2, <1>3 DEF RemovedLinks
<1>12. \A d : Refs(st, d) \in Nat
  BY RefsType
<1>13. \A r \in Roots : Refs(v, r) =
         IF r = new THEN Refs(st, r) + 1
         ELSE IF r = old /\ Refs(st, r) # 0 THEN Refs(st, r) - 1
         ELSE Refs(st, r)
  BY <1>0, <1>4, <1>5, <1>6, <1>7, <1>8, <1>11, <1>12
<1>14. \A r \in Roots : r \in DOMAIN v => v[r].data
  <2>1. ASSUME NEW r \in Roots, r \in DOMAIN u PROVE u[r].data
    <3>1. CASE r = new
      BY <1>4, <3>1
    <3>2. CASE r # new
      <4>1. r \in DOMAIN x /\ u[r] = x[r]
        BY <1>4, <2>1, <3>2
      <4>2. r \notin RemovedLinks(old, new) /\ r \notin Links[new]
        BY <1>0, <1>1 DEF RemovedLinks
      <4>3. r \in DOMAIN st /\ u[r] = st[r]
        BY <1>2, <1>3, <4>1, <4>2
      <4>4. QED
        BY <4>3
    <3>3. QED
      BY <3>1, <3>2
  <2>2. CASE old = NoRoot
    BY <1>7, <2>1, <2>2
  <2>3. CASE old \in Roots
    <3>1. ASSUME NEW r \in Roots, r \in DOMAIN v PROVE v[r].data
      <4>1. r \in DOMAIN y /\ v[r].data = y[r].data /\ r \notin links
        BY <1>0, <1>6, <1>8, <2>3, <3>1
      <4>2. r \in DOMAIN u /\ y[r] = u[r]
        BY <1>5, <4>1
      <4>3. QED
        BY <2>1, <4>1, <4>2
    <3>2. QED
      BY <3>1
  <2>4. QED
    BY <2>2, <2>3
<1>15. ASSUME NEW r \in Roots, NEW leaf \in Links[r], ~SharedLeaf(leaf)
       PROVE  /\ leaf \notin Roots
              /\ \A q \in Roots : q # r => leaf \notin Links[q]
  BY <1>0, <1>15 DEF SharedLeaf
<1>16. ASSUME NEW leaf \in Links[new], ~SharedLeaf(leaf) PROVE Refs(v, leaf) = Refs(st, leaf) + 1
  <2>1. /\ leaf \notin LinksOf(old) /\ leaf \notin RemovedLinks(old, new)
        /\ leaf # new /\ (old \in Roots => leaf # old)
    BY <1>0, <1>1, <1>15, <1>16 DEF RemovedLinks
  <2>2. QED
    BY <1>2, <1>3, <1>4, <1>5, <1>6, <1>7, <1>10, <2>1
<1>17. ASSUME NEW r \in Roots \ {new}, NEW leaf \in Links[r], ~SharedLeaf(leaf), r # old
       PROVE  Refs(v, leaf) = Refs(st, leaf)
  <2>1. /\ leaf \notin LinksOf(old) /\ leaf \notin RemovedLinks(old, new)
        /\ leaf \notin Links[new] /\ leaf # new /\ (old \in Roots => leaf # old)
    BY <1>0, <1>1, <1>15, <1>17 DEF RemovedLinks
  <2>2. QED
    BY <1>2, <1>3, <1>4, <1>5, <1>6, <1>7, <1>10, <2>1
<1>18. ASSUME NEW leaf \in Links[old], old \in Roots, ~SharedLeaf(leaf), Refs(st, old) > 1
       PROVE  Refs(v, leaf) + 1 >= Refs(st, leaf)
  <2>1. leaf \notin Links[new] /\ leaf # new /\ (old \in Roots => leaf # old)
    BY <1>0, <1>15, <1>18
  <2>2. Refs(u, old) = Refs(st, old)
    BY <1>4, <1>11, <1>18
  <2>3. links = {}
    BY <1>9, <1>18, <2>2
  <2>4. Refs(v, leaf) = Refs(x, leaf)
    BY <1>4, <1>5, <1>6, <1>18, <2>1, <2>3
  <2>5. Refs(w, leaf) = Refs(st, leaf)
    BY <1>2, <2>1
  <2>6. Refs(st, leaf) \in Nat
    BY <1>12
  <2>7. QED
    BY <1>3, <2>4, <2>5, <2>6
<1>19. Store(v, m + 2)
  BY <1>4, <1>6, <1>7
<1>20. QED
  BY <1>13, <1>14, <1>16, <1>17, <1>18, <1>19 DEF SavedFrom, u, v

\* They are finitely many.
LEMMA UsersFinite ==
  ASSUME DocAssumption, NEW r
  PROVE  IsFiniteSet(Users(r)) /\ Cardinality(Users(r)) \in Nat
<1>1. Users(r) \subseteq Accounts
  BY DEF Users
<1>2. QED
  BY <1>1, DocConstants, FS_Subset, FS_CardinalityType

\* The empty store is kept.
LEMMA DocsKeptInit == ASSUME DocAssumption PROVE DocsInit => DocsKept
<1> SUFFICES ASSUME DocsInit PROVE DocsKept
  OBVIOUS
<1>1. pastes = [d \in {} |-> {}] /\ root = [a \in Accounts |-> NoRoot]
  BY DEF DocsInit
<1>2. DOMAIN pastes = {}
  BY <1>1
<1>3. Store(pastes, MaxRefs + 1)
  BY <1>1, <1>2 DEF Store
<1>4. ASSUME NEW r \in Roots PROVE Cardinality(Users(r)) = 0
  <2>1. Users(r) = {}
    BY <1>1, DocConstants DEF Users
  <2>2. QED
    BY <2>1, FS_EmptySet
<1>5. Counted
  BY <1>2, <1>4 DEF Counted, Refs
<1>6. QED
  BY <1>3, <1>5 DEF DocsKept, DocsInit

\* A save: the new root gains an account and a reference, the old one loses
\* them.  The links of the old root may lose two references in one save, but
\* only with the last reference to it, and then no account has it any more.
LEMMA SaveKeeps ==
  ASSUME DocAssumption, DocsKept, NEW a \in Accounts, NEW new \in Roots, NEW given,
         Save(a, new, given)
  PROVE  DocsKept'
<1> DEFINE old == root[a]
           m == MaxRefs - 1
<1>1. old \in Roots \cup {NoRoot} /\ new # old
  BY DEF DocsKept, Save
<1>2. m \in Nat /\ m + 2 = MaxRefs + 1 /\ NoRoot \notin Roots
  BY DocConstants
<1>3. Store(pastes, m)
  <2>1. \A d \in DOMAIN pastes : pastes[d].refs < MaxRefs
    BY DEF Save
  <2>2. ASSUME NEW d \in DOMAIN pastes PROVE pastes[d] \in [data : BOOLEAN, refs : 1..m]
    <3>1. pastes[d] \in [data : BOOLEAN, refs : 1..(MaxRefs + 1)] /\ pastes[d].refs < MaxRefs
      BY <2>1 DEF DocsKept, Store
    <3>2. pastes[d].refs \in 1..m
      BY <1>2, <3>1
    <3>3. QED
      BY <3>1, <3>2
  <2>3. QED
    BY <2>2 DEF DocsKept, Store
<1>4. \A r \in Roots : r \in DOMAIN pastes => pastes[r].data
  BY DEF DocsKept, Counted
<1>5. pastes' = LET u == UpdateRoot(pastes, old, new, given)
                IN  IF old = NoRoot THEN u ELSE RecursiveRemove(u, old)
  BY DEF Save
<1> HIDE DEF m
<1>6. /\ Store(pastes', m + 2)
      /\ \A r \in Roots : r \in DOMAIN pastes' => pastes'[r].data
      /\ \A r \in Roots : Refs(pastes', r) =
           IF r = new THEN Refs(pastes, r) + 1
           ELSE IF r = old /\ Refs(pastes, r) # 0 THEN Refs(pastes, r) - 1
           ELSE Refs(pastes, r)
      /\ \A leaf \in Links[new] : ~SharedLeaf(leaf) => Refs(pastes', leaf) = Refs(pastes, leaf) + 1
      /\ \A r \in Roots \ {new} : \A leaf \in Links[r] : ~SharedLeaf(leaf) =>
           \/ Refs(pastes', leaf) = Refs(pastes, leaf) /\ r # old
           \/ r = old /\ (Refs(pastes, r) > 1 => Refs(pastes', leaf) + 1 >= Refs(pastes, leaf))
  <2> HIDE DEF old
  <2>1. SavedFrom(m, pastes, old, new, pastes')
    BY <1>1, <1>2, <1>3, <1>4, <1>5, SaveRefs
  <2>2. QED
    BY <2>1 DEF SavedFrom
<1>7. /\ root' = [root EXCEPT ![a] = new] /\ root \in [Accounts -> Roots \cup {NoRoot}]
      /\ syncStatus' = [syncStatus EXCEPT ![a] = syncStatus'[a]]
      /\ syncStatus'[a] \in {Complete, SomeMissing}
  BY DEF Save, DocsKept
<1>8. ASSUME NEW r \in Roots
      PROVE  /\ IsFiniteSet(Users(r)) /\ Cardinality(Users(r)) \in Nat
             /\ Cardinality(Users(r)) <= Refs(pastes, r)
             /\ \A leaf \in Links[r] : ~SharedLeaf(leaf) => Cardinality(Users(r)) <= Refs(pastes, leaf)
  BY UsersFinite DEF DocsKept, Counted
<1>9. \A d : Refs(pastes, d) \in Nat /\ Refs(pastes', d) \in Nat
  BY <1>2, <1>3, <1>6, RefsType
<1>10. ASSUME NEW r \in Roots
       PROVE  /\ Cardinality(Users(r)') <= Refs(pastes', r)
              /\ \A leaf \in Links[r] : ~SharedLeaf(leaf) => Cardinality(Users(r)') <= Refs(pastes', leaf)
  <2>1. CASE r = new
    <3>1. Users(r)' = Users(r) \cup {a} /\ a \notin Users(r)
      BY <1>1, <1>7, <2>1 DEF Users
    <3>2. Cardinality(Users(r)') = Cardinality(Users(r)) + 1
      BY <1>8, <3>1, FS_AddElement
    <3>3. QED
      BY <1>6, <1>8, <1>9, <2>1, <3>2
  <2>2. CASE r = old
    <3>1. Users(r)' = Users(r) \ {a} /\ a \in Users(r)
      BY <1>1, <1>7, <2>2 DEF Users
    <3>2. Cardinality(Users(r)') = Cardinality(Users(r)) - 1
      BY <1>8, <3>1, FS_RemoveElement
    <3>3. Refs(pastes', r) = IF Refs(pastes, r) # 0 THEN Refs(pastes, r) - 1 ELSE Refs(pastes, r)
      BY <1>1, <1>6, <2>2
    <3>4. Cardinality(Users(r)') <= Refs(pastes', r)
      BY <1>8, <1>9, <3>2, <3>3
    <3>5. ASSUME NEW leaf \in Links[r], ~SharedLeaf(leaf)
          PROVE  Cardinality(Users(r)') <= Refs(pastes', leaf)
      <4>1. Refs(pastes, r) > 1 => Refs(pastes', leaf) + 1 >= Refs(pastes, leaf)
        BY <1>1, <1>6, <2>2, <3>5
      <4>2. Cardinality(Users(r)) <= Refs(pastes, leaf) /\ Cardinality(Users(r)) <= Refs(pastes, r)
        BY <1>8, <3>5
      <4>3. QED
        BY <1>8, <1>9, <3>2, <4>1, <4>2
    <3>6. QED
      BY <3>4, <3>5
  <2>3. CASE r # new /\ r # old
    <3>1. Users(r)' = Users(r)
      BY <1>7, <2>3 DEF Users
    <3>2. Refs(pastes', r) = Refs(pastes, r)
      BY <1>6, <2>3
    <3>3. \A leaf \in Links[r] : ~SharedLeaf(leaf) => Refs(pastes', leaf) = Refs(pastes, leaf)
      BY <1>6, <2>3
    <3>4. QED
      BY <1>8, <3>1, <3>2, <3>3
  <2>4. QED
    BY <2>1, <2>2, <2>3
<1>11. Counted'
  BY <1>6, <1>10 DEF Counted
<1>12. root' \in [Accounts -> Roots \cup {NoRoot}]
  BY <1>7
<1>13. syncStatus' \in [Accounts -> {Complete, SomeMissing}]
  BY <1>7 DEF DocsKept
<1>14. QED
  BY <1>2, <1>6, <1>11, <1>12, <1>13 DEF DocsKept

\* Forgetting content takes an account from its root and leaves the references.
LEMMA ForgetKeeps ==
  ASSUME DocAssumption, DocsKept, NEW a \in Accounts, ForgetContent(a)
  PROVE  DocsKept'
<1>1. pastes' = pastes /\ syncStatus' = syncStatus /\ root' = [root EXCEPT ![a] = NoRoot]
  BY DEF ForgetContent
<1>2. ASSUME NEW r \in Roots
      PROVE  /\ Cardinality(Users(r)') <= Cardinality(Users(r))
             /\ Cardinality(Users(r)') \in Nat /\ Cardinality(Users(r)) \in Nat
  <2>1. Users(r)' \subseteq Users(r)
    BY <1>1, DocConstants DEF Users, DocsKept
  <2>2. IsFiniteSet(Users(r))
    BY UsersFinite
  <2>3. QED
    BY <2>1, <2>2, FS_Subset, FS_CardinalityType
<1>3. \A d : Refs(pastes, d) \in Nat
  BY RefsType, DocConstants DEF DocsKept
<1>4. Counted'
  BY <1>1, <1>2, <1>3 DEF Counted, DocsKept
<1>5. QED
  BY <1>1, <1>4 DEF DocsKept

\* The swap only adds references, to leaves.
LEMMA SwapKeeps ==
  ASSUME DocAssumption, DocsKept, NEW a \in Accounts, NEW given \in SUBSET Leaves,
         SwapLinkedDocs(a, given)
  PROVE  DocsKept'
<1> DEFINE fetched == Lacking(a) \cap given
<1>1. fetched \in SUBSET Docs /\ Roots \cap fetched = {}
  BY DocConstants
<1>2. /\ pastes' = AddEach(pastes, fetched, fetched)
      /\ root' = root
      /\ \A d \in DOMAIN pastes : pastes[d].refs < MaxRefs
      /\ syncStatus' \in [Accounts -> {Complete, SomeMissing}]
  BY DEF SwapLinkedDocs, DocsKept
<1> HIDE DEF fetched
<1>3. Store(pastes, MaxRefs)
  <2>1. ASSUME NEW d \in DOMAIN pastes PROVE pastes[d] \in [data : BOOLEAN, refs : 1..MaxRefs]
    <3>1. pastes[d] \in [data : BOOLEAN, refs : 1..(MaxRefs + 1)] /\ pastes[d].refs < MaxRefs
      BY <1>2 DEF DocsKept, Store
    <3>2. pastes[d].refs \in 1..MaxRefs
      BY <3>1, DocConstants
    <3>3. QED
      BY <3>1, <3>2
  <2>2. QED
    BY <2>1 DEF DocsKept, Store
<1>4. EachMore(MaxRefs, pastes, fetched, pastes')
  BY <1>1, <1>2, <1>3, AddEachRefs, DocConstants
<1>5. \A d : Refs(pastes, d) \in Nat /\ Refs(pastes', d) >= Refs(pastes, d)
  BY <1>3, <1>4, RefsType, DocConstants DEF EachMore
<1>6. \A r \in Roots : r \in DOMAIN pastes' => r \in DOMAIN pastes /\ pastes'[r] = pastes[r]
  BY <1>1, <1>4 DEF EachMore
<1>7. ASSUME NEW r \in Roots PROVE Users(r)' = Users(r) /\ Cardinality(Users(r)) \in Nat
  BY <1>2, UsersFinite DEF Users
<1>8. Counted'
  <2>1. ASSUME NEW r \in Roots
        PROVE  /\ Cardinality(Users(r)') <= Refs(pastes', r)
               /\ r \in DOMAIN pastes' => pastes'[r].data
               /\ \A leaf \in Links[r] : ~SharedLeaf(leaf) => Cardinality(Users(r)') <= Refs(pastes', leaf)
    <3>1. /\ Cardinality(Users(r)) <= Refs(pastes, r)
          /\ r \in DOMAIN pastes => pastes[r].data
          /\ \A leaf \in Links[r] : ~SharedLeaf(leaf) => Cardinality(Users(r)) <= Refs(pastes, leaf)
      BY DEF DocsKept, Counted
    <3>2. r \in DOMAIN pastes' => pastes'[r].data
      BY <1>6, <3>1
    <3>3. \A d : Cardinality(Users(r)) <= Refs(pastes, d) => Cardinality(Users(r)') <= Refs(pastes', d)
      <4>1. \A d : Refs(pastes', d) \in Nat
        BY <1>4, RefsType, DocConstants DEF EachMore
      <4>2. QED
        BY <1>5, <1>7, <4>1
    <3>4. QED
      BY <3>1, <3>2, <3>3
  <2>2. QED
    BY <2>1 DEF Counted
<1>9. QED
  BY <1>2, <1>4, <1>8 DEF DocsKept, EachMore

\* Every step of DocStore keeps the references enough.
LEMMA DocsKeptStep == ASSUME DocAssumption PROVE DocsKept /\ [DocsNext]_docsVars => DocsKept'
<1> SUFFICES ASSUME DocsKept, [DocsNext]_docsVars PROVE DocsKept'
  OBVIOUS
<1>1. CASE UNCHANGED docsVars
  <2>1. pastes' = pastes /\ root' = root /\ syncStatus' = syncStatus
    BY <1>1 DEF docsVars
  <2>2. Counted'
    BY <2>1 DEF DocsKept, Counted, Users
  <2>3. QED
    BY <2>1, <2>2 DEF DocsKept
<1>2. CASE DocsNext
  <2>1. PICK a \in Accounts :
          \/ \E r \in Roots : \E given \in SUBSET LinksOf(r) : Save(a, r, given)
          \/ ForgetContent(a)
          \/ \E given \in SUBSET Leaves : SwapLinkedDocs(a, given)
    BY <1>2 DEF DocsNext
  <2>2. QED
    BY <2>1, SaveKeeps, ForgetKeeps, SwapKeeps
<1>3. QED
  BY <1>1, <1>2

\* For any accounts, links and bounds: the variables of DocStore have their
\* types, and no count of references passes below 1.
THEOREM DocsTypeCorrect == ASSUME DocAssumption PROVE DocsSpec => []DocsTypeOK
<1>1. DocsKept => DocsTypeOK
  BY DEF DocsKept, Store, DocsTypeOK
<1>2. QED
  BY <1>1, DocsKeptInit, DocsKeptStep, PTL DEF DocsSpec

\* What has as many references as the accounts of a root in use is there.
LEMMA HeldIfUsed ==
  ASSUME DocAssumption, DocsKept, NEW a \in Accounts, root[a] # NoRoot
  PROVE  /\ root[a] \in Roots
         /\ \A d : Cardinality(Users(root[a])) <= Refs(pastes, d) => d \in DOMAIN pastes
<1>1. root[a] \in Roots
  BY DEF DocsKept
<1>2. a \in Users(root[a]) /\ IsFiniteSet(Users(root[a])) /\ Cardinality(Users(root[a])) \in Nat
  BY UsersFinite DEF Users
<1>3. Cardinality(Users(root[a])) # 0
  BY <1>2, FS_EmptySet
<1>4. QED
  BY <1>1, <1>2, <1>3 DEF Refs

\* RootsAreHeld: UpdateRoot finds the root document that an account has
\* (ipldwalk.go panics if it does not), however many accounts share, replace,
\* forget and save it.
THEOREM DocsRootsAreHeld == ASSUME DocAssumption PROVE DocsSpec => []RootsAreHeld
<1>1. DocsKept => RootsAreHeld
  <2> SUFFICES ASSUME DocsKept, NEW a \in Accounts, root[a] # NoRoot
               PROVE  root[a] \in DOMAIN pastes /\ pastes[root[a]].data
    BY DEF RootsAreHeld, HasData, Held
  <2>1. QED
    BY HeldIfUsed DEF DocsKept, Counted
<1>2. QED
  BY <1>1, DocsKeptInit, DocsKeptStep, PTL DEF DocsSpec

\* LinksAreHeld: what only one root document links to is in the store, as data
\* or as a placeholder, as long as an account has that root.
THEOREM DocsLinksAreHeld == ASSUME DocAssumption PROVE DocsSpec => []LinksAreHeld
<1>1. DocsKept => LinksAreHeld
  <2> SUFFICES ASSUME DocsKept, NEW a \in Accounts, NEW leaf \in LinksOf(root[a]),
                      ~SharedLeaf(leaf)
               PROVE  leaf \in DOMAIN pastes
    BY DEF LinksAreHeld, Held
  <2>1. root[a] # NoRoot /\ leaf \in Links[root[a]]
    BY DEF LinksOf
  <2>2. QED
    BY <2>1, HeldIfUsed DEF DocsKept, Counted
<1>2. QED
  BY <1>1, DocsKeptInit, DocsKeptStep, PTL DEF DocsSpec

-----------------------------------------------------------------------------
(***************************************************************************)
(* Merklehead: paths.                                                      *)
(***************************************************************************)
Words == Seq(Digits)

\* Two words with the same digits are the same.
LEMMA SameWord ==
  ASSUME NEW p \in Words, NEW q \in Words, Len(p) = Len(q),
         \A i \in 1..Len(p) : p[i] = q[i]
  PROVE  p = q
  BY SeqEqual DEF Words

\* A word is cut in two at any level.
LEMMA CutWord ==
  ASSUME NEW a \in Words, NEW k \in 0..Len(a)
  PROVE  /\ Path(a, k) \in Words /\ Len(Path(a, k)) = k
         /\ \A i \in 1..k : Path(a, k)[i] = a[i]
         /\ Rest(a, k) \in Words /\ Len(Rest(a, k)) = Len(a) - k
         /\ \A i \in 1..(Len(a) - k) : Rest(a, k)[i] = a[k + i]
<1>1. Len(a) \in Nat /\ \A i \in 1..Len(a) : a[i] \in Digits
  BY LenProperties, ElementOfSeq DEF Words
<1>2. /\ Path(a, k) \in Words /\ Len(Path(a, k)) = k
      /\ \A i \in 1..k : Path(a, k)[i] = a[i]
  BY <1>1, SubSeqProperties DEF Words, Path
<1>3. /\ Rest(a, k) \in Words /\ Len(Rest(a, k)) = Len(a) - k
      /\ \A i \in 1..(Len(a) - k) : Rest(a, k)[i] = a[k + i]
  <2>1. \A i \in (k + 1)..Len(a) : a[i] \in Digits
    BY <1>1
  <2>2. /\ Rest(a, k) \in Seq(Digits)
        /\ Len(Rest(a, k)) = IF k + 1 <= Len(a) THEN Len(a) - (k + 1) + 1 ELSE 0
        /\ \A i \in 1..(Len(a) - (k + 1) + 1) : Rest(a, k)[i] = a[(k + 1) + i - 1]
    BY <1>1, <2>1, SubSeqProperties DEF Rest
  <2>3. QED
    BY <1>1, <2>2 DEF Words
<1>4. QED
  BY <1>2, <1>3

\* Two words joined.
LEMMA JoinWords ==
  ASSUME NEW p \in Words, NEW t \in Words
  PROVE  /\ p \o t \in Words /\ Len(p \o t) = Len(p) + Len(t)
         /\ Len(p) \in Nat /\ Len(t) \in Nat
         /\ \A i \in 1..Len(p) : (p \o t)[i] = p[i]
         /\ \A i \in 1..Len(t) : (p \o t)[Len(p) + i] = t[i]
<1>1. Len(p) \in Nat /\ Len(t) \in Nat
  BY LenProperties DEF Words
<1>2. /\ p \o t \in Words /\ Len(p \o t) = Len(p) + Len(t)
      /\ \A i \in 1..(Len(p) + Len(t)) : (p \o t)[i] = IF i <= Len(p) THEN p[i] ELSE t[i - Len(p)]
  BY ConcatProperties DEF Words
<1>3. QED
  BY <1>1, <1>2

\* What was cut is joined again.
LEMMA CutJoined ==
  ASSUME NEW a \in Words, NEW k \in 0..Len(a)
  PROVE  Path(a, k) \o Rest(a, k) = a
<1> DEFINE p == Path(a, k)
           t == Rest(a, k)
<1>1. Len(a) \in Nat
  BY LenProperties DEF Words
<1>2. /\ p \in Words /\ Len(p) = k /\ \A i \in 1..k : p[i] = a[i]
      /\ t \in Words /\ Len(t) = Len(a) - k /\ \A i \in 1..(Len(a) - k) : t[i] = a[k + i]
  BY CutWord
<1> HIDE DEF p, t
<1>3. /\ p \o t \in Words /\ Len(p \o t) = Len(p) + Len(t)
      /\ \A i \in 1..Len(p) : (p \o t)[i] = p[i]
      /\ \A i \in 1..Len(t) : (p \o t)[Len(p) + i] = t[i]
  BY <1>2, JoinWords
<1>4. ASSUME NEW i \in 1..Len(a), i > k PROVE (p \o t)[i] = a[i]
  <2>1. i - k \in 1..(Len(a) - k) /\ k + (i - k) = i
    BY <1>1, <1>4
  <2>2. (p \o t)[k + (i - k)] = t[i - k] /\ t[i - k] = a[k + (i - k)]
    BY <1>2, <1>3, <2>1
  <2>3. QED
    BY <2>1, <2>2
<1>5. ASSUME NEW i \in 1..Len(a), i <= k PROVE (p \o t)[i] = a[i]
  BY <1>1, <1>2, <1>3, <1>5
<1>6. Len(p \o t) = Len(a)
  BY <1>1, <1>2, <1>3
<1>7. p \o t = a
  <2> DEFINE b == p \o t
  <2>1. b \in Words /\ Len(b) = Len(a) /\ \A i \in 1..Len(b) : b[i] = a[i]
    BY <1>1, <1>3, <1>4, <1>5, <1>6
  <2> HIDE DEF b
  <2>2. b = a
    BY <2>1, SameWord
  <2>3. QED
    BY <2>2 DEF b
<1>8. QED
  BY <1>7 DEF p, t

\* What was joined is cut again.
LEMMA JoinedCut ==
  ASSUME NEW p \in Words, NEW t \in Words
  PROVE  Path(p \o t, Len(p)) = p /\ Rest(p \o t, Len(p)) = t
<1> DEFINE a == p \o t
<1>1. /\ a \in Words /\ Len(a) = Len(p) + Len(t) /\ Len(p) \in Nat /\ Len(t) \in Nat
      /\ \A i \in 1..Len(p) : a[i] = p[i]
      /\ \A i \in 1..Len(t) : a[Len(p) + i] = t[i]
  BY JoinWords
<1> HIDE DEF a
<1>2. Len(p) \in 0..Len(a) /\ Len(a) - Len(p) = Len(t)
  BY <1>1
<1>3. /\ Path(a, Len(p)) \in Words /\ Len(Path(a, Len(p))) = Len(p)
      /\ \A i \in 1..Len(p) : Path(a, Len(p))[i] = a[i]
      /\ Rest(a, Len(p)) \in Words /\ Len(Rest(a, Len(p))) = Len(a) - Len(p)
      /\ \A i \in 1..(Len(a) - Len(p)) : Rest(a, Len(p))[i] = a[Len(p) + i]
  BY <1>1, <1>2, CutWord
<1>4. Path(a, Len(p)) = p
  BY <1>1, <1>3, SameWord
<1>5. Rest(a, Len(p)) = t
  BY <1>1, <1>2, <1>3, SameWord
<1>6. QED
  BY <1>4, <1>5 DEF a

\* Digit by digit.
LEMMA UnderMeans ==
  ASSUME NEW p \in Words, NEW q \in Words
  PROVE  /\ Len(p) \in Nat /\ Len(q) \in Nat
         /\ Under(q, p) <=> Len(p) <= Len(q) /\ \A i \in 1..Len(p) : q[i] = p[i]
<1>1. Len(p) \in Nat /\ Len(q) \in Nat
  BY LenProperties DEF Words
<1>2. ASSUME Len(p) <= Len(q) PROVE Path(q, Len(p)) = p <=> \A i \in 1..Len(p) : q[i] = p[i]
  <2>1. /\ Path(q, Len(p)) \in Words /\ Len(Path(q, Len(p))) = Len(p)
        /\ \A i \in 1..Len(p) : Path(q, Len(p))[i] = q[i]
    BY <1>1, <1>2, CutWord
  <2>2. QED
    BY <2>1, SameWord
<1>3. QED
  BY <1>1, <1>2 DEF Under

\* Documents above one another.
LEMMA UnderOrder ==
  ASSUME NEW p \in Words, NEW q \in Words, NEW r \in Words
  PROVE  /\ Under(p, p)
         /\ Under(q, p) /\ Under(r, q) => Under(r, p)
         /\ Under(r, p) /\ Under(r, q) => Under(q, p) \/ Under(p, q)
         /\ Under(r, p) /\ Under(r, q) /\ Len(p) <= Len(q) => Under(q, p)
         /\ Under(q, p) /\ (Under(p, q) \/ Len(p) = Len(q)) => p = q
<1> USE UnderMeans
<1>1. Under(p, p)
  OBVIOUS
<1>2. Under(q, p) /\ Under(r, q) => Under(r, p)
  OBVIOUS
<1>3. Under(r, p) /\ Under(r, q) /\ Len(p) <= Len(q) => Under(q, p)
  OBVIOUS
<1>4. Under(r, p) /\ Under(r, q) /\ Len(q) <= Len(p) => Under(p, q)
  OBVIOUS
<1>5. Under(q, p) /\ (Under(p, q) \/ Len(p) = Len(q)) => p = q
  BY SameWord
<1>6. QED
  BY <1>1, <1>2, <1>3, <1>4, <1>5

\* A word lies under its paths.
LEMMA UnderPath ==
  ASSUME NEW a \in Words, NEW j \in 0..Len(a), NEW k \in 0..Len(a)
  PROVE  /\ Under(a, Path(a, k))
         /\ j <= k => Under(Path(a, k), Path(a, j))
         /\ j # k => Path(a, j) # Path(a, k)
<1>1. Len(a) \in Nat
  BY LenProperties DEF Words
<1>2. /\ Path(a, k) \in Words /\ Len(Path(a, k)) = k /\ \A i \in 1..k : Path(a, k)[i] = a[i]
      /\ Path(a, j) \in Words /\ Len(Path(a, j)) = j /\ \A i \in 1..j : Path(a, j)[i] = a[i]
  BY CutWord
<1>3. QED
  BY <1>1, <1>2, UnderMeans

LEMMA UnderJoined ==
  ASSUME NEW p \in Words, NEW t \in Words
  PROVE  p \o t \in Words /\ Under(p \o t, p)
<1> DEFINE a == p \o t
<1>1. /\ a \in Words /\ Len(p) <= Len(a) /\ Len(p) \in Nat
      /\ \A i \in 1..Len(p) : a[i] = p[i]
  BY JoinWords
<1> HIDE DEF a
<1>2. a \in Words /\ Under(a, p)
  BY <1>1, UnderMeans
<1>3. QED
  BY <1>2 DEF a

\* One level down.
LEMMA ChildOf ==
  ASSUME NEW p \in Words, NEW d \in Digits
  PROVE  /\ Append(p, d) \in Words /\ Len(Append(p, d)) = Len(p) + 1 /\ Len(p) \in Nat
         /\ Last(Append(p, d)) = d
         /\ Under(Append(p, d), p) /\ ~Under(p, Append(p, d))
<1>1. /\ Append(p, d) \in Words /\ Len(Append(p, d)) = Len(p) + 1 /\ Len(p) \in Nat
      /\ \A i \in 1..Len(p) : Append(p, d)[i] = p[i]
      /\ Append(p, d)[Len(p) + 1] = d
  BY AppendProperties, LenProperties DEF Words
<1>2. Last(Append(p, d)) = d
  BY <1>1 DEF Last
<1>3. Under(Append(p, d), p) /\ ~Under(p, Append(p, d))
  <2> DEFINE c == Append(p, d)
  <2>1. /\ c \in Words /\ Len(c) = Len(p) + 1 /\ Len(p) \in Nat
        /\ \A i \in 1..Len(p) : c[i] = p[i]
    BY <1>1
  <2> HIDE DEF c
  <2>2. Under(c, p) /\ ~Under(p, c)
    BY <2>1, UnderMeans
  <2>3. QED
    BY <2>2 DEF c
<1>4. QED
  BY <1>1, <1>2, <1>3

LEMMA AboveChild ==
  ASSUME NEW p \in Words, NEW d \in Digits, NEW q \in Words, Under(Append(p, d), q)
  PROVE  q = Append(p, d) \/ Under(p, q)
<1> DEFINE c == Append(p, d)
<1>1. c \in Words /\ Len(c) = Len(p) + 1 /\ Len(p) \in Nat /\ Under(c, p) /\ Under(c, q)
  BY ChildOf
<1> HIDE DEF c
<1>2. Len(q) \in Nat /\ Len(q) <= Len(c)
  BY <1>1, UnderMeans
<1>3. CASE Len(q) = Len(p) + 1
  <2>1. q = c
    BY <1>1, <1>3, UnderOrder
  <2>2. QED
    BY <2>1 DEF c
<1>4. CASE Len(q) <= Len(p)
  BY <1>1, <1>4, UnderOrder
<1>5. QED
  BY <1>1, <1>2, <1>3, <1>4

\* An entry keeps its whole path when its first digit becomes a link.
LEMMA DigitToPath ==
  ASSUME NEW p \in Words, NEW t \in Words, t # <<>>
  PROVE  /\ Head(t) \in Digits /\ Tail(t) \in Words /\ Len(Tail(t)) = Len(t) - 1 /\ Len(t) \in Nat
         /\ <<Head(t)>> \o Tail(t) = t
         /\ Append(p, Head(t)) \o Tail(t) = p \o t
<1>1. Head(t) \in Digits /\ Tail(t) \in Words /\ Len(Tail(t)) = Len(t) - 1 /\ Len(t) \in Nat
  BY HeadTailProperties, LenProperties DEF Words
<1>2. Len(t) >= 1
  BY <1>1, EmptySeq DEF Words
<1>3. <<Head(t)>> \o Tail(t) = t
  <2>1. SubSeq(t, 1, Len(t)) = <<t[1]>> \o SubSeq(t, 1 + 1, Len(t))
    BY <1>1, <1>2, SubSeqRecursiveFirst DEF Words
  <2>2. SubSeq(t, 1, Len(t)) = t /\ Tail(t) = SubSeq(t, 2, Len(t)) /\ Head(t) = t[1]
    BY SubSeqFull, TailIsSubSeq DEF Words
  <2>3. QED
    BY <2>1, <2>2
<1>4. Append(p, Head(t)) = p \o <<Head(t)>>
  BY <1>1, AppendIsConcat DEF Words
<1>5. <<Head(t)>> \in Seq(Digits)
  BY <1>1
<1>6. (p \o <<Head(t)>>) \o Tail(t) = p \o (<<Head(t)>> \o Tail(t))
  BY <1>1, <1>5, ConcatAssociative DEF Words
<1>7. QED
  BY <1>1, <1>3, <1>4, <1>6

-----------------------------------------------------------------------------
(***************************************************************************)
(* Merklehead: the walk down an address.                                   *)
(***************************************************************************)
\* The whole path of an entry.
Whole(p, t) == p \o t

Entry(tree, p, t) == p \in DOMAIN tree /\ t \in DOMAIN tree[p]

\* What IsTree says of one document and of two.
LEMMA TreeFacts ==
  ASSUME NEW tree, IsTree(tree)
  PROVE  /\ DOMAIN tree \subseteq Words
         /\ \A p, t : Entry(tree, p, t) =>
              /\ p \in Words /\ t \in Words /\ Len(p) + Len(t) <= AddressLength
              /\ tree[p][t] \in 1..MaxTimestamp
         /\ \A p, q \in DOMAIN tree : Under(q, p) => p = q
  BY DEF IsTree, Entry, Words

\* A walk that ends has a bottom level.
LEMMA BottomIs ==
  ASSUME NEW tree, NEW a \in Words, ~Bottomless(tree, a)
  PROVE  /\ BottomLevel(tree, a) \in 0..Len(a)
         /\ ~IsLinks(tree, Path(a, BottomLevel(tree, a)))
         /\ \A j \in 0..(BottomLevel(tree, a) - 1) : IsLinks(tree, Path(a, j))
<1> DEFINE T == {k \in 0..Len(a) : ~IsLinks(tree, Path(a, k))}
           Ends(k) == /\ ~IsLinks(tree, Path(a, k))
                      /\ \A j \in 0..(k - 1) : IsLinks(tree, Path(a, j))
<1>1. Len(a) \in Nat
  BY LenProperties DEF Words
<1>2. T \subseteq Nat /\ T # {}
  BY <1>1 DEF Bottomless
<1>3. PICK k \in T : \A j \in T : k <= j
  BY <1>2, LeastNatural
<1>4. \A j \in 0..(k - 1) : j \in 0..Len(a) /\ ~(k <= j)
  BY <1>1, <1>3
<1>5. k \in 0..Len(a) /\ Ends(k)
  BY <1>3, <1>4
<1> HIDE DEF T, Ends
<1>6. BottomLevel(tree, a) = CHOOSE i \in 0..Len(a) : Ends(i)
  BY DEF BottomLevel, Ends
<1>7. BottomLevel(tree, a) \in 0..Len(a) /\ Ends(BottomLevel(tree, a))
  BY <1>5, <1>6
<1>8. QED
  BY <1>7 DEF Ends

\* A document of timestamps on the way is where the walk ends.
LEMMA WalkFinds ==
  ASSUME NEW tree, IsTree(tree), NEW a \in Words, NEW p \in DOMAIN tree, Under(a, p)
  PROVE  ~Bottomless(tree, a) /\ BottomLevel(tree, a) = Len(p) /\ Path(a, Len(p)) = p
<1>1. p \in Words /\ Len(p) \in 0..Len(a) /\ Len(a) \in Nat /\ Path(a, Len(p)) = p
  BY TreeFacts, UnderMeans DEF Under
<1>2. ~IsLinks(tree, p)
  BY TreeFacts DEF IsLinks
<1>3. ASSUME NEW j \in 0..Len(a), j < Len(p) PROVE IsLinks(tree, Path(a, j))
  <2>1. Under(p, Path(a, j)) /\ Path(a, j) # p
    BY <1>1, <1>3, UnderPath
  <2>2. QED
    BY <2>1 DEF IsLinks
<1>4. ~Bottomless(tree, a)
  BY <1>1, <1>2 DEF Bottomless
<1>5. BottomLevel(tree, a) = Len(p)
  <2> DEFINE k == BottomLevel(tree, a)
  <2>1. /\ k \in 0..Len(a)
        /\ ~IsLinks(tree, Path(a, k))
        /\ \A j \in 0..(k - 1) : IsLinks(tree, Path(a, j))
    BY <1>4, BottomIs
  <2> HIDE DEF k
  <2>2. ~(k < Len(p))
    BY <1>1, <1>3, <2>1
  <2>3. ~(Len(p) < k)
    BY <1>1, <1>2, <2>1
  <2>4. k = Len(p)
    BY <1>1, <2>1, <2>2, <2>3
  <2>5. QED
    BY <2>4 DEF k
<1>6. QED
  BY <1>1, <1>4, <1>5

\* Where a walk ends at no document there is none above or below.
LEMMA WalkFree ==
  ASSUME NEW tree, IsTree(tree), NEW a \in Words, ~Bottomless(tree, a),
         Path(a, BottomLevel(tree, a)) \notin DOMAIN tree, NEW q \in DOMAIN tree
  PROVE  /\ ~Under(q, Path(a, BottomLevel(tree, a)))
         /\ ~Under(Path(a, BottomLevel(tree, a)), q)
<1> DEFINE k == BottomLevel(tree, a)
           p == Path(a, k)
<1>1. /\ k \in 0..Len(a)
      /\ ~IsLinks(tree, Path(a, k))
      /\ \A j \in 0..(k - 1) : IsLinks(tree, Path(a, j))
  BY BottomIs
<1> HIDE DEF k
<1>2. p \in Words /\ Len(p) = k /\ q \in Words /\ Len(q) \in Nat /\ Under(a, p) /\ Len(a) \in Nat
  BY <1>1, CutWord, UnderPath, TreeFacts, UnderMeans
<1>3. ~Under(q, p)
  BY <1>1 DEF IsLinks, k
<1>4. ASSUME Under(p, q) PROVE FALSE
  <2>1. Under(a, q) /\ Len(q) <= k
    BY <1>2, <1>4, UnderOrder, UnderMeans
  <2>2. q = Path(a, Len(q))
    BY <2>1 DEF Under
  <2>3. Len(q) # k
    BY <2>2 DEF k
  <2>4. Len(q) \in 0..(k - 1)
    BY <1>2, <2>1, <2>3, <1>1
  <2>5. IsLinks(tree, q)
    BY <1>1, <2>2, <2>4
  <2>6. QED
    BY <2>5, TreeFacts DEF IsLinks
<1>5. QED
  BY <1>3, <1>4 DEF k

\* Whoever walks down the whole path of an entry finds it.
LEMMA EntryFound ==
  ASSUME NEW tree, IsTree(tree), NEW p, NEW t, Entry(tree, p, t)
  PROVE  /\ p \o t \in Words /\ Len(p \o t) = Len(p) + Len(t) /\ Len(p) \in Nat /\ Len(t) \in Nat
         /\ ~Bottomless(tree, p \o t)
         /\ BottomLevel(tree, p \o t) = Len(p)
         /\ Path(p \o t, Len(p)) = p /\ Rest(p \o t, Len(p)) = t
<1>1. p \in Words /\ t \in Words /\ p \in DOMAIN tree
  BY TreeFacts DEF Entry
<1>2. p \o t \in Words /\ Under(p \o t, p)
  BY <1>1, UnderJoined
<1>3. Path(p \o t, Len(p)) = p /\ Rest(p \o t, Len(p)) = t
  BY <1>1, JoinedCut
<1>4. Len(p \o t) = Len(p) + Len(t) /\ Len(p) \in Nat /\ Len(t) \in Nat
  BY <1>1, JoinWords
<1>5. QED
  BY <1>1, <1>2, <1>3, <1>4, WalkFinds

\* There is one entry for a whole path.
LEMMA OneEntry ==
  ASSUME NEW tree, IsTree(tree), NEW p, NEW t, Entry(tree, p, t),
         NEW q, NEW u, Entry(tree, q, u)
  PROVE  p \o t = q \o u => p = q /\ t = u
<1>1. /\ BottomLevel(tree, p \o t) = Len(p)
      /\ Path(p \o t, Len(p)) = p /\ Rest(p \o t, Len(p)) = t
  BY EntryFound
<1>2. /\ BottomLevel(tree, q \o u) = Len(q)
      /\ Path(q \o u, Len(q)) = q /\ Rest(q \o u, Len(q)) = u
  BY EntryFound
<1>3. QED
  BY <1>1, <1>2

\* The other way round: where the walk down a ends is what a leads to.
BottomPath(tree, a) == Path(a, BottomLevel(tree, a))
BottomRest(tree, a) == Rest(a, BottomLevel(tree, a))

LEMMA WalkEntry ==
  ASSUME NEW tree, NEW a \in Words, ~Bottomless(tree, a)
  PROVE  /\ BottomPath(tree, a) \in Words /\ BottomRest(tree, a) \in Words
         /\ Len(BottomPath(tree, a)) = BottomLevel(tree, a)
         /\ BottomLevel(tree, a) \in Nat
         /\ Len(BottomRest(tree, a)) = Len(a) - BottomLevel(tree, a)
         /\ Whole(BottomPath(tree, a), BottomRest(tree, a)) = a
<1> DEFINE k == BottomLevel(tree, a)
<1>1. k \in 0..Len(a)
  BY BottomIs
<1>2. Len(a) \in Nat
  BY LenProperties DEF Words
<1> HIDE DEF k
<1>3. /\ Path(a, k) \in Words /\ Len(Path(a, k)) = k
      /\ Rest(a, k) \in Words /\ Len(Rest(a, k)) = Len(a) - k
      /\ k \in Nat
  BY <1>1, <1>2, CutWord
<1>4. Path(a, k) \o Rest(a, k) = a
  BY <1>1, <1>2, CutJoined
<1>5. QED
  BY <1>3, <1>4 DEF k, BottomPath, BottomRest, Whole

-----------------------------------------------------------------------------
(***************************************************************************)
(* Merklehead: documents put, split and unlinked.                          *)
(***************************************************************************)
\* No document of timestamps other than p itself is above or below p.
Free(tree, p) ==
  \A q \in DOMAIN tree : q = p \/ (~Under(q, p) /\ ~Under(p, q))

\* What a document at p may hold.
Fits(p, entries) ==
  \A t \in DOMAIN entries :
    t \in Words /\ Len(p) + Len(t) <= AddressLength /\ entries[t] \in 1..MaxTimestamp

\* Entries of a document at p are no more than its level allows.
Bounded(p, entries) ==
  IsFiniteSet(DOMAIN entries) /\ Cardinality(DOMAIN entries) <= Capacity + Len(p)

AllBounded(tree) == \A p \in DOMAIN tree : Bounded(p, tree[p])

AllFilled(tree) == \A p \in DOMAIN tree : DOMAIN tree[p] # {}

\* A document of the tree stands apart from the others.
LEMMA InTreeFree ==
  ASSUME NEW tree, IsTree(tree), NEW p \in DOMAIN tree
  PROVE  Free(tree, p) /\ Fits(p, tree[p]) /\ p \in Words
<1>1. p \in Words /\ Fits(p, tree[p])
  BY DEF IsTree, Fits, Words
<1>2. Free(tree, p)
  BY DEF IsTree, Free
<1>3. QED
  BY <1>1, <1>2

\* Putting a document.
LEMMA PutTree ==
  ASSUME NEW tree, IsTree(tree), NEW p \in Words, Free(tree, p),
         NEW entries, Fits(p, entries)
  PROVE  /\ IsTree(Put(tree, p, entries))
         /\ \A q, t : Entry(Put(tree, p, entries), q, t) <=>
              (q = p /\ t \in DOMAIN entries) \/ (q # p /\ Entry(tree, q, t))
         /\ \A q, t : Entry(Put(tree, p, entries), q, t) =>
              Put(tree, p, entries)[q][t] = IF q = p THEN entries[t] ELSE tree[q][t]
         /\ AllBounded(tree) /\ Bounded(p, entries) => AllBounded(Put(tree, p, entries))
         /\ \A q \in DOMAIN tree : q # p \/ DOMAIN entries # {} => q \in DOMAIN Put(tree, p, entries)
         /\ \A q \in DOMAIN Put(tree, p, entries) :
              \/ q = p /\ Put(tree, p, entries)[q] = entries /\ DOMAIN entries # {}
              \/ q # p /\ q \in DOMAIN tree /\ Put(tree, p, entries)[q] = tree[q]
<1> DEFINE new == Put(tree, p, entries)
<1>1. CASE DOMAIN entries = {}
  <2>1. DOMAIN new = DOMAIN tree \ {p} /\ \A q \in DOMAIN new : new[q] = tree[q]
    BY <1>1 DEF Put
  <2> HIDE DEF new
  <2>2. IsTree(new)
    BY <2>1 DEF IsTree
  <2>3. AllBounded(tree) => AllBounded(new)
    BY <2>1 DEF AllBounded
  <2>4. QED
    BY <1>1, <2>1, <2>2, <2>3 DEF Entry, new
<1>2. CASE DOMAIN entries # {}
  <2>1. /\ DOMAIN new = DOMAIN tree \cup {p}
        /\ \A q \in DOMAIN new : new[q] = IF q = p THEN entries ELSE tree[q]
    BY <1>2 DEF Put
  <2> HIDE DEF new
  <2>2. IsTree(new)
    <3>1. ASSUME NEW q \in DOMAIN new
          PROVE  /\ q \in Seq(Digits)
                 /\ \A t \in DOMAIN new[q] : /\ t \in Seq(Digits)
                                             /\ Len(q) + Len(t) <= AddressLength
                                             /\ new[q][t] \in 1..MaxTimestamp
      <4>1. CASE q = p
        BY <2>1, <4>1 DEF Fits, Words
      <4>2. CASE q # p
        BY <2>1, <4>2 DEF IsTree
      <4>3. QED
        BY <4>1, <4>2
    <3>2. ASSUME NEW q \in DOMAIN new, NEW r \in DOMAIN new, Under(r, q) PROVE q = r
      BY <2>1, <3>2 DEF IsTree, Free
    <3>3. QED
      BY <3>1, <3>2 DEF IsTree
  <2>3. AllBounded(tree) /\ Bounded(p, entries) => AllBounded(new)
    BY <2>1 DEF AllBounded
  <2>4. QED
    BY <1>2, <2>1, <2>2, <2>3 DEF Entry, new
<1>3. QED
  BY <1>1, <1>2

\* Unlinking leaves the rest as it was.
LEMMA UnlinkTree ==
  ASSUME NEW tree, IsTree(tree), NEW p
  PROVE  /\ IsTree(Unlink(tree, p))
         /\ DOMAIN Unlink(tree, p) = {q \in DOMAIN tree : ~Under(q, p)}
         /\ \A q \in DOMAIN Unlink(tree, p) : Unlink(tree, p)[q] = tree[q]
         /\ AllBounded(tree) => AllBounded(Unlink(tree, p))
<1> DEFINE new == Unlink(tree, p)
<1>1. /\ DOMAIN new = {q \in DOMAIN tree : ~Under(q, p)}
      /\ \A q \in DOMAIN new : new[q] = tree[q]
  BY DEF Unlink
<1> HIDE DEF new
<1>2. IsTree(new)
  BY <1>1 DEF IsTree
<1>3. AllBounded(tree) => AllBounded(new)
  BY <1>1 DEF AllBounded
<1>4. QED
  BY <1>1, <1>2, <1>3 DEF new

-----------------------------------------------------------------------------
(***************************************************************************)
(* Merklehead: a full document is split.                                   *)
(***************************************************************************)
\* The entries of a child are those of the document that start with its digit.
LEMMA SplitChild ==
  ASSUME NEW tree, IsTree(tree), NEW p \in DOMAIN tree, NEW entries, Fits(p, entries),
         <<>> \notin DOMAIN entries, NEW q \in ChildPaths(p, entries)
  PROVE  /\ q \in Words /\ Len(q) = Len(p) + 1 /\ Len(p) \in Nat
         /\ Last(q) \in Digits /\ q = Append(p, Last(q))
         /\ \A u : u \in DOMAIN Split(tree, p, entries)[q] <=>
              \E t \in DOMAIN entries : Head(t) = Last(q) /\ u = Tail(t)
         /\ \A t \in DOMAIN entries : Head(t) = Last(q) =>
              /\ Split(tree, p, entries)[q][Tail(t)] = entries[t]
              /\ q \o Tail(t) = p \o t
         /\ DOMAIN Split(tree, p, entries)[q] # {}
<1>1. p \in Words
  BY TreeFacts
<1>2. PICK s \in DOMAIN entries : q = Append(p, Head(s))
  BY DEF ChildPaths
<1>3. \A t \in DOMAIN entries : t \in Words /\ t # <<>>
  BY DEF Fits
<1>4. Head(s) \in Digits
  BY <1>1, <1>3, DigitToPath
<1>5. q \in Words /\ Len(q) = Len(p) + 1 /\ Len(p) \in Nat /\ Last(q) = Head(s)
  BY <1>1, <1>2, <1>4, ChildOf
<1> DEFINE new == Split(tree, p, entries)
           Own == {x \in DOMAIN entries : Head(x) = Last(q)}
           u0 == Tail(s)
<1>6. new[q] = [t \in {Tail(x) : x \in Own} |-> entries[<<Last(q)>> \o t]]
  BY DEF Split
<1> HIDE DEF new
<1>7. DOMAIN new[q] = {Tail(x) : x \in Own}
  BY <1>6
<1>8. \A u : u \in DOMAIN new[q] <=> \E t \in DOMAIN entries : Head(t) = Last(q) /\ u = Tail(t)
  BY <1>7
<1>9. ASSUME NEW t \in DOMAIN entries, Head(t) = Last(q)
      PROVE  new[q][Tail(t)] = entries[t] /\ q \o Tail(t) = p \o t
  <2>1. <<Head(t)>> \o Tail(t) = t /\ Append(p, Head(t)) \o Tail(t) = p \o t
    BY <1>1, <1>3, DigitToPath
  <2>2. Tail(t) \in {Tail(x) : x \in Own}
    BY <1>9
  <2>3. new[q][Tail(t)] = entries[<<Last(q)>> \o Tail(t)]
    BY <1>6, <2>2
  <2>4. q = Append(p, Head(t))
    BY <1>2, <1>5, <1>9
  <2>5. QED
    BY <1>9, <2>1, <2>3, <2>4
<1>10. u0 \in DOMAIN new[q]
  BY <1>5, <1>8
<1>11. QED
  BY <1>2, <1>4, <1>5, <1>8, <1>9, <1>10 DEF new

\* The children stand apart, and have no more entries than the document had.
LEMMA SplitTree ==
  ASSUME NEW tree, IsTree(tree), NEW p \in DOMAIN tree, NEW entries, Fits(p, entries),
         <<>> \notin DOMAIN entries
  PROVE  /\ IsTree(Split(tree, p, entries))
         /\ \A q, u : Entry(Split(tree, p, entries), q, u) =>
              \/ q # p /\ Entry(tree, q, u) /\ Split(tree, p, entries)[q][u] = tree[q][u]
              \/ \E t \in DOMAIN entries :
                   Whole(q, u) = Whole(p, t) /\ Split(tree, p, entries)[q][u] = entries[t]
         /\ \A t \in DOMAIN entries : \E q, u :
              /\ Entry(Split(tree, p, entries), q, u)
              /\ Whole(q, u) = Whole(p, t) /\ Split(tree, p, entries)[q][u] = entries[t]
         /\ \A q, u : q # p /\ Entry(tree, q, u) =>
              Entry(Split(tree, p, entries), q, u) /\ Split(tree, p, entries)[q][u] = tree[q][u]
         /\ \A q \in DOMAIN Split(tree, p, entries) :
              \/ q # p /\ q \in DOMAIN tree /\ Split(tree, p, entries)[q] = tree[q]
              \/ DOMAIN Split(tree, p, entries)[q] # {}
         /\ AllBounded(tree) /\ IsFiniteSet(DOMAIN entries)
              /\ Cardinality(DOMAIN entries) <= Capacity + Len(p) + 1 =>
              AllBounded(Split(tree, p, entries))
<1> DEFINE new == Split(tree, p, entries)
           Children == ChildPaths(p, entries)
<1>1. p \in Words
  BY TreeFacts
<1>2. /\ DOMAIN new = (DOMAIN tree \ {p}) \cup Children
      /\ \A q \in DOMAIN tree \ {p} : q \notin Children => new[q] = tree[q]
  BY DEF Split
<1>3. ASSUME NEW q \in Children
      PROVE  /\ q \in Words /\ Len(q) = Len(p) + 1 /\ Len(p) \in Nat
             /\ Last(q) \in Digits /\ q = Append(p, Last(q))
             /\ \A u : u \in DOMAIN new[q] <=> \E t \in DOMAIN entries : Head(t) = Last(q) /\ u = Tail(t)
             /\ \A t \in DOMAIN entries : Head(t) = Last(q) =>
                  new[q][Tail(t)] = entries[t] /\ Whole(q, Tail(t)) = Whole(p, t)
             /\ DOMAIN new[q] # {}
  BY SplitChild DEF Whole
<1>4. \A t \in DOMAIN entries :
        /\ Append(p, Head(t)) \in Children /\ t \in Words /\ t # <<>>
        /\ Len(p) + Len(t) <= AddressLength /\ entries[t] \in 1..MaxTimestamp
  BY DEF ChildPaths, Fits
<1> HIDE DEF new, Children
<1>5. ASSUME NEW q \in Children, NEW r \in DOMAIN tree, r # p
      PROVE  ~Under(q, r) /\ ~Under(r, q)
  <2>1. q \in Words /\ r \in Words /\ Under(q, p)
    <3>1. Under(Append(p, Last(q)), p)
      BY <1>1, <1>3, ChildOf
    <3>2. QED
      BY <1>3, <3>1, TreeFacts
  <2>2. ~Under(r, p) /\ ~Under(p, r)
    BY <1>5, TreeFacts
  <2>3. ~Under(r, q)
    BY <1>1, <2>1, <2>2, UnderOrder
  <2>4. ~Under(q, r)
    BY <1>1, <2>1, <2>2, UnderOrder
  <2>5. QED
    BY <2>3, <2>4
<1>6. ASSUME NEW q \in DOMAIN tree, q # p PROVE q \notin Children /\ q \in Words /\ new[q] = tree[q] /\ q \in DOMAIN new
  <2>1. q \in Words /\ Under(q, q)
    BY TreeFacts, UnderOrder
  <2>2. QED
    BY <1>2, <1>5, <1>6, <2>1
<1>7. ASSUME NEW q \in DOMAIN new, NEW r \in DOMAIN new, Under(r, q) PROVE q = r
  <2>1. CASE q \in Children /\ r \in Children
    <3>1. q \in Words /\ r \in Words /\ Len(q) = Len(r)
      BY <1>3, <2>1
    <3>2. QED
      BY <1>7, <3>1, UnderOrder
  <2>2. CASE q \notin Children /\ r \notin Children
    BY <1>2, <1>7, <2>2, TreeFacts
  <2>3. CASE q \in Children /\ r \notin Children
    BY <1>2, <1>5, <1>7, <2>3
  <2>4. CASE q \notin Children /\ r \in Children
    BY <1>2, <1>5, <1>7, <2>4
  <2>5. QED
    BY <2>1, <2>2, <2>3, <2>4
<1>8. ASSUME NEW q \in DOMAIN new, NEW u \in DOMAIN new[q]
      PROVE  \/ q # p /\ Entry(tree, q, u) /\ new[q][u] = tree[q][u]
             \/ q \in Children /\ \E t \in DOMAIN entries :
                  u = Tail(t) /\ Whole(q, u) = Whole(p, t) /\ new[q][u] = entries[t]
  <2>1. CASE q \in Children
    <3>1. PICK t \in DOMAIN entries : Head(t) = Last(q) /\ u = Tail(t)
      BY <1>3, <2>1
    <3>2. new[q][u] = entries[t] /\ Whole(q, u) = Whole(p, t)
      BY <1>3, <2>1, <3>1
    <3>3. QED
      BY <2>1, <3>1, <3>2
  <2>2. CASE q \notin Children
    BY <1>2, <2>2 DEF Entry
  <2>3. QED
    BY <2>1, <2>2
<1>9. ASSUME NEW q \in DOMAIN new
      PROVE  /\ q \in Seq(Digits)
             /\ \A u \in DOMAIN new[q] : /\ u \in Seq(Digits)
                                         /\ Len(q) + Len(u) <= AddressLength
                                         /\ new[q][u] \in 1..MaxTimestamp
  <2>1. CASE q \in Children
    <3>1. ASSUME NEW u \in DOMAIN new[q]
          PROVE  /\ u \in Seq(Digits)
                 /\ Len(q) + Len(u) <= AddressLength
                 /\ new[q][u] \in 1..MaxTimestamp
      <4>1. PICK t \in DOMAIN entries : Head(t) = Last(q) /\ u = Tail(t)
        BY <1>3, <2>1
      <4>2. new[q][u] = entries[t]
        BY <1>3, <2>1, <4>1
      <4>3. u \in Words /\ Len(u) = Len(t) - 1 /\ Len(t) \in Nat
        BY <1>1, <1>4, <4>1, DigitToPath
      <4>4. Len(q) = Len(p) + 1 /\ Len(p) \in Nat
        BY <1>3, <2>1
      <4>5. QED
        BY <1>4, <4>2, <4>3, <4>4 DEF Words
    <3>2. QED
      BY <1>3, <2>1, <3>1 DEF Words
  <2>2. CASE q \notin Children
    <3>1. q \in DOMAIN tree /\ new[q] = tree[q]
      BY <1>2, <2>2
    <3>2. QED
      BY <3>1 DEF IsTree
  <2>3. QED
    BY <2>1, <2>2
<1>10. IsTree(new)
  BY <1>7, <1>9 DEF IsTree
<1>11. ASSUME NEW t \in DOMAIN entries PROVE \E q, u : Entry(new, q, u) /\ Whole(q, u) = Whole(p, t) /\ new[q][u] = entries[t]
  <2> DEFINE q == Append(p, Head(t))
  <2>1. q \in Children /\ Last(q) = Head(t)
    BY <1>1, <1>4, DigitToPath, ChildOf
  <2> HIDE DEF q
  <2>2. /\ Tail(t) \in DOMAIN new[q] /\ q \in DOMAIN new
        /\ Whole(q, Tail(t)) = Whole(p, t) /\ new[q][Tail(t)] = entries[t]
    BY <1>2, <1>3, <2>1
  <2>3. QED
    BY <2>2 DEF Entry
<1>12. ASSUME AllBounded(tree), IsFiniteSet(DOMAIN entries),
              Cardinality(DOMAIN entries) <= Capacity + Len(p) + 1
       PROVE  AllBounded(new)
  <2>1. ASSUME NEW q \in DOMAIN new PROVE Bounded(q, new[q])
    <3>1. CASE q \in Children
      <4> DEFINE Own == {x \in DOMAIN entries : Head(x) = Last(q)}
                 tails == [x \in Own |-> Tail(x)]
      <4>1. IsFiniteSet(Own) /\ Cardinality(Own) <= Cardinality(DOMAIN entries)
        BY <1>12, FS_Subset
      <4>2. DOMAIN new[q] = {Tail(x) : x \in Own}
        <5>1. \A u : u \in DOMAIN new[q] <=> \E t \in DOMAIN entries : Head(t) = Last(q) /\ u = Tail(t)
          BY <1>3, <3>1
        <5>2. QED
          BY <5>1
      <4>3. {Tail(x) : x \in Own} = {tails[x] : x \in Own}
        OBVIOUS
      <4>4. tails \in Surjection(Own, {Tail(x) : x \in Own})
        BY DEF Surjection
      <4>5. IsFiniteSet(DOMAIN new[q]) /\ Cardinality(DOMAIN new[q]) <= Cardinality(Own)
        BY <4>1, <4>2, <4>4, FS_Surjection
      <4>6. /\ Cardinality(Own) \in Nat /\ Cardinality(DOMAIN entries) \in Nat
            /\ Cardinality(DOMAIN new[q]) \in Nat
        BY <1>12, <4>1, <4>5, FS_CardinalityType
      <4>7. Len(q) = Len(p) + 1 /\ Len(p) \in Nat
        BY <1>3, <3>1
      <4>8. Capacity \in Nat
        BY AddressAssumption, FS_CardinalityType DEF Capacity
      <4> HIDE DEF Own
      <4>9. Cardinality(DOMAIN new[q]) <= Capacity + Len(q)
        BY <1>12, <4>1, <4>5, <4>6, <4>7, <4>8
      <4>10. QED
        BY <4>5, <4>9 DEF Bounded
    <3>2. CASE q \notin Children
      BY <1>2, <1>12, <3>2 DEF AllBounded
    <3>3. QED
      BY <3>1, <3>2
  <2>2. QED
    BY <2>1 DEF AllBounded
<1>13. \A q, u : Entry(new, q, u) =>
         \/ q # p /\ Entry(tree, q, u) /\ new[q][u] = tree[q][u]
         \/ \E t \in DOMAIN entries : Whole(q, u) = Whole(p, t) /\ new[q][u] = entries[t]
  BY <1>8 DEF Entry
<1>14. \A q, u : q # p /\ Entry(tree, q, u) => Entry(new, q, u) /\ new[q][u] = tree[q][u]
  BY <1>6 DEF Entry
<1>15. \A q \in DOMAIN new :
         \/ q # p /\ q \in DOMAIN tree /\ new[q] = tree[q]
         \/ DOMAIN new[q] # {}
  BY <1>2, <1>3
<1>16. QED
  BY <1>10, <1>11, <1>12, <1>13, <1>14, <1>15 DEF new

-----------------------------------------------------------------------------
(***************************************************************************)
(* Merklehead: what a tree holds under a whole address.                    *)
(***************************************************************************)
Holds(tree, w, v) == \E p, t : Entry(tree, p, t) /\ w = Whole(p, t) /\ v = tree[p][t]

\* What it holds when the entries of the document at p became these.
Replaced(tree, p, entries, w, v) ==
  \/ \E t \in DOMAIN entries : w = Whole(p, t) /\ v = entries[t]
  \/ \E q, t : q # p /\ Entry(tree, q, t) /\ w = Whole(q, t) /\ v = tree[q][t]

LEMMA PutHolds ==
  ASSUME NEW tree, IsTree(tree), NEW p \in Words, Free(tree, p),
         NEW entries, Fits(p, entries), NEW w, NEW v
  PROVE  Holds(Put(tree, p, entries), w, v) <=> Replaced(tree, p, entries, w, v)
<1> DEFINE new == Put(tree, p, entries)
<1>1. /\ \A q, t : Entry(new, q, t) <=>
           (q = p /\ t \in DOMAIN entries) \/ (q # p /\ Entry(tree, q, t))
      /\ \A q, t : Entry(new, q, t) => new[q][t] = IF q = p THEN entries[t] ELSE tree[q][t]
  BY PutTree
<1> HIDE DEF new
<1>2. Holds(new, w, v) => Replaced(tree, p, entries, w, v)
  BY <1>1 DEF Holds, Replaced
<1>3. Replaced(tree, p, entries, w, v) => Holds(new, w, v)
  BY <1>1 DEF Holds, Replaced
<1>4. QED
  BY <1>2, <1>3 DEF new

LEMMA SplitHolds ==
  ASSUME NEW tree, IsTree(tree), NEW p \in DOMAIN tree, NEW entries, Fits(p, entries),
         <<>> \notin DOMAIN entries, NEW w, NEW v
  PROVE  Holds(Split(tree, p, entries), w, v) <=> Replaced(tree, p, entries, w, v)
<1> DEFINE new == Split(tree, p, entries)
<1>1. /\ \A q, u : Entry(new, q, u) =>
              \/ q # p /\ Entry(tree, q, u) /\ new[q][u] = tree[q][u]
              \/ \E t \in DOMAIN entries : Whole(q, u) = Whole(p, t) /\ new[q][u] = entries[t]
      /\ \A t \in DOMAIN entries : \E q, u :
              Entry(new, q, u) /\ Whole(q, u) = Whole(p, t) /\ new[q][u] = entries[t]
      /\ \A q, u : q # p /\ Entry(tree, q, u) => Entry(new, q, u) /\ new[q][u] = tree[q][u]
  BY SplitTree
<1> HIDE DEF new
<1>2. Holds(new, w, v) => Replaced(tree, p, entries, w, v)
  BY <1>1 DEF Holds, Replaced
<1>3. Replaced(tree, p, entries, w, v) => Holds(new, w, v)
  BY <1>1 DEF Holds, Replaced
<1>4. QED
  BY <1>2, <1>3 DEF new

\* Only the document where the walk down a ends can hold a.
LEMMA HeldAt ==
  ASSUME NEW tree, IsTree(tree), NEW a \in Words, NEW q, NEW t, Entry(tree, q, t)
  PROVE  a = Whole(q, t) => q = BottomPath(tree, a) /\ t = BottomRest(tree, a) /\ ~Bottomless(tree, a)
<1>1. /\ BottomLevel(tree, q \o t) = Len(q) /\ ~Bottomless(tree, q \o t)
      /\ Path(q \o t, Len(q)) = q /\ Rest(q \o t, Len(q)) = t
  BY EntryFound
<1>2. QED
  BY <1>1 DEF Whole, BottomPath, BottomRest

\* The tail of an address in the document where its walk ends.
LEMMA TailFacts ==
  ASSUME NEW tree, IsTree(tree), NEW a \in Words, ~Bottomless(tree, a),
         Len(a) = AddressLength
  PROVE  /\ BottomPath(tree, a) \in Words /\ BottomRest(tree, a) \in Words
         /\ Len(BottomPath(tree, a)) + Len(BottomRest(tree, a)) <= AddressLength
         /\ Whole(BottomPath(tree, a), BottomRest(tree, a)) = a
         /\ \A t \in Words : Whole(BottomPath(tree, a), t) = a => t = BottomRest(tree, a)
         /\ Free(tree, BottomPath(tree, a))
<1> DEFINE p == BottomPath(tree, a)
           tail == BottomRest(tree, a)
           k == BottomLevel(tree, a)
<1>1. /\ p \in Words /\ tail \in Words /\ Len(p) = k /\ k \in Nat
      /\ Len(tail) = Len(a) - k /\ Whole(p, tail) = a
  BY WalkEntry
<1>2. Free(tree, p)
  <2>1. CASE p \in DOMAIN tree
    BY <2>1, InTreeFree
  <2>2. CASE p \notin DOMAIN tree
    BY <2>2, WalkFree DEF Free, BottomPath
  <2>3. QED
    BY <2>1, <2>2
<1>3. tail = Rest(a, k)
  BY DEF BottomRest
<1> HIDE DEF p, tail, k
<1>4. Len(p) + Len(tail) <= AddressLength
  <2>1. Len(a) \in Nat
    BY LenProperties DEF Words
  <2>2. QED
    BY <1>1, <2>1
<1>5. ASSUME NEW t \in Words, Whole(p, t) = a PROVE t = tail
  <2>1. Rest(p \o t, Len(p)) = t
    BY <1>1, JoinedCut
  <2>2. QED
    BY <1>1, <1>3, <1>5, <2>1 DEF Whole
<1>6. QED
  BY <1>1, <1>2, <1>4, <1>5 DEF p, tail

-----------------------------------------------------------------------------
(***************************************************************************)
(* Merklehead: an entry is added.                                          *)
(***************************************************************************)
LEMMA MerkleConstants ==
  /\ Capacity \in Nat /\ Capacity >= 1 /\ MaxTimestamp \in Nat
  /\ AddressLength \in Nat
  /\ \A a \in Addresses : a \in Words /\ Len(a) = AddressLength
  /\ RootAccount \in Addresses
<1>1. /\ MaxTimestamp \in Nat /\ RootAccount \in Addresses /\ IsFiniteSet(Digits)
      /\ \A a \in Addresses : a \in Words /\ Len(a) = AddressLength
      /\ AddressLength > 0
  BY AddressAssumption DEF Words
<1>2. AddressLength \in Nat
  BY <1>1, LenProperties DEF Words, AddressLength
<1>3. RootAccount[1] \in Digits
  BY <1>1, <1>2, ElementOfSeq DEF Words, AddressLength
<1>4. Capacity \in Nat /\ (Capacity = 0 <=> Digits = {})
  BY <1>1, FS_CardinalityType, FS_EmptySet DEF Capacity
<1>5. QED
  BY <1>1, <1>2, <1>3, <1>4

LEMMA NoHeadTree ==
  /\ DOMAIN NoHead = {<<>>} /\ DOMAIN NoHead[<<>>] = {}
  /\ IsTree(NoHead) /\ AllBounded(NoHead)
  /\ \A w, v : ~Holds(NoHead, w, v)
<1>1. DOMAIN NoHead = {<<>>} /\ DOMAIN NoHead[<<>>] = {}
  BY DEF NoHead, EmptyMap
<1>2. <<>> \in Seq(Digits)
  OBVIOUS
<1>3. IsTree(NoHead)
  BY <1>1, <1>2 DEF IsTree
<1>4. Len(<<>>) = 0
  OBVIOUS
<1>5. AllBounded(NoHead)
  <2>1. IsFiniteSet(DOMAIN NoHead[<<>>]) /\ Cardinality(DOMAIN NoHead[<<>>]) = 0
    BY <1>1, FS_EmptySet
  <2>2. Bounded(<<>>, NoHead[<<>>])
    BY <1>4, <2>1, MerkleConstants DEF Bounded
  <2>3. QED
    BY <1>1, <2>2 DEF AllBounded
<1>6. QED
  BY <1>1, <1>3, <1>5 DEF Holds, Entry

LEMMA OneAdded ==
  ASSUME NEW S, NEW x, IsFiniteSet(S)
  PROVE  /\ IsFiniteSet(S \cup {x})
         /\ Cardinality(S) \in Nat /\ Cardinality(S \cup {x}) \in Nat
         /\ Cardinality(S \cup {x}) <= Cardinality(S) + 1
<1>1. /\ IsFiniteSet(S \cup {x})
      /\ Cardinality(S \cup {x}) = IF x \in S THEN Cardinality(S) ELSE Cardinality(S) + 1
  BY FS_AddElement
<1>2. Cardinality(S) \in Nat
  BY FS_CardinalityType
<1>3. QED
  BY <1>1, <1>2

\* What the document where the walk ends becomes.
AddedEntries(tree, a, timestamp) ==
  WithEntry(Entries(tree, BottomPath(tree, a)), BottomRest(tree, a), timestamp)

LEMMA AddEntries ==
  ASSUME NEW tree, IsTree(tree), NEW a \in Words, ~Bottomless(tree, a),
         Len(a) = AddressLength, NEW timestamp \in 1..MaxTimestamp
  PROVE  /\ DOMAIN AddedEntries(tree, a, timestamp) =
              DOMAIN Entries(tree, BottomPath(tree, a)) \cup {BottomRest(tree, a)}
         /\ Fits(BottomPath(tree, a), AddedEntries(tree, a, timestamp))
         /\ \A w, v :
              Replaced(tree, BottomPath(tree, a), AddedEntries(tree, a, timestamp), w, v) <=>
                IF w = a THEN v = timestamp ELSE Holds(tree, w, v)
<1> DEFINE p == BottomPath(tree, a)
           tail == BottomRest(tree, a)
           entries == AddedEntries(tree, a, timestamp)
<1>1. /\ p \in Words /\ tail \in Words /\ Len(p) + Len(tail) <= AddressLength
      /\ Whole(p, tail) = a
      /\ \A t \in Words : Whole(p, t) = a => t = tail
  BY TailFacts
<1>2. \A q, t : Entry(tree, q, t) /\ a = Whole(q, t) => q = p /\ t = tail
  BY HeldAt
<1>3. entries = WithEntry(Entries(tree, p), tail, timestamp)
  BY DEF AddedEntries
<1> HIDE DEF p, tail, entries
<1>4. /\ DOMAIN entries = DOMAIN Entries(tree, p) \cup {tail}
      /\ entries[tail] = timestamp
      /\ \A t \in DOMAIN Entries(tree, p) : t # tail => entries[t] = Entries(tree, p)[t]
  BY <1>3 DEF WithEntry
<1>5. \A t : t \in DOMAIN Entries(tree, p) <=> Entry(tree, p, t)
  BY DEF Entries, Entry, EmptyMap
<1>6. p \in DOMAIN tree => Entries(tree, p) = tree[p]
  BY DEF Entries
<1>7. \A t : Entry(tree, p, t) => t \in Words /\ Len(p) + Len(t) <= AddressLength
                                  /\ tree[p][t] \in 1..MaxTimestamp /\ p \in DOMAIN tree
  BY TreeFacts DEF Entry
<1>8. Fits(p, entries)
  BY <1>1, <1>4, <1>5, <1>6, <1>7 DEF Fits
<1>9. ASSUME NEW w, NEW v, Replaced(tree, p, entries, w, v)
      PROVE  IF w = a THEN v = timestamp ELSE Holds(tree, w, v)
  <2>1. CASE \E t \in DOMAIN entries : w = Whole(p, t) /\ v = entries[t]
    <3>1. PICK t \in DOMAIN entries : w = Whole(p, t) /\ v = entries[t]
      BY <2>1
    <3>2. CASE t = tail
      BY <1>1, <1>4, <3>1, <3>2
    <3>3. CASE t # tail
      <4>1. Entry(tree, p, t) /\ v = tree[p][t]
        BY <1>4, <1>5, <1>6, <1>7, <3>1, <3>3
      <4>2. w # a
        BY <1>1, <1>7, <3>1, <3>3, <4>1
      <4>3. QED
        BY <3>1, <4>1, <4>2 DEF Holds
    <3>4. QED
      BY <3>2, <3>3
  <2>2. CASE \E q, t : q # p /\ Entry(tree, q, t) /\ w = Whole(q, t) /\ v = tree[q][t]
    <3>1. PICK q, t : q # p /\ Entry(tree, q, t) /\ w = Whole(q, t) /\ v = tree[q][t]
      BY <2>2
    <3>2. w # a
      BY <1>2, <3>1
    <3>3. QED
      BY <3>1, <3>2 DEF Holds
  <2>3. QED
    BY <1>9, <2>1, <2>2 DEF Replaced
<1>10. ASSUME NEW w, NEW v, IF w = a THEN v = timestamp ELSE Holds(tree, w, v)
      PROVE  Replaced(tree, p, entries, w, v)
  <2>1. CASE w = a
    BY <1>1, <1>4, <1>10, <2>1 DEF Replaced
  <2>2. CASE w # a
    <3>1. PICK q, t : Entry(tree, q, t) /\ w = Whole(q, t) /\ v = tree[q][t]
      BY <1>10, <2>2 DEF Holds
    <3>2. CASE q # p
      BY <3>1, <3>2 DEF Replaced
    <3>3. CASE q = p
      <4>1. t # tail
        BY <1>1, <2>2, <3>1, <3>3
      <4>2. t \in DOMAIN entries /\ v = entries[t]
        BY <1>4, <1>5, <1>6, <1>7, <3>1, <3>3, <4>1
      <4>3. QED
        BY <3>1, <3>3, <4>2 DEF Replaced
    <3>4. QED
      BY <3>2, <3>3
  <2>3. QED
    BY <2>1, <2>2
<1>11. QED
  BY <1>4, <1>8, <1>9, <1>10 DEF p, tail, entries

\* No document is empty, save that of no head.
Filled(tree) == tree = NoHead \/ AllFilled(tree)

LEMMA AddTree ==
  ASSUME NEW tree, IsTree(tree), NEW a \in Words, Len(a) = AddressLength,
         ~AddPanics(tree, a), NEW timestamp \in 1..MaxTimestamp
  PROVE  /\ IsTree(AddItem(tree, a, timestamp))
         /\ \A w, v : Holds(AddItem(tree, a, timestamp), w, v) <=>
              IF w = a THEN v = timestamp ELSE Holds(tree, w, v)
         /\ AllBounded(tree) => AllBounded(AddItem(tree, a, timestamp))
         /\ Filled(tree) => AllFilled(AddItem(tree, a, timestamp))
<1> DEFINE p == BottomPath(tree, a)
           tail == BottomRest(tree, a)
           entries == AddedEntries(tree, a, timestamp)
<1>1. /\ ~Bottomless(tree, a)
      /\ p \in DOMAIN tree /\ IsFull(tree[p]) => <<>> \notin DOMAIN tree[p] \cup {tail}
  BY DEF AddPanics, BottomPath, BottomRest
<1>2. p \in Words /\ Free(tree, p)
  BY <1>1, TailFacts
<1>3. /\ DOMAIN entries = DOMAIN Entries(tree, p) \cup {tail}
      /\ Fits(p, entries)
      /\ \A w, v : Replaced(tree, p, entries, w, v) <=>
           IF w = a THEN v = timestamp ELSE Holds(tree, w, v)
  BY <1>1, AddEntries
<1>4. AddItem(tree, a, timestamp) =
        IF p \in DOMAIN tree /\ IsFull(tree[p]) THEN Split(tree, p, entries) ELSE Put(tree, p, entries)
  BY DEF AddItem, AddedEntries, BottomPath, BottomRest
<1>5. /\ p \in DOMAIN tree => Entries(tree, p) = tree[p]
      /\ p \notin DOMAIN tree => DOMAIN Entries(tree, p) = {}
  BY DEF Entries, EmptyMap
<1>6. /\ DOMAIN NoHead = {<<>>} /\ DOMAIN NoHead[<<>>] = {} /\ Capacity \in Nat /\ Capacity >= 1
      /\ Len(p) \in Nat
  BY <1>2, NoHeadTree, MerkleConstants, LenProperties DEF Words
<1> HIDE DEF p, tail, entries
<1>7. CASE p \in DOMAIN tree /\ IsFull(tree[p])
  <2> DEFINE new == Split(tree, p, entries)
  <2>1. <<>> \notin DOMAIN entries
    BY <1>1, <1>3, <1>5, <1>7
  <2>2. IsTree(new)
    BY <1>3, <1>7, <2>1, SplitTree
  <2>3. \A w, v : Holds(new, w, v) <=> Replaced(tree, p, entries, w, v)
    BY <1>3, <1>7, <2>1, SplitHolds
  <2>4. ASSUME AllBounded(tree) PROVE AllBounded(new)
    <3>1. IsFiniteSet(DOMAIN tree[p]) /\ Cardinality(DOMAIN tree[p]) <= Capacity + Len(p)
      BY <1>7, <2>4 DEF AllBounded, Bounded
    <3>2. /\ IsFiniteSet(DOMAIN tree[p] \cup {tail}) /\ Cardinality(DOMAIN tree[p]) \in Nat
          /\ Cardinality(DOMAIN tree[p] \cup {tail}) <= Cardinality(DOMAIN tree[p]) + 1
      BY <3>1, OneAdded
    <3>3. DOMAIN entries = DOMAIN tree[p] \cup {tail}
      BY <1>3, <1>5, <1>7
    <3>4. Cardinality(DOMAIN entries) \in Nat
      BY <3>2, <3>3, FS_CardinalityType
    <3>5. IsFiniteSet(DOMAIN entries) /\ Cardinality(DOMAIN entries) <= Capacity + Len(p) + 1
      BY <1>6, <3>1, <3>2, <3>3, <3>4
    <3>6. QED
      BY <1>3, <1>7, <2>1, <2>4, <3>5, SplitTree
  <2>5. ASSUME Filled(tree) PROVE AllFilled(new)
    <3>1. tree # NoHead
      <4>1. ASSUME tree = NoHead PROVE FALSE
        <5>1. DOMAIN tree[p] = {}
          BY <1>6, <1>7, <4>1
        <5>2. Cardinality(DOMAIN tree[p]) = 0
          BY <5>1, FS_EmptySet
        <5>3. QED
          BY <1>6, <1>7, <5>2 DEF IsFull
      <4>2. QED
        BY <4>1
    <3>2. \A q \in DOMAIN new : (q # p /\ q \in DOMAIN tree /\ new[q] = tree[q]) \/ DOMAIN new[q] # {}
      BY <1>3, <1>7, <2>1, SplitTree
    <3>3. QED
      BY <2>5, <3>1, <3>2 DEF Filled, AllFilled
  <2>6. QED
    BY <1>3, <1>4, <1>7, <2>2, <2>3, <2>4, <2>5
<1>8. CASE ~(p \in DOMAIN tree /\ IsFull(tree[p]))
  <2> DEFINE new == Put(tree, p, entries)
  <2>1. IsTree(new)
    BY <1>2, <1>3, PutTree
  <2>2. \A w, v : Holds(new, w, v) <=> Replaced(tree, p, entries, w, v)
    BY <1>2, <1>3, PutHolds
  <2>3. ASSUME AllBounded(tree) PROVE AllBounded(new)
    <3>1. IsFiniteSet(DOMAIN Entries(tree, p)) /\ Cardinality(DOMAIN Entries(tree, p)) < Capacity
      <4>1. CASE p \in DOMAIN tree
        <5>1. IsFiniteSet(DOMAIN tree[p]) /\ ~(Cardinality(DOMAIN tree[p]) >= Capacity)
          BY <1>8, <2>3, <4>1 DEF AllBounded, Bounded, IsFull
        <5>2. Cardinality(DOMAIN tree[p]) \in Nat
          BY <5>1, FS_CardinalityType
        <5>3. QED
          BY <1>5, <1>6, <4>1, <5>1, <5>2
      <4>2. CASE p \notin DOMAIN tree
        BY <1>5, <1>6, <4>2, FS_EmptySet
      <4>3. QED
        BY <4>1, <4>2
    <3>2. /\ IsFiniteSet(DOMAIN entries) /\ Cardinality(DOMAIN Entries(tree, p)) \in Nat
          /\ Cardinality(DOMAIN entries) <= Cardinality(DOMAIN Entries(tree, p)) + 1
          /\ Cardinality(DOMAIN entries) \in Nat
      BY <1>3, <3>1, OneAdded
    <3>3. Bounded(p, entries)
      BY <1>6, <3>1, <3>2 DEF Bounded
    <3>4. QED
      BY <1>2, <1>3, <2>3, <3>3, PutTree
  <2>4. ASSUME Filled(tree) PROVE AllFilled(new)
    <3>1. \A q \in DOMAIN new :
            \/ q = p /\ new[q] = entries /\ DOMAIN entries # {}
            \/ q # p /\ q \in DOMAIN tree /\ new[q] = tree[q]
      BY <1>2, <1>3, PutTree
    <3>2. CASE AllFilled(tree)
      BY <3>1, <3>2 DEF AllFilled
    <3>3. CASE tree = NoHead
      <4>1. <<>> \in DOMAIN tree /\ Under(p, <<>>)
        <5>1. <<>> \in Words /\ Len(<<>>) = 0 /\ 1..0 = {}
          BY EmptySeq DEF Words
        <5>2. \A e \in Words : Len(e) = 0 => Under(p, e)
          BY <1>2, UnderMeans
        <5>3. Under(p, <<>>)
          BY <5>1, <5>2
        <5>4. QED
          BY <1>6, <3>3, <5>3
      <4>2. p = <<>>
        BY <1>2, <4>1 DEF Free
      <4>3. QED
        BY <1>6, <3>1, <3>3, <4>2 DEF AllFilled
    <3>4. QED
      BY <2>4, <3>2, <3>3 DEF Filled
  <2>5. QED
    BY <1>3, <1>4, <1>8, <2>1, <2>2, <2>3, <2>4
<1>9. QED
  BY <1>7, <1>8

-----------------------------------------------------------------------------
(***************************************************************************)
(* Merklehead: an entry is removed.                                        *)
(***************************************************************************)
\* The parent's path is one shorter, and above.
LEMMA ParentOf ==
  ASSUME NEW p \in Words, Len(p) > 0
  PROVE  /\ Parent(p) \in Words /\ Len(Parent(p)) = Len(p) - 1 /\ Len(p) \in Nat
         /\ Under(p, Parent(p))
<1>1. Len(p) \in Nat
  BY LenProperties DEF Words
<1>2. Len(p) - 1 \in 0..Len(p)
  BY <1>1
<1>3. QED
  BY <1>1, <1>2, CutWord, UnderPath DEF Parent

\* There are as many siblings as digits, at the level of p.
LEMMA SiblingFacts ==
  ASSUME NEW tree, NEW p \in Words, Len(p) > 0
  PROVE  IsFiniteSet(Siblings(tree, p)) /\ \A s \in Siblings(tree, p) : s \in Words /\ Len(s) = Len(p)
<1> DEFINE top == Parent(p)
           children == {Append(top, d) : d \in Digits}
           child == [d \in Digits |-> Append(top, d)]
<1>1. top \in Words /\ Len(top) + 1 = Len(p)
  BY ParentOf
<1>2. Siblings(tree, p) \subseteq children
  BY DEF Siblings
<1> HIDE DEF top
<1>3. child \in Surjection(Digits, children)
  BY DEF Surjection
<1>4. IsFiniteSet(Digits)
  BY AddressAssumption
<1>5. IsFiniteSet(children)
  BY <1>3, <1>4, FS_Surjection
<1>6. IsFiniteSet(Siblings(tree, p))
  BY <1>2, <1>5, FS_Subset
<1>7. \A s \in children : s \in Words /\ Len(s) = Len(p)
  <2>1. \A d \in Digits : Append(top, d) \in Words /\ Len(Append(top, d)) = Len(top) + 1
    BY <1>1, ChildOf
  <2>2. QED
    BY <1>1, <2>1
<1> HIDE DEF children
<1>8. QED
  BY <1>2, <1>6, <1>7

\* The siblings met are documents of timestamps, at the level of p.
LEMMA MetFacts ==
  ASSUME NEW tree, NEW p \in Words, Len(p) > 0, NEW met \in Met(tree, p)
  PROVE  /\ Len(met) \in Nat
         /\ \A i \in 1..Len(met) : met[i] \in DOMAIN tree /\ met[i] \in Words /\ Len(met[i]) = Len(p)
<1> DEFINE leaves == Siblings(tree, p) \cap DOMAIN tree
<1>1. PICK S : S \subseteq leaves /\ met \in SetToSeqs(S)
  BY DEF Met
<1>2. IsFiniteSet(S) /\ \A s \in S : s \in DOMAIN tree /\ s \in Words /\ Len(s) = Len(p)
  BY <1>1, SiblingFacts, FS_Subset
<1>3. Cardinality(S) \in Nat
  BY <1>2, FS_CardinalityType
<1>4. met \in [1..Cardinality(S) -> S]
  BY <1>1 DEF SetToSeqs
<1>5. Len(met) = Cardinality(S) /\ \A i \in 1..Cardinality(S) : met[i] \in S
  BY <1>3, <1>4
<1>6. QED
  BY <1>2, <1>3, <1>5

\* What is gathered fits one level up, with a digit to spare.
LEMMA MergedFits ==
  ASSUME NEW tree, IsTree(tree), NEW p \in DOMAIN tree, Len(p) > 0, NEW met \in Met(tree, p),
         NEW rest, Fits(p, rest)
  PROVE  /\ \A t \in DOMAIN Merged(tree, met, rest) :
              /\ t \in Words /\ Len(p) + Len(t) <= AddressLength
              /\ Merged(tree, met, rest)[t] \in 1..MaxTimestamp
         /\ AllBounded(tree) /\ IsFiniteSet(DOMAIN rest) =>
              IsFiniteSet(DOMAIN Merged(tree, met, rest))
<1> DEFINE all == Merged(tree, met, rest)
           holders(t) == {i \in 1..Len(met) : t \in DOMAIN tree[met[i]]}
           latest(t) == CHOOSE i \in holders(t) : \A j \in holders(t) : i <= j
           parts == {DOMAIN tree[met[i]] : i \in 1..Len(met)}
<1>1. p \in Words
  BY TreeFacts
<1>2. /\ Len(met) \in Nat
      /\ \A i \in 1..Len(met) : met[i] \in DOMAIN tree /\ met[i] \in Words /\ Len(met[i]) = Len(p)
  BY <1>1, MetFacts
<1>3. /\ DOMAIN all = DOMAIN rest \cup UNION parts
      /\ \A t \in DOMAIN all : all[t] = IF holders(t) = {} THEN rest[t] ELSE tree[met[latest(t)]][t]
  BY DEF Merged
<1>4. ASSUME NEW t \in DOMAIN all
      PROVE  t \in Words /\ Len(p) + Len(t) <= AddressLength /\ all[t] \in 1..MaxTimestamp
  <2>1. CASE holders(t) = {}
    <3>1. t \in DOMAIN rest
      BY <1>3, <1>4, <2>1
    <3>2. all[t] = rest[t]
      BY <1>3, <1>4, <2>1
    <3> HIDE DEF all
    <3>3. QED
      BY <3>1, <3>2 DEF Fits
  <2>2. CASE holders(t) # {}
    <3>1. holders(t) \subseteq Nat
      OBVIOUS
    <3>2. \E i \in holders(t) : \A j \in holders(t) : i <= j
      BY <2>2, <3>1, LeastNatural
    <3>3. latest(t) \in holders(t)
      BY <3>2
    <3> DEFINE i == latest(t)
    <3>4. i \in 1..Len(met) /\ t \in DOMAIN tree[met[i]]
      BY <3>3
    <3>5. all[t] = tree[met[i]][t]
      BY <1>3, <1>4, <2>2
    <3> HIDE DEF i, all
    <3>6. Entry(tree, met[i], t) /\ Len(met[i]) = Len(p)
      BY <1>2, <3>4 DEF Entry
    <3>7. QED
      BY <3>5, <3>6, TreeFacts
  <2>3. QED
    BY <2>1, <2>2
<1>5. ASSUME AllBounded(tree), IsFiniteSet(DOMAIN rest) PROVE IsFiniteSet(DOMAIN all)
  <2> DEFINE part == [i \in 1..Len(met) |-> DOMAIN tree[met[i]]]
  <2>1. part \in Surjection(1..Len(met), parts)
    BY DEF Surjection
  <2>2. IsFiniteSet(1..Len(met))
    BY <1>2, FS_Interval
  <2>3. IsFiniteSet(parts)
    BY <2>1, <2>2, FS_Surjection
  <2>4. \A d \in parts : IsFiniteSet(d)
    BY <1>2, <1>5 DEF AllBounded, Bounded
  <2> HIDE DEF parts
  <2>5. IsFiniteSet(UNION parts)
    BY <2>3, <2>4, FS_UNION
  <2>6. IsFiniteSet(DOMAIN rest \cup UNION parts)
    BY <1>5, <2>5, FS_Union
  <2>7. QED
    BY <1>3, <2>6
<1>6. QED
  BY <1>4, <1>5

\* The document at p with an entry less.
LEMMA DeleteFacts ==
  ASSUME NEW tree, IsTree(tree), NEW p \in DOMAIN tree, NEW tail
  PROVE  /\ DOMAIN Delete(tree[p], tail) = DOMAIN tree[p] \ {tail}
         /\ Fits(p, Delete(tree[p], tail))
         /\ AllBounded(tree) => Bounded(p, Delete(tree[p], tail))
         /\ \A w, v : Replaced(tree, p, Delete(tree[p], tail), w, v) => Holds(tree, w, v)
<1> DEFINE rest == Delete(tree[p], tail)
<1>1. DOMAIN rest = DOMAIN tree[p] \ {tail} /\ \A t \in DOMAIN rest : rest[t] = tree[p][t]
  BY DEF Delete
<1> HIDE DEF rest
<1>2. Fits(p, rest)
  BY <1>1, InTreeFree DEF Fits
<1>3. ASSUME AllBounded(tree) PROVE Bounded(p, rest)
  <2>1. IsFiniteSet(DOMAIN tree[p]) /\ Cardinality(DOMAIN tree[p]) <= Capacity + Len(p)
    BY <1>3 DEF AllBounded, Bounded
  <2>2. IsFiniteSet(DOMAIN rest) /\ Cardinality(DOMAIN rest) <= Cardinality(DOMAIN tree[p])
    BY <1>1, <2>1, FS_Subset
  <2>3. Cardinality(DOMAIN rest) \in Nat /\ Cardinality(DOMAIN tree[p]) \in Nat
    BY <2>1, <2>2, FS_CardinalityType
  <2>4. Len(p) \in Nat /\ Capacity \in Nat
    BY TreeFacts, LenProperties, MerkleConstants DEF Words
  <2>5. QED
    BY <2>1, <2>2, <2>3, <2>4 DEF Bounded
<1>4. ASSUME NEW w, NEW v, Replaced(tree, p, rest, w, v) PROVE Holds(tree, w, v)
  BY <1>1, <1>4 DEF Replaced, Holds, Entry
<1>5. QED
  BY <1>1, <1>2, <1>3, <1>4 DEF rest

\* What a tree keeps of another whose entry for a was removed: whole addresses
\* other than a, as they were.
KeepsOthers(new, tree, a) ==
  \A w, v : Holds(new, w, v) /\ Len(w) = AddressLength => Holds(tree, w, v) /\ w # a

\* The documents of new are as good as those of tree.
Sound(new, tree) ==
  /\ IsTree(new)
  /\ AllBounded(tree) => AllBounded(new)
  /\ AllFilled(tree) => AllFilled(new)

\* The document at p is kept without the entry.
LEMMA KeptSound ==
  ASSUME NEW tree, IsTree(tree), NEW a \in Words, Len(a) = AddressLength, ~Bottomless(tree, a),
         BottomPath(tree, a) \in DOMAIN tree,
         NEW rest, rest = Delete(tree[BottomPath(tree, a)], BottomRest(tree, a))
  PROVE  Sound(Put(tree, BottomPath(tree, a), rest), tree)
           /\ KeepsOthers(Put(tree, BottomPath(tree, a), rest), tree, a)
<1> DEFINE p == BottomPath(tree, a)
           tail == BottomRest(tree, a)
           new == Put(tree, p, rest)
<1>1. p \in DOMAIN tree /\ rest = Delete(tree[p], tail)
  OBVIOUS
<1>2. p \in Words /\ Free(tree, p) /\ \A t \in Words : Whole(p, t) = a => t = tail
  BY TailFacts
<1>3. \A q, t : Entry(tree, q, t) /\ a = Whole(q, t) => q = p
  BY HeldAt
<1> HIDE DEF p, tail
<1>4. /\ DOMAIN rest = DOMAIN tree[p] \ {tail} /\ Fits(p, rest)
      /\ AllBounded(tree) => Bounded(p, rest)
      /\ \A w, v : Replaced(tree, p, rest, w, v) => Holds(tree, w, v)
  <2> DEFINE less == Delete(tree[p], tail)
  <2>1. /\ DOMAIN less = DOMAIN tree[p] \ {tail} /\ Fits(p, less)
        /\ AllBounded(tree) => Bounded(p, less)
        /\ \A w, v : Replaced(tree, p, less, w, v) => Holds(tree, w, v)
    BY <1>1, DeleteFacts
  <2>2. rest = less
    BY <1>1
  <2> HIDE DEF less
  <2>3. QED
    BY <2>1, <2>2
<1>5. /\ IsTree(new)
      /\ AllBounded(tree) => AllBounded(new)
      /\ \A q \in DOMAIN new :
              \/ q = p /\ new[q] = rest /\ DOMAIN rest # {}
              \/ q # p /\ q \in DOMAIN tree /\ new[q] = tree[q]
  BY <1>2, <1>4, PutTree
<1>6. \A w, v : Holds(new, w, v) <=> Replaced(tree, p, rest, w, v)
  BY <1>2, <1>4, PutHolds
<1>7. ASSUME NEW v PROVE ~Replaced(tree, p, rest, a, v)
  <2>1. \A t \in DOMAIN rest : t \in Words /\ t # tail
    BY <1>4 DEF Fits
  <2>2. QED
    BY <1>2, <1>3, <2>1 DEF Replaced
<1> HIDE DEF new
<1>8. Sound(new, tree)
  BY <1>5 DEF Sound, AllFilled
<1>9. KeepsOthers(new, tree, a)
  BY <1>4, <1>6, <1>7 DEF KeepsOthers
<1>10. QED
  BY <1>8, <1>9 DEF new, p

\* The parent is replaced by all that was gathered.
LEMMA FoldedSound ==
  ASSUME NEW tree, IsTree(tree), NEW a \in Words, NEW p \in DOMAIN tree, Len(p) > 0,
         \A q, t : Entry(tree, q, t) /\ a = Whole(q, t) => q = p,
         NEW all,
         \A t \in DOMAIN all : /\ t \in Words /\ Len(p) + Len(t) <= AddressLength
                               /\ all[t] \in 1..MaxTimestamp,
         AllBounded(tree) => IsFiniteSet(DOMAIN all), Cardinality(DOMAIN all) <= Capacity
  PROVE  Sound(Put(Unlink(tree, Parent(p)), Parent(p), all), tree)
           /\ KeepsOthers(Put(Unlink(tree, Parent(p)), Parent(p), all), tree, a)
<1> DEFINE top == Parent(p)
           cut == Unlink(tree, top)
           new == Put(cut, top, all)
<1>1. /\ p \in Words /\ top \in Words /\ Len(top) = Len(p) - 1 /\ Len(p) \in Nat /\ Under(p, top)
      /\ Len(top) \in Nat
  BY TreeFacts, ParentOf
<1>2. /\ IsTree(cut)
      /\ DOMAIN cut = {q \in DOMAIN tree : ~Under(q, top)}
      /\ \A q \in DOMAIN cut : cut[q] = tree[q]
      /\ AllBounded(tree) => AllBounded(cut)
  BY UnlinkTree
<1> HIDE DEF top, cut
<1>3. ASSUME NEW q \in DOMAIN cut PROVE q \in DOMAIN tree /\ q \in Words /\ q # p /\ ~Under(q, top) /\ ~Under(top, q)
  <2>1. q \in DOMAIN tree /\ q \in Words /\ ~Under(q, top) /\ q # p
    BY <1>1, <1>2, TreeFacts
  <2>2. Under(top, q) => Under(p, q)
    BY <1>1, <2>1, UnderOrder
  <2>3. Under(p, q) => p = q
    BY <2>1, TreeFacts
  <2>4. QED
    BY <2>1, <2>2, <2>3
<1>4. Free(cut, top)
  BY <1>3 DEF Free
<1>5. \A t \in DOMAIN all : Len(top) + Len(t) < AddressLength
  <2>1. AddressLength \in Nat /\ \A t \in Words : Len(t) \in Nat
    BY MerkleConstants, LenProperties DEF Words
  <2>2. QED
    BY <1>1, <2>1
<1>6. Fits(top, all)
  <2>1. AddressLength \in Nat /\ \A t \in Words : Len(t) \in Nat
    BY MerkleConstants, LenProperties DEF Words
  <2>2. QED
    BY <1>1, <1>5, <2>1 DEF Fits
<1>7. AllBounded(tree) => Bounded(top, all)
  <2>1. IsFiniteSet(DOMAIN all) => Cardinality(DOMAIN all) \in Nat
    BY FS_CardinalityType
  <2>2. QED
    BY <1>1, <2>1, MerkleConstants DEF Bounded
<1>8. /\ IsTree(new)
      /\ AllBounded(cut) /\ Bounded(top, all) => AllBounded(new)
      /\ \A q \in DOMAIN new :
              \/ q = top /\ new[q] = all /\ DOMAIN all # {}
              \/ q # top /\ q \in DOMAIN cut /\ new[q] = cut[q]
  BY <1>1, <1>2, <1>4, <1>6, PutTree
<1>9. \A w, v : Holds(new, w, v) <=> Replaced(cut, top, all, w, v)
  BY <1>1, <1>2, <1>4, <1>6, PutHolds
<1> HIDE DEF new
<1>10. Sound(new, tree)
  BY <1>2, <1>7, <1>8 DEF Sound, AllFilled
<1>11. ASSUME NEW w, NEW v, Replaced(cut, top, all, w, v), Len(w) = AddressLength
       PROVE  Holds(tree, w, v) /\ w # a
  <2>1. CASE \E t \in DOMAIN all : w = Whole(top, t) /\ v = all[t]
    <3>1. PICK t \in DOMAIN all : w = Whole(top, t)
      BY <2>1
    <3>2. Len(w) = Len(top) + Len(t) /\ Len(t) \in Nat
      BY <1>1, <3>1, JoinWords DEF Whole
    <3>3. QED
      BY <1>1, <1>5, <1>11, <3>2, MerkleConstants
  <2>2. CASE \E q, t : q # top /\ Entry(cut, q, t) /\ w = Whole(q, t) /\ v = cut[q][t]
    <3>1. PICK q, t : q # top /\ Entry(cut, q, t) /\ w = Whole(q, t) /\ v = cut[q][t]
      BY <2>2
    <3>2. Entry(tree, q, t) /\ q # p /\ v = tree[q][t]
      BY <1>2, <1>3, <3>1 DEF Entry
    <3>3. QED
      BY <3>1, <3>2 DEF Holds
  <2>3. QED
    BY <1>11, <2>1, <2>2 DEF Replaced
<1>12. KeepsOthers(new, tree, a)
  BY <1>9, <1>11 DEF KeepsOthers
<1>13. QED
  BY <1>10, <1>12 DEF new, cut, top

\* A branch is dropped.
LEMMA DroppedSound ==
  ASSUME NEW tree, NEW new, Sound(new, tree), NEW a, KeepsOthers(new, tree, a), NEW p
  PROVE  Sound(Unlink(new, p), tree) /\ KeepsOthers(Unlink(new, p), tree, a)
<1> DEFINE cut == Unlink(new, p)
<1>1. /\ IsTree(cut)
      /\ DOMAIN cut = {q \in DOMAIN new : ~Under(q, p)}
      /\ \A q \in DOMAIN cut : cut[q] = new[q]
      /\ AllBounded(new) => AllBounded(cut)
  BY UnlinkTree DEF Sound
<1> HIDE DEF cut
<1>2. Sound(cut, tree)
  BY <1>1 DEF Sound, AllFilled
<1>3. ASSUME NEW w, NEW v, Holds(cut, w, v) PROVE Holds(new, w, v)
  BY <1>1, <1>3 DEF Holds, Entry
<1>4. KeepsOthers(cut, tree, a)
  BY <1>3 DEF KeepsOthers
<1>5. QED
  BY <1>2, <1>4 DEF cut

\* What a removal may come to.
LEMMA RemoveTree ==
  ASSUME NEW tree, IsTree(tree), NEW a \in Words, Len(a) = AddressLength,
         NEW o \in RemoveItem(tree, a)
  PROVE  \/ o.status = "panic" /\ o.tree = tree
         \/ o.status = "not found" /\ o.tree = tree /\ \A v : ~Holds(tree, a, v)
         \/ /\ o.status = "ok" /\ tree # NoHead
            /\ AllBounded(tree) => AllBounded(o.tree)
            /\ AllFilled(tree) => AllFilled(o.tree)
            /\ IsTree(o.tree) /\ KeepsOthers(o.tree, tree, a)
<1> DEFINE level == BottomLevel(tree, a)
           p == BottomPath(tree, a)
           tail == BottomRest(tree, a)
           rest == Delete(tree[p], tail)
<1>1. RemoveItem(tree, a) =
        IF tree = NoHead \/ Bottomless(tree, a) \/ p \notin DOMAIN tree THEN {Outcome(tree, "panic")}
        ELSE IF tail \notin DOMAIN tree[p] THEN {Outcome(tree, "not found")}
        ELSE IF level = 0 THEN {Outcome(Put(tree, p, rest), "ok")}
        ELSE {Outcome(Collapsed(tree, p, rest, Merged(tree, met, rest)), "ok") : met \in Met(tree, p)}
  BY DEF RemoveItem, BottomPath, BottomRest
<1>2. \A q, t : Entry(tree, q, t) /\ a = Whole(q, t) => q = p /\ t = tail
  BY HeldAt
<1>3. ~Bottomless(tree, a) => p \in Words /\ Len(p) = level /\ level \in Nat
  BY WalkEntry
<1>4. ASSUME ~Bottomless(tree, a), p \in DOMAIN tree
      PROVE  /\ Sound(Put(tree, p, rest), tree) /\ KeepsOthers(Put(tree, p, rest), tree, a)
             /\ Fits(p, rest)
             /\ AllBounded(tree) => IsFiniteSet(DOMAIN rest)
  <2>1. rest = Delete(tree[BottomPath(tree, a)], BottomRest(tree, a))
    OBVIOUS
  <2>2. Fits(p, rest) /\ (AllBounded(tree) => Bounded(p, rest))
    BY <1>4, DeleteFacts
  <2> HIDE DEF rest
  <2>3. QED
    BY <1>4, <2>1, <2>2, KeptSound DEF Bounded
<1> HIDE DEF level, p, tail, rest
<1>5. CASE tree = NoHead \/ Bottomless(tree, a) \/ p \notin DOMAIN tree
  <2>1. o = Outcome(tree, "panic")
    BY <1>1, <1>5
  <2>2. QED
    BY <2>1 DEF Outcome
<1>6. CASE tree # NoHead /\ ~Bottomless(tree, a) /\ p \in DOMAIN tree /\ tail \notin DOMAIN tree[p]
  <2>1. o = Outcome(tree, "not found")
    BY <1>1, <1>6
  <2>2. \A v : ~Holds(tree, a, v)
    BY <1>2, <1>6 DEF Holds, Entry
  <2>3. QED
    BY <2>1, <2>2 DEF Outcome
<1>7. CASE tree # NoHead /\ ~Bottomless(tree, a) /\ p \in DOMAIN tree /\ tail \in DOMAIN tree[p]
  <2>1. tree # NoHead
    BY <1>7
  <2>2. ASSUME NEW new, o = Outcome(new, "ok"), Sound(new, tree), KeepsOthers(new, tree, a)
        PROVE  /\ o.status = "ok" /\ IsTree(o.tree) /\ KeepsOthers(o.tree, tree, a)
               /\ AllBounded(tree) => AllBounded(o.tree)
               /\ AllFilled(tree) => AllFilled(o.tree)
    <3>1. o.status = "ok" /\ o.tree = new
      BY <2>2 DEF Outcome
    <3>2. QED
      BY <2>2, <3>1 DEF Sound
  <2>3. CASE level = 0
    <3>1. o = Outcome(Put(tree, p, rest), "ok")
      BY <1>1, <1>7, <2>3
    <3>2. QED
      BY <1>4, <1>7, <2>1, <2>2, <3>1
  <2>4. CASE level # 0
    <3>1. PICK met \in Met(tree, p) : o = Outcome(Collapsed(tree, p, rest, Merged(tree, met, rest)), "ok")
      BY <1>1, <1>7, <2>4
    <3> DEFINE all == Merged(tree, met, rest)
               parent == IF Cardinality(DOMAIN all) <= Capacity
                         THEN Put(Unlink(tree, Parent(p)), Parent(p), all)
                         ELSE Put(tree, p, rest)
    <3>2. Len(p) > 0
      BY <1>3, <1>7, <2>4
    <3>3. /\ \A t \in DOMAIN all : /\ t \in Words /\ Len(p) + Len(t) <= AddressLength
                                   /\ all[t] \in 1..MaxTimestamp
          /\ AllBounded(tree) /\ IsFiniteSet(DOMAIN rest) => IsFiniteSet(DOMAIN all)
      BY <1>4, <1>7, <3>2, MergedFits
    <3>4. Collapsed(tree, p, rest, all) = IF DOMAIN all = {} THEN Unlink(parent, Path(p, 1)) ELSE parent
      BY DEF Collapsed
    <3> HIDE DEF all
    <3>5. Sound(parent, tree) /\ KeepsOthers(parent, tree, a)
      <4>1. CASE Cardinality(DOMAIN all) <= Capacity
        BY <1>2, <1>4, <1>7, <3>2, <3>3, <4>1, FoldedSound
      <4>2. CASE ~(Cardinality(DOMAIN all) <= Capacity)
        BY <1>4, <1>7, <4>2
      <4>3. QED
        BY <4>1, <4>2
    <3> HIDE DEF parent
    <3>6. Sound(Unlink(parent, Path(p, 1)), tree) /\ KeepsOthers(Unlink(parent, Path(p, 1)), tree, a)
      BY <3>5, DroppedSound
    <3>7. QED
      BY <2>1, <2>2, <3>1, <3>4, <3>5, <3>6 DEF all
  <2>5. QED
    BY <2>3, <2>4
<1>8. QED
  BY <1>5, <1>6, <1>7

-----------------------------------------------------------------------------
(***************************************************************************)
(* Merklehead: the invariant.                                              *)
(***************************************************************************)
HeadSound == IsTree(head) /\ Filled(head) /\ AllBounded(head)

\* A whole address in the tree has the timestamp of its account.
Timely ==
  \A w, v : Holds(head, w, v) /\ Len(w) = AddressLength => w \in Addresses /\ members[w] = v

\* Before anything is removed there are whole addresses only, of all accounts
\* that have content.
AllHeld ==
  ~shrunk =>
    /\ \A w, v : Holds(head, w, v) => Len(w) = AddressLength
    /\ \A a \in Addresses : members[a] # 0 => Holds(head, a, members[a])

MerkleInv ==
  /\ HeadSound
  /\ members \in [Addresses -> 0..MaxTimestamp]
  /\ fate \in {"running", "panic"}
  /\ shrunk \in BOOLEAN
  /\ Timely
  /\ AllHeld

LEMMA MerkleKeptInit == MerkleInit => MerkleInv
<1> SUFFICES ASSUME MerkleInit PROVE MerkleInv
  OBVIOUS
<1> USE DEF MerkleInit
<1>1. members \in [Addresses -> 0..MaxTimestamp] /\ \A a \in Addresses : members[a] = 0
  BY MerkleConstants
<1>2. HeadSound /\ \A w, v : ~Holds(head, w, v)
  BY NoHeadTree DEF HeadSound, Filled
<1>3. Timely
  BY <1>2 DEF Timely
<1>4. AllHeld
  BY <1>1, <1>2 DEF AllHeld
<1>5. QED
  BY <1>1, <1>2, <1>3, <1>4 DEF MerkleInv

\* A save: the account's timestamp is the one added.
LEMMA SaveKept ==
  ASSUME MerkleInv, NEW a \in Addresses, NEW timestamp \in 1..MaxTimestamp,
         SaveTimestamp(a, timestamp)
  PROVE  MerkleInv'
<1>1. /\ HeadSound /\ Timely /\ AllHeld
      /\ members \in [Addresses -> 0..MaxTimestamp]
      /\ fate \in {"running", "panic"} /\ shrunk \in BOOLEAN /\ shrunk' = shrunk
  BY DEF MerkleInv, SaveTimestamp
<1>2. CASE fate' = "panic" /\ UNCHANGED <<head, members>>
  BY <1>1, <1>2 DEF MerkleInv, HeadSound, Timely, AllHeld, Holds, Entry, AllBounded, Filled, AllFilled
<1>3. CASE /\ ~AddPanics(head, a)
           /\ head' = AddItem(head, a, timestamp)
           /\ members' = [members EXCEPT ![a] = timestamp]
           /\ fate' = fate
  <2>1. a \in Words /\ Len(a) = AddressLength /\ IsTree(head)
    BY <1>1, MerkleConstants DEF HeadSound
  <2> DEFINE new == AddItem(head, a, timestamp)
  <2>2. /\ IsTree(new)
        /\ \A w, v : Holds(new, w, v) <=> IF w = a THEN v = timestamp ELSE Holds(head, w, v)
        /\ AllBounded(head) => AllBounded(new)
        /\ Filled(head) => AllFilled(new)
    BY <1>3, <2>1, AddTree
  <2>3. head' = new
    BY <1>3
  <2> HIDE DEF new
  <2>4. /\ members' \in [Addresses -> 0..MaxTimestamp]
        /\ members'[a] = timestamp
        /\ \A b \in Addresses : b # a => members'[b] = members[b]
    BY <1>1, <1>3, MerkleConstants
  <2>5. HeadSound'
    <3>1. IsTree(new) /\ Filled(new) /\ AllBounded(new)
      BY <1>1, <2>2 DEF HeadSound, Filled
    <3>2. QED
      BY <2>3, <3>1 DEF HeadSound, IsTree, Filled, AllFilled, AllBounded
  <2>6. \A w, v : Holds(head, w, v)' <=> IF w = a THEN v = timestamp ELSE Holds(head, w, v)
    BY <2>2, <2>3 DEF Holds, Entry
  <2>7. Timely'
    BY <1>1, <2>4, <2>6 DEF Timely
  <2>8. AllHeld'
    BY <1>1, <2>1, <2>4, <2>6 DEF AllHeld
  <2>9. QED
    BY <1>1, <1>3, <2>4, <2>5, <2>7, <2>8 DEF MerkleInv
<1>4. QED
  BY <1>2, <1>3 DEF SaveTimestamp

\* What a removal leaves of the invariant.
LEMMA RemovedTree ==
  ASSUME MerkleInv, NEW a \in Addresses, NEW o \in RemoveItem(head, a)
  PROVE  /\ IsTree(o.tree) /\ Filled(o.tree) /\ AllBounded(o.tree)
         /\ \A w, v : Holds(o.tree, w, v) /\ Len(w) = AddressLength => Holds(head, w, v)
         /\ o.status # "panic" => \A v : ~Holds(o.tree, a, v)
<1>1. a \in Words /\ Len(a) = AddressLength /\ IsTree(head) /\ Filled(head) /\ AllBounded(head)
  BY MerkleConstants DEF MerkleInv, HeadSound
<1>2. \/ o.status = "panic" /\ o.tree = head
      \/ o.status = "not found" /\ o.tree = head /\ \A v : ~Holds(head, a, v)
      \/ /\ o.status = "ok" /\ head # NoHead
         /\ AllBounded(head) => AllBounded(o.tree)
         /\ AllFilled(head) => AllFilled(o.tree)
         /\ IsTree(o.tree) /\ KeepsOthers(o.tree, head, a)
  BY <1>1, RemoveTree
<1>3. CASE o.tree = head /\ (o.status = "panic" \/ \A v : ~Holds(head, a, v))
  BY <1>1, <1>3
<1>4. CASE /\ o.status = "ok" /\ head # NoHead
           /\ AllBounded(head) => AllBounded(o.tree)
           /\ AllFilled(head) => AllFilled(o.tree)
           /\ IsTree(o.tree) /\ KeepsOthers(o.tree, head, a)
  BY <1>1, <1>4 DEF KeepsOthers, Filled
<1>5. QED
  BY <1>2, <1>3, <1>4

\* A head that holds nothing untimely is as good as the one before.
LEMMA ShrunkKept ==
  ASSUME MerkleInv, shrunk' = TRUE, fate' \in {"running", "panic"},
         members' \in [Addresses -> 0..MaxTimestamp],
         NEW new, head' = new, IsTree(new), Filled(new), AllBounded(new),
         \A w, v : Holds(new, w, v) /\ Len(w) = AddressLength => w \in Addresses /\ members'[w] = v
  PROVE  MerkleInv'
<1>1. HeadSound'
  BY DEF HeadSound, IsTree, Filled, AllFilled, AllBounded
<1>2. Timely'
  BY DEF Timely, Holds, Entry
<1>3. AllHeld'
  BY DEF AllHeld
<1>4. QED
  BY <1>1, <1>2, <1>3 DEF MerkleInv

LEMMA RemoveKept ==
  ASSUME MerkleInv, NEW a \in Addresses, RemoveContent(a)
  PROVE  MerkleInv'
<1>1. /\ shrunk' = TRUE /\ fate = "running" /\ Timely /\ IsTree(head) /\ Filled(head) /\ AllBounded(head)
      /\ members \in [Addresses -> 0..MaxTimestamp]
  BY DEF MerkleInv, HeadSound, RemoveContent
<1>2. PICK o \in RemoveItem(head, a) :
        \/ fate' = "panic" /\ UNCHANGED <<head, members>>
        \/ /\ o.status # "panic"
           /\ head' = o.tree
           /\ members' = [members EXCEPT ![a] = 0]
           /\ fate' = fate
  BY DEF RemoveContent
<1>3. CASE fate' = "panic" /\ UNCHANGED <<head, members>>
  BY <1>1, <1>3, ShrunkKept DEF Timely
<1>4. CASE /\ o.status # "panic"
           /\ head' = o.tree
           /\ members' = [members EXCEPT ![a] = 0]
           /\ fate' = fate
  <2> DEFINE new == o.tree
  <2>1. /\ IsTree(new) /\ Filled(new) /\ AllBounded(new)
        /\ \A w, v : Holds(new, w, v) /\ Len(w) = AddressLength => Holds(head, w, v)
        /\ \A v : ~Holds(new, a, v)
    BY <1>4, RemovedTree
  <2>2. head' = new
    BY <1>4
  <2> HIDE DEF new
  <2>3. /\ members' \in [Addresses -> 0..MaxTimestamp]
        /\ \A b \in Addresses : b # a => members'[b] = members[b]
    BY <1>1, <1>4, MerkleConstants
  <2>4. \A w, v : Holds(new, w, v) /\ Len(w) = AddressLength => w \in Addresses /\ members'[w] = v
    BY <1>1, <2>1, <2>3 DEF Timely
  <2>5. QED
    BY <1>1, <1>4, <2>1, <2>2, <2>3, <2>4, ShrunkKept
<1>5. QED
  BY <1>2, <1>3, <1>4

LEMMA ChangeKept ==
  ASSUME MerkleInv, NEW a \in Addresses, ChangeLevel(a)
  PROVE  MerkleInv'
<1>1. /\ shrunk' = TRUE /\ fate = "running" /\ Timely /\ IsTree(head) /\ Filled(head) /\ AllBounded(head)
      /\ members \in [Addresses -> 0..MaxTimestamp] /\ members' = members /\ members[a] # 0
  BY DEF MerkleInv, HeadSound, ChangeLevel
<1>2. PICK o \in RemoveItem(head, a) :
        \/ fate' = "panic" /\ UNCHANGED head
        \/ /\ ~AddPanics(o.tree, a)
           /\ head' = AddItem(o.tree, a, members[a])
           /\ fate' = fate
  BY DEF ChangeLevel
<1>3. CASE fate' = "panic" /\ UNCHANGED head
  BY <1>1, <1>3, ShrunkKept DEF Timely
<1>4. CASE /\ ~AddPanics(o.tree, a)
           /\ head' = AddItem(o.tree, a, members[a])
           /\ fate' = fate
  <2> DEFINE cut == o.tree
             timestamp == members[a]
             new == AddItem(cut, a, timestamp)
  <2>1. /\ IsTree(cut) /\ Filled(cut) /\ AllBounded(cut)
        /\ \A w, v : Holds(cut, w, v) /\ Len(w) = AddressLength => Holds(head, w, v)
    BY RemovedTree
  <2>2. a \in Words /\ Len(a) = AddressLength /\ timestamp \in 1..MaxTimestamp
    BY <1>1, MerkleConstants
  <2>3. ~AddPanics(cut, a) /\ head' = new
    BY <1>4
  <2>4. timestamp = members[a]
    OBVIOUS
  <2> HIDE DEF cut, timestamp
  <2>5. /\ IsTree(new)
        /\ \A w, v : Holds(new, w, v) <=> IF w = a THEN v = timestamp ELSE Holds(cut, w, v)
        /\ AllBounded(cut) => AllBounded(new)
        /\ Filled(cut) => AllFilled(new)
    BY <2>1, <2>2, <2>3, AddTree
  <2> HIDE DEF new
  <2>6. \A w, v : Holds(new, w, v) /\ Len(w) = AddressLength => w \in Addresses /\ members'[w] = v
    BY <1>1, <2>1, <2>4, <2>5 DEF Timely
  <2>7. IsTree(new) /\ Filled(new) /\ AllBounded(new)
    BY <2>1, <2>5 DEF Filled
  <2>8. QED
    BY <1>1, <1>4, <2>3, <2>6, <2>7, ShrunkKept
<1>5. QED
  BY <1>2, <1>3, <1>4

LEMMA MerkleKeptStep == MerkleInv /\ [MerkleNext]_merkleVars => MerkleInv'
<1> SUFFICES ASSUME MerkleInv, [MerkleNext]_merkleVars PROVE MerkleInv'
  OBVIOUS
<1>1. ASSUME NEW a \in Addresses, NEW timestamp \in 1..MaxTimestamp, SaveTimestamp(a, timestamp)
      PROVE  MerkleInv'
  BY <1>1, SaveKept
<1>2. ASSUME NEW a \in Addresses, RemoveContent(a) PROVE MerkleInv'
  BY <1>2, RemoveKept
<1>3. ASSUME NEW a \in Addresses, ChangeLevel(a) PROVE MerkleInv'
  BY <1>3, ChangeKept
<1>4. CASE UNCHANGED merkleVars
  BY <1>4 DEF merkleVars, MerkleInv, HeadSound, Timely, AllHeld, Holds, Entry, IsTree, Filled,
              AllFilled, AllBounded
<1>5. QED
  BY <1>1, <1>2, <1>3, <1>4 DEF MerkleNext

LEMMA MerkleAlwaysInv == MerkleSpec => []MerkleInv
  BY MerkleKeptInit, MerkleKeptStep, PTL DEF MerkleSpec

\* What a reader who walks down finds is what the tree holds.
LEMMA LookupFinds ==
  ASSUME MerkleInv, NEW a \in Addresses
  PROVE  /\ Lookup(a) # 0 => Holds(head, a, Lookup(a))
         /\ \A v : Holds(head, a, v) => Lookup(a) = v /\ v \in 1..MaxTimestamp
<1> DEFINE p == BottomPath(head, a)
           tail == BottomRest(head, a)
<1>1. a \in Words /\ Len(a) = AddressLength /\ IsTree(head)
  BY MerkleConstants DEF MerkleInv, HeadSound
<1>2. Lookup(a) = IF ~Bottomless(head, a) /\ p \in DOMAIN head /\ tail \in DOMAIN head[p]
                  THEN head[p][tail] ELSE 0
  BY DEF Lookup, BottomPath, BottomRest
<1>3. ~Bottomless(head, a) => Whole(p, tail) = a
  BY <1>1, WalkEntry
<1>4. \A q, t : Entry(head, q, t) /\ a = Whole(q, t) => q = p /\ t = tail /\ ~Bottomless(head, a)
  BY <1>1, HeldAt
<1> HIDE DEF p, tail
<1>5. ASSUME Lookup(a) # 0 PROVE Holds(head, a, Lookup(a))
  BY <1>2, <1>3, <1>5 DEF Holds, Entry
<1>6. ASSUME NEW v, Holds(head, a, v) PROVE Lookup(a) = v /\ v \in 1..MaxTimestamp
  <2>1. PICK q, t : Entry(head, q, t) /\ a = Whole(q, t) /\ v = head[q][t]
    BY <1>6 DEF Holds
  <2>2. q = p /\ t = tail /\ ~Bottomless(head, a)
    BY <1>4, <2>1
  <2>3. Lookup(a) = v
    BY <1>2, <2>1, <2>2 DEF Entry
  <2>4. QED
    BY <1>1, <2>1, <2>3, TreeFacts
<1>7. QED
  BY <1>5, <1>6

\* The head is a tree of documents with shrinking tails, none of them empty,
\* whatever is saved, removed or moved.
THEOREM MerkleTypeCorrect == MerkleSpec => []MerkleTypeOK
<1>1. MerkleInv => MerkleTypeOK
  BY DEF MerkleInv, MerkleTypeOK, HeadSound, Filled, AllFilled
<1>2. QED
  BY <1>1, MerkleAlwaysInv, PTL

\* Removals may lose accounts, but what the tree shows under an address is
\* the timestamp that the account has: the entries that folding moves up lose a
\* digit, and are never a whole address again.
THEOREM MerkleNothingStale == MerkleSpec => []NothingStale
<1>1. MerkleInv => NothingStale
  <2> SUFFICES ASSUME MerkleInv, NEW a \in Addresses, Lookup(a) # 0 PROVE Lookup(a) = members[a]
    BY DEF NothingStale
  <2>1. Holds(head, a, Lookup(a)) /\ Len(a) = AddressLength
    BY LookupFinds, MerkleConstants
  <2>2. QED
    BY <2>1 DEF MerkleInv, Timely
<1>2. QED
  BY <1>1, MerkleAlwaysInv, PTL

\* However the addresses share their digits, a document outgrows the capacity by
\* no more than one entry a level.
THEOREM MerkleDocsBounded == MerkleSpec => []DocsBounded
<1>1. MerkleInv => DocsBounded
  BY DEF MerkleInv, HeadSound, AllBounded, Bounded, DocsBounded
<1>2. QED
  BY <1>1, MerkleAlwaysInv, PTL

\* Until something is removed the tree records the accounts that have content,
\* no others, each with the timestamp added last where a reader looks for it.
THEOREM MerkleRecordsMembers == MerkleSpec => []RecordsMembers
<1>1. MerkleInv => RecordsMembers
  <2> SUFFICES ASSUME MerkleInv, ~shrunk
               PROVE  /\ Recorded = {a \in Addresses : members[a] # 0}
                      /\ \A a \in Addresses : Lookup(a) = members[a]
    BY DEF RecordsMembers
  <2>1. /\ \A w, v : Holds(head, w, v) => w \in Addresses /\ members[w] = v
        /\ \A a \in Addresses : members[a] # 0 => Holds(head, a, members[a])
    BY DEF MerkleInv, Timely, AllHeld
  <2>2. ASSUME NEW w PROVE w \in Recorded <=> \E v : Holds(head, w, v)
    <3> DEFINE of(p) == {p \o t : t \in DOMAIN head[p]}
    <3>1. w \in Recorded <=> \E p \in DOMAIN head : w \in of(p)
      BY DEF Recorded
    <3>2. ASSUME NEW p PROVE w \in of(p) <=> \E t \in DOMAIN head[p] : w = Whole(p, t)
      BY DEF Whole
    <3> HIDE DEF of
    <3>3. QED
      BY <3>1, <3>2 DEF Holds, Entry
  <2>3. ASSUME NEW w PROVE w \in Recorded <=> w \in Addresses /\ members[w] # 0
    <3>1. ASSUME NEW v, Holds(head, w, v) PROVE w \in Addresses /\ members[w] # 0
      BY <2>1, <3>1, LookupFinds
    <3>2. QED
      BY <2>1, <2>2, <3>1
  <2>4. ASSUME NEW a \in Addresses PROVE Lookup(a) = members[a]
    BY <2>1, LookupFinds
  <2>5. QED
    BY <2>3, <2>4
<1>2. QED
  BY <1>1, MerkleAlwaysInv, PTL

-----------------------------------------------------------------------------
(***************************************************************************)
(* Invite tree: the loops of the recursion.                                *)
(*                                                                         *)
(* Each loop over a list of invites or accounts stays in a set of databases*)
(* if each of its rounds does.                                             *)
(***************************************************************************)
\* CheckAllInvited stays where each of its rounds does.
LEMMA CheckAllStays ==
  ASSUME NEW P, NEW base \in P, NEW me, NEW update, Len(me.invited) \in Nat,
         \A k \in 1..Len(me.invited) : \A x \in P :
           CheckInvited(x, me, me.invited[k], update) \in P
  PROVE  CheckAllInvited(base, me, update) \in P
<1> DEFINE n == Len(me.invited)
           round(k, x) == CheckInvited(x, me, me.invited[k], update)
           step == [p \in (1..n) \X P |-> round(p[1], p[2])]
           F(g) == [k \in 0..n |-> IF k = 0 THEN base
                             ELSE CheckInvited(g[k - 1], me, me.invited[k], update)]
           after == CHOOSE g : g = F(g)
<1>1. CheckAllInvited(base, me, update) = after[n]
  BY DEF CheckAllInvited
<1>2. n \in Nat /\ \A k \in 1..n : \A x \in P : round(k, x) \in P
  OBVIOUS
<1>F. ASSUME NEW g PROVE F(g) = [k \in 0..n |-> IF k = 0 THEN base ELSE round(k, g[k - 1])]
  OBVIOUS
<1> HIDE DEF n, round, F
<1>3. step \in [(1..n) \X P -> P]
  BY <1>2
<1>4. \A k \in 1..n : \A x \in P : step[<<k, x>>] = round(k, x)
  OBVIOUS
<1> HIDE DEF step
<1>5. PICK f \in [0..n -> P] : Loop(base, step, n, f)
  <2>1. HasLoop(P, base, step, n)
    BY <1>2, <1>3, LoopExists
  <2>2. QED
    BY <2>1 DEF HasLoop
<1>6. f = F(f)
  <2>1. \A k \in 0..n : k # 0 => k \in 1..n /\ k - 1 \in 0..n
    BY <1>2
  <2>2. f = [k \in 0..n |-> IF k = 0 THEN base ELSE round(k, f[k - 1])]
    BY <1>4, <1>5, <2>1 DEF Loop
  <2>3. QED
    BY <2>2, <1>F
<1>7. after = F(after)
  BY <1>6, Zenon
<1> HIDE DEF after
<1>8. after = [k \in 0..n |-> IF k = 0 THEN base ELSE round(k, after[k - 1])]
  <2>1. F(after) = [k \in 0..n |-> IF k = 0 THEN base ELSE round(k, after[k - 1])]
    BY <1>F
  <2>2. QED
    BY <1>7, <2>1, Zenon
<1>9. after[0] = base
  BY <1>2, <1>8
<1>10. \A k \in 1..n : after[k - 1] \in P => after[k] = step[<<k, after[k - 1]>>]
  BY <1>2, <1>4, <1>8
<1>11. after[n] \in P
  BY <1>2, <1>3, <1>9, <1>10, LoopEnds
<1>12. QED
  BY <1>1, <1>11

\* DisableAccount's loop stays where each of its rounds does.
LEMMA DisableChildrenStay ==
  ASSUME NEW P, NEW base \in P, NEW me, NEW update, Len(me.invited) \in Nat,
         \A k \in 1..Len(me.invited) : \A x \in P :
           DisableChild(x, me, me.invited[k], update) \in P
  PROVE  DisableChildren(base, me, update) \in P
<1> DEFINE n == Len(me.invited)
           round(k, x) == DisableChild(x, me, me.invited[k], update)
           step == [p \in (1..n) \X P |-> round(p[1], p[2])]
           F(g) == [k \in 0..n |-> IF k = 0 THEN base
                             ELSE DisableChild(g[k - 1], me, me.invited[k], update)]
           after == CHOOSE g : g = F(g)
<1>1. DisableChildren(base, me, update) = after[n]
  BY DEF DisableChildren
<1>2. n \in Nat /\ \A k \in 1..n : \A x \in P : round(k, x) \in P
  OBVIOUS
<1>F. ASSUME NEW g PROVE F(g) = [k \in 0..n |-> IF k = 0 THEN base ELSE round(k, g[k - 1])]
  OBVIOUS
<1> HIDE DEF n, round, F
<1>3. step \in [(1..n) \X P -> P]
  BY <1>2
<1>4. \A k \in 1..n : \A x \in P : step[<<k, x>>] = round(k, x)
  OBVIOUS
<1> HIDE DEF step
<1>5. PICK f \in [0..n -> P] : Loop(base, step, n, f)
  <2>1. HasLoop(P, base, step, n)
    BY <1>2, <1>3, LoopExists
  <2>2. QED
    BY <2>1 DEF HasLoop
<1>6. f = F(f)
  <2>1. \A k \in 0..n : k # 0 => k \in 1..n /\ k - 1 \in 0..n
    BY <1>2
  <2>2. f = [k \in 0..n |-> IF k = 0 THEN base ELSE round(k, f[k - 1])]
    BY <1>4, <1>5, <2>1 DEF Loop
  <2>3. QED
    BY <2>2, <1>F
<1>7. after = F(after)
  BY <1>6, Zenon
<1> HIDE DEF after
<1>8. after = [k \in 0..n |-> IF k = 0 THEN base ELSE round(k, after[k - 1])]
  <2>1. F(after) = [k \in 0..n |-> IF k = 0 THEN base ELSE round(k, after[k - 1])]
    BY <1>F
  <2>2. QED
    BY <1>7, <2>1, Zenon
<1>9. after[0] = base
  BY <1>2, <1>8
<1>10. \A k \in 1..n : after[k - 1] \in P => after[k] = step[<<k, after[k - 1]>>]
  BY <1>2, <1>4, <1>8
<1>11. after[n] \in P
  BY <1>2, <1>3, <1>9, <1>10, LoopEnds
<1>12. QED
  BY <1>1, <1>11

\* f is what UpdateNew leaves after each of its invites, and UpdateDropped after each
\* of its accounts.
NewRun(f, read, base, me, invites, update) ==
  /\ f[0] = base
  /\ \A k \in 1..Len(invites) :
       f[k] = IF ~IsChanged(me, invites[k]) THEN f[k - 1]
              ELSE update[<<f[k - 1], AddInviter(FetchAny(read, invites[k].account),
                                                 InviterFor(me, invites[k]))>>]

DroppedRun(f, read, base, me, order, update) ==
  /\ f[0] = base
  /\ \A k \in 1..Len(order) :
       f[k] = update[<<f[k - 1], RemoveInviter(FetchAny(read, order[k]), me.address)>>]

LEMMA UpdateNewRuns ==
  ASSUME NEW P, NEW base \in P, NEW read, NEW me, NEW invites, NEW update,
         Len(invites) \in Nat,
         \A k \in 1..Len(invites) : \A x \in P :
           IsChanged(me, invites[k]) =>
             update[<<x, AddInviter(FetchAny(read, invites[k].account),
                                    InviterFor(me, invites[k]))>>] \in P
  PROVE  \E f : /\ NewRun(f, read, base, me, invites, update)
               /\ UpdateNew(read, base, me, invites, update) = f[Len(invites)]
<1> DEFINE n == Len(invites)
           round(k, x) == IF ~IsChanged(me, invites[k]) THEN x
                          ELSE update[<<x, AddInviter(FetchAny(read, invites[k].account),
                                                      InviterFor(me, invites[k]))>>]
           step == [p \in (1..n) \X P |-> round(p[1], p[2])]
           F(g) == [k \in 0..n |->
                     IF k = 0 THEN base
                     ELSE IF ~IsChanged(me, invites[k]) THEN g[k - 1]
                     ELSE update[<<g[k - 1], AddInviter(FetchAny(read, invites[k].account),
                                                        InviterFor(me, invites[k]))>>]]
           after == CHOOSE g : g = F(g)
<1>1. UpdateNew(read, base, me, invites, update) = after[n]
  BY DEF UpdateNew
<1>2. n \in Nat /\ \A k \in 1..n : \A x \in P : round(k, x) \in P
  OBVIOUS
<1>F. ASSUME NEW g PROVE F(g) = [k \in 0..n |-> IF k = 0 THEN base ELSE round(k, g[k - 1])]
  OBVIOUS
<1> HIDE DEF n, round, F
<1>3. step \in [(1..n) \X P -> P]
  BY <1>2
<1>4. \A k \in 1..n : \A x \in P : step[<<k, x>>] = round(k, x)
  OBVIOUS
<1> HIDE DEF step
<1>5. PICK f \in [0..n -> P] : Loop(base, step, n, f)
  <2>1. HasLoop(P, base, step, n)
    BY <1>2, <1>3, LoopExists
  <2>2. QED
    BY <2>1 DEF HasLoop
<1>6. f = F(f)
  <2>1. \A k \in 0..n : k # 0 => k \in 1..n /\ k - 1 \in 0..n
    BY <1>2
  <2>2. f = [k \in 0..n |-> IF k = 0 THEN base ELSE round(k, f[k - 1])]
    BY <1>4, <1>5, <2>1 DEF Loop
  <2>3. QED
    BY <2>2, <1>F
<1>7. after = F(after)
  BY <1>6, Zenon
<1> HIDE DEF after
<1>8. after = [k \in 0..n |-> IF k = 0 THEN base ELSE round(k, after[k - 1])]
  <2>1. F(after) = [k \in 0..n |-> IF k = 0 THEN base ELSE round(k, after[k - 1])]
    BY <1>F
  <2>2. QED
    BY <1>7, <2>1, Zenon
<1>9. after[0] = base /\ \A k \in 1..n : after[k] = round(k, after[k - 1])
  BY <1>2, <1>8
<1>10. NewRun(after, read, base, me, invites, update)
  BY <1>9 DEF NewRun, n, round
<1>11. QED
  BY <1>1, <1>10 DEF n

\* So do the updates of the accounts with a new inviter ...
LEMMA UpdateNewStays ==
  ASSUME NEW P, NEW base \in P, NEW read, NEW me, NEW invites, NEW update,
         Len(invites) \in Nat,
         \A k \in 1..Len(invites) : \A x \in P :
           IsChanged(me, invites[k]) =>
             update[<<x, AddInviter(FetchAny(read, invites[k].account),
                                    InviterFor(me, invites[k]))>>] \in P
  PROVE  UpdateNew(read, base, me, invites, update) \in P
<1>1. PICK f : /\ NewRun(f, read, base, me, invites, update)
               /\ UpdateNew(read, base, me, invites, update) = f[Len(invites)]
  BY UpdateNewRuns
<1> DEFINE S == {k \in Nat : f[k] \in P}
<1>2. 0 \in S
  BY <1>1 DEF NewRun
<1>3. ASSUME NEW k \in 1..Len(invites), k - 1 \in S PROVE k \in S
  <2>1. f[k - 1] \in P /\ k \in Nat
    BY <1>3
  <2>2. CASE IsChanged(me, invites[k])
    <3>1. f[k] = update[<<f[k - 1], AddInviter(FetchAny(read, invites[k].account),
                                              InviterFor(me, invites[k]))>>]
      BY <1>1, <2>2 DEF NewRun
    <3>2. f[k] \in P
      BY <2>1, <2>2, <3>1
    <3>3. QED
      BY <2>1, <3>2
  <2>3. CASE ~IsChanged(me, invites[k])
    <3>1. f[k] = f[k - 1]
      BY <1>1, <2>3 DEF NewRun
    <3>2. QED
      BY <2>1, <3>1
  <2>4. QED
    BY <2>2, <2>3
<1> HIDE DEF S
<1>4. Len(invites) \in S
  BY <1>2, <1>3, Ascends
<1>5. QED
  BY <1>1, <1>4 DEF S

LEMMA UpdateDroppedRuns ==
  ASSUME NEW P, NEW base \in P, NEW read, NEW me, NEW order, NEW update,
         Len(order) \in Nat,
         \A k \in 1..Len(order) : \A x \in P :
           update[<<x, RemoveInviter(FetchAny(read, order[k]), me.address)>>] \in P
  PROVE  \E f : /\ DroppedRun(f, read, base, me, order, update)
               /\ UpdateDropped(read, base, me, order, update) = f[Len(order)]
<1> DEFINE n == Len(order)
           round(k, x) == update[<<x, RemoveInviter(FetchAny(read, order[k]), me.address)>>]
           step == [p \in (1..n) \X P |-> round(p[1], p[2])]
           F(g) == [k \in 0..n |->
                     IF k = 0 THEN base
                     ELSE update[<<g[k - 1], RemoveInviter(FetchAny(read, order[k]),
                                                           me.address)>>]]
           after == CHOOSE g : g = F(g)
<1>1. UpdateDropped(read, base, me, order, update) = after[n]
  BY DEF UpdateDropped
<1>2. n \in Nat /\ \A k \in 1..n : \A x \in P : round(k, x) \in P
  OBVIOUS
<1>F. ASSUME NEW g PROVE F(g) = [k \in 0..n |-> IF k = 0 THEN base ELSE round(k, g[k - 1])]
  OBVIOUS
<1> HIDE DEF n, round, F
<1>3. step \in [(1..n) \X P -> P]
  BY <1>2
<1>4. \A k \in 1..n : \A x \in P : step[<<k, x>>] = round(k, x)
  OBVIOUS
<1> HIDE DEF step
<1>5. PICK f \in [0..n -> P] : Loop(base, step, n, f)
  <2>1. HasLoop(P, base, step, n)
    BY <1>2, <1>3, LoopExists
  <2>2. QED
    BY <2>1 DEF HasLoop
<1>6. f = F(f)
  <2>1. \A k \in 0..n : k # 0 => k \in 1..n /\ k - 1 \in 0..n
    BY <1>2
  <2>2. f = [k \in 0..n |-> IF k = 0 THEN base ELSE round(k, f[k - 1])]
    BY <1>4, <1>5, <2>1 DEF Loop
  <2>3. QED
    BY <2>2, <1>F
<1>7. after = F(after)
  BY <1>6, Zenon
<1> HIDE DEF after
<1>8. after = [k \in 0..n |-> IF k = 0 THEN base ELSE round(k, after[k - 1])]
  <2>1. F(after) = [k \in 0..n |-> IF k = 0 THEN base ELSE round(k, after[k - 1])]
    BY <1>F
  <2>2. QED
    BY <1>7, <2>1, Zenon
<1>9. after[0] = base /\ \A k \in 1..n : after[k] = round(k, after[k - 1])
  BY <1>2, <1>8
<1>10. DroppedRun(after, read, base, me, order, update)
  BY <1>9 DEF DroppedRun, n, round
<1>11. QED
  BY <1>1, <1>10 DEF n

\* ... and of those that lose one.
LEMMA UpdateDroppedStays ==
  ASSUME NEW P, NEW base \in P, NEW read, NEW me, NEW order, NEW update,
         Len(order) \in Nat,
         \A k \in 1..Len(order) : \A x \in P :
           update[<<x, RemoveInviter(FetchAny(read, order[k]), me.address)>>] \in P
  PROVE  UpdateDropped(read, base, me, order, update) \in P
<1>1. PICK f : /\ DroppedRun(f, read, base, me, order, update)
               /\ UpdateDropped(read, base, me, order, update) = f[Len(order)]
  BY UpdateDroppedRuns
<1> DEFINE S == {k \in Nat : f[k] \in P}
<1>2. 0 \in S
  BY <1>1 DEF DroppedRun
<1>3. ASSUME NEW k \in 1..Len(order), k - 1 \in S PROVE k \in S
  <2>1. f[k - 1] \in P /\ k \in Nat
    BY <1>3
  <2>2. f[k] = update[<<f[k - 1], RemoveInviter(FetchAny(read, order[k]), me.address)>>]
    BY <1>1 DEF DroppedRun
  <2>3. f[k] \in P
    BY <2>1, <2>2
  <2>4. QED
    BY <2>1, <2>3
<1> HIDE DEF S
<1>4. Len(order) \in S
  BY <1>2, <1>3, Ascends
<1>5. QED
  BY <1>1, <1>4 DEF S

-----------------------------------------------------------------------------
(***************************************************************************)
(* Invite tree: what the recursion passes on keeps its shape.              *)
(*                                                                         *)
(* RecurseUpdateStatus calls itself through all of these operators.  They  *)
(* take the recursion one call deeper as a function, update, so that what  *)
(* they keep is stated for any update that keeps it.                       *)
(***************************************************************************)
\* The assumption on the constants of InviteTree.
InviteConstants == TreeAssumption

LEMMA GapsAreNumbers ==
  ASSUME InviteConstants
  PROVE  (LvlGaps \cup {0}) \subseteq Nat /\ LastTs \in Nat
  BY DEF InviteConstants, TreeAssumption

\* Half of the names of an account: a number of names too, few of them, and no more than
\* there were.
Few(names) == names <= MaxNames \div 2

LEMMA HalfOfNames ==
  ASSUME InviteConstants
  PROVE  /\ 0 \in 0..MaxNames /\ Few(0)
         /\ \A n \in 0..MaxNames :
              /\ n \div 2 \in 0..MaxNames /\ Few(n \div 2)
              /\ n \div 2 # 0 => n # 0
              /\ Few(n) => Few(n \div 2)
<1>1. MaxNames \in Nat
  BY DEF InviteConstants, TreeAssumption
<1>2. QED
  BY <1>1 DEF Few

\* What RemoveInviter leaves of a list of inviters.
LEMMA RemoveStays ==
  ASSUME NEW me \in AccountRecords, NEW address
  PROVE  /\ RemoveInviter(me, address) \in AccountRecords
         /\ RemoveInviter(me, address) =
              [me EXCEPT !.inviters = RemoveInviter(me, address).inviters]
<1> DEFINE n == Len(me.inviters)
           P == Seq(InviterType)
           round(k, x) == IF me.inviters[k].account = address THEN x
                          ELSE Append(x, me.inviters[k])
           step == [p \in (1..n) \X P |-> round(p[1], p[2])]
           F(g) == [k \in 0..n |->
                     IF k = 0 THEN <<>>
                     ELSE IF me.inviters[k].account = address THEN g[k - 1]
                     ELSE Append(g[k - 1], me.inviters[k])]
           after == CHOOSE g : g = F(g)
<1>1. RemoveInviter(me, address) = [me EXCEPT !.inviters = after[n]]
  BY DEF RemoveInviter
<1>a. me.inviters \in P /\ n \in Nat
  BY DEF AccountRecords
<1>b. \A k \in 1..n : me.inviters[k] \in InviterType
  BY <1>a
<1>c. \A x \in P : \A i \in InviterType : Append(x, i) \in P
  OBVIOUS
<1>2. \A k \in 1..n : \A x \in P : round(k, x) \in P
  BY <1>b, <1>c
<1>d. <<>> \in P
  OBVIOUS
<1>F. ASSUME NEW g PROVE F(g) = [k \in 0..n |-> IF k = 0 THEN <<>> ELSE round(k, g[k - 1])]
  OBVIOUS
<1> HIDE DEF n, round, F, P
<1>3. step \in [(1..n) \X P -> P]
  BY <1>2
<1>4. \A k \in 1..n : \A x \in P : step[<<k, x>>] = round(k, x)
  OBVIOUS
<1> HIDE DEF step
<1>5. PICK f \in [0..n -> P] : Loop(<<>>, step, n, f)
  <2>1. HasLoop(P, <<>>, step, n)
    BY <1>a, <1>d, <1>3, LoopExists
  <2>2. QED
    BY <2>1 DEF HasLoop
<1>6. f = F(f)
  <2>1. \A k \in 0..n : k # 0 => k \in 1..n /\ k - 1 \in 0..n
    BY <1>a
  <2>2. f = [k \in 0..n |-> IF k = 0 THEN <<>> ELSE round(k, f[k - 1])]
    BY <1>4, <1>5, <2>1 DEF Loop
  <2>3. QED
    BY <2>2, <1>F
<1>7. after = F(after)
  BY <1>6, Zenon
<1> HIDE DEF after
<1>8. after = [k \in 0..n |-> IF k = 0 THEN <<>> ELSE round(k, after[k - 1])]
  <2>1. F(after) = [k \in 0..n |-> IF k = 0 THEN <<>> ELSE round(k, after[k - 1])]
    BY <1>F
  <2>2. QED
    BY <1>7, <2>1, Zenon
<1>9. after[0] = <<>>
  BY <1>a, <1>8
<1>10. \A k \in 1..n : after[k - 1] \in P => after[k] = step[<<k, after[k - 1]>>]
  BY <1>a, <1>4, <1>8
<1>11. after[n] \in P
  BY <1>a, <1>d, <1>3, <1>9, <1>10, LoopEnds
<1>12. QED
  BY <1>1, <1>11 DEF AccountRecords, P

\* The inviter that an account records for an invite, and the account with it.
LEMMA InviterForType ==
  ASSUME InviteConstants, NEW me \in AccountRecords, NEW invite \in InviteType
  PROVE  InviterFor(me, invite) \in InviterType
<1>1. me.address \in AccountIds /\ me.active \in InviterType
  BY DEF AccountRecords
<1>2. me.active.level \in Nat /\ me.active.gap \in Nat
  BY <1>1, GapsAreNumbers DEF InviterType
<1>3. AssignedLevel(me.active) \in Nat
  BY <1>2 DEF AssignedLevel
<1>4. invite.timestamp \in 0..LastTs /\ invite.gap \in LvlGaps \cup {0}
  BY GapsAreNumbers DEF InviteType, Timestamps
<1>5. QED
  BY <1>1, <1>3, <1>4 DEF InviterFor, InviterType

LEMMA AddStays ==
  ASSUME InviteConstants, NEW me \in AccountRecords, NEW inviter \in InviterType
  PROVE  /\ AddInviter(me, inviter) \in AccountRecords
         /\ AddInviter(me, inviter) = [me EXCEPT !.inviters = AddInviter(me, inviter).inviters]
<1> DEFINE known == {k \in DOMAIN me.inviters : me.inviters[k].account = inviter.account}
           again == [k \in DOMAIN me.inviters |->
                       IF k \in known
                       THEN [me.inviters[k] EXCEPT !.timestamp = inviter.timestamp,
                                                   !.gap = inviter.gap]
                       ELSE me.inviters[k]]
           list == IF known = {} THEN Append(me.inviters, inviter) ELSE again
<1>1. AddInviter(me, inviter) = [me EXCEPT !.inviters = list]
  <2>1. CASE known = {}
    BY <2>1 DEF AddInviter
  <2>2. CASE known # {}
    BY <2>2 DEF AddInviter
  <2>3. QED
    BY <2>1, <2>2
<1>2. me.inviters \in Seq(InviterType)
  BY DEF AccountRecords
<1>3. again \in Seq(InviterType)
  <2>1. DOMAIN me.inviters = 1..Len(me.inviters) /\ Len(me.inviters) \in Nat
    BY <1>2
  <2>2. \A k \in DOMAIN me.inviters : me.inviters[k] \in InviterType
    BY <1>2, <2>1
  <2>3. \A k \in DOMAIN me.inviters : again[k] \in InviterType
    BY <2>2 DEF InviterType
  <2>4. again \in [1..Len(me.inviters) -> InviterType]
    BY <2>1, <2>3
  <2> HIDE DEF again
  <2>5. QED
    BY <2>1, <2>4
<1>4. Append(me.inviters, inviter) \in Seq(InviterType)
  BY <1>2
<1>5. list \in Seq(InviterType)
  BY <1>3, <1>4
<1> HIDE DEF list
<1>6. QED
  BY <1>1, <1>5 DEF AccountRecords

\* The oldest inviter of an account that has one.
LEMMA OldestInviter ==
  ASSUME InviteConstants, NEW me \in AccountRecords, me.inviters # <<>>
  PROVE  \E k \in Oldest(me.inviters) : DetermineActiveInviter(me) = me.inviters[k]
<1>1. me.inviters \in Seq(InviterType) /\ DOMAIN me.inviters = 1..Len(me.inviters)
      /\ Len(me.inviters) \in Nat /\ 1 \in DOMAIN me.inviters
  BY DEF AccountRecords
<1>2. \A k \in DOMAIN me.inviters : me.inviters[k].timestamp \in Nat
  <2>1. \A k \in DOMAIN me.inviters : me.inviters[k] \in InviterType
    BY <1>1
  <2>2. \A i \in InviterType : i.timestamp \in Nat
    BY GapsAreNumbers DEF InviterType
  <2>3. QED
    BY <2>1, <2>2
<1> DEFINE T == {me.inviters[k].timestamp : k \in DOMAIN me.inviters}
<1>3. T \subseteq Nat /\ T # {}
  BY <1>1, <1>2
<1>4. PICK m \in T : \A j \in T : m <= j
  BY <1>3, LeastNatural
<1>5. Oldest(me.inviters) # {}
  BY <1>4 DEF Oldest
<1>6. QED
  BY <1>5 DEF DetermineActiveInviter

LEMMA OldestType ==
  ASSUME NEW me \in AccountRecords, NEW k \in Oldest(me.inviters)
  PROVE  me.inviters[k] \in InviterType
  BY DEF AccountRecords, Oldest

\* The writes of one field of a database.
LEMMA WritesType ==
  ASSUME InviteConstants, NEW base \in Databases, NEW a \in AccountIds
  PROVE  /\ LogContent(base, a) \in Databases
         /\ LogRemoval(base, a) \in Databases
         /\ MerkleRemove(base, a) \in Databases
         /\ \A t \in 0..LastTs : MerkleAdd(base, a, t) \in Databases
         /\ NamesRemoveAll(base, a) \in Databases
         /\ \A reason \in Deaths : Die(base, reason) \in Databases
<1>1. 0 \in 0..LastTs
  BY GapsAreNumbers
<1>2. LogContent(base, a) \in Databases
  BY DEF LogContent, Databases
<1>3. LogRemoval(base, a) \in Databases
  BY DEF LogRemoval, Databases
<1>4. MerkleRemove(base, a) \in Databases
  BY <1>1 DEF MerkleRemove, Databases
<1>5. ASSUME NEW t \in 0..LastTs PROVE MerkleAdd(base, a, t) \in Databases
  BY DEF MerkleAdd, Databases
<1>6. NamesRemoveAll(base, a) \in Databases
  <2>1. base.names[a] \in 0..MaxNames
    BY DEF Databases
  <2>2. base.names[a] \div 2 \in 0..MaxNames
    BY <2>1, HalfOfNames
  <2>3. QED
    BY <2>2 DEF NamesRemoveAll, Databases
<1>7. ASSUME NEW reason \in Deaths PROVE Die(base, reason) \in Databases
  BY DEF Die, Databases
<1>8. QED
  BY <1>2, <1>3, <1>4, <1>5, <1>6, <1>7

\* The save of a record.
LEMMA SaveType ==
  ASSUME InviteConstants, NEW base \in Databases, NEW me \in AccountRecords
  PROVE  SaveToDb(base, me) \in Databases /\ SaveLast(base, me) \in Databases
<1>1. me.address \in AccountIds
  BY DEF AccountRecords
<1>2. [base EXCEPT !.accounts[me.address] = me] \in Databases
  BY <1>1 DEF Databases
<1>3. Die(base, "account requires active inviter to be set") \in Databases
  BY WritesType, <1>1 DEF Deaths
<1>4. SaveToDb(base, me) \in Databases
  BY <1>2, <1>3 DEF SaveToDb
<1>5. QED
  BY <1>4 DEF SaveLast

\* What is read is a record.
LEMMA FetchType ==
  ASSUME NEW base \in Databases, NEW a \in AccountIds
  PROVE  FetchAny(base, a) \in AccountRecords
  BY DEF FetchAny, Databases

\* RecurseUpdateStatus to some depth, as far as its shape goes.
Updates == [Calls -> Databases]

LEMMA UpdateType ==
  ASSUME NEW update \in Updates, NEW base \in Databases, NEW me \in AccountRecords
  PROVE  update[<<base, me>>] \in Databases
  BY DEF Updates, Calls

\* An invite of a list of invites.
LEMMA InviteOfList ==
  ASSUME NEW invites \in Seq(InviteType)
  PROVE  /\ Len(invites) \in Nat
         /\ \A k \in 1..Len(invites) :
              invites[k] \in InviteType /\ invites[k].account \in AccountIds
<1>1. \A k \in 1..Len(invites) : invites[k] \in InviteType
  OBVIOUS
<1>2. \A i \in InviteType : i.account \in AccountIds
  BY DEF InviteType
<1>3. QED
  BY <1>1, <1>2

\* The loops keep the shape of the database.
LEMMA CheckAllType ==
  ASSUME InviteConstants, NEW base \in Databases, NEW me \in AccountRecords,
         NEW update \in Updates
  PROVE  CheckAllInvited(base, me, update) \in Databases
<1>1. me.invited \in Seq(InviteType)
  BY DEF AccountRecords
<1>2. ASSUME NEW invite \in InviteType, invite.account \in AccountIds, NEW x \in Databases
      PROVE  CheckInvited(x, me, invite, update) \in Databases
  <2>1. FetchAny(x, invite.account) \in AccountRecords
    BY <1>2, FetchType
  <2>2. AddInviter(FetchAny(x, invite.account), InviterFor(me, invite)) \in AccountRecords
    BY <2>1, InviterForType, AddStays
  <2>3. /\ update[<<x, FetchAny(x, invite.account)>>] \in Databases
        /\ update[<<x, AddInviter(FetchAny(x, invite.account), InviterFor(me, invite))>>]
             \in Databases
    BY <2>1, <2>2, UpdateType
  <2>4. Die(x, "missing account") \in Databases
    BY <1>2, WritesType DEF Deaths
  <2>5. QED
    BY <2>3, <2>4 DEF CheckInvited
<1>3. \A k \in 1..Len(me.invited) : \A x \in Databases :
        CheckInvited(x, me, me.invited[k], update) \in Databases
  BY <1>1, <1>2, InviteOfList
<1>4. Len(me.invited) \in Nat
  BY <1>1
<1>5. QED
  BY <1>3, <1>4, CheckAllStays

LEMMA DisableChildrenType ==
  ASSUME InviteConstants, NEW base \in Databases, NEW me \in AccountRecords,
         NEW update \in Updates
  PROVE  DisableChildren(base, me, update) \in Databases
<1>1. me.invited \in Seq(InviteType)
  BY DEF AccountRecords
<1>2. ASSUME NEW invite \in InviteType, invite.account \in AccountIds, NEW x \in Databases
      PROVE  DisableChild(x, me, invite, update) \in Databases
  <2>1. FetchAny(x, invite.account) \in AccountRecords
    BY <1>2, FetchType
  <2>2. RemoveInviter(FetchAny(x, invite.account), me.address) \in AccountRecords
    BY <2>1, RemoveStays
  <2>3. update[<<x, RemoveInviter(FetchAny(x, invite.account), me.address)>>] \in Databases
    BY <2>2, UpdateType
  <2>4. Die(x, "DisableAccount() - missing account") \in Databases
    BY <1>2, WritesType DEF Deaths
  <2>5. QED
    BY <2>3, <2>4 DEF DisableChild
<1>3. \A k \in 1..Len(me.invited) : \A x \in Databases :
        DisableChild(x, me, me.invited[k], update) \in Databases
  BY <1>1, <1>2, InviteOfList
<1>4. Len(me.invited) \in Nat
  BY <1>1
<1>5. QED
  BY <1>3, <1>4, DisableChildrenStay

LEMMA UpdateNewType ==
  ASSUME InviteConstants, NEW read \in Databases, NEW base \in Databases,
         NEW me \in AccountRecords, NEW invites \in Seq(InviteType),
         NEW update \in Updates
  PROVE  UpdateNew(read, base, me, invites, update) \in Databases
<1>1. ASSUME NEW invite \in InviteType, invite.account \in AccountIds, NEW x \in Databases
      PROVE  update[<<x, AddInviter(FetchAny(read, invite.account), InviterFor(me, invite))>>]
               \in Databases
  <2>1. AddInviter(FetchAny(read, invite.account), InviterFor(me, invite)) \in AccountRecords
    BY <1>1, FetchType, InviterForType, AddStays
  <2>2. QED
    BY <2>1, UpdateType
<1>2. \A k \in 1..Len(invites) : \A x \in Databases :
        IsChanged(me, invites[k]) =>
          update[<<x, AddInviter(FetchAny(read, invites[k].account),
                                 InviterFor(me, invites[k]))>>] \in Databases
  BY <1>1, InviteOfList
<1>3. Len(invites) \in Nat
  OBVIOUS
<1>4. QED
  BY <1>2, <1>3, UpdateNewStays

LEMMA UpdateDroppedType ==
  ASSUME NEW read \in Databases, NEW base \in Databases,
         NEW me \in AccountRecords, NEW order \in Seq(AccountIds),
         NEW update \in Updates
  PROVE  UpdateDropped(read, base, me, order, update) \in Databases
<1>1. ASSUME NEW a \in AccountIds, NEW x \in Databases
      PROVE  update[<<x, RemoveInviter(FetchAny(read, a), me.address)>>] \in Databases
  <2>1. RemoveInviter(FetchAny(read, a), me.address) \in AccountRecords
    BY FetchType, RemoveStays
  <2>2. QED
    BY <2>1, UpdateType
<1>2. \A k \in 1..Len(order) : order[k] \in AccountIds
  OBVIOUS
<1>3. \A k \in 1..Len(order) : \A x \in Databases :
        update[<<x, RemoveInviter(FetchAny(read, order[k]), me.address)>>] \in Databases
  BY <1>1, <1>2
<1>4. Len(order) \in Nat
  OBVIOUS
<1>5. QED
  BY <1>3, <1>4, UpdateDroppedStays

\* An account that is disabled.
Gone(me) == [me EXCEPT !.enabled = FALSE, !.active = NoInviter]

LEMMA GoneType ==
  ASSUME InviteConstants, NEW me \in AccountRecords
  PROVE  Gone(me) \in AccountRecords
<1>1. NoInviter \in InviterType
  BY GapsAreNumbers DEF NoInviter, InviterType
<1>2. QED
  BY <1>1 DEF Gone, AccountRecords

\* The parts of RecurseUpdateStatus, and the whole of it, keep the shape of the
\* database.
LEMMA DisableType ==
  ASSUME InviteConstants, NEW base \in Databases, NEW me \in AccountRecords,
         NEW update \in Updates
  PROVE  DisableAccount(base, me, update) \in Databases
<1> DEFINE logged == IF me.content
                     THEN LogRemoval(MerkleRemove(base, me.address), me.address)
                     ELSE base
<1>1. me.address \in AccountIds
  BY DEF AccountRecords
<1>2. logged \in Databases
  BY <1>1, WritesType
<1>3. Gone(me) \in AccountRecords
  BY GoneType
<1> HIDE DEF logged
<1>4. DisableChildren(logged, Gone(me), update) \in Databases
  BY <1>2, <1>3, DisableChildrenType
<1>5. NamesRemoveAll(DisableChildren(logged, Gone(me), update), me.address) \in Databases
  BY <1>1, <1>4, WritesType
<1>6. SaveLast(NamesRemoveAll(DisableChildren(logged, Gone(me), update), me.address), Gone(me))
        \in Databases
  BY <1>3, <1>5, SaveType
<1>7. QED
  BY <1>6 DEF DisableAccount, Gone, logged

\* A list of invites stays one when they are marked as active or not.
LEMMA WithActiveType ==
  ASSUME NEW me, NEW invites \in Seq(InviteType)
  PROVE  WithActive(me, invites) \in Seq(InviteType)
<1>1. DOMAIN invites = 1..Len(invites) /\ Len(invites) \in Nat
  OBVIOUS
<1>2. \A k \in DOMAIN invites : invites[k] \in InviteType
  BY <1>1
<1> DEFINE marked(k) == [invites[k] EXCEPT !.active = invites[k].timestamp > me.active.timestamp]
<1>3. ASSUME NEW k \in DOMAIN invites PROVE marked(k) \in InviteType
  <2>1. (invites[k].timestamp > me.active.timestamp) \in BOOLEAN
    OBVIOUS
  <2>2. QED
    BY <1>2, <2>1 DEF InviteType
<1>4. WithActive(me, invites) = [k \in 1..Len(invites) |-> marked(k)]
  BY <1>1 DEF WithActive
<1> HIDE DEF marked
<1>5. QED
  BY <1>1, <1>3, <1>4

\* The record that RecurseUpdateStatus saves.
LEMMA AdoptedType ==
  ASSUME NEW me \in AccountRecords, NEW i \in InviterType
  PROVE  /\ Adopted(me, i) \in AccountRecords
         /\ Adopted(me, i).address = me.address
         /\ Adopted(me, i).invited = me.invited
         /\ Adopted(me, i).inviters = me.inviters
         /\ Adopted(me, i).enabled
         /\ Adopted(me, i).content = me.content
         /\ Adopted(me, i).timestamp = me.timestamp
         /\ Adopted(me, i).active = IF SameInviter(i, me.active) THEN me.active ELSE i
  BY DEF Adopted, AccountRecords

LEMMA ReparentedType ==
  ASSUME InviteConstants, NEW me \in AccountRecords, NEW i \in InviterType
  PROVE  Reparented(me, i) \in AccountRecords
<1> DEFINE adopted == Adopted(me, i)
<1>1. adopted \in AccountRecords
  BY AdoptedType
<1> HIDE DEF adopted
<1>2. adopted.invited \in Seq(InviteType)
  BY <1>1 DEF AccountRecords
<1>3. WithActive(adopted, adopted.invited) \in Seq(InviteType)
  BY <1>2, WithActiveType
<1>4. [adopted EXCEPT !.invited = WithActive(adopted, adopted.invited)] \in AccountRecords
  BY <1>1, <1>3 DEF AccountRecords
<1>z. 0 \in 0..LastTs
  BY GapsAreNumbers
<1>5. WithoutContent(adopted) \in AccountRecords
  BY <1>1, <1>z DEF WithoutContent, AccountRecords
<1>6. QED
  BY <1>1, <1>4, <1>5 DEF Reparented, adopted

LEMMA ReenableType ==
  ASSUME InviteConstants, NEW base \in Databases, NEW me \in AccountRecords,
         NEW update \in Updates
  PROVE  ReenableWithContent(base, me, update) \in Databases
<1> DEFINE bare == [me EXCEPT !.invited = <<>>]
<1>0. <<>> \in Seq(InviteType)
  OBVIOUS
<1>b. bare \in AccountRecords
  BY <1>0 DEF AccountRecords
<1>1. bare \in AccountRecords /\ me.invited \in Seq(InviteType) /\ me.address \in AccountIds
      /\ me.timestamp \in 0..LastTs
  BY <1>b DEF AccountRecords
<1> HIDE DEF bare
<1>2. UpdateNew(base, base, bare, me.invited, update) \in Databases
  BY <1>1, UpdateNewType
<1>3. \A x \in Databases :
        MerkleAdd(LogContent(x, me.address), me.address, me.timestamp) \in Databases
  BY <1>1, WritesType
<1>4. QED
  BY <1>2, <1>3 DEF ReenableWithContent, bare

LEMMA ReparentType ==
  ASSUME InviteConstants, NEW base \in Databases, NEW me \in AccountRecords, NEW i \in InviterType,
         NEW update \in Updates
  PROVE  Reparent(base, me, i, update) \in Databases
<1>1. me.address \in AccountIds /\ me.timestamp \in 0..LastTs
  BY DEF AccountRecords
<1> DEFINE changed == ~SameInviter(i, me.active)
           relevelled == /\ changed
                         /\ me.enabled
                         /\ AssignedLevel(me.active) # AssignedLevel(i)
                         /\ me.content
           base1 == IF relevelled THEN MerkleAdd(base, me.address, me.timestamp) ELSE base
           base2 == IF Returns(me, i)
                    THEN ReenableWithContent(base1, Adopted(me, i), update)
                    ELSE IF Outdated(me, i)
                    THEN LogRemoval(MerkleRemove(base1, me.address), me.address)
                    ELSE base1
           base3 == IF changed
                    THEN CheckAllInvited(base2, Reparented(me, i), update)
                    ELSE base2
<1>2. Reparent(base, me, i, update) = SaveLast(base3, Reparented(me, i))
  BY DEF Reparent
<1>3. base1 \in Databases
  BY <1>1, WritesType
<1> HIDE DEF base1, relevelled, changed
<1>4. base2 \in Databases
  <2>1. ReenableWithContent(base1, Adopted(me, i), update) \in Databases
    BY <1>3, ReenableType, AdoptedType
  <2>2. LogRemoval(MerkleRemove(base1, me.address), me.address) \in Databases
    BY <1>1, <1>3, WritesType
  <2>3. QED
    BY <1>3, <2>1, <2>2
<1> HIDE DEF base2
<1>5. base3 \in Databases
  BY <1>4, CheckAllType, ReparentedType
<1> HIDE DEF base3
<1>6. QED
  BY <1>2, <1>5, ReparentedType, SaveType

LEMMA UpdateStatusType ==
  ASSUME InviteConstants, NEW base \in Databases, NEW me \in AccountRecords,
         NEW update \in Updates
  PROVE  UpdateStatus(base, me, update) \in Databases
<1>1. SaveLast(CheckAllInvited(base, me, update), me) \in Databases
  BY CheckAllType, SaveType
<1>2. DisableAccount(base, me, update) \in Databases
  BY DisableType
<1>3. Die(base, "uh oh, two invites with same age") \in Databases
  BY WritesType DEF Deaths, AccountRecords
<1>4. me.inviters # <<>> => Reparent(base, me, DetermineActiveInviter(me), update) \in Databases
  <2> SUFFICES ASSUME me.inviters # <<>>
               PROVE  Reparent(base, me, DetermineActiveInviter(me), update) \in Databases
    OBVIOUS
  <2>1. DetermineActiveInviter(me) \in InviterType
    BY OldestInviter, OldestType
  <2>2. QED
    BY <2>1, ReparentType
<1>5. QED
  BY <1>1, <1>2, <1>3, <1>4 DEF UpdateStatus

\* RecurseUpdateStatus with no call left, and with one more than update has.
Deepest == [call \in Calls |-> IF call[1].fatal # "" THEN call[1]
                               ELSE Die(call[1], "runaway recursion")]
Deeper(update) == [call \in Calls |-> UpdateStatus(call[1], call[2], update)]

LEMMA DepthTypes ==
  ASSUME InviteConstants
  PROVE  Deepest \in Updates /\ \A update \in Updates : Deeper(update) \in Updates
<1>1. \A call \in Calls : call[1] \in Databases /\ call[2] \in AccountRecords
  BY DEF Calls
<1>2. \A base \in Databases : Die(base, "runaway recursion") \in Databases
  BY DEF Die, Databases, Deaths
<1>3. Deepest \in Updates
  BY <1>1, <1>2 DEF Deepest, Updates
<1>4. ASSUME NEW update \in Updates PROVE Deeper(update) \in Updates
  <2>1. \A call \in Calls : UpdateStatus(call[1], call[2], update) \in Databases
    BY <1>1, UpdateStatusType
  <2>2. QED
    BY <2>1 DEF Deeper, Updates
<1>5. QED
  BY <1>3, <1>4

\* RecurseUpdateStatus is what its equations say.
LEMMA RecursionExists ==
  ASSUME InviteConstants
  PROVE  /\ RecurseUpdateStatus[0] = Deepest
         /\ \A n \in Nat : RecurseUpdateStatus[n + 1] = Deeper(RecurseUpdateStatus[n])
<1> DEFINE G == [p \in Nat \X Updates |-> Deeper(p[2])]
           F(g) == [left \in Nat |->
                     [call \in Calls |->
                        IF left = 0
                        THEN IF call[1].fatal # "" THEN call[1]
                             ELSE Die(call[1], "runaway recursion")
                        ELSE UpdateStatus(call[1], call[2], g[left - 1])]]
           E(g) == [left \in Nat |-> IF left = 0 THEN Deepest ELSE Deeper(g[left - 1])]
           r == CHOOSE g : g = F(g)
<1>1. RecurseUpdateStatus = r
  BY DEF RecurseUpdateStatus
<1>2. ASSUME NEW g PROVE F(g) = E(g)
  BY DEF Deepest, Deeper
<1> HIDE DEF F
<1>3. G \in StepsOf(Updates)
  BY DepthTypes DEF StepsOf
<1>4. \A n \in Nat : \A u \in Updates : G[<<n, u>>] = Deeper(u)
  OBVIOUS
<1> HIDE DEF G
<1>5. PICK f \in [Nat -> Updates] : f[0] = Deepest /\ \A k \in Nat : f[k + 1] = G[<<k, f[k]>>]
  <2>1. HasRun(Updates, Deepest, G)
    BY <1>3, DepthTypes, RecursionOnNat
  <2>2. QED
    BY <2>1 DEF HasRun
<1>6. f = E(f)
  <2>1. ASSUME NEW n \in Nat, n # 0 PROVE f[n] = Deeper(f[n - 1])
    <3>1. n - 1 \in Nat /\ (n - 1) + 1 = n
      BY <2>1
    <3>2. f[n] = G[<<n - 1, f[n - 1]>>] /\ f[n - 1] \in Updates
      BY <1>5, <3>1
    <3>3. QED
      BY <1>4, <3>1, <3>2
  <2>2. QED
    BY <1>5, <2>1
<1>7. f = F(f)
  BY <1>2, <1>6
<1>8. r = F(r)
  BY <1>7, Zenon
<1> HIDE DEF r
<1>9. r = E(r)
  <2>1. F(r) = E(r)
    BY <1>2
  <2>2. QED
    BY <1>8, <2>1, Zenon
<1>10. r[0] = Deepest
  BY <1>9
<1>11. ASSUME NEW n \in Nat PROVE r[n + 1] = Deeper(r[n])
  <2>1. n + 1 \in Nat /\ n + 1 # 0 /\ (n + 1) - 1 = n
    OBVIOUS
  <2>2. E(r)[n + 1] = Deeper(r[n])
    BY <2>1
  <2>3. QED
    BY <1>9, <2>2, Zenon
<1>12. QED
  BY <1>1, <1>10, <1>11

-----------------------------------------------------------------------------
(***************************************************************************)
(* Invite tree: the inductive invariant.                                   *)
(*                                                                         *)
(* A save works on copies: UpdateInvited reads them all before the first is*)
(* updated, and an update reaches accounts whose copies are still to be    *)
(* saved.  So nothing is assumed of the inviters of a copy (Copy).  What is*)
(* wanted of a record (SoundRecord) is shown of each record that is saved: *)
(* its enabled flag and active inviter are computed anew before every save.*)
(* What a copy does keep is that the log lists its account if it has       *)
(* content: a row of the log changes and never goes (After).               *)
(***************************************************************************)
\* Content that counts is not older than the invite its account lives under.
InTime(me) == me.enabled /\ me.content => me.timestamp >= me.active.timestamp

\* A record as RecurseUpdateStatus may save it.
SoundRecord(me) ==
  /\ me.address = TreeRoot => me.enabled
  /\ me.address # TreeRoot =>
       /\ me.enabled <=> me.inviters # <<>>
       /\ me.enabled =>
            \E k \in Oldest(me.inviters) : SameInviter(me.active, me.inviters[k])
  /\ InTime(me)

\* A copy as RecurseUpdateStatus may get it: of one that is not the root's little is
\* said, for its inviters may have changed since it was saved.
Copy(me) == me.address = TreeRoot => me.enabled /\ InTime(me)

SoundRecords == {me \in AccountRecords : SoundRecord(me)}

Logged(base, a) == base.log[a] # "none"

\* The record, the leaf, the names and the log entry of account a.
SoundAt(base, a) ==
  /\ base.accounts[a].address = a
  /\ SoundRecord(base.accounts[a])
  /\ base.accounts[a].enabled \/ Few(base.names[a])
  /\ base.accounts[a].content \/ base.merkle[a] # 0 \/ base.names[a] # 0 => Logged(base, a)

SoundBases == {base \in Databases : \A a \in AccountIds : SoundAt(base, a)}

\* The sound databases that list whom read lists.
After(read) == {x \in SoundBases : \A a \in AccountIds : Logged(read, a) => Logged(x, a)}

\* The copies that can be made of records of a database, or of an earlier one.
Copies(base) ==
  {me \in AccountRecords : Copy(me) /\ (me.content => Logged(base, me.address))}

\* RecurseUpdateStatus to some depth, as it should be.
SoundUpdates ==
  {update \in Updates :
     \A base \in SoundBases : \A me \in Copies(base) : update[<<base, me>>] \in After(base)}

LEMMA AfterIsSound ==
  ASSUME NEW read
  PROVE  /\ After(read) \subseteq SoundBases
         /\ \A base \in After(read) : After(base) \subseteq After(read)
         /\ \A base \in SoundBases : base \in After(base)
  BY DEF After

\* What a copy is, it stays when the database is updated.
LEMMA CopyLater ==
  ASSUME NEW read, NEW x \in After(read), NEW me \in Copies(read)
  PROVE  me \in Copies(x)
  BY DEF After, Copies, AccountRecords

LEMMA FetchIsCopy ==
  ASSUME NEW base \in SoundBases, NEW a \in AccountIds
  PROVE  FetchAny(base, a) \in Copies(base) /\ FetchAny(base, a) \in SoundRecords
         /\ FetchAny(base, a).address = a
<1>1. base \in Databases /\ SoundAt(base, a)
  BY DEF SoundBases
<1>2. base.accounts[a] \in AccountRecords
  BY <1>1 DEF Databases
<1>3. SoundRecord(base.accounts[a]) => Copy(base.accounts[a])
  BY DEF SoundRecord, Copy
<1>4. QED
  BY <1>1, <1>2, <1>3 DEF FetchAny, SoundAt, Copies, SoundRecords

\* A copy stays one when its inviters change.
LEMMA CopyWithInviters ==
  ASSUME NEW base, NEW me \in Copies(base), NEW x \in AccountRecords, NEW list,
         x = [me EXCEPT !.inviters = list]
  PROVE  x \in Copies(base)
<1>1. me \in AccountRecords /\ Copy(me) /\ (me.content => Logged(base, me.address))
  BY DEF Copies
<1>2. x.address = me.address /\ x.enabled = me.enabled /\ x.content = me.content
      /\ x.timestamp = me.timestamp /\ x.active = me.active
  BY <1>1 DEF AccountRecords
<1>3. QED
  BY <1>1, <1>2 DEF Copies, Copy, InTime

LEMMA AddIsCopy ==
  ASSUME InviteConstants, NEW base, NEW me \in Copies(base), NEW i \in InviterType
  PROVE  AddInviter(me, i) \in Copies(base)
<1>1. me \in AccountRecords
  BY DEF Copies
<1>2. QED
  BY <1>1, AddStays, CopyWithInviters

LEMMA RemoveIsCopy ==
  ASSUME NEW base, NEW me \in Copies(base), NEW a
  PROVE  RemoveInviter(me, a) \in Copies(base)
<1>1. me \in AccountRecords
  BY DEF Copies
<1>2. QED
  BY <1>1, RemoveStays, CopyWithInviters

\* A database that differs in what it logs, and keeps or drops leaves and names, is sound
\* if the log lists whom it did.
LEMMA SameSound ==
  ASSUME NEW read, NEW base \in After(read), NEW x \in Databases, x.accounts = base.accounts,
         \A a \in AccountIds : /\ Logged(base, a) => Logged(x, a)
                               /\ x.names[a] # 0 => base.names[a] # 0
                               /\ Few(base.names[a]) => Few(x.names[a])
                               /\ x.merkle[a] # 0 => base.merkle[a] # 0 \/ Logged(x, a)
  PROVE  x \in After(read)
<1>1. base \in SoundBases /\ \A a \in AccountIds : Logged(read, a) => Logged(base, a)
  BY DEF After
<1>2. ASSUME NEW a \in AccountIds PROVE SoundAt(x, a)
  <2>1. SoundAt(base, a)
    BY <1>1 DEF SoundBases
  <2>2. QED
    BY <2>1 DEF SoundAt
<1>3. QED
  BY <1>1, <1>2 DEF After, SoundBases

LEMMA WritesSound ==
  ASSUME InviteConstants, NEW read, NEW base \in After(read), NEW a \in AccountIds
  PROVE  /\ LogContent(base, a) \in After(read) /\ Logged(LogContent(base, a), a)
         /\ LogRemoval(base, a) \in After(read)
         /\ MerkleRemove(base, a) \in After(read)
         /\ Logged(base, a) => \A t \in 0..LastTs : MerkleAdd(base, a, t) \in After(read)
         /\ NamesRemoveAll(base, a) \in After(read)
         /\ \A reason \in Deaths : Die(base, reason) \in After(read)
<1>1. base \in Databases
  BY DEF SoundBases, After
<1>2. LogContent(base, a) \in After(read) /\ Logged(LogContent(base, a), a)
  <2> DEFINE x == LogContent(base, a)
  <2>1. /\ x.accounts = base.accounts /\ x.names = base.names /\ x.merkle = base.merkle
        /\ \A b \in AccountIds : x.log[b] = IF b = a THEN "content" ELSE base.log[b]
    BY <1>1 DEF LogContent, Databases
  <2>2. x \in Databases
    BY <1>1, WritesType
  <2> HIDE DEF x
  <2>3. x \in After(read) /\ Logged(x, a)
    BY <2>1, <2>2, SameSound DEF Logged
  <2>4. QED
    BY <2>3 DEF x
<1>3. LogRemoval(base, a) \in After(read)
  <2> DEFINE x == LogRemoval(base, a)
  <2>1. /\ x.accounts = base.accounts /\ x.names = base.names /\ x.merkle = base.merkle
        /\ \A b \in AccountIds : x.log[b] = IF b = a THEN "removed" ELSE base.log[b]
    BY <1>1 DEF LogRemoval, Databases
  <2>2. x \in Databases
    BY <1>1, WritesType
  <2> HIDE DEF x
  <2>3. x \in After(read)
    BY <2>1, <2>2, SameSound DEF Logged
  <2>4. QED
    BY <2>3 DEF x
<1>4. MerkleRemove(base, a) \in After(read)
  <2> DEFINE x == MerkleRemove(base, a)
  <2>1. /\ x.accounts = base.accounts /\ x.names = base.names /\ x.log = base.log
        /\ \A b \in AccountIds : x.merkle[b] = IF b = a THEN 0 ELSE base.merkle[b]
    BY <1>1 DEF MerkleRemove, Databases
  <2>2. x \in Databases
    BY <1>1, WritesType
  <2> HIDE DEF x
  <2>3. x \in After(read)
    BY <2>1, <2>2, SameSound DEF Logged
  <2>4. QED
    BY <2>3 DEF x
<1>5. ASSUME NEW t \in 0..LastTs, Logged(base, a) PROVE MerkleAdd(base, a, t) \in After(read)
  <2> DEFINE x == MerkleAdd(base, a, t)
  <2>1. /\ x.accounts = base.accounts /\ x.names = base.names /\ x.log = base.log
        /\ \A b \in AccountIds : x.merkle[b] = IF b = a THEN t ELSE base.merkle[b]
    BY <1>1 DEF MerkleAdd, Databases
  <2>2. x \in Databases
    BY <1>1, WritesType
  <2> HIDE DEF x
  <2>3. x \in After(read)
    BY <1>5, <2>1, <2>2, SameSound DEF Logged
  <2>4. QED
    BY <2>3 DEF x
<1>6. NamesRemoveAll(base, a) \in After(read)
  <2> DEFINE x == NamesRemoveAll(base, a)
  <2>1. /\ x.accounts = base.accounts /\ x.log = base.log /\ x.merkle = base.merkle
        /\ \A b \in AccountIds :
             x.names[b] = IF b = a THEN base.names[a] \div 2 ELSE base.names[b]
    BY <1>1 DEF NamesRemoveAll, Databases
  <2>2. x \in Databases
    BY <1>1, WritesType
  <2> HIDE DEF x
  <2>3. base.names[a] \in 0..MaxNames
    BY <1>1 DEF Databases
  <2> DEFINE half == base.names[a] \div 2
  <2>4. (half # 0 => base.names[a] # 0) /\ (Few(base.names[a]) => Few(half))
    BY <2>3, HalfOfNames
  <2>5. \A b \in AccountIds : x.names[b] = IF b = a THEN half ELSE base.names[b]
    BY <2>1
  <2> HIDE DEF half
  <2>6. x \in After(read)
    BY <2>1, <2>2, <2>4, <2>5, SameSound DEF Logged
  <2>7. QED
    BY <2>6 DEF x
<1>7. ASSUME NEW reason \in Deaths PROVE Die(base, reason) \in After(read)
  <2> DEFINE x == Die(base, reason)
  <2>1. /\ x.accounts = base.accounts /\ x.names = base.names
        /\ x.merkle = base.merkle /\ x.log = base.log
    BY <1>1 DEF Die, Databases
  <2>2. x \in Databases
    BY <1>1, <1>7, WritesType
  <2> HIDE DEF x
  <2>3. x \in After(read)
    BY <2>1, <2>2, SameSound DEF Logged
  <2>4. QED
    BY <2>3 DEF x
<1>8. QED
  BY <1>2, <1>3, <1>4, <1>5, <1>6, <1>7

\* The save of a sound record, of an account that is enabled or has few names, and has
\* content only if the log lists it.
LEMMA SaveSound ==
  ASSUME InviteConstants, NEW read, NEW base \in After(read), NEW me \in SoundRecords,
         me.enabled \/ Few(base.names[me.address]), me.content => Logged(base, me.address)
  PROVE  SaveToDb(base, me) \in After(read) /\ SaveLast(base, me) \in After(read)
<1>1. /\ base \in Databases /\ base \in SoundBases
      /\ me \in AccountRecords /\ SoundRecord(me) /\ me.address \in AccountIds
      /\ \A a \in AccountIds : Logged(read, a) => Logged(base, a)
  BY DEF After, SoundBases, SoundRecords, AccountRecords
<1> DEFINE x == [base EXCEPT !.accounts[me.address] = me]
<1>2. x \in After(read)
  <2>1. x \in Databases
    BY <1>1 DEF Databases
  <2>2. x.names = base.names /\ x.merkle = base.merkle /\ x.log = base.log
    BY <1>1 DEF Databases
  <2>3. \A a \in AccountIds : x.accounts[a] = IF a = me.address THEN me ELSE base.accounts[a]
    BY <1>1 DEF Databases
  <2> HIDE DEF x
  <2>4. ASSUME NEW a \in AccountIds PROVE SoundAt(x, a)
    <3>0. SoundAt(base, a)
      BY <1>1 DEF SoundBases
    <3>1. CASE a = me.address
      BY <3>0, <3>1, <1>1, <2>2, <2>3 DEF SoundAt, Logged
    <3>2. CASE a # me.address
      BY <3>0, <3>2, <2>2, <2>3 DEF SoundAt, Logged
    <3>3. QED
      BY <3>1, <3>2
  <2>5. QED
    BY <1>1, <2>1, <2>2, <2>4 DEF After, SoundBases, Logged
<1>3. Die(base, "account requires active inviter to be set") \in After(read)
  BY <1>1, WritesSound DEF Deaths
<1>4. SaveToDb(base, me) \in After(read)
  BY <1>2, <1>3 DEF SaveToDb
<1>5. QED
  BY <1>4 DEF SaveLast

LEMMA UpdateSound ==
  ASSUME NEW update \in SoundUpdates, NEW read, NEW base \in After(read),
         NEW me \in Copies(base)
  PROVE  update[<<base, me>>] \in After(read)
<1>1. base \in SoundBases /\ After(base) \subseteq After(read)
  BY AfterIsSound
<1>2. QED
  BY <1>1 DEF SoundUpdates

\* The loops keep the database sound.
LEMMA CheckAllSound ==
  ASSUME InviteConstants, NEW read, NEW base \in After(read), NEW me \in AccountRecords,
         NEW update \in SoundUpdates
  PROVE  CheckAllInvited(base, me, update) \in After(read)
<1>1. me.invited \in Seq(InviteType)
  BY DEF AccountRecords
<1>2. ASSUME NEW invite \in InviteType, invite.account \in AccountIds, NEW x \in After(read)
      PROVE  CheckInvited(x, me, invite, update) \in After(read)
  <2>1. FetchAny(x, invite.account) \in Copies(x)
    BY <1>2, FetchIsCopy, AfterIsSound
  <2>2. AddInviter(FetchAny(x, invite.account), InviterFor(me, invite)) \in Copies(x)
    BY <2>1, InviterForType, AddIsCopy
  <2>3. /\ update[<<x, FetchAny(x, invite.account)>>] \in After(read)
        /\ update[<<x, AddInviter(FetchAny(x, invite.account), InviterFor(me, invite))>>]
             \in After(read)
    BY <2>1, <2>2, UpdateSound
  <2>4. Die(x, "missing account") \in After(read)
    BY <1>2, WritesSound DEF Deaths
  <2>5. QED
    BY <2>3, <2>4 DEF CheckInvited
<1>3. \A k \in 1..Len(me.invited) : \A x \in After(read) :
        CheckInvited(x, me, me.invited[k], update) \in After(read)
  BY <1>1, <1>2, InviteOfList
<1>4. Len(me.invited) \in Nat
  BY <1>1
<1>5. QED
  BY <1>3, <1>4, CheckAllStays

LEMMA DisableChildrenSound ==
  ASSUME InviteConstants, NEW read, NEW base \in After(read), NEW me \in AccountRecords,
         NEW update \in SoundUpdates
  PROVE  DisableChildren(base, me, update) \in After(read)
<1>1. me.invited \in Seq(InviteType)
  BY DEF AccountRecords
<1>2. ASSUME NEW invite \in InviteType, invite.account \in AccountIds, NEW x \in After(read)
      PROVE  DisableChild(x, me, invite, update) \in After(read)
  <2>1. FetchAny(x, invite.account) \in Copies(x)
    BY <1>2, FetchIsCopy, AfterIsSound
  <2>2. RemoveInviter(FetchAny(x, invite.account), me.address) \in Copies(x)
    BY <2>1, RemoveIsCopy
  <2>3. update[<<x, RemoveInviter(FetchAny(x, invite.account), me.address)>>] \in After(read)
    BY <2>2, UpdateSound
  <2>4. Die(x, "DisableAccount() - missing account") \in After(read)
    BY <1>2, WritesSound DEF Deaths
  <2>5. QED
    BY <2>3, <2>4 DEF DisableChild
<1>3. \A k \in 1..Len(me.invited) : \A x \in After(read) :
        DisableChild(x, me, me.invited[k], update) \in After(read)
  BY <1>1, <1>2, InviteOfList
<1>4. Len(me.invited) \in Nat
  BY <1>1
<1>5. QED
  BY <1>3, <1>4, DisableChildrenStay

LEMMA UpdateNewSound ==
  ASSUME InviteConstants, NEW read \in SoundBases, NEW base \in After(read),
         NEW me \in AccountRecords, NEW invites \in Seq(InviteType),
         NEW update \in SoundUpdates
  PROVE  UpdateNew(read, base, me, invites, update) \in After(read)
<1>1. ASSUME NEW invite \in InviteType, invite.account \in AccountIds, NEW x \in After(read)
      PROVE  update[<<x, AddInviter(FetchAny(read, invite.account), InviterFor(me, invite))>>]
               \in After(read)
  <2>1. AddInviter(FetchAny(read, invite.account), InviterFor(me, invite)) \in Copies(x)
    BY <1>1, FetchIsCopy, InviterForType, AddIsCopy, CopyLater
  <2>2. QED
    BY <1>1, <2>1, UpdateSound
<1>2. \A k \in 1..Len(invites) : \A x \in After(read) :
        IsChanged(me, invites[k]) =>
          update[<<x, AddInviter(FetchAny(read, invites[k].account),
                                 InviterFor(me, invites[k]))>>] \in After(read)
  BY <1>1, InviteOfList
<1>3. Len(invites) \in Nat
  OBVIOUS
<1>4. QED
  BY <1>2, <1>3, UpdateNewStays

LEMMA UpdateDroppedSound ==
  ASSUME NEW read \in SoundBases, NEW base \in After(read),
         NEW me \in AccountRecords, NEW order \in Seq(AccountIds),
         NEW update \in SoundUpdates
  PROVE  UpdateDropped(read, base, me, order, update) \in After(read)
<1>1. ASSUME NEW a \in AccountIds, NEW x \in After(read)
      PROVE  update[<<x, RemoveInviter(FetchAny(read, a), me.address)>>] \in After(read)
  <2>1. RemoveInviter(FetchAny(read, a), me.address) \in Copies(x)
    BY <1>1, FetchIsCopy, RemoveIsCopy, CopyLater
  <2>2. QED
    BY <1>1, <2>1, UpdateSound
<1>2. \A k \in 1..Len(order) : order[k] \in AccountIds
  OBVIOUS
<1>3. \A k \in 1..Len(order) : \A x \in After(read) :
        update[<<x, RemoveInviter(FetchAny(read, order[k]), me.address)>>] \in After(read)
  BY <1>1, <1>2
<1>4. Len(order) \in Nat
  OBVIOUS
<1>5. QED
  BY <1>3, <1>4, UpdateDroppedStays

-----------------------------------------------------------------------------
(***************************************************************************)
(* Invite tree: each kind of update keeps the database sound.              *)
(***************************************************************************)
\* An account that lost its last inviter may be saved as disabled.
LEMMA GoneIsSound ==
  ASSUME InviteConstants, NEW me \in AccountRecords, me.address # TreeRoot, me.inviters = <<>>
  PROVE  Gone(me) \in SoundRecords
<1>1. Gone(me) \in AccountRecords
  BY GoneType
<1>2. Gone(me).address = me.address /\ Gone(me).inviters = <<>> /\ ~Gone(me).enabled
  BY DEF Gone, AccountRecords
<1>3. QED
  BY <1>1, <1>2 DEF SoundRecords, SoundRecord, InTime

LEMMA DisableSound ==
  ASSUME InviteConstants, NEW base \in SoundBases, NEW me \in Copies(base),
         me.address # TreeRoot, me.inviters = <<>>,
         NEW update \in SoundUpdates
  PROVE  DisableAccount(base, me, update) \in After(base)
<1> DEFINE logged == IF me.content
                     THEN LogRemoval(MerkleRemove(base, me.address), me.address)
                     ELSE base
           below == DisableChildren(logged, Gone(me), update)
           unnamed == NamesRemoveAll(below, me.address)
<1>1. me \in AccountRecords /\ me.address \in AccountIds /\ base \in After(base)
      /\ (me.content => Logged(base, me.address))
  BY AfterIsSound DEF AccountRecords, Copies
<1>2. logged \in After(base)
  BY <1>1, WritesSound
<1>3. Gone(me) \in SoundRecords /\ Gone(me) \in AccountRecords
  BY <1>1, GoneIsSound DEF SoundRecords
<1>4. Gone(me).address = me.address /\ Gone(me).content = me.content
  BY <1>1 DEF Gone, AccountRecords
<1>5. DisableAccount(base, me, update) = SaveLast(unnamed, Gone(me))
  BY DEF DisableAccount, Gone
<1> HIDE DEF logged
<1>6. below \in After(base)
  BY <1>2, <1>3, DisableChildrenSound
<1> HIDE DEF below
<1>7. unnamed \in After(base)
  BY <1>1, <1>6, WritesSound
<1>8. Few(unnamed.names[me.address])
  <2>1. below \in Databases
    BY <1>6 DEF After, SoundBases
  <2>2. below.names[me.address] \in 0..MaxNames
    BY <1>1, <2>1 DEF Databases
  <2>3. unnamed.names[me.address] = below.names[me.address] \div 2
    BY <1>1, <2>1 DEF NamesRemoveAll, Databases
  <2>4. QED
    BY <2>2, <2>3, HalfOfNames
<1>9. me.content => Logged(unnamed, me.address)
  BY <1>1, <1>7 DEF After
<1> HIDE DEF unnamed
<1>10. QED
  BY <1>3, <1>4, <1>5, <1>7, <1>8, <1>9, SaveSound

\* An account whose active inviter is its oldest one may be saved.
LEMMA ReparentedIsSound ==
  ASSUME InviteConstants, NEW me \in AccountRecords, me.address # TreeRoot, me.inviters # <<>>,
         NEW k \in Oldest(me.inviters)
  PROVE  /\ Reparented(me, me.inviters[k]) \in SoundRecords
         /\ Reparented(me, me.inviters[k]).enabled
         /\ Reparented(me, me.inviters[k]).address = me.address
         /\ Reparented(me, me.inviters[k]).content => me.content
<1> DEFINE i == me.inviters[k]
           r == Reparented(me, i)
           a == Adopted(me, i)
<1>1. i \in InviterType
  BY OldestType
<1>2. me.active \in InviterType /\ me.timestamp \in Nat /\ i.timestamp \in Nat
  BY <1>1, GapsAreNumbers DEF AccountRecords, InviterType
<1> HIDE DEF i
<1>3. /\ a \in AccountRecords /\ a.address = me.address /\ a.inviters = me.inviters
      /\ a.enabled /\ a.content = me.content /\ a.timestamp = me.timestamp
      /\ a.active = IF SameInviter(i, me.active) THEN me.active ELSE i
  BY <1>1, AdoptedType
<1>4. SameInviter(a.active, i) /\ a.active.timestamp = i.timestamp
  BY <1>3 DEF SameInviter
<1> HIDE DEF a
<1>5. CASE Returns(me, i)
  <2>1. r = [a EXCEPT !.invited = WithActive(a, a.invited)]
    BY <1>5 DEF Reparented, a
  <2>2. /\ r.address = me.address /\ r.inviters = me.inviters /\ r.enabled
        /\ r.active = a.active /\ r.timestamp = me.timestamp /\ r.content = me.content
    BY <1>3, <2>1 DEF AccountRecords
  <2>3. r.timestamp >= r.active.timestamp
    BY <1>2, <1>4, <1>5, <2>2 DEF Returns
  <2>4. r \in AccountRecords
    BY <1>1, ReparentedType
  <2>5. SameInviter(r.active, r.inviters[k]) /\ k \in Oldest(r.inviters)
    BY <1>4, <2>2 DEF i
  <2>6. QED
    BY <2>2, <2>3, <2>4, <2>5 DEF SoundRecords, SoundRecord, InTime, i
<1>6. CASE ~Returns(me, i) /\ (Outdated(me, i) \/ Forgotten(me, i))
  <2>1. r = WithoutContent(a)
    BY <1>6 DEF Reparented, a
  <2>2. /\ r.address = me.address /\ r.inviters = me.inviters /\ r.enabled
        /\ r.active = a.active /\ ~r.content
    BY <1>3, <2>1 DEF AccountRecords, WithoutContent
  <2>4. r \in AccountRecords
    BY <1>1, ReparentedType
  <2>5. SameInviter(r.active, r.inviters[k]) /\ k \in Oldest(r.inviters)
    BY <1>4, <2>2 DEF i
  <2>6. QED
    BY <2>2, <2>4, <2>5 DEF SoundRecords, SoundRecord, InTime, i
<1>7. CASE ~Returns(me, i) /\ ~(Outdated(me, i) \/ Forgotten(me, i))
  <2>1. r = a
    BY <1>7 DEF Reparented, a
  <2>2. me.content => me.timestamp >= i.timestamp
    BY <1>2, <1>7 DEF Returns, Outdated, Forgotten
  <2>3. r.content => r.timestamp >= r.active.timestamp
    BY <1>3, <1>4, <2>1, <2>2
  <2>4. r \in AccountRecords
    BY <1>1, ReparentedType
  <2>5. SameInviter(r.active, r.inviters[k]) /\ k \in Oldest(r.inviters)
    BY <1>3, <1>4, <2>1 DEF i
  <2>6. QED
    BY <1>3, <2>1, <2>3, <2>4, <2>5 DEF SoundRecords, SoundRecord, InTime, i
<1>8. QED
  BY <1>5, <1>6, <1>7

\* Content that returns is logged before it gets a leaf.
LEMMA ReenableSound ==
  ASSUME InviteConstants, NEW read, NEW base \in After(read), NEW me \in AccountRecords,
         NEW update \in SoundUpdates
  PROVE  ReenableWithContent(base, me, update) \in After(read)
<1> DEFINE bare == [me EXCEPT !.invited = <<>>]
           below == UpdateNew(base, base, bare, me.invited, update)
<1>0. <<>> \in Seq(InviteType)
  OBVIOUS
<1>1. bare \in AccountRecords
  BY <1>0 DEF AccountRecords
<1>2. me.invited \in Seq(InviteType) /\ me.address \in AccountIds /\ me.timestamp \in 0..LastTs
  BY DEF AccountRecords
<1> HIDE DEF bare
<1>3. base \in SoundBases /\ base \in After(base) /\ After(base) \subseteq After(read)
  BY AfterIsSound
<1>4. below \in After(base)
  BY <1>1, <1>2, <1>3, UpdateNewSound
<1>5. ReenableWithContent(base, me, update) =
        IF below.fatal # "" THEN below
        ELSE MerkleAdd(LogContent(below, me.address), me.address, me.timestamp)
  BY DEF ReenableWithContent, bare
<1> HIDE DEF below
<1>6. /\ LogContent(below, me.address) \in After(read)
      /\ Logged(LogContent(below, me.address), me.address)
  BY <1>2, <1>3, <1>4, WritesSound
<1>7. MerkleAdd(LogContent(below, me.address), me.address, me.timestamp) \in After(read)
  BY <1>2, <1>6, WritesSound
<1>8. QED
  BY <1>3, <1>4, <1>5, <1>7

LEMMA ReparentSound ==
  ASSUME InviteConstants, NEW base \in SoundBases, NEW me \in Copies(base),
         me.address # TreeRoot, me.inviters # <<>>, NEW k \in Oldest(me.inviters),
         NEW update \in SoundUpdates
  PROVE  Reparent(base, me, me.inviters[k], update) \in After(base)
<1> DEFINE i == me.inviters[k]
<1>1. me \in AccountRecords /\ me.address \in AccountIds /\ me.timestamp \in 0..LastTs
      /\ (me.content => Logged(base, me.address)) /\ base \in After(base)
  BY AfterIsSound DEF Copies, AccountRecords
<1>0. i \in InviterType
  BY <1>1, OldestType
<1>r. Reparented(me, i) \in SoundRecords /\ Reparented(me, i).enabled
      /\ Reparented(me, i) \in AccountRecords /\ Reparented(me, i).address = me.address
      /\ (Reparented(me, i).content => me.content)
  BY <1>1, ReparentedIsSound DEF SoundRecords
<1> HIDE DEF i
<1> DEFINE changed == ~SameInviter(i, me.active)
           relevelled == /\ changed
                         /\ me.enabled
                         /\ AssignedLevel(me.active) # AssignedLevel(i)
                         /\ me.content
           base1 == IF relevelled THEN MerkleAdd(base, me.address, me.timestamp) ELSE base
           base2 == IF Returns(me, i)
                    THEN ReenableWithContent(base1, Adopted(me, i), update)
                    ELSE IF Outdated(me, i)
                    THEN LogRemoval(MerkleRemove(base1, me.address), me.address)
                    ELSE base1
           base3 == IF changed
                    THEN CheckAllInvited(base2, Reparented(me, i), update)
                    ELSE base2
<1>2. Reparent(base, me, i, update) = SaveLast(base3, Reparented(me, i))
  BY DEF Reparent
<1>3. base1 \in After(base)
  BY <1>1, WritesSound
<1> HIDE DEF base1, relevelled, changed
<1>4. base2 \in After(base)
  <2>1. ReenableWithContent(base1, Adopted(me, i), update) \in After(base)
    BY <1>0, <1>1, <1>3, ReenableSound, AdoptedType
  <2>2. LogRemoval(MerkleRemove(base1, me.address), me.address) \in After(base)
    BY <1>1, <1>3, WritesSound
  <2>3. QED
    BY <1>3, <2>1, <2>2
<1> HIDE DEF base2
<1>5. base3 \in After(base)
  BY <1>4, <1>r, CheckAllSound
<1> HIDE DEF base3
<1>c. me.content => Logged(base3, me.address)
  BY <1>1, <1>5 DEF After
<1>6. SaveLast(base3, Reparented(me, i)) \in After(base)
  BY <1>5, <1>c, <1>r, SaveSound
<1>7. QED
  BY <1>2, <1>6 DEF i

LEMMA UpdateStatusSound ==
  ASSUME InviteConstants, NEW base \in SoundBases, NEW me \in Copies(base),
         NEW update \in SoundUpdates
  PROVE  UpdateStatus(base, me, update) \in After(base)
<1>1. me \in AccountRecords /\ Copy(me) /\ base \in After(base)
      /\ (me.content => Logged(base, me.address))
  BY AfterIsSound DEF Copies
<1>2. CASE me.address = TreeRoot
  <2>1. me \in SoundRecords /\ me.enabled
    BY <1>1, <1>2 DEF SoundRecords, SoundRecord, Copy
  <2> DEFINE x == CheckAllInvited(base, me, update)
  <2>4. x \in After(base)
    BY <1>1, CheckAllSound
  <2>5. me.content => Logged(x, me.address)
    BY <1>1, <2>4 DEF After, AccountRecords
  <2>2. SaveLast(x, me) \in After(base)
    BY <2>1, <2>4, <2>5, SaveSound
  <2>3. QED
    BY <1>1, <1>2, <2>2 DEF UpdateStatus
<1>3. CASE me.address # TreeRoot /\ me.inviters = <<>>
  <2>1. DisableAccount(base, me, update) \in After(base)
    BY <1>3, DisableSound
  <2>2. QED
    BY <1>1, <1>3, <2>1 DEF UpdateStatus
<1>4. CASE me.address # TreeRoot /\ me.inviters # <<>>
  <2>1. Die(base, "uh oh, two invites with same age") \in After(base)
    BY <1>1, WritesSound DEF Deaths, AccountRecords
  <2>2. Reparent(base, me, DetermineActiveInviter(me), update) \in After(base)
    <3>1. PICK k \in Oldest(me.inviters) : DetermineActiveInviter(me) = me.inviters[k]
      BY <1>1, <1>4, OldestInviter
    <3>2. QED
      BY <1>1, <1>4, <3>1, ReparentSound
  <2>3. QED
    BY <1>1, <1>4, <2>1, <2>2 DEF UpdateStatus
<1>5. QED
  BY <1>2, <1>3, <1>4

\* RecurseUpdateStatus keeps a database sound, however deep it goes.
LEMMA RecursionSound ==
  ASSUME InviteConstants, NEW n \in Nat
  PROVE  RecurseUpdateStatus[n] \in SoundUpdates
<1> DEFINE S == {m \in Nat : RecurseUpdateStatus[m] \in SoundUpdates}
<1>1. Deepest \in SoundUpdates
  <2>1. ASSUME NEW base \in SoundBases, NEW me \in Copies(base)
        PROVE  Deepest[<<base, me>>] \in After(base)
    <3>1. <<base, me>> \in Calls
      BY DEF Calls, SoundBases, Copies
    <3>2. Deepest[<<base, me>>] = IF base.fatal # "" THEN base
                                 ELSE Die(base, "runaway recursion")
      BY <3>1 DEF Deepest
    <3>3. TreeRoot \in AccountIds /\ base \in After(base)
      BY AfterIsSound DEF InviteConstants, TreeAssumption
    <3>4. Die(base, "runaway recursion") \in After(base)
      BY <3>3, WritesSound DEF Deaths
    <3>5. QED
      BY <3>2, <3>3, <3>4
  <2>2. QED
    BY <2>1, DepthTypes DEF SoundUpdates
<1>2. ASSUME NEW update \in SoundUpdates PROVE Deeper(update) \in SoundUpdates
  <2>1. update \in Updates
    BY DEF SoundUpdates
  <2>2. ASSUME NEW base \in SoundBases, NEW me \in Copies(base)
        PROVE  Deeper(update)[<<base, me>>] \in After(base)
    <3>1. <<base, me>> \in Calls
      BY DEF Calls, SoundBases, Copies
    <3>2. Deeper(update)[<<base, me>>] = UpdateStatus(base, me, update)
      BY <3>1 DEF Deeper
    <3>3. QED
      BY <3>2, UpdateStatusSound
  <2>3. QED
    BY <2>1, <2>2, DepthTypes DEF SoundUpdates
<1>3. 0 \in S
  BY <1>1, RecursionExists
<1>4. ASSUME NEW m \in 1..n, m - 1 \in S PROVE m \in S
  <2>1. m - 1 \in Nat /\ (m - 1) + 1 = m /\ m \in Nat
    BY <1>4
  <2>2. RecurseUpdateStatus[m - 1] \in SoundUpdates
    BY <1>4
  <2>3. RecurseUpdateStatus[(m - 1) + 1] = Deeper(RecurseUpdateStatus[m - 1])
    BY <2>1, RecursionExists
  <2>4. QED
    BY <1>2, <2>1, <2>2, <2>3
<1> HIDE DEF S
<1>5. n \in S
  BY <1>3, <1>4, Ascends
<1>6. QED
  BY <1>5 DEF S

-----------------------------------------------------------------------------
(***************************************************************************)
(* Invite tree: the actions keep the invariant.                            *)
(***************************************************************************)
\* The invariant: the database is sound, and no transaction that died was committed.
TreeInv ==
  /\ db \in SoundBases
  /\ db.fatal = ""
  /\ process \in Deaths \cup {"running"}

LEMMA TreeInitInv == ASSUME InviteConstants, TreeInit PROVE TreeInv
<1>1. TreeRoot \in AccountIds /\ LastTs \in Nat /\ LastTs # 0
  BY DEF InviteConstants, TreeAssumption
<1>2. NoInviter \in InviterType /\ RootInviter \in InviterType
  BY <1>1, GapsAreNumbers DEF NoInviter, RootInviter, InviterType
<1>3. <<>> \in Seq(InviterType) /\ <<>> \in Seq(InviteType) /\ <<RootInviter>> \in Seq(InviterType)
  BY <1>2
<1>4. \A a \in AccountIds : NewAccount(a) \in AccountRecords
  BY <1>1, <1>2, <1>3 DEF NewAccount, AccountRecords
<1> DEFINE top == [NewAccount(TreeRoot) EXCEPT !.enabled = TRUE, !.active = RootInviter,
                                               !.inviters = <<RootInviter>>]
<1>5. top \in AccountRecords
  <2>1. NewAccount(TreeRoot) \in AccountRecords
    BY <1>1, <1>4
  <2>2. [NewAccount(TreeRoot) EXCEPT !.enabled = TRUE] \in AccountRecords
    BY <2>1 DEF AccountRecords
  <2>3. [NewAccount(TreeRoot) EXCEPT !.enabled = TRUE, !.active = RootInviter] \in AccountRecords
    BY <1>2, <2>1 DEF AccountRecords
  <2>4. QED
    BY <1>2, <1>3, <2>1 DEF AccountRecords
<1>6. SoundRecord(top) /\ top.address = TreeRoot /\ top.enabled /\ ~top.content
  BY DEF SoundRecord, InTime, NewAccount
<1>7. \A a \in AccountIds : a # TreeRoot => SoundRecord(NewAccount(a)) /\ NewAccount(a).address = a
  BY DEF SoundRecord, InTime, NewAccount
<1> HIDE DEF top
<1>8. /\ db.accounts = [a \in AccountIds |-> IF a = TreeRoot THEN top ELSE NewAccount(a)]
      /\ db.log = [a \in AccountIds |-> "none"]
      /\ db.merkle = [a \in AccountIds |-> 0]
      /\ db.names = [a \in AccountIds |-> 0]
      /\ db.fatal = ""
      /\ process = "running"
      /\ db = [accounts |-> db.accounts, log |-> db.log, merkle |-> db.merkle,
               names |-> db.names, fatal |-> db.fatal]
  BY DEF TreeInit, top
<1>9. db.accounts \in [AccountIds -> AccountRecords]
  <2>1. \A a \in AccountIds : (IF a = TreeRoot THEN top ELSE NewAccount(a)) \in AccountRecords
    BY <1>4, <1>5
  <2>2. QED
    BY <1>8, <2>1
<1>10. db.log \in [AccountIds -> {"none", "content", "removed"}]
  BY <1>8
<1>11. db.merkle \in [AccountIds -> 0..LastTs] /\ db.names \in [AccountIds -> 0..MaxNames]
  <2>1. 0 \in 0..LastTs /\ 0 \in 0..MaxNames
    BY <1>1, HalfOfNames
  <2>2. QED
    BY <1>8, <2>1
<1>12. db \in Databases
  BY <1>8, <1>9, <1>10, <1>11 DEF Databases
<1>13. ASSUME NEW a \in AccountIds PROVE SoundAt(db, a)
  <2>1. db.merkle[a] = 0 /\ db.names[a] = 0 /\ Few(db.names[a])
    BY <1>8, HalfOfNames
  <2>2. CASE a = TreeRoot
    <3>1. db.accounts[a] = top
      BY <1>8, <2>2
    <3>2. QED
      BY <1>6, <2>1, <2>2, <3>1 DEF SoundAt
  <2>3. CASE a # TreeRoot
    <3>1. db.accounts[a] = NewAccount(a)
      BY <1>8, <2>3
    <3>2. ~NewAccount(a).content
      BY DEF NewAccount
    <3>3. QED
      BY <1>7, <2>1, <2>3, <3>1, <3>2 DEF SoundAt
  <2>4. QED
    BY <2>2, <2>3
<1>14. QED
  BY <1>8, <1>12, <1>13 DEF TreeInv, SoundBases

\* The lists of a bundle are lists of invites, and a save that drops invites
\* goes through the accounts in some order.
LEMMA ListsOfBundle ==
  ASSUME InviteConstants, NEW a \in AccountIds, NEW invites \in InviteLists(a)
  PROVE  invites \in Seq(InviteType)
<1> DEFINE I == {[account |-> b, timestamp |-> t, gap |-> g, active |-> FALSE] :
                    b \in CanInvite[a] \ {a}, t \in Timestamps, g \in LvlGaps}
<1>1. CanInvite[a] \subseteq AccountIds
  BY DEF InviteConstants, TreeAssumption
<1>2. I \subseteq InviteType
  <2>1. ASSUME NEW b \in CanInvite[a] \ {a}, NEW t \in Timestamps, NEW g \in LvlGaps
        PROVE  [account |-> b, timestamp |-> t, gap |-> g, active |-> FALSE] \in InviteType
    BY <1>1 DEF InviteType
  <2>2. QED
    BY <2>1
<1>3. invites \in BoundedSeq(I, MaxInvites)
  BY DEF InviteLists
<1> HIDE DEF I
<1>4. PICK m \in 0..MaxInvites : invites \in [1..m -> I]
  BY <1>3 DEF BoundedSeq, SeqOf
<1>5. m \in Nat
  BY <1>4 DEF InviteConstants, TreeAssumption
<1>6. invites \in [1..m -> InviteType]
  BY <1>2, <1>4
<1>7. QED
  BY <1>5, <1>6

LEMMA OrderOfDropped ==
  ASSUME InviteConstants, NEW me \in AccountRecords, NEW invites,
         NEW order \in SetToSeqs(DroppedInvites(me, invites))
  PROVE  order \in Seq(AccountIds)
<1> DEFINE S == DroppedInvites(me, invites)
<1>1. \A x \in ToSet(me.invited) : x.account \in AccountIds
  <2>1. me.invited \in Seq(InviteType) /\ DOMAIN me.invited = 1..Len(me.invited)
    BY DEF AccountRecords
  <2>2. \A x \in ToSet(me.invited) : x \in InviteType
    BY <2>1 DEF ToSet
  <2>3. QED
    BY <2>2 DEF InviteType
<1>2. S \subseteq AccountIds
  BY <1>1 DEF DroppedInvites
<1>3. IsFiniteSet(S)
  BY <1>2, FS_Subset DEF InviteConstants, TreeAssumption
<1> HIDE DEF S
<1>4. Cardinality(S) \in Nat
  BY <1>3, FS_CardinalityType
<1>5. order \in [1..Cardinality(S) -> S]
  BY DEF SetToSeqs, S
<1>6. order \in [1..Cardinality(S) -> AccountIds]
  BY <1>2, <1>5
<1>7. QED
  BY <1>4, <1>6

\* A bundle with a new root document: its account is enabled, and newer than the
\* account's active invite.
LEMMA SaveChangedSound ==
  ASSUME InviteConstants, NEW base \in SoundBases, NEW a \in AccountIds, NEW timestamp \in Timestamps,
         Acceptable(base.accounts[a], timestamp), NEW invites \in Seq(InviteType),
         NEW count \in 0..MaxNames, NEW order \in Seq(AccountIds)
  PROVE  SaveChanged(base, a, timestamp, invites, count, order) \in SoundBases
<1> DEFINE me == FetchAny(base, a)
           why == UpdateInvitedFatal(base, me, order)
           saved == [me EXCEPT !.invited = WithActive(me, invites),
                               !.content = TRUE, !.timestamp = timestamp]
           renamed == NamesUpdate(base, me, count)
           announced == MerkleAdd(SaveToDb(LogContent(renamed, a), saved), a, timestamp)
           update == RecurseUpdateStatus[MaxDepth]
<1>1. base \in Databases /\ timestamp \in 0..LastTs
  BY DEF SoundBases, Timestamps
<1>2. me \in AccountRecords /\ SoundRecord(me) /\ me.address = a
  BY FetchIsCopy DEF SoundRecords
<1>3. me.enabled /\ timestamp > me.active.timestamp /\ base.accounts[a] = me
  BY DEF Acceptable, FetchAny
<1> HIDE DEF me
<1>4. WithActive(me, invites) \in Seq(InviteType)
  BY WithActiveType
<1>5. saved \in AccountRecords
  BY <1>1, <1>2, <1>4 DEF AccountRecords
<1>6. /\ saved.address = a /\ saved.enabled /\ saved.inviters = me.inviters
      /\ saved.active = me.active /\ saved.timestamp = timestamp
  BY <1>2, <1>3 DEF AccountRecords
<1>7. me.active.timestamp \in 0..LastTs
  BY <1>2 DEF AccountRecords, InviterType
<1> HIDE DEF saved
<1>8. saved \in SoundRecords
  <2>1. timestamp >= me.active.timestamp
    BY <1>1, <1>3, <1>7, GapsAreNumbers
  <2>2. QED
    BY <1>2, <1>3, <1>5, <1>6, <2>1 DEF SoundRecords, SoundRecord, InTime
<1> DEFINE logged == LogContent(renamed, a)
<1>9. logged \in After(base) /\ Logged(logged, a)
  <2>2. renamed \in Databases
    BY <1>1, <1>2 DEF NamesUpdate, Databases
  <2>3. logged \in Databases
    BY <2>2, WritesType
  <2>4. renamed.accounts = base.accounts /\ renamed.merkle = base.merkle
        /\ renamed.log = base.log
    BY <1>1 DEF NamesUpdate, Databases
  <2>5. \A b \in AccountIds : b # a => renamed.names[b] = base.names[b]
    BY <1>1, <1>2 DEF NamesUpdate, Databases
  <2> HIDE DEF renamed
  <2>6. /\ logged.accounts = base.accounts /\ logged.merkle = base.merkle
        /\ logged.names = renamed.names
        /\ \A b \in AccountIds : logged.log[b] = IF b = a THEN "content" ELSE base.log[b]
    BY <2>2, <2>4 DEF LogContent, Databases
  <2> HIDE DEF logged
  <2>7. ASSUME NEW b \in AccountIds PROVE SoundAt(logged, b)
    <3>1. SoundAt(base, b)
      BY DEF SoundBases
    <3>2. CASE b = a
      BY <1>3, <2>6, <3>1, <3>2 DEF SoundAt, Logged
    <3>3. CASE b # a
      BY <2>5, <2>6, <3>1, <3>3 DEF SoundAt, Logged
    <3>4. QED
      BY <3>2, <3>3
  <2>8. QED
    BY <2>3, <2>6, <2>7 DEF SoundBases, After, Logged
<1> HIDE DEF renamed, logged
<1>10. announced \in After(base)
  <2> DEFINE stored == SaveToDb(logged, saved)
  <2>1. stored \in After(base)
    BY <1>6, <1>8, <1>9, SaveSound
  <2>2. Logged(stored, a)
    <3>1. logged \in Databases
      BY <1>9 DEF After, SoundBases
    <3>2. stored.log = logged.log
      BY <3>1 DEF SaveToDb, Die, Databases
    <3>3. QED
      BY <1>9, <3>2 DEF Logged
  <2> HIDE DEF stored
  <2>3. MerkleAdd(stored, a, timestamp) \in After(base)
    BY <1>1, <2>1, <2>2, WritesSound
  <2>4. QED
    BY <2>3 DEF stored, logged
<1>11. update \in SoundUpdates
  BY RecursionSound DEF InviteConstants, TreeAssumption
<1>12. SaveChanged(base, a, timestamp, invites, count, order) =
         IF why # "" THEN Die(base, why)
         ELSE UpdateDropped(base, UpdateNew(base, announced, me, invites, update),
                            me, order, update)
  BY DEF SaveChanged, me, renamed, saved
<1>13. why # "" => why \in Deaths
  BY DEF UpdateInvitedFatal, Deaths
<1> HIDE DEF why, announced, update
<1>14. UpdateNew(base, announced, me, invites, update) \in After(base)
  BY <1>2, <1>10, <1>11, UpdateNewSound
<1>15. UpdateDropped(base, UpdateNew(base, announced, me, invites, update), me, order, update)
         \in After(base)
  BY <1>2, <1>11, <1>14, UpdateDroppedSound
<1>16. why # "" => Die(base, why) \in After(base)
  BY <1>13, WritesSound, AfterIsSound
<1>17. QED
  BY <1>12, <1>15, <1>16, AfterIsSound

\* What the documents of the merklehead may do besides to what a transaction wrote: leaves
\* of x go, or the process dies in it.
Folded(x, y) ==
  /\ y \in Databases
  /\ y.accounts = x.accounts /\ y.log = x.log /\ y.names = x.names
  /\ \A a \in AccountIds : y.merkle[a] \in {x.merkle[a], 0}
  /\ y.fatal = x.fatal \/ y.fatal = "merklehead"

\* The outcomes of a save: those it says, and of a tree of one document nothing else.
LEMMA OutcomesOfSave ==
  ASSUME InviteConstants, NEW x \in Databases
  PROVE  /\ \A y \in AfterAdding(x) : Folded(x, y)
         /\ \A y \in AfterFolding(x) : Folded(x, y)
         /\ OneDocument => AfterAdding(x) = {x} /\ AfterFolding(x) = {x}
<1> DEFINE dead == Die(x, "merklehead")
           outcomes == {x, dead} \cup {[x EXCEPT !.merkle = left] : left \in Remains(x.merkle)}
<1>1. Folded(x, x)
  BY DEF Folded
<1>2. Folded(x, dead)
  <2>1. dead.accounts = x.accounts /\ dead.log = x.log /\ dead.names = x.names
        /\ dead.merkle = x.merkle /\ dead.fatal = "merklehead"
    BY DEF Die, Databases
  <2>2. dead \in Databases
    BY DEF Die, Databases, Deaths
  <2> HIDE DEF dead
  <2>3. QED
    BY <2>1, <2>2 DEF Folded
<1>3. ASSUME NEW left \in Remains(x.merkle) PROVE Folded(x, [x EXCEPT !.merkle = left])
  <2> DEFINE y == [x EXCEPT !.merkle = left]
  <2>1. left \in [AccountIds -> 0..LastTs] /\ \A a \in AccountIds : left[a] \in {x.merkle[a], 0}
    BY DEF Remains
  <2>2. y \in Databases
    BY <2>1 DEF Databases
  <2>3. y.accounts = x.accounts /\ y.log = x.log /\ y.names = x.names /\ y.fatal = x.fatal
        /\ y.merkle = left
    BY DEF Databases
  <2> HIDE DEF y
  <2>4. Folded(x, y)
    BY <2>1, <2>2, <2>3 DEF Folded
  <2>5. QED
    BY <2>4 DEF y
<1>4. \A y \in outcomes : Folded(x, y)
  BY <1>1, <1>2, <1>3
<1>5. AfterAdding(x) \subseteq outcomes /\ AfterFolding(x) \subseteq outcomes
  BY DEF AfterAdding, AfterFolding
<1>6. OneDocument => AfterAdding(x) = {x} /\ AfterFolding(x) = {x}
  BY DEF AfterAdding, AfterFolding
<1> HIDE DEF outcomes
<1>7. QED
  BY <1>4, <1>5, <1>6

\* A sound database stays sound.
LEMMA FoldedIsSound ==
  ASSUME NEW x \in SoundBases, NEW y, Folded(x, y)
  PROVE  y \in SoundBases
<1>1. ASSUME NEW a \in AccountIds PROVE SoundAt(y, a)
  <2>1. SoundAt(x, a)
    BY DEF SoundBases
  <2>2. y.merkle[a] # 0 => x.merkle[a] # 0
    BY DEF Folded
  <2>3. QED
    BY <2>1, <2>2 DEF Folded, SoundAt, Logged
<1>2. QED
  BY <1>1 DEF Folded, SoundBases

\* Whether the transaction is committed or lost.
LEMMA FinishInv ==
  ASSUME TreeInv, NEW result \in SoundBases, Finish(result)
  PROVE  TreeInv'
<1>1. result.fatal \in Deaths \cup {""}
  BY DEF SoundBases, Databases
<1>2. CASE result.fatal = ""
  <2>1. db' = result /\ process' = "running"
    BY <1>2 DEF Finish
  <2>2. SoundBases' = SoundBases
    BY DEF SoundBases, Databases, SoundAt
  <2>3. QED
    BY <1>2, <2>1 DEF TreeInv, SoundBases, SoundAt
<1>3. CASE result.fatal # ""
  BY <1>1, <1>3 DEF Finish, TreeInv, SoundBases, SoundAt
<1>4. QED
  BY <1>2, <1>3

\* Every step keeps the invariant.
LEMMA TreeNextInv ==
  ASSUME InviteConstants, TreeInv, [TreeNext]_treeVars
  PROVE  TreeInv'
<1>1. ASSUME NEW a \in AccountIds, NEW timestamp \in Timestamps, BundleSave(a, timestamp)
      PROVE  TreeInv'
  <2>1. Acceptable(db.accounts[a], timestamp) /\ db \in SoundBases
    BY <1>1 DEF BundleSave, TreeInv
  <2>2. PICK invites \in InviteLists(a) :
          \E count \in (IF a \in NameOwners THEN 0..MaxNames ELSE {0}) :
          \E order \in SetToSeqs(DroppedInvites(db.accounts[a], invites)) :
          \E result \in AfterFolding(SaveChanged(db, a, timestamp, invites, count, order)) :
            Finish(result)
    BY <1>1 DEF BundleSave
  <2>8. PICK count \in (IF a \in NameOwners THEN 0..MaxNames ELSE {0}),
             order \in SetToSeqs(DroppedInvites(db.accounts[a], invites)) :
          \E result \in AfterFolding(SaveChanged(db, a, timestamp, invites, count, order)) :
            Finish(result)
    BY <2>2
  <2>3. invites \in Seq(InviteType) /\ count \in 0..MaxNames
    BY ListsOfBundle, HalfOfNames
  <2>4. db.accounts[a] \in AccountRecords
    BY <2>1 DEF SoundBases, Databases
  <2>5. order \in Seq(AccountIds)
    BY <2>4, OrderOfDropped
  <2>6. SaveChanged(db, a, timestamp, invites, count, order) \in SoundBases
    BY <2>1, <2>3, <2>5, SaveChangedSound
  <2> DEFINE saved == SaveChanged(db, a, timestamp, invites, count, order)
  <2>7. saved \in SoundBases /\ saved \in Databases
        /\ \E result \in AfterFolding(saved) : Finish(result)
    BY <2>6, <2>8 DEF SoundBases
  <2> HIDE DEF saved
  <2>9. QED
    BY <2>7, OutcomesOfSave, FoldedIsSound, FinishInv
<1>2. ASSUME NEW a \in AccountIds, NEW timestamp \in Timestamps,
             BundleSaveUnchanged(a, timestamp)
      PROVE  TreeInv'
  <2>0. LastTs \in Nat
    BY GapsAreNumbers
  <2>a. timestamp \in 0..LastTs
    BY <2>0 DEF Timestamps
  <2>b. db \in SoundBases
    BY DEF TreeInv
  <2>1. timestamp \in 0..LastTs /\ db \in SoundBases /\ db \in After(db)
    BY <2>a, <2>b, AfterIsSound
  <2>2. LogContent(db, a) \in After(db) /\ Logged(LogContent(db, a), a)
    BY <2>1, WritesSound
  <2>3. MerkleAdd(LogContent(db, a), a, timestamp) \in SoundBases
    BY <2>1, <2>2, WritesSound, AfterIsSound
  <2> DEFINE saved == SaveUnchanged(db, a, timestamp)
  <2>4. \E result \in AfterAdding(saved) : Finish(result)
    BY <1>2 DEF BundleSaveUnchanged
  <2>5. saved \in SoundBases /\ saved \in Databases
    BY <2>3 DEF SaveUnchanged, SoundBases
  <2> HIDE DEF saved
  <2>6. QED
    BY <2>4, <2>5, OutcomesOfSave, FoldedIsSound, FinishInv
<1>3. CASE RestartProcess
  BY <1>3 DEF RestartProcess, TreeInv, SoundBases, SoundAt
<1>4. CASE UNCHANGED treeVars
  BY <1>4 DEF treeVars, TreeInv, SoundBases, SoundAt
<1>5. QED
  BY <1>1, <1>2, <1>3, <1>4 DEF TreeNext

LEMMA TreeInvHolds == ASSUME InviteConstants PROVE TreeSpec => []TreeInv
<1>1. TreeInit => TreeInv
  BY TreeInitInv
<1>2. TreeInv /\ [TreeNext]_treeVars => TreeInv'
  BY TreeNextInv
<1>3. QED
  BY <1>1, <1>2, PTL DEF TreeSpec

-----------------------------------------------------------------------------
(***************************************************************************)
(* Invite tree: the theorems.                                              *)
(***************************************************************************)
\* Whoever invites whom and however the recursion runs, records, log, leaves and
\* registrations keep their shapes, and no transaction that died is committed.
THEOREM TreeTypeCorrect == ASSUME TreeAssumption PROVE TreeSpec => []TreeTypeOK
<1>1. TreeInv => TreeTypeOK
  BY DEF TreeInv, SoundBases, SoundAt, TreeTypeOK
<1>2. TreeSpec => []TreeInv
  BY TreeInvHolds DEF InviteConstants
<1>3. QED
  BY <1>1, <1>2, PTL

\* An account is enabled exactly while it has an inviter, and lives under the
\* oldest of its invites.
THEOREM TreeEnabledByOldest ==
  ASSUME TreeAssumption PROVE TreeSpec => []EnabledByOldestInvite
<1>1. TreeInv => EnabledByOldestInvite
  <2> SUFFICES ASSUME TreeInv, NEW a \in AccountIds \ {TreeRoot}
               PROVE  /\ Acc(a).enabled <=> Acc(a).inviters # <<>>
                      /\ Acc(a).enabled => \E k \in Oldest(Acc(a).inviters) :
                                             SameInviter(Acc(a).active, Acc(a).inviters[k])
    BY DEF EnabledByOldestInvite
  <2>1. SoundAt(db, a) /\ a # TreeRoot
    BY DEF TreeInv, SoundBases
  <2>2. SoundRecord(Acc(a)) /\ Acc(a).address # TreeRoot
    BY <2>1 DEF SoundAt, Acc
  <2>3. QED
    BY <2>2 DEF SoundRecord
<1>2. TreeSpec => []TreeInv
  BY TreeInvHolds DEF InviteConstants
<1>3. QED
  BY <1>1, <1>2, PTL

\* No content is served that is older than the invite its account lives under.
THEOREM TreeContentNotBeforeInvite ==
  ASSUME TreeAssumption PROVE TreeSpec => []ContentNotBeforeInvite
<1>1. TreeInv => ContentNotBeforeInvite
  BY DEF TreeInv, SoundBases, SoundAt, SoundRecord, InTime, ContentNotBeforeInvite, HasContent, Acc
<1>2. TreeSpec => []TreeInv
  BY TreeInvHolds DEF InviteConstants
<1>3. QED
  BY <1>1, <1>2, PTL

\* Of the names of an account that was disabled, the cursor of names.RemoveAllForAddress
\* leaves at most half, and none if it had a single one; whichever way the recursion
\* reached the account.
THEOREM TreeNamesNeedAccount ==
  ASSUME TreeAssumption PROVE TreeSpec => []NamesNeedAccount
<1>1. TreeInv => NamesNeedAccount
  BY DEF TreeInv, SoundBases, SoundAt, Few, NamesNeedAccount, Acc
<1>2. TreeSpec => []TreeInv
  BY TreeInvHolds DEF InviteConstants
<1>3. QED
  BY <1>1, <1>2, PTL

\* Nothing is left, of content, leaf or names, of an account that the delta log
\* has no row for.
THEOREM TreeContentIsLogged ==
  ASSUME TreeAssumption PROVE TreeSpec => []ContentIsLogged
<1>1. TreeInv => ContentIsLogged
  BY DEF TreeInv, SoundBases, SoundAt, Logged, ContentIsLogged, Acc
<1>2. TreeSpec => []TreeInv
  BY TreeInvHolds DEF InviteConstants
<1>3. QED
  BY <1>1, <1>2, PTL

-----------------------------------------------------------------------------
(***************************************************************************)
(* Invite tree: the accounts below an account.                             *)
(*                                                                         *)
(* What follows says which accounts a save may touch, when its recursion   *)
(* ends and when log, merklehead and records agree.  It rests on the graph *)
(* of who may invite whom: a call for an account makes calls only for the  *)
(* accounts it may invite.                                                 *)
(***************************************************************************)
LEMMA BelowFacts ==
  ASSUME InviteConstants, NEW a \in AccountIds
  PROVE  /\ Below(a) \subseteq AccountIds
         /\ a \in Below(a)
         /\ \A c \in MayInvite(a) : c \in AccountIds /\ Below(c) \subseteq Below(a)
<1>1. Below(a) \subseteq AccountIds /\ a \in Below(a)
  BY DEF Below
<1>2. ASSUME NEW c \in MayInvite(a) PROVE c \in AccountIds /\ Below(c) \subseteq Below(a)
  <2>1. c \in AccountIds
    BY DEF MayInvite, InviteConstants, TreeAssumption
  <2>2. ASSUME NEW b \in Below(c), NEW S \in SUBSET AccountIds,
               a \in S, \A x \in S : MayInvite(x) \subseteq S
        PROVE  b \in S
    <3>1. c \in S
      BY <2>2
    <3>2. QED
      BY <2>2, <3>1 DEF Below
  <2>3. QED
    BY <2>1, <2>2 DEF Below
<1>3. QED
  BY <1>1, <1>2

\* Without cycles an account that may be invited has fewer accounts below it.
LEMMA FewerBelow ==
  ASSUME InviteConstants, NoCycles, NEW a \in AccountIds, NEW c \in MayInvite(a)
  PROVE  /\ Below(c) \subseteq Below(a) \ {a}
         /\ Cardinality(Below(a)) \in Nat /\ Cardinality(Below(c)) \in Nat
         /\ Cardinality(Below(c)) < Cardinality(Below(a))
<1>1. c \in AccountIds /\ Below(c) \subseteq Below(a) /\ Below(a) \subseteq AccountIds
      /\ a \in Below(a)
  BY BelowFacts
<1>2. Below(c) \subseteq Below(a) \ {a}
  BY <1>1 DEF NoCycles
<1>3. IsFiniteSet(Below(a))
  BY <1>1, FS_Subset DEF InviteConstants, TreeAssumption
<1>4. IsFiniteSet(Below(a) \ {a}) /\ Cardinality(Below(a) \ {a}) = Cardinality(Below(a)) - 1
  BY <1>1, <1>3, FS_RemoveElement
<1>5. IsFiniteSet(Below(c)) /\ Cardinality(Below(c)) <= Cardinality(Below(a) \ {a})
  BY <1>2, <1>4, FS_Subset
<1>6. Cardinality(Below(a)) \in Nat /\ Cardinality(Below(c)) \in Nat
  BY <1>3, <1>5, FS_CardinalityType
<1>7. QED
  BY <1>2, <1>4, <1>5, <1>6

\* No account has nothing below it: it is there itself.
LEMMA SomeBelow ==
  ASSUME InviteConstants, NEW a \in AccountIds
  PROVE  Cardinality(Below(a)) \in Nat /\ Cardinality(Below(a)) # 0
<1>1. Below(a) \subseteq AccountIds /\ a \in Below(a)
  BY BelowFacts
<1>2. IsFiniteSet(Below(a))
  BY <1>1, FS_Subset DEF InviteConstants, TreeAssumption
<1>3. QED
  BY <1>1, <1>2, FS_CardinalityType, FS_EmptySet

-----------------------------------------------------------------------------
(***************************************************************************)
(* Invite tree: whom an account lists.                                     *)
(***************************************************************************)
\* A list of invites of account a: of others whom it may invite, none twice.
ListOf(a, invites) ==
  /\ \A k \in DOMAIN invites : invites[k].account \in MayInvite(a)
  /\ \A j, k \in DOMAIN invites : invites[j].account = invites[k].account => j = k

ListedRecords == {me \in AccountRecords : ListOf(me.address, me.invited)}

ListedBases ==
  {base \in Databases :
     \A a \in AccountIds : base.accounts[a].address = a /\ base.accounts[a] \in ListedRecords}

LEMMA ListedRecordIs ==
  ASSUME NEW me \in ListedRecords
  PROVE  /\ me \in AccountRecords /\ me.address \in AccountIds
         /\ me.invited \in Seq(InviteType) /\ Len(me.invited) \in Nat
         /\ me.active \in InviterType /\ me.timestamp \in 0..LastTs
         /\ \A k \in 1..Len(me.invited) : me.invited[k] \in InviteType
                                          /\ me.invited[k].account \in MayInvite(me.address)
<1>1. me \in AccountRecords /\ ListOf(me.address, me.invited)
  BY DEF ListedRecords
<1>2. me.address \in AccountIds /\ me.invited \in Seq(InviteType)
      /\ me.active \in InviterType /\ me.timestamp \in 0..LastTs
  BY <1>1 DEF AccountRecords
<1>3. DOMAIN me.invited = 1..Len(me.invited) /\ Len(me.invited) \in Nat
  BY <1>2
<1>4. QED
  BY <1>1, <1>2, <1>3, InviteOfList DEF ListOf

\* A record with the same list of the same account.
LEMMA ListedLike ==
  ASSUME NEW me \in ListedRecords, NEW x \in AccountRecords,
         x.address = me.address, x.invited = me.invited
  PROVE  x \in ListedRecords
  BY DEF ListedRecords

LEMMA FetchListed ==
  ASSUME NEW base \in ListedBases, NEW a \in AccountIds
  PROVE  FetchAny(base, a) \in ListedRecords /\ FetchAny(base, a).address = a
  BY DEF ListedBases, FetchAny

LEMMA AddListed ==
  ASSUME InviteConstants, NEW me \in ListedRecords, NEW i \in InviterType
  PROVE  /\ AddInviter(me, i) \in ListedRecords
         /\ AddInviter(me, i).address = me.address
         /\ AddInviter(me, i).enabled = me.enabled
         /\ AddInviter(me, i).content = me.content
         /\ AddInviter(me, i).timestamp = me.timestamp
<1>1. me \in AccountRecords
  BY DEF ListedRecords
<1> DEFINE x == AddInviter(me, i)
<1>2. x \in AccountRecords /\ x = [me EXCEPT !.inviters = x.inviters]
  BY <1>1, AddStays
<1> HIDE DEF x
<1>3. x.address = me.address /\ x.invited = me.invited /\ x.enabled = me.enabled
      /\ x.content = me.content /\ x.timestamp = me.timestamp
  BY <1>1, <1>2 DEF AccountRecords
<1>4. x \in ListedRecords
  BY <1>2, <1>3, ListedLike
<1>5. QED
  BY <1>3, <1>4 DEF x

LEMMA RemoveListed ==
  ASSUME NEW me \in ListedRecords, NEW a
  PROVE  /\ RemoveInviter(me, a) \in ListedRecords
         /\ RemoveInviter(me, a).address = me.address
         /\ RemoveInviter(me, a).enabled = me.enabled
         /\ RemoveInviter(me, a).content = me.content
         /\ RemoveInviter(me, a).timestamp = me.timestamp
<1>1. me \in AccountRecords
  BY DEF ListedRecords
<1> DEFINE x == RemoveInviter(me, a)
<1>2. x \in AccountRecords /\ x = [me EXCEPT !.inviters = x.inviters]
  BY <1>1, RemoveStays
<1> HIDE DEF x
<1>3. x.address = me.address /\ x.invited = me.invited /\ x.enabled = me.enabled
      /\ x.content = me.content /\ x.timestamp = me.timestamp
  BY <1>1, <1>2 DEF AccountRecords
<1>4. x \in ListedRecords
  BY <1>2, <1>3, ListedLike
<1>5. QED
  BY <1>3, <1>4 DEF x

LEMMA GoneListed ==
  ASSUME InviteConstants, NEW me \in ListedRecords
  PROVE  Gone(me) \in ListedRecords /\ Gone(me).address = me.address
<1>1. me \in AccountRecords
  BY DEF ListedRecords
<1>2. Gone(me) \in AccountRecords
  BY <1>1, GoneType
<1>3. Gone(me).address = me.address /\ Gone(me).invited = me.invited
  BY <1>1 DEF Gone, AccountRecords
<1>4. QED
  BY <1>2, <1>3, ListedLike

\* Marking invites as active or not changes none of their accounts.
LEMMA WithActiveListed ==
  ASSUME NEW a, NEW me, NEW invites \in Seq(InviteType), ListOf(a, invites)
  PROVE  ListOf(a, WithActive(me, invites))
<1>0. \A k \in DOMAIN invites : invites[k] \in InviteType
  OBVIOUS
<1>1. DOMAIN WithActive(me, invites) = DOMAIN invites
  BY DEF WithActive
<1>2. ASSUME NEW k \in DOMAIN invites
      PROVE  WithActive(me, invites)[k].account = invites[k].account
  BY <1>0 DEF WithActive, InviteType
<1>3. QED
  BY <1>1, <1>2 DEF ListOf

LEMMA ReparentedListed ==
  ASSUME InviteConstants, NEW me \in ListedRecords, NEW i \in InviterType
  PROVE  /\ Reparented(me, i) \in ListedRecords
         /\ Reparented(me, i).address = me.address
         /\ Reparented(me, i).enabled
         /\ Reparented(me, i).content <=>
              me.content /\ ~Outdated(me, i) /\ ~Forgotten(me, i)
         /\ Reparented(me, i).content => Reparented(me, i).timestamp = me.timestamp
         /\ Adopted(me, i) \in ListedRecords
<1> DEFINE r == Reparented(me, i)
           a == Adopted(me, i)
<1>0. me \in AccountRecords /\ ListOf(me.address, me.invited) /\ me.content \in BOOLEAN
      /\ me.invited \in Seq(InviteType)
  BY DEF ListedRecords, AccountRecords
<1>1. /\ a \in AccountRecords /\ a.address = me.address /\ a.enabled /\ a.invited = me.invited
      /\ a.content = me.content /\ a.timestamp = me.timestamp
  BY <1>0, AdoptedType
<1>2. r \in AccountRecords
  BY <1>0, ReparentedType
<1>3. a \in ListedRecords
  BY <1>1, ListedLike
<1>4. CASE Returns(me, i)
  <2>1. r = [a EXCEPT !.invited = WithActive(a, a.invited)]
    BY <1>4 DEF Reparented
  <2> HIDE DEF a
  <2>2. r.address = me.address /\ r.enabled /\ r.content = me.content
        /\ r.timestamp = me.timestamp /\ r.invited = WithActive(a, me.invited)
    BY <1>1, <2>1 DEF AccountRecords
  <2> HIDE DEF r
  <2>3. ListOf(r.address, r.invited)
    BY <1>0, <2>2, WithActiveListed
  <2>6. r \in ListedRecords
    BY <1>2, <2>3 DEF ListedRecords
  <2>4. me.content /\ ~Outdated(me, i) /\ ~Forgotten(me, i)
    <3>1. me.timestamp \in 0..LastTs /\ i.timestamp \in 0..LastTs
      BY <1>0 DEF AccountRecords, InviterType
    <3>2. me.timestamp \in Int /\ i.timestamp \in Int
      BY <3>1, GapsAreNumbers
    <3>3. QED
      BY <1>4, <3>2 DEF Returns, Outdated, Forgotten
  <2>5. QED
    BY <1>3, <2>2, <2>4, <2>6 DEF a, r
<1>5. CASE ~Returns(me, i) /\ (Outdated(me, i) \/ Forgotten(me, i))
  <2>1. r = WithoutContent(a)
    BY <1>5 DEF Reparented
  <2> HIDE DEF a
  <2>2. r.address = me.address /\ r.enabled /\ r.content = FALSE /\ r.invited = me.invited
    BY <1>1, <2>1 DEF WithoutContent, AccountRecords
  <2> HIDE DEF r
  <2>3. r \in ListedRecords
    BY <1>2, <2>2, ListedLike
  <2>4. QED
    BY <1>3, <1>5, <2>2, <2>3 DEF a, r
<1>6. CASE ~Returns(me, i) /\ ~(Outdated(me, i) \/ Forgotten(me, i))
  <2>1. r = a
    BY <1>6 DEF Reparented
  <2> HIDE DEF a, r
  <2>2. QED
    BY <1>0, <1>1, <1>3, <1>6, <2>1 DEF a, r
<1>7. QED
  BY <1>4, <1>5, <1>6

-----------------------------------------------------------------------------
(***************************************************************************)
(* Invite tree: the whole recursion stays where its writes and calls stay. *)
(***************************************************************************)
\* The databases P are closed under all that a save writes of account a.
WritesStay(P, a) ==
  /\ \A x \in P : /\ LogContent(x, a) \in P
                  /\ LogRemoval(x, a) \in P
                  /\ MerkleRemove(x, a) \in P
                  /\ NamesRemoveAll(x, a) \in P
  /\ \A x \in P, t \in 0..LastTs : MerkleAdd(x, a, t) \in P
  /\ \A x \in P, me \in ListedRecords :
       me.address = a => /\ SaveToDb(x, me) \in P
                         /\ SaveLast(x, me) \in P
                         /\ \A count \in 0..MaxNames : NamesUpdate(x, me, count) \in P
  /\ \A x \in P, reason \in Deaths \ {"runaway recursion"} : Die(x, reason) \in P

\* ... and under update, called for an account that a may invite.
CallsStay(P, a, update) ==
  \A x \in P, me \in ListedRecords : me.address \in MayInvite(a) => update[<<x, me>>] \in P

LEMMA CheckAllListed ==
  ASSUME InviteConstants, NEW P \in SUBSET ListedBases, NEW base \in P,
         NEW me \in ListedRecords, NEW update,
         WritesStay(P, me.address), CallsStay(P, me.address, update)
  PROVE  CheckAllInvited(base, me, update) \in P
<1>1. ASSUME NEW invite \in InviteType, invite.account \in MayInvite(me.address), NEW x \in P
      PROVE  CheckInvited(x, me, invite, update) \in P
  <2>0. invite.account \in AccountIds /\ me \in AccountRecords
    BY DEF InviteType, ListedRecords
  <2>1. FetchAny(x, invite.account) \in ListedRecords
        /\ FetchAny(x, invite.account).address = invite.account
    BY <2>0, FetchListed
  <2>2. AddInviter(FetchAny(x, invite.account), InviterFor(me, invite)) \in ListedRecords
        /\ AddInviter(FetchAny(x, invite.account), InviterFor(me, invite)).address
             = invite.account
    BY <2>0, <2>1, InviterForType, AddListed
  <2>3. /\ update[<<x, FetchAny(x, invite.account)>>] \in P
        /\ update[<<x, AddInviter(FetchAny(x, invite.account), InviterFor(me, invite))>>] \in P
    BY <1>1, <2>1, <2>2 DEF CallsStay
  <2>4. Die(x, "missing account") \in P
    BY DEF WritesStay, Deaths
  <2>5. QED
    BY <2>3, <2>4 DEF CheckInvited
<1>2. \A k \in 1..Len(me.invited) : \A x \in P : CheckInvited(x, me, me.invited[k], update) \in P
  BY <1>1, ListedRecordIs
<1>3. Len(me.invited) \in Nat
  BY ListedRecordIs
<1>4. QED
  BY <1>2, <1>3, CheckAllStays

LEMMA DisableChildrenListed ==
  ASSUME NEW P \in SUBSET ListedBases, NEW base \in P,
         NEW me \in ListedRecords, NEW update,
         WritesStay(P, me.address), CallsStay(P, me.address, update)
  PROVE  DisableChildren(base, me, update) \in P
<1>1. ASSUME NEW invite \in InviteType, invite.account \in MayInvite(me.address), NEW x \in P
      PROVE  DisableChild(x, me, invite, update) \in P
  <2>0. invite.account \in AccountIds
    BY DEF InviteType
  <2>1. FetchAny(x, invite.account) \in ListedRecords
        /\ FetchAny(x, invite.account).address = invite.account
    BY <2>0, FetchListed
  <2>2. RemoveInviter(FetchAny(x, invite.account), me.address) \in ListedRecords
        /\ RemoveInviter(FetchAny(x, invite.account), me.address).address = invite.account
    BY <2>1, RemoveListed
  <2>3. update[<<x, RemoveInviter(FetchAny(x, invite.account), me.address)>>] \in P
    BY <1>1, <2>2 DEF CallsStay
  <2>4. Die(x, "DisableAccount() - missing account") \in P
    BY DEF WritesStay, Deaths
  <2>5. QED
    BY <2>3, <2>4 DEF DisableChild
<1>2. \A k \in 1..Len(me.invited) : \A x \in P : DisableChild(x, me, me.invited[k], update) \in P
  BY <1>1, ListedRecordIs
<1>3. Len(me.invited) \in Nat
  BY ListedRecordIs
<1>4. QED
  BY <1>2, <1>3, DisableChildrenStay

\* The accounts with a new inviter: only those of invites that are new or changed
\* are called for.
LEMMA UpdateNewListed ==
  ASSUME InviteConstants, NEW P, NEW base \in P, NEW read \in ListedBases,
         NEW me \in AccountRecords, NEW invites \in Seq(InviteType), NEW update,
         \A k \in 1..Len(invites) : IsChanged(me, invites[k]) =>
           \A x \in P, child \in ListedRecords :
             child.address = invites[k].account => update[<<x, child>>] \in P
  PROVE  UpdateNew(read, base, me, invites, update) \in P
<1>1. ASSUME NEW invite \in InviteType
      PROVE  /\ AddInviter(FetchAny(read, invite.account), InviterFor(me, invite))
                  \in ListedRecords
             /\ AddInviter(FetchAny(read, invite.account), InviterFor(me, invite)).address
                  = invite.account
  <2>0. invite.account \in AccountIds
    BY DEF InviteType
  <2>1. FetchAny(read, invite.account) \in ListedRecords
        /\ FetchAny(read, invite.account).address = invite.account
    BY <2>0, FetchListed
  <2>2. QED
    BY <2>1, InviterForType, AddListed
<1>2. \A k \in 1..Len(invites) : \A x \in P :
        IsChanged(me, invites[k]) =>
          update[<<x, AddInviter(FetchAny(read, invites[k].account),
                                 InviterFor(me, invites[k]))>>] \in P
  BY <1>1, InviteOfList
<1>3. Len(invites) \in Nat
  OBVIOUS
<1>4. QED
  BY <1>2, <1>3, UpdateNewStays

LEMMA UpdateDroppedListed ==
  ASSUME NEW P, NEW base \in P, NEW read \in ListedBases,
         NEW me, NEW order \in Seq(AccountIds), NEW update,
         \A k \in 1..Len(order) :
           \A x \in P, child \in ListedRecords :
             child.address = order[k] => update[<<x, child>>] \in P
  PROVE  UpdateDropped(read, base, me, order, update) \in P
<1>1. ASSUME NEW a \in AccountIds
      PROVE  RemoveInviter(FetchAny(read, a), me.address) \in ListedRecords
             /\ RemoveInviter(FetchAny(read, a), me.address).address = a
  BY FetchListed, RemoveListed
<1>2. \A k \in 1..Len(order) : order[k] \in AccountIds
  OBVIOUS
<1>3. \A k \in 1..Len(order) : \A x \in P :
        update[<<x, RemoveInviter(FetchAny(read, order[k]), me.address)>>] \in P
  BY <1>1, <1>2
<1>4. Len(order) \in Nat
  OBVIOUS
<1>5. QED
  BY <1>3, <1>4, UpdateDroppedStays

LEMMA DisableListed ==
  ASSUME InviteConstants, NEW P \in SUBSET ListedBases, NEW base \in P,
         NEW me \in ListedRecords, NEW update,
         WritesStay(P, me.address), CallsStay(P, me.address, update)
  PROVE  DisableAccount(base, me, update) \in P
<1> DEFINE logged == IF me.content
                     THEN LogRemoval(MerkleRemove(base, me.address), me.address)
                     ELSE base
           below == DisableChildren(logged, Gone(me), update)
<1>1. logged \in P
  BY DEF WritesStay
<1>2. Gone(me) \in ListedRecords /\ Gone(me).address = me.address
  BY GoneListed
<1>3. DisableAccount(base, me, update) = SaveLast(NamesRemoveAll(below, me.address), Gone(me))
  BY DEF DisableAccount, Gone
<1> HIDE DEF logged
<1>4. below \in P
  BY <1>1, <1>2, DisableChildrenListed
<1> HIDE DEF below
<1>5. QED
  BY <1>2, <1>3, <1>4 DEF WritesStay

LEMMA ReenableListed ==
  ASSUME InviteConstants, NEW P \in SUBSET ListedBases, NEW base \in P,
         NEW me \in ListedRecords, NEW update,
         WritesStay(P, me.address), CallsStay(P, me.address, update)
  PROVE  ReenableWithContent(base, me, update) \in P
<1> DEFINE bare == [me EXCEPT !.invited = <<>>]
           below == UpdateNew(base, base, bare, me.invited, update)
<1>0. <<>> \in Seq(InviteType)
  OBVIOUS
<1>1. me \in AccountRecords /\ me.invited \in Seq(InviteType) /\ me.timestamp \in 0..LastTs
      /\ \A k \in 1..Len(me.invited) : me.invited[k].account \in MayInvite(me.address)
  BY ListedRecordIs
<1>2. bare \in AccountRecords
  BY <1>0, <1>1 DEF AccountRecords
<1>3. ReenableWithContent(base, me, update) =
        IF below.fatal # "" THEN below
        ELSE MerkleAdd(LogContent(below, me.address), me.address, me.timestamp)
  BY DEF ReenableWithContent
<1> HIDE DEF bare
<1>4. \A k \in 1..Len(me.invited) : IsChanged(bare, me.invited[k]) =>
        \A x \in P, child \in ListedRecords :
          child.address = me.invited[k].account => update[<<x, child>>] \in P
  BY <1>1 DEF CallsStay
<1>5. below \in P
  BY <1>1, <1>2, <1>4, UpdateNewListed
<1> HIDE DEF below
<1>6. QED
  BY <1>1, <1>3, <1>5 DEF WritesStay

LEMMA ReparentListed ==
  ASSUME InviteConstants, NEW P \in SUBSET ListedBases, NEW base \in P,
         NEW me \in ListedRecords, NEW i \in InviterType, NEW update,
         WritesStay(P, me.address), CallsStay(P, me.address, update)
  PROVE  Reparent(base, me, i, update) \in P
<1> DEFINE changed == ~SameInviter(i, me.active)
           relevelled == /\ changed
                         /\ me.enabled
                         /\ AssignedLevel(me.active) # AssignedLevel(i)
                         /\ me.content
           base1 == IF relevelled THEN MerkleAdd(base, me.address, me.timestamp) ELSE base
           base2 == IF Returns(me, i)
                    THEN ReenableWithContent(base1, Adopted(me, i), update)
                    ELSE IF Outdated(me, i)
                    THEN LogRemoval(MerkleRemove(base1, me.address), me.address)
                    ELSE base1
           base3 == IF changed
                    THEN CheckAllInvited(base2, Reparented(me, i), update)
                    ELSE base2
<1>1. Reparent(base, me, i, update) = SaveLast(base3, Reparented(me, i))
  BY DEF Reparent
<1>2. me.timestamp \in 0..LastTs /\ me \in AccountRecords
  BY ListedRecordIs
<1>3. /\ Reparented(me, i) \in ListedRecords /\ Reparented(me, i).address = me.address
      /\ Adopted(me, i) \in ListedRecords /\ Adopted(me, i).address = me.address
  BY <1>2, ReparentedListed, AdoptedType
<1>4. base1 \in P
  BY <1>2 DEF WritesStay
<1> HIDE DEF base1, changed, relevelled
<1>5. base2 \in P
  <2>1. ReenableWithContent(base1, Adopted(me, i), update) \in P
    BY <1>3, <1>4, ReenableListed
  <2>2. LogRemoval(MerkleRemove(base1, me.address), me.address) \in P
    BY <1>4 DEF WritesStay
  <2>3. QED
    BY <1>4, <2>1, <2>2
<1> HIDE DEF base2
<1>6. CheckAllInvited(base2, Reparented(me, i), update) \in P
  BY <1>3, <1>5, CheckAllListed
<1>7. base3 \in P
  BY <1>5, <1>6
<1> HIDE DEF base3
<1>8. QED
  BY <1>1, <1>3, <1>7 DEF WritesStay

LEMMA UpdateStatusListed ==
  ASSUME InviteConstants, NEW P \in SUBSET ListedBases, NEW base \in P,
         NEW me \in ListedRecords, NEW update,
         WritesStay(P, me.address), CallsStay(P, me.address, update)
  PROVE  UpdateStatus(base, me, update) \in P
<1>1. me \in AccountRecords
  BY ListedRecordIs
<1>2. CheckAllInvited(base, me, update) \in P
  BY CheckAllListed
<1>3. SaveLast(CheckAllInvited(base, me, update), me) \in P
  BY <1>2 DEF WritesStay
<1>4. DisableAccount(base, me, update) \in P
  BY DisableListed
<1>5. Die(base, "uh oh, two invites with same age") \in P
  BY DEF WritesStay, Deaths
<1>6. ASSUME me.inviters # <<>>
      PROVE  Reparent(base, me, DetermineActiveInviter(me), update) \in P
  <2>1. DetermineActiveInviter(me) \in InviterType
    BY <1>1, <1>6, OldestInviter, OldestType
  <2>2. QED
    BY <2>1, ReparentListed
<1>7. QED
  BY <1>3, <1>4, <1>5, <1>6 DEF UpdateStatus

\* So does a whole save.
LEMMA SaveChangedListed ==
  ASSUME InviteConstants, NEW P \in SUBSET ListedBases, NEW base \in P, NEW a \in AccountIds,
         NEW timestamp \in Timestamps, NEW invites \in Seq(InviteType), ListOf(a, invites),
         NEW count \in 0..MaxNames, NEW order \in Seq(MayInvite(a)),
         WritesStay(P, a), CallsStay(P, a, RecurseUpdateStatus[MaxDepth])
  PROVE  SaveChanged(base, a, timestamp, invites, count, order) \in P
<1> DEFINE me == FetchAny(base, a)
           why == UpdateInvitedFatal(base, me, order)
           saved == [me EXCEPT !.invited = WithActive(me, invites),
                               !.content = TRUE, !.timestamp = timestamp]
           logged == LogContent(NamesUpdate(base, me, count), a)
           announced == MerkleAdd(SaveToDb(logged, saved), a, timestamp)
           update == RecurseUpdateStatus[MaxDepth]
<1>1. SaveChanged(base, a, timestamp, invites, count, order) =
        IF why # "" THEN Die(base, why)
        ELSE UpdateDropped(base, UpdateNew(base, announced, me, invites, update),
                           me, order, update)
  BY DEF SaveChanged
<1>2. me \in ListedRecords /\ me \in AccountRecords /\ me.address = a
  BY FetchListed, ListedRecordIs
<1> HIDE DEF me
<1>3. saved \in ListedRecords /\ saved.address = a
  <2>1. timestamp \in 0..LastTs
    BY GapsAreNumbers DEF Timestamps
  <2>2. WithActive(me, invites) \in Seq(InviteType) /\ ListOf(a, WithActive(me, invites))
    BY WithActiveType, WithActiveListed
  <2>3. saved \in AccountRecords
    BY <1>2, <2>1, <2>2 DEF AccountRecords
  <2>4. saved.address = a /\ saved.invited = WithActive(me, invites)
    BY <1>2 DEF AccountRecords
  <2> HIDE DEF saved
  <2>5. QED
    BY <2>2, <2>3, <2>4 DEF ListedRecords
<1>4. timestamp \in 0..LastTs
  BY GapsAreNumbers DEF Timestamps
<1> HIDE DEF saved
<1>5. logged \in P
  BY <1>2 DEF WritesStay
<1> HIDE DEF logged
<1>6. announced \in P
  BY <1>3, <1>4, <1>5 DEF WritesStay
<1>7. why # "" => why \in Deaths \ {"runaway recursion"}
  BY DEF UpdateInvitedFatal, Deaths
<1> HIDE DEF announced, why
<1>8. UpdateNew(base, announced, me, invites, update) \in P
  <2>1. \A k \in 1..Len(invites) : invites[k].account \in MayInvite(a)
    BY DEF ListOf
  <2>2. \A k \in 1..Len(invites) : IsChanged(me, invites[k]) =>
          \A x \in P, child \in ListedRecords :
            child.address = invites[k].account => update[<<x, child>>] \in P
    BY <2>1 DEF CallsStay
  <2> HIDE DEF update
  <2>3. QED
    BY <1>2, <1>6, <2>2, UpdateNewListed
<1>9. \A k \in 1..Len(order) : order[k] \in MayInvite(a)
  OBVIOUS
<1>10. \A k \in 1..Len(order) : \A x \in P, child \in ListedRecords :
         child.address = order[k] => update[<<x, child>>] \in P
  BY <1>9 DEF CallsStay
<1>11. order \in Seq(AccountIds)
  <2>1. MayInvite(a) \subseteq AccountIds
    BY BelowFacts
  <2>2. QED
    BY <2>1
<1> HIDE DEF update
<1>12. UpdateDropped(base, UpdateNew(base, announced, me, invites, update), me, order, update) \in P
  BY <1>8, <1>10, <1>11, UpdateDroppedListed
<1>13. why # "" => Die(base, why) \in P
  BY <1>7 DEF WritesStay
<1>14. QED
  BY <1>1, <1>12, <1>13 DEF update

-----------------------------------------------------------------------------
(***************************************************************************)
(* Invite tree: a save touches only the accounts below its own.            *)
(***************************************************************************)
\* x has of account b what base has.
SameAt(base, x, b) ==
  /\ x.accounts[b] = base.accounts[b]
  /\ x.log[b] = base.log[b]
  /\ x.merkle[b] = base.merkle[b]
  /\ x.names[b] = base.names[b]

\* The databases that differ from base at most in the accounts D.
Within(base, D) == {x \in ListedBases : \A b \in AccountIds \ D : SameAt(base, x, b)}

LEMMA WithinFacts ==
  ASSUME NEW base, NEW D
  PROVE  /\ Within(base, D) \subseteq ListedBases
         /\ base \in ListedBases => base \in Within(base, D)
         /\ \A x \in Within(base, D), E \in SUBSET D : Within(x, E) \subseteq Within(base, D)
  BY DEF Within, SameAt

\* What the writes of one field leave: they write of one account.
LEMMA FieldsWritten ==
  ASSUME InviteConstants, NEW x \in ListedBases, NEW a \in AccountIds
  PROVE  /\ LogContent(x, a) \in Within(x, {a})
         /\ LogRemoval(x, a) \in Within(x, {a})
         /\ MerkleRemove(x, a) \in Within(x, {a})
         /\ NamesRemoveAll(x, a) \in Within(x, {a})
         /\ \A t \in 0..LastTs : MerkleAdd(x, a, t) \in Within(x, {a})
         /\ \A reason \in Deaths : Die(x, reason) \in Within(x, {a})
<1>1. x \in Databases
      /\ \A b \in AccountIds : x.accounts[b].address = b /\ x.accounts[b] \in ListedRecords
  BY DEF ListedBases
<1>2. ASSUME NEW y \in Databases, y.accounts = x.accounts,
             \A b \in AccountIds \ {a} :
               y.log[b] = x.log[b] /\ y.merkle[b] = x.merkle[b] /\ y.names[b] = x.names[b]
      PROVE  y \in Within(x, {a})
  BY <1>1, <1>2 DEF Within, ListedBases, SameAt
<1>3. LogContent(x, a) \in Within(x, {a})
  <2> DEFINE y == LogContent(x, a)
  <2>1. y.accounts = x.accounts /\ y.merkle = x.merkle /\ y.names = x.names
        /\ \A b \in AccountIds \ {a} : y.log[b] = x.log[b]
    BY <1>1 DEF LogContent, Databases
  <2>d. y \in Databases
    BY <1>1, WritesType
  <2> HIDE DEF y
  <2>2. y \in Within(x, {a})
    BY <1>2, <2>1, <2>d
  <2>3. QED
    BY <2>2 DEF y
<1>4. LogRemoval(x, a) \in Within(x, {a})
  <2> DEFINE y == LogRemoval(x, a)
  <2>1. y.accounts = x.accounts /\ y.merkle = x.merkle /\ y.names = x.names
        /\ \A b \in AccountIds \ {a} : y.log[b] = x.log[b]
    BY <1>1 DEF LogRemoval, Databases
  <2>d. y \in Databases
    BY <1>1, WritesType
  <2> HIDE DEF y
  <2>2. y \in Within(x, {a})
    BY <1>2, <2>1, <2>d
  <2>3. QED
    BY <2>2 DEF y
<1>5. MerkleRemove(x, a) \in Within(x, {a})
  <2> DEFINE y == MerkleRemove(x, a)
  <2>1. y.accounts = x.accounts /\ y.log = x.log /\ y.names = x.names
        /\ \A b \in AccountIds \ {a} : y.merkle[b] = x.merkle[b]
    BY <1>1 DEF MerkleRemove, Databases
  <2>d. y \in Databases
    BY <1>1, WritesType
  <2> HIDE DEF y
  <2>2. y \in Within(x, {a})
    BY <1>2, <2>1, <2>d
  <2>3. QED
    BY <2>2 DEF y
<1>6. NamesRemoveAll(x, a) \in Within(x, {a})
  <2> DEFINE y == NamesRemoveAll(x, a)
  <2>1. y.accounts = x.accounts /\ y.log = x.log /\ y.merkle = x.merkle
        /\ \A b \in AccountIds \ {a} : y.names[b] = x.names[b]
    BY <1>1 DEF NamesRemoveAll, Databases
  <2>d. y \in Databases
    BY <1>1, WritesType
  <2> HIDE DEF y
  <2>2. y \in Within(x, {a})
    BY <1>2, <2>1, <2>d
  <2>3. QED
    BY <2>2 DEF y
<1>7. ASSUME NEW t \in 0..LastTs PROVE MerkleAdd(x, a, t) \in Within(x, {a})
  <2> DEFINE y == MerkleAdd(x, a, t)
  <2>1. y.accounts = x.accounts /\ y.log = x.log /\ y.names = x.names
        /\ \A b \in AccountIds \ {a} : y.merkle[b] = x.merkle[b]
    BY <1>1 DEF MerkleAdd, Databases
  <2>d. y \in Databases
    BY <1>1, WritesType
  <2> HIDE DEF y
  <2>2. y \in Within(x, {a})
    BY <1>2, <2>1, <2>d
  <2>3. QED
    BY <2>2 DEF y
<1>8. ASSUME NEW reason \in Deaths PROVE Die(x, reason) \in Within(x, {a})
  <2> DEFINE y == Die(x, reason)
  <2>1. y.accounts = x.accounts /\ y.log = x.log /\ y.names = x.names
        /\ y.merkle = x.merkle
    BY <1>1 DEF Die, Databases
  <2>d. y \in Databases
    BY <1>1, WritesType
  <2> HIDE DEF y
  <2>2. y \in Within(x, {a})
    BY <1>2, <2>1, <2>d
  <2>3. QED
    BY <2>2 DEF y
<1>9. QED
  BY <1>3, <1>4, <1>5, <1>6, <1>7, <1>8

LEMMA RecordWritten ==
  ASSUME InviteConstants, NEW x \in ListedBases, NEW me \in ListedRecords
  PROVE  /\ SaveToDb(x, me) \in Within(x, {me.address})
         /\ SaveLast(x, me) \in Within(x, {me.address})
         /\ \A count \in 0..MaxNames : NamesUpdate(x, me, count) \in Within(x, {me.address})
<1>1. x \in Databases /\ me \in AccountRecords /\ me.address \in AccountIds
      /\ \A b \in AccountIds : x.accounts[b].address = b /\ x.accounts[b] \in ListedRecords
  BY ListedRecordIs DEF ListedBases
<1> DEFINE y == [x EXCEPT !.accounts[me.address] = me]
<1>2. /\ y \in Databases /\ y.log = x.log /\ y.merkle = x.merkle /\ y.names = x.names
      /\ \A b \in AccountIds : y.accounts[b] = IF b = me.address THEN me ELSE x.accounts[b]
  BY <1>1 DEF Databases
<1> HIDE DEF y
<1>3. y \in Within(x, {me.address})
  BY <1>1, <1>2 DEF Within, ListedBases, SameAt
<1>4. Die(x, "account requires active inviter to be set") \in Within(x, {me.address})
  BY <1>1, FieldsWritten DEF Deaths
<1>5. SaveToDb(x, me) \in Within(x, {me.address})
  BY <1>3, <1>4 DEF SaveToDb, y
<1>6. x \in Within(x, {me.address})
  BY WithinFacts
<1>7. ASSUME NEW count \in 0..MaxNames PROVE NamesUpdate(x, me, count) \in Within(x, {me.address})
  <2> DEFINE z == NamesUpdate(x, me, count)
  <2>1. z \in Databases
    BY <1>1 DEF NamesUpdate, Databases
  <2>2. z.accounts = x.accounts /\ z.log = x.log /\ z.merkle = x.merkle
    BY <1>1 DEF NamesUpdate, Databases
  <2>3. \A b \in AccountIds \ {me.address} : z.names[b] = x.names[b]
    BY <1>1 DEF NamesUpdate, Databases
  <2> HIDE DEF z
  <2>4. z \in Within(x, {me.address})
    BY <1>1, <2>1, <2>2, <2>3 DEF Within, ListedBases, SameAt
  <2>5. QED
    BY <2>4 DEF z
<1>8. QED
  BY <1>5, <1>6, <1>7 DEF SaveLast

LEMMA WithinWrites ==
  ASSUME InviteConstants, NEW base, NEW D, NEW a \in AccountIds, a \in D
  PROVE  WritesStay(Within(base, D), a)
<1>1. ASSUME NEW x \in Within(base, D) PROVE x \in ListedBases /\ Within(x, {a}) \subseteq Within(base, D)
  BY WithinFacts
<1>2. \A x \in Within(base, D) : /\ LogContent(x, a) \in Within(base, D)
                                 /\ LogRemoval(x, a) \in Within(base, D)
                                 /\ MerkleRemove(x, a) \in Within(base, D)
                                 /\ NamesRemoveAll(x, a) \in Within(base, D)
  BY <1>1, FieldsWritten
<1>3. \A x \in Within(base, D), t \in 0..LastTs : MerkleAdd(x, a, t) \in Within(base, D)
  BY <1>1, FieldsWritten
<1>4. \A x \in Within(base, D), me \in ListedRecords :
        me.address = a => /\ SaveToDb(x, me) \in Within(base, D)
                          /\ SaveLast(x, me) \in Within(base, D)
                          /\ \A count \in 0..MaxNames : NamesUpdate(x, me, count) \in Within(base, D)
  BY <1>1, RecordWritten
<1>5. \A x \in Within(base, D), reason \in Deaths \ {"runaway recursion"} :
        Die(x, reason) \in Within(base, D)
  BY <1>1, FieldsWritten
<1>6. QED
  BY <1>2, <1>3, <1>4, <1>5 DEF WritesStay

\* RecurseUpdateStatus to some depth, as far as it goes: a call for an account touches
\* only accounts below it.
ListedUpdates ==
  {update \in Updates :
     \A base \in ListedBases, me \in ListedRecords :
       update[<<base, me>>] \in Within(base, Below(me.address))}

LEMMA WithinCalls ==
  ASSUME NEW base, NEW D, NEW a, NEW update \in ListedUpdates,
         \A c \in MayInvite(a) : Below(c) \subseteq D
  PROVE  CallsStay(Within(base, D), a, update)
<1>1. ASSUME NEW x \in Within(base, D), NEW me \in ListedRecords, me.address \in MayInvite(a)
      PROVE  update[<<x, me>>] \in Within(base, D)
  <2>1. x \in ListedBases
    BY WithinFacts
  <2>2. update[<<x, me>>] \in Within(x, Below(me.address))
    BY <2>1 DEF ListedUpdates
  <2>3. Below(me.address) \subseteq D
    BY <1>1
  <2>4. QED
    BY <2>2, <2>3, WithinFacts
<1>2. QED
  BY <1>1 DEF CallsStay

LEMMA DeepestListed == ASSUME InviteConstants PROVE Deepest \in ListedUpdates
<1>1. ASSUME NEW base \in ListedBases, NEW me \in ListedRecords
      PROVE  Deepest[<<base, me>>] \in Within(base, Below(me.address))
  <2>1. <<base, me>> \in Calls
    BY DEF Calls, ListedBases, ListedRecords
  <2>2. Deepest[<<base, me>>] = IF base.fatal # "" THEN base ELSE Die(base, "runaway recursion")
    BY <2>1 DEF Deepest
  <2>3. me.address \in AccountIds /\ me.address \in Below(me.address)
    BY ListedRecordIs, BelowFacts
  <2>4. Die(base, "runaway recursion") \in Within(base, {me.address})
    BY <2>3, FieldsWritten DEF Deaths
  <2>5. base \in Within(base, Below(me.address))
    BY WithinFacts
  <2>6. Within(base, {me.address}) \subseteq Within(base, Below(me.address))
    BY <2>3, <2>5, WithinFacts
  <2>7. QED
    BY <2>2, <2>4, <2>5, <2>6
<1>2. QED
  BY <1>1, DepthTypes DEF ListedUpdates

LEMMA DeeperListed ==
  ASSUME InviteConstants, NEW update \in ListedUpdates
  PROVE  Deeper(update) \in ListedUpdates
<1>1. ASSUME NEW base \in ListedBases, NEW me \in ListedRecords
      PROVE  Deeper(update)[<<base, me>>] \in Within(base, Below(me.address))
  <2>1. <<base, me>> \in Calls
    BY DEF Calls, ListedBases, ListedRecords
  <2>2. Deeper(update)[<<base, me>>] = UpdateStatus(base, me, update)
    BY <2>1 DEF Deeper
  <2> DEFINE P == Within(base, Below(me.address))
  <2>3. me.address \in AccountIds /\ me.address \in Below(me.address)
        /\ \A c \in MayInvite(me.address) : Below(c) \subseteq Below(me.address)
    BY ListedRecordIs, BelowFacts
  <2>4. base \in P /\ P \subseteq ListedBases
    BY WithinFacts
  <2>5. WritesStay(P, me.address)
    BY <2>3, WithinWrites
  <2>6. CallsStay(P, me.address, update)
    BY <2>3, WithinCalls
  <2> HIDE DEF P
  <2>7. UpdateStatus(base, me, update) \in P
    BY <2>4, <2>5, <2>6, UpdateStatusListed
  <2>8. QED
    BY <2>2, <2>7 DEF P
<1>2. Deeper(update) \in Updates
  BY DepthTypes DEF ListedUpdates
<1>3. QED
  BY <1>1, <1>2 DEF ListedUpdates

LEMMA RecursionListed ==
  ASSUME InviteConstants, NEW n \in Nat
  PROVE  RecurseUpdateStatus[n] \in ListedUpdates
<1> DEFINE S == {m \in Nat : RecurseUpdateStatus[m] \in ListedUpdates}
<1>1. 0 \in S
  BY DeepestListed, RecursionExists
<1>2. ASSUME NEW m \in 1..n, m - 1 \in S PROVE m \in S
  <2>1. m - 1 \in Nat /\ (m - 1) + 1 = m /\ m \in Nat
    BY <1>2
  <2>2. RecurseUpdateStatus[m - 1] \in ListedUpdates
    BY <1>2
  <2>3. RecurseUpdateStatus[(m - 1) + 1] = Deeper(RecurseUpdateStatus[m - 1])
    BY <2>1, RecursionExists
  <2>4. QED
    BY <2>1, <2>2, <2>3, DeeperListed
<1> HIDE DEF S
<1>3. n \in S
  BY <1>1, <1>2, Ascends
<1>4. QED
  BY <1>3 DEF S

-----------------------------------------------------------------------------
(***************************************************************************)
(* Invite tree: the lists of a bundle, and the saves.                      *)
(***************************************************************************)
LEMMA BundleListed ==
  ASSUME NEW a, NEW invites \in InviteLists(a)
  PROVE  ListOf(a, invites)
<1> DEFINE I == {[account |-> b, timestamp |-> t, gap |-> g, active |-> FALSE] :
                    b \in CanInvite[a] \ {a}, t \in Timestamps, g \in LvlGaps}
<1>1. \A i \in I : i.account \in MayInvite(a)
  BY DEF MayInvite
<1>2. /\ invites \in BoundedSeq(I, MaxInvites)
      /\ \A j, k \in DOMAIN invites : invites[j].account = invites[k].account => j = k
  BY DEF InviteLists
<1> HIDE DEF I
<1>3. PICK m \in 0..MaxInvites : invites \in [1..m -> I]
  BY <1>2 DEF BoundedSeq, SeqOf
<1>4. \A k \in DOMAIN invites : invites[k] \in I
  BY <1>3
<1>5. QED
  BY <1>1, <1>2, <1>4 DEF ListOf

\* The accounts that a save drops were on its account's list.
LEMMA DroppedMayInvite ==
  ASSUME NEW me \in ListedRecords, NEW invites
  PROVE  DroppedInvites(me, invites) \subseteq MayInvite(me.address)
<1>1. me.invited \in Seq(InviteType) /\ DOMAIN me.invited = 1..Len(me.invited)
  BY ListedRecordIs
<1>2. \A v \in ToSet(me.invited) : v.account \in MayInvite(me.address)
  BY <1>1, ListedRecordIs DEF ToSet
<1>3. QED
  BY <1>2 DEF DroppedInvites

LEMMA DroppedListed ==
  ASSUME InviteConstants, NEW me \in ListedRecords, NEW invites,
         NEW order \in SetToSeqs(DroppedInvites(me, invites))
  PROVE  /\ order \in Seq(MayInvite(me.address))
         /\ \A k \in 1..Len(order) : order[k] \in DroppedInvites(me, invites)
         /\ \A j, k \in 1..Len(order) : order[j] = order[k] => j = k
<1> DEFINE S == DroppedInvites(me, invites)
<1>2. S \subseteq MayInvite(me.address)
  BY DroppedMayInvite
<1>3. IsFiniteSet(S)
  <2>1. S \subseteq AccountIds
    BY <1>2, ListedRecordIs, BelowFacts
  <2>2. QED
    BY <2>1, FS_Subset DEF InviteConstants, TreeAssumption
<1> HIDE DEF S
<1>4. Cardinality(S) \in Nat
  BY <1>3, FS_CardinalityType
<1>5. /\ order \in [1..Cardinality(S) -> S]
      /\ \A j, k \in 1..Cardinality(S) : order[j] = order[k] => j = k
  BY DEF SetToSeqs, S
<1>6. Len(order) = Cardinality(S)
  BY <1>4, <1>5
<1>7. order \in Seq(MayInvite(me.address))
  <2>1. order \in [1..Cardinality(S) -> MayInvite(me.address)]
    BY <1>2, <1>5
  <2>2. QED
    BY <1>4, <2>1
<1>8. QED
  BY <1>5, <1>6, <1>7 DEF S

\* What a save of a bundle does, as the lemmas above take it.
LEMMA SaveIsOfLists ==
  ASSUME InviteConstants, NEW a \in AccountIds, NEW timestamp, db \in ListedBases,
         BundleSave(a, timestamp)
  PROVE  \E invites \in Seq(InviteType), count \in 0..MaxNames, order \in Seq(MayInvite(a)) :
           /\ ListOf(a, invites)
           /\ order \in SetToSeqs(DroppedInvites(db.accounts[a], invites))
           /\ \E result \in AfterFolding(SaveChanged(db, a, timestamp, invites, count, order)) :
                Finish(result)
<1>1. PICK invites \in InviteLists(a) :
        \E count \in (IF a \in NameOwners THEN 0..MaxNames ELSE {0}) :
        \E order \in SetToSeqs(DroppedInvites(db.accounts[a], invites)) :
        \E result \in AfterFolding(SaveChanged(db, a, timestamp, invites, count, order)) :
          Finish(result)
  BY DEF BundleSave
<1>2. PICK count \in (IF a \in NameOwners THEN 0..MaxNames ELSE {0}),
           order \in SetToSeqs(DroppedInvites(db.accounts[a], invites)) :
        \E result \in AfterFolding(SaveChanged(db, a, timestamp, invites, count, order)) :
          Finish(result)
  BY <1>1
<1>3. invites \in Seq(InviteType) /\ count \in 0..MaxNames /\ ListOf(a, invites)
  BY ListsOfBundle, BundleListed, HalfOfNames
<1>4. db.accounts[a] \in ListedRecords /\ db.accounts[a].address = a
  BY DEF ListedBases
<1>5. order \in Seq(MayInvite(a))
  BY <1>4, DroppedListed
<1>6. QED
  BY <1>2, <1>3, <1>5

\* What the merklehead does besides keeps the lists.
LEMMA FoldedIsListed ==
  ASSUME NEW x \in ListedBases, NEW y, Folded(x, y)
  PROVE  y \in ListedBases
  BY DEF Folded, ListedBases

\* The databases that differ from base in what is not of the accounts D at most by leaves
\* that a merklehead of several documents lost.
Reached(base, D) ==
  {x \in ListedBases : \A b \in AccountIds \ D :
     /\ x.accounts[b] = base.accounts[b]
     /\ x.log[b] = base.log[b]
     /\ x.merkle[b] \in {base.merkle[b]} \cup (IF OneDocument THEN {} ELSE {0})
     /\ x.names[b] = base.names[b]}

LEMMA FoldedIsReached ==
  ASSUME NEW base, NEW D, NEW x \in Within(base, D), NEW y, Folded(x, y), OneDocument => y = x
  PROVE  y \in Reached(base, D)
<1>1. x \in ListedBases /\ \A b \in AccountIds \ D : SameAt(base, x, b)
  BY DEF Within
<1>2. y \in ListedBases
  BY <1>1, FoldedIsListed
<1>3. ASSUME NEW b \in AccountIds \ D
      PROVE  y.merkle[b] \in {base.merkle[b]} \cup (IF OneDocument THEN {} ELSE {0})
  BY <1>1 DEF SameAt, Folded
<1>4. ASSUME NEW b \in AccountIds \ D
      PROVE  y.accounts[b] = base.accounts[b] /\ y.log[b] = base.log[b] /\ y.names[b] = base.names[b]
  BY <1>1 DEF SameAt, Folded
<1>5. QED
  BY <1>2, <1>3, <1>4 DEF Reached

\* Every account that a record lists it may invite, and a step changes only what is
\* below the account of its bundle.
LEMMA SaveReachesDown ==
  ASSUME InviteConstants, db \in ListedBases, NEW a \in AccountIds, NEW timestamp \in Timestamps,
         BundleSave(a, timestamp) \/ BundleSaveUnchanged(a, timestamp)
  PROVE  db' \in Reached(db, Below(a))
<1> DEFINE P == Within(db, Below(a))
<1>1. db \in P /\ P \subseteq ListedBases
  BY WithinFacts
<1>2. a \in Below(a) /\ \A c \in MayInvite(a) : Below(c) \subseteq Below(a)
  BY BelowFacts
<1>3. WritesStay(P, a)
  BY <1>2, WithinWrites
<1>4. CallsStay(P, a, RecurseUpdateStatus[MaxDepth])
  BY <1>2, RecursionListed, WithinCalls DEF InviteConstants, TreeAssumption
<1>5. timestamp \in 0..LastTs
  BY GapsAreNumbers DEF Timestamps
<1>6. ASSUME NEW saved \in P, NEW result \in AfterAdding(saved) \cup AfterFolding(saved), Finish(result)
      PROVE  db' \in Reached(db, Below(a))
  <2>1. saved \in Databases
    BY <1>1 DEF ListedBases
  <2>2. Folded(saved, result) /\ (OneDocument => result = saved)
    BY <1>6, <2>1, OutcomesOfSave
  <2>3. result \in Reached(db, Below(a))
    BY <2>2, FoldedIsReached
  <2>4. db \in Reached(db, Below(a))
    BY DEF Reached
  <2>5. QED
    BY <1>6, <2>3, <2>4 DEF Finish
<1> HIDE DEF P
<1>7. CASE BundleSave(a, timestamp)
  <2>1. PICK invites \in Seq(InviteType), count \in 0..MaxNames, order \in Seq(MayInvite(a)) :
          /\ ListOf(a, invites)
          /\ \E result \in AfterFolding(SaveChanged(db, a, timestamp, invites, count, order)) :
               Finish(result)
    BY <1>7, SaveIsOfLists
  <2>2. SaveChanged(db, a, timestamp, invites, count, order) \in P
    BY <1>1, <1>3, <1>4, <2>1, SaveChangedListed
  <2>3. QED
    BY <1>6, <2>1, <2>2
<1>8. CASE BundleSaveUnchanged(a, timestamp)
  <2>1. \E result \in AfterAdding(SaveUnchanged(db, a, timestamp)) : Finish(result)
    BY <1>8 DEF BundleSaveUnchanged
  <2>2. SaveUnchanged(db, a, timestamp) \in P
    BY <1>1, <1>3, <1>5 DEF SaveUnchanged, WritesStay
  <2>3. QED
    BY <1>6, <2>1, <2>2
<1>9. QED
  BY <1>7, <1>8

LEMMA ListedInit == ASSUME InviteConstants, TreeInit PROVE db \in ListedBases
<1>1. TreeInv
  BY TreeInitInv
<1>2. db \in Databases /\ \A a \in AccountIds : db.accounts[a].address = a
  BY <1>1 DEF TreeInv, SoundBases, SoundAt
<1>3. ASSUME NEW a \in AccountIds PROVE db.accounts[a] \in ListedRecords
  <2>1. db.accounts[a].invited = <<>>
    BY DEF TreeInit, NewAccount
  <2>2. db.accounts[a] \in AccountRecords
    BY <1>2 DEF Databases
  <2>3. QED
    BY <2>1, <2>2 DEF ListedRecords, ListOf
<1>4. QED
  BY <1>2, <1>3 DEF ListedBases

LEMMA ListedStep ==
  ASSUME InviteConstants, db \in ListedBases, [TreeNext]_treeVars
  PROVE  db' \in ListedBases
<1>1. ASSUME NEW a \in AccountIds, NEW timestamp \in Timestamps,
             BundleSave(a, timestamp) \/ BundleSaveUnchanged(a, timestamp)
      PROVE  db' \in ListedBases
  BY <1>1, SaveReachesDown DEF Reached
<1>2. CASE RestartProcess
  BY <1>2 DEF RestartProcess
<1>3. CASE UNCHANGED treeVars
  BY <1>3 DEF treeVars
<1>4. QED
  BY <1>1, <1>2, <1>3 DEF TreeNext

\* The database lists only what accounts may invite: an invariant beside TreeInv.
Listed == db \in ListedBases

LEMMA ListedHolds == ASSUME InviteConstants PROVE TreeSpec => []Listed
<1>1. TreeInit => Listed
  BY ListedInit DEF Listed
<1>2. Listed /\ [TreeNext]_treeVars => Listed'
  <2> SUFFICES ASSUME Listed, [TreeNext]_treeVars PROVE Listed'
    OBVIOUS
  <2>1. db' \in ListedBases
    BY ListedStep DEF Listed
  <2>2. ListedBases' = ListedBases
    BY DEF ListedBases, Databases, ListedRecords, ListOf, MayInvite
  <2>3. QED
    BY <2>1, <2>2 DEF Listed
<1>3. QED
  BY <1>1, <1>2, PTL DEF TreeSpec

\* Whoever invites whom, a save changes records, log entries, leaves and names only
\* of accounts that the invites of its own account lead to; but for leaves that a
\* merklehead of several documents loses.
THEOREM TreeSavesReachDown == ASSUME TreeAssumption PROVE TreeSpec => SavesReachDown
<1> DEFINE Reach ==
      \A a \in AccountIds :
        (\E t \in Timestamps : BundleSave(a, t) \/ BundleSaveUnchanged(a, t)) =>
          \A b \in AccountIds \ Below(a) :
            /\ db'.accounts[b] = db.accounts[b]
            /\ db'.log[b] = db.log[b]
            /\ db'.merkle[b] \in {db.merkle[b]} \cup (IF OneDocument THEN {} ELSE {0})
            /\ db'.names[b] = db.names[b]
<1>1. Listed => Reach
  BY SaveReachesDown DEF Listed, InviteConstants, Reached
<1>2. TreeSpec => []Listed
  BY ListedHolds DEF InviteConstants
<1>3. Listed /\ [TreeNext]_treeVars => [Reach]_db
  BY <1>1
<1> HIDE DEF Reach
<1>4. TreeSpec => [][Reach]_db
  BY <1>2, <1>3, PTL DEF TreeSpec
<1>5. QED
  BY <1>4 DEF SavesReachDown, Reach

-----------------------------------------------------------------------------
(***************************************************************************)
(* Invite tree: without cycles the recursion ends.  A call makes calls only*)
(* for accounts with fewer accounts below them than its own, so a recursion*)
(* that may go as deep as there are accounts below its first never finds   *)
(* that no call is left.                                                   *)
(***************************************************************************)
Ending == {base \in ListedBases : base.fatal # "runaway recursion"}

LEMMA EndingWrites == ASSUME InviteConstants, NEW a \in AccountIds PROVE WritesStay(Ending, a)
<1>1. ASSUME NEW x \in Ending PROVE x \in ListedBases /\ x \in Databases /\ x.fatal # "runaway recursion"
  BY DEF Ending, ListedBases
<1>2. ASSUME NEW x \in ListedBases, NEW y \in Within(x, {a}), x.fatal # "runaway recursion",
             y.fatal = x.fatal \/ y.fatal # "runaway recursion"
      PROVE  y \in Ending
  BY <1>2 DEF Ending, Within
<1>3. ASSUME NEW x \in Ending
      PROVE  /\ LogContent(x, a) \in Ending /\ LogRemoval(x, a) \in Ending
             /\ MerkleRemove(x, a) \in Ending /\ NamesRemoveAll(x, a) \in Ending
             /\ \A t \in 0..LastTs : MerkleAdd(x, a, t) \in Ending
  <2>1. /\ LogContent(x, a).fatal = x.fatal /\ LogRemoval(x, a).fatal = x.fatal
        /\ MerkleRemove(x, a).fatal = x.fatal /\ NamesRemoveAll(x, a).fatal = x.fatal
        /\ \A t \in 0..LastTs : MerkleAdd(x, a, t).fatal = x.fatal
    BY <1>1 DEF LogContent, LogRemoval, MerkleRemove, NamesRemoveAll, MerkleAdd, Databases
  <2>2. QED
    BY <1>1, <1>2, <2>1, FieldsWritten
<1>4. ASSUME NEW x \in Ending, NEW reason \in Deaths \ {"runaway recursion"}
      PROVE  Die(x, reason) \in Ending
  <2>1. Die(x, reason).fatal = reason
    BY <1>1 DEF Die, Databases
  <2>2. QED
    BY <1>1, <1>2, <2>1, FieldsWritten
<1>5. ASSUME NEW x \in Ending, NEW me \in ListedRecords, me.address = a
      PROVE  /\ SaveToDb(x, me) \in Ending /\ SaveLast(x, me) \in Ending
             /\ \A count \in 0..MaxNames : NamesUpdate(x, me, count) \in Ending
  <2>1. /\ SaveToDb(x, me).fatal \in {x.fatal, "account requires active inviter to be set"}
        /\ \A count \in 0..MaxNames : NamesUpdate(x, me, count).fatal = x.fatal
    BY <1>1 DEF SaveToDb, NamesUpdate, Die, Databases
  <2>2. SaveLast(x, me).fatal \in {x.fatal, "account requires active inviter to be set"}
    BY <2>1 DEF SaveLast
  <2>3. QED
    BY <1>1, <1>2, <1>5, <2>1, <2>2, RecordWritten
<1>6. QED
  BY <1>3, <1>4, <1>5 DEF WritesStay

\* RecurseUpdateStatus with so many calls left that it ends for an account with at most
\* n accounts below it.
EndingUpdates(n) ==
  {update \in ListedUpdates :
     \A base \in Ending, me \in ListedRecords :
       Cardinality(Below(me.address)) <= n => update[<<base, me>>] \in Ending}

LEMMA EndingCalls ==
  ASSUME InviteConstants, NoCycles, NEW n \in Nat, NEW update \in EndingUpdates(n),
         NEW a \in AccountIds, Cardinality(Below(a)) <= n + 1
  PROVE  CallsStay(Ending, a, update)
<1>1. ASSUME NEW c \in MayInvite(a) PROVE Cardinality(Below(c)) <= n
  BY FewerBelow
<1>2. QED
  BY <1>1 DEF CallsStay, EndingUpdates

LEMMA DeeperEnds ==
  ASSUME InviteConstants, NoCycles, NEW n \in Nat, NEW update \in EndingUpdates(n)
  PROVE  Deeper(update) \in EndingUpdates(n + 1)
<1>1. ASSUME NEW base \in Ending, NEW me \in ListedRecords, Cardinality(Below(me.address)) <= n + 1
      PROVE  Deeper(update)[<<base, me>>] \in Ending
  <2>1. <<base, me>> \in Calls
    BY DEF Calls, Ending, ListedBases, ListedRecords
  <2>2. Deeper(update)[<<base, me>>] = UpdateStatus(base, me, update)
    BY <2>1 DEF Deeper
  <2>3. me.address \in AccountIds /\ Ending \in SUBSET ListedBases
    BY ListedRecordIs DEF Ending
  <2>4. CallsStay(Ending, me.address, update)
    BY <1>1, <2>3, EndingCalls
  <2>5. WritesStay(Ending, me.address)
    BY <2>3, EndingWrites
  <2>6. UpdateStatus(base, me, update) \in Ending
    BY <2>3, <2>4, <2>5, UpdateStatusListed
  <2>7. QED
    BY <2>2, <2>6
<1>2. Deeper(update) \in ListedUpdates
  BY DeeperListed DEF EndingUpdates
<1>3. QED
  BY <1>1, <1>2 DEF EndingUpdates

LEMMA RecursionWillEnd ==
  ASSUME InviteConstants, NoCycles, NEW n \in Nat
  PROVE  RecurseUpdateStatus[n] \in EndingUpdates(n)
<1> DEFINE S == {m \in Nat : RecurseUpdateStatus[m] \in EndingUpdates(m)}
<1>1. 0 \in S
  <2>1. ASSUME NEW me \in ListedRecords PROVE ~(Cardinality(Below(me.address)) <= 0)
    BY ListedRecordIs, SomeBelow
  <2>2. QED
    BY <2>1, DeepestListed, RecursionExists DEF EndingUpdates
<1>2. ASSUME NEW m \in 1..n, m - 1 \in S PROVE m \in S
  <2>1. m - 1 \in Nat /\ (m - 1) + 1 = m /\ m \in Nat
    BY <1>2
  <2>2. RecurseUpdateStatus[m - 1] \in EndingUpdates(m - 1)
    BY <1>2
  <2>3. RecurseUpdateStatus[(m - 1) + 1] = Deeper(RecurseUpdateStatus[m - 1])
    BY <2>1, RecursionExists
  <2>4. Deeper(RecurseUpdateStatus[m - 1]) \in EndingUpdates((m - 1) + 1)
    BY <2>1, <2>2, DeeperEnds
  <2>5. QED
    BY <2>1, <2>3, <2>4
<1> HIDE DEF S
<1>3. n \in S
  BY <1>1, <1>2, Ascends
<1>4. QED
  BY <1>3 DEF S

LEMMA EndsStep ==
  ASSUME InviteConstants, NoCycles, DepthSuffices,
         db \in Ending, RecursionEnds, [TreeNext]_treeVars
  PROVE  db' \in Ending /\ RecursionEnds'
<1>1. ASSUME NEW saved \in Ending, NEW result \in AfterAdding(saved) \cup AfterFolding(saved),
             Finish(result)
      PROVE  db' \in Ending /\ RecursionEnds'
  <2>1. saved \in ListedBases /\ saved \in Databases /\ saved.fatal # "runaway recursion"
    BY DEF Ending, ListedBases
  <2>2. Folded(saved, result)
    BY <1>1, <2>1, OutcomesOfSave
  <2>3. result \in ListedBases
    BY <2>1, <2>2, FoldedIsListed
  <2>4. result.fatal # "runaway recursion"
    BY <2>1, <2>2 DEF Folded
  <2>5. QED
    BY <1>1, <2>3, <2>4 DEF Finish, Ending, RecursionEnds
<1>0. MaxDepth \in Nat
  BY DEF InviteConstants, TreeAssumption
<1>2. Ending \in SUBSET ListedBases
  BY DEF Ending
<1>3. ASSUME NEW a \in AccountIds, NEW timestamp \in Timestamps, BundleSave(a, timestamp)
      PROVE  db' \in Ending /\ RecursionEnds'
  <2>1. PICK invites \in Seq(InviteType), count \in 0..MaxNames, order \in Seq(MayInvite(a)) :
          /\ ListOf(a, invites)
          /\ \E result \in AfterFolding(SaveChanged(db, a, timestamp, invites, count, order)) :
               Finish(result)
    BY <1>2, <1>3, SaveIsOfLists
  <2>2. CallsStay(Ending, a, RecurseUpdateStatus[MaxDepth])
    <3>1. Cardinality(Below(a)) <= MaxDepth + 1
      <4>1. Cardinality(Below(a)) <= MaxDepth /\ Cardinality(Below(a)) \in Nat
        BY SomeBelow DEF DepthSuffices
      <4>2. QED
        BY <1>0, <4>1
    <3>2. QED
      BY <1>0, <3>1, RecursionWillEnd, EndingCalls
  <2>3. WritesStay(Ending, a)
    BY EndingWrites
  <2>4. SaveChanged(db, a, timestamp, invites, count, order) \in Ending
    BY <1>2, <2>1, <2>2, <2>3, SaveChangedListed
  <2>5. QED
    BY <1>1, <2>1, <2>4
<1>4. ASSUME NEW a \in AccountIds, NEW timestamp \in Timestamps, BundleSaveUnchanged(a, timestamp)
      PROVE  db' \in Ending /\ RecursionEnds'
  <2>1. \E result \in AfterAdding(SaveUnchanged(db, a, timestamp)) : Finish(result)
    BY <1>4 DEF BundleSaveUnchanged
  <2>0. LastTs \in Nat
    BY GapsAreNumbers
  <2>2. timestamp \in 0..LastTs
    BY <2>0 DEF Timestamps
  <2>3. SaveUnchanged(db, a, timestamp) \in Ending
    BY <2>2, EndingWrites DEF SaveUnchanged, WritesStay
  <2>4. QED
    BY <1>1, <2>1, <2>3
<1>5. CASE RestartProcess
  BY <1>5 DEF RestartProcess, RecursionEnds
<1>6. CASE UNCHANGED treeVars
  BY <1>6 DEF treeVars, RecursionEnds
<1>7. QED
  BY <1>3, <1>4, <1>5, <1>6 DEF TreeNext

\* Where nobody invites, however indirectly, who invited him, the recursion of every
\* save ends: no bound that leaves a call for each account below one stops it.
THEOREM TreeRecursionEnds ==
  ASSUME TreeAssumption, NoCycles, DepthSuffices
  PROVE  TreeSpec => []RecursionEnds
<1> DEFINE Ends == db \in Ending /\ RecursionEnds
<1>0. InviteConstants
  BY DEF InviteConstants
<1>1. TreeInit => Ends
  <2> SUFFICES ASSUME TreeInit PROVE Ends
    OBVIOUS
  <2>1. db.fatal = "" /\ process = "running"
    BY DEF TreeInit
  <2>2. QED
    BY <1>0, <2>1, ListedInit DEF Ending, RecursionEnds
<1>2. Ends /\ [TreeNext]_treeVars => Ends'
  <2> SUFFICES ASSUME Ends, [TreeNext]_treeVars PROVE Ends'
    OBVIOUS
  <2>1. db' \in Ending /\ RecursionEnds'
    BY <1>0, EndsStep
  <2>2. Ending' = Ending
    BY DEF Ending, ListedBases, Databases, ListedRecords, ListOf, MayInvite
  <2>3. QED
    BY <2>1, <2>2
<1>3. QED
  BY <1>1, <1>2, PTL DEF TreeSpec

-----------------------------------------------------------------------------
(***************************************************************************)
(* Invite tree: without cycles and shortcuts log, merklehead and records   *)
(* agree.                                                                  *)
(***************************************************************************)
\* The log and the merklehead have of an account what its record me says.
Agrees(base, me) ==
  /\ base.log[me.address] = "content" <=> me.enabled /\ me.content
  /\ base.merkle[me.address] # 0 <=> me.enabled /\ me.content
  /\ me.content => me.timestamp # 0

TrackedAt(base, a) == Agrees(base, base.accounts[a])

\* The databases that differ from base only in the accounts D, and are tracked there;
\* or were not written to the end.
Tracking(base, D) ==
  {x \in Within(base, D) : x.fatal = "" => base.fatal = "" /\ \A b \in D : TrackedAt(x, b)}

\* The databases that wait only for the record me of an account to be written, after the
\* accounts below it.
Pending(base, me) ==
  {x \in Within(base, Below(me.address)) :
     x.fatal = "" =>
       Agrees(x, me) /\ \A b \in Below(me.address) \ {me.address} : TrackedAt(x, b)}

\* RecurseUpdateStatus to some depth, on a database that is tracked below the account it
\* is called for, with a record of the account that the log and the merklehead agree with.
TrackingUpdates ==
  {update \in ListedUpdates :
     \A base \in ListedBases, me \in ListedRecords :
       /\ base \in Tracking(base, Below(me.address))
       /\ base.fatal = "" => Agrees(base, me)
       => update[<<base, me>>] \in Tracking(base, Below(me.address))}

LEMMA TrackedLike ==
  ASSUME NEW x \in ListedBases, NEW y \in ListedBases, NEW b \in AccountIds, SameAt(x, y, b)
  PROVE  TrackedAt(x, b) <=> TrackedAt(y, b)
<1>1. x.accounts[b].address = b /\ y.accounts[b] = x.accounts[b]
      /\ y.log[b] = x.log[b] /\ y.merkle[b] = x.merkle[b]
  BY DEF SameAt, ListedBases
<1>2. QED
  BY <1>1 DEF TrackedAt, Agrees

LEMMA TrackingFacts ==
  ASSUME NEW base, NEW D \in SUBSET AccountIds, NEW x \in Tracking(base, D), NEW E \in SUBSET D
  PROVE  /\ x \in Within(base, D) /\ x \in ListedBases
         /\ x \in Tracking(x, E)
         /\ Tracking(x, E) \subseteq Tracking(base, D)
<1>1. x \in Within(base, D) /\ x \in ListedBases
  BY DEF Tracking, Within
<1>2. x \in Tracking(x, E)
  BY <1>1, WithinFacts DEF Tracking
<1>3. ASSUME NEW y \in Tracking(x, E) PROVE y \in Tracking(base, D)
  <2>1. y \in Within(x, E) /\ y \in Within(base, D) /\ y \in ListedBases
    BY <1>1, WithinFacts DEF Tracking
  <2>2. ASSUME y.fatal = "" PROVE base.fatal = "" /\ \A b \in D : TrackedAt(y, b)
    <3>1. x.fatal = "" /\ \A b \in E : TrackedAt(y, b)
      BY <2>2 DEF Tracking
    <3>2. base.fatal = "" /\ \A b \in D : TrackedAt(x, b)
      BY <3>1 DEF Tracking
    <3>3. \A b \in D \ E : TrackedAt(y, b)
      <4>1. \A b \in D \ E : SameAt(x, y, b)
        BY <2>1 DEF Within
      <4>2. QED
        BY <1>1, <2>1, <3>2, <4>1, TrackedLike
    <3>4. QED
      BY <3>1, <3>2, <3>3
  <2>3. QED
    BY <2>1, <2>2 DEF Tracking
<1>4. QED
  BY <1>1, <1>2, <1>3

\* The process may die at any time.
LEMMA DeadTracks ==
  ASSUME InviteConstants, NEW base, NEW D \in SUBSET AccountIds, NEW x \in Tracking(base, D),
         D # {}, NEW reason \in Deaths
  PROVE  Die(x, reason) \in Tracking(base, D)
<1>1. PICK a \in D : TRUE
  OBVIOUS
<1>2. x \in ListedBases /\ x \in Within(base, D)
  BY TrackingFacts
<1>3. Die(x, reason) \in Within(base, D)
  <2>1. Die(x, reason) \in Within(x, {a})
    BY <1>2, FieldsWritten
  <2>2. {a} \in SUBSET D
    OBVIOUS
  <2>3. QED
    BY <1>2, <2>1, <2>2, WithinFacts
<1>4. Die(x, reason).fatal = reason /\ reason # ""
  BY <1>2 DEF Die, ListedBases, Databases, Deaths
<1>5. QED
  BY <1>3, <1>4 DEF Tracking

LEMMA TrackingCall ==
  ASSUME NEW base, NEW D \in SUBSET AccountIds, NEW x \in Tracking(base, D),
         NEW me \in ListedRecords, Below(me.address) \subseteq D,
         x.fatal = "" => Agrees(x, me), NEW update \in TrackingUpdates
  PROVE  update[<<x, me>>] \in Tracking(base, D)
<1>1. x \in ListedBases /\ x \in Tracking(x, Below(me.address))
      /\ Tracking(x, Below(me.address)) \subseteq Tracking(base, D)
  <2> DEFINE E == Below(me.address)
  <2>1. E \in SUBSET D
    OBVIOUS
  <2> HIDE DEF E
  <2>2. x \in ListedBases /\ x \in Tracking(x, E) /\ Tracking(x, E) \subseteq Tracking(base, D)
    BY <2>1, TrackingFacts
  <2>3. QED
    BY <2>2 DEF E
<1>2. update[<<x, me>>] \in Tracking(x, Below(me.address))
  BY <1>1 DEF TrackingUpdates
<1>3. QED
  BY <1>1, <1>2

\* A copy of a tracked account agrees with the log whatever becomes of its inviters.
LEMMA CopyAgrees ==
  ASSUME NEW x, NEW me, NEW r, Agrees(x, me), r.address = me.address, r.enabled = me.enabled,
         r.content = me.content, r.timestamp = me.timestamp
  PROVE  Agrees(x, r)
  BY DEF Agrees

\* The loops.
LEMMA CheckAllTracks ==
  ASSUME InviteConstants, NEW read, NEW D \in SUBSET AccountIds, NEW base \in Tracking(read, D),
         NEW me \in ListedRecords, NEW update \in TrackingUpdates,
         \A c \in MayInvite(me.address) : Below(c) \subseteq D
  PROVE  CheckAllInvited(base, me, update) \in Tracking(read, D)
<1>1. ASSUME NEW invite \in InviteType, invite.account \in MayInvite(me.address),
             NEW x \in Tracking(read, D)
      PROVE  CheckInvited(x, me, invite, update) \in Tracking(read, D)
  <2> DEFINE child == FetchAny(x, invite.account)
             again == AddInviter(child, InviterFor(me, invite))
  <2>0. invite.account \in AccountIds /\ me \in AccountRecords /\ x \in ListedBases
        /\ Below(invite.account) \subseteq D /\ invite.account \in Below(invite.account)
    BY <1>1, TrackingFacts, BelowFacts DEF InviteType, ListedRecords
  <2>1. child \in ListedRecords /\ child.address = invite.account
    BY <2>0, FetchListed
  <2>2. x.fatal = "" => Agrees(x, child)
    BY <2>0 DEF Tracking, TrackedAt, FetchAny
  <2>3. CheckInvited(x, me, invite, update) =
          IF x.fatal # "" THEN x
          ELSE IF invite.active
          THEN IF Found(x, invite.account) THEN update[<<x, child>>]
               ELSE Die(x, "missing account")
          ELSE IF me.active.timestamp < invite.timestamp THEN update[<<x, again>>]
          ELSE x
    BY DEF CheckInvited
  <2> HIDE DEF child
  <2>4. again \in ListedRecords /\ again.address = child.address /\ again.enabled = child.enabled
        /\ again.content = child.content /\ again.timestamp = child.timestamp
    BY <2>0, <2>1, InviterForType, AddListed
  <2> HIDE DEF again
  <2>5. x.fatal = "" => Agrees(x, again)
    BY <2>2, <2>4, CopyAgrees
  <2>6. update[<<x, child>>] \in Tracking(read, D) /\ update[<<x, again>>] \in Tracking(read, D)
    BY <2>0, <2>1, <2>2, <2>4, <2>5, TrackingCall
  <2>7. Die(x, "missing account") \in Tracking(read, D)
    <3>1. D # {}
      BY <2>0
    <3>2. QED
      BY <3>1, DeadTracks DEF Deaths
  <2>8. QED
    BY <2>3, <2>6, <2>7
<1>2. \A k \in 1..Len(me.invited) : \A x \in Tracking(read, D) :
        CheckInvited(x, me, me.invited[k], update) \in Tracking(read, D)
  BY <1>1, ListedRecordIs
<1>3. Len(me.invited) \in Nat
  BY ListedRecordIs
<1>4. QED
  BY <1>2, <1>3, CheckAllStays

LEMMA DisableChildrenTrack ==
  ASSUME InviteConstants, NEW read, NEW D \in SUBSET AccountIds, NEW base \in Tracking(read, D),
         NEW me \in ListedRecords, NEW update \in TrackingUpdates,
         \A c \in MayInvite(me.address) : Below(c) \subseteq D
  PROVE  DisableChildren(base, me, update) \in Tracking(read, D)
<1>1. ASSUME NEW invite \in InviteType, invite.account \in MayInvite(me.address),
             NEW x \in Tracking(read, D)
      PROVE  DisableChild(x, me, invite, update) \in Tracking(read, D)
  <2> DEFINE child == FetchAny(x, invite.account)
             again == RemoveInviter(child, me.address)
  <2>0. invite.account \in AccountIds /\ x \in ListedBases
        /\ Below(invite.account) \subseteq D /\ invite.account \in Below(invite.account)
    BY <1>1, TrackingFacts, BelowFacts DEF InviteType
  <2>1. child \in ListedRecords /\ child.address = invite.account
    BY <2>0, FetchListed
  <2>2. x.fatal = "" => Agrees(x, child)
    BY <2>0 DEF Tracking, TrackedAt, FetchAny
  <2>3. DisableChild(x, me, invite, update) =
          IF x.fatal # "" THEN x
          ELSE IF Found(x, invite.account) THEN update[<<x, again>>]
          ELSE Die(x, "DisableAccount() - missing account")
    BY DEF DisableChild
  <2> HIDE DEF child
  <2>4. again \in ListedRecords /\ again.address = child.address /\ again.enabled = child.enabled
        /\ again.content = child.content /\ again.timestamp = child.timestamp
    BY <2>1, RemoveListed
  <2> HIDE DEF again
  <2>5. x.fatal = "" => Agrees(x, again)
    BY <2>2, <2>4, CopyAgrees
  <2>6. update[<<x, again>>] \in Tracking(read, D)
    BY <2>0, <2>1, <2>4, <2>5, TrackingCall
  <2>7. Die(x, "DisableAccount() - missing account") \in Tracking(read, D)
    <3>1. D # {}
      BY <2>0
    <3>2. QED
      BY <3>1, DeadTracks DEF Deaths
  <2>8. QED
    BY <2>3, <2>6, <2>7
<1>2. \A k \in 1..Len(me.invited) : \A x \in Tracking(read, D) :
        DisableChild(x, me, me.invited[k], update) \in Tracking(read, D)
  BY <1>1, ListedRecordIs
<1>3. Len(me.invited) \in Nat
  BY ListedRecordIs
<1>4. QED
  BY <1>2, <1>3, DisableChildrenStay

LEMMA TrackingIsListed ==
  ASSUME NEW update \in TrackingUpdates, NEW x \in ListedBases, NEW me \in ListedRecords
  PROVE  update[<<x, me>>] \in Within(x, Below(me.address)) /\ update[<<x, me>>] \in ListedBases
  BY WithinFacts DEF TrackingUpdates, ListedUpdates

\* One of the copies that were made before the first was updated: it is still what is
\* recorded, and its update reaches none of the others.
LEMMA CopyTracks ==
  ASSUME InviteConstants, NoShortcuts, NEW start, NEW D \in SUBSET AccountIds,
         NEW x \in Tracking(start, D), NEW read \in ListedBases, NEW a \in AccountIds,
         NEW c \in MayInvite(a), Below(c) \subseteq D, x.accounts[c] = read.accounts[c],
         NEW r \in ListedRecords, r.address = c, r.enabled = FetchAny(read, c).enabled,
         r.content = FetchAny(read, c).content, r.timestamp = FetchAny(read, c).timestamp,
         NEW update \in TrackingUpdates
  PROVE  /\ update[<<x, r>>] \in Tracking(start, D)
         /\ \A b \in MayInvite(a) \ {c} : update[<<x, r>>].accounts[b] = x.accounts[b]
<1>1. c \in AccountIds /\ c \in Below(c) /\ x \in ListedBases
  BY BelowFacts, TrackingFacts
<1>2. x.fatal = "" => Agrees(x, r)
  <2> SUFFICES ASSUME x.fatal = "" PROVE Agrees(x, r)
    OBVIOUS
  <2>1. Agrees(x, x.accounts[c])
    BY <1>1 DEF Tracking, TrackedAt
  <2>2. x.accounts[c].address = c /\ x.accounts[c] = FetchAny(read, c)
    BY <1>1 DEF ListedBases, FetchAny
  <2>3. QED
    BY <2>1, <2>2, CopyAgrees
<1>3. update[<<x, r>>] \in Tracking(start, D)
  BY <1>2, TrackingCall
<1>4. update[<<x, r>>] \in Within(x, Below(c))
  BY <1>1, TrackingIsListed
<1>5. ASSUME NEW b \in MayInvite(a) \ {c} PROVE update[<<x, r>>].accounts[b] = x.accounts[b]
  <2>1. b \in AccountIds /\ b \notin Below(c)
    BY BelowFacts DEF NoShortcuts
  <2>2. QED
    BY <1>4, <2>1 DEF Within, SameAt
<1>6. QED
  BY <1>3, <1>5

LEMMA ListedNewRuns ==
  ASSUME InviteConstants, NEW base \in ListedBases, NEW read \in ListedBases,
         NEW me \in AccountRecords, NEW invites \in Seq(InviteType), NEW update \in TrackingUpdates
  PROVE  \E f : /\ NewRun(f, read, base, me, invites, update)
               /\ UpdateNew(read, base, me, invites, update) = f[Len(invites)]
<1>1. ASSUME NEW invite \in InviteType
      PROVE  AddInviter(FetchAny(read, invite.account), InviterFor(me, invite)) \in ListedRecords
  <2>0. invite.account \in AccountIds
    BY DEF InviteType
  <2>1. QED
    BY <2>0, FetchListed, InviterForType, AddListed
<1>2. \A k \in 1..Len(invites) : \A x \in ListedBases :
        IsChanged(me, invites[k]) =>
          update[<<x, AddInviter(FetchAny(read, invites[k].account),
                                 InviterFor(me, invites[k]))>>] \in ListedBases
  BY <1>1, InviteOfList, TrackingIsListed
<1>3. Len(invites) \in Nat
  OBVIOUS
<1>4. QED
  BY <1>2, <1>3, UpdateNewRuns

LEMMA UpdateNewTracks ==
  ASSUME InviteConstants, NoShortcuts, NEW start, NEW D \in SUBSET AccountIds,
         NEW base \in Tracking(start, D), NEW read \in ListedBases, NEW me \in AccountRecords,
         NEW a \in AccountIds, NEW invites \in Seq(InviteType), ListOf(a, invites),
         \A c \in MayInvite(a) : Below(c) \subseteq D /\ base.accounts[c] = read.accounts[c],
         NEW update \in TrackingUpdates
  PROVE  UpdateNew(read, base, me, invites, update) \in Tracking(start, D)
<1> DEFINE n == Len(invites)
           c(k) == invites[k].account
           copy(k) == AddInviter(FetchAny(read, c(k)), InviterFor(me, invites[k]))
<1>1. n \in Nat /\ DOMAIN invites = 1..n
      /\ \A k \in 1..n : invites[k] \in InviteType /\ c(k) \in MayInvite(a) /\ c(k) \in AccountIds
  BY InviteOfList DEF ListOf
<1>2. \A j, k \in 1..n : j # k => c(j) # c(k)
  BY <1>1 DEF ListOf
<1>3. ASSUME NEW k \in 1..n
      PROVE  /\ copy(k) \in ListedRecords /\ copy(k).address = c(k)
             /\ copy(k).enabled = FetchAny(read, c(k)).enabled
             /\ copy(k).content = FetchAny(read, c(k)).content
             /\ copy(k).timestamp = FetchAny(read, c(k)).timestamp
  <2>1. FetchAny(read, c(k)) \in ListedRecords /\ FetchAny(read, c(k)).address = c(k)
    BY <1>1, FetchListed
  <2>2. InviterFor(me, invites[k]) \in InviterType
    BY <1>1, InviterForType
  <2>3. QED
    BY <2>1, <2>2, AddListed
<1>4. base \in ListedBases
  BY TrackingFacts
<1>5. PICK f : NewRun(f, read, base, me, invites, update)
               /\ UpdateNew(read, base, me, invites, update) = f[Len(invites)]
  BY <1>4, ListedNewRuns
<1>6. /\ f[0] = base
      /\ \A k \in 1..n : f[k] = IF ~IsChanged(me, invites[k]) THEN f[k - 1]
                                ELSE update[<<f[k - 1], copy(k)>>]
  BY <1>5 DEF NewRun
<1> HIDE DEF n, c, copy
<1> DEFINE Untouched(x, k) == \A j \in 1..n : j > k => x.accounts[c(j)] = read.accounts[c(j)]
           S == {k \in Nat : f[k] \in Tracking(start, D) /\ Untouched(f[k], k)}
<1>7. 0 \in S
  BY <1>1, <1>6
<1>8. ASSUME NEW m \in 1..n, m - 1 \in S PROVE m \in S
  <2> DEFINE x == f[m - 1]
  <2>1. x \in Tracking(start, D) /\ Untouched(x, m - 1) /\ m \in Nat /\ m - 1 < m
    BY <1>1, <1>8
  <2>2. CASE ~IsChanged(me, invites[m])
    <3>1. f[m] = x
      BY <1>6, <2>2
    <3>2. Untouched(x, m)
      BY <1>1, <2>1
    <3>3. QED
      BY <2>1, <3>1, <3>2
  <2>3. CASE IsChanged(me, invites[m])
    <3>1. f[m] = update[<<x, copy(m)>>]
      BY <1>6, <2>3
    <3>2. c(m) \in MayInvite(a) /\ x.accounts[c(m)] = read.accounts[c(m)]
      BY <1>1, <2>1
    <3> HIDE DEF x
    <3>3. /\ f[m] \in Tracking(start, D)
          /\ \A b \in MayInvite(a) \ {c(m)} : f[m].accounts[b] = x.accounts[b]
      BY <1>3, <2>1, <3>1, <3>2, CopyTracks
    <3>4. Untouched(f[m], m)
      <4> SUFFICES ASSUME NEW j \in 1..n, j > m PROVE f[m].accounts[c(j)] = read.accounts[c(j)]
        OBVIOUS
      <4>1. c(j) \in MayInvite(a) \ {c(m)}
        BY <1>1, <1>2
      <4>2. j > m - 1
        BY <1>1
      <4>3. x.accounts[c(j)] = read.accounts[c(j)]
        BY <2>1, <4>2
      <4>4. QED
        BY <3>3, <4>1, <4>3
    <3>5. QED
      BY <2>1, <3>3, <3>4
  <2>4. QED
    BY <2>2, <2>3
<1>9. n \in S
  <2> HIDE DEF S
  <2>1. QED
    BY <1>1, <1>7, <1>8, Ascends
<1>10. QED
  BY <1>5, <1>9 DEF n

LEMMA UpdateDroppedTracks ==
  ASSUME InviteConstants, NoShortcuts, NEW start, NEW D \in SUBSET AccountIds,
         NEW base \in Tracking(start, D), NEW read \in ListedBases, NEW me,
         NEW a \in AccountIds, NEW order \in Seq(MayInvite(a)),
         \A j, k \in 1..Len(order) : order[j] = order[k] => j = k,
         \A k \in 1..Len(order) : base.accounts[order[k]] = read.accounts[order[k]],
         \A c \in MayInvite(a) : Below(c) \subseteq D,
         NEW update \in TrackingUpdates
  PROVE  UpdateDropped(read, base, me, order, update) \in Tracking(start, D)
<1> DEFINE n == Len(order)
           copy(k) == RemoveInviter(FetchAny(read, order[k]), me.address)
<1>1. n \in Nat /\ \A k \in 1..n : order[k] \in MayInvite(a) /\ order[k] \in AccountIds
  BY BelowFacts
<1>3. ASSUME NEW k \in 1..n
      PROVE  /\ copy(k) \in ListedRecords /\ copy(k).address = order[k]
             /\ copy(k).enabled = FetchAny(read, order[k]).enabled
             /\ copy(k).content = FetchAny(read, order[k]).content
             /\ copy(k).timestamp = FetchAny(read, order[k]).timestamp
  BY <1>1, FetchListed, RemoveListed
<1>4. base \in ListedBases
  BY TrackingFacts
<1>5. PICK f : DroppedRun(f, read, base, me, order, update)
               /\ UpdateDropped(read, base, me, order, update) = f[Len(order)]
  <2>1. \A k \in 1..Len(order) : \A x \in ListedBases :
          update[<<x, RemoveInviter(FetchAny(read, order[k]), me.address)>>] \in ListedBases
    BY <1>3, TrackingIsListed
  <2>2. Len(order) \in Nat
    OBVIOUS
  <2>3. QED
    BY <1>4, <2>1, <2>2, UpdateDroppedRuns
<1>6. f[0] = base /\ \A k \in 1..n : f[k] = update[<<f[k - 1], copy(k)>>]
  BY <1>5 DEF DroppedRun
<1> DEFINE Untouched(x, k) == \A j \in 1..n : j > k => x.accounts[order[j]] = read.accounts[order[j]]
           S == {k \in Nat : f[k] \in Tracking(start, D) /\ Untouched(f[k], k)}
<1>7. 0 \in S
  BY <1>1, <1>6
<1> HIDE DEF n, copy
<1>8. ASSUME NEW m \in 1..n, m - 1 \in S PROVE m \in S
  <2> DEFINE x == f[m - 1]
  <2>1. x \in Tracking(start, D) /\ Untouched(x, m - 1) /\ m \in Nat /\ m - 1 < m
    BY <1>1, <1>8
  <2>2. f[m] = update[<<x, copy(m)>>]
    BY <1>6
  <2>3. order[m] \in MayInvite(a) /\ x.accounts[order[m]] = read.accounts[order[m]]
    BY <1>1, <2>1
  <2> HIDE DEF x
  <2>4. /\ f[m] \in Tracking(start, D)
        /\ \A b \in MayInvite(a) \ {order[m]} : f[m].accounts[b] = x.accounts[b]
    BY <1>3, <2>1, <2>2, <2>3, CopyTracks
  <2>5. Untouched(f[m], m)
    <3> SUFFICES ASSUME NEW j \in 1..n, j > m PROVE f[m].accounts[order[j]] = read.accounts[order[j]]
      OBVIOUS
    <3>0. j # m
      BY <1>1
    <3>1. order[j] \in MayInvite(a) \ {order[m]}
      BY <1>1, <3>0 DEF n
    <3>2. j > m - 1
      BY <1>1
    <3>3. x.accounts[order[j]] = read.accounts[order[j]]
      BY <2>1, <3>2
    <3>4. QED
      BY <2>4, <3>1, <3>3
  <2>6. QED
    BY <2>1, <2>4, <2>5
<1>9. n \in S
  <2> HIDE DEF S
  <2>1. QED
    BY <1>1, <1>7, <1>8, Ascends
<1>10. QED
  BY <1>5, <1>9 DEF n

LEMMA WithinStep ==
  ASSUME NEW base, NEW D, NEW E, E \subseteq D, NEW x \in Within(base, D), NEW y \in Within(x, E)
  PROVE  y \in Within(base, D) /\ y \in ListedBases
  BY WithinFacts

\* The accounts below me, without me: a call for me makes calls only for those.
LEMMA StrictlyBelow ==
  ASSUME InviteConstants, NoCycles, NEW a \in AccountIds
  PROVE  /\ Below(a) \ {a} \in SUBSET AccountIds /\ a \in Below(a)
         /\ \A c \in MayInvite(a) : Below(c) \subseteq Below(a) \ {a}
  BY BelowFacts, FewerBelow

LEMMA PendingFacts ==
  ASSUME InviteConstants, NEW base, NEW me \in ListedRecords, NEW x \in Pending(base, me)
  PROVE  /\ x \in ListedBases /\ x \in Within(base, Below(me.address))
         /\ x \in Tracking(x, Below(me.address) \ {me.address})
         /\ Tracking(x, Below(me.address) \ {me.address}) \subseteq Pending(base, me)
<1> DEFINE a == me.address
           D == Below(a) \ {a}
<1>1. a \in AccountIds /\ a \in Below(a) /\ D \in SUBSET AccountIds /\ D \in SUBSET Below(a)
  BY ListedRecordIs, BelowFacts
<1>2. x \in ListedBases /\ x \in Within(base, Below(a))
  BY DEF Pending, Within
<1>3. x \in Tracking(x, D)
  BY <1>2, WithinFacts DEF Pending, Tracking
<1>4. ASSUME NEW y \in Tracking(x, D) PROVE y \in Pending(base, me)
  <2>1. y \in Within(x, D)
    BY DEF Tracking
  <2>2. y \in Within(base, Below(a))
    BY <1>1, <1>2, <2>1, WithinFacts
  <2>3. ASSUME y.fatal = "" PROVE Agrees(y, me) /\ \A b \in D : TrackedAt(y, b)
    <3>1. x.fatal = "" /\ \A b \in D : TrackedAt(y, b)
      BY <2>3 DEF Tracking
    <3>2. Agrees(x, me)
      BY <3>1 DEF Pending
    <3>3. SameAt(x, y, a)
      BY <1>1, <2>1 DEF Within
    <3>4. Agrees(y, me)
      BY <3>2, <3>3 DEF Agrees, SameAt
    <3>5. QED
      BY <3>1, <3>4
  <2>4. QED
    BY <2>2, <2>3 DEF Pending
<1>5. QED
  BY <1>2, <1>3, <1>4

\* The save of the account itself, after those below it.
LEMMA LastSaveTracks ==
  ASSUME InviteConstants, NEW base, base.fatal = "", NEW me \in ListedRecords,
         NEW x \in Pending(base, me)
  PROVE  SaveLast(x, me) \in Tracking(base, Below(me.address))
<1> DEFINE a == me.address
           y == SaveLast(x, me)
<1>1. a \in AccountIds /\ {a} \in SUBSET Below(a) /\ Below(a) \in SUBSET AccountIds
  BY ListedRecordIs, BelowFacts
<1>2. x \in ListedBases /\ x \in Within(base, Below(a)) /\ x \in Databases
  BY PendingFacts DEF ListedBases
<1>3. y \in Within(x, {a})
  BY <1>2, RecordWritten
<1>4. y \in Within(base, Below(a)) /\ y \in ListedBases
  BY <1>1, <1>2, <1>3, WithinFacts
<1>5. ASSUME y.fatal = "", NEW b \in Below(a) PROVE TrackedAt(y, b)
  <2>1. x.fatal = "" /\ y = [x EXCEPT !.accounts[a] = me]
    <3>1. Die(x, "account requires active inviter to be set").fatal # ""
      BY <1>2 DEF Die, Databases
    <3>2. QED
      BY <1>5, <3>1 DEF SaveLast, SaveToDb
  <2>2. Agrees(x, me) /\ \A d \in Below(a) \ {a} : TrackedAt(x, d)
    BY <2>1 DEF Pending
  <2>3. CASE b = a
    <3>1. y.accounts[a] = me /\ y.log = x.log /\ y.merkle = x.merkle
      BY <1>1, <1>2, <2>1 DEF Databases
    <3> HIDE DEF y
    <3>2. QED
      BY <2>2, <2>3, <3>1 DEF TrackedAt, Agrees
  <2>4. CASE b # a
    <3> HIDE DEF y
    <3>1. SameAt(x, y, b) /\ b \in AccountIds
      BY <1>1, <1>3, <2>4 DEF Within
    <3>2. QED
      BY <1>2, <1>4, <2>2, <2>4, <3>1, TrackedLike
  <2>5. QED
    BY <2>3, <2>4
<1> HIDE DEF y
<1>6. y \in Tracking(base, Below(a))
  BY <1>4, <1>5 DEF Tracking
<1>7. QED
  BY <1>6 DEF y

\* What is written of the account alone leaves the accounts below it tracked.
LEMMA OwnWrite ==
  ASSUME NEW base \in ListedBases, NEW a \in AccountIds, NEW x \in Within(base, {a}),
         \A b \in Below(a) \ {a} : TrackedAt(base, b), Below(a) \in SUBSET AccountIds
  PROVE  \A b \in Below(a) \ {a} : TrackedAt(x, b)
<1>1. x \in ListedBases
  BY WithinFacts
<1>2. ASSUME NEW b \in Below(a) \ {a} PROVE TrackedAt(x, b)
  <2>1. SameAt(base, x, b) /\ b \in AccountIds
    BY DEF Within
  <2>2. QED
    BY <1>1, <2>1, TrackedLike
<1>3. QED
  BY <1>2

LEMMA DisableTracks ==
  ASSUME InviteConstants, NoCycles, NEW base \in ListedBases, base.fatal = "",
         NEW me \in ListedRecords, Agrees(base, me),
         \A b \in Below(me.address) \ {me.address} : TrackedAt(base, b),
         NEW update \in TrackingUpdates
  PROVE  DisableAccount(base, me, update) \in Tracking(base, Below(me.address))
<1> DEFINE a == me.address
           D == Below(a) \ {a}
           cleared == LogRemoval(MerkleRemove(base, a), a)
           logged == IF me.content THEN cleared ELSE base
           below == DisableChildren(logged, Gone(me), update)
           unnamed == NamesRemoveAll(below, a)
<1>0. DisableAccount(base, me, update) = SaveLast(unnamed, Gone(me))
  BY DEF DisableAccount, Gone
<1>1. a \in AccountIds /\ D \in SUBSET AccountIds /\ a \in Below(a)
      /\ \A c \in MayInvite(a) : Below(c) \subseteq D
  BY ListedRecordIs, StrictlyBelow
<1>2. /\ Gone(me) \in ListedRecords /\ Gone(me).address = a /\ ~Gone(me).enabled
      /\ Gone(me).content = me.content /\ Gone(me).timestamp = me.timestamp
  BY GoneListed DEF Gone, ListedRecords, AccountRecords
<1>3. cleared \in Within(base, {a}) /\ base \in Within(base, {a})
  <2> DEFINE bare == MerkleRemove(base, a)
  <2>1. bare \in Within(base, {a}) /\ bare \in ListedBases
    BY <1>1, FieldsWritten, WithinFacts
  <2> HIDE DEF bare
  <2>2. LogRemoval(bare, a) \in Within(bare, {a})
    BY <1>1, <2>1, FieldsWritten
  <2>3. LogRemoval(bare, a) \in Within(base, {a})
    BY <2>1, <2>2, WithinStep
  <2>4. QED
    BY <2>3, WithinFacts DEF bare
<1>4. cleared.log[a] # "content" /\ cleared.merkle[a] = 0
  BY <1>1 DEF LogRemoval, MerkleRemove, ListedBases, Databases
<1>5. ~me.content => base.log[a] # "content" /\ base.merkle[a] = 0
  BY DEF Agrees
<1>6. logged \in Within(base, {a}) /\ logged.log[a] # "content" /\ logged.merkle[a] = 0
  BY <1>3, <1>4, <1>5
<1> HIDE DEF logged, cleared
<1>7. logged \in Pending(base, Gone(me))
  <2>1. Agrees(logged, Gone(me))
    BY <1>2, <1>6 DEF Agrees
  <2>2. \A b \in D : TrackedAt(logged, b)
    BY <1>1, <1>6, OwnWrite, BelowFacts
  <2>3. logged \in Within(base, Below(a))
    BY <1>1, <1>6, WithinFacts
  <2>4. QED
    BY <1>2, <2>1, <2>2, <2>3 DEF Pending
<1>8. below \in Pending(base, Gone(me))
  <2>1. logged \in Tracking(logged, D) /\ Tracking(logged, D) \subseteq Pending(base, Gone(me))
    BY <1>2, <1>7, PendingFacts
  <2>2. below \in Tracking(logged, D)
    BY <1>1, <1>2, <2>1, DisableChildrenTrack
  <2>3. QED
    BY <2>1, <2>2
<1> HIDE DEF below
<1>9. unnamed \in Pending(base, Gone(me))
  <2>1. below \in ListedBases /\ below \in Within(base, Below(a)) /\ below \in Databases
    BY <1>2, <1>8, PendingFacts DEF ListedBases
  <2>2. unnamed \in Within(below, {a})
    BY <1>1, <2>1, FieldsWritten
  <2>3. unnamed \in Within(base, Below(a))
    <3>1. {a} \subseteq Below(a)
      BY <1>1
    <3>2. QED
      BY <2>1, <2>2, <3>1, WithinStep
  <2>4. unnamed.fatal = below.fatal /\ unnamed.log = below.log
        /\ unnamed.merkle = below.merkle /\ unnamed.accounts = below.accounts
    BY <2>1 DEF NamesRemoveAll, Databases
  <2> HIDE DEF unnamed
  <2>5. ASSUME unnamed.fatal = ""
        PROVE  Agrees(unnamed, Gone(me)) /\ \A b \in D : TrackedAt(unnamed, b)
    <3>1. Agrees(below, Gone(me)) /\ \A b \in D : TrackedAt(below, b)
      BY <1>2, <1>8, <2>4, <2>5 DEF Pending
    <3>2. QED
      BY <2>4, <3>1 DEF Agrees, TrackedAt
  <2>6. QED
    BY <1>2, <2>3, <2>5 DEF Pending
<1> HIDE DEF unnamed
<1>10. SaveLast(unnamed, Gone(me)) \in Tracking(base, Below(a))
  BY <1>2, <1>9, LastSaveTracks
<1>11. QED
  BY <1>0, <1>10

LEMMA BareListed ==
  ASSUME NEW me \in ListedRecords
  PROVE  [me EXCEPT !.invited = <<>>] \in AccountRecords
<1>1. <<>> \in Seq(InviteType)
  OBVIOUS
<1>2. me \in AccountRecords
  BY DEF ListedRecords
<1>3. QED
  BY <1>1, <1>2 DEF AccountRecords

\* The accounts below a are tracked.
Ready(base, a) ==
  base.fatal = "" /\ \A b \in Below(a) \ {a} : TrackedAt(base, b)

\* Record r is served with the content of record me.
ServedAs(me, r) ==
  /\ r.address = me.address /\ r.enabled /\ r.content
  /\ r.timestamp = me.timestamp /\ me.timestamp # 0

\* Two writes of one account.
LEMMA TwoWrites ==
  ASSUME InviteConstants, NEW base \in ListedBases, NEW a \in AccountIds, NEW t \in 0..LastTs
  PROVE  /\ MerkleAdd(LogContent(base, a), a, t) \in Within(base, {a})
         /\ MerkleAdd(LogContent(base, a), a, t).log[a] = "content"
         /\ MerkleAdd(LogContent(base, a), a, t).merkle[a] = t
         /\ MerkleAdd(LogContent(base, a), a, t).fatal = base.fatal
         /\ LogRemoval(MerkleRemove(base, a), a) \in Within(base, {a})
         /\ LogRemoval(MerkleRemove(base, a), a).log[a] # "content"
         /\ LogRemoval(MerkleRemove(base, a), a).merkle[a] = 0
         /\ LogRemoval(MerkleRemove(base, a), a).fatal = base.fatal
<1> DEFINE x == LogContent(base, a)
           y == MerkleAdd(x, a, t)
           u == MerkleRemove(base, a)
           v == LogRemoval(u, a)
<1>1. base \in Databases
  BY DEF ListedBases
<1>2. y.log[a] = "content" /\ y.merkle[a] = t /\ y.fatal = base.fatal
  BY <1>1 DEF LogContent, MerkleAdd, Databases
<1>3. v.log[a] # "content" /\ v.merkle[a] = 0 /\ v.fatal = base.fatal
  BY <1>1 DEF LogRemoval, MerkleRemove, Databases
<1>4. x \in Within(base, {a}) /\ u \in Within(base, {a})
  BY FieldsWritten
<1> HIDE DEF x, u
<1>5. x \in ListedBases /\ u \in ListedBases
  BY <1>4, WithinFacts
<1>6. y \in Within(x, {a}) /\ v \in Within(u, {a})
  BY <1>5, FieldsWritten
<1> HIDE DEF y, v
<1>7. y \in Within(base, {a}) /\ v \in Within(base, {a})
  BY <1>4, <1>6, WithinStep
<1>8. QED
  BY <1>2, <1>3, <1>7 DEF x, y, u, v

\* The log and the merklehead say of the account what its record will: the accounts
\* below are as they were.
LEMMA OwnWritePending ==
  ASSUME InviteConstants, NEW base \in ListedBases, NEW a \in AccountIds, Ready(base, a),
         NEW x \in Within(base, {a}), NEW r \in ListedRecords, r.address = a, Agrees(x, r)
  PROVE  x \in Pending(base, r)
<1>1. Below(a) \in SUBSET AccountIds /\ {a} \subseteq Below(a)
  BY BelowFacts
<1>2. x \in Within(base, Below(a))
  BY <1>1, WithinFacts DEF Within
<1>3. \A b \in Below(a) \ {a} : TrackedAt(base, b)
  BY DEF Ready
<1>4. \A b \in Below(a) \ {a} : TrackedAt(x, b)
  BY <1>1, <1>3, OwnWrite
<1>5. QED
  BY <1>2, <1>4 DEF Pending

\* Content that returns is logged and gets its leaf after the accounts below it were
\* updated.
LEMMA ReenableTracks ==
  ASSUME InviteConstants, NoCycles, NoShortcuts, NEW base \in ListedBases,
         NEW me \in ListedRecords, Ready(base, me.address),
         NEW r \in ListedRecords, ServedAs(me, r), NEW update \in TrackingUpdates
  PROVE  ReenableWithContent(base, me, update) \in Pending(base, r)
<1> DEFINE a == me.address
           D == Below(a) \ {a}
           bare == [me EXCEPT !.invited = <<>>]
           below == UpdateNew(base, base, bare, me.invited, update)
           added == MerkleAdd(LogContent(below, a), a, me.timestamp)
<1>0. ReenableWithContent(base, me, update) = IF below.fatal # "" THEN below ELSE added
  BY DEF ReenableWithContent
<1>1. a \in AccountIds /\ D \in SUBSET AccountIds /\ a \in Below(a)
      /\ \A c \in MayInvite(a) : Below(c) \subseteq D
  BY ListedRecordIs, StrictlyBelow
<1>2. me.invited \in Seq(InviteType) /\ me.timestamp \in 0..LastTs /\ ListOf(a, me.invited)
  BY ListedRecordIs DEF ListedRecords
<1>3. bare \in AccountRecords
  BY BareListed
<1> HIDE DEF bare
<1>4. base \in Tracking(base, D)
  <2>1. base \in Within(base, D)
    BY WithinFacts
  <2>2. base.fatal = "" /\ \A b \in D : TrackedAt(base, b)
    BY DEF Ready
  <2>3. QED
    BY <2>1, <2>2 DEF Tracking
<1>5. below \in Tracking(base, D)
  BY <1>1, <1>2, <1>3, <1>4, UpdateNewTracks
<1> HIDE DEF below
<1>6. r.address = a /\ Below(a) \in SUBSET AccountIds
  BY <1>1 DEF ServedAs
<1>7. below \in ListedBases /\ below \in Within(base, D)
  <2>1. below \in Within(base, D)
    BY <1>5 DEF Tracking
  <2>2. QED
    BY <2>1 DEF Within
<1>8. below \in Within(base, Below(a))
  BY <1>7 DEF Within
<1>w. /\ added \in Within(below, {a})
      /\ added.log[a] = "content"
      /\ added.merkle[a] = me.timestamp
  <2>1. a \in AccountIds /\ me.timestamp \in 0..LastTs /\ below \in ListedBases
    BY <1>1, <1>2, <1>7
  <2> HIDE DEF a
  <2>2. QED
    BY <2>1, TwoWrites
<1> HIDE DEF added
<1>9. ASSUME below.fatal = "" PROVE added \in Pending(base, r)
  <2>1. added \in Within(below, {a}) /\ added.log[a] = "content"
        /\ added.merkle[a] = me.timestamp
    BY <1>w
  <2>2. Agrees(added, r)
    BY <2>1 DEF Agrees, ServedAs
  <2>3. Ready(below, a)
    BY <1>5, <1>9 DEF Tracking, Ready
  <2>4. added \in Pending(below, r)
    BY <1>1, <1>6, <1>7, <2>1, <2>2, <2>3, OwnWritePending
  <2>5. added \in Within(below, Below(a))
    BY <1>6, <2>4 DEF Pending
  <2>6. added \in Within(base, Below(a))
    BY <1>8, <2>5, WithinStep
  <2>7. QED
    BY <1>6, <2>4, <2>6 DEF Pending
<1>10. below.fatal # "" => below \in Pending(base, r)
  BY <1>6, <1>8 DEF Pending
<1>11. QED
  BY <1>0, <1>9, <1>10

\* What a re-parenting leaves of the content, in record r, when it is not re-enabled with
\* content and its own invite is i.
LEMMA KeepsOrLoses ==
  ASSUME InviteConstants, NEW me \in ListedRecords, NEW i \in InviterType
  PROVE  /\ Returns(me, i) => ServedAs(me, Reparented(me, i)) \/ me.timestamp = 0
         /\ ~Returns(me, i) =>
              (Reparented(me, i).content <=> me.enabled /\ me.content /\ ~Outdated(me, i))
         /\ Returns(me, i) => ~me.enabled /\ me.content
         /\ Outdated(me, i) => me.enabled /\ me.content
<1>1. me.timestamp \in 0..LastTs /\ i.timestamp \in 0..LastTs
  BY ListedRecordIs DEF InviterType
<1>2. me.timestamp \in Int /\ i.timestamp \in Int
  BY <1>1, GapsAreNumbers
<1>3. me.enabled \in BOOLEAN /\ me.content \in BOOLEAN
  BY ListedRecordIs DEF AccountRecords
<1> DEFINE r == Reparented(me, i)
<1>4. /\ r.address = me.address /\ r.enabled
      /\ r.content <=> me.content /\ ~Outdated(me, i) /\ ~Forgotten(me, i)
      /\ r.content => r.timestamp = me.timestamp
  BY ReparentedListed
<1> HIDE DEF r
<1>5. Returns(me, i) => me.content /\ ~Outdated(me, i) /\ ~Forgotten(me, i)
  BY <1>2 DEF Returns, Outdated, Forgotten
<1>6. Returns(me, i) => ServedAs(me, r) \/ me.timestamp = 0
  BY <1>4, <1>5 DEF ServedAs
<1>7. ~Returns(me, i) => (me.content /\ ~Forgotten(me, i) => me.enabled)
  BY <1>2, <1>3 DEF Returns, Forgotten
<1>8. me.enabled => ~Forgotten(me, i)
  BY DEF Forgotten
<1>9. QED
  BY <1>4, <1>6, <1>7, <1>8 DEF r, Returns, Outdated

\* Before the invited accounts are checked, the log and the merklehead have what the
\* account will be saved with.
LEMMA ReparentTracks ==
  ASSUME InviteConstants, NoCycles, NoShortcuts, NEW base \in ListedBases,
         NEW me \in ListedRecords, Agrees(base, me), Ready(base, me.address),
         NEW i \in InviterType, NEW update \in TrackingUpdates
  PROVE  Reparent(base, me, i, update) \in Tracking(base, Below(me.address))
<1> DEFINE a == me.address
           D == Below(a) \ {a}
           r == Reparented(me, i)
           changed == ~SameInviter(i, me.active)
           relevelled == /\ changed
                         /\ me.enabled
                         /\ AssignedLevel(me.active) # AssignedLevel(i)
                         /\ me.content
           readded == MerkleAdd(base, a, me.timestamp)
           base1 == IF relevelled THEN readded ELSE base
           removed == LogRemoval(MerkleRemove(base1, a), a)
           base2 == IF Returns(me, i)
                    THEN ReenableWithContent(base1, Adopted(me, i), update)
                    ELSE IF Outdated(me, i) THEN removed
                    ELSE base1
           base3 == IF changed
                    THEN CheckAllInvited(base2, r, update)
                    ELSE base2
<1>0. Reparent(base, me, i, update) = SaveLast(base3, r)
  BY DEF Reparent
<1>1. a \in AccountIds /\ D \in SUBSET AccountIds /\ a \in Below(a)
      /\ \A c \in MayInvite(a) : Below(c) \subseteq D
  BY ListedRecordIs, StrictlyBelow
<1>2. me.timestamp \in 0..LastTs
  BY ListedRecordIs
<1>3. /\ r \in ListedRecords /\ r.address = a /\ r.enabled
      /\ r.content => r.timestamp = me.timestamp
      /\ Adopted(me, i) \in ListedRecords
  BY ReparentedListed
<1>4. Adopted(me, i).address = a /\ Adopted(me, i).timestamp = me.timestamp
  BY ListedRecordIs, AdoptedType
<1>5. /\ base.log[a] = "content" <=> me.enabled /\ me.content
      /\ base.merkle[a] # 0 <=> me.enabled /\ me.content
      /\ me.content => me.timestamp # 0
  BY DEF Agrees
<1>k. /\ Returns(me, i) => ServedAs(me, r)
      /\ ~Returns(me, i) => (r.content <=> me.enabled /\ me.content /\ ~Outdated(me, i))
      /\ Returns(me, i) => ~me.enabled /\ me.content
      /\ Outdated(me, i) => me.enabled /\ me.content
  BY <1>5, KeepsOrLoses
<1>l. relevelled => me.enabled /\ me.content
  OBVIOUS
<1> HIDE DEF r, changed, relevelled
<1>6. /\ base1 \in Within(base, {a})
      /\ base1.log[a] = "content" <=> me.enabled /\ me.content
      /\ base1.merkle[a] # 0 <=> me.enabled /\ me.content
  <2>1. readded \in Within(base, {a})
    BY <1>1, <1>2, FieldsWritten
  <2>2. readded.log = base.log /\ readded.merkle[a] = me.timestamp
    BY <1>1 DEF MerkleAdd, ListedBases, Databases
  <2> HIDE DEF readded
  <2>3. CASE relevelled
    BY <1>5, <1>l, <2>1, <2>2, <2>3
  <2>4. CASE ~relevelled
    <3>1. base \in Within(base, {a})
      BY WithinFacts
    <3>2. QED
      BY <1>5, <2>4, <3>1
  <2>5. QED
    BY <2>3, <2>4
<1>7. ~me.enabled => base1 = base
  BY <1>l
<1> HIDE DEF base1
<1>8. base1 \in ListedBases
  BY <1>6 DEF Within
<1>9. base2 \in Pending(base, r)
  <2>1. CASE Returns(me, i)
    <3>1. base2 = ReenableWithContent(base, Adopted(me, i), update)
      BY <1>7, <1>k, <2>1
    <3>2. ServedAs(Adopted(me, i), r)
      BY <1>4, <1>k, <2>1 DEF ServedAs
    <3>3. Ready(base, Adopted(me, i).address)
      BY <1>4
    <3> HIDE DEF base2
    <3>4. QED
      BY <1>3, <3>1, <3>2, <3>3, ReenableTracks
  <2>2. CASE ~Returns(me, i) /\ Outdated(me, i)
    <3>1. removed \in Within(base1, {a}) /\ removed.log[a] # "content" /\ removed.merkle[a] = 0
      BY <1>1, <1>2, <1>8, TwoWrites
    <3>2. base2 = removed
      BY <2>2
    <3> HIDE DEF removed, base2
    <3>3. removed \in Within(base, {a})
      BY <1>6, <3>1, WithinStep
    <3>4. ~r.content
      BY <1>k, <2>2
    <3>5. Agrees(removed, r)
      BY <1>3, <3>1, <3>4 DEF Agrees
    <3>6. removed \in Pending(base, r)
      BY <1>1, <1>3, <3>3, <3>5, OwnWritePending
    <3>7. QED
      BY <3>2, <3>6
  <2>3. CASE ~Returns(me, i) /\ ~Outdated(me, i)
    <3>1. base2 = base1
      BY <2>3
    <3> HIDE DEF base2
    <3>2. r.content <=> me.enabled /\ me.content
      BY <1>k, <2>3
    <3>3. Agrees(base1, r)
      BY <1>3, <1>5, <1>6, <3>2 DEF Agrees
    <3>4. base1 \in Pending(base, r)
      BY <1>1, <1>3, <1>6, <3>3, OwnWritePending
    <3>5. QED
      BY <3>1, <3>4
  <2>4. QED
    BY <2>1, <2>2, <2>3
<1> HIDE DEF base2
<1>10. base3 \in Pending(base, r)
  <2>1. base2 \in Tracking(base2, D) /\ Tracking(base2, D) \subseteq Pending(base, r)
    BY <1>3, <1>9, PendingFacts
  <2>2. CheckAllInvited(base2, r, update) \in Tracking(base2, D)
    BY <1>1, <1>3, <2>1, CheckAllTracks
  <2>3. QED
    BY <1>9, <2>1, <2>2
<1> HIDE DEF base3
<1>11. SaveLast(base3, r) \in Tracking(base, Below(a))
  <2>1. base.fatal = ""
    BY DEF Ready
  <2>2. QED
    BY <1>3, <1>10, <2>1, LastSaveTracks
<1>12. QED
  BY <1>0, <1>11

LEMMA UpdateStatusTracks ==
  ASSUME InviteConstants, NoCycles, NoShortcuts, NEW base \in ListedBases,
         NEW me \in ListedRecords, base \in Tracking(base, Below(me.address)),
         base.fatal = "" => Agrees(base, me), NEW update \in TrackingUpdates
  PROVE  UpdateStatus(base, me, update) \in Tracking(base, Below(me.address))
<1> DEFINE a == me.address
           D == Below(a) \ {a}
<1>1. a \in AccountIds /\ D \in SUBSET AccountIds /\ a \in Below(a)
      /\ \A c \in MayInvite(a) : Below(c) \subseteq D
  BY ListedRecordIs, StrictlyBelow
<1>2. CASE base.fatal # ""
  BY <1>2 DEF UpdateStatus
<1>3. CASE base.fatal = ""
  <2>1. Agrees(base, me) /\ \A b \in D : TrackedAt(base, b)
    BY <1>3 DEF Tracking
  <2>2. base \in Pending(base, me)
    BY <2>1, WithinFacts DEF Pending
  <2>3. SaveLast(CheckAllInvited(base, me, update), me) \in Tracking(base, Below(a))
    <3>1. base \in Tracking(base, D) /\ Tracking(base, D) \subseteq Pending(base, me)
      BY <2>2, PendingFacts
    <3>2. CheckAllInvited(base, me, update) \in Pending(base, me)
      BY <1>1, <3>1, CheckAllTracks
    <3>3. QED
      BY <1>3, <3>2, LastSaveTracks
  <2>4. DisableAccount(base, me, update) \in Tracking(base, Below(a))
    BY <1>3, <2>1, DisableTracks
  <2>5. Die(base, "uh oh, two invites with same age") \in Tracking(base, Below(a))
    <3>1. Below(a) \in SUBSET AccountIds /\ Below(a) # {}
      BY <1>1
    <3>2. QED
      BY <3>1, DeadTracks DEF Deaths
  <2>6. ASSUME me.inviters # <<>>
        PROVE  Reparent(base, me, DetermineActiveInviter(me), update) \in Tracking(base, Below(a))
    <3>1. DetermineActiveInviter(me) \in InviterType
      BY <2>6, OldestInviter, OldestType DEF ListedRecords
    <3>2. Ready(base, a)
      BY <1>3, <2>1 DEF Ready
    <3>3. QED
      BY <2>1, <3>1, <3>2, ReparentTracks
  <2>7. QED
    BY <1>3, <2>3, <2>4, <2>5, <2>6 DEF UpdateStatus
<1>4. QED
  BY <1>2, <1>3

LEMMA DeepestTracks == ASSUME InviteConstants PROVE Deepest \in TrackingUpdates
<1>1. ASSUME NEW base \in ListedBases, NEW me \in ListedRecords,
             base \in Tracking(base, Below(me.address))
      PROVE  Deepest[<<base, me>>] \in Tracking(base, Below(me.address))
  <2>1. <<base, me>> \in Calls
    BY DEF Calls, ListedBases, ListedRecords
  <2>2. Deepest[<<base, me>>] = IF base.fatal # "" THEN base ELSE Die(base, "runaway recursion")
    BY <2>1 DEF Deepest
  <2>3. Below(me.address) \in SUBSET AccountIds /\ Below(me.address) # {}
    BY ListedRecordIs, BelowFacts
  <2>4. Die(base, "runaway recursion") \in Tracking(base, Below(me.address))
    BY <1>1, <2>3, DeadTracks DEF Deaths
  <2>5. QED
    BY <1>1, <2>2, <2>4
<1>2. QED
  BY <1>1, DeepestListed DEF TrackingUpdates

LEMMA DeeperTracks ==
  ASSUME InviteConstants, NoCycles, NoShortcuts, NEW update \in TrackingUpdates
  PROVE  Deeper(update) \in TrackingUpdates
<1>1. ASSUME NEW base \in ListedBases, NEW me \in ListedRecords,
             base \in Tracking(base, Below(me.address)), base.fatal = "" => Agrees(base, me)
      PROVE  Deeper(update)[<<base, me>>] \in Tracking(base, Below(me.address))
  <2>1. <<base, me>> \in Calls
    BY DEF Calls, ListedBases, ListedRecords
  <2>2. Deeper(update)[<<base, me>>] = UpdateStatus(base, me, update)
    BY <2>1 DEF Deeper
  <2>3. QED
    BY <1>1, <2>2, UpdateStatusTracks
<1>2. Deeper(update) \in ListedUpdates
  BY DeeperListed DEF TrackingUpdates
<1>3. QED
  BY <1>1, <1>2 DEF TrackingUpdates

LEMMA RecursionTracks ==
  ASSUME InviteConstants, NoCycles, NoShortcuts, NEW n \in Nat
  PROVE  RecurseUpdateStatus[n] \in TrackingUpdates
<1> DEFINE S == {m \in Nat : RecurseUpdateStatus[m] \in TrackingUpdates}
<1>1. 0 \in S
  BY DeepestTracks, RecursionExists
<1>2. ASSUME NEW m \in 1..n, m - 1 \in S PROVE m \in S
  <2>1. m - 1 \in Nat /\ (m - 1) + 1 = m /\ m \in Nat
    BY <1>2
  <2>2. RecurseUpdateStatus[m - 1] \in TrackingUpdates
    BY <1>2
  <2>3. RecurseUpdateStatus[(m - 1) + 1] = Deeper(RecurseUpdateStatus[m - 1])
    BY <2>1, RecursionExists
  <2>4. QED
    BY <2>1, <2>2, <2>3, DeeperTracks
<1> HIDE DEF S
<1>3. n \in S
  BY <1>1, <1>2, Ascends
<1>4. QED
  BY <1>3 DEF S

-----------------------------------------------------------------------------
(***************************************************************************)
(* Invite tree: the saves keep log, merklehead and records in agreement.   *)
(***************************************************************************)
TrackedBases ==
  {x \in ListedBases : x.fatal = "" => \A b \in AccountIds : TrackedAt(x, b)}

\* What a bundle of account me writes before the accounts it invites are updated.
SavedAs(me, timestamp, invites) ==
  [me EXCEPT !.invited = WithActive(me, invites), !.content = TRUE, !.timestamp = timestamp]

Written(base, me, timestamp, invites, count) ==
  MerkleAdd(SaveToDb(LogContent(NamesUpdate(base, me, count), me.address),
                     SavedAs(me, timestamp, invites)),
            me.address, timestamp)

LEMMA SavedListed ==
  ASSUME InviteConstants, NEW me \in ListedRecords, NEW timestamp \in Timestamps,
         NEW invites \in Seq(InviteType), ListOf(me.address, invites)
  PROVE  /\ SavedAs(me, timestamp, invites) \in ListedRecords
         /\ SavedAs(me, timestamp, invites).address = me.address
         /\ SavedAs(me, timestamp, invites).enabled = me.enabled
         /\ SavedAs(me, timestamp, invites).content
         /\ SavedAs(me, timestamp, invites).timestamp = timestamp
<1> DEFINE saved == SavedAs(me, timestamp, invites)
<1>1. me \in AccountRecords
  BY ListedRecordIs
<1>2. timestamp \in 0..LastTs
  BY GapsAreNumbers DEF Timestamps
<1>3. WithActive(me, invites) \in Seq(InviteType) /\ ListOf(me.address, WithActive(me, invites))
  BY WithActiveType, WithActiveListed
<1>4. saved \in AccountRecords
  BY <1>1, <1>2, <1>3 DEF SavedAs, AccountRecords
<1>5. /\ saved.address = me.address /\ saved.enabled = me.enabled
      /\ saved.invited = WithActive(me, invites) /\ saved.content /\ saved.timestamp = timestamp
  BY <1>1 DEF SavedAs, AccountRecords
<1> HIDE DEF saved
<1>6. saved \in ListedRecords
  BY <1>3, <1>4, <1>5 DEF ListedRecords
<1>7. QED
  BY <1>5, <1>6 DEF saved

LEMMA WrittenTracks ==
  ASSUME InviteConstants, NEW base \in ListedBases, NEW me \in ListedRecords,
         me.enabled, NEW timestamp \in Timestamps,
         NEW invites \in Seq(InviteType), ListOf(me.address, invites), NEW count \in 0..MaxNames
  PROVE  /\ Written(base, me, timestamp, invites, count) \in Within(base, {me.address})
         /\ Written(base, me, timestamp, invites, count).fatal = "" =>
              TrackedAt(Written(base, me, timestamp, invites, count), me.address)
<1> DEFINE a == me.address
           saved == SavedAs(me, timestamp, invites)
           renamed == NamesUpdate(base, me, count)
           logged == LogContent(renamed, a)
           stored == SaveToDb(logged, saved)
           w == MerkleAdd(stored, a, timestamp)
<1>0. Written(base, me, timestamp, invites, count) = w
  BY DEF Written
<1>1. a \in AccountIds /\ saved \in ListedRecords /\ saved.address = a /\ saved.content
      /\ saved.timestamp = timestamp /\ saved.enabled
  BY ListedRecordIs, SavedListed
<1>2. timestamp \in 0..LastTs /\ timestamp # 0
  BY GapsAreNumbers DEF Timestamps
<1> HIDE DEF saved
<1>3. renamed \in Within(base, {a}) /\ renamed \in ListedBases
  BY RecordWritten, WithinFacts
<1> HIDE DEF renamed
<1>4. logged \in Within(base, {a}) /\ logged \in ListedBases /\ logged.log[a] = "content"
  <2>1. logged \in Within(renamed, {a})
    BY <1>1, <1>3, FieldsWritten
  <2>2. logged.log[a] = "content"
    BY <1>1, <1>3 DEF LogContent, ListedBases, Databases
  <2> HIDE DEF logged
  <2>3. QED
    BY <1>3, <2>1, <2>2, WithinStep
<1> HIDE DEF logged
<1>5. /\ stored \in Within(base, {a}) /\ stored \in ListedBases /\ stored.log[a] = "content"
      /\ stored.fatal = "" => stored.accounts[a] = saved
  <2>1. stored \in Within(logged, {a})
    BY <1>1, <1>4, RecordWritten
  <2>2. stored.log[a] = "content"
    BY <1>4 DEF SaveToDb, Die, ListedBases, Databases
  <2>3. stored.fatal = "" => stored.accounts[a] = saved
    BY <1>1, <1>4 DEF SaveToDb, Die, ListedBases, Databases
  <2> HIDE DEF stored
  <2>4. QED
    BY <1>4, <2>1, <2>2, <2>3, WithinStep
<1> HIDE DEF stored
<1>6. w \in Within(base, {a})
  <2>1. w \in Within(stored, {a})
    BY <1>1, <1>2, <1>5, FieldsWritten
  <2> HIDE DEF w
  <2>2. QED
    BY <1>5, <2>1, WithinStep
<1>7. w.log = stored.log /\ w.accounts = stored.accounts /\ w.fatal = stored.fatal
      /\ w.merkle[a] = timestamp
  BY <1>1, <1>5 DEF MerkleAdd, ListedBases, Databases
<1> HIDE DEF w
<1>8. ASSUME w.fatal = "" PROVE TrackedAt(w, a)
  <2>1. w.accounts[a] = saved /\ w.log[a] = "content" /\ w.merkle[a] = timestamp
    BY <1>5, <1>7, <1>8
  <2>2. Agrees(w, saved)
    BY <1>1, <1>2, <2>1 DEF Agrees
  <2>3. QED
    BY <2>1, <2>2 DEF TrackedAt
<1>9. QED
  BY <1>0, <1>6, <1>8

\* The update of an account that is newly invited reaches none of those dropped.
LEMMA NewMissesDropped ==
  ASSUME InviteConstants, NoShortcuts, NEW me \in ListedRecords,
         NEW invites \in Seq(InviteType), ListOf(me.address, invites),
         NEW k \in 1..Len(invites), IsChanged(me, invites[k]),
         DroppedInvites(me, invites) \subseteq MayInvite(me.address)
  PROVE  Below(invites[k].account) \subseteq AccountIds \ DroppedInvites(me, invites)
<1> DEFINE S == DroppedInvites(me, invites)
           c == invites[k].account
           kept == {i.account : i \in {x \in ToSet(invites) : x.timestamp > me.active.timestamp}}
<1>1. me.address \in AccountIds /\ c \in MayInvite(me.address)
  BY ListedRecordIs DEF ListOf
<1>2. c \in kept
  <2>1. invites[k] \in ToSet(invites) /\ invites[k].timestamp > me.active.timestamp
    BY DEF ToSet, IsChanged
  <2>2. QED
    BY <2>1
<1>3. S = {i.account : i \in {x \in ToSet(me.invited) :
                                x.account \notin kept /\ x.timestamp > me.active.timestamp}}
  BY DEF DroppedInvites
<1>4. c \notin S
  <2> HIDE DEF kept, S, c
  <2>1. QED
    BY <1>2, <1>3
<1>5. c \in AccountIds /\ Below(c) \subseteq AccountIds
  BY <1>1, BelowFacts
<1> HIDE DEF S, c
<1>6. ASSUME NEW d \in S PROVE d \notin Below(c)
  <2>1. d \in MayInvite(me.address) /\ d # c
    BY <1>4 DEF S
  <2>2. QED
    BY <1>1, <2>1 DEF NoShortcuts
<1>7. QED
  BY <1>5, <1>6 DEF S, c

\* The new invites of a bundle change nothing of the accounts it drops.
LEMMA NewLeavesDropped ==
  ASSUME InviteConstants, NoShortcuts, NEW base \in ListedBases, NEW w \in ListedBases,
         NEW me \in ListedRecords, NEW invites \in Seq(InviteType), ListOf(me.address, invites),
         NEW update \in TrackingUpdates
  PROVE  UpdateNew(base, w, me, invites, update)
           \in Within(w, AccountIds \ DroppedInvites(me, invites))
<1> DEFINE E == AccountIds \ DroppedInvites(me, invites)
           P == Within(w, E)
<1>1. w \in P /\ me \in AccountRecords
  BY WithinFacts, ListedRecordIs
<1>2. ASSUME NEW k \in 1..Len(invites), IsChanged(me, invites[k]), NEW x \in P,
             NEW child \in ListedRecords, child.address = invites[k].account
      PROVE  update[<<x, child>>] \in P
  <2>1. Below(child.address) \subseteq E
    BY <1>2, DroppedMayInvite, NewMissesDropped
  <2>2. x \in ListedBases
    BY DEF Within
  <2>3. update[<<x, child>>] \in Within(x, Below(child.address))
    BY <2>2, TrackingIsListed
  <2> HIDE DEF E
  <2>4. QED
    BY <2>1, <2>3, WithinStep
<1> HIDE DEF P
<1>3. \A k \in 1..Len(invites) : IsChanged(me, invites[k]) =>
        \A x \in P, child \in ListedRecords :
          child.address = invites[k].account => update[<<x, child>>] \in P
  BY <1>2
<1>4. UpdateNew(base, w, me, invites, update) \in P
  BY <1>1, <1>3, UpdateNewListed
<1>5. QED
  BY <1>4 DEF P

\* A bundle with a new root document: what the accounts it invites and those it drops
\* are updated from are copies made before, and still what is recorded.
LEMMA SaveChangedTracks ==
  ASSUME InviteConstants, NoCycles, NoShortcuts,
         NEW base \in ListedBases, \A b \in AccountIds : TrackedAt(base, b),
         NEW a \in AccountIds, NEW timestamp \in Timestamps, Acceptable(base.accounts[a], timestamp),
         NEW invites \in Seq(InviteType), ListOf(a, invites), NEW count \in 0..MaxNames,
         NEW order \in SetToSeqs(DroppedInvites(base.accounts[a], invites))
  PROVE  SaveChanged(base, a, timestamp, invites, count, order) \in TrackedBases
<1> DEFINE me == FetchAny(base, a)
           why == UpdateInvitedFatal(base, me, order)
           S == DroppedInvites(me, invites)
           D == Below(a) \ {a}
           w == Written(base, me, timestamp, invites, count)
           update == RecurseUpdateStatus[MaxDepth]
           x == UpdateNew(base, w, me, invites, update)
           y == UpdateDropped(base, x, me, order, update)
<1>1. base \in ListedBases /\ base \in Databases /\ \A b \in AccountIds : TrackedAt(base, b)
  BY DEF ListedBases
<1>2. me \in ListedRecords /\ me \in AccountRecords /\ me.address = a /\ me = base.accounts[a]
      /\ me.enabled
  BY <1>1, FetchListed, ListedRecordIs DEF FetchAny, Acceptable
<1>3. a \in Below(a) /\ D \in SUBSET AccountIds /\ \A c \in MayInvite(a) : Below(c) \subseteq D
  BY StrictlyBelow
<1>4. update \in TrackingUpdates
  BY RecursionTracks DEF InviteConstants, TreeAssumption
<1>5. SaveChanged(base, a, timestamp, invites, count, order) =
        IF why # "" THEN Die(base, why) ELSE y
  BY <1>2 DEF SaveChanged, Written, SavedAs
<1>6. why # "" => why \in Deaths
  BY DEF UpdateInvitedFatal, Deaths
<1>7. /\ order \in Seq(MayInvite(a))
      /\ \A k \in 1..Len(order) : order[k] \in S
      /\ \A j, k \in 1..Len(order) : order[j] = order[k] => j = k
  <2>1. me \in ListedRecords /\ me.address = a /\ order \in SetToSeqs(DroppedInvites(me, invites))
    BY <1>2 DEF FetchAny
  <2> HIDE DEF me, why, update, w, x, y, D
  <2>2. /\ order \in Seq(MayInvite(me.address))
        /\ \A k \in 1..Len(order) : order[k] \in DroppedInvites(me, invites)
        /\ \A j, k \in 1..Len(order) : order[j] = order[k] => j = k
    BY <2>1, DroppedListed
  <2>3. QED
    BY <2>1, <2>2
<1>8. S \subseteq MayInvite(a)
  BY <1>2, DroppedMayInvite
<1> HIDE DEF why, me, update, S
<1>9. w \in Within(base, {a}) /\ w \in ListedBases
  <2>1. w \in Within(base, {a})
    BY <1>1, <1>2, WrittenTracks
  <2>2. QED
    BY <2>1 DEF Within
<1>10. w.fatal = "" => TrackedAt(w, a)
  BY <1>1, <1>2, WrittenTracks
<1> HIDE DEF w
<1>11. w \in Tracking(w, D)
  <2>1. \A b \in D : TrackedAt(base, b)
    BY <1>1, <1>3
  <2>2. \A b \in D : TrackedAt(w, b)
    BY <1>1, <1>3, <1>9, <2>1, OwnWrite, BelowFacts
  <2>3. w \in Within(w, D)
    BY <1>9, WithinFacts
  <2>4. QED
    BY <2>2, <2>3 DEF Tracking
<1>12. \A c \in MayInvite(a) : w.accounts[c] = base.accounts[c]
  BY <1>9, BelowFacts DEF Within, SameAt, MayInvite
<1>13. x \in Tracking(w, D)
  BY <1>1, <1>2, <1>3, <1>4, <1>11, <1>12, UpdateNewTracks
<1>14. x \in Within(w, AccountIds \ S)
  BY <1>1, <1>2, <1>4, <1>8, <1>9, NewLeavesDropped DEF S
<1> HIDE DEF x
<1>15. \A k \in 1..Len(order) : x.accounts[order[k]] = base.accounts[order[k]]
  <2>1. ASSUME NEW k \in 1..Len(order) PROVE x.accounts[order[k]] = base.accounts[order[k]]
    <3>1. order[k] \in S /\ order[k] \in MayInvite(a) /\ order[k] \in AccountIds
      BY <1>7, <1>8, BelowFacts
    <3>2. x.accounts[order[k]] = w.accounts[order[k]]
      BY <1>14, <3>1 DEF Within, SameAt
    <3>3. QED
      BY <1>12, <3>1, <3>2
  <2>2. QED
    BY <2>1
<1>16. y \in Tracking(w, D)
  BY <1>1, <1>3, <1>4, <1>7, <1>13, <1>15, UpdateDroppedTracks
<1> HIDE DEF y
<1>17. y \in ListedBases /\ y \in Within(w, D)
  <2>1. y \in Within(w, D)
    BY <1>16 DEF Tracking
  <2>2. QED
    BY <2>1 DEF Within
<1>18. ASSUME y.fatal = "", NEW b \in AccountIds PROVE TrackedAt(y, b)
  <2>1. w.fatal = "" /\ \A d \in D : TrackedAt(y, d)
    BY <1>16, <1>18 DEF Tracking
  <2>2. CASE b \in D
    BY <2>1, <2>2
  <2>3. ASSUME b \notin D PROVE TrackedAt(y, b)
    <3>1. SameAt(w, y, b)
      BY <1>17, <2>3 DEF Within
    <3>2. TrackedAt(w, b)
      <4>1. CASE b = a
        BY <1>10, <2>1, <4>1
      <4>2. CASE b # a
        <5>1. SameAt(base, w, b)
          BY <1>9, <4>2 DEF Within
        <5>2. QED
          BY <1>1, <1>9, <5>1, TrackedLike
      <4>3. QED
        BY <4>1, <4>2
    <3>3. QED
      BY <1>9, <1>17, <3>1, <3>2, TrackedLike
  <2>4. QED
    BY <2>2, <2>3
<1>19. y \in TrackedBases
  BY <1>17, <1>18 DEF TrackedBases
<1>20. ASSUME why # "" PROVE Die(base, why) \in TrackedBases
  <2>1. Die(base, why) \in ListedBases
    BY <1>1, <1>6, <1>20, FieldsWritten, WithinFacts
  <2>2. Die(base, why).fatal = why
    BY <1>1 DEF Die, Databases
  <2>3. QED
    BY <1>20, <2>1, <2>2 DEF TrackedBases
<1>21. QED
  BY <1>5, <1>19, <1>20

\* A bundle whose root document is already held.
LEMMA SaveUnchangedTracks ==
  ASSUME InviteConstants, NEW base \in ListedBases, \A b \in AccountIds : TrackedAt(base, b),
         NEW a \in AccountIds, NEW timestamp \in Timestamps,
         Acceptable(base.accounts[a], timestamp), base.accounts[a].content
  PROVE  SaveUnchanged(base, a, timestamp) \in TrackedBases
<1> DEFINE y == MerkleAdd(LogContent(base, a), a, timestamp)
           me == base.accounts[a]
<1>1. base \in ListedBases /\ \A b \in AccountIds : TrackedAt(base, b)
  OBVIOUS
<1>2. timestamp \in 0..LastTs /\ timestamp # 0
  <2>1. LastTs \in Nat
    BY GapsAreNumbers
  <2>2. QED
    BY <2>1 DEF Timestamps
<1>3. y \in Within(base, {a}) /\ y.log[a] = "content" /\ y.merkle[a] = timestamp
  BY <1>2, TwoWrites
<1>4. y.accounts = base.accounts
  BY <1>1 DEF MerkleAdd, LogContent, ListedBases, Databases
<1>5. me.address = a /\ me.enabled /\ me.content /\ me.timestamp # 0
  <2>1. me.address = a
    BY <1>1 DEF ListedBases
  <2>2. Agrees(base, me)
    BY <1>1 DEF TrackedAt
  <2>3. QED
    BY <2>1, <2>2 DEF Agrees, Acceptable
<1> HIDE DEF y, me
<1>6. y \in ListedBases
  BY <1>3 DEF Within
<1>7. ASSUME NEW b \in AccountIds PROVE TrackedAt(y, b)
  <2>1. CASE b = a
    <3>1. y.accounts[b] = me
      BY <1>4, <2>1 DEF me
    <3>2. Agrees(y, me)
      BY <1>2, <1>3, <1>5 DEF Agrees
    <3>3. QED
      BY <3>1, <3>2 DEF TrackedAt
  <2>2. CASE b # a
    <3>1. SameAt(base, y, b)
      BY <1>3, <2>2 DEF Within
    <3>2. QED
      BY <1>1, <1>6, <3>1, TrackedLike
  <2>3. QED
    BY <2>1, <2>2
<1>8. y \in TrackedBases
  BY <1>6, <1>7 DEF TrackedBases
<1>9. QED
  BY <1>8 DEF y, SaveUnchanged

\* The invariant, beside TreeInv and Listed.
Tracked == db \in TrackedBases /\ db.fatal = ""

LEMMA TrackedInit == ASSUME InviteConstants, TreeInit PROVE Tracked
<1>1. db \in ListedBases
  BY ListedInit
<1>2. db.fatal = ""
  BY DEF TreeInit
<1>3. ASSUME NEW b \in AccountIds PROVE TrackedAt(db, b)
  <2>1. db.log[b] = "none" /\ db.merkle[b] = 0
    BY DEF TreeInit
  <2>2. ~db.accounts[b].content
    BY DEF TreeInit, NewAccount
  <2>3. db.accounts[b].address = b
    BY <1>1 DEF ListedBases
  <2>4. QED
    BY <2>1, <2>2, <2>3 DEF TrackedAt, Agrees
<1>4. QED
  BY <1>1, <1>2, <1>3 DEF Tracked, TrackedBases

LEMMA TrackedFinish ==
  ASSUME InviteConstants, OneDocument, Tracked, NEW saved \in TrackedBases,
         NEW result \in AfterAdding(saved) \cup AfterFolding(saved), Finish(result)
  PROVE  db' \in TrackedBases /\ db'.fatal = ""
<1>1. saved \in Databases
  BY DEF TrackedBases, ListedBases
<1>2. result = saved
  BY <1>1, OutcomesOfSave
<1>3. QED
  BY <1>2 DEF Tracked, Finish

LEMMA TrackedStep ==
  ASSUME InviteConstants, NoCycles, NoShortcuts, OneDocument, Tracked, [TreeNext]_treeVars
  PROVE  db' \in TrackedBases /\ db'.fatal = ""
<1>0. /\ db \in TrackedBases /\ db.fatal = "" /\ db \in ListedBases
      /\ \A b \in AccountIds : TrackedAt(db, b)
  BY DEF Tracked, TrackedBases
<1>1. ASSUME NEW a \in AccountIds, NEW timestamp \in Timestamps, BundleSave(a, timestamp)
      PROVE  db' \in TrackedBases /\ db'.fatal = ""
  <2>1. Acceptable(db.accounts[a], timestamp)
    BY <1>1 DEF BundleSave
  <2>2. PICK invites \in Seq(InviteType) :
          \E count \in 0..MaxNames, order \in Seq(MayInvite(a)) :
            /\ ListOf(a, invites)
            /\ order \in SetToSeqs(DroppedInvites(db.accounts[a], invites))
            /\ \E result \in AfterFolding(SaveChanged(db, a, timestamp, invites, count, order)) :
                 Finish(result)
    BY <1>0, <1>1, SaveIsOfLists
  <2>3. PICK count \in 0..MaxNames, order \in Seq(MayInvite(a)) :
          /\ ListOf(a, invites)
          /\ order \in SetToSeqs(DroppedInvites(db.accounts[a], invites))
          /\ \E result \in AfterFolding(SaveChanged(db, a, timestamp, invites, count, order)) :
               Finish(result)
    BY <2>2
  <2>4. SaveChanged(db, a, timestamp, invites, count, order) \in TrackedBases
    BY <1>0, <2>1, <2>3, SaveChangedTracks
  <2>5. QED
    BY <2>3, <2>4, TrackedFinish
<1>2. ASSUME NEW a \in AccountIds, NEW timestamp \in Timestamps, BundleSaveUnchanged(a, timestamp)
      PROVE  db' \in TrackedBases /\ db'.fatal = ""
  <2>1. Acceptable(db.accounts[a], timestamp) /\ db.accounts[a].content
        /\ \E result \in AfterAdding(SaveUnchanged(db, a, timestamp)) : Finish(result)
    BY <1>2 DEF BundleSaveUnchanged
  <2>2. SaveUnchanged(db, a, timestamp) \in TrackedBases
    BY <1>0, <2>1, SaveUnchangedTracks
  <2>3. QED
    BY <2>1, <2>2, TrackedFinish
<1>3. CASE RestartProcess
  BY <1>0, <1>3 DEF RestartProcess
<1>4. CASE UNCHANGED treeVars
  BY <1>0, <1>4 DEF treeVars
<1>5. QED
  BY <1>1, <1>2, <1>3, <1>4 DEF TreeNext

\* Where nobody invites, however indirectly, who invited him, and nobody invites both
\* directly and through another, the log, the merklehead and the account records agree
\* after every save on which accounts have content, as long as the merklehead's leaves fit
\* into one document: the folding of several loses leaves (Merklehead!FoldKeepsAccounts).
THEOREM TreeContentIsTracked ==
  ASSUME TreeAssumption, NoCycles, NoShortcuts, OneDocument
  PROVE  TreeSpec => []ContentIsTracked
<1>0. InviteConstants
  BY DEF InviteConstants
<1>1. TreeInit => Tracked
  BY <1>0, TrackedInit
<1>2. Tracked /\ [TreeNext]_treeVars => Tracked'
  <2> SUFFICES ASSUME Tracked, [TreeNext]_treeVars PROVE Tracked'
    OBVIOUS
  <2>1. db' \in TrackedBases /\ db'.fatal = ""
    BY <1>0, TrackedStep
  <2>2. TrackedBases' = TrackedBases
    BY DEF TrackedBases, ListedBases, Databases, ListedRecords, ListOf, MayInvite, TrackedAt, Agrees
  <2>3. QED
    BY <2>1, <2>2 DEF Tracked
<1>3. Tracked => ContentIsTracked
  <2> SUFFICES ASSUME Tracked, NEW a \in AccountIds
               PROVE  /\ db.log[a] = "content" <=> HasContent(a)
                      /\ db.merkle[a] # 0 <=> HasContent(a)
    BY DEF ContentIsTracked
  <2>1. TrackedAt(db, a) /\ db.accounts[a].address = a
    BY DEF Tracked, TrackedBases, ListedBases
  <2>2. QED
    BY <2>1 DEF TrackedAt, Agrees, HasContent, Acc
<1>4. QED
  BY <1>1, <1>2, <1>3, PTL DEF TreeSpec

=============================================================================
