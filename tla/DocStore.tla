------------------------------- MODULE DocStore -------------------------------
(***************************************************************************)
(* The documents of one node (bucket "pastes") and their reference counts. *)
(* A bundle's root document links to leaves: files, which link to nothing. *)
(* Saving a bundle walks from the old root to the new one (UpdateRoot) and *)
(* then removes the old root (RecursiveRemove); a linked leaf that is not  *)
(* there gets a placeholder without data, which the linked documents' swap *)
(* fills later.                                                            *)
(*                                                                         *)
(* Each action is a write transaction, and transactions do not overlap.    *)
(* Roots that are not dag-cbor, and links to dag-cbor documents (on which  *)
(* RecursiveAdd dies, "NOT YET IMPLEMENTED"), are left out.                *)
(***************************************************************************)
EXTENDS Integers, FiniteSets, Functions

CONSTANTS
  Accounts,
  Links,       \* root document -> the leaves that it links to
  NoRoot,      \* an account without content
  MaxRefs      \* bound on the references to a document

ASSUME DocAssumption ==
  /\ IsFiniteSet(Accounts)
  /\ NoRoot \notin DOMAIN Links
  /\ DOMAIN Links \cap UNION {Links[r] : r \in DOMAIN Links} = {}
  /\ MaxRefs \in Nat \ {0}

VARIABLES
  pastes,      \* document -> whether it has data, and its references
  root,        \* account -> RootMultihash
  syncStatus   \* account -> SyncStatus: 1 complete, 2 some missing

docsVars == <<pastes, root, syncStatus>>

Roots == DOMAIN Links
Leaves == UNION {Links[r] : r \in Roots}
Docs == Roots \cup Leaves

Complete == 1
SomeMissing == 2

DocsInit ==
  /\ pastes = [d \in {} |-> {}]
  /\ root = [a \in Accounts |-> NoRoot]
  /\ syncStatus = [a \in Accounts |-> Complete]

-----------------------------------------------------------------------------
(***************************************************************************)
(* db/pastedata.go, on a store st.                                         *)
(***************************************************************************)
Held(st, d) == d \in DOMAIN st
HasData(st, d) == Held(st, d) /\ st[d].data

\* Variant of Add that does not count a reference to a document it has.
AddUncounted(st, d, data) ==
  [x \in DOMAIN st \cup {d} |->
    IF x # d THEN st[x]
    ELSE IF Held(st, d) THEN [data |-> st[d].data \/ data, refs |-> st[d].refs]
    ELSE [data |-> data, refs |-> 1]]

\* Doc.Add: one reference more, and the data if it was missing.
Add(st, d, data) ==
  [x \in DOMAIN st \cup {d} |->
    IF x # d THEN st[x]
    ELSE IF Held(st, d) THEN [data |-> st[d].data \/ data, refs |-> st[d].refs + 1]
    ELSE [data |-> data, refs |-> 1]]

\* Doc.RemoveRef: one less, and the document goes with the last one.
RemoveRef(st, d) ==
  IF ~Held(st, d) THEN st
  ELSE IF st[d].refs > 1 THEN [st EXCEPT ![d].refs = @ - 1]
  ELSE Restrict(st, DOMAIN st \ {d})

-----------------------------------------------------------------------------
(***************************************************************************)
(* ipldwalk: from an account's old root to its new one.                    *)
(***************************************************************************)
LinksOf(r) == IF r = NoRoot THEN {} ELSE Links[r]

\* Add, for each of the links once.
AddEach(st, links, given) ==
  [d \in DOMAIN st \cup links |-> IF d \in links THEN Add(st, d, d \in given)[d] ELSE st[d]]

\* The leaves come with the bundle, or a placeholder stands for them.
AddLinks(st, new, given) == AddEach(st, LinksOf(new), given)

\* A leaf is "not found" if it neither came with the bundle nor is in the store:
\* an entry without data counts as found, as Unmarshal never makes a nil slice.
NotFound(st, new, given) == {leaf \in LinksOf(new) \ given : ~Held(st, leaf)}

RemovedLinks(old, new) == LinksOf(old) \ LinksOf(new)

\* RemoveRef, for each of the links once.
RemoveLinks(st, links) ==
  LET stays(d) == d \in links => Held(RemoveRef(st, d), d)
  IN  [d \in {x \in DOMAIN st : stays(x)} |->
         IF d \in links THEN RemoveRef(st, d)[d] ELSE st[d]]

UpdateRoot(st, old, new, given) ==
  Add(RemoveLinks(AddLinks(st, new, given), RemovedLinks(old, new)), new, TRUE)

\* Variant of RecursiveRemove that takes the links with every reference.
RecursiveRemoveAlways(st, old) == RemoveRef(RemoveLinks(st, LinksOf(old)), old)

\* RecursiveRemove of a root: with its last reference go those to its links.
RecursiveRemove(st, old) ==
  LET links == IF Held(st, old) /\ st[old].refs = 1 THEN LinksOf(old) ELSE {}
  IN  RemoveRef(RemoveLinks(st, links), old)

-----------------------------------------------------------------------------
\* ValidateAndSave of a bundle with another root document, and some leaves.
Save(a, new, given) ==
  /\ new # root[a]
  /\ \A d \in DOMAIN pastes : pastes[d].refs < MaxRefs
  /\ LET updated == UpdateRoot(pastes, root[a], new, given) IN
     pastes' = IF root[a] = NoRoot THEN updated ELSE RecursiveRemove(updated, root[a])
  /\ root' = [root EXCEPT ![a] = new]
  /\ syncStatus' = [syncStatus EXCEPT ![a] =
       IF NotFound(pastes, new, given) = {} THEN Complete ELSE SomeMissing]

\* RecurseUpdateStatus forgets content older than the invite.  The documents stay.
ForgetContent(a) ==
  /\ root[a] # NoRoot
  /\ root' = [root EXCEPT ![a] = NoRoot]
  /\ UNCHANGED <<pastes, syncStatus>>

Lacking(a) == {leaf \in LinksOf(root[a]) : ~HasData(pastes, leaf)}

\* StartLinkedDocsSwap for one account, with a peer that has the leaves given.
\* When none of them could be fetched the root is walked again as dag-pb, which
\* cannot be decoded and counts as nothing missed.
SwapLinkedDocs(a, given) ==
  /\ syncStatus[a] = SomeMissing
  /\ root[a] # NoRoot
  /\ \A d \in DOMAIN pastes : pastes[d].refs < MaxRefs
  /\ LET fetched == Lacking(a) \cap given IN
     /\ pastes' = AddEach(pastes, fetched, fetched)
     /\ syncStatus' = [syncStatus EXCEPT ![a] =
          IF fetched = Lacking(a) \/ fetched = {} THEN Complete ELSE SomeMissing]
  /\ UNCHANGED root

DocsNext ==
  \E a \in Accounts :
    \/ \E r \in Roots : \E given \in SUBSET LinksOf(r) : Save(a, r, given)
    \/ ForgetContent(a)
    \/ \E given \in SUBSET Leaves : SwapLinkedDocs(a, given)

DocsSpec == DocsInit /\ [][DocsNext]_docsVars

-----------------------------------------------------------------------------
(***************************************************************************)
(* Properties.                                                             *)
(***************************************************************************)

\* The types of the variables.  An entry has at least one reference: the unsigned
\* count never passes below it.
DocsTypeOK ==
  /\ \A d \in DOMAIN pastes : d \in Docs /\ pastes[d] \in [data : BOOLEAN, refs : 1..MaxRefs + 1]
  /\ root \in [Accounts -> Roots \cup {NoRoot}]
  /\ syncStatus \in [Accounts -> {Complete, SomeMissing}]

\* UpdateRoot panics with "multihash not found in db." if an account's root is
\* gone: it never is, however many accounts share the root, replace it, forget it
\* and save it again.
RootsAreHeld ==
  \A a \in Accounts : root[a] # NoRoot => HasData(pastes, root[a])

SharedLeaf(leaf) == \E r, q \in Roots : r # q /\ leaf \in Links[r] \cap Links[q]

\* UpdateRoot and RecursiveRemove: what an account's root links to, and no other
\* root document does, is in the store, as data or as a placeholder, also when
\* two accounts have the same root.
LinksAreHeld ==
  \A a \in Accounts : \A leaf \in LinksOf(root[a]) :
    ~SharedLeaf(leaf) => Held(pastes, leaf)

\* recursive.go says of the documents of an account that they stay until "there
\* are no other refs".  A save by one account should not remove a document that
\* another account's root links to.
KeptForOthers ==
  [][\A a, b \in Accounts : root'[a] # root[a] /\ a # b =>
       \A leaf \in LinksOf(root[b]) : Held(pastes, leaf) => leaf \in DOMAIN pastes']_docsVars

\* sigbundle.go: "if there was an original hash, remove the old data".  When a
\* save replaces a root, what only that root reached should go.
ReplacedIsRemoved ==
  [][\A a \in Accounts :
       root[a] # NoRoot /\ root'[a] \notin {root[a], NoRoot} =>
         \A d \in {root[a]} \cup LinksOf(root[a]) :
           (\A b \in Accounts : d # root'[b] /\ d \notin LinksOf(root'[b]))
             => d \notin DOMAIN pastes']_docsVars

\* sigbundle.go sets SyncStatus to 1, "complete", when no document was missing,
\* and to 2 for "some missing".
SavedComplete ==
  [][\A a \in Accounts : root'[a] \notin {root[a], NoRoot} /\ syncStatus'[a] = Complete =>
       \A leaf \in LinksOf(root'[a]) : leaf \in DOMAIN pastes' /\ pastes'[leaf].data]_docsVars

\* swap_linkeddocs.go marks an account complete and says "Downloaded ... docs"
\* for it when its walk missed none.
SwappedComplete ==
  [][\A a \in Accounts : syncStatus[a] = SomeMissing /\ syncStatus'[a] = Complete
                         /\ root'[a] = root[a] =>
       \A leaf \in LinksOf(root[a]) : leaf \in DOMAIN pastes' /\ pastes'[leaf].data]_docsVars

=============================================================================
