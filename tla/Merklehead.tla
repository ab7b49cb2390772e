------------------------------ MODULE Merklehead -----------------------------
(***************************************************************************)
(* Package merklehead: the tree of documents whose root hash two peers     *)
(* compare to see whether they hold the same bundles.  A document maps     *)
(* either address tails to timestamps, or address digits to child          *)
(* documents; a full document of the first kind is split into one of the   *)
(* second when an address is added, and Remove folds it back.              *)
(*                                                                         *)
(* A tree is a function from paths to documents of timestamps; a path is   *)
(* the digits of the links that lead there.  A document of links has no    *)
(* contents beside its place in the paths of those below it.  The code's   *)
(* recursion goes down one path and back up it: what it does there is      *)
(* stated for the level where it turns and the levels above.               *)
(*                                                                         *)
(* Documents are stored under the hash of their contents, so the tree is   *)
(* its own name here.  The code's alphabet and capacity are both 16 (hex   *)
(* digits); here Digits is the alphabet and its size the capacity.  Go's   *)
(* maps have no order: where a loop over one stops early the outcome is a  *)
(* choice.                                                                 *)
(***************************************************************************)
EXTENDS Integers, Sequences, FiniteSets, SequencesExt

CONSTANTS
  Digits,       \* the alphabet of addresses
  Addresses,    \* the accounts' addresses: sequences of one length
  RootAccount,  \* the account that is never disabled
  MaxTimestamp  \* timestamps are 1..MaxTimestamp

AddressLength == Len(RootAccount)

ASSUME AddressAssumption ==
  /\ IsFiniteSet(Digits)
  /\ AddressLength > 0
  /\ RootAccount \in Addresses
  /\ \A a \in Addresses : a \in Seq(Digits) /\ Len(a) = AddressLength
  /\ MaxTimestamp \in Nat

VARIABLES
  head,      \* the tree behind globals Merklehead, or NoHead
  members,   \* the accounts with content and the timestamp added last, 0: none
  fate,      \* "running", or "panic" once the process died
  shrunk     \* history: something was removed from the tree

merkleVars == <<head, members, fate, shrunk>>

Capacity == Cardinality(Digits)

EmptyMap == [t \in {} |-> 0]

\* No document at all.  The code never saves an empty document of timestamps: an
\* empty document is one of links, as the type of "no value" is not int.
NoHead == [p \in {<<>>} |-> EmptyMap]

Path(address, level) == SubSeq(address, 1, level)
Rest(address, level) == SubSeq(address, level + 1, Len(address))

\* Whether the document at q is that at p, or a descendant of it.
Under(q, p) == Len(p) <= Len(q) /\ Path(q, Len(p)) = p

\* Whether the document at p is one of links.
IsLinks(tree, p) ==
  \/ p = <<>> /\ DOMAIN tree = {}
  \/ \E q \in DOMAIN tree : q # p /\ Under(q, p)

\* The level at which the recursion down an address turns: the first document
\* that is not one of links.  address[:1] of an empty tail is a Go panic.
Bottomless(tree, address) == \A k \in 0..Len(address) : IsLinks(tree, Path(address, k))

BottomLevel(tree, address) ==
  CHOOSE k \in 0..Len(address) :
    /\ ~IsLinks(tree, Path(address, k))
    /\ \A j \in 0..(k - 1) : IsLinks(tree, Path(address, j))

\* The document at p is replaced, or unlinked if nothing is left for it.
Put(tree, p, entries) ==
  IF DOMAIN entries = {} THEN [q \in DOMAIN tree \ {p} |-> tree[q]]
  ELSE [q \in DOMAIN tree \cup {p} |-> IF q = p THEN entries ELSE tree[q]]

\* The document at p is unlinked, and all below it with it.
Unlink(tree, p) == [q \in {r \in DOMAIN tree : ~Under(r, p)} |-> tree[q]]

WithEntry(entries, key, value) ==
  [k \in DOMAIN entries \cup {key} |-> IF k = key THEN value ELSE entries[k]]

\* Variant of Delete that deletes nothing.
DeleteNone(entries, key) == entries

Delete(entries, key) == [k \in DOMAIN entries \ {key} |-> entries[k]]

-----------------------------------------------------------------------------
(***************************************************************************)
(* addItemRecursive.                                                       *)
(***************************************************************************)
ChildPaths(p, entries) == {Append(p, Head(t)) : t \in DOMAIN entries}

\* Variant of Split that leaves the digit on the tails.
SplitKeepsDigit(tree, p, entries) ==
  LET child(d) == [t \in {s \in DOMAIN entries : Head(s) = d} |-> entries[t]]
  IN  [q \in (DOMAIN tree \ {p}) \cup ChildPaths(p, entries) |->
         IF q \in ChildPaths(p, entries) THEN child(Last(q)) ELSE tree[q]]

\* The entries of a full document and the new one, by their first digit.
Split(tree, p, entries) ==
  LET tails(d) == {Tail(t) : t \in {s \in DOMAIN entries : Head(s) = d}}
      child(d) == [t \in tails(d) |-> entries[<<d>> \o t]]
  IN  [q \in (DOMAIN tree \ {p}) \cup ChildPaths(p, entries) |->
         IF q \in ChildPaths(p, entries) THEN child(Last(q)) ELSE tree[q]]

\* Variant of IsFull that lets one entry too many in.
IsOverfull(doc) == Cardinality(DOMAIN doc) > Capacity

IsFull(doc) == Cardinality(DOMAIN doc) >= Capacity

\* What the document at p holds; a child that there is not yet is made empty.
Entries(tree, p) == IF p \in DOMAIN tree THEN tree[p] ELSE EmptyMap

AddPanics(tree, address) ==
  LET level == BottomLevel(tree, address)
      p     == Path(address, level)
  IN  \/ Bottomless(tree, address)
      \/ /\ p \in DOMAIN tree
         /\ IsFull(tree[p])
         /\ <<>> \in DOMAIN tree[p] \cup {Rest(address, level)}

\* merklehead.Add, which makes the first document when there is none.
AddItem(tree, address, timestamp) ==
  LET level   == BottomLevel(tree, address)
      p       == Path(address, level)
      entries == WithEntry(Entries(tree, p), Rest(address, level), timestamp)
  IN  IF p \in DOMAIN tree /\ IsFull(tree[p])
      THEN Split(tree, p, entries)
      ELSE Put(tree, p, entries)

-----------------------------------------------------------------------------
(***************************************************************************)
(* removeItemRecursive.  An outcome is the new tree and the status: "ok",  *)
(* "not found" (an error, nothing is changed) or "panic".                  *)
(***************************************************************************)
Outcome(tree, status) == [tree |-> tree, status |-> status]

Parent(p) == Path(p, Len(p) - 1)

Siblings(tree, p) ==
  {s \in {Append(Parent(p), d) : d \in Digits} \ {p} : \E q \in DOMAIN tree : Under(q, s)}

\* The siblings that the loop over them may meet, in any order, before the first
\* that holds links itself.
Met(tree, p) ==
  LET leaves == Siblings(tree, p) \cap DOMAIN tree
  IN  UNION {SetToSeqs(S) : S \in IF Siblings(tree, p) = leaves THEN {leaves} ELSE SUBSET leaves}

\* What remained of a child and the entries of the siblings met, with the tails
\* they have there; an entry of one met later, in front, replaces one before.
Merged(tree, met, rest) ==
  LET holders(t) == {i \in 1..Len(met) : t \in DOMAIN tree[met[i]]}
      latest(t)  == CHOOSE i \in holders(t) : \A j \in holders(t) : i <= j
  IN  [t \in DOMAIN rest \cup UNION {DOMAIN tree[met[i]] : i \in 1..Len(met)} |->
         IF holders(t) = {} THEN rest[t] ELSE tree[met[latest(t)]][t]]

\* One level above the bottom, what was gathered replaces the whole document
\* when it fits into one, else the document at p is kept with its rest.  Further
\* up each link is kept; or dropped, up to that of the root, when nothing at all
\* was gathered.
Collapsed(tree, p, rest, all) ==
  LET parent == IF Cardinality(DOMAIN all) <= Capacity
                THEN Put(Unlink(tree, Parent(p)), Parent(p), all)
                ELSE Put(tree, p, rest)
  IN  IF DOMAIN all = {} THEN Unlink(parent, Path(p, 1)) ELSE parent

\* merklehead.Remove
RemoveItem(tree, address) ==
  LET level == BottomLevel(tree, address)
      p     == Path(address, level)
      tail  == Rest(address, level)
      rest  == Delete(tree[p], tail)
  IN  IF tree = NoHead \/ Bottomless(tree, address) \/ p \notin DOMAIN tree
      THEN {Outcome(tree, "panic")}
      ELSE IF tail \notin DOMAIN tree[p] THEN {Outcome(tree, "not found")}
      ELSE IF level = 0 THEN {Outcome(Put(tree, p, rest), "ok")}
      ELSE {Outcome(Collapsed(tree, p, rest, Merged(tree, met, rest)), "ok") : met \in Met(tree, p)}

-----------------------------------------------------------------------------
(***************************************************************************)
(* The callers.  A save adds the account's timestamp; a removal of content *)
(* removes it, ignoring "not found"; an account whose level changed is     *)
(* removed and added again with the same timestamp.                        *)
(***************************************************************************)
MerkleInit ==
  /\ head = NoHead
  /\ members = [a \in Addresses |-> 0]
  /\ fate = "running"
  /\ shrunk = FALSE

\* Every tree starts with the root account's bundle: nobody else is enabled.
MayHaveContent(a) == a = RootAccount \/ members[RootAccount] # 0

\* ValidateAndSave adds the bundle's timestamp, which may be lower than the one in
\* the tree: a save with an unchanged root document leaves account.Timestamp alone.
SaveTimestamp(a, timestamp) ==
  /\ fate = "running"
  /\ MayHaveContent(a)
  /\ \/ /\ AddPanics(head, a)
        /\ fate' = "panic"
        /\ UNCHANGED <<head, members>>
     \/ /\ ~AddPanics(head, a)
        /\ head' = AddItem(head, a, timestamp)
        /\ members' = [members EXCEPT ![a] = timestamp]
        /\ UNCHANGED fate
  /\ UNCHANGED shrunk

RemoveContent(a) ==
  /\ fate = "running"
  /\ a # RootAccount
  /\ members[a] # 0
  /\ \E o \in RemoveItem(head, a) :
       \/ /\ o.status = "panic"
          /\ fate' = "panic"
          /\ UNCHANGED <<head, members>>
       \/ /\ o.status # "panic"
          /\ head' = o.tree
          /\ members' = [members EXCEPT ![a] = 0]
          /\ UNCHANGED fate
  /\ shrunk' = TRUE

ChangeLevel(a) ==
  /\ fate = "running"
  /\ a # RootAccount
  /\ members[a] # 0
  /\ \E o \in RemoveItem(head, a) :
       IF o.status = "panic" \/ AddPanics(o.tree, a)
       THEN fate' = "panic" /\ UNCHANGED head
       ELSE head' = AddItem(o.tree, a, members[a]) /\ UNCHANGED fate
  /\ shrunk' = TRUE
  /\ UNCHANGED members

MerkleNext ==
  \E a \in Addresses :
    \/ \E timestamp \in 1..MaxTimestamp : SaveTimestamp(a, timestamp)
    \/ RemoveContent(a)
    \/ ChangeLevel(a)

MerkleSpec == MerkleInit /\ [][MerkleNext]_merkleVars

-----------------------------------------------------------------------------
\* What a reader finds under an address, walking down from the root document:
\* 0 for nothing.
Lookup(a) ==
  LET level == BottomLevel(head, a)
      p     == Path(a, level)
      tail  == Rest(a, level)
  IN  IF ~Bottomless(head, a) /\ p \in DOMAIN head /\ tail \in DOMAIN head[p]
      THEN head[p][tail] ELSE 0

\* Every path from the root document to a timestamp.
Recorded == UNION {{p \o t : t \in DOMAIN head[p]} : p \in DOMAIN head}

-----------------------------------------------------------------------------
\* Documents of timestamps, none above another, whose tails shrink by a digit a
\* level.
IsTree(tree) ==
  /\ \A p \in DOMAIN tree :
       /\ p \in Seq(Digits)
       /\ \A t \in DOMAIN tree[p] :
            /\ t \in Seq(Digits)
            /\ Len(p) + Len(t) <= AddressLength
            /\ tree[p][t] \in 1..MaxTimestamp
  /\ \A p, q \in DOMAIN tree : Under(q, p) => p = q

\* The head is such a tree, and no document is empty.
MerkleTypeOK ==
  /\ IsTree(head)
  /\ head = NoHead \/ \A p \in DOMAIN head : DOMAIN head[p] # {}
  /\ members \in [Addresses -> 0..MaxTimestamp]
  /\ fate \in {"running", "panic"}
  /\ shrunk \in BOOLEAN

\* While nothing is removed the tree records exactly the accounts that have
\* content, each under its whole address with the timestamp added last, through
\* every split and every update of a full document.
RecordsMembers ==
  ~shrunk =>
    /\ Recorded = {a \in Addresses : members[a] # 0}
    /\ \A a \in Addresses : Lookup(a) = members[a]

\* With removals the tree may lose accounts, but what it shows under an address
\* is true: a removed account is gone whatever document it was folded into,
\* and no timestamp that was replaced comes back.
NothingStale ==
  \A a \in Addresses : Lookup(a) # 0 => Lookup(a) = members[a]

\* A full document is split by one digit, and all of its entries may share it, so
\* that a child outgrows the capacity by the entry that did not fit.  The entries
\* of splits pile up by no more than that: one a level.
DocsBounded ==
  \A p \in DOMAIN head : Cardinality(DOMAIN head[p]) <= Capacity + Len(p)

-----------------------------------------------------------------------------
(***************************************************************************)
(* What the code says of itself and does not keep: TLC refutes each with   *)
(* the configuration Unkept (see the README).                              *)
(***************************************************************************)

\* removeItemRecursive's comment (recurse.go:176-186): the accounts that remain
\* are carried up, "if we are 16 or less, construct a new doc with the
\* accounts/timestamps".  So the tree records whole addresses, of the accounts
\* that have content.
FoldKeepsAccounts == Recorded = {a \in Addresses : members[a] # 0}

\* The tree of a node that got every current bundle directly, once, in this order.
BuiltInOrder(order) ==
  FoldLeft(LAMBDA tree, a : AddItem(tree, a, members[a]), NoHead, order)

\* Two nodes that hold the same bundles have the same merklehead: anything else
\* is a "consensus bug!!" (rpc_sync_finished.go:44).  So a node's head is one
\* that a newcomer, adding the same bundles, can arrive at.
SameContentSameHead ==
  \E order \in SetToSeqs({a \in Addresses : members[a] # 0}) :
    head = BuiltInOrder(order)

=============================================================================
