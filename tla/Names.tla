-------------------------------- MODULE Names --------------------------------
(***************************************************************************)
(* Package names: which account a name leads to.  Every account may        *)
(* register names in its bundle; the bolt bucket "names" maps a name to    *)
(* the list of its registrations, and the owner with the oldest invite     *)
(* wins (Lookup reads the first record), unless the first two are of one   *)
(* age, which is a conflict.                                               *)
(*                                                                         *)
(* A bundle's save calls Update once, first in its transaction; accounts   *)
(* the save disables follow with RemoveAllForAddress in the same           *)
(* transaction.  The bucket is walked with a cursor while it is written:   *)
(* a key deleted under a bolt cursor may make it skip the next one, once   *)
(* the transaction has written to the bucket before.                       *)
(***************************************************************************)
EXTENDS Integers, Sequences, FiniteSets, SequencesExt

CONSTANTS
  Owners,      \* accounts that register names
  NameCount,   \* names are 1..NameCount, in key order
  MaxTs,       \* invite timestamps are 1..MaxTs
  MaxRecords   \* bound on the registrations kept for one name

ASSUME NamesAssumption == NameCount \in Nat /\ MaxTs \in Nat /\ MaxRecords \in Nat

VARIABLES
  bucket,      \* name -> its registrations; <<>>: no such key
  written,     \* the open transaction has written to the bucket
  registered   \* history: owner -> [timestamp, names] of its current bundle

namesVars == <<bucket, written, registered>>

AllNames == 1..NameCount
Times == 1..MaxTs

\* NameIndexStruct.  What a name points to is the owner's business.
Registration(owner, timestamp) ==
  [owner |-> owner, timestamp |-> timestamp, conflict |-> FALSE]

Nothing == [timestamp |-> 0, names |-> {}]

-----------------------------------------------------------------------------
(***************************************************************************)
(* RemoveAllForAddress, for the records of one name.  dupTimestamps counts *)
(* the records of one age up to the first one removed; alone in that, the  *)
(* first other record of its age is no longer in conflict.  When nothing   *)
(* is removed the count runs to the end of the list.                       *)
(***************************************************************************)
CountedTo(s, owner) ==
  LET mine == {k \in DOMAIN s : s[k].owner = owner}
  IN  IF mine = {} THEN Len(s) ELSE Min(mine)

\* The length of the run of equal timestamps that ends at k.
RunEndingAt(s, k) ==
  Cardinality({j \in 1..k : \A i \in j..k : s[i].timestamp = s[k].timestamp})

ClearFirst(s, timestamp) ==
  LET same == {k \in DOMAIN s : s[k].timestamp = timestamp}
  IN  [k \in DOMAIN s |->
         IF same # {} /\ k = Min(same) THEN [s[k] EXCEPT !.conflict = FALSE] ELSE s[k]]

\* The records of a list that are not the owner's.
Without(s, owner) ==
  LET kept[k \in 0..Len(s)] ==
        IF k = 0 THEN <<>>
        ELSE IF s[k].owner = owner THEN kept[k - 1]
        ELSE Append(kept[k - 1], s[k])
  IN  kept[Len(s)]

\* Variant of RemoveFrom that takes all records of one age with it.
RemoveAgeFrom(s, owner) ==
  SelectSeq(s, LAMBDA r : s # <<>> /\ r.timestamp # s[CountedTo(s, owner)].timestamp)

RemoveFrom(s, owner) ==
  LET upTo == CountedTo(s, owner)
      rest == Without(s, owner)
  IN  IF s # <<>> /\ RunEndingAt(s, upTo) = 1
      THEN ClearFirst(rest, s[upTo].timestamp)
      ELSE rest

\* The names the cursor visits: it may skip one after a name it deleted.
Visits(b, owner, mayskip) ==
  LET deleted(n) == b[n] # <<>> /\ RemoveFrom(b[n], owner) = <<>>
  IN  {v \in SUBSET {n \in AllNames : b[n] # <<>>} :
         \A n \in AllNames \ v :
           b[n] # <<>> =>
             /\ mayskip
             /\ \E m \in v : m < n /\ deleted(m)
                             /\ \A i \in (m + 1)..(n - 1) : b[i] = <<>>}

\* The outcomes of RemoveAllForAddress.
RemoveAll(b, owner, mayskip) ==
  {[n \in AllNames |-> IF n \in v THEN RemoveFrom(b[n], owner) ELSE b[n]]
     : v \in Visits(b, owner, mayskip)}

-----------------------------------------------------------------------------
(***************************************************************************)
(* Update, for the records of one name: the new record goes before every   *)
(* record that is younger or of its age, and at the end otherwise.         *)
(***************************************************************************)
\* Variant of Insert that looks for the younger records only at the end.
InsertAtEnd(s, new) == Append(Without(s, new.owner), new)

\* The loop over the other owners' records: the new list after k of them.
Rounds(others, new) ==
  LET tieAt(k) == others[k].timestamp = new.timestamp
      \* ni is a variable of the loop: once in conflict it stays so
      newAt(k) == [new EXCEPT !.conflict = \E j \in 1..k : tieAt(j)]
      upTo[k \in 0..Len(others)] ==
        IF k = 0 THEN <<>>
        ELSE IF tieAt(k)
          THEN Append(Append(upTo[k - 1], newAt(k)), [others[k] EXCEPT !.conflict = TRUE])
        ELSE IF new.timestamp < others[k].timestamp
          THEN Append(Append(upTo[k - 1], newAt(k)), others[k])
        ELSE Append(upTo[k - 1], others[k])
  IN  upTo

Insert(s, new) ==
  LET others == Without(s, new.owner)
      list == Rounds(others, new)[Len(others)]
      added == \E k \in DOMAIN others : new.timestamp <= others[k].timestamp
  IN  IF added THEN list ELSE Append(list, new)

InsertAll(b, owner, timestamp, names) ==
  [n \in AllNames |->
     IF n \in names THEN Insert(b[n], Registration(owner, timestamp)) ELSE b[n]]

-----------------------------------------------------------------------------
NamesInit ==
  /\ bucket = [n \in AllNames |-> <<>>]
  /\ written = FALSE
  /\ registered = [o \in Owners |-> Nothing]

\* names.Update, called by UpdateNames in a bundle's save.
Update(owner, timestamp, names) ==
  /\ ~written
  /\ \E b \in RemoveAll(bucket, owner, FALSE) :
       bucket' = InsertAll(b, owner, timestamp, names)
  /\ \A n \in AllNames : Len(bucket'[n]) <= MaxRecords
  /\ written' = TRUE
  /\ registered' = [registered EXCEPT ![owner] = [timestamp |-> timestamp, names |-> names]]

\* names.RemoveAllForAddress, called by DisableAccount.
RemoveAllForAddress(owner) ==
  /\ written
  /\ bucket' \in RemoveAll(bucket, owner, TRUE)
  /\ registered' = [registered EXCEPT ![owner] = Nothing]
  /\ UNCHANGED written

Commit ==
  /\ written
  /\ written' = FALSE
  /\ UNCHANGED <<bucket, registered>>

NamesNext ==
  \/ \E owner \in Owners, timestamp \in Times, names \in SUBSET AllNames :
       Update(owner, timestamp, names)
  \/ \E owner \in Owners : RemoveAllForAddress(owner)
  \/ Commit

NamesSpec == NamesInit /\ [][NamesNext]_namesVars

-----------------------------------------------------------------------------
\* Every name has a list of registrations by known owners.
NamesTypeOK ==
  /\ DOMAIN bucket = AllNames
  /\ \A n \in AllNames : \A k \in DOMAIN bucket[n] :
       bucket[n][k] \in [owner : Owners, timestamp : Times, conflict : BOOLEAN]
  /\ written \in BOOLEAN
  /\ registered \in [Owners -> [timestamp : 0..MaxTs, names : SUBSET AllNames]]

\* A bundle's names are all to be found, under the invite it was saved with,
\* whatever other owners did to those names since.
RegisteredAreFound ==
  \A o \in Owners : \A n \in registered[o].names :
    \E k \in DOMAIN bucket[n] :
      bucket[n][k].owner = o /\ bucket[n][k].timestamp = registered[o].timestamp

\* Lookup's answer, the first registration, is at least as old as every owner's
\* that claims the name, though the lists grow duplicates and lose their order
\* behind the first.
OldestFirst ==
  \A o \in Owners : \A n \in registered[o].names :
    bucket[n][1].timestamp <= registered[o].timestamp

-----------------------------------------------------------------------------
(***************************************************************************)
(* What the code says of itself and does not keep: TLC refutes each with   *)
(* the configuration Unkept (see the README).                              *)
(***************************************************************************)

\* "update any conflicts" (names.go:85): after a removal or an update the first
\* record is in conflict exactly when another owner's is as old.
ConflictIffTie ==
  \A n \in AllNames : bucket[n] # <<>> =>
    (bucket[n][1].conflict <=>
       \E r \in ToSet(bucket[n]) :
         r.owner # bucket[n][1].owner /\ r.timestamp = bucket[n][1].timestamp)

\* "we also need to remove the record if it already exists elsewhere"
\* (names.go:129): an owner has one record under a name.
OneRecordPerOwner ==
  \A n \in AllNames : \A j, k \in DOMAIN bucket[n] :
    bucket[n][j].owner = bucket[n][k].owner => j = k

\* "loop through existing names this account has registered and remove them"
\* (names.go:102): a removed account leaves no record behind.
NoneLeftBehind ==
  \A n \in AllNames : \A r \in ToSet(bucket[n]) : n \in registered[r.owner].names

=============================================================================
