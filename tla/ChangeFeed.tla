----------------------------- MODULE ChangeFeed ------------------------------
(***************************************************************************)
(* What the delta log promises to the peers that read it: one entry per    *)
(* account that ever changed, holding the number of its last change and    *)
(* whether that change removed the account's content.  A published batch   *)
(* of changes numbers each changed account past everything published       *)
(* before, no two alike, so a reader that has seen everything up to a      *)
(* number finds everything that changed since at higher numbers.           *)
(***************************************************************************)
EXTENDS Integers

CONSTANTS Accounts

VARIABLES
  feed,     \* account -> its last change; seq = 0: never changed
  clock,    \* the highest number handed out to a published change
  epoch     \* numbers only compare within an epoch

feedVars == <<feed, clock, epoch>>

Entry == [seq : Nat, removed : BOOLEAN]

Unchanged0 == [seq |-> 0, removed |-> FALSE]

Init ==
  /\ feed = [a \in Accounts |-> Unchanged0]
  /\ clock = 0
  /\ epoch = 0

\* Atomically publish a change of every account in changed.  Numbers may be
\* skipped: an account that changes twice in one batch keeps the later one.
Publish ==
  \E changed \in SUBSET Accounts :
    /\ feed' \in [Accounts -> Entry]
    /\ clock' \in Nat
    /\ clock' >= clock
    /\ \A a \in Accounts \ changed : feed'[a] = feed[a]
    /\ \A a \in changed : clock < feed'[a].seq /\ feed'[a].seq <= clock'
    /\ \A a, b \in changed : feed'[a].seq = feed'[b].seq => a = b
    /\ epoch' = epoch

\* Forget everything and start numbering afresh, under a new epoch.
Reset ==
  /\ feed' = [a \in Accounts |-> Unchanged0]
  /\ clock' = 0
  /\ epoch' \in Nat
  /\ epoch' # epoch

\* The epoch is given a name when it is first used.
NameEpoch ==
  /\ clock = 0
  /\ epoch' \in Nat
  /\ epoch' # epoch
  /\ UNCHANGED <<feed, clock>>

Next == Publish \/ Reset \/ NameEpoch

Spec == Init /\ [][Next]_feedVars

=============================================================================
