------------------------------ MODULE MCRecovery ------------------------------
EXTENDS Recovery

CONSTANTS n1, n2, n3

\* The root invites n1 and n2, withdraws the invite of n2, gives it again, and makes the
\* tree public; n2 invites n3.
MCInvites ==
  [a \in TreeAccounts |->
     CASE a = Root -> <<{n1, n2}, {n1}, {n1, n2}, {n1, n2}>> [] a = n2 -> <<{n3}>>
       [] OTHER -> <<>>]

MCPostsAt == [a \in TreeAccounts |-> IF a = Root THEN {n1} ELSE {a}]

MCDials == {<<n1, n2>>, <<n3, n1>>}

=============================================================================
