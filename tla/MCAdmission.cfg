SPECIFICATION Spec
CONSTANTS
  a1 = a1
  a2 = a2
  s1 = s1
  s2 = s2
  Accounts = {a1, a2}
  Node = node
  DefaultRoot = default
  RootOf <- OwnRoot
  NoRoot = none
  Keys = {nokey}
  Life = 1
  MaxNum = 2
  MaxTime = 4
  MaxStops = 2
  SessionIds = {s1, s2}
SYMMETRY Symmetry
CHECK_DEADLOCK FALSE
INVARIANT GlobalsMatchDb
INVARIANT RedeemedWereInvited
INVARIANT RootHasAccount
PROPERTY KeepsWayToRoot
PROPERTY GoodInvitesStay
