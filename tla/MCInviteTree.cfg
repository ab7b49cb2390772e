SPECIFICATION TreeSpec
CONSTANTS
  r = r
  a = a
  b = b
  c = c
  AccountIds <- AllFour
  TreeRoot = r
  ZeroAddress = ZeroAddress
  CanInvite <- Loop
  NameOwners = {a}
  MaxNames = 2
  HeadCapacity = 16
  LastTs = 4
  LvlGaps = {0, 1}
  MaxInvites = 2
  MaxDepth = 12
INVARIANTS
  ContentNotBeforeInvite
  ContentIsTracked
  ContentIsLogged
  EnabledByOldestInvite
  NamesNeedAccount
CHECK_DEADLOCK FALSE
