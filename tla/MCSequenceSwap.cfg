SPECIFICATION FairSpec
CONSTANTS
  Accounts = {a1, a2, a3}
  BatchSize = 2
  MaxSeq = 4
INVARIANTS
  CaughtUp
  ItemsAreCurrent
  DoneMeansComplete
PROPERTIES
  SwapEnds
CHECK_DEADLOCK FALSE
