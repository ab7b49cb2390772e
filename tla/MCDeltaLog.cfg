SPECIFICATION Spec
CONSTANTS
  Accounts = {a1, a2, a3}
  BatchSize = 2
  WordSize = 16
  MaxSeq = 5
  MaxBoots = 3
INVARIANTS
  TypeOK
  LogIndexAgree
  ToldNotBehindLog
PROPERTIES
  RowsOnlyAtTail
  ImplementsFeed
CHECK_DEADLOCK FALSE
