SPECIFICATION MerkleSpec
CONSTANTS
  Digits = {0, 1}
  Addresses <- ThreeDigits
  RootAccount <- Root3
  MaxTimestamp = 2
INVARIANTS
  NothingStale
  DocsBounded
  RecordsMembers
CHECK_DEADLOCK FALSE
