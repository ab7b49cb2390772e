SPECIFICATION NamesSpec
CONSTANTS
  o1 = o1
  o2 = o2
  o3 = o3
  Owners = {o1, o2, o3}
  NameCount = 2
  MaxTs = 2
  MaxRecords = 5
SYMMETRY OwnerSymmetry
INVARIANTS
  RegisteredAreFound
  OldestFirst
