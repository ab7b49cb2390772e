SPECIFICATION FairSpec
CONSTANTS
  x = x
  y = y
  z = z
  Bundles = {x, y, z}
  Linked <- OneLinked
  Inviters <- MCInviters
  MaxSaves = 2
CHECK_DEADLOCK FALSE
INVARIANT WaitersAreServed
 
 
PROPERTY LinkedDocsArrive
