SPECIFICATION FairSpec
CONSTANTS
  x = x
  y = y
  z = z
  Bundles = {x, y}
  Linked <- OneLinked
  Inviters <- MCInviters
  MaxSaves = 1
CHECK_DEADLOCK FALSE
PROPERTY DocsSwapEnds
