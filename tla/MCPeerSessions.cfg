SPECIFICATION Spec
CONSTANTS
  p = p
  q = q
  up = up
  up2 = up2
  uq = uq
  s1 = s1
  s2 = s2
  s3 = s3
  s4 = s4
  Peers = {p, q}
  Urls <- MCUrls
  PeerOf <- MCPeerOf
  Recorded = {up}
  MaxLost = 1
  SessionIds = {s1, s2, s3}
SYMMETRY Symmetry
CHECK_DEADLOCK FALSE
INVARIANT DialledOnce
INVARIANT EntriesExplained
INVARIANT AuthedAreBroadcastTo
