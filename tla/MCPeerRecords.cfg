SPECIFICATION Spec
CONSTANTS
  p1 = p1
  p2 = p2
  h0 = h0
  h1 = h1
  h2 = h2
  s1 = s1
  s2 = s2
  Peers = {p1, p2}
  Self = self
  Nobody = nobody
  Hosts = {h0, h1, h2}
  Owner <- MCOwner
  Listening <- MCListening
  Announced <- MCAnnounced
  Port = port
  Bootstraps <- MCBootstraps
  Strangers = {p2}
  Learnable <- MCLearnable
  SessionIds = {s1, s2}
  MaxStops = 1
SYMMETRY Symmetry
INVARIANTS ExpectedAreKnown SwappedWereReached EndpointsDistinct
PROPERTIES NothingForgotten
CHECK_DEADLOCK FALSE
