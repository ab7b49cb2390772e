SPECIFICATION DocsSpec
CONSTANTS
  a = a
  b = b
  r = r
  s = s
  t = t
  x = x
  y = y
  z = z
  Accounts = {a, b}
  Links <- Shared
  NoRoot = NoRoot
  MaxRefs = 4
CHECK_DEADLOCK FALSE
INVARIANT RootsAreHeld
INVARIANT LinksAreHeld
