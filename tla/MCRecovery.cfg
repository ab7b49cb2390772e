SPECIFICATION RecoverySpec
CONSTANTS
  n1 = n1
  n2 = n2
  n3 = n3
  Nodes = {n1, n2, n3}
  Root = root
  Nobody = nobody
  Invites <- MCInvites
  PublicIn = {4}
  PostsAt <- MCPostsAt
  Dials <- MCDials
  Askers = {n3}
  MaxBundles = 2
  MaxBreaks = 1
INVARIANTS OnlyMembersGetBundles
PROPERTIES InvitedGetsIn
CHECK_DEADLOCK FALSE
