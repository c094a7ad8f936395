SPECIFICATION WritesSpec
CHECK_DEADLOCK FALSE
SYMMETRY Symmetry
CONSTANTS
  h1 = h1
  h2 = h2
  s1 = s1
  s2 = s2
  Session <- MCSession
  Handler <- MCHandler
  IdleTtl = 2
  AbsoluteTtl = 3
  MaxTime = 3
  p1 = p1
  Principal = {p1}
  OwnerOf <- MCOwnerOf
  MaxWrites = 1
  Window = 1
  NoSession = NoSession
  NoRow = NoRow
INVARIANTS
  ExpiryFollowsActivity
  LogoutIsFinal
  WritesAreMetered
PROPERTIES
  SessionsOnlyAdvance
