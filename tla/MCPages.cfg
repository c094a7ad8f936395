SPECIFICATION FairSpec
CONSTANTS
  k1 = k1
  k2 = k2
  i1 = i1
  i2 = i2
  Conn <- MCConn
  Inbox <- MCInbox
  Config <- MCConfig
  Limit = {1, 2}
  MaxId = 3
  MaxRestarts = 2
  NoCursor = NoCursor
INVARIANTS
  WalkIsSnapshot
PROPERTIES WalkEnds
