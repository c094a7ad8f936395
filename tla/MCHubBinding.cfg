SPECIFICATION Spec
CONSTANTS
  c1 = c1
  e1 = e1
  e2 = e2
  o1 = o1
  t1 = t1
  i1 = i1
  p1 = p1
  bot1 = bot1
  bot2 = bot2
  page1 = page1
  Conn <- MCConn
  Event <- MCEvent
  Operation = {o1}
  Text = {t1}
  Inbox = {i1}
  Principal = {p1}
  Account <- MCAccount
  ChannelOf <- MCChannelOf
  NoAccount = NoAccount
  NoRow = NoRow
  Bearer = Bearer
  Server = {s1, s2}
  Config <- MCConfig
  Batches <- MCBatches
  CreateRequests = {}
  AuthorizeRequests = {}
  LegacyDatabases <- MCLegacyDatabases
  MaxLedgerId = 4
  MaxCommandId = 0
  MaxAttempts = 0
  Nobody = Nobody
  NoRequest = NoRequest
  NoAnswer = NoAnswer
INVARIANTS
  OneAccountPerConnection
PROPERTIES
  BindingNeverMoves
