SPECIFICATION Spec
CONSTANTS
  c1 = c1
  c2 = c2
  e1 = e1
  e2 = e2
  o1 = o1
  t1 = t1
  t2 = t2
  i1 = i1
  i2 = i2
  p1 = p1
  p2 = p2
  bot1 = bot1
  bot2 = bot2
  page1 = page1
  Conn <- MCConn
  Event = {e1}
  Operation = {o1}
  Text = {t1, t2}
  Inbox = {i1, i2}
  Principal = {p1, p2}
  Account <- MCAccount
  ChannelOf <- MCChannelOf
  NoAccount = NoAccount
  NoRow = NoRow
  Bearer = Bearer
  Server = {s1, s2}
  Config <- MCConfig
  Batches <- MCBatches
  CreateRequests <- MCReplies
  AuthorizeRequests <- MCOneApproval
  LegacyDatabases <- MCLegacyDatabases
  MaxLedgerId = 2
  MaxCommandId = 2
  MaxAttempts = 1
  Nobody = Nobody
  NoRequest = NoRequest
  NoAnswer = NoAnswer
INVARIANTS
  CommandsCarryEvidence
  AnswersAreTrue
  DeliveriesAreBacked
  StatementsAgree
PROPERTIES
  SerialSpec
SYMMETRY Symmetry
