SPECIFICATION Spec
CHECK_DEADLOCK FALSE
SYMMETRY Symmetry
CONSTANTS
  p1 = p1
  p2 = p2
  a1 = a1
  a2 = a2
  b1 = b1
  b2 = b2
  Principal <- MCPrincipal
  Account <- MCAccount
  Browser <- MCBrowser
  Transaction = {t1, t2}
  Handler = {h1, h2}
  Config <- MCConfig
  EarlierSessions <- MCEarlierSessions
  MaxRestarts = 1
  Nobody = Nobody
  NoAccount = NoAccount
  NoTransaction = NoTransaction
INVARIANTS
  OneCompletion
  CompletedAreBound
  ConflictsAreGenuine
PROPERTIES
  BindingsAreForever
