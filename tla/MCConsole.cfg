SPECIFICATION MCSpec
CHECK_DEADLOCK FALSE
CONSTANTS
  m1 = m1
  g1 = g1
  r1 = r1
  r2 = r2
  s1 = s1
  Group <- OneGroup
  Message <- OneMessage
  GroupOf <- OneGroupOf
  MaxAttempts = 0
  MaxSends = 1
  Window = 2
  MaxTime = 3
  MaxCalls = 4
  MaxProcesses = 3
  Token = {s1}
  Request = {r1, r2}
  IdleTtl = 1
  AbsoluteTtl = 2
  MaxFailures = 1
  MaxVerifications = 2
  MaxPages = 2
INVARIANTS WithinRate GuessesAreBounded PageSessionsEnd
SYMMETRY Interchangeable
