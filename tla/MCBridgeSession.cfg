CONSTANTS
  g1 = g1
  g2 = g2
  m1 = m1
  m2 = m2
  Group <- MCGroup
  Message <- MCMessage
  GroupOf <- MCGroupOf
  MaxAttempts = 3
  MaxSends = 1
  Window = 1
  MaxTime = 1
  MaxCalls = 1
  MaxProcesses = 2
SPECIFICATION LiveSpec
INVARIANTS StatusIsSocket NothingLostSilently GivingUpIsFinal
PROPERTIES SendsAreEligible ReconnectEnds DeliveryEnds
CHECK_DEADLOCK FALSE
