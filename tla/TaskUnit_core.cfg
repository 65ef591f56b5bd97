SPECIFICATION Spec
CONSTANTS
  a1 = a1
  a2 = a2
  b1 = b1
  b1x = b1x
  b2 = b2
  bc = bc
  br = br
  bu = bu
  d1 = d1
  d2 = d2
  d3 = d3
  None = None
  Attempt = {a1, a2}
  Body = {b1, b1x, b2}
  Delivery = {d1, d2, d3}
  Limit = 1
  MaxConcurrency = 2
  Horizon = 1
  MaxStarts = 1
  AttemptOf <- MCAttemptOf
  FlawOf <- MCFlawOf
  ExpiresAt <- MCExpiresAt
  Request <- WellFormed
SYMMETRY Symmetry
INVARIANTS
  TypeOK
  OneExecutionPerAttempt
  ExecutionsAccountedFor
  ReuseIsReal
  ExpiredWorkNeverStarts
  CountersMatchHandlers
  CleanDrainLeavesNothing
PROPERTIES
  AnswersAreStable
