SPECIFICATION Spec
CONSTANTS
  a1 = a1
  a2 = a2
  b1 = b1
  b1x = b1x
  b2 = b2
  bc = bc
  br = br
  bu = bu
  d1 = d1
  d2 = d2
  d3 = d3
  None = None
  Attempt = {a1, a2}
  Body = {b1, b1x, bc, br, bu}
  Delivery = {d1, d2}
  Limit = 1
  MaxConcurrency = 2
  Horizon = 0
  MaxStarts = 2
  AttemptOf <- MCAttemptOf
  FlawOf <- MCFlawOf
  ExpiresAt <- MCExpiresAt
  Request <- Everything
PROPERTIES
  EveryDeliveryIsAnswered
  ClaimsAreGivenBack
  DrainEnds
  ImplementsLedger
INVARIANTS
  AnswersComeFromTheSameWork
