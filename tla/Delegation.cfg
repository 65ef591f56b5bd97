SPECIFICATION Spec
CONSTANTS
  x = x
  y = y
  None = None
  ValueBound = 2
  MemberBound = 5
  StepBound = 2
  MaxTurns = 3
  Text <- MCText
  Plan <- MCPlan
  Artifact <- MCArtifact
  Stray <- MCStray
INVARIANTS
  TypeOK
  OneDelegation
  NoDelegationIsPassedOver
  FinalIsTheDelegatedWork
  DecisionsFitTheContract
  LossesShortenTheInput
