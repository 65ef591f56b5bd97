SPECIFICATION Spec
CONSTANTS
  None = None
  Spelled <- Amounts
  Currency = {"USD", "EUR"}
  CallBound = 3
  NoteBound = 2
  DiagnosticBound = 3
INVARIANTS
  CostIsTheExactSum
  OmissionsAreSaid
