SPECIFICATION Spec
CONSTANTS
  a1 = a1
  a2 = a2
  e1 = e1
  e2 = e2
  e3 = e3
  page = page
  other = other
  Pinned = Pinned
  None = None
  Attempt = {a1, a2}
  Execution = {e1, e2, e3}
  Output = {page, other}
  AttemptOf <- Shared
  Offered <- ComposingOrPlanning
  Meaning <- Meanings
SYMMETRY Alike
INVARIANTS
  DecisionsAreBoughtOnce
  OneCandidatePerAttempt
  RecordsStandOnBoughtOutput
  UsageIsTheAttemptsOwn
