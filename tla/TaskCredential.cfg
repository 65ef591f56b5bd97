SPECIFICATION Spec
CONSTANTS
  v1 = v1
  k1 = k1
  k2 = k2
  s1 = s1
  s2 = s2
  None = None
  Verification = {v1}
  KeyID = {k1, k2}
  Secret = {s1, s2}
  Credential <- MCCredential
  Root <- MCRoot
  Task <- MCTask
  MaxSkew = 1
  MaxKeys = 2
  Drift = 1
  Horizon = 5
INVARIANTS
  TypeOK
  AuthorityIsCurrent
  DriftIsForgiven
  AuthorityIsForOneAttempt
PROPERTIES
  RevocationIsFinal
