SPECIFICATION ReplicaSpec
CONSTANTS
  a1 = a1
  e1 = e1
  e2 = e2
  page = page
  junk = junk
  refuses = refuses
  Pinned = Pinned
  None = None
  Attempt = {a1}
  Execution = {e1, e2}
  r1 = r1
  r2 = r2
  Replica = {r1, r2}
  Output = {page, junk, refuses}
  AttemptOf <- Twice
  Offered <- Roles
  Meaning <- Meanings
INVARIANTS
  ReplicaTypeOK
  OnlyReleasedCallsLeave
  CallersHearOneVerdict
PROPERTIES
  EveryCallerIsAnswered
