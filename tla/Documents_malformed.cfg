SPECIFICATION Spec
CONSTANTS
  None = None
  Largest = 2000000000
  Dispatched <- Malformed
  Proposal <- MCProposal
  Stranger <- MCStranger
  Elapsed <- MCElapsed
  KeyId <- MCKeyId
INVARIANTS
  MalformedDispatchIsRefused
