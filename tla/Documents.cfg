SPECIFICATION Spec
CONSTANTS
  None = None
  Largest = 2000000000
  Dispatched <- MCDispatched
  Proposal <- MCProposal
  Stranger <- MCStranger
  Elapsed <- MCElapsed
  KeyId <- MCKeyId
INVARIANTS
  DocumentsAreAdmitted
  PreviewIsAnInput
  NothingIsBoughtInVain
