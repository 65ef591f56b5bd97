SPECIFICATION Spec
CONSTANTS
  None = None
  Name <- MCName
  Supply <- MCSupply
  Proposal <- MCProposal
INVARIANTS
  PageAsDetermined
  BlameFallsOnItsAuthor
  MotionIsSuppressedLoudly
