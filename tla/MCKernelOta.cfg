CONSTANTS
  MaxBlocks = 1
  MaxSeq = 4
  Invalid = Invalid
SPECIFICATION Spec
INVARIANTS
  BootableIsVerified
  StagingSparesRunning
  VerdictIsCurrent
  ActiveIsChosenOrTried
PROPERTY BootMovesToVerified
