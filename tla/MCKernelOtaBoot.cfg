CONSTANTS
  MaxBlocks = 1
  MaxSeq = 2
  Invalid = Invalid
SPECIFICATION Spec
INVARIANT BootIsVerified
