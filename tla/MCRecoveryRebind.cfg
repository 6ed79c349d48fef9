CONSTANTS
  ServiceCount = 1
  SlotCount = 1
  BudgetMax = 1
  EpochSpan = 4
  Caps = {msg}
SPECIFICATION Spec
PROPERTY EpochOnlyByTransaction
