CONSTANTS
  ServiceCount = 2
  SlotCount = 1
  BudgetMax = 1
  EpochSpan = 3
  Caps = {msg}
SPECIFICATION Spec
PROPERTIES
  
  RecoveryCompletes
