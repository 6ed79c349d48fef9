CONSTANTS
  ServiceCount = 2
  SlotCount = 2
  BudgetMax = 1
  EpochSpan = 3
  Caps = {msg}
SPECIFICATION Spec
INVARIANTS
  TypeOK
  
  
 
