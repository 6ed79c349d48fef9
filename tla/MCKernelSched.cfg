CONSTANTS
  ServiceCount = 3
  SlotCount = 0
  BudgetMax = 1
  EpochSpan = 2
  Caps = {msg}
  MsgCap = msg
SPECIFICATION Spec
VIEW ForScheduling
INVARIANT RoundRobinBound
 
