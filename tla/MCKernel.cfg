CONSTANTS
  ServiceCount = 2
  SlotCount = 2
  BudgetMax = 1
  EpochSpan = 3
  Caps = {msg}
  MsgCap = msg
SPECIFICATION Spec
VIEW WorldAndMessages
INVARIANTS
  FreeSlotIsClear
  QueuedHasReceiver
PROPERTY ImplementsContract
