CONSTANTS
  ServiceCount = 1
  Policy <- Policies
  Required = {0}
  RestartLimit = 1
  MaxRestarts = 1
SPECIFICATION Spec
CHECK_DEADLOCK FALSE
INVARIANT StoppedIsStopped
