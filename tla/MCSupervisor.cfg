CONSTANTS
  ServiceCount = 2
  Policy <- Policies
  Required = {0}
  RestartLimit = 2
  MaxRestarts = 1
SPECIFICATION Spec
\* Once FreeRTOS's lists are corrupt the model makes no statement and stops.
CHECK_DEADLOCK FALSE
INVARIANTS
  TypeOK
  RestartsWithinPolicy
  FailedOnlyWhenExhausted
  CalmIsOrderly
PROPERTIES
  BackoffEnds
  GivesUpToDegraded
