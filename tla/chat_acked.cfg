SPECIFICATION Spec
CONSTANTS
  MaxCalls = 1
  Spare = 0
  Sent <- Awaited
INVARIANTS
  AcknowledgedIsKept
CHECK_DEADLOCK FALSE
