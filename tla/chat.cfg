SPECIFICATION Spec
CONSTANTS
  MaxCalls = 2
  Spare = 1
  Sent <- Awaited
VIEW View
INVARIANTS
  TypeOK
  SentIsStored
  FailedRowsGo
  ScriptInOrder
  OneChat
CHECK_DEADLOCK FALSE
