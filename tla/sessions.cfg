SPECIFICATION Spec
CONSTANTS
  c1 = c1
  c2 = c2
  Base = 3
  MaxPrefix = 3
  MaxFrame = 3
  Conn = {c1, c2}
  Slots = 1
  HelloLen = 3
  SniffLen = 2
  HashLen = 2
  EarlyLen = 2
  ShakeLen = 4
  MinFrame = 3
  Sent = {1, 2, 3}
  MaxData = 7
INVARIANTS
  TypeOK
  FramesOfStream
  KeyStreamsMeet
  OnlyLossIsUnsigned
PROPERTIES
  SessionsEnd
CHECK_DEADLOCK FALSE
