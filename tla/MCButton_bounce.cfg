CONSTANTS
  Off = Off
  cb_head <- MCHead
  Time <- MCTime
  SerialAfter = 2
  SerialEvery = 1
  QueueLength = 10
  MaxEdges = 5
SPECIFICATION FairSpec
INVARIANTS TypeOK
PROPERTIES PressIsLong SerialWhilePushed ReleaseSeen PushSeen
CHECK_DEADLOCK FALSE
