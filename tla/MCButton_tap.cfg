CONSTANTS
  Off = Off
  cb_head <- MCHead
  Time <- MCTime
  SerialAfter = 2
  SerialEvery = 1
  QueueLength = 10
  MaxEdges = 5
SPECIFICATION Spec
PROPERTIES TapOrPress
CHECK_DEADLOCK FALSE
