CONSTANTS
  NumParams = 1
  BoolParams = {1}
  Controllable = {1}
  Values = {TRUE, FALSE}
  Refused = {}
  NoVal = NoVal
  DocCapacity = 4
  MaxPresses = 1
  MaxRequests = 0
  MaxNetFaults = 0
  MaxPubFails = 1
SPECIFICATION FairSpec
PROPERTIES WorkQueueServed
CHECK_DEADLOCK FALSE
