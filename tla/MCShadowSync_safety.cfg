CONSTANTS
  NumParams = 2
  BoolParams = {1}
  Controllable = {1}
  Values = {TRUE, FALSE}
  Refused = {FALSE}
  NoVal = NoVal
  DocCapacity = 3
  MaxPresses = 1
  MaxRequests = 1
  MaxNetFaults = 1
  MaxPubFails = 1
SPECIFICATION Spec
INVARIANTS TypeOK OneUpdateAtATime QuietMeansReported
CHECK_DEADLOCK FALSE
