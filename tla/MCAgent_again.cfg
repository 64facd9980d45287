CONSTANTS
  Handlers <- MCHandlers
  None = None
  QueueSize = 3
  MaxStarts = 2
  MaxStops = 1
  MaxTicks = 0
  MaxReports = 0
  MaxOutages = 0
  MaxFaults = 0
SPECIFICATION Spec
INVARIANT StartChecks
CHECK_DEADLOCK FALSE
