CONSTANTS
  Handlers <- MCHandlers
  None = None
  QueueSize = 3
  MaxStarts = 2
  MaxStops = 1
  MaxTicks = 1
  MaxReports = 1
  MaxOutages = 1
  MaxFaults = 1
SPECIFICATION FairSpec
INVARIANTS TypeOK NothingBeforeConnection StartedStays ParamsAlive
PROPERTIES StopEnds HandlerCalled AssociationReported
CHECK_DEADLOCK FALSE
