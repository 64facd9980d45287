CONSTANTS
  AppTopic <- MCAppTopic
  OtaTopic <- MCOtaTopic
  MaxStarts = 2
  MaxStops = 1
  MaxMessages = 4
  MaxChecks = 2
  MaxReports = 1
  MaxFaults = 1
SPECIFICATION FairSpec
INVARIANTS TypeOK TableSound StateTold
PROPERTIES SignInWhenOut EventuallyTold
CHECK_DEADLOCK FALSE
