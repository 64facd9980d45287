CONSTANTS
  Versions <- MCVersions
  Offers <- MCOffers
  Garbage = Garbage
  NoVersion = NoVersion
  MaxOffers = 2
  MaxForces = 1
  MaxCrashes = 1
  MaxFaults = 1
SPECIFICATION FairSpec
INVARIANTS TypeOK TruthfulResult
PROPERTIES NeverDowngrade JobNotReplaced ReportedBeforeCleared AvailableAgain ResultCleared
CHECK_DEADLOCK FALSE
