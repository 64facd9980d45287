CONSTANTS
  Versions <- FewVersions
  Offers <- FewOffers
  Garbage = Garbage
  NoVersion = NoVersion
  MaxOffers = 1
  MaxForces = 0
  MaxCrashes = 0
  MaxFaults = 0
SPECIFICATION FairSpec
PROPERTIES AlwaysAvailableAgain
CHECK_DEADLOCK FALSE
