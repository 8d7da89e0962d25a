SPECIFICATION FairSpec
CONSTANTS
  None = None
  MaxVersion = 3
  Keep = 1
  MaxCrashes = 2
  MaxDbErrors = 1
  Bundle <- BundleSet
INVARIANTS SlotsVerified CacheIsCurrent AnnouncedWasLoaded OnlyFaultsRollBack
PROPERTIES PlacedIsLoaded
