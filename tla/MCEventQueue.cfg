CONSTANTS
  MaxProduced = 2
  MaxStarts = 2
  MaxDbErrors = 1
  BatchLimit = 2
  MaxAttempts = 2
SPECIFICATION FairSpec
INVARIANTS DeletedWasSent InflightIsOwned DeadIsExhausted
PROPERTIES OldestFirst SettledUnlessStranded
CHECK_DEADLOCK FALSE
