CONSTANTS
  p1 = p1
  p2 = p2
  Event <- MCEvent
  Own <- MCOwn
  Batches <- MCBatches
  ClientId = {}
  NoClientId = NoClientId
  Invocation <- MCInvocation
  MaxBatchEvents = 3
  MaxChainRetries = 2
  NoRecord = NoRecord
SPECIFICATION FairSpec
INVARIANTS ArchivedFirst RecordTruthful AckedIsChained ConflictMeansProgress
PROPERTIES ImplementsLog Answered
