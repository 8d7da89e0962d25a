CONSTANTS
  MaxProduced = 0
  MaxStarts = 2
  MaxDbErrors = 1
  BatchLimit = 2
  MaxAttempts = 2
  p1 = p1
  p2 = p2
  Event <- MCEvent
  Own <- MCEvent
  Batches <- MCBatches
  ClientId = {}
  Invocation <- MCInvocation
  MaxBatchEvents = 2
  MaxChainRetries = 1
  NoClientId = NoClientId
  NoRecord = NoRecord
  NoConn = NoConn
SPECIFICATION PipelineSpec
INVARIANTS DeletedIsChained DeletedIsArchived
SYMMETRY MCSymmetry
CHECK_DEADLOCK FALSE
