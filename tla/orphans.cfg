CONSTANTS
  JobID = {1, 2}
  Key = {"k"}
  NoKey = NoKey
  KeyOf <- MCSameKey
  PriorityOf <- MCPriorityOf
  MaxAttemptsOf <- MCMaxAttemptsOf
  Deferred = {}
  Checkpointing = {1}
  Embedded = {}
  BatchSize = 1
  Worker = {w1}
  Client = {}
  MaxTouches = 0
  MaxFaults = 0
  MaxErrors = 1
  MaxCrashes = 1
SPECIFICATION FairSpec
INVARIANT TypeOK
INVARIANT IdempotencyIndex
INVARIANT FailedHasResult
PROPERTY RunningEnds
PROPERTY StoreContractHolds
CHECK_DEADLOCK FALSE
