CONSTANTS
  JobID = {1}
  Key = {"k"}
  NoKey = NoKey
  KeyOf <- MCNoKeys
  PriorityOf <- MCPriorityOf
  MaxAttemptsOf <- MCMaxAttemptsOf
  Deferred = {}
  Checkpointing = {}
  Embedded = {}
  BatchSize = 1
  Worker = {w1}
  Client = {}
  MaxTouches = 0
  MaxFaults = 0
  MaxErrors = 0
  MaxCrashes = 1
SPECIFICATION Spec
INVARIANT CompletedHasResult
CHECK_DEADLOCK FALSE
