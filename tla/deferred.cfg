CONSTANTS
  JobID = {1, 2}
  Key = {"k"}
  NoKey = NoKey
  KeyOf <- MCNoKeys
  PriorityOf <- MCPriorityOf
  MaxAttemptsOf <- MCMaxAttemptsOf
  Deferred = {1, 2}
  Checkpointing = {}
  Embedded = {1, 2}
  BatchSize = 1
  Worker = {w1}
  Client = {}
  MaxTouches = 0
  MaxFaults = 0
  MaxErrors = 1
  MaxCrashes = 0
SPECIFICATION FairSpec
PROPERTY WaitingIsServed
PROPERTY DelayedIsScheduled
CHECK_DEADLOCK FALSE
