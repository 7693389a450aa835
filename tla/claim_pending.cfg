CONSTANTS
  JobID = {1}
  Key = {"k"}
  NoKey = NoKey
  KeyOf <- MCNoKeys
  PriorityOf <- MCPriorityOf
  MaxAttemptsOf <- MCMaxAttemptsOf
  Deferred = {}
  Checkpointing = {}
  Embedded = {}
  BatchSize = 1
  Worker = {w1}
  Client = {c1}
  MaxTouches = 1
  MaxFaults = 0
  MaxErrors = 0
  MaxCrashes = 0
SPECIFICATION Spec
PROPERTY DocumentedContract
CHECK_DEADLOCK FALSE
