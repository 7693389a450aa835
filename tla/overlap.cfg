CONSTANTS
  JobID = {1}
  Key = {"k"}
  NoKey = NoKey
  KeyOf <- MCNoKeys
  PriorityOf <- MCPriorityOf
  MaxAttemptsOf <- MCMaxAttemptsOf
  Deferred = {}
  Checkpointing = {}
  Embedded = {}
  BatchSize = 1
  Worker = {w1, w2}
  Client = {c1}
  MaxTouches = 1
  MaxFaults = 1
  MaxErrors = 0
  MaxCrashes = 0
SPECIFICATION Spec
SYMMETRY WorkerSymmetry
INVARIANT VerdictMatchesAttempts
INVARIANT RunningIsHeld
INVARIANT BoundedExecutions
INVARIANT NoOverlap
INVARIANT DeadLetterEarned
PROPERTY DeletedStaysDeleted
PROPERTY PendingClaimsExplained
CHECK_DEADLOCK FALSE
