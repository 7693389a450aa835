CONSTANTS
  JobID = {1, 2}
  Key = {"k"}
  NoKey = NoKey
  KeyOf <- MCSameKey
  PriorityOf <- MCPriorityOf
  MaxAttemptsOf <- MCMaxAttemptsOf
  Deferred = {}
  Checkpointing = {1}
  Request = {"batch", "submit", "other"}
  Publisher = {"batch", "submit", "other"}
  OpsOf <- MCOpsOf
  ItemsOf <- MCItemsOf
  Stream = {"one", "all"}
  TopicOf <- MCTopicOf
  Capacity = 1
SPECIFICATION RequestsSpec
INVARIANT KeyIndexExact
INVARIANT BatchCounts
INVARIANT NoSendOnClosed
INVARIANT OfferedOnce
PROPERTY MemoryKeepsContract
PROPERTY RequestsEnd
CHECK_DEADLOCK FALSE
