CONSTANTS
  JobID = {1, 2}
  Key = {"k"}
  NoKey = NoKey
  KeyOf <- MCSameKey
  PriorityOf <- MCPriorityOf
  MaxAttemptsOf <- MCMaxAttemptsOf
  Deferred = {}
  Checkpointing = {}
  Request = {"batch"}
  Publisher = {"batch"}
  OpsOf <- MCPairOpsOf
  ItemsOf <- MCPairItemsOf
  Stream = {}
  TopicOf <- MCTopicOf
  Capacity = 1
SPECIFICATION RequestsSpec
INVARIANT AllOrNothing
CHECK_DEADLOCK FALSE
