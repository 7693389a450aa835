----------------------------- MODULE MCRequests -----------------------------
(* Constant values for model checking Requests on small instances.         *)
EXTENDS Requests, TLC

MCSameKey == [j \in JobID |-> "k"]
MCPriorityOf == [j \in JobID |-> j]
MCMaxAttemptsOf == [j \in JobID |-> 2]

\* A batch of a job without a type and job 1, a submission of job 2, and a
\* request about either; job 2's may be a deletion instead.
MCOpsOf == [r \in Request |->
    CASE r = "batch" -> {"batch"}
      [] r = "submit" -> {"submit", "delete"}
      [] r = "other" -> {"cancel", "retry", "wait"}]
MCItemsOf == [r \in Request |->
    CASE r = "batch" -> <<NoID, 1>>
      [] r = "submit" -> <<2>>
      [] r = "other" -> <<>>]

\* One stream watches job 1, the others everything.
MCTopicOf == [s \in Stream |-> IF s = "one" THEN 1 ELSE Wildcard]

\* One batch of two jobs with the same key.
MCPairOpsOf == [r \in Request |-> {"batch"}]
MCPairItemsOf == [r \in Request |-> <<1, 2>>]
=============================================================================
