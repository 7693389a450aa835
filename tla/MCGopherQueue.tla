--------------------------- MODULE MCGopherQueue ---------------------------
(* Constant values for model checking GopherQueue on small instances.      *)
EXTENDS Invariants, TLC

MCNoKeys == [j \in JobID |-> NoKey]
\* All submissions carry the same idempotency key.
MCSameKey == [j \in JobID |-> "k"]
\* The job created later is the more urgent one ...
MCPriorityOf == [j \in JobID |-> IF j = 1 THEN 2 ELSE 1]
\* ... and has a single attempt; the first one has two.
MCMaxAttemptsOf == [j \in JobID |-> IF j = 1 THEN 2 ELSE 1]

WorkerSymmetry == Permutations(Worker)
=============================================================================
