---------------------------- MODULE MCShutdown ----------------------------
(* Constant values for model checking Shutdown on small instances.         *)
EXTENDS Shutdown

MCNoKeys == [j \in JobID |-> NoKey]
MCPriorityOf == [j \in JobID |-> j]
MCMaxAttemptsOf == [j \in JobID |-> 2]
===========================================================================
