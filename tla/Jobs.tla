-------------------------------- MODULE Jobs --------------------------------
(***************************************************************************)
(* The job record of core/job.go, reduced to what the queue's control flow *)
(* reads and writes.                                                       *)
(*                                                                         *)
(* A job's identifier is a fresh uuid; here it is a positive number that   *)
(* also ranks the jobs by CreatedAt, the time NewJob stamps before the job *)
(* reaches the store (two requests may reach the store in either order).   *)
(* What a submission fixes for good (idempotency key, priority, attempt    *)
(* limit, delay) is a constant function of the identifier; what the server *)
(* rewrites (state, attempt counter) is the record kept in the store.      *)
(***************************************************************************)
EXTENDS Integers, FiniteSets

CONSTANTS JobID,          \* identifiers of the jobs clients may submit
          Key,            \* idempotency keys
          NoKey,          \* the empty IdempotencyKey
          KeyOf,          \* Job.IdempotencyKey
          PriorityOf,     \* Job.Priority: 0 (critical) to 4 (bulk), not validated either
          MaxAttemptsOf,  \* Job.MaxAttempts: any integer, the API does not validate it
          Deferred,       \* the jobs submitted with a Delay or a future ScheduledAt
          Checkpointing   \* the jobs whose handler calls Checkpoint

ASSUME JobAssumption ==
    /\ JobID \subseteq Nat \ {0}
    /\ NoKey \notin Key
    /\ KeyOf \in [JobID -> Key \cup {NoKey}]
    /\ PriorityOf \in [JobID -> Int]
    /\ MaxAttemptsOf \in [JobID -> Int]
    /\ Deferred \subseteq JobID
    /\ Checkpointing \subseteq JobID

NoID == 0    \* no job: an empty slot of a channel reader or of the key index

JobState == {"pending", "scheduled", "running", "delayed", "retrying",
             "completed", "failed", "dead_letter", "cancelled"}

JobRec == [state : JobState, attempt : Nat]

\* A job the store does not hold.
NoJob == [state |-> "absent", attempt |-> 0]

\* core.NewJob: pending, no attempt made.
NewJob == [state |-> "pending", attempt |-> 0]

IsTerminal(rec) ==
    rec.state \in {"completed", "failed", "dead_letter", "cancelled"}

\* core.ErrorCategory, what ClassifyError makes of a handler's error.
ErrorCategory == {"temporary", "permanent", "timeout", "system", "rate_limit"}
=============================================================================
