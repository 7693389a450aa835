------------------------------ MODULE JobStore ------------------------------
(***************************************************************************)
(* persistence/bolt_store.go, the store "gq serve" runs on.  Every         *)
(* operation is one bbolt transaction: atomic, and durable once it         *)
(* returns.  The buckets are jobs, results, checkpoints and idempotency.   *)
(* The operators below are the operations; a component's action is built   *)
(* from one of them, because between two operations of the same caller     *)
(* any other goroutine may run one of its own.                             *)
(***************************************************************************)
EXTENDS Jobs

VARIABLES jobs,         \* jobs bucket: id -> record, NoJob when absent
          results,      \* results bucket: id -> "success", "failure" or "none"
          checkpoints,  \* checkpoints bucket: the ids that have one
          idempotency,  \* idempotency bucket: key -> id, NoID when absent
          overdue       \* ids whose stored StartedAt is older than VisibilityTimeout

storeVars == <<jobs, results, checkpoints, idempotency, overdue>>

StoreTypeOK ==
    /\ jobs \in [JobID -> JobRec \cup {NoJob}]
    /\ results \in [JobID -> {"success", "failure", "none"}]
    /\ checkpoints \subseteq JobID
    /\ idempotency \in [Key -> JobID \cup {NoID}]
    /\ overdue \subseteq JobID

StoreInit ==
    /\ jobs = [j \in JobID |-> NoJob]
    /\ results = [j \in JobID |-> "none"]
    /\ checkpoints = {}
    /\ idempotency = [k \in Key |-> NoID]
    /\ overdue = {}

Exists(j) == jobs[j] # NoJob

-----------------------------------------------------------------------------
(* Writes.                                                                 *)

\* Mutant: Create does not look the key up.
CanCreateById(j) == ~Exists(j)

\* The two checks of Create: the key is free, then the id is free.
CanCreate(j) ==
    /\ KeyOf[j] # NoKey => idempotency[KeyOf[j]] = NoID
    /\ ~Exists(j)

Create(j, rec) ==
    /\ jobs' = [jobs EXCEPT ![j] = rec]
    /\ idempotency' = IF KeyOf[j] = NoKey THEN idempotency
                      ELSE [idempotency EXCEPT ![KeyOf[j]] = j]
    /\ UNCHANGED <<results, checkpoints, overdue>>

\* Mutant: Update writes the record whether or not the job is there.
Upsert(j, rec) ==
    /\ jobs' = [jobs EXCEPT ![j] = rec]
    /\ UNCHANGED <<results, checkpoints, idempotency, overdue>>

\* The whole record is replaced by the caller's copy, however old that is;
\* ErrJobNotFound, and no effect, when the job is gone.
Update(j, rec) ==
    /\ jobs' = [jobs EXCEPT ![j] = IF Exists(j) THEN rec ELSE NoJob]
    /\ UNCHANGED <<results, checkpoints, idempotency, overdue>>

\* Only the state is replaced, whatever it was.
UpdateState(j, s) ==
    Update(j, [state |-> s, attempt |-> jobs[j].attempt])

\* Mutant: Delete leaves the idempotency key behind.
DeleteKeepingKey(j) ==
    /\ Exists(j)
    /\ jobs' = [jobs EXCEPT ![j] = NoJob]
    /\ results' = [results EXCEPT ![j] = "none"]
    /\ checkpoints' = checkpoints \ {j}
    /\ UNCHANGED <<idempotency, overdue>>

Delete(j) ==
    /\ Exists(j)
    /\ jobs' = [jobs EXCEPT ![j] = NoJob]
    /\ results' = [results EXCEPT ![j] = "none"]
    /\ checkpoints' = checkpoints \ {j}
    /\ idempotency' = IF KeyOf[j] = NoKey THEN idempotency
                      ELSE [idempotency EXCEPT ![KeyOf[j]] = NoID]
    /\ UNCHANGED overdue

\* Mutant: a running job may be claimed again.
ClaimableOrRunning(j) == jobs[j].state \in {"scheduled", "pending", "running"}

Claimable(j) == jobs[j].state \in {"scheduled", "pending"}

\* ClaimJob on a claimable job: StartedAt is now, so the job is not overdue.
ClaimJob(j) ==
    /\ Claimable(j)
    /\ jobs' = [jobs EXCEPT ![j] =
                    [state |-> "running", attempt |-> jobs[j].attempt + 1]]
    /\ overdue' = overdue \ {j}
    /\ UNCHANGED <<results, checkpoints, idempotency>>

\* SaveResult and SaveCheckpoint do not ask whether the job still exists.
SaveResult(j, r) ==
    /\ results' = [results EXCEPT ![j] = r]
    /\ UNCHANGED <<jobs, checkpoints, idempotency, overdue>>

SaveCheckpoint(j) ==
    /\ checkpoints' = checkpoints \cup {j}
    /\ UNCHANGED <<jobs, results, idempotency, overdue>>

-----------------------------------------------------------------------------
(* Queries.                                                                *)

\* The scheduling order: priority, then CreatedAt.
Before(i, j) ==
    \/ PriorityOf[i] < PriorityOf[j]
    \/ PriorityOf[i] = PriorityOf[j] /\ i < j

\* Mutant: a job that was marked once is not returned again.
GetPendingOnly(limit) ==
    LET ready == {j \in JobID : jobs[j].state = "pending"}
    IN  {j \in ready : Cardinality({i \in ready : Before(i, j)}) < limit}

\* Mutant: retrying jobs are returned as well.
GetPendingAndRetrying(limit) ==
    LET ready == {j \in JobID : jobs[j].state \in {"pending", "scheduled", "retrying"}}
    IN  {j \in ready : Cardinality({i \in ready : Before(i, j)}) < limit}

\* Pending and scheduled jobs, the first limit of them in scheduling order.
GetPending(limit) ==
    LET ready == {j \in JobID : Claimable(j)}
    IN  {j \in ready : Cardinality({i \in ready : Before(i, j)}) < limit}

\* Running jobs whose visibility timeout has passed.
GetStuck == {j \in JobID : jobs[j].state = "running" /\ j \in overdue}
=============================================================================
