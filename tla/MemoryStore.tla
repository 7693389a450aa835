----------------------------- MODULE MemoryStore -----------------------------
(***************************************************************************)
(* persistence/memory_store.go, the store of "gq serve" without a          *)
(* database: four maps under one lock, so every operation is atomic.  Its  *)
(* List takes the jobs in map order, stops at the limit and does not sort. *)
(***************************************************************************)
EXTENDS Jobs

VARIABLES jobs, results, checkpoints, idempotency

memVars == <<jobs, results, checkpoints, idempotency>>

MemoryTypeOK ==
    /\ jobs \in [JobID -> JobRec \cup {NoJob}]
    /\ results \in [JobID -> {"success", "failure", "none"}]
    /\ checkpoints \subseteq JobID
    /\ idempotency \in [Key -> JobID \cup {NoID}]

MemoryInit ==
    /\ jobs = [j \in JobID |-> NoJob]
    /\ results = [j \in JobID |-> "none"]
    /\ checkpoints = {}
    /\ idempotency = [k \in Key |-> NoID]

Exists(j) == jobs[j] # NoJob

\* Mutant: the key is only recorded, never looked up.
KeyNeverTaken(j) == FALSE

KeyTaken(j) == KeyOf[j] # NoKey /\ idempotency[KeyOf[j]] # NoID

CanCreate(j) == ~KeyTaken(j) /\ ~Exists(j)

\* A free key is recorded before the id is looked up, and stays recorded when
\* the id turns out to be taken.
Create(j, rec) ==
    /\ idempotency' = IF KeyOf[j] = NoKey \/ KeyTaken(j) THEN idempotency
                      ELSE [idempotency EXCEPT ![KeyOf[j]] = j]
    /\ jobs' = IF CanCreate(j) THEN [jobs EXCEPT ![j] = rec] ELSE jobs
    /\ UNCHANGED <<results, checkpoints>>

\* The job a key leads to; NoID is ErrJobNotFound.
GetByIdempotencyKey(k) ==
    IF idempotency[k] # NoID /\ Exists(idempotency[k]) THEN idempotency[k] ELSE NoID

Update(j, rec) ==
    /\ jobs' = IF Exists(j) THEN [jobs EXCEPT ![j] = rec] ELSE jobs
    /\ UNCHANGED <<results, checkpoints, idempotency>>

UpdateState(j, s) ==
    /\ jobs' = IF Exists(j) THEN [jobs EXCEPT ![j].state = s] ELSE jobs
    /\ UNCHANGED <<results, checkpoints, idempotency>>

\* Mutant: the keys of removed jobs stay taken.
ForgetKeepingKeys(removed) ==
    /\ jobs' = [j \in JobID |-> IF j \in removed THEN NoJob ELSE jobs[j]]
    /\ results' = [j \in JobID |-> IF j \in removed THEN "none" ELSE results[j]]
    /\ checkpoints' = checkpoints \ removed
    /\ UNCHANGED idempotency

\* The maps without the given jobs.
Forget(removed) ==
    /\ jobs' = [j \in JobID |-> IF j \in removed THEN NoJob ELSE jobs[j]]
    /\ results' = [j \in JobID |-> IF j \in removed THEN "none" ELSE results[j]]
    /\ checkpoints' = checkpoints \ removed
    /\ idempotency' = [k \in Key |-> IF \E j \in removed : KeyOf[j] = k
                                     THEN NoID ELSE idempotency[k]]

Delete(j) == Exists(j) /\ Forget({j})

ClaimJob(j) ==
    /\ jobs[j].state \in {"scheduled", "pending"}
    /\ jobs' = [jobs EXCEPT ![j] =
                    [state |-> "running", attempt |-> jobs[j].attempt + 1]]
    /\ UNCHANGED <<results, checkpoints, idempotency>>

SaveResult(j, r) ==
    /\ results' = [results EXCEPT ![j] = r]
    /\ UNCHANGED <<jobs, checkpoints, idempotency>>

SaveCheckpoint(j) ==
    /\ checkpoints' = checkpoints \cup {j}
    /\ UNCHANGED <<jobs, results, idempotency>>

\* Completed and failed jobs that are older than the retention period; a
\* cancelled or dead-lettered job is never cleaned up.
Cleanup(old) ==
    Forget({j \in old : jobs[j].state \in {"completed", "failed"}})
=============================================================================
