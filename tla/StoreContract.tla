---------------------------- MODULE StoreContract ----------------------------
(***************************************************************************)
(* What persistence/store.go promises the rest of the server, whichever    *)
(* implementation is used: every operation is atomic, and idempotency is a *)
(* statement about the stored jobs, with no index in sight.  The callers'  *)
(* side of the contract is here too: a stored job becomes running only by  *)
(* ClaimJob and scheduled only by UpdateState, both of which work on the   *)
(* record the store has, never on a caller's copy.                         *)
(*                                                                         *)
(* Spec is what the interface documents.  Both implementations also let a  *)
(* pending job be claimed, which it does not: ImplementedSpec allows that, *)
(* and nothing else, on top of it.                                         *)
(***************************************************************************)
EXTENDS Jobs

VARIABLES jobs,         \* id -> record, NoJob when not stored
          results,      \* id -> "success", "failure" or "none"
          checkpoints   \* ids that have a checkpoint

contractVars == <<jobs, results, checkpoints>>

Init ==
    /\ jobs = [j \in JobID |-> NoJob]
    /\ results = [j \in JobID |-> "none"]
    /\ checkpoints = {}

Stored(j) == jobs[j] # NoJob

\* "Returns ErrJobAlreadyExists if a job with the same idempotency key exists."
KeyIsFree(j) ==
    KeyOf[j] # NoKey => \A i \in JobID : Stored(i) => KeyOf[i] # KeyOf[j]

Create(j) ==
    /\ ~Stored(j)
    /\ KeyIsFree(j)
    /\ \E s \in {"pending", "delayed"} :
          jobs' = [jobs EXCEPT ![j] = [state |-> s, attempt |-> 0]]
    /\ UNCHANGED <<results, checkpoints>>

\* Update: "The job must already exist."  The new record is the caller's.
Update(j) ==
    /\ Stored(j)
    /\ jobs'[j] \in JobRec
    /\ jobs'[j].state \notin {"running", "scheduled"}
    /\ jobs' = [jobs EXCEPT ![j] = jobs'[j]]
    /\ UNCHANGED <<results, checkpoints>>

UpdateState(j) ==
    /\ Stored(j)
    /\ jobs' = [jobs EXCEPT ![j].state = "scheduled"]
    /\ UNCHANGED <<results, checkpoints>>

Start(j) ==
    /\ jobs' = [jobs EXCEPT ![j] = [state |-> "running", attempt |-> jobs[j].attempt + 1]]
    /\ UNCHANGED <<results, checkpoints>>

\* "ClaimJob atomically transitions a job from scheduled to running."
\* A job is running once per claim, and every claim counts as an attempt.
ClaimJob(j) ==
    /\ jobs[j].state = "scheduled"
    /\ Start(j)

\* What BoltStore.ClaimJob and MemoryStore.ClaimJob do beyond that promise.
ClaimPending(j) ==
    /\ jobs[j].state = "pending"
    /\ Start(j)

SaveResult(j) ==
    /\ \E r \in {"success", "failure"} : results' = [results EXCEPT ![j] = r]
    /\ UNCHANGED <<jobs, checkpoints>>

SaveCheckpoint(j) ==
    /\ checkpoints' = checkpoints \cup {j}
    /\ UNCHANGED <<jobs, results>>

\* Delete of one job, Cleanup of several: nothing of them is left.
Remove(gone) ==
    /\ \A j \in gone : Stored(j)
    /\ jobs' = [j \in JobID |-> IF j \in gone THEN NoJob ELSE jobs[j]]
    /\ results' = [j \in JobID |-> IF j \in gone THEN "none" ELSE results[j]]
    /\ checkpoints' = checkpoints \ gone

\* The documented operations.
Next ==
    \/ \E j \in JobID :
          \/ Create(j)
          \/ Update(j)
          \/ UpdateState(j)
          \/ ClaimJob(j)
          \/ SaveResult(j)
          \/ SaveCheckpoint(j)
    \/ \E gone \in SUBSET JobID : Remove(gone)

Spec == Init /\ [][Next]_contractVars

\* The operations as implemented.
ImplementedNext == Next \/ \E j \in JobID : ClaimPending(j)

ImplementedSpec == Init /\ [][ImplementedNext]_contractVars
=============================================================================
