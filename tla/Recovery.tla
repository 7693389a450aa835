------------------------------ MODULE Recovery ------------------------------
(***************************************************************************)
(* recovery/manager.go.  Every ScanInterval RecoverStuckJobs takes a       *)
(* snapshot of the running jobs whose visibility timeout has passed and    *)
(* writes each of them back as retrying or dead_letter.  It does not know  *)
(* whether the worker died or is still at work, and does not reread a job  *)
(* before writing.                                                         *)
(***************************************************************************)
EXTENDS JobStore

VARIABLE rbatch    \* the rest of the snapshot: id -> record, NoJob when done

NoStuck == [j \in JobID |-> NoJob]

RecoveryTypeOK == rbatch \in [JobID -> JobRec \cup {NoJob}]

RecoveryInit == rbatch = NoStuck

\* Time passes: the StartedAt of a running job falls behind the cutoff.
VisibilityElapse(j) ==
    /\ jobs[j].state = "running"
    /\ j \notin overdue
    /\ overdue' = overdue \cup {j}
    /\ UNCHANGED <<jobs, results, checkpoints, idempotency, rbatch>>

\* Mutant: only jobs with attempts left are looked for.
RecoveryScanWithAttempts ==
    LET stuck == {j \in GetStuck : jobs[j].attempt < MaxAttemptsOf[j]}
    IN  /\ rbatch = NoStuck
        /\ stuck # {}
        /\ rbatch' = [j \in JobID |-> IF j \in stuck THEN jobs[j] ELSE NoJob]
        /\ UNCHANGED storeVars

RecoveryScan ==
    /\ rbatch = NoStuck
    /\ GetStuck # {}
    /\ rbatch' = [j \in JobID |-> IF j \in GetStuck THEN jobs[j] ELSE NoJob]
    /\ UNCHANGED storeVars

RecoverWrite(j, rec) ==
    [state   |-> IF rec.attempt < MaxAttemptsOf[j] THEN "retrying" ELSE "dead_letter",
     attempt |-> rec.attempt]

\* One round of the loop; GetStuck's order is that of the uuids, arbitrary.
RecoverJob(j) ==
    /\ rbatch[j] # NoJob
    /\ Update(j, RecoverWrite(j, rbatch[j]))
    /\ rbatch' = [rbatch EXCEPT ![j] = NoJob]

\* The Update fails: the job is left to the next scan.
RecoverFails(j) ==
    /\ rbatch[j] # NoJob
    /\ rbatch' = [rbatch EXCEPT ![j] = NoJob]
    /\ UNCHANGED storeVars
=============================================================================
