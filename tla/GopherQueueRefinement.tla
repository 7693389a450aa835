----------------------- MODULE GopherQueueRefinement -----------------------
(***************************************************************************)
(* The server's use of BoltStore implements StoreContract!ImplementedSpec: *)
(* every step of GopherQueue changes the store as one documented operation *)
(* does, or by claiming a pending job, or not at all.  When pending jobs   *)
(* are claimed is in GopherQueueExecutions.                                *)
(***************************************************************************)
EXTENDS GopherQueueSafety

\* What the contract talks about is left alone.
Same == UNCHANGED <<jobs, results, checkpoints>>

\* The contract's job record and absent job are the store's.
LEMMA ContractNames ==
    /\ Contract!NoJob = NoJob
    /\ Contract!JobRec = JobRec
    /\ \A j : Contract!Stored(j) <=> jobs[j] # NoJob
  BY DEF Contract!NoJob, NoJob, Contract!JobRec, JobRec, Contract!JobState, JobState,
         Contract!Stored

\* A whole-record write is the contract's Update, provided that what is
\* written is neither running nor scheduled; on a job that is gone it is no
\* step at all.
LEMMA UpdateRefines ==
    ASSUME StoreTypeOK, NEW j \in JobID, NEW rec \in JobRec, Update(j, rec),
           rec.state \notin {"running", "scheduled"}
    PROVE  Contract!Next \/ Same
  <1>1. CASE Exists(j)
    <2>1. jobs' = [jobs EXCEPT ![j] = rec] /\ jobs'[j] = rec
      BY <1>1 DEF Update, StoreTypeOK
    <2>2. Contract!Update(j)
      BY <1>1, <2>1, ContractNames DEF Contract!Update, Exists, Update
    <2> QED
      BY <2>2 DEF Contract!Next
  <1>2. CASE ~Exists(j)
    BY <1>2 DEF Update, Exists, StoreTypeOK, Same
  <1> QED
    BY <1>1, <1>2

\* The scheduler's marks are the contract's UpdateState.
LEMMA MarkRefines ==
    ASSUME StoreTypeOK, NEW j \in JobID, UpdateState(j, "scheduled")
    PROVE  Contract!Next \/ Same
  <1>1. CASE Exists(j)
    <2>1. jobs[j] \in JobRec
      BY <1>1, RecordFacts DEF StoreTypeOK, Exists
    <2>2. [jobs[j] EXCEPT !.state = "scheduled"] =
             [state |-> "scheduled", attempt |-> jobs[j].attempt]
      BY <2>1 DEF JobRec
    <2>3. jobs' = [jobs EXCEPT ![j] = [state |-> "scheduled", attempt |-> jobs[j].attempt]]
      BY <1>1 DEF UpdateState, Update
    <2>4. jobs' = [jobs EXCEPT ![j].state = "scheduled"]
      BY <2>2, <2>3 DEF StoreTypeOK
    <2>5. Contract!UpdateState(j)
      BY <1>1, <2>4, ContractNames DEF Contract!UpdateState, Exists, UpdateState, Update
    <2> QED
      BY <2>5 DEF Contract!Next
  <1>2. CASE ~Exists(j)
    BY <1>2 DEF UpdateState, Update, Exists, StoreTypeOK, Same
  <1> QED
    BY <1>1, <1>2

\* A claim is the contract's, or the implementations' claim of a pending job.
LEMMA ClaimRefines ==
    ASSUME NEW j \in JobID, ClaimJob(j)
    PROVE  Contract!ImplementedNext
  <1>1. Contract!Start(j)
    BY DEF ClaimJob, Contract!Start
  <1>2. CASE jobs[j].state = "scheduled"
    BY <1>1, <1>2 DEF Contract!ClaimJob, Contract!Next, Contract!ImplementedNext
  <1>3. CASE jobs[j].state = "pending"
    BY <1>1, <1>3 DEF Contract!ClaimPending, Contract!ImplementedNext
  <1> QED
    BY <1>2, <1>3 DEF ClaimJob, Claimable

\* A saved result and a checkpoint are those of the contract.
LEMMA SaveRefines ==
    ASSUME NEW j \in JobID,
           (\E r \in {"success", "failure"} : SaveResult(j, r)) \/ SaveCheckpoint(j)
    PROVE  Contract!Next
  <1>2. CASE \E r \in {"success", "failure"} : SaveResult(j, r)
    BY <1>2 DEF SaveResult, Contract!SaveResult, Contract!Next
  <1>3. CASE SaveCheckpoint(j)
    BY <1>3 DEF SaveCheckpoint, Contract!SaveCheckpoint, Contract!Next
  <1> QED
    BY <1>2, <1>3

\* By the exactness of the index, a free bucket entry means a free key.
LEMMA SubmitRefines ==
    ASSUME StoreTypeOK, IdempotencyIndex, NEW j \in JobID, NEW rec \in Fresh, Submitted(j, rec)
    PROVE  Contract!Next \/ Same
  <1>1. CASE CanCreate(j)
    <2>1. Contract!KeyIsFree(j)
      <3> SUFFICES ASSUME KeyOf[j] # NoKey, NEW i \in JobID, jobs[i] # NoJob
                   PROVE  KeyOf[i] # KeyOf[j]
        BY ContractNames DEF Contract!KeyIsFree
      <3>1. idempotency[KeyOf[j]] = NoID /\ i # NoID
        BY <1>1, JobAssumption DEF CanCreate, NoID
      <3> QED
        BY <3>1 DEF IdempotencyIndex, Exists
    <2>2. Create(j, rec)
      BY <1>1 DEF Submitted
    <2>3. \E s \in {"pending", "delayed"} : rec = [state |-> s, attempt |-> 0]
      BY DEF Fresh, NewJob
    <2>4. Contract!Create(j)
      BY <1>1, <2>1, <2>2, <2>3, ContractNames
      DEF Create, CanCreate, Exists, Contract!Create
    <2> QED
      BY <2>4 DEF Contract!Next
  <1>2. CASE ~CanCreate(j)
    BY <1>2 DEF Submitted, storeVars, Same
  <1> QED
    BY <1>1, <1>2

\* A deletion removes the job, its result and its checkpoint together.
LEMMA DeleteRefines ==
    ASSUME StoreTypeOK, NEW j \in JobID, Delete(j)
    PROVE  Contract!Next
  <1>1. jobs' = [i \in JobID |-> IF i \in {j} THEN NoJob ELSE jobs[i]]
    BY DEF Delete, StoreTypeOK
  <1>2. results' = [i \in JobID |-> IF i \in {j} THEN "none" ELSE results[i]]
    BY DEF Delete, StoreTypeOK
  <1>3. Contract!Remove({j})
    BY <1>1, <1>2, ContractNames DEF Delete, Exists, Contract!Remove
  <1> QED
    BY <1>3 DEF Contract!Next

\* Every step of the server is a documented operation, a claim of a pending
\* job, or changes nothing the contract talks about.
LEMMA ContractStep ==
    TypeOK /\ VerdictInv /\ IdempotencyIndex /\ [Next]_vars
      => [Contract!ImplementedNext]_Contract!contractVars
  <1> SUFFICES ASSUME TypeOK, VerdictInv, IdempotencyIndex, [Next]_vars
               PROVE  Contract!ImplementedNext \/ Same
    BY DEF Same, Contract!contractVars
  <1>0. StoreTypeOK /\ PoolTypeOK /\ RecoveryTypeOK /\ ApiTypeOK
    BY DEF TypeOK
  <1>1. CASE SchedulerStep \/ DelayedStep \/ \E j \in JobID : LostMark(j)
    BY <1>0, <1>1, MarkRefines
    DEF Contract!ImplementedNext, SchedulerStep, DelayedStep, LostMark, ScheduleScan, ScheduleNext, MarkScheduled,
        DelayedScan, DelayedNext, storeVars, Same
  <1>2. CASE \/ \E j \in JobID : ClockStep(j)
             \/ FetcherStep
             \/ \E w \in Worker : WorkerStep(w) \/ HandlerStep(w)
             \/ Crash \/ StoreError
             \/ UNCHANGED vars
    BY <1>2, ErrorDrops
    DEF ClockStep, DelayElapse, VisibilityElapse, FetcherStep, GetNextJob, Forward,
        WorkerStep, Receive, ClaimRefused, HandlerStep, Succeed, Fail, HandlerReturns,
        Crash, vars, storeVars, Same
  <1>3. ASSUME NEW w \in Worker, ClaimStep(w) \/ CheckpointStep(w) \/ CompleteSave(w) \/ FailSave(w)
        PROVE  Contract!ImplementedNext
    <2>1. worker[w].job \in JobID
      BY <1>0, <1>3 DEF ClaimStep, Claim, CheckpointStep, Checkpoint, CompleteSave, FailSave,
                        PoolTypeOK
    <2> QED
      BY <1>3, <2>1, ClaimRefines, SaveRefines
      DEF Contract!ImplementedNext, ClaimStep, Claim, CheckpointStep, Checkpoint, CompleteSave, FailSave
  <1>4. ASSUME NEW w \in Worker, CompleteUpdate(w) \/ FailUpdate(w)
        PROVE  Contract!Next \/ Same
    <2>1. /\ worker[w].job \in JobID /\ worker[w].write \in JobRec
          /\ worker[w].write.state \notin {"running", "scheduled"}
      BY <1>0, <1>4 DEF CompleteUpdate, FailUpdate, PoolTypeOK, VerdictInv
    <2> QED
      BY <1>0, <1>4, <2>1, UpdateRefines DEF CompleteUpdate, FailUpdate
  <1>5. ASSUME RecoveryStep PROVE Contract!Next \/ Same
    <2>1. CASE RecoveryScan
      BY <2>1 DEF RecoveryScan, storeVars, Same
    <2>2. ASSUME NEW j \in JobID, RecoverJob(j) PROVE Contract!Next \/ Same
      <3>1. /\ RecoverWrite(j, rbatch[j]) \in JobRec
            /\ RecoverWrite(j, rbatch[j]).state \notin {"running", "scheduled"}
        BY <1>0, WriteType DEF RecoveryTypeOK, RecoverWrite
      <3> QED
        BY <1>0, <2>2, <3>1, UpdateRefines DEF RecoverJob
    <2> QED
      BY <1>5, <2>1, <2>2 DEF RecoveryStep
  <1>6. ASSUME RequestStep PROVE Contract!Next \/ Same
    <2>1. ASSUME NEW j \in JobID, DeleteJob(j) PROVE Contract!Next
      BY <1>0, <2>1, DeleteRefines DEF DeleteJob
    <2>2. CASE UNCHANGED storeVars
      BY <2>2 DEF storeVars, Same
    <2> QED
      BY <1>0, <1>6, <2>1, <2>2, SubmitRefines, RequestCases
  <1>7. ASSUME NEW c \in Client, UpdateStep(c) PROVE Contract!Next \/ Same
    <2>1. /\ req[c].job \in JobID /\ req[c].write \in JobRec
          /\ req[c].write.state \notin {"running", "scheduled"}
      BY <1>0, <1>7 DEF UpdateStep, RequestUpdate, ApiTypeOK, VerdictInv
    <2> QED
      BY <1>0, <1>7, <2>1, UpdateRefines DEF UpdateStep, RequestUpdate
  <1> QED
    BY <1>1, <1>2, <1>3, <1>4, <1>5, <1>6, <1>7
    DEF Next, ReportStep, Contract!ImplementedNext

\* However stale the records its goroutines write and wherever the server
\* crashes, what happens to the stored jobs is a sequence of the interface's
\* documented operations and of claims of pending jobs.  The latter is what
\* the code does beyond the document (DocumentedContract does not hold).
THEOREM ContractKept == Spec => StoreContractHolds
  <1>1. Init => Contract!Init
    BY ContractNames DEF Init, StoreInit, Contract!Init
  <1> QED
    BY <1>1, ContractStep, TypeCorrect, VerdictInvariant, IndexCorrect, PTL
    DEF Spec, StoreContractHolds, Contract!ImplementedSpec
=============================================================================
