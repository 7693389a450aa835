------------------------- MODULE GopherQueueSafety -------------------------
(***************************************************************************)
(* Proofs of the safety properties that follow from one inductive          *)
(* invariant each: VerdictMatchesAttempts, DeadLetterEarned,               *)
(* IdempotencyIndex.                                                       *)
(***************************************************************************)
EXTENDS GopherQueueProofs

-----------------------------------------------------------------------------
(* VerdictMatchesAttempts.                                                 *)

\* The verdicts of Fail and of the recovery manager fit the counter of the
\* record they were taken on, and Complete, Cancel, Retry and the scheduler
\* pass no verdict.
LEMMA VerdictsFit ==
    ASSUME NEW j \in JobID, NEW rec \in JobRec \cup {NoJob}
    PROVE  /\ VerdictFits(j, RecoverWrite(j, rec))
           /\ \A category :
                 /\ VerdictFits(j, FailWrite(j, rec, category))
                 /\ FailWrite(j, rec, category).state \in {"retrying", "failed", "dead_letter"}
           /\ \A s \in JobState \ {"dead_letter", "retrying", "failed"}, n \in Nat :
                 VerdictFits(j, [state |-> s, attempt |-> n])
           /\ VerdictFits(j, NoJob)
  <1>1. rec.attempt \in Nat /\ MaxAttemptsOf[j] \in Int
    BY RecordFacts, JobAssumption
  <1> QED
    BY <1>1 DEF VerdictFits, RecoverWrite, FailWrite, NoJob

\* A whole-record write of a fitting record keeps every stored verdict
\* fitting.
LEMMA VerdictUpdate ==
    ASSUME StoreTypeOK, VerdictMatchesAttempts, NEW j \in JobID, NEW rec \in JobRec,
           VerdictFits(j, rec), Update(j, rec)
    PROVE  VerdictMatchesAttempts'
  <1>1. \A i \in JobID : jobs'[i] \in {jobs[i], NoJob} \/ (i = j /\ jobs'[i] = rec)
    BY DEF StoreTypeOK, Update
  <1> QED
    BY <1>1, VerdictsFit DEF VerdictMatchesAttempts

\* A record without a verdict fits.
LEMMA VerdictUpdateState ==
    ASSUME StoreTypeOK, VerdictMatchesAttempts, NEW j \in JobID, UpdateState(j, "scheduled")
    PROVE  VerdictMatchesAttempts'
  <1>1. jobs[j].attempt \in Nat
    BY RecordFacts DEF StoreTypeOK
  <1>2. [state |-> "scheduled", attempt |-> jobs[j].attempt] \in JobRec
    BY <1>1, RecordFacts DEF JobState
  <1>3. VerdictFits(j, [state |-> "scheduled", attempt |-> jobs[j].attempt])
    BY DEF VerdictFits
  <1> QED
    BY <1>2, <1>3, VerdictUpdate DEF UpdateState

\* VerdictInv is preserved by every step.
LEMMA VerdictStep == TypeOK /\ VerdictInv /\ [Next]_vars => VerdictInv'
  <1> SUFFICES ASSUME TypeOK, VerdictInv, [Next]_vars PROVE VerdictInv'
    OBVIOUS
  <1> USE DEF TypeOK
  <1>0. VerdictMatchesAttempts
    BY DEF VerdictInv
  <1>1. CASE SchedulerStep
    <2>1. VerdictMatchesAttempts'
      BY <1>0, <1>1, VerdictUpdateState
      DEF SchedulerStep, ScheduleScan, ScheduleNext, MarkScheduled, storeVars,
          VerdictMatchesAttempts
    <2> QED
      BY <1>1, <2>1 DEF SchedulerStep, VerdictInv, poolVars
  <1>2. ASSUME NEW j \in JobID, LostMark(j) PROVE VerdictInv'
    BY <1>2 DEF LostMark, ScheduleNext, MarkScheduled, storeVars, VerdictInv,
                VerdictMatchesAttempts, poolVars
  <1>3. CASE DelayedStep
    <2>1. VerdictMatchesAttempts'
      BY <1>0, <1>3, VerdictUpdateState
      DEF DelayedStep, DelayedScan, DelayedNext, storeVars, VerdictMatchesAttempts
    <2> QED
      BY <1>3, <2>1 DEF DelayedStep, VerdictInv, poolVars
  <1>4. ASSUME NEW j \in JobID, ClockStep(j) PROVE VerdictInv'
    BY <1>4 DEF ClockStep, DelayElapse, VisibilityElapse, storeVars, VerdictInv,
                VerdictMatchesAttempts, poolVars
  <1>5. CASE FetcherStep
    BY <1>5 DEF FetcherStep, GetNextJob, Forward, storeVars, VerdictInv,
                VerdictMatchesAttempts
  <1>6. ASSUME NEW w \in Worker, WorkerStep(w) PROVE VerdictInv'
    BY <1>6 DEF WorkerStep, Receive, ClaimRefused, Idle, storeVars, VerdictInv,
                VerdictMatchesAttempts, PoolTypeOK
  <1>7. ASSUME NEW w \in Worker, ClaimStep(w) PROVE VerdictInv'
    <2>1. VerdictMatchesAttempts'
      BY <1>0, <1>7 DEF ClaimStep, Claim, ClaimJob, VerdictMatchesAttempts, VerdictFits,
                  StoreTypeOK
    <2> QED
      BY <1>7, <2>1 DEF ClaimStep, Claim, VerdictInv, PoolTypeOK
  <1>8. ASSUME NEW w \in Worker, HandlerStep(w) PROVE VerdictInv'
    <2>0. worker[w].job \in JobID /\ jobs[worker[w].job] \in JobRec \cup {NoJob}
      BY <1>8 DEF HandlerStep, Succeed, Fail, HandlerReturns, PoolTypeOK, StoreTypeOK
    <2>1. UNCHANGED <<jobs, req>>
      BY <1>8 DEF HandlerStep, Succeed, Fail, HandlerReturns, storeVars
    <2>2. CASE Succeed(w)
      BY <2>1, <2>2 DEF Succeed, HandlerReturns, Idle, CompleteWrite, VerdictInv,
                        VerdictMatchesAttempts, PoolTypeOK
    <2>3. CASE \E category \in ErrorCategory : Fail(w, category)
      <3>1. PICK category \in ErrorCategory : Fail(w, category)
        BY <2>3
      <3> DEFINE write == FailWrite(worker[w].job, jobs[worker[w].job], category)
      <3>2. /\ VerdictFits(worker[w].job, write)
            /\ write.state \in {"retrying", "failed", "dead_letter"}
        BY <2>0, VerdictsFit
      <3> HIDE DEF write
      <3>3. HandlerReturns(w, "fail_save", write)
        BY <3>1 DEF Fail, write
      <3> QED
        BY <2>1, <3>2, <3>3 DEF HandlerReturns, Idle, VerdictInv, VerdictMatchesAttempts,
                                PoolTypeOK
    <2> QED
      BY <1>8, <2>2, <2>3 DEF HandlerStep
  <1>9. ASSUME NEW w \in Worker, CheckpointStep(w) PROVE VerdictInv'
    BY <1>9 DEF CheckpointStep, Checkpoint, SaveCheckpoint, VerdictInv,
                VerdictMatchesAttempts, poolVars
  <1>10. ASSUME NEW w \in Worker, ReportStep(w) PROVE VerdictInv'
    <2>1. VerdictMatchesAttempts'
      <3>1. CASE CompleteUpdate(w) \/ FailUpdate(w)
        <4>1. /\ worker[w].job \in JobID /\ worker[w].write \in JobRec
              /\ Update(worker[w].job, worker[w].write)
          BY <3>1 DEF CompleteUpdate, FailUpdate, PoolTypeOK
        <4>2. VerdictFits(worker[w].job, worker[w].write)
          BY <3>1 DEF CompleteUpdate, FailUpdate, VerdictInv, VerdictFits
        <4> QED
          BY <1>0, <4>1, <4>2, VerdictUpdate
      <3>2. CASE CompleteSave(w) \/ FailSave(w)
        BY <1>0, <3>2 DEF CompleteSave, FailSave, SaveResult, VerdictMatchesAttempts
      <3> QED
        BY <1>10, <3>1, <3>2 DEF ReportStep
    <2> QED
      BY <1>10, <2>1 DEF ReportStep, CompleteUpdate, CompleteSave, FailSave, FailUpdate,
                         Idle, VerdictInv, PoolTypeOK
  <1>11. CASE RecoveryStep
    <2>1. VerdictMatchesAttempts'
      <3>1. CASE RecoveryScan
        BY <1>0, <3>1 DEF RecoveryScan, storeVars, VerdictMatchesAttempts
      <3>2. ASSUME NEW j \in JobID, RecoverJob(j) PROVE VerdictMatchesAttempts'
        <4>1. /\ RecoverWrite(j, rbatch[j]) \in JobRec
              /\ VerdictFits(j, RecoverWrite(j, rbatch[j]))
          BY VerdictsFit, WriteType DEF RecoveryTypeOK
        <4> QED
          BY <1>0, <3>2, <4>1, VerdictUpdate DEF RecoverJob
      <3> QED
        BY <1>11, <3>1, <3>2 DEF RecoveryStep
    <2> QED
      BY <1>11, <2>1 DEF RecoveryStep, VerdictInv, poolVars
  <1>12. CASE RequestStep
    <2>0. UNCHANGED worker
      BY <1>12 DEF RequestStep, poolVars
    <2>1. ASSUME NEW j \in JobID, NEW rec \in Fresh, Submitted(j, rec) PROVE VerdictInv'
      <3>1. VerdictFits(j, rec)
        BY FreshFacts DEF VerdictFits
      <3>2. \A i \in JobID : jobs'[i] = jobs[i] \/ (i = j /\ jobs'[i] = rec)
        BY <2>1 DEF Submitted, Create, storeVars, StoreTypeOK
      <3> QED
        BY <2>0, <2>1, <3>1, <3>2 DEF Submitted, VerdictInv, VerdictMatchesAttempts
    <2>2. ASSUME NEW j \in JobID, DeleteJob(j) PROVE VerdictInv'
      <3>1. \A i \in JobID : jobs'[i] = jobs[i] \/ jobs'[i] = NoJob
        BY <2>2 DEF DeleteJob, Delete, StoreTypeOK
      <3> QED
        BY <2>0, <2>2, <3>1, VerdictsFit DEF DeleteJob, VerdictInv, VerdictMatchesAttempts
    <2>3. ASSUME NEW c \in Client, NEW j \in JobID, NEW force \in BOOLEAN,
                 CancelGet(c, j, force)
          PROVE  VerdictInv'
      BY <2>0, <2>3 DEF CancelGet, CancelWrite, storeVars, VerdictInv,
                        VerdictMatchesAttempts, ApiTypeOK
    <2>4. ASSUME NEW c \in Client, NEW j \in JobID, NEW reset \in BOOLEAN,
                 RetryGet(c, j, reset)
          PROVE  VerdictInv'
      BY <2>0, <2>4 DEF RetryGet, RetryWrite, storeVars, VerdictInv,
                        VerdictMatchesAttempts, ApiTypeOK
    <2> QED
      BY <1>12, <2>1, <2>2, <2>3, <2>4, SubmitFresh DEF RequestStep
  <1>13. ASSUME NEW c \in Client, UpdateStep(c) PROVE VerdictInv'
    <2>1. req[c].job \in JobID /\ req[c].write \in JobRec
      BY <1>13 DEF UpdateStep, RequestUpdate, ApiTypeOK
    <2>2. VerdictFits(req[c].job, req[c].write)
      BY <1>13 DEF UpdateStep, RequestUpdate, VerdictInv, VerdictFits
    <2>3. VerdictMatchesAttempts'
      BY <1>0, <1>13, <2>1, <2>2, VerdictUpdate DEF UpdateStep, RequestUpdate
    <2> QED
      BY <1>13, <2>3 DEF UpdateStep, RequestUpdate, VerdictInv, ApiTypeOK, poolVars
  <1>14. CASE Crash
    BY <1>14 DEF Crash, storeVars, Idle, VerdictInv, VerdictMatchesAttempts
  <1>16. CASE StoreError
    BY <1>16, ErrorDrops DEF storeVars, Idle, VerdictInv, VerdictMatchesAttempts
  <1>15. CASE UNCHANGED vars
    BY <1>15 DEF vars, storeVars, poolVars, VerdictInv, VerdictMatchesAttempts
  <1> QED
    BY <1>1, <1>2, <1>3, <1>4, <1>5, <1>6, <1>7, <1>8, <1>9, <1>10, <1>11, <1>12,
       <1>13, <1>14, <1>15, <1>16 DEF Next

\* VerdictInv holds in every reachable state.
LEMMA VerdictInvariant == Spec => []VerdictInv
  <1>1. Init => VerdictInv
    BY VerdictsFit DEF Init, StoreInit, PoolInit, ApiInit, Idle, VerdictInv,
                       VerdictMatchesAttempts, VerdictFits, NoJob
  <1> QED
    BY <1>1, VerdictStep, TypeCorrect, PTL DEF Spec

\* In every reachable state, for any number of jobs, workers and clients, a
\* dead-lettered job has used its attempts and a retrying or failed one has
\* not, although the verdict was taken on a copy read in an earlier step.
THEOREM VerdictsCorrect == Spec => []VerdictMatchesAttempts
  <1>1. VerdictInv => VerdictMatchesAttempts
    BY DEF VerdictInv
  <1> QED
    BY <1>1, VerdictInvariant, PTL

-----------------------------------------------------------------------------
(* DeadLetterEarned.                                                       *)

\* A write back carries the counter of the record that was read, or zero.
LEMMA WriteAttempt ==
    ASSUME NEW j \in JobID, NEW rec \in JobRec \cup {NoJob}
    PROVE  /\ CompleteWrite(rec).attempt = rec.attempt
           /\ \A category : FailWrite(j, rec, category).attempt = rec.attempt
           /\ CancelWrite(rec).attempt = rec.attempt
           /\ \A reset : RetryWrite(rec, reset).attempt \in {0, rec.attempt}
           /\ RecoverWrite(j, rec).attempt = rec.attempt
           /\ rec.attempt \in Nat
           /\ NoJob.attempt = 0
  BY RecordFacts DEF CompleteWrite, FailWrite, CancelWrite, RetryWrite, RecoverWrite, NoJob

\* A whole-record write cannot raise a counter above the number of claims if
\* the written record does not.
LEMMA AttemptUpdate ==
    ASSUME StoreTypeOK, HistoryTypeOK, NEW j \in JobID, NEW rec \in JobRec, Update(j, rec),
           rec.attempt <= claims[j], \A i \in JobID : jobs[i].attempt <= claims[i]
    PROVE  \A i \in JobID : jobs'[i].attempt <= claims[i]
  BY DEF StoreTypeOK, HistoryTypeOK, Update, NoJob

\* AttemptInv is preserved by every step.
LEMMA AttemptStep == TypeOK /\ AttemptInv /\ [Next]_vars => AttemptInv'
  <1> SUFFICES ASSUME TypeOK, AttemptInv, [Next]_vars PROVE AttemptInv'
    OBVIOUS
  <1> USE DEF TypeOK
  <1> DEFINE Stored == \A i \in JobID : jobs[i].attempt <= claims[i]
  <1>0. Stored /\ \A i \in JobID : jobs[i] \in JobRec \cup {NoJob}
    BY DEF AttemptInv, StoreTypeOK
  <1>a. ASSUME NEW j \in JobID, UpdateState(j, "scheduled"), UNCHANGED claims
        PROVE  Stored'
    <2>1. jobs[j].attempt \in Nat
      BY <1>0, RecordFacts
    <2>2. [state |-> "scheduled", attempt |-> jobs[j].attempt] \in JobRec
      BY <2>1, RecordFacts DEF JobState
    <2> QED
      BY <1>0, <1>a, <2>2, AttemptUpdate DEF UpdateState
  <1>1. CASE SchedulerStep
    <2>1. Stored'
      BY <1>0, <1>1, <1>a DEF SchedulerStep, ScheduleScan, ScheduleNext, MarkScheduled,
                              storeVars, history
    <2> QED
      BY <1>1, <2>1 DEF SchedulerStep, AttemptInv, poolVars, history
  <1>2. ASSUME NEW j \in JobID, LostMark(j) PROVE AttemptInv'
    BY <1>2 DEF LostMark, ScheduleNext, MarkScheduled, storeVars, AttemptInv, poolVars
  <1>3. CASE DelayedStep
    <2>1. Stored'
      BY <1>0, <1>3, <1>a DEF DelayedStep, DelayedScan, DelayedNext, storeVars, history
    <2> QED
      BY <1>3, <2>1 DEF DelayedStep, AttemptInv, poolVars, history
  <1>4. ASSUME NEW j \in JobID, ClockStep(j) PROVE AttemptInv'
    BY <1>4 DEF ClockStep, DelayElapse, VisibilityElapse, storeVars, AttemptInv,
                poolVars, history
  <1>5. CASE FetcherStep
    BY <1>5 DEF FetcherStep, GetNextJob, Forward, storeVars, AttemptInv, history
  <1>6. ASSUME NEW w \in Worker, WorkerStep(w) PROVE AttemptInv'
    <2>1. \A v \in Worker :
             \/ worker'[v] = worker[v]
             \/ worker'[v].write = NoJob /\ worker'[v].job \in JobID \cup {NoID}
      BY <1>6 DEF WorkerStep, Receive, ClaimRefused, Idle, PoolTypeOK
    <2>2. UNCHANGED <<jobs, rbatch, req, claims>>
      BY <1>6 DEF WorkerStep, Receive, ClaimRefused, storeVars, history
    <2>3. ASSUME NEW v \in Worker, worker'[v].job # NoID
          PROVE  worker'[v].write.attempt <= claims[worker'[v].job]
      BY <2>1, <2>3 DEF AttemptInv, NoJob, HistoryTypeOK
    <2> QED
      BY <2>2, <2>3 DEF AttemptInv
  <1>7. ASSUME NEW w \in Worker, ClaimStep(w) PROVE AttemptInv'
    <2>0. worker[w].job \in JobID /\ jobs[worker[w].job].attempt \in Nat
      BY <1>0, <1>7, RecordFacts DEF ClaimStep, Claim, PoolTypeOK
    <2>1. /\ \A i \in JobID : claims[i] <= claims'[i]
          /\ claims'[worker[w].job] = claims[worker[w].job] + 1
      BY <1>7, <2>0 DEF ClaimStep, HistoryTypeOK
    <2>2. Stored'
      BY <1>0, <1>7, <2>0, <2>1, RecordFacts
      DEF ClaimStep, Claim, ClaimJob, StoreTypeOK, HistoryTypeOK
    <2>3. \A i \in JobID : rbatch'[i].attempt <= claims'[i]
      BY <1>7, <2>1, RecordFacts
      DEF ClaimStep, AttemptInv, RecoveryTypeOK, HistoryTypeOK
    <2>4. \A v \in Worker : worker'[v].job # NoID =>
             worker'[v].write.attempt <= claims'[worker'[v].job]
      <3>1. \A v \in Worker : worker'[v].job = worker[v].job /\ worker'[v].write = worker[v].write
        BY <1>7 DEF ClaimStep, Claim, PoolTypeOK
      <3>2. \A v \in Worker : worker[v].write.attempt \in Nat
        BY RecordFacts DEF PoolTypeOK
      <3> QED
        BY <1>7, <2>1, <3>1, <3>2 DEF AttemptInv, PoolTypeOK, ClaimStep, HistoryTypeOK
    <2>5. \A c \in Client : req'[c] # NoRequest =>
             req'[c].write.attempt <= claims'[req'[c].job]
      <3>1. \A c \in Client : req[c] # NoRequest =>
               req[c].write.attempt \in Nat /\ req[c].job \in JobID
        BY RecordFacts DEF ApiTypeOK
      <3> QED
        BY <1>7, <2>1, <3>1 DEF AttemptInv, ClaimStep, HistoryTypeOK
    <2> QED
      BY <2>2, <2>3, <2>4, <2>5 DEF AttemptInv
  <1>8. ASSUME NEW w \in Worker, HandlerStep(w) PROVE AttemptInv'
    <2>0. worker[w].job \in JobID
      BY <1>8 DEF HandlerStep, Succeed, Fail, HandlerReturns, PoolTypeOK
    <2>1. PICK pc, write : HandlerReturns(w, pc, write)
                             /\ write.attempt = jobs[worker[w].job].attempt
      BY <1>0, <1>8, <2>0, WriteAttempt DEF HandlerStep, Succeed, Fail
    <2>2. \A v \in Worker :
             \/ worker'[v] = worker[v]
             \/ worker'[v].job = NoID
             \/ worker'[v].job \in JobID /\ worker'[v].write.attempt = jobs[worker'[v].job].attempt
      BY <2>0, <2>1 DEF HandlerReturns, Idle, PoolTypeOK
    <2> QED
      BY <1>0, <1>8, <2>1, <2>2 DEF HandlerStep, HandlerReturns, storeVars, AttemptInv, history
  <1>9. ASSUME NEW w \in Worker, CheckpointStep(w) PROVE AttemptInv'
    BY <1>9 DEF CheckpointStep, Checkpoint, SaveCheckpoint, AttemptInv, poolVars, history
  <1>10. ASSUME NEW w \in Worker, ReportStep(w) PROVE AttemptInv'
    <2>0. worker[w].job \in JobID /\ worker[w].job # NoID
      BY <1>10, JobAssumption
      DEF ReportStep, CompleteUpdate, CompleteSave, FailSave, FailUpdate, PoolTypeOK, NoID
    <2>1. Stored'
      <3>1. CASE CompleteUpdate(w) \/ FailUpdate(w)
        <4>1. worker[w].write \in JobRec /\ Update(worker[w].job, worker[w].write)
          BY <3>1 DEF CompleteUpdate, FailUpdate, PoolTypeOK
        <4>2. worker[w].write.attempt <= claims[worker[w].job]
          BY <2>0 DEF AttemptInv
        <4> QED
          BY <1>0, <1>10, <2>0, <4>1, <4>2, AttemptUpdate DEF ReportStep, history
      <3>2. CASE CompleteSave(w) \/ FailSave(w)
        BY <1>0, <1>10, <3>2 DEF ReportStep, CompleteSave, FailSave, SaveResult, history
      <3> QED
        BY <1>10, <3>1, <3>2 DEF ReportStep
    <2>2. \A v \in Worker :
             \/ worker'[v].job = worker[v].job /\ worker'[v].write = worker[v].write
             \/ worker'[v].job = NoID
             \/ worker'[v].job \in JobID /\ worker'[v].write = NoJob
      BY <1>10, <2>0 DEF ReportStep, CompleteUpdate, CompleteSave, FailSave, FailUpdate,
                         Idle, PoolTypeOK
    <2> QED
      BY <1>10, <2>1, <2>2 DEF ReportStep, AttemptInv, history, NoJob, HistoryTypeOK
  <1>11. CASE RecoveryStep
    <2>1. CASE RecoveryScan
      <3>1. \A i \in JobID : rbatch'[i] = jobs[i] \/ rbatch'[i] = NoJob
        BY <2>1 DEF RecoveryScan
      <3> QED
        BY <1>0, <1>11, <2>1, <3>1
        DEF RecoveryStep, RecoveryScan, storeVars, AttemptInv, poolVars, history, NoJob,
            HistoryTypeOK
    <2>2. ASSUME NEW j \in JobID, RecoverJob(j) PROVE AttemptInv'
      <3>1. /\ RecoverWrite(j, rbatch[j]) \in JobRec
            /\ RecoverWrite(j, rbatch[j]).attempt <= claims[j]
        BY WriteAttempt, WriteType DEF RecoveryTypeOK, AttemptInv
      <3>2. Stored'
        BY <1>0, <1>11, <2>2, <3>1, AttemptUpdate DEF RecoverJob, RecoveryStep, history
      <3>3. \A i \in JobID : rbatch'[i].attempt <= claims[i]
        BY <2>2 DEF RecoverJob, RecoveryTypeOK, AttemptInv, NoJob, HistoryTypeOK
      <3> QED
        BY <1>11, <3>2, <3>3 DEF RecoveryStep, AttemptInv, poolVars, history
    <2> QED
      BY <1>11, <2>1, <2>2 DEF RecoveryStep
  <1>12. CASE RequestStep
    <2>0. UNCHANGED <<worker, rbatch, claims>>
      BY <1>12 DEF RequestStep, poolVars, history
    <2>1. ASSUME NEW j \in JobID, NEW rec \in Fresh, Submitted(j, rec) PROVE AttemptInv'
      <3>1. rec.attempt = 0
        BY FreshFacts
      <3>2. \A i \in JobID : jobs'[i] = jobs[i] \/ jobs'[i] = rec
        BY <2>1 DEF Submitted, Create, storeVars, StoreTypeOK
      <3> QED
        BY <2>0, <2>1, <3>1, <3>2 DEF Submitted, AttemptInv, HistoryTypeOK
    <2>2. ASSUME NEW j \in JobID, DeleteJob(j) PROVE AttemptInv'
      <3>1. \A i \in JobID : jobs'[i] = jobs[i] \/ jobs'[i] = NoJob
        BY <2>2 DEF DeleteJob, Delete, StoreTypeOK
      <3> QED
        BY <2>0, <2>2, <3>1 DEF DeleteJob, AttemptInv, NoJob, HistoryTypeOK
    <2>3. ASSUME NEW c \in Client, NEW j \in JobID,
                 \/ \E force \in BOOLEAN : CancelGet(c, j, force)
                 \/ \E reset \in BOOLEAN : RetryGet(c, j, reset)
          PROVE  AttemptInv'
      <3>1. PICK write : /\ write.attempt \in {0, jobs[j].attempt}
                         /\ req' = [req EXCEPT ![c] = [job |-> j, write |-> write]]
                         /\ UNCHANGED jobs
        BY <1>0, <2>3, WriteAttempt DEF CancelGet, RetryGet, storeVars
      <3>2. \A d \in Client : \/ req'[d] = req[d]
                              \/ req'[d].job = j /\ req'[d].write.attempt \in {0, jobs[j].attempt}
        BY <3>1 DEF ApiTypeOK
      <3> QED
        BY <1>0, <2>0, <3>1, <3>2 DEF AttemptInv, HistoryTypeOK
    <2> QED
      BY <1>12, <2>1, <2>2, <2>3, SubmitFresh DEF RequestStep
  <1>13. ASSUME NEW c \in Client, UpdateStep(c) PROVE AttemptInv'
    <2>1. /\ req[c].job \in JobID /\ req[c].write \in JobRec
          /\ req[c].write.attempt <= claims[req[c].job]
      BY <1>13 DEF UpdateStep, RequestUpdate, ApiTypeOK, AttemptInv
    <2>2. Stored'
      BY <1>0, <1>13, <2>1, AttemptUpdate DEF UpdateStep, RequestUpdate
    <2> QED
      BY <1>13, <2>2 DEF UpdateStep, RequestUpdate, AttemptInv, ApiTypeOK, poolVars
  <1>14. CASE Crash
    BY <1>0, <1>14 DEF Crash, storeVars, Idle, NoStuck, NoJob, AttemptInv, HistoryTypeOK
  <1>16. CASE StoreError
    BY <1>0, <1>16, ErrorDrops DEF storeVars, Idle, NoJob, AttemptInv, HistoryTypeOK
  <1>15. CASE UNCHANGED vars
    BY <1>15 DEF vars, storeVars, poolVars, history, AttemptInv
  <1> QED
    BY <1>1, <1>2, <1>3, <1>4, <1>5, <1>6, <1>7, <1>8, <1>9, <1>10, <1>11, <1>12,
       <1>13, <1>14, <1>15, <1>16 DEF Next

\* No job is dead-lettered before it was started MaxAttempts times: stale
\* writes and resets can only lower the stored attempt counter.
THEOREM DeadLettersEarned == Spec => []DeadLetterEarned
  <1>1. Init => AttemptInv
    BY DEF Init, StoreInit, PoolInit, RecoveryInit, ApiInit, Idle, NoStuck, NoJob, AttemptInv
  <1>2. TypeOK /\ AttemptInv /\ VerdictMatchesAttempts => DeadLetterEarned
    <2> SUFFICES ASSUME TypeOK, AttemptInv, VerdictMatchesAttempts, NEW j \in JobID
                 PROVE  /\ jobs[j].attempt <= claims[j]
                        /\ jobs[j].state = "dead_letter" => claims[j] >= MaxAttemptsOf[j]
      BY DEF DeadLetterEarned
    <2>1. jobs[j].attempt \in Nat /\ claims[j] \in Nat /\ MaxAttemptsOf[j] \in Int
      BY RecordFacts, JobAssumption DEF TypeOK, StoreTypeOK, HistoryTypeOK
    <2> QED
      BY <2>1 DEF AttemptInv, VerdictMatchesAttempts, VerdictFits
  <1> QED
    BY <1>1, <1>2, AttemptStep, TypeCorrect, VerdictsCorrect, PTL DEF Spec

-----------------------------------------------------------------------------
(* IdempotencyIndex.                                                       *)

\* A write that neither adds nor removes a job leaves the index correct.
LEMMA IndexFrame ==
    ASSUME TypeOK, IdempotencyIndex, UNCHANGED idempotency,
           \A j \in JobID : Exists(j)' <=> Exists(j)
    PROVE  IdempotencyIndex'
  BY JobAssumption DEF IdempotencyIndex, TypeOK, StoreTypeOK, NoID

\* Of all the store's operations only Create and Delete add or remove jobs.
LEMMA UpdateKeepsJobs ==
    ASSUME StoreTypeOK, NEW j \in JobID, NEW rec \in JobRec, Update(j, rec)
    PROVE  /\ UNCHANGED idempotency
           /\ \A i \in JobID : Exists(i)' <=> Exists(i)
  BY RecordFacts DEF StoreTypeOK, Update, Exists

\* The index is inductive as it stands.
LEMMA IndexStep == TypeOK /\ IdempotencyIndex /\ [Next]_vars => IdempotencyIndex'
  <1> SUFFICES ASSUME TypeOK, IdempotencyIndex, [Next]_vars PROVE IdempotencyIndex'
    OBVIOUS
  <1> DEFINE Same == /\ UNCHANGED idempotency
                     /\ \A i \in JobID : Exists(i)' <=> Exists(i)
  <1>0. StoreTypeOK /\ \A i \in JobID : jobs[i].attempt \in Nat
    BY RecordFacts DEF TypeOK, StoreTypeOK
  <1>a. ASSUME NEW j \in JobID, UpdateState(j, "scheduled") PROVE Same
    BY <1>0, <1>a, UpdateKeepsJobs, RecordFacts DEF UpdateState, JobState
  <1>1. CASE SchedulerStep \/ DelayedStep \/ \E j \in JobID : LostMark(j)
    <2>1. Same
      BY <1>1, <1>a DEF SchedulerStep, DelayedStep, LostMark, ScheduleScan, ScheduleNext,
                        MarkScheduled, DelayedScan, DelayedNext, storeVars, Exists
    <2> QED
      BY <2>1, IndexFrame
  <1>2. CASE \/ \E j \in JobID : ClockStep(j)
             \/ FetcherStep
             \/ \E w \in Worker : WorkerStep(w) \/ HandlerStep(w) \/ CheckpointStep(w)
             \/ Crash \/ StoreError
             \/ UNCHANGED vars
    <2>1. UNCHANGED <<jobs, idempotency>>
      BY <1>2, ErrorDrops DEF ClockStep, DelayElapse, VisibilityElapse, FetcherStep, GetNextJob,
                  Forward, WorkerStep, Receive, ClaimRefused, HandlerStep, Succeed, Fail,
                  HandlerReturns, CheckpointStep, Checkpoint, SaveCheckpoint, Crash, vars,
                  storeVars
    <2> QED
      BY <2>1, IndexFrame DEF Exists
  <1>3. ASSUME NEW w \in Worker, ClaimStep(w) PROVE IdempotencyIndex'
    <2>1. Same
      BY <1>0, <1>3, RecordFacts
      DEF ClaimStep, Claim, ClaimJob, Claimable, Exists, StoreTypeOK, TypeOK, PoolTypeOK, NoJob
    <2> QED
      BY <2>1, IndexFrame
  <1>4. ASSUME NEW w \in Worker, ReportStep(w) PROVE IdempotencyIndex'
    <2>1. Same
      BY <1>0, <1>4, UpdateKeepsJobs
      DEF ReportStep, CompleteUpdate, CompleteSave, FailSave, FailUpdate, SaveResult, Exists,
          TypeOK, PoolTypeOK
    <2> QED
      BY <2>1, IndexFrame
  <1>5. CASE RecoveryStep
    <2>1. \A j \in JobID : RecoverWrite(j, rbatch[j]) \in JobRec
      BY WriteType DEF TypeOK, RecoveryTypeOK
    <2>2. Same
      BY <1>0, <1>5, <2>1, UpdateKeepsJobs
      DEF RecoveryStep, RecoveryScan, RecoverJob, storeVars, Exists
    <2> QED
      BY <2>2, IndexFrame
  <1>6. CASE RequestStep
    <2>1. ASSUME NEW j \in JobID, NEW rec \in Fresh, Submitted(j, rec) PROVE IdempotencyIndex'
      <3>1. CASE CanCreate(j)
        <4>1. rec # NoJob /\ KeyOf[j] \in Key \cup {NoKey} /\ NoKey \notin Key /\ j # NoID
          BY FreshFacts, JobAssumption DEF NoID
        <4>2. \A i \in JobID : Exists(i)' <=> Exists(i) \/ i = j
          BY <2>1, <3>1, <4>1 DEF Submitted, Create, Exists, TypeOK, StoreTypeOK
        <4>3. \A k \in Key : idempotency'[k] = IF k = KeyOf[j] THEN j ELSE idempotency[k]
          BY <2>1, <3>1, <4>1 DEF Submitted, Create, TypeOK, StoreTypeOK
        <4> QED
          BY <3>1, <4>1, <4>2, <4>3, JobAssumption
          DEF IdempotencyIndex, CanCreate, TypeOK, StoreTypeOK, NoID
      <3>2. CASE ~CanCreate(j)
        BY <2>1, <3>2, IndexFrame DEF Submitted, storeVars, Exists
      <3> QED
        BY <3>1, <3>2
    <2>2. ASSUME NEW j \in JobID, DeleteJob(j) PROVE IdempotencyIndex'
      <3>1. KeyOf[j] \in Key \cup {NoKey} /\ NoKey \notin Key /\ Exists(j)
        BY <2>2, JobAssumption DEF DeleteJob, Delete
      <3>2. \A i \in JobID : Exists(i)' <=> Exists(i) /\ i # j
        BY <2>2 DEF DeleteJob, Delete, Exists, TypeOK, StoreTypeOK
      <3>3. \A k \in Key : idempotency'[k] = IF k = KeyOf[j] THEN NoID ELSE idempotency[k]
        BY <2>2, <3>1 DEF DeleteJob, Delete, TypeOK, StoreTypeOK
      <3>4. ASSUME NEW k \in Key, idempotency'[k] # NoID
            PROVE  Exists(idempotency[k])' /\ KeyOf[idempotency'[k]] = k
        <4>1. k # KeyOf[j] /\ idempotency'[k] = idempotency[k]
          BY <3>3, <3>4
        <4>2. Exists(idempotency[k]) /\ KeyOf[idempotency[k]] = k
          BY <3>4, <4>1 DEF IdempotencyIndex
        <4>3. idempotency[k] \in JobID /\ idempotency[k] # j
          BY <3>4, <4>1, <4>2 DEF TypeOK, StoreTypeOK
        <4> QED
          BY <3>2, <4>1, <4>2, <4>3 DEF Exists
      <3>5. ASSUME NEW i \in JobID, Exists(i)', KeyOf[i] # NoKey
            PROVE  idempotency'[KeyOf[i]] = i
        <4>1. Exists(i) /\ i # j /\ KeyOf[i] \in Key
          BY <3>2, <3>5, JobAssumption
        <4>2. idempotency[KeyOf[i]] = i /\ (KeyOf[j] # NoKey => idempotency[KeyOf[j]] = j)
          BY <3>1, <3>5, <4>1 DEF IdempotencyIndex
        <4> QED
          BY <3>3, <3>5, <4>1, <4>2
      <3> QED
        BY <3>4, <3>5 DEF IdempotencyIndex
    <2>3. CASE \E c \in Client, j \in JobID, b \in BOOLEAN :
                  CancelGet(c, j, b) \/ RetryGet(c, j, b)
      <3>1. UNCHANGED <<jobs, idempotency>>
        BY <2>3 DEF CancelGet, RetryGet, storeVars
      <3> QED
        BY <3>1, IndexFrame DEF Exists
    <2> QED
      BY <1>6, <2>1, <2>2, <2>3, SubmitFresh DEF RequestStep
  <1>7. ASSUME NEW c \in Client, UpdateStep(c) PROVE IdempotencyIndex'
    <2>1. req[c].job \in JobID /\ req[c].write \in JobRec
      BY <1>7 DEF UpdateStep, RequestUpdate, TypeOK, ApiTypeOK
    <2>2. Same
      BY <1>0, <1>7, <2>1, UpdateKeepsJobs DEF UpdateStep, RequestUpdate
    <2> QED
      BY <2>2, IndexFrame
  <1> QED
    BY <1>1, <1>2, <1>3, <1>4, <1>5, <1>6, <1>7 DEF Next

\* For any number of submissions, deletions and late writes, a key leads to
\* exactly the stored job that carries it: one stored job per key.
THEOREM IndexCorrect == Spec => []IdempotencyIndex
  <1>1. Init => IdempotencyIndex
    BY JobAssumption DEF Init, StoreInit, IdempotencyIndex, Exists
  <1> QED
    BY <1>1, IndexStep, TypeCorrect, PTL DEF Spec
=============================================================================
