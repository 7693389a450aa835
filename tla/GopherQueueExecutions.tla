----------------------- MODULE GopherQueueExecutions -----------------------
(***************************************************************************)
(* Proofs about who runs a job and how often, and about what late writes   *)
(* may and may not do: DeletedStaysDeleted, RunningIsHeld,                 *)
(* BoundedExecutions, FailedHasResult, NoOverlap, PendingClaimsExplained.  *)
(***************************************************************************)
EXTENDS GopherQueueSafety

-----------------------------------------------------------------------------
(* DeletedStaysDeleted.                                                    *)

\* Every write but Create leaves an absent job absent, and Create is only
\* called with a fresh id.
LEMMA AbsentStep ==
    ASSUME TypeOK, [Next]_vars, NEW j \in minted, jobs[j] = NoJob
    PROVE  jobs'[j] = NoJob
  <1>0. /\ j \in JobID /\ StoreTypeOK /\ ~Exists(j)
        /\ jobs[j].state \notin {"pending", "scheduled"}
    BY DEF TypeOK, ApiTypeOK, Exists, NoJob
  <1>a. ASSUME NEW i, NEW rec, Update(i, rec) PROVE jobs'[j] = NoJob
    BY <1>0, <1>a DEF Update, Exists, StoreTypeOK
  <1>b. ASSUME NEW i, NEW s, UpdateState(i, s) PROVE jobs'[j] = NoJob
    BY <1>a, <1>b DEF UpdateState
  <1>c. CASE UNCHANGED jobs
    BY <1>c
  <1>1. CASE SchedulerStep \/ DelayedStep \/ \E i \in JobID : LostMark(i)
    BY <1>1, <1>b, <1>c DEF SchedulerStep, DelayedStep, LostMark, ScheduleScan,
       ScheduleNext, MarkScheduled, DelayedScan, DelayedNext, storeVars
  <1>2. CASE \/ \E i \in JobID : ClockStep(i)
             \/ FetcherStep
             \/ \E w \in Worker : WorkerStep(w) \/ HandlerStep(w) \/ CheckpointStep(w)
             \/ Crash \/ StoreError
             \/ UNCHANGED vars
    BY <1>2, <1>c, ErrorDrops DEF ClockStep, DelayElapse, VisibilityElapse, FetcherStep, GetNextJob,
       Forward, WorkerStep, Receive, ClaimRefused, HandlerStep, Succeed, Fail,
       HandlerReturns, CheckpointStep, Checkpoint, SaveCheckpoint, Crash, vars, storeVars
  <1>3. ASSUME NEW w \in Worker, ClaimStep(w) PROVE jobs'[j] = NoJob
    BY <1>0, <1>3 DEF ClaimStep, Claim, ClaimJob, Claimable, StoreTypeOK
  <1>4. ASSUME NEW w \in Worker, ReportStep(w) PROVE jobs'[j] = NoJob
    BY <1>4, <1>a, <1>c DEF ReportStep, CompleteUpdate, CompleteSave, FailSave,
       FailUpdate, SaveResult
  <1>5. CASE RecoveryStep
    BY <1>5, <1>a, <1>c DEF RecoveryStep, RecoveryScan, RecoverJob, storeVars
  <1>6. CASE RequestStep
    BY <1>0, <1>6, RequestCases DEF Submitted, Create, DeleteJob, Delete, storeVars, StoreTypeOK
  <1>7. ASSUME NEW c \in Client, UpdateStep(c) PROVE jobs'[j] = NoJob
    BY <1>7, <1>a DEF UpdateStep, RequestUpdate
  <1> QED
    BY <1>1, <1>2, <1>3, <1>4, <1>5, <1>6, <1>7 DEF Next

\* No late report, mark, recovery or request brings a deleted job back.
THEOREM DeletionsFinal == Spec => DeletedStaysDeleted
  <1>1. TypeOK /\ [Next]_vars =>
           [\A j \in minted : jobs[j] = NoJob => jobs'[j] = NoJob]_vars
    BY AbsentStep
  <1> QED
    BY <1>1, TypeCorrect, PTL DEF Spec, DeletedStaysDeleted

-----------------------------------------------------------------------------
(* RunningIsHeld.                                                          *)

\* A write to another job, or of a state other than running, or of what was
\* there before, cannot create an unheld running job.
LEMMA HeldStep ==
    TypeOK /\ VerdictInv /\ RunningIsHeld /\ [Next]_vars => RunningIsHeld'
  <1> SUFFICES ASSUME TypeOK, VerdictInv, RunningIsHeld, [Next]_vars,
                      NEW j \in JobID, jobs'[j].state = "running", j \notin orphans'
               PROVE  \E w \in Worker : Holds(w, j)'
    BY DEF RunningIsHeld
  <1> USE DEF TypeOK
  <1>0. StoreTypeOK /\ PoolTypeOK /\ NoJob.state # "running"
    BY DEF NoJob
  <1>a. ASSUME jobs[j].state = "running", j \notin orphans,
               \A w \in Worker : Holds(w, j) => Holds(w, j)'
        PROVE  \E w \in Worker : Holds(w, j)'
    BY <1>a DEF RunningIsHeld
  <1>b. ASSUME NEW i, NEW rec, Update(i, rec), rec.state # "running"
        PROVE  jobs[j].state = "running" /\ i # j
    BY <1>0, <1>b DEF Update, StoreTypeOK
  <1>c. ASSUME NEW i, UpdateState(i, "scheduled")
        PROVE  jobs[j].state = "running"
    BY <1>b, <1>c DEF UpdateState
  <1>1. CASE SchedulerStep \/ DelayedStep \/ \E i \in JobID : LostMark(i)
    <2>1. jobs[j].state = "running"
      BY <1>1, <1>c DEF SchedulerStep, DelayedStep, LostMark, ScheduleScan, ScheduleNext,
         MarkScheduled, DelayedScan, DelayedNext, storeVars
    <2> QED
      BY <1>1, <1>a, <2>1 DEF SchedulerStep, DelayedStep, LostMark, poolVars, history, Holds
  <1>2. CASE (\E i \in JobID : ClockStep(i)) \/ FetcherStep \/ UNCHANGED vars
    BY <1>2, <1>a DEF ClockStep, DelayElapse, VisibilityElapse, FetcherStep, GetNextJob,
       Forward, vars, storeVars, poolVars, history, Holds
  <1>3. ASSUME NEW w \in Worker, WorkerStep(w) PROVE \E v \in Worker : Holds(v, j)'
    BY <1>0, <1>3, <1>a DEF WorkerStep, Receive, ClaimRefused, storeVars, history, Holds,
       Holding, PoolTypeOK
  <1>4. ASSUME NEW w \in Worker, ClaimStep(w) PROVE \E v \in Worker : Holds(v, j)'
    <2>1. CASE worker[w].job = j
      BY <1>0, <1>4, <2>1 DEF ClaimStep, Claim, Holds, Holding, PoolTypeOK
    <2>2. CASE worker[w].job # j
      BY <1>0, <1>4, <1>a, <2>2 DEF ClaimStep, Claim, ClaimJob, Holds, Holding, PoolTypeOK,
         StoreTypeOK
    <2> QED
      BY <2>1, <2>2
  <1>5. ASSUME NEW w \in Worker, HandlerStep(w) PROVE \E v \in Worker : Holds(v, j)'
    <2>0. PICK pc \in {"complete_update", "fail_save"} : \E write : HandlerReturns(w, pc, write)
      BY <1>5 DEF HandlerStep, Succeed, Fail
    <2>1. PICK write : HandlerReturns(w, pc, write)
      BY <2>0
    <2>2. jobs[j].state = "running" /\ j \notin orphans /\ Exists(j)
      BY <1>0, <1>5, <2>1 DEF HandlerStep, HandlerReturns, storeVars, history, Exists
    <2>3. \A v \in Worker : Holds(v, j) => Holds(v, j)'
      BY <1>0, <2>1, <2>2 DEF HandlerReturns, Holds, Holding, PoolTypeOK
    <2> QED
      BY <1>a, <2>2, <2>3
  <1>6. ASSUME NEW w \in Worker, CheckpointStep(w) PROVE \E v \in Worker : Holds(v, j)'
    BY <1>6, <1>a DEF CheckpointStep, Checkpoint, SaveCheckpoint, poolVars, history, Holds
  <1>7. ASSUME NEW w \in Worker, ReportStep(w) PROVE \E v \in Worker : Holds(v, j)'
    <2>1. CASE CompleteUpdate(w) \/ FailUpdate(w)
      <3>1. worker[w].write.state # "running"
        BY <2>1 DEF VerdictInv, CompleteUpdate, FailUpdate
      <3>2. jobs[j].state = "running" /\ worker[w].job # j
        BY <2>1, <3>1, <1>b DEF CompleteUpdate, FailUpdate
      <3>3. \A v \in Worker : Holds(v, j) => Holds(v, j)'
        BY <1>0, <2>1, <3>2 DEF CompleteUpdate, FailUpdate, Holds, PoolTypeOK
      <3> QED
        BY <1>7, <1>a, <3>2, <3>3 DEF ReportStep, history
    <2>2. CASE CompleteSave(w) \/ FailSave(w)
      BY <1>0, <1>7, <1>a, <2>2 DEF ReportStep, CompleteSave, FailSave, SaveResult, history,
         Holds, Holding, PoolTypeOK
    <2> QED
      BY <1>7, <2>1, <2>2 DEF ReportStep
  <1>8. CASE RecoveryStep
    <2>1. jobs[j].state = "running"
      BY <1>8, <1>b DEF RecoveryStep, RecoveryScan, RecoverJob, RecoverWrite, storeVars
    <2> QED
      BY <1>8, <1>a, <2>1 DEF RecoveryStep, poolVars, history, Holds
  <1>9. CASE RequestStep
    <2>1. jobs[j].state = "running"
      BY <1>0, <1>9, RequestCases, FreshFacts DEF Submitted, Create, DeleteJob, Delete,
         storeVars, StoreTypeOK
    <2> QED
      BY <1>9, <1>a, <2>1 DEF RequestStep, poolVars, history, Holds
  <1>10. ASSUME NEW c \in Client, UpdateStep(c) PROVE \E v \in Worker : Holds(v, j)'
    <2>1. req[c].write.state # "running"
      BY <1>10 DEF UpdateStep, RequestUpdate, VerdictInv
    <2>2. jobs[j].state = "running"
      BY <1>10, <1>b, <2>1 DEF UpdateStep, RequestUpdate
    <2> QED
      BY <1>10, <1>a, <2>2 DEF UpdateStep, poolVars, Holds
  <1>11. CASE Crash
    BY <1>11 DEF Crash, storeVars
  <1>12. CASE StoreError
    <2>1. jobs[j].state = "running" /\ j \notin orphans
      BY <1>12, ErrorDrops DEF StoreError, ServerError, RequestError, history, storeVars
    <2>2. \A w \in Worker : Holds(w, j) => Holds(w, j)'
      BY <1>0, <1>12 DEF StoreError, ServerError, RequestError, CallFails, DelayedFails,
         RecoverFails, RequestFails, poolVars, history, Holds, PoolTypeOK
    <2> QED
      BY <1>a, <2>1, <2>2
  <1> QED
    BY <1>1, <1>2, <1>3, <1>4, <1>5, <1>6, <1>7, <1>8, <1>9, <1>10, <1>11, <1>12 DEF Next

\* Unless the process crashed after the claim or the report did not reach the
\* store, a running job is in the hands of a worker that has still to report.
THEOREM RunningJobsHeld == Spec => []RunningIsHeld
  <1>1. Init => RunningIsHeld
    BY DEF Init, StoreInit, RunningIsHeld, NoJob
  <1> QED
    BY <1>1, HeldStep, TypeCorrect, VerdictInvariant, PTL DEF Spec

-----------------------------------------------------------------------------
(* MintedInv and StartedInv.                                               *)

\* A whole-record write of a job in the store keeps the others as they are.
LEMMA UpdateOthers ==
    ASSUME StoreTypeOK, NEW i \in JobID, NEW rec, Update(i, rec)
    PROVE  \A j \in JobID : jobs'[j] = IF j = i /\ jobs[j] # NoJob THEN rec ELSE jobs[j]
  BY DEF StoreTypeOK, Update, Exists

\* Jobs in the store or in flight were submitted.
LEMMA MintedStep == TypeOK /\ MintedInv /\ [Next]_vars => MintedInv'
  <1> SUFFICES ASSUME TypeOK, MintedInv, [Next]_vars PROVE MintedInv'
    OBVIOUS
  <1> USE DEF TypeOK
  <1>0. \A j \in JobID : ~Claimable(j) \/ j \in minted
    BY DEF MintedInv, Claimable, NoJob
  <1>a. ASSUME NEW i \in JobID, NEW rec, Update(i, rec)
        PROVE  \A j \in JobID : jobs[j] = NoJob => jobs'[j] = NoJob
    BY <1>a, UpdateOthers
  <1>b. ASSUME NEW i \in JobID, UpdateState(i, "scheduled")
        PROVE  \A j \in JobID : jobs[j] = NoJob => jobs'[j] = NoJob
    BY <1>a, <1>b DEF UpdateState
  <1>1. CASE SchedulerStep
    <2>1. CASE ScheduleScan
      <3>1. \A j \in JobID : batch'[j] # "out" => j \in minted
        BY <1>0, <2>1 DEF ScheduleScan, GetPending
      <3> QED
        BY <1>1, <2>1, <3>1
        DEF SchedulerStep, ScheduleScan, storeVars, poolVars, history, MintedInv
    <2>2. ASSUME NEW i \in JobID, ScheduleNext(i, TRUE) PROVE MintedInv'
      <3>1. i \in minted
        BY <2>2 DEF ScheduleNext, NextInBatch, MintedInv
      <3>2. \A j \in JobID : jobs[j] = NoJob => jobs'[j] = NoJob
        BY <1>b, <2>2 DEF ScheduleNext, MarkScheduled, storeVars
      <3>3. \A n \in 1 .. Len(schedCh') : schedCh'[n] \in minted
        BY <2>2, <3>1 DEF ScheduleNext, SendToWorkers, MintedInv, SchedTypeOK
      <3>4. \A j \in JobID : batch[j] = "out" => batch'[j] = "out"
        BY <2>2 DEF ScheduleNext, SendToWorkers, NoBatch, SchedTypeOK
      <3> QED
        BY <1>1, <2>2, <3>2, <3>3, <3>4
        DEF SchedulerStep, ScheduleNext, poolVars, history, MintedInv
    <2> QED
      BY <1>1, <2>1, <2>2 DEF SchedulerStep
  <1>2. ASSUME NEW i \in JobID, LostMark(i) PROVE MintedInv'
    <2>1. i \in minted /\ ScheduleNext(i, FALSE) /\ UNCHANGED storeVars
      BY <1>2 DEF LostMark, ScheduleNext, MarkScheduled, NextInBatch, MintedInv
    <2>2. \A n \in 1 .. Len(schedCh') : schedCh'[n] \in minted
      BY <2>1 DEF ScheduleNext, SendToWorkers, MintedInv, SchedTypeOK
    <2>3. \A j \in JobID : batch[j] = "out" => batch'[j] = "out"
      BY <2>1 DEF ScheduleNext, SendToWorkers, NoBatch, SchedTypeOK
    <2>4. \A j \in JobID : j \notin minted => faults'[j] = 0
      BY <1>2, <2>1 DEF LostMark, MintedInv, HistoryTypeOK
    <2> QED
      BY <1>2, <2>1, <2>2, <2>3, <2>4 DEF LostMark, ScheduleNext, storeVars, poolVars, MintedInv
  <1>3. CASE DelayedStep
    <2>1. \A j \in JobID : jobs[j] = NoJob => jobs'[j] = NoJob
      BY <1>3, <1>b DEF DelayedStep, DelayedScan, DelayedNext, storeVars
    <2>2. \A j \in JobID : j \in dbatch' => j \in minted
      BY <1>3 DEF DelayedStep, DelayedScan, DelayedNext, DueDelayed, MintedInv, NoJob
    <2> QED
      BY <1>3, <2>1, <2>2
      DEF DelayedStep, DelayedScan, DelayedNext, poolVars, history, MintedInv
  <1>4. CASE \E i \in JobID : ClockStep(i)
    BY <1>4 DEF ClockStep, DelayElapse, VisibilityElapse, storeVars, schedVars, poolVars,
                history, MintedInv
  <1>5. CASE FetcherStep
    <2>1. CASE GetNextJob
      <3>1. /\ Len(schedCh) \in Nat \ {0}
            /\ Head(schedCh) = schedCh[1]
            /\ Len(Tail(schedCh)) = Len(schedCh) - 1
            /\ \A n \in 1 .. Len(Tail(schedCh)) : Tail(schedCh)[n] = schedCh[n + 1]
        BY <2>1 DEF GetNextJob, SchedTypeOK
      <3>2. /\ \A n \in 1 .. Len(schedCh') : schedCh'[n] \in minted
            /\ fetched' \in minted
        BY <2>1, <3>1 DEF GetNextJob, MintedInv
      <3> QED
        BY <1>5, <2>1, <3>2 DEF FetcherStep, GetNextJob, storeVars, history, MintedInv
    <2>2. CASE Forward
      <3>1. \A n \in 1 .. Len(poolCh') : poolCh'[n] \in minted
        BY <2>2 DEF Forward, MintedInv, PoolTypeOK
      <3> QED
        BY <1>5, <2>2, <3>1 DEF FetcherStep, Forward, storeVars, schedVars, history, MintedInv
    <2> QED
      BY <1>5, <2>1, <2>2 DEF FetcherStep
  <1>6. ASSUME NEW w \in Worker, WorkerStep(w) PROVE MintedInv'
    <2>1. CASE Receive(w)
      <3>1. /\ Len(poolCh) \in Nat \ {0}
            /\ Head(poolCh) = poolCh[1]
            /\ Len(Tail(poolCh)) = Len(poolCh) - 1
            /\ \A n \in 1 .. Len(Tail(poolCh)) : Tail(poolCh)[n] = poolCh[n + 1]
        BY <2>1 DEF Receive, PoolTypeOK
      <3>2. /\ \A n \in 1 .. Len(poolCh') : poolCh'[n] \in minted
            /\ Head(poolCh) \in minted
        BY <2>1, <3>1 DEF Receive, MintedInv
      <3>3. \A v \in Worker : worker'[v].job \in minted \cup {NoID}
        BY <2>1, <3>2 DEF Receive, MintedInv, PoolTypeOK
      <3> QED
        BY <1>6, <2>1, <3>2, <3>3
        DEF WorkerStep, Receive, storeVars, schedVars, history, MintedInv
    <2>2. CASE ClaimRefused(w)
      BY <1>6, <2>2 DEF WorkerStep, ClaimRefused, Idle, storeVars, schedVars, history,
                        MintedInv, PoolTypeOK
    <2> QED
      BY <1>6, <2>1, <2>2 DEF WorkerStep
  <1>7. ASSUME NEW w \in Worker, ClaimStep(w) PROVE MintedInv'
    <2>1. worker[w].job \in JobID /\ worker[w].job \in minted
      BY <1>0, <1>7 DEF ClaimStep, Claim, ClaimJob, PoolTypeOK
    <2>2. \A v \in Worker : worker'[v].job = worker[v].job
      BY <1>7 DEF ClaimStep, Claim, PoolTypeOK
    <2>3. \A j \in JobID : j \notin minted => jobs'[j] = jobs[j] /\ claims'[j] = claims[j]
      BY <1>7, <2>1 DEF ClaimStep, Claim, ClaimJob, StoreTypeOK, HistoryTypeOK
    <2> QED
      BY <1>7, <2>2, <2>3 DEF ClaimStep, Claim, schedVars, MintedInv
  <1>8. ASSUME NEW w \in Worker, HandlerStep(w) PROVE MintedInv'
    <2>1. \A v \in Worker : worker'[v].job \in {worker[v].job, NoID}
      BY <1>8 DEF HandlerStep, Succeed, Fail, HandlerReturns, Idle, PoolTypeOK
    <2> QED
      BY <1>8, <2>1 DEF HandlerStep, Succeed, Fail, HandlerReturns, storeVars, schedVars,
                        history, MintedInv
  <1>9. ASSUME NEW w \in Worker, CheckpointStep(w) PROVE MintedInv'
    BY <1>9 DEF CheckpointStep, Checkpoint, SaveCheckpoint, schedVars, poolVars, history,
                MintedInv
  <1>10. ASSUME NEW w \in Worker, ReportStep(w) PROVE MintedInv'
    <2>0. worker[w].job \in JobID
      BY <1>10 DEF ReportStep, CompleteUpdate, CompleteSave, FailSave, FailUpdate, PoolTypeOK
    <2>1. \A v \in Worker : worker'[v].job \in {worker[v].job, NoID}
      BY <1>10 DEF ReportStep, CompleteUpdate, CompleteSave, FailSave, FailUpdate, Idle,
                   PoolTypeOK
    <2>2. \A j \in JobID : jobs[j] = NoJob => jobs'[j] = NoJob
      BY <1>10, <1>a, <2>0 DEF ReportStep, CompleteUpdate, CompleteSave, FailSave,
         FailUpdate, SaveResult
    <2>3. UNCHANGED <<schedVars, fetched, poolCh>>
      BY <1>10 DEF ReportStep, CompleteUpdate, CompleteSave, FailSave, FailUpdate
    <2> QED
      BY <1>10, <2>1, <2>2, <2>3 DEF ReportStep, schedVars, history, MintedInv
  <1>11. CASE RecoveryStep
    <2>1. \A j \in JobID : jobs[j] = NoJob => jobs'[j] = NoJob
      BY <1>11, <1>a DEF RecoveryStep, RecoveryScan, RecoverJob, storeVars
    <2>2. \A j \in JobID : jobs[j] = NoJob /\ rbatch[j] = NoJob => rbatch'[j] = NoJob
      BY <1>11 DEF RecoveryStep, RecoveryScan, RecoverJob, RecoveryTypeOK
    <2> QED
      BY <1>11, <2>1, <2>2 DEF RecoveryStep, schedVars, poolVars, history, MintedInv
  <1>12. CASE RequestStep
    <2>0. UNCHANGED <<schedVars, poolVars, rbatch, history>>
      BY <1>12 DEF RequestStep, Submit, CreateEmbedded, Submitted, DeleteJob, CancelGet, RetryGet
    <2>1. minted \subseteq minted'
      BY <1>12 DEF RequestStep, Submit, CreateEmbedded, Submitted, DeleteJob, CancelGet, RetryGet
    <2>2. \A j \in JobID : j \notin minted' /\ jobs[j] = NoJob => jobs'[j] = NoJob
      BY <1>12, RequestCases DEF Submitted, Create, DeleteJob, Delete, storeVars, StoreTypeOK
    <2>3. \A c \in Client : req'[c].job \in minted' \cup {NoID}
      <3>1. \A j \in JobID : Exists(j) \/ Retryable(jobs[j]) => j \in minted
        BY DEF MintedInv, Exists, Retryable, NoJob
      <3> QED
        BY <1>12, <2>1, <3>1 DEF RequestStep, Submit, CreateEmbedded, Submitted, DeleteJob,
                                 CancelGet, RetryGet, MintedInv, ApiTypeOK
    <2> QED
      BY <2>0, <2>1, <2>2, <2>3 DEF schedVars, poolVars, history, MintedInv
  <1>13. ASSUME NEW c \in Client, UpdateStep(c) PROVE MintedInv'
    <2>1. req[c].job \in JobID /\ req[c].job \in minted
      BY <1>13, JobAssumption DEF UpdateStep, RequestUpdate, ApiTypeOK, MintedInv, NoID
    <2>2. \A j \in JobID : jobs[j] = NoJob => jobs'[j] = NoJob
      BY <1>13, <1>a, <2>1 DEF UpdateStep, RequestUpdate
    <2>3. \A d \in Client : req'[d].job \in {req[d].job, NoID}
      BY <1>13 DEF UpdateStep, RequestUpdate, NoRequest, ApiTypeOK
    <2>4. \A j \in JobID : j \notin minted => retried'[j] = retried[j]
      BY <1>13, <2>1 DEF UpdateStep, HistoryTypeOK
    <2> QED
      BY <1>13, <2>2, <2>3, <2>4 DEF UpdateStep, RequestUpdate, schedVars, poolVars, MintedInv
  <1>14. CASE Crash
    BY <1>14 DEF Crash, storeVars, NoBatch, Idle, NoStuck, NoRequest, MintedInv
  <1>16. CASE StoreError
    BY <1>16, ErrorDrops DEF storeVars, Idle, NoRequest, MintedInv
  <1>15. CASE UNCHANGED vars
    BY <1>15 DEF vars, storeVars, schedVars, poolVars, history, MintedInv
  <1> QED
    BY <1>1, <1>2, <1>3, <1>4, <1>5, <1>6, <1>7, <1>8, <1>9, <1>10, <1>11, <1>12,
       <1>13, <1>14, <1>15, <1>16 DEF Next

\* MintedInv holds in every reachable state.
LEMMA MintedInvariant == Spec => []MintedInv
  <1>1. Init => MintedInv
    BY DEF Init, StoreInit, SchedInit, PoolInit, RecoveryInit, ApiInit, NoBatch, Idle,
           NoStuck, NoRequest, MintedInv
  <1> QED
    BY <1>1, MintedStep, TypeCorrect, PTL DEF Spec

\* What a started job leaves behind is only found for started jobs.
LEMMA StartedStep ==
    TypeOK /\ VerdictInv /\ StartedInv /\ [Next]_vars => StartedInv'
  <1> SUFFICES ASSUME TypeOK, VerdictInv, StartedInv, [Next]_vars PROVE StartedInv'
    OBVIOUS
  <1> USE DEF TypeOK
  <1> DEFINE Started == {"running", "retrying", "completed", "failed", "dead_letter"}
             StoredOK == \A j \in JobID : jobs[j].state \in Started => claims[j] >= 1
             SnapOK == \A j \in JobID : rbatch[j] # NoJob => claims[j] >= 1
             WorkersOK == \A w \in Worker : worker[w].pc \in Holding =>
                             claims[worker[w].job] >= 1
             ReqsOK == \A c \in Client : req[c] # NoRequest /\ req[c].write.state = "pending" =>
                          claims[req[c].job] >= 1
  <1>0. StoredOK /\ SnapOK /\ WorkersOK /\ ReqsOK
    BY DEF StartedInv
  <1>a. ASSUME NEW i \in JobID, NEW rec, Update(i, rec), UNCHANGED claims,
               rec.state \in Started => claims[i] >= 1
        PROVE  StoredOK'
    BY <1>0, <1>a, UpdateOthers
  <1>b. ASSUME NEW i \in JobID, UpdateState(i, "scheduled"), UNCHANGED claims
        PROVE  StoredOK'
    BY <1>a, <1>b DEF UpdateState
  <1>c. SUFFICES StoredOK' /\ SnapOK' /\ WorkersOK' /\ ReqsOK'
    BY DEF StartedInv
  <1>1. CASE SchedulerStep \/ DelayedStep \/ \E i \in JobID : LostMark(i)
    <2>1. StoredOK'
      BY <1>0, <1>1, <1>b DEF SchedulerStep, DelayedStep, LostMark, ScheduleScan,
         ScheduleNext, MarkScheduled, DelayedScan, DelayedNext, storeVars, history
    <2> QED
      BY <1>0, <1>1, <2>1 DEF SchedulerStep, DelayedStep, LostMark, poolVars, history
  <1>2. CASE (\E i \in JobID : ClockStep(i)) \/ FetcherStep \/ UNCHANGED vars
    BY <1>0, <1>2 DEF ClockStep, DelayElapse, VisibilityElapse, FetcherStep, GetNextJob,
       Forward, vars, storeVars, poolVars, history
  <1>3. ASSUME NEW w \in Worker, WorkerStep(w) PROVE StoredOK' /\ SnapOK' /\ WorkersOK' /\ ReqsOK'
    <2>1. WorkersOK'
      BY <1>0, <1>3 DEF WorkerStep, Receive, ClaimRefused, Idle, Holding, history, PoolTypeOK
    <2> QED
      BY <1>0, <1>3, <2>1 DEF WorkerStep, Receive, ClaimRefused, storeVars, history
  <1>4. ASSUME NEW w \in Worker, ClaimStep(w) PROVE StoredOK' /\ SnapOK' /\ WorkersOK' /\ ReqsOK'
    <2>1. worker[w].job \in JobID
      BY <1>4 DEF ClaimStep, Claim, PoolTypeOK
    <2>2. /\ \A j \in JobID : claims[j] >= 1 => claims'[j] >= 1
          /\ claims'[worker[w].job] >= 1
      BY <1>4, <2>1 DEF ClaimStep, HistoryTypeOK
    <2>3. StoredOK'
      BY <1>0, <1>4, <2>1, <2>2 DEF ClaimStep, Claim, ClaimJob, StoreTypeOK
    <2>4. WorkersOK'
      <3>1. \A v \in Worker : worker[v].pc \in Holding => worker[v].job \in JobID
        BY DEF PoolTypeOK, Holding
      <3> QED
        BY <1>0, <1>4, <2>1, <2>2, <3>1 DEF ClaimStep, Claim, PoolTypeOK
    <2>5. ReqsOK'
      BY <1>0, <1>4, <2>2 DEF ClaimStep, ApiTypeOK
    <2> QED
      BY <1>0, <1>4, <2>2, <2>3, <2>4, <2>5 DEF ClaimStep
  <1>5. ASSUME NEW w \in Worker, HandlerStep(w) PROVE StoredOK' /\ SnapOK' /\ WorkersOK' /\ ReqsOK'
    <2>1. \A v \in Worker : \/ worker'[v].pc = "idle"
                            \/ /\ worker'[v].job = worker[v].job
                               /\ worker'[v].pc \in Holding => worker[v].pc \in Holding
      BY <1>5 DEF HandlerStep, Succeed, Fail, HandlerReturns, Idle, Holding, PoolTypeOK
    <2> QED
      BY <1>0, <1>5, <2>1 DEF HandlerStep, Succeed, Fail, HandlerReturns, storeVars, history,
                              Holding
  <1>6. ASSUME NEW w \in Worker, CheckpointStep(w)
        PROVE  StoredOK' /\ SnapOK' /\ WorkersOK' /\ ReqsOK'
    BY <1>0, <1>6 DEF CheckpointStep, Checkpoint, SaveCheckpoint, poolVars, history
  <1>7. ASSUME NEW w \in Worker, ReportStep(w) PROVE StoredOK' /\ SnapOK' /\ WorkersOK' /\ ReqsOK'
    <2>0. worker[w].job \in JobID
      BY <1>7 DEF ReportStep, CompleteUpdate, CompleteSave, FailSave, FailUpdate, PoolTypeOK
    <2>1. StoredOK'
      <3>1. CASE CompleteUpdate(w) \/ FailUpdate(w)
        <4>1. claims[worker[w].job] >= 1
          BY <1>0, <3>1 DEF CompleteUpdate, FailUpdate, Holding
        <4> QED
          BY <1>7, <1>a, <2>0, <3>1, <4>1 DEF ReportStep, CompleteUpdate, FailUpdate, history
      <3>2. CASE CompleteSave(w) \/ FailSave(w)
        BY <1>0, <1>7, <3>2 DEF ReportStep, CompleteSave, FailSave, SaveResult, history
      <3> QED
        BY <1>7, <3>1, <3>2 DEF ReportStep
    <2>2. \A v \in Worker : worker'[v].pc \in Holding =>
             worker'[v].job = worker[v].job /\ worker[v].pc \in Holding
      BY <1>7 DEF ReportStep, CompleteUpdate, CompleteSave, FailSave, FailUpdate, Idle,
                  Holding, PoolTypeOK
    <2> QED
      BY <1>0, <1>7, <2>1, <2>2 DEF ReportStep, history
  <1>8. CASE RecoveryStep
    <2>1. CASE RecoveryScan
      <3>1. \A j \in JobID : rbatch'[j] # NoJob => jobs[j].state = "running"
        BY <2>1 DEF RecoveryScan, GetStuck
      <3> QED
        BY <1>0, <1>8, <2>1, <3>1 DEF RecoveryStep, RecoveryScan, storeVars, poolVars, history
    <2>2. ASSUME NEW i \in JobID, RecoverJob(i)
          PROVE  StoredOK' /\ SnapOK' /\ WorkersOK' /\ ReqsOK'
      <3>1. claims[i] >= 1
        BY <1>0, <2>2 DEF RecoverJob
      <3>2. StoredOK'
        BY <1>8, <1>a, <2>2, <3>1 DEF RecoveryStep, RecoverJob, history
      <3>3. SnapOK'
        BY <1>0, <1>8, <2>2 DEF RecoveryStep, RecoverJob, RecoveryTypeOK, history
      <3> QED
        BY <1>0, <1>8, <3>2, <3>3 DEF RecoveryStep, poolVars, history
    <2> QED
      BY <1>8, <2>1, <2>2 DEF RecoveryStep
  <1>9. CASE RequestStep
    <2>1. UNCHANGED claims
      BY <1>9 DEF RequestStep, history
    <2>2. StoredOK'
      BY <1>0, <1>9, <2>1, RequestCases, FreshFacts DEF Submitted, Create, DeleteJob, Delete,
         storeVars, StoreTypeOK, NoJob
    <2>3. ReqsOK'
      <3>1. ASSUME NEW c \in Client, NEW i \in JobID, NEW f \in BOOLEAN, CancelGet(c, i, f)
            PROVE  ReqsOK'
        BY <1>0, <1>9, <3>1 DEF RequestStep, CancelGet, CancelWrite, ApiTypeOK, history
      <3>2. ASSUME NEW c \in Client, NEW i \in JobID, NEW r \in BOOLEAN, RetryGet(c, i, r)
            PROVE  ReqsOK'
        <4>1. claims[i] >= 1
          BY <1>0, <3>2 DEF RetryGet, Retryable
        <4> QED
          BY <1>0, <1>9, <3>2, <4>1 DEF RequestStep, RetryGet, ApiTypeOK, history
      <3> QED
        BY <1>0, <1>9, <3>1, <3>2 DEF RequestStep, Submit, CreateEmbedded, Submitted,
                                      DeleteJob, history
    <2> QED
      BY <1>0, <1>9, <2>2, <2>3 DEF RequestStep, poolVars, history
  <1>10. ASSUME NEW c \in Client, UpdateStep(c)
         PROVE  StoredOK' /\ SnapOK' /\ WorkersOK' /\ ReqsOK'
    <2>1. req[c].job \in JobID /\ req[c].write.state \notin Started
      BY <1>10 DEF UpdateStep, RequestUpdate, ApiTypeOK, VerdictInv
    <2>2. StoredOK'
      BY <1>10, <1>a, <2>1 DEF UpdateStep, RequestUpdate
    <2>3. ReqsOK'
      BY <1>0, <1>10 DEF UpdateStep, RequestUpdate, ApiTypeOK
    <2> QED
      BY <1>0, <1>10, <2>2, <2>3 DEF UpdateStep, poolVars
  <1>11. CASE Crash
    BY <1>0, <1>11 DEF Crash, storeVars, Idle, Holding, NoStuck
  <1>12. CASE StoreError
    BY <1>0, <1>12, ErrorDrops DEF storeVars, Idle, Holding
  <1> QED
    BY <1>1, <1>2, <1>3, <1>4, <1>5, <1>6, <1>7, <1>8, <1>9, <1>10, <1>11, <1>12 DEF Next

\* StartedInv holds in every reachable state.
LEMMA StartedInvariant == Spec => []StartedInv
  <1>1. Init => StartedInv
    BY DEF Init, StoreInit, PoolInit, RecoveryInit, ApiInit, Idle, NoStuck, NoJob,
           Holding, StartedInv
  <1> QED
    BY <1>1, StartedStep, TypeCorrect, VerdictInvariant, PTL DEF Spec

-----------------------------------------------------------------------------
(* BoundedExecutions.                                                      *)

\* Ids only move forward along the channels: except for the scheduler's scan
\* and its sends, no step puts an id in flight.
LEMMA FlightStep ==
    ASSUME TypeOK, NEW j \in JobID,
           \/ DelayedStep
           \/ \E i \in JobID : ClockStep(i)
           \/ FetcherStep
           \/ \E w \in Worker : WorkerStep(w) \/ HandlerStep(w) \/ CheckpointStep(w)
                                \/ ClaimStep(w) \/ ReportStep(w)
           \/ RecoveryStep
           \/ RequestStep
           \/ \E c \in Client : UpdateStep(c)
           \/ Crash
           \/ StoreError
           \/ UNCHANGED vars,
           InFlight(j)'
    PROVE  InFlight(j)
  <1> USE DEF TypeOK
  <1>1. CASE FetcherStep
    <2>1. CASE GetNextJob
      <3>1. /\ Len(schedCh) \in Nat \ {0}
            /\ Head(schedCh) = schedCh[1]
            /\ Len(Tail(schedCh)) = Len(schedCh) - 1
            /\ \A n \in 1 .. Len(Tail(schedCh)) : Tail(schedCh)[n] = schedCh[n + 1]
        BY <2>1 DEF GetNextJob, SchedTypeOK
      <3>2. /\ \A n \in 1 .. Len(schedCh') : n + 1 \in 1 .. Len(schedCh) /\ schedCh'[n] = schedCh[n + 1]
            /\ 1 \in 1 .. Len(schedCh) /\ fetched' = schedCh[1]
        BY <2>1, <3>1 DEF GetNextJob
      <3> QED
        BY <2>1, <3>2 DEF GetNextJob, InFlight
    <2>2. CASE Forward
      <3>1. \A n \in 1 .. Len(poolCh') :
               (n \in 1 .. Len(poolCh) /\ poolCh'[n] = poolCh[n]) \/ poolCh'[n] = fetched
        BY <2>2 DEF Forward, PoolTypeOK
      <3> QED
        BY <2>2, <3>1, JobAssumption DEF Forward, InFlight, schedVars, NoID
    <2> QED
      BY <1>1, <2>1, <2>2 DEF FetcherStep
  <1>2. ASSUME NEW w \in Worker, WorkerStep(w) PROVE InFlight(j)
    <2>1. CASE Receive(w)
      <3>1. /\ Len(poolCh) \in Nat \ {0}
            /\ Head(poolCh) = poolCh[1]
            /\ Len(Tail(poolCh)) = Len(poolCh) - 1
            /\ \A n \in 1 .. Len(Tail(poolCh)) : Tail(poolCh)[n] = poolCh[n + 1]
        BY <2>1 DEF Receive, PoolTypeOK
      <3>2. /\ \A n \in 1 .. Len(poolCh') : n + 1 \in 1 .. Len(poolCh) /\ poolCh'[n] = poolCh[n + 1]
            /\ 1 \in 1 .. Len(poolCh)
            /\ \A v \in Worker : worker'[v] = worker[v] \/ worker'[v].job = poolCh[1]
        BY <2>1, <3>1 DEF Receive, PoolTypeOK
      <3> QED
        BY <2>1, <3>2 DEF Receive, InFlight, schedVars
    <2>2. CASE ClaimRefused(w)
      BY <2>2 DEF ClaimRefused, InFlight, Idle, schedVars, PoolTypeOK
    <2> QED
      BY <1>2, <2>1, <2>2 DEF WorkerStep
  <1>3. ASSUME NEW w \in Worker,
               ClaimStep(w) \/ HandlerStep(w) \/ CheckpointStep(w) \/ ReportStep(w)
        PROVE  InFlight(j)
    <2>1. UNCHANGED <<schedVars, fetched, poolCh>>
      BY <1>3 DEF ClaimStep, Claim, HandlerStep, Succeed, Fail, HandlerReturns,
         CheckpointStep, Checkpoint, ReportStep, CompleteUpdate, CompleteSave, FailSave,
         FailUpdate, poolVars
    <2>2. \A v \in Worker : worker'[v] = worker[v] \/ worker'[v].pc # "received"
      BY <1>3 DEF ClaimStep, Claim, HandlerStep, Succeed, Fail, HandlerReturns,
         CheckpointStep, Checkpoint, ReportStep, CompleteUpdate, CompleteSave, FailSave,
         FailUpdate, poolVars, Idle, PoolTypeOK
    <2> QED
      BY <2>1, <2>2 DEF InFlight, schedVars
  <1>4. CASE DelayedStep
    BY <1>4 DEF DelayedStep, DelayedScan, DelayedNext, poolVars, InFlight
  <1>5. CASE \E i \in JobID : ClockStep(i)
    BY <1>5 DEF ClockStep, DelayElapse, VisibilityElapse, schedVars, poolVars, InFlight
  <1>6. CASE RecoveryStep \/ RequestStep \/ (\E c \in Client : UpdateStep(c)) \/ UNCHANGED vars
    <2>1. UNCHANGED <<schedVars, poolVars>>
      BY <1>6 DEF RecoveryStep, RequestStep, Submit, CreateEmbedded, Submitted, DeleteJob,
         CancelGet, RetryGet, UpdateStep, RequestUpdate, vars
    <2> QED
      BY <2>1 DEF schedVars, poolVars, InFlight
  <1>7. CASE Crash
    BY <1>7, JobAssumption DEF Crash, InFlight, NoBatch, Idle, NoID
  <1>8. CASE StoreError
    BY <1>8, ErrorDrops DEF InFlight, Idle
  <1> QED
    BY <1>1, <1>2, <1>3, <1>4, <1>5, <1>6, <1>7, <1>8

\* A step that starts, retries, sends and marks nothing keeps the bound of a
\* job if it takes the job out of the claimable states or leaves its state.
LEMMA ExecutionsFrame ==
    ASSUME TypeOK, NEW j \in JobID, Executions(j),
           claims'[j] = claims[j], retried'[j] = retried[j], faults'[j] = faults[j],
           InFlight(j)' => InFlight(j),
           j \in dbatch' => j \in dbatch,
           batch'[j] \in {batch[j], "out"},
           \/ jobs'[j].state = jobs[j].state
           \/ jobs'[j].state \in {"cancelled", "absent"}
           \/ /\ jobs'[j].state \in {"running", "retrying", "completed", "failed", "dead_letter"}
              /\ claims[j] >= 1
    PROVE  Executions(j)'
  <1>1. claims[j] \in Nat /\ retried[j] \in Nat /\ faults[j] \in Nat
    BY DEF TypeOK, HistoryTypeOK
  <1>2. Touched(j)' <=> Touched(j)
    BY DEF Touched
  <1>3. jobs[j].state # "delayed" => jobs'[j].state # "delayed"
    OBVIOUS
  <1>4. Unsent(j)' => Unsent(j)
    BY DEF Unsent
  <1>5. Potential(j)' <= Potential(j) /\ Potential(j) \in Nat /\ Potential(j)' \in Nat
    BY DEF Potential
  <1> HIDE DEF Touched, Unsent, Potential, InFlight
  <1> QED
    BY <1>1, <1>2, <1>3, <1>4, <1>5 DEF Executions

\* One round of the scheduler's loop, with or without a lost mark.
LEMMA ExecutionsSend ==
    ASSUME TypeOK, NEW j \in JobID, Executions(j), NEW i \in JobID, NEW stored \in BOOLEAN,
           ScheduleNext(i, stored), UNCHANGED poolVars,
           claims'[j] = claims[j], retried'[j] = retried[j],
           faults'[j] = IF i = j /\ ~stored THEN faults[j] + 1 ELSE faults[j],
           ~stored => batch[i] = "pending"
    PROVE  Executions(j)'
  <1> USE DEF TypeOK
  <1>1. /\ claims[j] \in Nat /\ retried[j] \in Nat /\ faults[j] \in Nat
        /\ batch[j] \in {"out", "pending", "scheduled"} /\ batch[i] # "out"
    BY DEF HistoryTypeOK, SchedTypeOK, ScheduleNext, NextInBatch
  <1>2. /\ batch'[j] \in {batch[j], "out"}
        /\ i = j => batch'[j] = "out"
        /\ dbatch' = dbatch
    BY DEF ScheduleNext, SendToWorkers, NoBatch, SchedTypeOK
  <1>3. InFlight(j)' => InFlight(j) \/ i = j
    <2>1. \A n \in 1 .. Len(schedCh') :
             (n \in 1 .. Len(schedCh) /\ schedCh'[n] = schedCh[n]) \/ schedCh'[n] = i
      BY DEF ScheduleNext, SendToWorkers, SchedTypeOK
    <2> QED
      BY <1>2, <2>1 DEF InFlight, poolVars
  <1>4. jobs'[j].state = IF i = j /\ batch[j] = "pending" /\ stored /\ jobs[j] # NoJob
                         THEN "scheduled" ELSE jobs[j].state
    <2>1. CASE batch[i] = "pending" /\ stored
      <3>1. UpdateState(i, "scheduled")
        BY <2>1 DEF ScheduleNext, MarkScheduled
      <3> QED
        BY <2>1, <3>1, UpdateOthers DEF UpdateState
    <2>2. CASE ~(batch[i] = "pending" /\ stored)
      BY <2>2 DEF ScheduleNext, MarkScheduled, storeVars
    <2> QED
      BY <2>1, <2>2
  <1>5. jobs[j] = NoJob => jobs[j].state = "absent"
    BY DEF NoJob
  <1>6. CASE i # j
    BY <1>2, <1>3, <1>4, <1>6, ExecutionsFrame
  <1>7. CASE i = j /\ batch[j] = "scheduled"
    <2>1. InFlight(j)
      BY <1>7 DEF InFlight
    <2> QED
      BY <1>2, <1>4, <1>7, <2>1, ExecutionsFrame
  <1>8. CASE i = j /\ batch[j] = "pending"
    <2>1. Unsent(j) /\ jobs[j].state # "delayed" /\ j \notin dbatch
      BY <1>8 DEF Unsent, Executions
    <2>2. batch'[j] = "out" /\ j \notin dbatch'
      BY <1>2, <1>8, <2>1
    <2>3. CASE stored
      <3>1. jobs'[j].state \in {"scheduled", "absent"} /\ (Touched(j)' <=> Touched(j))
        BY <1>4, <1>5, <1>8, <2>3 DEF Touched
      <3>2. ~Unsent(j)'
        BY <2>2, <3>1 DEF Unsent
      <3>3. Potential(j)' <= 1 /\ Potential(j) >= 1 /\ Potential(j) \in Nat /\ Potential(j)' \in Nat
        BY <1>8, <2>2, <3>1 DEF Potential
      <3> QED
        BY <1>1, <1>8, <2>1, <2>2, <2>3, <3>1, <3>2, <3>3 DEF Executions
    <2>4. CASE ~stored
      <3>1. jobs'[j].state = jobs[j].state /\ Touched(j)'
        BY <1>1, <1>4, <1>8, <2>4 DEF Touched
      <3>2. /\ Potential(j)' <= Potential(j) /\ Potential(j)' <= 2
            /\ Potential(j) \in Nat /\ Potential(j)' \in Nat
        BY <2>2, <3>1 DEF Potential
      <3>3. claims[j] + Potential(j)' <= 1 + 2 * retried[j] + faults[j] + 1
        <4>1. CASE Touched(j)
          BY <1>1, <3>2, <4>1 DEF Executions
        <4>2. CASE ~Touched(j)
          <5>1. claims[j] = 0
            BY <2>1, <4>2 DEF Executions
          <5> QED
            BY <1>1, <3>2, <5>1
        <4> QED
          BY <4>1, <4>2
      <3> QED
        BY <1>1, <1>8, <2>1, <2>2, <2>4, <3>1, <3>3 DEF Executions
    <2> QED
      BY <2>3, <2>4
  <1> QED
    BY <1>1, <1>6, <1>7, <1>8

\* A claim uses one of the executions that the job's state still allowed.
LEMMA ExecutionsClaim ==
    ASSUME TypeOK, NEW j \in JobID, Executions(j), NEW w \in Worker, ClaimStep(w)
    PROVE  Executions(j)'
  <1> USE DEF TypeOK
  <1>1. /\ claims[j] \in Nat /\ retried[j] \in Nat /\ faults[j] \in Nat
        /\ worker[w].job \in JobID
        /\ UNCHANGED <<batch, dbatch, retried, faults>>
    BY DEF HistoryTypeOK, PoolTypeOK, ClaimStep, Claim, schedVars
  <1>2. InFlight(j)' => InFlight(j)
    BY FlightStep
  <1>3. CASE worker[w].job # j
    <2>1. jobs'[j] = jobs[j] /\ claims'[j] = claims[j]
      BY <1>1, <1>3 DEF ClaimStep, Claim, ClaimJob, StoreTypeOK, HistoryTypeOK
    <2> QED
      BY <1>1, <1>2, <2>1, ExecutionsFrame
  <1>4. CASE worker[w].job = j
    <2>1. /\ jobs'[j].state = "running" /\ claims'[j] = claims[j] + 1
          /\ jobs[j].state \in {"pending", "scheduled"}
      BY <1>1, <1>4 DEF ClaimStep, Claim, ClaimJob, Claimable, StoreTypeOK, HistoryTypeOK
    <2>2. InFlight(j)
      BY <1>4 DEF ClaimStep, Claim, InFlight
    <2>3. Touched(j)' <=> Touched(j)
      BY <1>1 DEF Touched
    <2>4. ~Touched(j) => ~Unsent(j) /\ claims[j] = 0
      <3>1. ~Touched(j) => ~Unsent(j)
        BY <2>2 DEF Executions
      <3>2. ~Unsent(j) => jobs[j].state = "scheduled"
        BY <2>1 DEF Unsent
      <3> QED
        BY <3>1, <3>2 DEF Executions
    <2>5. Unsent(j)' => Unsent(j)
      BY <1>1, <2>1 DEF Unsent
    <2>6. /\ Potential(j)' + 1 <= Potential(j)
          /\ Potential(j) \in Nat /\ Potential(j)' \in Nat
      BY <1>1, <2>1 DEF Potential
    <2>7. j \in dbatch => ~Touched(j) /\ Unsent(j)
      BY DEF Executions, Unsent
    <2> QED
      BY <1>1, <2>1, <2>3, <2>4, <2>5, <2>6, <2>7 DEF Executions
  <1> QED
    BY <1>3, <1>4

\* The bound is preserved by every step.
LEMMA ExecutionStep ==
    TypeOK /\ VerdictInv /\ MintedInv /\ StartedInv /\ ExecutionInv /\ [Next]_vars
      => ExecutionInv'
  <1> SUFFICES ASSUME TypeOK, VerdictInv, MintedInv, StartedInv, ExecutionInv, [Next]_vars,
                      NEW j \in JobID
               PROVE  Executions(j)'
    BY DEF ExecutionInv
  <1> USE DEF TypeOK
  <1>0. /\ Executions(j) /\ StoreTypeOK
        /\ claims[j] \in Nat /\ retried[j] \in Nat /\ faults[j] \in Nat
        /\ batch[j] \in {"out", "pending", "scheduled"}
    BY DEF ExecutionInv, HistoryTypeOK, SchedTypeOK
  <1>1. CASE SchedulerStep
    <2>0. UNCHANGED <<poolVars, claims, retried, faults>>
      BY <1>1 DEF SchedulerStep, history
    <2>1. CASE ScheduleScan
      <3>1. /\ jobs' = jobs /\ dbatch' = dbatch /\ schedCh' = schedCh
            /\ batch[j] = "out"
            /\ batch'[j] # "out" => batch'[j] = jobs[j].state /\ Claimable(j)
        BY <2>1 DEF ScheduleScan, storeVars, NoBatch, GetPending
      <3>2. CASE batch'[j] = "out"
        <4>1. InFlight(j)' => InFlight(j)
          BY <2>0, <3>1, <3>2 DEF InFlight, poolVars
        <4> QED
          BY <1>0, <2>0, <3>1, <3>2, <4>1, ExecutionsFrame
      <3>3. CASE batch'[j] # "out"
        <4>1. batch'[j] = jobs[j].state /\ jobs[j].state \in {"pending", "scheduled"}
          BY <3>1, <3>3 DEF Claimable
        <4>2. InFlight(j)' => InFlight(j) \/ jobs[j].state = "scheduled"
          BY <2>0, <3>1, <4>1 DEF InFlight, poolVars
        <4>3. Potential(j)' = Potential(j) /\ (Touched(j)' <=> Touched(j))
          BY <2>0, <3>1, <4>1 DEF Potential, Touched
        <4>4. j \notin dbatch
          BY <1>0, <3>1, <4>1 DEF Executions, Unsent
        <4>5. Unsent(j)' <=> jobs[j].state = "pending"
          BY <3>1, <4>1, <4>4 DEF Unsent
        <4>6. jobs[j].state = "pending" => Unsent(j)
          BY DEF Unsent
        <4> QED
          BY <1>0, <2>0, <3>1, <4>1, <4>2, <4>3, <4>4, <4>5, <4>6 DEF Executions
      <3> QED
        BY <3>2, <3>3
    <2>2. ASSUME NEW i \in JobID, ScheduleNext(i, TRUE) PROVE Executions(j)'
      BY <1>0, <2>0, <2>2, ExecutionsSend
    <2> QED
      BY <1>1, <2>1, <2>2 DEF SchedulerStep
  <1>2. ASSUME NEW i \in JobID, LostMark(i) PROVE Executions(j)'
    <2>1. /\ ScheduleNext(i, FALSE) /\ batch[i] = "pending"
          /\ UNCHANGED <<poolVars, claims, retried>>
          /\ faults'[j] = IF i = j THEN faults[j] + 1 ELSE faults[j]
      BY <1>2 DEF LostMark, HistoryTypeOK
    <2> QED
      BY <1>0, <2>1, ExecutionsSend
  <1>3. CASE DelayedStep
    <2>0. /\ UNCHANGED <<claims, retried, faults, batch>>
          /\ InFlight(j)' => InFlight(j)
      BY <1>3, FlightStep DEF DelayedStep, DelayedScan, DelayedNext, history
    <2>1. CASE \E found \in SUBSET DueDelayed : DelayedScan(found)
      <3>1. jobs' = jobs /\ (j \in dbatch' => jobs[j].state = "delayed")
        BY <2>1 DEF DelayedScan, DueDelayed, storeVars
      <3>2. CASE j \in dbatch'
        <4>1. jobs[j].state = "delayed" /\ Unsent(j)
          BY <3>1, <3>2 DEF Unsent
        <4>2. Touched(j)' <=> Touched(j)
          BY <2>0 DEF Touched
        <4> QED
          BY <1>0, <2>0, <3>1, <4>1, <4>2 DEF Executions
      <3>3. CASE j \notin dbatch'
        BY <1>0, <2>0, <3>1, <3>3, ExecutionsFrame
      <3> QED
        BY <3>2, <3>3
    <2>2. ASSUME NEW i \in JobID, DelayedNext(i) PROVE Executions(j)'
      <3>1. /\ i \in dbatch /\ dbatch' = dbatch \ {i}
            /\ jobs'[j].state = IF i = j /\ jobs[j] # NoJob THEN "scheduled" ELSE jobs[j].state
        BY <1>0, <2>2, UpdateOthers DEF DelayedNext, UpdateState
      <3>2. CASE i # j
        BY <1>0, <2>0, <3>1, <3>2, ExecutionsFrame
      <3>3. CASE i = j
        <4>1. Unsent(j) /\ ~Touched(j) /\ batch[j] = "out"
          BY <1>0, <3>1, <3>3 DEF Unsent, Executions
        <4>2. claims[j] = 0 /\ ~InFlight(j)
          BY <1>0, <4>1 DEF Executions
        <4>3. jobs'[j].state \in {"scheduled", "absent"} /\ ~Touched(j)'
          BY <2>0, <3>1, <3>3, <4>1 DEF NoJob, Touched
        <4>4. ~Unsent(j)'
          BY <2>0, <3>1, <3>3, <4>1, <4>3 DEF Unsent
        <4> QED
          BY <2>0, <3>1, <3>3, <4>2, <4>3, <4>4 DEF Executions
      <3> QED
        BY <3>2, <3>3
    <2> QED
      BY <1>3, <2>1, <2>2 DEF DelayedStep
  <1>4. CASE \/ \E i \in JobID : ClockStep(i)
             \/ FetcherStep
             \/ \E w \in Worker : WorkerStep(w) \/ HandlerStep(w) \/ CheckpointStep(w)
             \/ UNCHANGED vars
    <2>1. UNCHANGED <<jobs, claims, retried, faults, batch, dbatch>>
      BY <1>4 DEF ClockStep, DelayElapse, VisibilityElapse, FetcherStep, GetNextJob, Forward,
         WorkerStep, Receive, ClaimRefused, HandlerStep, Succeed, Fail, HandlerReturns,
         CheckpointStep, Checkpoint, SaveCheckpoint, vars, storeVars, schedVars, history
    <2>2. InFlight(j)' => InFlight(j)
      BY <1>4, FlightStep
    <2> QED
      BY <1>0, <2>1, <2>2, ExecutionsFrame
  <1>5. ASSUME NEW w \in Worker, ClaimStep(w) PROVE Executions(j)'
    BY <1>0, <1>5, ExecutionsClaim
  <1>6. ASSUME NEW w \in Worker, ReportStep(w) PROVE Executions(j)'
    <2>1. UNCHANGED <<claims, retried, faults, batch, dbatch>>
      BY <1>6 DEF ReportStep, CompleteUpdate, CompleteSave, FailSave, FailUpdate, schedVars,
                  history
    <2>2. InFlight(j)' => InFlight(j)
      BY <1>6, FlightStep
    <2>3. CASE CompleteUpdate(w) \/ FailUpdate(w)
      <3>1. /\ worker[w].job \in JobID /\ Update(worker[w].job, worker[w].write)
            /\ worker[w].write.state \in {"completed", "retrying", "failed", "dead_letter"}
            /\ claims[worker[w].job] >= 1
        BY <2>3 DEF CompleteUpdate, FailUpdate, PoolTypeOK, VerdictInv, StartedInv, Holding
      <3>2. \/ jobs'[j].state = jobs[j].state
            \/ jobs'[j] = worker[w].write /\ j = worker[w].job
        BY <1>0, <3>1, UpdateOthers
      <3> QED
        BY <1>0, <2>1, <2>2, <3>1, <3>2, ExecutionsFrame
    <2>4. CASE CompleteSave(w) \/ FailSave(w)
      BY <1>0, <2>1, <2>2, <2>4, ExecutionsFrame DEF CompleteSave, FailSave, SaveResult
    <2> QED
      BY <1>6, <2>3, <2>4 DEF ReportStep
  <1>7. CASE RecoveryStep
    <2>1. /\ UNCHANGED <<claims, retried, faults, batch, dbatch>>
          /\ InFlight(j)' => InFlight(j)
      BY <1>7, FlightStep DEF RecoveryStep, schedVars, history
    <2>2. \/ jobs'[j].state = jobs[j].state
          \/ jobs'[j].state \in {"retrying", "dead_letter"} /\ claims[j] >= 1
      <3>1. CASE RecoveryScan
        BY <3>1 DEF RecoveryScan, storeVars
      <3>2. ASSUME NEW i \in JobID, RecoverJob(i)
            PROVE  \/ jobs'[j].state = jobs[j].state
                   \/ jobs'[j].state \in {"retrying", "dead_letter"} /\ claims[j] >= 1
        <4>1. Update(i, RecoverWrite(i, rbatch[i])) /\ claims[i] >= 1
          BY <3>2 DEF RecoverJob, StartedInv
        <4>2. RecoverWrite(i, rbatch[i]).state \in {"retrying", "dead_letter"}
          BY DEF RecoverWrite
        <4> QED
          BY <1>0, <4>1, <4>2, UpdateOthers
      <3> QED
        BY <1>7, <3>1, <3>2 DEF RecoveryStep
    <2> QED
      BY <1>0, <2>1, <2>2, ExecutionsFrame
  <1>8. CASE RequestStep
    <2>1. /\ UNCHANGED <<claims, retried, faults, batch, dbatch>>
          /\ InFlight(j)' => InFlight(j)
      BY <1>8, FlightStep DEF RequestStep, Submit, CreateEmbedded, Submitted, DeleteJob,
                              CancelGet, RetryGet, schedVars, history
    <2>2. CASE jobs'[j].state \in {jobs[j].state, "absent"}
      BY <1>0, <2>1, <2>2, ExecutionsFrame
    <2>3. ASSUME NEW rec \in Fresh, Submitted(j, rec), CanCreate(j) PROVE Executions(j)'
      <3>1. /\ jobs'[j].state \in {"pending", "delayed"}
            /\ batch[j] = "out" /\ j \notin dbatch
            /\ claims[j] = 0 /\ retried[j] = 0 /\ faults[j] = 0
        BY <1>0, <2>3, FreshFacts DEF Submitted, Create, MintedInv, StoreTypeOK
      <3>2. ~InFlight(j)
        BY <2>3, <3>1, JobAssumption DEF Submitted, InFlight, MintedInv, NoID
      <3>3. ~Touched(j)'
        BY <2>1, <3>1 DEF Touched
      <3> QED
        BY <2>1, <3>1, <3>2, <3>3 DEF Executions
    <2>4. \/ jobs'[j].state \in {jobs[j].state, "absent"}
          \/ \E rec \in Fresh : Submitted(j, rec) /\ CanCreate(j)
      BY <1>0, <1>8, RequestCases DEF Submitted, Create, DeleteJob, Delete, storeVars,
                                      StoreTypeOK, NoJob
    <2> QED
      BY <2>2, <2>3, <2>4
  <1>9. ASSUME NEW c \in Client, UpdateStep(c) PROVE Executions(j)'
    <2>0. /\ req[c].job \in JobID /\ req[c].write.state \in {"cancelled", "pending"}
          /\ req[c].write.state = "pending" => claims[req[c].job] >= 1
      BY <1>9 DEF UpdateStep, RequestUpdate, ApiTypeOK, VerdictInv, StartedInv
    <2>1. /\ UNCHANGED <<claims, faults, batch, dbatch>>
          /\ InFlight(j)' => InFlight(j)
          /\ retried'[j] = IF req[c].write.state = "pending" /\ j = req[c].job
                           THEN retried[j] + 1 ELSE retried[j]
      BY <1>9, <2>0, FlightStep DEF UpdateStep, RequestUpdate, schedVars, HistoryTypeOK
    <2>2. jobs'[j].state = IF j = req[c].job /\ jobs[j] # NoJob THEN req[c].write.state
                           ELSE jobs[j].state
      BY <1>0, <1>9, <2>0, UpdateOthers DEF UpdateStep, RequestUpdate
    <2>3. CASE j # req[c].job \/ req[c].write.state = "cancelled"
      BY <1>0, <2>0, <2>1, <2>2, <2>3, ExecutionsFrame
    <2>4. CASE j = req[c].job /\ req[c].write.state = "pending"
      <3>1. claims[j] >= 1 /\ retried'[j] = retried[j] + 1 /\ Touched(j)'
        BY <1>0, <2>0, <2>1, <2>4 DEF Touched
      <3>2. jobs[j].state # "delayed" /\ j \notin dbatch
        BY <1>0, <3>1 DEF Executions, Unsent
      <3>3. jobs'[j].state # "delayed"
        BY <2>2, <2>4, <3>2
      <3>4. claims[j] + Potential(j)' <= 1 + 2 * (retried[j] + 1) + faults[j]
        <4>1. /\ Potential(j)' <= Potential(j) + 2 /\ Potential(j)' <= 2
              /\ Potential(j) \in Nat /\ Potential(j)' \in Nat
          BY <2>1, <2>2, <2>4 DEF Potential, NoJob
        <4>2. CASE Touched(j)
          BY <1>0, <4>1, <4>2 DEF Executions
        <4>3. CASE ~Touched(j)
          BY <1>0, <4>1, <4>3 DEF Executions
        <4> QED
          BY <4>2, <4>3
      <3> QED
        BY <2>1, <3>1, <3>2, <3>3, <3>4 DEF Executions
    <2> QED
      BY <2>0, <2>3, <2>4
  <1>11. CASE StoreError
    <2>1. /\ UNCHANGED <<jobs, claims, retried, faults, batch>>
          /\ j \in dbatch' => j \in dbatch
          /\ InFlight(j)' => InFlight(j)
      BY <1>11, ErrorDrops, FlightStep DEF storeVars
    <2> QED
      BY <1>0, <2>1, ExecutionsFrame
  <1>10. CASE Crash
    <2>1. /\ UNCHANGED <<jobs, claims, retried, faults>>
          /\ batch'[j] = "out" /\ j \notin dbatch'
          /\ InFlight(j)' => InFlight(j)
      BY <1>10, FlightStep DEF Crash, storeVars, NoBatch
    <2> QED
      BY <1>0, <2>1, ExecutionsFrame
  <1> QED
    BY <1>1, <1>2, <1>3, <1>4, <1>5, <1>6, <1>7, <1>8, <1>9, <1>10, <1>11 DEF Next

\* However often an id is sent again and however stale the scheduler's
\* snapshot, a job is started at most once, plus twice per retry and once per
\* mark the scheduler lost.
THEOREM ExecutionsBounded == Spec => []BoundedExecutions
  <1>1. Init => ExecutionInv
    BY DEF Init, StoreInit, SchedInit, PoolInit, NoJob, NoBatch, ExecutionInv, Executions,
           Touched, Unsent
  <1>2. TypeOK /\ ExecutionInv => BoundedExecutions
    <2> SUFFICES ASSUME TypeOK, ExecutionInv, NEW j \in JobID
                 PROVE  claims[j] <= 1 + 2 * retried[j] + faults[j]
      BY DEF BoundedExecutions
    <2>1. /\ claims[j] \in Nat /\ retried[j] \in Nat /\ faults[j] \in Nat
          /\ Potential(j) \in Nat /\ Executions(j)
      BY DEF TypeOK, HistoryTypeOK, Potential, ExecutionInv
    <2> QED
      BY <2>1 DEF Executions
  <1> QED
    BY <1>1, <1>2, ExecutionStep, TypeCorrect, VerdictInvariant, MintedInvariant,
       StartedInvariant, PTL DEF Spec

-----------------------------------------------------------------------------
(* FailedHasResult.                                                        *)

\* A step that stores no new job, writes no "failed", removes a result only
\* with its job and brings no worker to its last write keeps ResultInv.
LEMMA ResultFrame ==
    ASSUME TypeOK, ResultInv,
           \A j \in JobID :
               /\ jobs'[j].state = "failed" => jobs[j].state = "failed"
               /\ jobs'[j] # NoJob => jobs[j] # NoJob
               /\ results'[j] = "none" => results[j] = "none" \/ jobs'[j] = NoJob,
           \A w \in Worker : worker'[w].pc = "fail_update" =>
               worker[w].pc = "fail_update" /\ worker'[w].job = worker[w].job
    PROVE  ResultInv'
  <1>1. FailedHasResult'
    BY DEF ResultInv, FailedHasResult, NoJob
  <1>2. \A w \in Worker : worker[w].pc = "fail_update" => worker[w].job \in JobID
    BY DEF TypeOK, PoolTypeOK
  <1>3. ASSUME NEW w \in Worker, worker'[w].pc = "fail_update", jobs'[worker'[w].job] # NoJob
        PROVE  results'[worker'[w].job] # "none"
    BY <1>2, <1>3 DEF ResultInv, Exists
  <1> QED
    BY <1>1, <1>3 DEF ResultInv, Exists

\* The writers' records are not "failed", except a failing worker's, and that
\* worker has saved its result before.
LEMMA ResultStep ==
    TypeOK /\ VerdictInv /\ MintedInv /\ ResultInv /\ [Next]_vars => ResultInv'
  <1> SUFFICES ASSUME TypeOK, VerdictInv, MintedInv, ResultInv, [Next]_vars PROVE ResultInv'
    OBVIOUS
  <1> DEFINE JobsKept == \A j \in JobID :
                            /\ jobs'[j].state = "failed" => jobs[j].state = "failed"
                            /\ jobs'[j] # NoJob => jobs[j] # NoJob
             ResultsKept == \A j \in JobID :
                            results'[j] = "none" => results[j] = "none" \/ jobs'[j] = NoJob
             WorkersKept == \A w \in Worker : worker'[w].pc = "fail_update" =>
                            worker[w].pc = "fail_update" /\ worker'[w].job = worker[w].job
  <1>f. ASSUME JobsKept, ResultsKept, WorkersKept PROVE ResultInv'
    BY <1>f, ResultFrame
  <1> HIDE DEF JobsKept, ResultsKept, WorkersKept
  <1>a. ASSUME NEW i \in JobID, NEW rec, Update(i, rec), rec.state # "failed"
        PROVE  JobsKept /\ ResultsKept
    <2>1. \A j \in JobID : jobs'[j] = IF j = i /\ jobs[j] # NoJob THEN rec ELSE jobs[j]
      BY <1>a, UpdateOthers DEF TypeOK
    <2>2. results' = results
      BY <1>a DEF Update
    <2> QED
      BY <1>a, <2>1, <2>2 DEF JobsKept, ResultsKept
  <1>b. ASSUME NEW i \in JobID, UpdateState(i, "scheduled") PROVE JobsKept /\ ResultsKept
    <2>1. Update(i, [state |-> "scheduled", attempt |-> jobs[i].attempt])
      BY <1>b DEF UpdateState
    <2> QED
      BY <1>a, <2>1
  <1>c. ASSUME UNCHANGED <<jobs, results>> PROVE JobsKept /\ ResultsKept
    BY <1>c DEF JobsKept, ResultsKept
  <1>d. ASSUME UNCHANGED worker PROVE WorkersKept
    BY <1>d DEF WorkersKept
  <1>1. CASE SchedulerStep \/ DelayedStep \/ \E i \in JobID : LostMark(i)
    <2>1. UNCHANGED worker
      BY <1>1 DEF SchedulerStep, DelayedStep, LostMark, poolVars
    <2>2. JobsKept /\ ResultsKept
      BY <1>1, <1>b, <1>c DEF SchedulerStep, DelayedStep, LostMark, ScheduleScan,
         ScheduleNext, MarkScheduled, DelayedScan, DelayedNext, storeVars
    <2> QED
      BY <1>d, <1>f, <2>1, <2>2
  <1>2. CASE \/ \E i \in JobID : ClockStep(i)
             \/ FetcherStep
             \/ \E w \in Worker : CheckpointStep(w)
             \/ UNCHANGED vars
    <2>1. UNCHANGED <<jobs, results, worker>>
      BY <1>2 DEF ClockStep, DelayElapse, VisibilityElapse, FetcherStep, GetNextJob, Forward,
         CheckpointStep, Checkpoint, SaveCheckpoint, vars, storeVars, poolVars
    <2> QED
      BY <1>c, <1>d, <1>f, <2>1
  <1>3. ASSUME NEW w \in Worker, WorkerStep(w) \/ HandlerStep(w) PROVE ResultInv'
    <2>1. UNCHANGED <<jobs, results>>
      BY <1>3 DEF WorkerStep, Receive, ClaimRefused, HandlerStep, Succeed, Fail,
                  HandlerReturns, storeVars
    <2>2. /\ worker'[w].pc \in {"idle", "received", "complete_update", "fail_save"}
          /\ \A v \in Worker : v # w => worker'[v] = worker[v]
      BY <1>3 DEF WorkerStep, Receive, ClaimRefused, HandlerStep, Succeed, Fail,
                  HandlerReturns, Idle, TypeOK, PoolTypeOK
    <2>3. WorkersKept
      BY <2>2 DEF WorkersKept
    <2> QED
      BY <1>c, <1>f, <2>1, <2>3
  <1>4. ASSUME NEW w \in Worker, ClaimStep(w) PROVE ResultInv'
    <2>1. JobsKept /\ ResultsKept
      BY <1>4 DEF ClaimStep, Claim, ClaimJob, Claimable, JobsKept, ResultsKept, NoJob,
                  TypeOK, StoreTypeOK
    <2>2. WorkersKept
      BY <1>4 DEF ClaimStep, Claim, TypeOK, PoolTypeOK, WorkersKept
    <2> QED
      BY <1>f, <2>1, <2>2
  <1>5. ASSUME NEW w \in Worker, ReportStep(w) PROVE ResultInv'
    <2>1. CASE CompleteUpdate(w)
      <3>1. JobsKept /\ ResultsKept
        <4>1. worker[w].job \in JobID /\ worker[w].write.state # "failed"
          BY <2>1 DEF CompleteUpdate, VerdictInv, TypeOK, PoolTypeOK
        <4> QED
          BY <1>a, <2>1, <4>1 DEF CompleteUpdate
      <3>2. WorkersKept
        BY <2>1 DEF CompleteUpdate, Idle, TypeOK, PoolTypeOK, WorkersKept
      <3> QED
        BY <1>f, <3>1, <3>2
    <2>2. CASE CompleteSave(w)
      <3>1. JobsKept /\ ResultsKept
        BY <2>2 DEF CompleteSave, SaveResult, JobsKept, ResultsKept, TypeOK, StoreTypeOK
      <3>2. WorkersKept
        BY <2>2 DEF CompleteSave, Idle, TypeOK, PoolTypeOK, WorkersKept
      <3> QED
        BY <1>f, <3>1, <3>2
    <2>3. CASE FailSave(w)
      <3>1. /\ worker[w].job \in JobID /\ jobs' = jobs
            /\ \A j \in JobID : results'[j] = IF j = worker[w].job THEN "failure" ELSE results[j]
            /\ \A v \in Worker : worker'[v].job = worker[v].job
            /\ \A v \in Worker : v # w => worker'[v] = worker[v]
        BY <2>3 DEF FailSave, SaveResult, TypeOK, PoolTypeOK, StoreTypeOK
      <3>2. FailedHasResult'
        BY <3>1 DEF ResultInv, FailedHasResult
      <3>3. ASSUME NEW v \in Worker, worker'[v].pc = "fail_update", jobs'[worker'[v].job] # NoJob
            PROVE  results'[worker'[v].job] # "none"
        <4>1. worker'[v].job = worker[v].job
          BY <3>1
        <4>2. CASE v = w
          BY <3>1, <4>1, <4>2
        <4>3. CASE v # w
          <5>1. worker[v].job \in JobID /\ worker[v].pc = "fail_update"
            BY <3>1, <3>3, <4>3 DEF TypeOK, PoolTypeOK
          <5> QED
            BY <3>1, <3>3, <4>1, <5>1 DEF ResultInv, Exists
        <4> QED
          BY <4>2, <4>3
      <3> QED
        BY <3>2, <3>3 DEF ResultInv, Exists
    <2>4. CASE FailUpdate(w)
      <3>1. /\ worker[w].job \in JobID /\ results' = results
            /\ worker[w].pc = "fail_update"
            /\ worker'[w] = Idle /\ \A v \in Worker : v # w => worker'[v] = worker[v]
        BY <2>4 DEF FailUpdate, Update, TypeOK, PoolTypeOK
      <3>2. \A j \in JobID : jobs'[j] = IF j = worker[w].job /\ jobs[j] # NoJob
                                        THEN worker[w].write ELSE jobs[j]
        BY <2>4, <3>1, UpdateOthers DEF FailUpdate, TypeOK
      <3>3. FailedHasResult'
        BY <3>1, <3>2 DEF ResultInv, FailedHasResult, Exists
      <3>4. ASSUME NEW v \in Worker, worker'[v].pc = "fail_update", jobs'[worker'[v].job] # NoJob
            PROVE  results'[worker'[v].job] # "none"
        <4>1. v # w /\ worker'[v] = worker[v] /\ worker[v].job \in JobID
          BY <3>1, <3>4 DEF Idle, TypeOK, PoolTypeOK
        <4> QED
          BY <3>1, <3>2, <3>4, <4>1 DEF ResultInv, Exists
      <3> QED
        BY <3>3, <3>4 DEF ResultInv, Exists
    <2> QED
      BY <1>5, <2>1, <2>2, <2>3, <2>4 DEF ReportStep
  <1>6. CASE RecoveryStep
    <2>1. UNCHANGED worker
      BY <1>6 DEF RecoveryStep, poolVars
    <2>2. ASSUME NEW i \in JobID, RecoverJob(i) PROVE JobsKept /\ ResultsKept
      <3>1. RecoverWrite(i, rbatch[i]).state # "failed"
        BY DEF RecoverWrite
      <3> QED
        BY <1>a, <2>2, <3>1 DEF RecoverJob
    <2>3. JobsKept /\ ResultsKept
      BY <1>6, <1>c, <2>2 DEF RecoveryStep, RecoveryScan, storeVars
    <2> QED
      BY <1>d, <1>f, <2>1, <2>3
  <1>7. CASE RequestStep
    <2>0. UNCHANGED worker
      BY <1>7 DEF RequestStep, poolVars
    <2>1. ASSUME NEW i \in JobID, NEW rec \in Fresh, Submitted(i, rec) PROVE ResultInv'
      <3>1. CASE CanCreate(i)
        <4>1. /\ i \notin minted /\ results' = results
              /\ jobs'[i].state \in {"pending", "delayed"}
              /\ \A j \in JobID : j # i => jobs'[j] = jobs[j]
          BY <2>1, <3>1, FreshFacts DEF Submitted, Create, TypeOK, StoreTypeOK
        <4>2. FailedHasResult'
          BY <4>1 DEF ResultInv, FailedHasResult
        <4>3. ASSUME NEW v \in Worker, worker[v].pc = "fail_update", jobs'[worker[v].job] # NoJob
              PROVE  results'[worker[v].job] # "none"
          <5>1. worker[v].job \in JobID /\ worker[v].job # i
            BY <4>1, <4>3, JobAssumption DEF MintedInv, TypeOK, PoolTypeOK, NoID
          <5> QED
            BY <4>1, <4>3, <5>1 DEF ResultInv, Exists
        <4> QED
          BY <2>0, <4>2, <4>3 DEF ResultInv, Exists
      <3>2. CASE ~CanCreate(i)
        BY <1>c, <1>d, <1>f, <2>0, <2>1, <3>2 DEF Submitted, storeVars
      <3> QED
        BY <3>1, <3>2
    <2>2. ASSUME NEW i \in JobID, DeleteJob(i) PROVE ResultInv'
      <3>1. JobsKept /\ ResultsKept
        BY <2>2 DEF DeleteJob, Delete, JobsKept, ResultsKept, NoJob, TypeOK, StoreTypeOK
      <3> QED
        BY <1>d, <1>f, <2>0, <3>1
    <2>3. CASE UNCHANGED storeVars
      BY <1>c, <1>d, <1>f, <2>0, <2>3 DEF storeVars
    <2> QED
      BY <1>7, <2>1, <2>2, <2>3, RequestCases
  <1>8. ASSUME NEW c \in Client, UpdateStep(c) PROVE ResultInv'
    <2>1. /\ req[c].job \in JobID /\ req[c].write.state # "failed"
          /\ Update(req[c].job, req[c].write) /\ UNCHANGED worker
      BY <1>8 DEF UpdateStep, RequestUpdate, poolVars, VerdictInv, TypeOK, ApiTypeOK
    <2> QED
      BY <1>a, <1>d, <1>f, <2>1
  <1>10. CASE StoreError
    <2>1. UNCHANGED <<jobs, results>> /\ WorkersKept
      BY <1>10, ErrorDrops DEF storeVars, Idle, WorkersKept
    <2> QED
      BY <1>c, <1>f, <2>1
  <1>9. CASE Crash
    <2>1. UNCHANGED <<jobs, results>> /\ WorkersKept
      BY <1>9 DEF Crash, storeVars, Idle, WorkersKept
    <2> QED
      BY <1>c, <1>f, <2>1
  <1> QED
    BY <1>1, <1>2, <1>3, <1>4, <1>5, <1>6, <1>7, <1>8, <1>9, <1>10 DEF Next

\* Fail saves the result in one transaction and updates the job in the next;
\* in that order a failed job has a stored result wherever the process
\* crashes and whoever deletes, retries or reruns the job in between.
THEOREM FailuresExplained == Spec => []FailedHasResult
  <1>1. Init => ResultInv
    BY DEF Init, StoreInit, PoolInit, NoJob, Idle, ResultInv, FailedHasResult
  <1>2. ResultInv => FailedHasResult
    BY DEF ResultInv
  <1> QED
    BY <1>1, <1>2, ResultStep, TypeCorrect, VerdictInvariant, MintedInvariant, PTL DEF Spec

-----------------------------------------------------------------------------
(* NoOverlap.                                                              *)

\* Only a claim puts a job into a worker's hands, and retries and lost marks
\* are not forgotten.
LEMMA HoldersStep ==
    ASSUME TypeOK, [Next]_vars, NEW j \in JobID, NEW v \in Worker, Holds(v, j)',
           retried'[j] = 0, faults'[j] = 0
    PROVE  /\ Holds(v, j) \/ (ClaimStep(v) /\ worker[v].job = j)
           /\ retried[j] = 0 /\ faults[j] = 0
  <1> USE DEF TypeOK
  <1>0. retried[j] \in Nat /\ faults[j] \in Nat
    BY DEF HistoryTypeOK
  <1>1. retried[j] = 0 /\ faults[j] = 0
    <2>1. CASE \E i \in JobID : LostMark(i)
      BY <1>0, <2>1 DEF LostMark, HistoryTypeOK
    <2>2. CASE \E c \in Client : UpdateStep(c)
      BY <1>0, <2>2 DEF UpdateStep, HistoryTypeOK
    <2>3. CASE UNCHANGED <<retried, faults>>
      BY <2>3
    <2>4. CASE (\E w \in Worker : ClaimStep(w)) \/ StoreError \/ Crash
      BY <2>4, <2>3 DEF ClaimStep, StoreError, ServerError, RequestError, Crash, history
    <2>5. CASE \/ SchedulerStep \/ DelayedStep \/ FetcherStep \/ RecoveryStep \/ RequestStep
               \/ \E i \in JobID : ClockStep(i)
               \/ \E w \in Worker : WorkerStep(w) \/ HandlerStep(w) \/ CheckpointStep(w)
                                    \/ ReportStep(w)
               \/ UNCHANGED vars
      BY <2>3, <2>5 DEF SchedulerStep, DelayedStep, FetcherStep, RecoveryStep, RequestStep,
         ClockStep, WorkerStep, HandlerStep, CheckpointStep, ReportStep, vars, history
    <2> QED
      BY <2>1, <2>2, <2>4, <2>5 DEF Next
  <1>2. Holds(v, j) \/ (ClaimStep(v) /\ worker[v].job = j)
    <2>1. CASE UNCHANGED worker
      BY <2>1 DEF Holds
    <2>2. CASE \/ SchedulerStep \/ DelayedStep \/ FetcherStep \/ RecoveryStep \/ RequestStep
               \/ \E i \in JobID : ClockStep(i) \/ LostMark(i)
               \/ \E w \in Worker : CheckpointStep(w)
               \/ \E c \in Client : UpdateStep(c)
               \/ UNCHANGED vars
      BY <2>1, <2>2 DEF SchedulerStep, DelayedStep, FetcherStep, GetNextJob, Forward,
         RecoveryStep, RequestStep, ClockStep, LostMark, CheckpointStep, Checkpoint,
         UpdateStep, vars, poolVars
    <2>3. ASSUME NEW w \in Worker, WorkerStep(w) PROVE Holds(v, j)
      BY <2>3 DEF WorkerStep, Receive, ClaimRefused, Idle, Holds, Holding, PoolTypeOK
    <2>4. ASSUME NEW w \in Worker, ClaimStep(w)
          PROVE  Holds(v, j) \/ (ClaimStep(v) /\ worker[v].job = j)
      BY <2>4 DEF ClaimStep, Claim, Holds, PoolTypeOK
    <2>5. ASSUME NEW w \in Worker, HandlerStep(w) PROVE Holds(v, j)
      BY <2>5 DEF HandlerStep, Succeed, Fail, HandlerReturns, Idle, Holds, Holding, PoolTypeOK
    <2>6. ASSUME NEW w \in Worker, ReportStep(w) PROVE Holds(v, j)
      BY <2>6 DEF ReportStep, CompleteUpdate, CompleteSave, FailSave, FailUpdate, Idle, Holds,
         Holding, PoolTypeOK
    <2>7. CASE StoreError
      BY <2>7, ErrorDrops DEF Idle, Holds, Holding
    <2>8. CASE Crash
      BY <2>8 DEF Crash, Idle, Holds, Holding
    <2> QED
      BY <2>2, <2>3, <2>4, <2>5, <2>6, <2>7, <2>8 DEF Next
  <1> QED
    BY <1>1, <1>2

\* A job that can be claimed and was neither retried nor unmarked has not
\* been started (ExecutionInv), and a job in a worker's hands has
\* (StartedInv): the claim finds no other holder.
LEMMA OverlapStep ==
    TypeOK /\ StartedInv /\ ExecutionInv /\ NoOverlap /\ [Next]_vars => NoOverlap'
  <1> SUFFICES ASSUME TypeOK, StartedInv, ExecutionInv, NoOverlap, [Next]_vars,
                      NEW j \in JobID, retried'[j] = 0, faults'[j] = 0,
                      NEW v \in Worker, NEW w \in Worker, Holds(v, j)', Holds(w, j)'
               PROVE  v = w
    BY DEF NoOverlap
  <1>1. /\ Holds(v, j) \/ (ClaimStep(v) /\ worker[v].job = j)
        /\ Holds(w, j) \/ (ClaimStep(w) /\ worker[w].job = j)
        /\ retried[j] = 0 /\ faults[j] = 0
    BY HoldersStep
  <1>2. ASSUME NEW u \in Worker, ClaimStep(u), worker[u].job = j, NEW x \in Worker, Holds(x, j)
        PROVE  FALSE
    <2>1. ~Touched(j) /\ jobs[j].state \in {"pending", "scheduled"}
      BY <1>1, <1>2 DEF Touched, ClaimStep, Claim, ClaimJob, Claimable
    <2>2. claims[j] = 0
      BY <2>1 DEF ExecutionInv, Executions, Unsent
    <2>3. claims[j] >= 1
      BY <1>2 DEF Holds, StartedInv
    <2> QED
      BY <2>2, <2>3
  <1>3. CASE Holds(v, j) /\ Holds(w, j)
    BY <1>1, <1>3 DEF NoOverlap
  <1>4. CASE ClaimStep(v) /\ ClaimStep(w) /\ v # w
    BY <1>4 DEF ClaimStep, Claim, TypeOK, PoolTypeOK
  <1> QED
    BY <1>1, <1>2, <1>3, <1>4

\* Without a retry and without a lost mark a job is in one worker's hands at
\* most, however many times the scheduler sends it.
THEOREM ExecutionsExclusive == Spec => []NoOverlap
  <1>1. Init => NoOverlap
    BY DEF Init, PoolInit, Idle, Holds, Holding, NoOverlap
  <1>2. Init => ExecutionInv
    BY DEF Init, StoreInit, SchedInit, PoolInit, NoJob, NoBatch, ExecutionInv, Executions,
           Touched, Unsent
  <1> QED
    BY <1>1, <1>2, OverlapStep, ExecutionStep, TypeCorrect, VerdictInvariant, MintedInvariant,
       StartedInvariant, PTL DEF Spec

-----------------------------------------------------------------------------
(* PendingClaimsExplained.                                                 *)

\* Only a claim writes "running": no copy in flight carries it.
LEMMA OnlyClaimsStart ==
    ASSUME TypeOK, VerdictInv, [Next]_vars, NEW j \in JobID,
           jobs[j].state # "running", jobs'[j].state = "running"
    PROVE  \E w \in Worker : ClaimStep(w) /\ worker[w].job = j
  <1> USE DEF TypeOK
  <1>0. StoreTypeOK /\ NoJob.state # "running"
    BY DEF NoJob
  <1>a. ASSUME NEW i \in JobID, NEW rec, Update(i, rec), rec.state # "running" PROVE FALSE
    BY <1>0, <1>a, UpdateOthers
  <1>b. ASSUME NEW i \in JobID, UpdateState(i, "scheduled") PROVE FALSE
    BY <1>a, <1>b DEF UpdateState
  <1>1. CASE SchedulerStep \/ DelayedStep \/ \E i \in JobID : LostMark(i)
    BY <1>1, <1>b DEF SchedulerStep, DelayedStep, LostMark, ScheduleScan, ScheduleNext,
       MarkScheduled, DelayedScan, DelayedNext, storeVars
  <1>2. CASE \/ \E i \in JobID : ClockStep(i)
             \/ FetcherStep
             \/ \E w \in Worker : WorkerStep(w) \/ HandlerStep(w) \/ CheckpointStep(w)
             \/ Crash \/ StoreError
             \/ UNCHANGED vars
    BY <1>2, ErrorDrops DEF ClockStep, DelayElapse, VisibilityElapse, FetcherStep, GetNextJob,
       Forward, WorkerStep, Receive, ClaimRefused, HandlerStep, Succeed, Fail,
       HandlerReturns, CheckpointStep, Checkpoint, SaveCheckpoint, Crash, vars, storeVars
  <1>3. ASSUME NEW w \in Worker, ClaimStep(w) PROVE worker[w].job = j
    BY <1>0, <1>3 DEF ClaimStep, Claim, ClaimJob, StoreTypeOK
  <1>4. ASSUME NEW w \in Worker, ReportStep(w) PROVE FALSE
    <2>1. CASE CompleteUpdate(w) \/ FailUpdate(w)
      <3>1. worker[w].job \in JobID /\ worker[w].write.state # "running"
        BY <2>1 DEF VerdictInv, CompleteUpdate, FailUpdate, PoolTypeOK
      <3> QED
        BY <2>1, <3>1, <1>a DEF CompleteUpdate, FailUpdate
    <2>2. CASE CompleteSave(w) \/ FailSave(w)
      BY <2>2 DEF CompleteSave, FailSave, SaveResult
    <2> QED
      BY <1>4, <2>1, <2>2 DEF ReportStep
  <1>5. CASE RecoveryStep
    BY <1>5, <1>a DEF RecoveryStep, RecoveryScan, RecoverJob, RecoverWrite, storeVars
  <1>6. CASE RequestStep
    BY <1>0, <1>6, RequestCases, FreshFacts DEF Submitted, Create, DeleteJob, Delete,
       storeVars, StoreTypeOK
  <1>7. ASSUME NEW c \in Client, UpdateStep(c) PROVE FALSE
    <2>1. req[c].job \in JobID /\ req[c].write.state # "running"
      BY <1>7 DEF UpdateStep, RequestUpdate, VerdictInv, ApiTypeOK
    <2> QED
      BY <1>7, <1>a, <2>1 DEF UpdateStep, RequestUpdate
  <1> QED
    BY <1>1, <1>2, <1>3, <1>4, <1>5, <1>6, <1>7 DEF Next

\* The worker that claims j got its id from a channel.  As long as j is
\* neither retried nor unmarked, a pending j has never been sent
\* (ExecutionInv), so its id is in no channel.
LEMMA PendingClaimStep ==
    ASSUME TypeOK, VerdictInv, ExecutionInv, [Next]_vars, NEW j \in JobID,
           jobs[j].state = "pending", jobs'[j].state = "running"
    PROVE  retried[j] > 0 \/ faults[j] > 0
  <1>1. PICK w \in Worker : ClaimStep(w) /\ worker[w].job = j
    BY OnlyClaimsStart
  <1>2. InFlight(j)
    BY <1>1 DEF ClaimStep, Claim, InFlight
  <1>3. Unsent(j) /\ Executions(j)
    BY DEF Unsent, ExecutionInv
  <1>4. Touched(j)
    BY <1>2, <1>3 DEF Executions
  <1> QED
    BY <1>4 DEF Touched

\* A claim passes over the scheduled state, which the interface does not
\* provide for, only for a job that a retry or a lost mark touched before.
THEOREM PendingClaimsKnown == Spec => PendingClaimsExplained
  <1>1. Init => ExecutionInv
    BY DEF Init, StoreInit, SchedInit, PoolInit, NoJob, NoBatch, ExecutionInv, Executions,
           Touched, Unsent
  <1>2. TypeOK /\ VerdictInv /\ ExecutionInv /\ [Next]_vars =>
           [\A j \in JobID : jobs[j].state = "pending" /\ jobs'[j].state = "running" =>
               retried[j] > 0 \/ faults[j] > 0]_vars
    BY PendingClaimStep
  <1> QED
    BY <1>1, <1>2, ExecutionStep, TypeCorrect, VerdictInvariant, MintedInvariant,
       StartedInvariant, PTL DEF Spec, PendingClaimsExplained
=============================================================================
