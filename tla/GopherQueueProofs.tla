------------------------- MODULE GopherQueueProofs -------------------------
(***************************************************************************)
(* Proofs about GopherQueue for every set of jobs, workers, clients and    *)
(* keys, every channel capacity and every bound.                           *)
(***************************************************************************)
EXTENDS Invariants, TLAPS

-----------------------------------------------------------------------------
(* Facts about records and about the store's operations.                   *)

\* NoJob is told from a record by its state; a stored record has a counter.
LEMMA RecordFacts ==
    /\ NoJob \notin JobRec
    /\ NewJob \in JobRec
    /\ \A rec \in JobRec \cup {NoJob} :
          /\ rec.attempt \in Nat
          /\ rec # NoJob <=> rec \in JobRec
          /\ rec # NoJob <=> rec.state \in JobState
    /\ \A s \in JobState, n \in Nat : [state |-> s, attempt |-> n] \in JobRec
  BY DEF NoJob, NewJob, JobRec, JobState

\* A whole-record write keeps the store well typed, whether or not the job
\* is still there.
LEMMA UpdateType ==
    ASSUME StoreTypeOK, NEW j \in JobID, NEW rec \in JobRec, Update(j, rec)
    PROVE  StoreTypeOK'
  BY DEF StoreTypeOK, Update, Exists

\* So does a write of the state alone.
LEMMA UpdateStateType ==
    ASSUME StoreTypeOK, NEW j \in JobID, NEW s \in JobState, UpdateState(j, s)
    PROVE  StoreTypeOK'
  <1>1. jobs[j].attempt \in Nat
    BY RecordFacts DEF StoreTypeOK
  <1>2. [state |-> s, attempt |-> jobs[j].attempt] \in JobRec
    BY <1>1, RecordFacts
  <1> QED
    BY <1>2, UpdateType DEF UpdateState

\* Submitting, deleting, claiming and saving keep the store well typed.
LEMMA StoreOpsType ==
    ASSUME StoreTypeOK, NEW j \in JobID,
           \/ \E rec \in JobRec : Create(j, rec)
           \/ Delete(j)
           \/ ClaimJob(j)
           \/ \E r \in {"success", "failure"} : SaveResult(j, r)
           \/ SaveCheckpoint(j)
           \/ UNCHANGED storeVars
    PROVE  StoreTypeOK'
  <1>0. KeyOf[j] \in Key \cup {NoKey}
    BY JobAssumption
  <1>1. CASE \E rec \in JobRec : Create(j, rec)
    BY <1>0, <1>1 DEF StoreTypeOK, Create
  <1>2. CASE Delete(j)
    BY <1>0, <1>2 DEF StoreTypeOK, Delete
  <1>3. CASE ClaimJob(j)
    <2>1. jobs[j].attempt + 1 \in Nat
      BY RecordFacts DEF StoreTypeOK
    <2>2. [state |-> "running", attempt |-> jobs[j].attempt + 1] \in JobRec
      BY <2>1, RecordFacts DEF JobState
    <2> QED
      BY <1>3, <2>2 DEF StoreTypeOK, ClaimJob
  <1>4. CASE \E r \in {"success", "failure"} : SaveResult(j, r)
    BY <1>4 DEF StoreTypeOK, SaveResult
  <1>5. CASE SaveCheckpoint(j)
    BY <1>5 DEF StoreTypeOK, SaveCheckpoint
  <1>6. CASE UNCHANGED storeVars
    BY <1>6 DEF StoreTypeOK, storeVars
  <1> QED
    BY <1>1, <1>2, <1>3, <1>4, <1>5, <1>6

\* What Complete, Fail, Cancel, Retry and the recovery manager write is a
\* record, with the counter of the record they read (or zero).
LEMMA WriteType ==
    ASSUME NEW j \in JobID, NEW rec \in JobRec \cup {NoJob}
    PROVE  /\ CompleteWrite(rec) \in JobRec
           /\ \A category : FailWrite(j, rec, category) \in JobRec
           /\ CancelWrite(rec) \in JobRec
           /\ \A reset : RetryWrite(rec, reset) \in JobRec
           /\ RecoverWrite(j, rec) \in JobRec
  <1>1. rec.attempt \in Nat
    BY RecordFacts
  <1> QED
    BY <1>1, RecordFacts
    DEF CompleteWrite, FailWrite, CancelWrite, RetryWrite, RecoverWrite, JobState

-----------------------------------------------------------------------------
(* Type correctness.                                                       *)

\* The initial state is well typed.
LEMMA TypeInit == Init => TypeOK
  <1> SUFFICES ASSUME Init PROVE TypeOK
    OBVIOUS
  <1>1. StoreTypeOK
    BY DEF Init, StoreInit, StoreTypeOK, NoID
  <1>2. SchedTypeOK
    BY DEF Init, SchedInit, SchedTypeOK, NoBatch
  <1>3. PoolTypeOK
    BY DEF Init, PoolInit, PoolTypeOK, Idle, WorkerPC, Holding
  <1>4. RecoveryTypeOK
    BY DEF Init, RecoveryInit, RecoveryTypeOK, NoStuck
  <1>5. ApiTypeOK
    BY DEF Init, ApiInit, ApiTypeOK
  <1>6. HistoryTypeOK
    BY DEF Init, HistoryTypeOK
  <1> QED
    BY <1>1, <1>2, <1>3, <1>4, <1>5, <1>6 DEF TypeOK

\* The component invariants whose variables a step leaves alone.
LEMMA TypeFrame ==
    /\ SchedTypeOK /\ UNCHANGED schedVars => SchedTypeOK'
    /\ PoolTypeOK /\ UNCHANGED poolVars => PoolTypeOK'
    /\ RecoveryTypeOK /\ UNCHANGED rbatch => RecoveryTypeOK'
    /\ ApiTypeOK /\ UNCHANGED <<minted, req>> => ApiTypeOK'
    /\ HistoryTypeOK /\ UNCHANGED history => HistoryTypeOK'
    /\ StoreTypeOK /\ UNCHANGED storeVars => StoreTypeOK'
  BY DEF SchedTypeOK, schedVars, PoolTypeOK, poolVars, RecoveryTypeOK, ApiTypeOK,
         HistoryTypeOK, history, StoreTypeOK, storeVars

\* One round of the scheduler's loop keeps the store and the scheduler's
\* variables well typed, whether or not its write succeeded.
LEMMA ScheduleNextType ==
    ASSUME StoreTypeOK, SchedTypeOK, NEW j \in JobID, NEW stored \in BOOLEAN,
           ScheduleNext(j, stored)
    PROVE  StoreTypeOK' /\ SchedTypeOK'
  <1>1. StoreTypeOK'
    <2>1. CASE batch[j] = "pending" /\ stored
      <3>1. UpdateState(j, "scheduled")
        BY <2>1 DEF ScheduleNext, MarkScheduled
      <3> QED
        BY <3>1, UpdateStateType DEF JobState
    <2>2. CASE ~(batch[j] = "pending" /\ stored)
      BY <2>2, TypeFrame DEF ScheduleNext, MarkScheduled
    <2> QED
      BY <2>1, <2>2
  <1>2. SchedTypeOK'
    BY DEF ScheduleNext, SendToWorkers, SchedTypeOK, NoBatch
  <1> QED
    BY <1>1, <1>2

\* A worker keeps its well-typed record; the handler's return, whatever its
\* outcome, leaves it with a record to write.
LEMMA HandlerReturnsType ==
    ASSUME StoreTypeOK, PoolTypeOK, NEW w \in Worker,
           NEW pc \in {"complete_update", "fail_save"}, NEW write \in JobRec,
           HandlerReturns(w, pc, write)
    PROVE  PoolTypeOK'
  <1>1. worker[w].job \in JobID
    BY DEF PoolTypeOK, HandlerReturns
  <1>2. worker' \in [Worker -> [pc : WorkerPC, job : JobID \cup {NoID},
                               write : JobRec \cup {NoJob}]]
    BY <1>1 DEF PoolTypeOK, HandlerReturns, Idle, WorkerPC, Holding
  <1>3. \A v \in Worker :
           worker'[v] = IF v # w THEN worker[v]
                        ELSE IF Exists(worker[w].job)
                             THEN [pc |-> pc, job |-> worker[w].job, write |-> write]
                             ELSE Idle
    BY DEF PoolTypeOK, HandlerReturns
  <1>4. ASSUME NEW v \in Worker
        PROVE  /\ worker'[v].pc # "idle" => worker'[v].job \in JobID
               /\ worker'[v].pc \in {"complete_update", "fail_save", "fail_update"}
                     => worker'[v].write \in JobRec
    BY <1>1, <1>3, <1>4 DEF PoolTypeOK, Idle
  <1> QED
    BY <1>2, <1>4 DEF PoolTypeOK, HandlerReturns

\* What Create is given: a record that was never run.
Fresh == {NewJob, [state |-> "delayed", attempt |-> 0]}

LEMMA FreshFacts ==
    \A rec \in Fresh : /\ rec \in JobRec /\ rec # NoJob
                       /\ rec.attempt = 0
                       /\ rec.state \in {"pending", "delayed"}
  BY DEF Fresh, NewJob, JobRec, JobState, NoJob

\* Both ways of submitting a job hand Create a fresh record.
LEMMA SubmitFresh ==
    ASSUME NEW j \in JobID, Submit(j) \/ CreateEmbedded(j)
    PROVE  \E rec \in Fresh : Submitted(j, rec)
  BY DEF Submit, CreateEmbedded, Enqueue, NewJob, Fresh

\* What a request does to the store without holding a copy of a record.
LEMMA RequestCases ==
    ASSUME RequestStep
    PROVE  \/ \E j \in JobID : \E rec \in Fresh : Submitted(j, rec)
           \/ \E j \in JobID : DeleteJob(j)
           \/ UNCHANGED storeVars
  BY SubmitFresh DEF RequestStep, CancelGet, RetryGet

\* All that a failed store call does is to drop something in flight.
LEMMA ErrorDrops ==
    ASSUME TypeOK, StoreError
    PROVE  /\ UNCHANGED <<storeVars, schedCh, batch, ripe, fetched, poolCh, minted, claims,
                          retried, faults, crashes>>
           /\ dbatch' \subseteq dbatch
           /\ \A w \in Worker : worker'[w] = worker[w] \/ worker'[w] = Idle
           /\ \A j \in JobID : rbatch'[j] = rbatch[j] \/ rbatch'[j] = NoJob
           /\ \A c \in Client : req'[c] = req[c] \/ req'[c] = NoRequest
  <1> USE DEF StoreError, ServerError, RequestError, TypeOK, history
  <1>1. CASE (\E w \in Worker : CallFails(w)) /\ UNCHANGED <<rbatch, minted, req>>
    BY <1>1 DEF CallFails, schedVars, PoolTypeOK
  <1>2. CASE (\E j \in JobID : DelayedFails(j)) /\ UNCHANGED <<poolVars, rbatch, minted, req>>
    BY <1>2 DEF DelayedFails, poolVars, storeVars
  <1>3. CASE (\E j \in JobID : RecoverFails(j)) /\ UNCHANGED <<schedVars, poolVars, minted, req>>
    BY <1>3 DEF RecoverFails, schedVars, poolVars, RecoveryTypeOK
  <1>4. CASE (\E c \in Client : RequestFails(c)) /\ UNCHANGED <<poolVars, rbatch>>
    BY <1>4 DEF RequestFails, schedVars, poolVars, ApiTypeOK
  <1> QED
    BY <1>1, <1>2, <1>3, <1>4

\* Every step keeps every variable well typed.
LEMMA TypeStep == TypeOK /\ [Next]_vars => TypeOK'
  <1> SUFFICES ASSUME TypeOK, [Next]_vars PROVE TypeOK'
    OBVIOUS
  <1> USE DEF TypeOK
  <1>1. CASE SchedulerStep
    <2>1. CASE ScheduleScan
      <3>1. \A j \in GetPending(BatchSize) : jobs[j].state \in {"pending", "scheduled"}
        BY DEF GetPending, Claimable
      <3>2. SchedTypeOK'
        BY <2>1, <3>1 DEF ScheduleScan, SchedTypeOK
      <3> QED
        BY <1>1, <2>1, <3>2, TypeFrame DEF SchedulerStep, ScheduleScan
    <2>2. CASE \E j \in JobID : ScheduleNext(j, TRUE)
      <3>1. StoreTypeOK' /\ SchedTypeOK'
        BY <2>2, ScheduleNextType
      <3> QED
        BY <1>1, <3>1, TypeFrame DEF SchedulerStep
    <2> QED
      BY <1>1, <2>1, <2>2 DEF SchedulerStep
  <1>2. ASSUME NEW j \in JobID, LostMark(j) PROVE TypeOK'
    <2>1. StoreTypeOK' /\ SchedTypeOK'
      BY <1>2, ScheduleNextType DEF LostMark
    <2>2. HistoryTypeOK'
      BY <1>2 DEF LostMark, HistoryTypeOK
    <2> QED
      BY <1>2, <2>1, <2>2, TypeFrame DEF LostMark
  <1>3. CASE DelayedStep
    <2>1. CASE \E found \in SUBSET DueDelayed : DelayedScan(found)
      <3>1. SchedTypeOK'
        BY <2>1 DEF DelayedScan, DueDelayed, SchedTypeOK
      <3> QED
        BY <1>3, <2>1, <3>1, TypeFrame DEF DelayedStep, DelayedScan
    <2>2. CASE \E j \in JobID : DelayedNext(j)
      <3>1. StoreTypeOK'
        BY <2>2, UpdateStateType DEF DelayedNext, JobState
      <3>2. SchedTypeOK'
        BY <2>2 DEF DelayedNext, SchedTypeOK
      <3> QED
        BY <1>3, <3>1, <3>2, TypeFrame DEF DelayedStep
    <2> QED
      BY <1>3, <2>1, <2>2 DEF DelayedStep
  <1>4. ASSUME NEW j \in JobID, ClockStep(j) PROVE TypeOK'
    <2>1. CASE DelayElapse(j) /\ UNCHANGED <<poolVars, rbatch, minted, req, history>>
      <3>1. SchedTypeOK'
        BY <2>1, JobAssumption DEF DelayElapse, SchedTypeOK
      <3> QED
        BY <2>1, <3>1, TypeFrame DEF DelayElapse
    <2>2. CASE VisibilityElapse(j) /\ UNCHANGED <<schedVars, poolVars, minted, req, history>>
      <3>1. StoreTypeOK' /\ UNCHANGED rbatch
        BY <2>2 DEF VisibilityElapse, StoreTypeOK
      <3> QED
        BY <2>2, <3>1, TypeFrame
    <2> QED
      BY <1>4, <2>1, <2>2 DEF ClockStep
  <1>5. CASE FetcherStep
    <2>1. CASE GetNextJob
      <3>1. Head(schedCh) \in JobID /\ Tail(schedCh) \in Seq(JobID)
        BY <2>1 DEF GetNextJob, SchedTypeOK
      <3>2. SchedTypeOK' /\ PoolTypeOK'
        BY <2>1, <3>1 DEF GetNextJob, SchedTypeOK, PoolTypeOK
      <3> QED
        BY <1>5, <2>1, <3>2, TypeFrame DEF FetcherStep, GetNextJob
    <2>2. CASE Forward
      <3>1. PoolTypeOK'
        BY <2>2 DEF Forward, PoolTypeOK
      <3> QED
        BY <1>5, <2>2, <3>1, TypeFrame DEF FetcherStep, Forward
    <2> QED
      BY <1>5, <2>1, <2>2 DEF FetcherStep
  <1>6. ASSUME NEW w \in Worker, WorkerStep(w) PROVE TypeOK'
    <2>1. CASE Receive(w)
      <3>1. Head(poolCh) \in JobID /\ Tail(poolCh) \in Seq(JobID)
        BY <2>1 DEF Receive, PoolTypeOK
      <3>2. PoolTypeOK'
        BY <2>1, <3>1 DEF Receive, PoolTypeOK, WorkerPC, Holding
      <3> QED
        BY <1>6, <2>1, <3>2, TypeFrame DEF WorkerStep, Receive
    <2>2. CASE ClaimRefused(w)
      <3>1. PoolTypeOK'
        BY <2>2 DEF ClaimRefused, PoolTypeOK, Idle, WorkerPC, Holding
      <3> QED
        BY <1>6, <2>2, <3>1, TypeFrame DEF WorkerStep, ClaimRefused
    <2> QED
      BY <1>6, <2>1, <2>2 DEF WorkerStep
  <1>7. ASSUME NEW w \in Worker, ClaimStep(w) PROVE TypeOK'
    <2>1. worker[w].job \in JobID
      BY <1>7 DEF ClaimStep, Claim, PoolTypeOK
    <2>2. StoreTypeOK'
      BY <1>7, <2>1, StoreOpsType DEF ClaimStep, Claim
    <2>3. PoolTypeOK'
      BY <1>7, <2>1 DEF ClaimStep, Claim, PoolTypeOK, WorkerPC, Holding
    <2>4. HistoryTypeOK'
      BY <1>7, <2>1 DEF ClaimStep, HistoryTypeOK
    <2> QED
      BY <1>7, <2>2, <2>3, <2>4, TypeFrame DEF ClaimStep, Claim
  <1>8. ASSUME NEW w \in Worker, HandlerStep(w) PROVE TypeOK'
    <2>0. worker[w].job \in JobID /\ jobs[worker[w].job] \in JobRec \cup {NoJob}
      BY <1>8 DEF HandlerStep, Succeed, Fail, HandlerReturns, PoolTypeOK, StoreTypeOK
    <2>1. PoolTypeOK'
      <3>1. CASE Succeed(w)
        <4>1. CompleteWrite(jobs[worker[w].job]) \in JobRec
          BY <2>0, WriteType
        <4> QED
          BY <3>1, <4>1, HandlerReturnsType DEF Succeed
      <3>2. CASE \E category \in ErrorCategory : Fail(w, category)
        <4>1. PICK category \in ErrorCategory : Fail(w, category)
          BY <3>2
        <4>2. FailWrite(worker[w].job, jobs[worker[w].job], category) \in JobRec
          BY <2>0, WriteType
        <4> QED
          BY <4>1, <4>2, HandlerReturnsType DEF Fail
      <3> QED
        BY <1>8, <3>1, <3>2 DEF HandlerStep
    <2> QED
      BY <1>8, <2>1, TypeFrame DEF HandlerStep, Succeed, Fail, HandlerReturns
  <1>9. ASSUME NEW w \in Worker, CheckpointStep(w) PROVE TypeOK'
    <2>1. StoreTypeOK'
      BY <1>9, StoreOpsType DEF CheckpointStep, Checkpoint, PoolTypeOK
    <2> QED
      BY <1>9, <2>1, TypeFrame DEF CheckpointStep, Checkpoint
  <1>10. ASSUME NEW w \in Worker, ReportStep(w) PROVE TypeOK'
    <2>0. worker[w].job \in JobID
      BY <1>10 DEF ReportStep, CompleteUpdate, CompleteSave, FailSave, FailUpdate, PoolTypeOK
    <2>1. CASE CompleteUpdate(w)
      <3>1. StoreTypeOK'
        BY <2>0, <2>1, UpdateType DEF CompleteUpdate, PoolTypeOK
      <3>2. PoolTypeOK'
        BY <2>0, <2>1 DEF CompleteUpdate, PoolTypeOK, Idle, WorkerPC, Holding
      <3> QED
        BY <1>10, <2>1, <3>1, <3>2, TypeFrame DEF ReportStep, CompleteUpdate
    <2>2. CASE CompleteSave(w)
      <3>1. StoreTypeOK'
        BY <2>0, <2>2, StoreOpsType DEF CompleteSave
      <3>2. PoolTypeOK'
        BY <2>2 DEF CompleteSave, PoolTypeOK, Idle, WorkerPC, Holding
      <3> QED
        BY <1>10, <2>2, <3>1, <3>2, TypeFrame DEF ReportStep, CompleteSave
    <2>3. CASE FailSave(w)
      <3>1. StoreTypeOK'
        BY <2>0, <2>3, StoreOpsType DEF FailSave
      <3>2. PoolTypeOK'
        BY <2>0, <2>3 DEF FailSave, PoolTypeOK, WorkerPC, Holding
      <3> QED
        BY <1>10, <2>3, <3>1, <3>2, TypeFrame DEF ReportStep, FailSave
    <2>4. CASE FailUpdate(w)
      <3>1. StoreTypeOK'
        BY <2>0, <2>4, UpdateType DEF FailUpdate, PoolTypeOK
      <3>2. PoolTypeOK'
        BY <2>4 DEF FailUpdate, PoolTypeOK, Idle, WorkerPC, Holding
      <3> QED
        BY <1>10, <2>4, <3>1, <3>2, TypeFrame DEF ReportStep, FailUpdate
    <2> QED
      BY <1>10, <2>1, <2>2, <2>3, <2>4 DEF ReportStep
  <1>11. CASE RecoveryStep
    <2>1. CASE RecoveryScan
      <3>1. RecoveryTypeOK'
        BY <2>1 DEF RecoveryScan, RecoveryTypeOK, StoreTypeOK
      <3> QED
        BY <1>11, <2>1, <3>1, TypeFrame DEF RecoveryStep, RecoveryScan
    <2>2. ASSUME NEW j \in JobID, RecoverJob(j) PROVE TypeOK'
      <3>1. RecoverWrite(j, rbatch[j]) \in JobRec
        BY WriteType DEF RecoveryTypeOK
      <3>2. StoreTypeOK'
        BY <2>2, <3>1, UpdateType DEF RecoverJob
      <3>3. RecoveryTypeOK'
        BY <2>2 DEF RecoverJob, RecoveryTypeOK
      <3> QED
        BY <1>11, <3>2, <3>3, TypeFrame DEF RecoveryStep
    <2> QED
      BY <1>11, <2>1, <2>2 DEF RecoveryStep
  <1>12. CASE RequestStep
    <2>1. ASSUME NEW j \in JobID, NEW rec \in Fresh, Submitted(j, rec)
          PROVE  StoreTypeOK' /\ ApiTypeOK'
      <3>1. rec \in JobRec
        BY FreshFacts
      <3>2. StoreTypeOK'
        BY <2>1, <3>1, StoreOpsType DEF Submitted
      <3>3. ApiTypeOK'
        BY <2>1 DEF Submitted, ApiTypeOK
      <3> QED
        BY <3>2, <3>3
    <2>2. ASSUME NEW j \in JobID, DeleteJob(j) PROVE StoreTypeOK' /\ ApiTypeOK'
      BY <2>2, StoreOpsType, TypeFrame DEF DeleteJob
    <2>3. ASSUME NEW c \in Client, NEW j \in JobID, NEW force \in BOOLEAN,
                 CancelGet(c, j, force)
          PROVE  StoreTypeOK' /\ ApiTypeOK'
      <3>1. CancelWrite(jobs[j]) \in JobRec
        BY WriteType DEF StoreTypeOK
      <3>2. ApiTypeOK'
        BY <2>3, <3>1 DEF CancelGet, ApiTypeOK
      <3> QED
        BY <2>3, <3>2, TypeFrame DEF CancelGet
    <2>4. ASSUME NEW c \in Client, NEW j \in JobID, NEW reset \in BOOLEAN,
                 RetryGet(c, j, reset)
          PROVE  StoreTypeOK' /\ ApiTypeOK'
      <3>1. RetryWrite(jobs[j], reset) \in JobRec
        BY WriteType DEF StoreTypeOK
      <3>2. ApiTypeOK'
        BY <2>4, <3>1 DEF RetryGet, ApiTypeOK
      <3> QED
        BY <2>4, <3>2, TypeFrame DEF RetryGet
    <2>5. StoreTypeOK' /\ ApiTypeOK'
      BY <1>12, <2>1, <2>2, <2>3, <2>4, SubmitFresh DEF RequestStep
    <2>6. UNCHANGED schedVars
      BY <1>12 DEF RequestStep, Submit, CreateEmbedded, Submitted, DeleteJob, CancelGet, RetryGet
    <2> QED
      BY <1>12, <2>5, <2>6, TypeFrame DEF RequestStep
  <1>13. ASSUME NEW c \in Client, UpdateStep(c) PROVE TypeOK'
    <2>1. req[c].job \in JobID /\ req[c].write \in JobRec
      BY <1>13 DEF UpdateStep, RequestUpdate, ApiTypeOK
    <2>2. StoreTypeOK'
      BY <1>13, <2>1, UpdateType DEF UpdateStep, RequestUpdate
    <2>3. ApiTypeOK'
      BY <1>13 DEF UpdateStep, RequestUpdate, ApiTypeOK
    <2>4. HistoryTypeOK'
      BY <1>13, <2>1 DEF UpdateStep, HistoryTypeOK
    <2> QED
      BY <1>13, <2>2, <2>3, <2>4, TypeFrame DEF UpdateStep, RequestUpdate
  <1>14. CASE Crash
    <2>1. SchedTypeOK' /\ PoolTypeOK'
      BY <1>14 DEF Crash, SchedTypeOK, NoBatch, PoolTypeOK, Idle, WorkerPC, Holding
    <2>2. RecoveryTypeOK' /\ ApiTypeOK' /\ HistoryTypeOK'
      BY <1>14 DEF Crash, RecoveryTypeOK, NoStuck, ApiTypeOK, HistoryTypeOK
    <2> QED
      BY <1>14, <2>1, <2>2, TypeFrame DEF Crash
  <1>15. CASE UNCHANGED vars
    BY <1>15, TypeFrame DEF vars
  <1>16. CASE StoreError
    <2>1. /\ DOMAIN worker' = Worker /\ worker' = [w \in Worker |-> worker'[w]]
          /\ rbatch' = [j \in JobID |-> rbatch'[j]]
          /\ req' = [c \in Client |-> req'[c]]
      BY <1>16 DEF StoreError, ServerError, RequestError, CallFails, DelayedFails, RecoverFails, RequestFails, poolVars,
                   PoolTypeOK, RecoveryTypeOK, ApiTypeOK
    <2>2. SchedTypeOK' /\ StoreTypeOK'
      BY <1>16, ErrorDrops, TypeFrame DEF SchedTypeOK
    <2>3. PoolTypeOK'
      BY <1>16, <2>1, ErrorDrops DEF PoolTypeOK, Idle, WorkerPC, Holding
    <2>4. RecoveryTypeOK' /\ ApiTypeOK'
      BY <1>16, <2>1, ErrorDrops DEF RecoveryTypeOK, ApiTypeOK
    <2>5. HistoryTypeOK'
      BY <1>16, ErrorDrops 
      DEF StoreError, ServerError, RequestError, history, HistoryTypeOK, CallFails, PoolTypeOK,
          Holding
    <2> QED
      BY <2>2, <2>3, <2>4, <2>5
  <1> QED
    BY <1>1, <1>2, <1>3, <1>4, <1>5, <1>6, <1>7, <1>8, <1>9, <1>10, <1>11, <1>12,
       <1>13, <1>14, <1>15, <1>16 DEF Next

\* Every reachable state is well typed: in particular the records that stale
\* snapshots, late reports and requests write are always complete records,
\* and a worker past its claim always has a job.
THEOREM TypeCorrect == Spec => []TypeOK
  BY TypeInit, TypeStep, PTL DEF Spec
=============================================================================
