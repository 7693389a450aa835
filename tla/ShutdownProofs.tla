--------------------------- MODULE ShutdownProofs ---------------------------
(***************************************************************************)
(* A server that is being shut down is still a server: every behaviour of  *)
(* Shutdown is one of GopherQueue, so the theorems about GopherQueue hold  *)
(* in it, and with one of them CleanExit.                                  *)
(***************************************************************************)
EXTENDS Shutdown, GopherQueueExecutions

-----------------------------------------------------------------------------
(* Shutdown implements GopherQueue.                                        *)

\* A step of the server in which no store call but a mark fails and nobody
\* kills the process.
ServerStep ==
    \/ SchedulerStep
    \/ \E j \in JobID : LostMark(j)
    \/ DelayedStep
    \/ \E j \in JobID : ClockStep(j)
    \/ FetcherStep
    \/ \E w \in Worker : WorkerStep(w)
    \/ \E w \in Worker : ClaimStep(w)
    \/ \E w \in Worker : HandlerStep(w)
    \/ \E w \in Worker : CheckpointStep(w)
    \/ \E w \in Worker : ReportStep(w)
    \/ RecoveryStep
    \/ RequestStep
    \/ \E c \in Client : UpdateStep(c)

\* The main goroutine and the goroutines' ends touch none of the components'
\* state; an interrupted handler is one that returns a system error.
LEMMA ShutdownStep == [ShutdownNext]_allVars => ServerStep \/ UNCHANGED vars
  <1> SUFFICES ASSUME [ShutdownNext]_allVars PROVE ServerStep \/ UNCHANGED vars
    OBVIOUS
  <1>1. CASE Signal \/ StopApi \/ StreamCloses \/ ApiStopped \/ PoolStopped \/ Exit \/ Expire
             \/ FetcherReturns \/ (\E w \in Worker : WorkerReturns(w)) \/ UNCHANGED allVars
    BY <1>1 DEF Signal, StopApi, StreamCloses, ApiStopped, PoolStopped, Exit, Expire,
       FetcherReturns, WorkerReturns, Leave, allVars
  <1>2. CASE FetcherGoesOn \/ ComponentStep \/ TimeStep
             \/ (\E c \in Client : RequestEnds(c))
             \/ (\E w \in Worker : WorkerGoesOn(w) \/ ClaimAgain(w))
    BY <1>2 DEF FetcherGoesOn, ComponentStep, TimeStep, RequestEnds, WorkerGoesOn, ClaimAgain,
       ServerStep
  <1>3. ASSUME NEW w \in Worker, Interrupt(w) PROVE HandlerStep(w)
    BY <1>3 DEF Interrupt, HandlerStep, ErrorCategory
  <1> QED
    BY <1>1, <1>2, <1>3 DEF ShutdownNext, ServerStep

\* With the signal, the calls of Stop and the goroutines' ends hidden, a server
\* that is told to stop at any moment behaves like one that is not: whatever
\* is proved of Spec holds until the exit.
THEOREM ShutdownImplements == ShutdownSpec => Spec
  <1>1. ShutdownInit => Init
    BY DEF ShutdownInit
  <1>2. ServerStep => Next
    BY DEF ServerStep, Next
  <1>3. [ShutdownNext]_allVars => [Next]_vars
    BY ShutdownStep, <1>2
  <1> QED
    BY <1>1, <1>3, PTL DEF ShutdownSpec, Spec

-----------------------------------------------------------------------------
(* CleanExit.                                                              *)

\* A claim counts as an execution that nothing orphaned.
LEMMA OrphansStep ==
    ASSUME orphans = {}, ServerStep \/ UNCHANGED vars
    PROVE  orphans' = {}
  <1>1. CASE \E w \in Worker : ClaimStep(w)
    BY <1>1 DEF ClaimStep
  <1>2. CASE (\E j \in JobID : LostMark(j)) \/ (\E c \in Client : UpdateStep(c))
    BY <1>2 DEF LostMark, UpdateStep
  <1>3. CASE \/ SchedulerStep \/ DelayedStep \/ FetcherStep \/ RecoveryStep \/ RequestStep
             \/ (\E j \in JobID : ClockStep(j))
             \/ (\E w \in Worker : WorkerStep(w) \/ HandlerStep(w) \/ CheckpointStep(w)
                                    \/ ReportStep(w))
             \/ UNCHANGED vars
    BY <1>3 DEF SchedulerStep, DelayedStep, FetcherStep, RecoveryStep, RequestStep, ClockStep,
       WorkerStep, HandlerStep, CheckpointStep, ReportStep, vars, history
  <1> QED
    BY <1>1, <1>2, <1>3 DEF ServerStep

\* The job is completed and its result is not saved.
Unsaved(j) == jobs[j].state = "completed" /\ results[j] = "none"

\* A worker is between the two transactions of Complete.
Saving(w, j) == worker[w].pc = "complete_save" /\ worker[w].job = j

\* Complete's own Update is the only write that makes a job completed, and
\* only Complete's SaveResult ends a worker's Saving.
LEMMA UnsavedStep ==
    ASSUME TypeOK, VerdictInv, ServerStep \/ UNCHANGED vars, NEW j \in JobID, Unsaved(j)',
           Unsaved(j) => \E w \in Worker : Saving(w, j)
    PROVE  \E w \in Worker : Saving(w, j)'
  <1> USE DEF TypeOK
  <1>a. ASSUME Unsaved(j), UNCHANGED worker PROVE \E w \in Worker : Saving(w, j)'
    BY <1>a DEF Saving
  <1>b. ASSUME NEW i \in JobID, NEW rec, rec.state # "completed", Update(i, rec)
        PROVE  Unsaved(j)
    BY <1>b DEF Update, Exists, NoJob, Unsaved, StoreTypeOK
  <1>c. ASSUME UNCHANGED <<jobs, results>> PROVE Unsaved(j)
    BY <1>c DEF Unsaved
  <1>1. CASE SchedulerStep \/ (\E i \in JobID : LostMark(i)) \/ DelayedStep
    <2>1. Unsaved(j)
      BY <1>1, <1>b, <1>c DEF SchedulerStep, LostMark, DelayedStep, ScheduleScan, ScheduleNext,
         MarkScheduled, DelayedScan, DelayedNext, UpdateState, storeVars
    <2> QED
      BY <1>1, <1>a, <2>1 DEF SchedulerStep, LostMark, DelayedStep, poolVars
  <1>2. CASE (\E i \in JobID : ClockStep(i)) \/ FetcherStep \/ UNCHANGED vars
    <2>1. UNCHANGED <<jobs, results, worker>>
      BY <1>2 DEF ClockStep, DelayElapse, VisibilityElapse, FetcherStep, GetNextJob, Forward,
         vars, storeVars, poolVars
    <2> QED
      BY <1>a, <1>c, <2>1
  <1>3. ASSUME NEW w \in Worker, WorkerStep(w) \/ HandlerStep(w) \/ ClaimStep(w)
        PROVE  \E v \in Worker : Saving(v, j)'
    <2>1. Unsaved(j)
      BY <1>3 DEF WorkerStep, Receive, ClaimRefused, HandlerStep, Succeed, Fail, HandlerReturns,
         ClaimStep, Claim, ClaimJob, Unsaved, storeVars, StoreTypeOK, PoolTypeOK
    <2>2. \A v \in Worker : Saving(v, j) => Saving(v, j)'
      BY <1>3 DEF WorkerStep, Receive, ClaimRefused, HandlerStep, Succeed, Fail, HandlerReturns,
         ClaimStep, Claim, Saving, PoolTypeOK
    <2> QED
      BY <2>1, <2>2
  <1>4. ASSUME NEW w \in Worker, CheckpointStep(w) PROVE \E v \in Worker : Saving(v, j)'
    BY <1>4, <1>a, <1>c DEF CheckpointStep, Checkpoint, SaveCheckpoint, poolVars
  <1>5. ASSUME NEW w \in Worker, ReportStep(w) PROVE \E v \in Worker : Saving(v, j)'
    <2>0. worker[w].job \in JobID
      BY <1>5 DEF ReportStep, CompleteUpdate, CompleteSave, FailSave, FailUpdate, PoolTypeOK
    <2>1. CASE CompleteUpdate(w)
      <3>1. CASE worker[w].job = j
        <4>1. Exists(j)
          BY <2>1, <3>1 DEF CompleteUpdate, Update, Unsaved, NoJob, StoreTypeOK
        <4> QED
          BY <2>1, <3>1, <4>1 DEF CompleteUpdate, Saving, PoolTypeOK
      <3>2. CASE worker[w].job # j
        <4>1. Unsaved(j)
          BY <2>1, <3>2 DEF CompleteUpdate, Update, Unsaved, StoreTypeOK
        <4>2. \A v \in Worker : Saving(v, j) => Saving(v, j)'
          BY <2>1 DEF CompleteUpdate, Saving, PoolTypeOK
        <4> QED
          BY <4>1, <4>2
      <3> QED
        BY <3>1, <3>2
    <2>2. CASE CompleteSave(w)
      <3>1. worker[w].job # j /\ Unsaved(j)
        BY <2>0, <2>2 DEF CompleteSave, SaveResult, Unsaved, StoreTypeOK
      <3>2. \A v \in Worker : Saving(v, j) => Saving(v, j)'
        BY <2>2, <3>1 DEF CompleteSave, Saving, PoolTypeOK
      <3> QED
        BY <3>1, <3>2
    <2>3. CASE FailSave(w)
      <3>1. Unsaved(j)
        BY <2>0, <2>3 DEF FailSave, SaveResult, Unsaved, StoreTypeOK
      <3>2. \A v \in Worker : Saving(v, j) => Saving(v, j)'
        BY <2>3 DEF FailSave, Saving, PoolTypeOK
      <3> QED
        BY <3>1, <3>2
    <2>4. CASE FailUpdate(w)
      <3>1. worker[w].write.state # "completed"
        BY <2>4 DEF FailUpdate, VerdictInv
      <3>2. Unsaved(j)
        BY <1>b, <2>0, <2>4, <3>1 DEF FailUpdate
      <3>3. \A v \in Worker : Saving(v, j) => Saving(v, j)'
        BY <2>4 DEF FailUpdate, Saving, PoolTypeOK
      <3> QED
        BY <3>2, <3>3
    <2> QED
      BY <1>5, <2>1, <2>2, <2>3, <2>4 DEF ReportStep
  <1>6. CASE RecoveryStep
    <2>1. Unsaved(j)
      BY <1>6, <1>b, <1>c DEF RecoveryStep, RecoveryScan, RecoverJob, RecoverWrite, storeVars
    <2> QED
      BY <1>6, <1>a, <2>1 DEF RecoveryStep, poolVars
  <1>7. CASE RequestStep
    <2>1. Unsaved(j)
      BY <1>7, RequestCases, FreshFacts DEF Submitted, Create, DeleteJob, Delete, storeVars,
         StoreTypeOK, NoJob, Unsaved
    <2> QED
      BY <1>7, <1>a, <2>1 DEF RequestStep, poolVars
  <1>8. ASSUME NEW c \in Client, UpdateStep(c) PROVE \E v \in Worker : Saving(v, j)'
    <2>1. req[c].write.state # "completed" /\ req[c].job \in JobID
      BY <1>8 DEF UpdateStep, RequestUpdate, VerdictInv, ApiTypeOK
    <2>2. Unsaved(j)
      BY <1>8, <1>b, <2>1 DEF UpdateStep, RequestUpdate
    <2> QED
      BY <1>8, <1>a, <2>2 DEF UpdateStep, poolVars
  <1> QED
    BY <1>1, <1>2, <1>3, <1>4, <1>5, <1>6, <1>7, <1>8 DEF ServerStep

\* What the pool's Stop relies on: a goroutine that has left the wait group
\* is idle and stays so, and Stop returns early only when the time is up.
PoolGone ==
    /\ \A w \in Worker \cap gone : worker[w].pc = "idle"
    /\ phase \in {"closing", "exited"} /\ ~expired => Pool \subseteq gone

LEMMA PoolGoneStep ==
    ASSUME TypeOK, PoolGone, [ShutdownNext]_allVars
    PROVE  PoolGone'
  <1> USE DEF TypeOK
  <1>1. CASE Signal \/ StopApi \/ StreamCloses \/ ApiStopped \/ PoolStopped \/ Exit \/ Expire
             \/ UNCHANGED allVars
    BY <1>1 DEF Signal, StopApi, StreamCloses, ApiStopped, PoolStopped, Exit, Expire, allVars,
       vars, poolVars, lifecycle, PoolGone
  <1>2. CASE FetcherReturns \/ (\E w \in Worker : WorkerReturns(w))
    BY <1>2, ShutdownAssumption DEF FetcherReturns, WorkerReturns, Leave, vars, poolVars, PoolGone
  <1>3. CASE FetcherGoesOn
    BY <1>3, ShutdownAssumption DEF FetcherGoesOn, FetcherStep, GetNextJob, Forward, PoolGone
  <1>4. CASE ComponentStep \/ TimeStep \/ (\E c \in Client : RequestEnds(c))
    <2>1. UNCHANGED <<worker, gone, phase, expired>>
      BY <1>4 DEF ComponentStep, TimeStep, RequestEnds, SchedulerStep, LostMark, DelayedStep,
         RecoveryStep, CheckpointStep, Checkpoint, RequestStep, ClockStep, UpdateStep, poolVars,
         lifecycle
    <2> QED
      BY <2>1 DEF PoolGone
  <1>5. ASSUME NEW w \in Worker, WorkerGoesOn(w) \/ ClaimAgain(w) \/ Interrupt(w)
        PROVE  PoolGone'
    <2>1. w \notin gone
      BY <1>5 DEF WorkerGoesOn, ClaimAgain, ClaimStep, Claim, Interrupt, Fail, HandlerReturns,
         PoolGone
    <2>2. \A v \in Worker : v # w => worker'[v] = worker[v]
      BY <1>5 DEF WorkerGoesOn, WorkerStep, Receive, ClaimRefused, HandlerStep, Succeed, Fail,
         HandlerReturns, ReportStep, CompleteUpdate, CompleteSave, FailSave, FailUpdate,
         ClaimAgain, ClaimStep, Claim, Interrupt, PoolTypeOK
    <2>3. UNCHANGED <<gone, phase, expired>>
      BY <1>5 DEF WorkerGoesOn, ClaimAgain, Interrupt, lifecycle
    <2> QED
      BY <2>1, <2>2, <2>3 DEF PoolGone
  <1> QED
    BY <1>1, <1>2, <1>3, <1>4, <1>5 DEF ShutdownNext

\* A server of any size that stops before its timeout, whenever the signal
\* came, leaves no job running and no completed job without a result.
THEOREM ExitsClean == ShutdownSpec => []CleanExit
  <1>1. ShutdownInit => ShutdownInv
    BY DEF ShutdownInit, Init, StoreInit, NoJob, ShutdownInv
  <1>2. TypeOK /\ VerdictInv /\ ShutdownInv /\ [ShutdownNext]_allVars => ShutdownInv'
    BY ShutdownStep, OrphansStep, UnsavedStep, PoolGoneStep
       DEF ShutdownInv, PoolGone, Unsaved, Saving
  <1>3. RunningIsHeld /\ ShutdownInv => CleanExit
    BY DEF RunningIsHeld, Holds, Holding, ShutdownInv, CleanExit, Pool
  <1> QED
    BY <1>1, <1>2, <1>3, ShutdownImplements, TypeCorrect, VerdictInvariant, RunningJobsHeld, PTL
       DEF ShutdownSpec
=============================================================================
