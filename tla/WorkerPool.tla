----------------------------- MODULE WorkerPool -----------------------------
(***************************************************************************)
(* worker/simple_pool.go.  One fetcher goroutine moves ids from the        *)
(* scheduler's channel to the pool's; Concurrency workers receive from the *)
(* pool's channel, claim, run the handler and report.                      *)
(*                                                                         *)
(* A worker's report is a call of the scheduler's Complete or Fail: a Get, *)
(* then two writes, each a transaction of its own.  The pc names the next  *)
(* one.  Complete updates the job and then saves the result; Fail saves    *)
(* the result and then updates the job.                                    *)
(***************************************************************************)
EXTENDS Scheduler

CONSTANT Worker

VARIABLES fetched,   \* the id jobFetcher holds between its two channels
          poolCh,    \* SimplePool.jobCh
          worker     \* each worker's pc, job and record about to be written

poolVars == <<fetched, poolCh, worker>>

PoolCapacity == 2 * Cardinality(Worker)

Idle == [pc |-> "idle", job |-> NoID, write |-> NoJob]

\* Between a successful claim and the write that ends it.
Holding == {"running", "complete_update", "fail_save", "fail_update"}

WorkerPC == {"idle", "received", "complete_save"} \cup Holding

PoolTypeOK ==
    /\ fetched \in JobID \cup {NoID}
    /\ poolCh \in Seq(JobID)
    /\ worker \in [Worker -> [pc    : WorkerPC,
                              job   : JobID \cup {NoID},
                              write : JobRec \cup {NoJob}]]
    /\ \A w \in Worker :
          /\ worker[w].pc # "idle" => worker[w].job \in JobID
          /\ worker[w].pc \in {"complete_update", "fail_save", "fail_update"}
                => worker[w].write \in JobRec

PoolInit ==
    /\ fetched = NoID
    /\ poolCh = <<>>
    /\ worker = [w \in Worker |-> Idle]

-----------------------------------------------------------------------------
(* jobFetcher.                                                             *)

GetNextJob ==
    /\ fetched = NoID
    /\ schedCh # <<>>
    /\ fetched' = Head(schedCh)
    /\ schedCh' = Tail(schedCh)
    /\ UNCHANGED <<storeVars, batch, dbatch, ripe, poolCh, worker>>

Forward ==
    /\ fetched # NoID
    /\ Len(poolCh) < PoolCapacity
    /\ poolCh' = Append(poolCh, fetched)
    /\ fetched' = NoID
    /\ UNCHANGED <<storeVars, schedVars, worker>>

-----------------------------------------------------------------------------
(* worker and processJob.                                                  *)

Receive(w) ==
    /\ worker[w].pc = "idle"
    /\ poolCh # <<>>
    /\ worker' = [worker EXCEPT ![w] =
                    [pc |-> "received", job |-> Head(poolCh), write |-> NoJob]]
    /\ poolCh' = Tail(poolCh)
    /\ UNCHANGED <<storeVars, schedVars, fetched>>

\* ClaimJob says yes: the handler starts.
Claim(w) ==
    /\ worker[w].pc = "received"
    /\ ClaimJob(worker[w].job)
    /\ worker' = [worker EXCEPT ![w].pc = "running"]
    /\ UNCHANGED <<schedVars, fetched, poolCh>>

\* ClaimJob says no, or the job is gone: the delivery is dropped.
ClaimRefused(w) ==
    /\ worker[w].pc = "received"
    /\ ~Claimable(worker[w].job)
    /\ worker' = [worker EXCEPT ![w] = Idle]
    /\ UNCHANGED <<storeVars, schedVars, fetched, poolCh>>

\* JobContext.Checkpoint, called by a running handler.
Checkpoint(w) ==
    /\ worker[w].pc = "running"
    /\ worker[w].job \in Checkpointing
    /\ SaveCheckpoint(worker[w].job)
    /\ UNCHANGED <<schedVars, poolVars>>

\* The handler returns (or panics, or there is no handler for the job type:
\* both are permanent errors) and Complete or Fail reads the record.  The
\* handler's return is invisible to everyone else until that Get.
HandlerReturns(w, pc, write) ==
    /\ worker[w].pc = "running"
    /\ worker' = [worker EXCEPT ![w] =
                    IF Exists(worker[w].job)
                    THEN [pc |-> pc, job |-> worker[w].job, write |-> write]
                    ELSE Idle]
    /\ UNCHANGED <<storeVars, schedVars, fetched, poolCh>>

\* Mutant: a failure is reported without saving its result first.
FailWithoutResult(w, category) ==
    HandlerReturns(w, "fail_update", FailWrite(worker[w].job, jobs[worker[w].job], category))

Succeed(w) ==
    HandlerReturns(w, "complete_update", CompleteWrite(jobs[worker[w].job]))

Fail(w, category) ==
    HandlerReturns(w, "fail_save", FailWrite(worker[w].job, jobs[worker[w].job], category))

CompleteUpdate(w) ==
    /\ worker[w].pc = "complete_update"
    /\ Update(worker[w].job, worker[w].write)
    /\ worker' = [worker EXCEPT ![w] =
                    IF Exists(worker[w].job)
                    THEN [pc |-> "complete_save", job |-> worker[w].job, write |-> NoJob]
                    ELSE Idle]
    /\ UNCHANGED <<schedVars, fetched, poolCh>>

CompleteSave(w) ==
    /\ worker[w].pc = "complete_save"
    /\ SaveResult(worker[w].job, "success")
    /\ worker' = [worker EXCEPT ![w] = Idle]
    /\ UNCHANGED <<schedVars, fetched, poolCh>>

\* Mutant: Fail returns once the result is saved.
FailSaveOnly(w) ==
    /\ worker[w].pc = "fail_save"
    /\ SaveResult(worker[w].job, "failure")
    /\ worker' = [worker EXCEPT ![w] = Idle]
    /\ UNCHANGED <<schedVars, fetched, poolCh>>

FailSave(w) ==
    /\ worker[w].pc = "fail_save"
    /\ SaveResult(worker[w].job, "failure")
    /\ worker' = [worker EXCEPT ![w].pc = "fail_update"]
    /\ UNCHANGED <<schedVars, fetched, poolCh>>

FailUpdate(w) ==
    /\ worker[w].pc = "fail_update"
    /\ Update(worker[w].job, worker[w].write)
    /\ worker' = [worker EXCEPT ![w] = Idle]
    /\ UNCHANGED <<schedVars, fetched, poolCh>>

\* A store call of the claim or of the report (its Get included) fails: the
\* worker drops the job and takes the next one.
CallFails(w) ==
    /\ worker[w].pc # "idle"
    /\ worker' = [worker EXCEPT ![w] = Idle]
    /\ UNCHANGED <<storeVars, schedVars, fetched, poolCh>>
=============================================================================
