# GopherQueue in TLA+

A verification project for the GopherQueue server (`gq serve`): TLA+ modules
that model its components, TLC configurations that check them on small
instances, and TLAPS proofs that hold for every instance.

## 1. The system

| Component | Source | State it keeps | Operations |
|---|---|---|---|
| Job model | `core/job.go`, `core/options.go`, `core/errors.go` | the job record | `NewJob`, `IsTerminal`, `ClassifyError` |
| BoltStore | `persistence/bolt_store.go` | buckets jobs, results, checkpoints, idempotency | `Create`, `Get`, `Update`, `UpdateState`, `Delete`, `ClaimJob`, `SaveResult`, `SaveCheckpoint`, `GetPending`, `GetDelayed`, `GetStuck`, `Cleanup` |
| Store interface | `persistence/store.go` | | what both stores promise |
| MemoryStore | `persistence/memory_store.go` | maps under one lock | the same |
| PriorityScheduler | `scheduler/scheduler.go` | `jobCh`, the snapshots its two loops work through | `scheduleJobs`, `processDelayedJobs`, `Enqueue`, `GetNextJob`, `Complete`, `Fail`, `Cancel`, `Retry` |
| SimplePool | `worker/simple_pool.go` | its `jobCh`, what each worker is doing | `jobFetcher`, `worker`, `processJob`, `Checkpoint` |
| Recovery manager | `recovery/manager.go` | the snapshot it works through | `RecoverStuckJobs` |
| Request handlers | `api/handlers.go` | what a request has read and not yet written | submit, batch submit, cancel, retry, delete, wait, events |
| EventBus | `api/handlers.go` | subscribers' channels | `Subscribe`, `Unsubscribe`, `Publish` |
| Server process | `cli/serve.go`, `api/server.go` | everything but the database | start, graceful shutdown, sudden death |
| Dispatcher, metrics, health, security, CLI, SDKs | `worker/dispatcher.go`, `observability/`, `security/`, `cli/`, `sdks/` | | |

All components are goroutines of one process.  They share the store, whose
every operation is one bbolt transaction, and two buffered channels (scheduler
to fetcher, fetcher to workers).  No lock spans two transactions: each
component reads a record in one transaction, decides, and writes the whole
record back in a later one.  `ClaimJob` is the only operation that decides and
writes in one transaction.

What makes it hard:

* **Stale snapshots.**  The scheduler marks, and the recovery manager
  overwrites, jobs they saw some time ago; `Complete`, `Fail`, `Cancel` and
  `Retry` do the same with a single record.
* **Repeated delivery.**  A job that nobody has claimed is sent again at every
  tick, so its id may be in the channels many times, also long after the job
  was run, cancelled, deleted or retried.
* **Two-transaction reports.**  A crash, a delete or a retry can fall between
  the result and the state.
* **A visibility timeout shorter than the job timeout.**  The recovery manager
  takes jobs from workers that are still at work.
* **Failing store calls.**  Most are logged and forgotten; what was half done
  stays half done.
* **Shutdown.**  SIGTERM cancels one context that everything shares; the loops,
  the fetcher, the workers and the handlers notice in any order.
* **Events.**  Publishers share a lock and write to bounded channels of clients
  that come, stop reading, and go.
* **Limits.**  A snapshot returns at most `BatchSize` jobs, a full channel ends
  a tick early.

The properties that make it correct: attempts are counted right and verdicts
fit them; a job is not run more often, or by more workers at once, than
retries justify; deletion is final; a failed or completed job has its result;
the idempotency index is exact; the store is used as its interface provides;
delays are honoured; a shutdown loses nothing it need not lose and ends; every request is answered; and everything that waits
is served.

## 2. Modules

| Module | Models | State and actions |
|---|---|---|
| `Jobs` | `core/job.go` | job records, states, error categories; constants for what a submission fixes |
| `JobStore` | `bolt_store.go` | `jobs`, `results`, `checkpoints`, `idempotency`, `overdue`; one operator per transaction |
| `Verdicts` | `scheduler.go` | the decisions of `Complete`, `Fail`, `Cancel`, `Retry` as functions of the record read |
| `Scheduler` | `scheduler.go` | `schedCh`, `batch`, `dbatch`, `ripe`; `ScheduleScan`/`ScheduleNext`, `DelayedScan`/`DelayedNext` |
| `WorkerPool` | `simple_pool.go` | `fetched`, `poolCh`, `worker`; fetch, forward, receive, claim, handler's return, the two writes of each report, checkpoint |
| `Recovery` | `manager.go` | `rbatch`; `RecoveryScan`, `RecoverJob` |
| `Api` | `handlers.go` | `minted`, `req`; `Submit`, `CreateEmbedded`, `DeleteJob`, `CancelGet`, `RetryGet`, `RequestUpdate`: what requests do to the store |
| `GopherQueue` | `serve.go` and the composition | history variables, `LostMark`, `StoreError`, `Crash`, `Next`, fairness, and the properties |
| `Shutdown` | `serve.go`, the `Stop` methods | EXTENDS `GopherQueue` with `phase`, `gone`, `expired`, `streaming`; the signal, the calls of `Stop`, the goroutines' ends, interrupted handlers |
| `StoreContract` | `store.go` | abstract specification: `jobs`, `results`, `checkpoints`, no index; `Spec` as documented, `ImplementedSpec` with the claims of pending jobs that both stores allow |
| `MemoryStore` | `memory_store.go` | the maps; one operator per locked operation, `Cleanup` included |
| `EventBus` | `handlers.go` | `subscribers`, `channel`, `stream`, `sending`; subscribe, receive, unsubscribe, and `Publish` one channel at a time |
| `Requests` | `handlers.go` | composes `MemoryStore`, `Verdicts` and `EventBus`: `rq`, `tally`; every handler that writes, publishes or waits, up to its answer |
| `Invariants` | | inductive strengthenings used by the proofs about `GopherQueue` (those about `EventBus` and `Requests` are in these modules) |
| `MCGopherQueue`, `MCShutdown`, `MCRequests` | | constant values for TLC |
| `GopherQueueProofs`, `GopherQueueSafety`, `GopherQueueExecutions`, `GopherQueueRefinement`, `ShutdownProofs`, `EventBusProofs`, `RequestsProofs` | | theorems and proofs |

The request handlers are modelled twice, because they are asked two questions.
`Api` has what they do to the store, next to the scheduler, the workers and
recovery, over BoltStore.  `Requests` has what they do for the client (batches,
answers, events, waiting) over MemoryStore, with the rest of the server reduced
to what it does to a job in the normal course (`OthersStep`).

How the code is cut into steps:

* One step is one store transaction or one channel operation.  The scheduler's
  mark and the send that follows it are one step (`ScheduleNext`); the comment
  there says why nothing can tell.
* A handler's return and the `Get` with which `Complete` or `Fail` starts are
  one step, since the return alone is visible to nobody.  A missing handler and
  a panic are permanent errors of that step.
* `StoreError` is a store call that returns an error instead of doing its work:
  a claim, either half of a report, a delayed job's or a recovered job's write,
  the write of a cancel or retry.  What the caller does then is the component's
  `...Fails` action.  The scheduler's mark has an action of its own, `LostMark`,
  because there the code goes on as if nothing had happened.
* `Publish` takes its lock in one step, serves one channel per step, and
  releases the lock with its last.
* Loops that end on shutdown and that nobody waits for are not recorded as
  ended: a loop that has left is one that does not tick any more.  The pool's
  goroutines are recorded (`gone`), as `Stop` waits for them.
* A tick that finds nothing, a refused cancel or retry and a read-only request
  change nothing and are no steps.  An unforced cancel of a running job is not
  refused: it writes nothing, but the handler goes on to read the job again,
  publishes `job.cancelled` and answers 200.  In `Requests` it is the action
  `CancelRunning`; in `Api`, which is about the store only, it is no step.
* A job's identifier is a number that also stands for its `CreatedAt`.
  Submission draws a fresh one (`minted`), as `uuid.New` does.
* Time is two facts per job: `ripe` (its scheduled time has come) and `overdue`
  (its `StartedAt` is past the visibility timeout), each becoming true at any
  moment.
* `Crash` loses all that is not in the database and starts again at once.  A
  server that stays down for a while is the same, as nothing happens meanwhile
  but the passing of time.
* The HTTP handlers store a job before `Enqueue` edits it, so none of their
  jobs is ever stored as delayed (`Submit`).  A delayed job reaches the store
  only from an application that runs the engine in its own process
  (`docs/PERFORMANCE_COMPARISON.md:5`) and calls the public `Enqueue` before
  `Create`.  `Embedded` is the set of jobs submitted that way
  (`CreateEmbedded`, an external definition: no such program is in the
  repository).  It is empty in every run but `deferred`, where it keeps the
  delayed loop from being idle.

Left out of the modelled components: payloads, errors' texts, tags, timestamps
nothing compares, statistics and the contents of HTTP responses other than a
batch's counters; `Submit`, `WaitForJob`, `Schedule` and BoltStore's `Cleanup`,
which nothing calls.  Failing store calls are not combined with shutdown, nor
with `Requests`, where a failing `Create` is one whose key is taken.  The
history variables `claims`, `retried`, `faults`, `errors`, `orphans`, `crashes`,
`interrupted`, `owed` and a tally's `stored` record what happened and guard
nothing but the bounds, which keep the instances finite: `MaxTouches` (retries
carried out and marks lost, per job), `MaxFaults` (marks lost among them),
`MaxErrors` (other failing store calls of the server; `ServerError`) and
`MaxCrashes`.  Failing calls of requests (`RequestError`) are not bounded.

## 3. Properties and runs

`CHECK_DEADLOCK` is off in all runs because the system may come to rest: when
all jobs are terminal (or retrying) and no client acts, nothing happens any
more; a process that has exited does nothing either.

| Run | Instance | Checks |
|---|---|---|
| `overlap` | 1 job (2 attempts), 2 workers, 1 client, 1 retry or 1 lost mark, channel size 1 | `VerdictMatchesAttempts`, `RunningIsHeld`, `BoundedExecutions`, `NoOverlap`, `DeadLetterEarned`, `DeletedStaysDeleted`, `PendingClaimsExplained` |
| `orphans` | 2 jobs with the same key (2 attempts and 1), 1 worker, 1 failing store call, 1 crash, one job checkpoints; fair | `TypeOK`, `IdempotencyIndex`, `FailedHasResult`, `RunningEnds`, `StoreContractHolds` |
| `deferred` | 2 delayed jobs from an embedding application, the younger more urgent, snapshots and channel of size 1, 1 failing store call; fair | `WaitingIsServed`, `DelayedIsScheduled` |
| `shutdown` | `MCShutdown`: 1 job, 1 worker, 1 client; fair | `CleanExit`, `ShutdownEnds` |
| `requests` | `MCRequests`: a batch with an invalid item, a submission with the same key (or a deletion), a cancel, retry or wait; two streams, channels of size 1; fair | `KeyIndexExact`, `BatchCounts`, `NoSendOnClosed`, `OfferedOnce`, `MemoryKeepsContract`, `RequestsEnd` |

What they show: however the stale writes interleave, the verdict stored with a
job fits its attempts (`VerdictMatchesAttempts`) and is earned by executions
that took place (`DeadLetterEarned`); a job that nobody retried is never run by
two workers at once (`NoOverlap`), and in general is started at most
`1 + 2 * retries + lost marks` times (`BoundedExecutions`).  The factor 2 is
real: after a retry, a worker may claim the job through an id sent for its
earlier run, and the mark of the scheduler's older snapshot then makes the
running job claimable again.  A crash adds no term, and that is not a merit: an
interrupted job becomes `retrying` and is not run again (`retrying_sink`),
although the documents promise it.

`WaitingIsServed` is about finitely many jobs.  Under an endless stream of more
urgent ones a job of low priority starves, as `docs/JOB_MODEL.md` (priorities
LOW and BULK, scheduling rule 3) accepts.

A store call that fails leaves at worst a job that is running in the store and
in nobody's hands, and the recovery manager ends that (`RunningEnds`).  A
shutdown that is over before its timeout leaves no running job and no completed
job without a result, although jobs may still be claimed after the signal
(`CleanExit`); and it does end, although the fetcher may be blocked on a channel
that no worker empties any more (`ShutdownEnds`).  Whatever streams come and go,
no publisher sends on a closed channel, every stream is offered each of its
events once, and none of them makes a request wait.

**The store contract.**  `StoreContract!Spec` states what `persistence/store.go`
promises: operations are atomic, an idempotency key belongs to at most one
stored job, an absent job is created and never updated, a job starts running
only by a claim of a scheduled job, which counts an attempt, and removal takes
everything.  There is no index in it.  The program does not keep the promise
about claims: both stores let a pending job be claimed too, and
`claim_pending` shows it happen.  `StoreContract!ImplementedSpec` adds just
that operation (`ClaimPending`), and two implementations are checked against
it: `StoreContractHolds` says that `GopherQueue`, on BoltStore, with crashes
and failing calls, implements it (an `INSTANCE ... WITH` whose mapping is the
identity on `jobs`, `results` and `checkpoints`; everything else is hidden), and
`MemoryKeepsContract` says the same of `Requests`, on MemoryStore.
`PendingClaimsExplained` says how far the server is from the documented
contract: only a job that was retried, or whose mark was lost, is ever claimed
while it is pending.  `KeyIndexExact` ties MemoryStore's index to the contract's
statement about stored jobs.

**Why the bounds are enough.**  The properties are about one job, and jobs meet
only in the limits of snapshots and channels and in the key index, for which
two jobs and size 1 produce both the overflow and the contention.  Two workers
are the least that can overlap.  One retry already gives a job two generations
of ids in the channels and one stale snapshot (a retry and a lost mark together
give no new kind of trouble, so the two share a bound), one crash already falls
between any two transactions, one failing store call already hits every call the
code makes.  For the shutdown one worker and one client suffice, as they meet only in
the wait group and in `ApiStopped`; with channels of size 1 and an id sent at
every tick the fetcher does block.  In `requests` three handlers are enough for
two to publish while a third writes, and channels of size 1 are full after one
event.  All safety properties, and both refinements, are also proved without
bounds (section 4), so only liveness rests on the bounds.

Seven runs are violated, and show where the program differs from its documents
(each a finding in `PROJECT.json`):

* `retrying_sink`: a job that failed temporarily, or was recovered, is written
  as `retrying`, and nothing ever picks up a retrying job.  Interrupted jobs are
  a second finding: the documents have them rescheduled.
* `cancelled_revived`: the scheduler's mark brings a job cancelled after the
  snapshot back to `scheduled`.
* `result_lost`: a crash between the two transactions of `Complete` leaves a
  completed job without a result.
* `delay_ignored`: a job submitted over HTTP with a delay is stored pending.
* `interrupted`: a job whose handler is running when SIGTERM arrives is
  recorded as failed (its context is cancelled at once, and the cancellation
  counts as a system error, which is not retried).
* `batch_partial`: an atomic batch whose second job cannot be created has
  already stored the first.
* `claim_pending`: a retried job is claimed while pending.

Two passing properties state what the code does where the documents say
something else; they are findings as well:

* `VerdictMatchesAttempts`: a permanent failure of the last attempt is stored as
  `dead_letter`.  `docs/JOB_MODEL.md:97-99` and `docs/FAILURE_PLAYBOOK.md:367`
  make it `failed`, and `README.md:149` calls `failed` what the code calls
  `dead_letter`.  (`docs/MANIFESTO.md` and the README word "dead letter" in
  further ways; `DeadLetterEarned` follows `docs/JOB_MODEL.md`.)
* `KeyIndexExact` (and `IdempotencyIndex`): an idempotency key is unique among
  all stored jobs for as long as its job is stored.  `docs/JOB_MODEL.md:36-38`
  scopes keys to a job type and lets them expire.

**Fairness.**  Weak fairness for every loop (their tickers fire for ever), for
the fetcher and for each worker as one thread (`WorkerThread`: channel
operations and transactions return), for
handlers' returns (they get a context with a deadline and are expected to obey
it), for the second half of a request, and for time.  No fairness for clients,
checkpoints, failing writes and crashes.  `RunningEnds` holds for a worker that
dies, or whose report is lost, as well: then recovery ends it.

`Shutdown` assumes that the main goroutine goes on when what it waits for has
happened, and that the pool's goroutines do.  The timeout is assumed to fire
only while `apiServer.Stop` waits, since a client may keep a stream open for
ever; that the pool ends is shown without it.  `Requests` assumes that a handler
that can go on does (its store calls return, its poll timer and its timeout
fire); nothing is assumed of streams, nor of the rest of the server.

## 4. Proofs

TLAPS proves, for all values of the constants (any jobs, workers, clients,
batch size, any number of retries, lost marks, failing store calls and crashes,
jobs submitted over HTTP or by an embedding application), from the named
assumptions `JobAssumption`, `BatchAssumption`, `ApiAssumption`,
`BoundsAssumption` and, for the theorems about `ShutdownSpec`,
`ShutdownAssumption`:

| Theorem | Statement | Argument |
|---|---|---|
| `TypeCorrect` | `Spec => []TypeOK` | inductive as it stands |
| `VerdictsCorrect` | `Spec => []VerdictMatchesAttempts` | `VerdictInv`: the writes that workers and requests still have to make fit too |
| `DeadLettersEarned` | `Spec => []DeadLetterEarned` | `AttemptInv`: no copy of a record, wherever it is kept, counts more attempts than there were claims |
| `IndexCorrect` | `Spec => []IdempotencyIndex` | inductive with `TypeOK`, since no write but `Create` and `Delete` makes or removes a job |
| `DeletionsFinal` | `Spec => DeletedStaysDeleted` | an absent job is only written by `Create`, with a fresh id |
| `RunningJobsHeld` | `Spec => []RunningIsHeld` | inductive with `VerdictInv`: no pending write makes a job running |
| `FailuresExplained` | `Spec => []FailedHasResult` | `ResultInv`: a worker about to write `failed` has its result stored or its job deleted; `MintedInv`: ids in flight are never reused |
| `ExecutionsBounded` | `Spec => []BoundedExecutions` | `ExecutionInv`, below |
| `ExecutionsExclusive` | `Spec => []NoOverlap` | from `BoundedExecutions`' account: a job never retried or hit by a lost mark is claimed at most once, and only a claim puts a job in a worker's hands |
| `PendingClaimsKnown` | `Spec => PendingClaimsExplained` | from `BoundedExecutions`' account: the id of an untouched pending job is in no channel; and by `VerdictInv` only a claim writes `running` |
| `ContractKept` | `Spec => StoreContractHolds` | the refinement to `StoreContract!ImplementedSpec`, step by step, with `IndexCorrect` for the key test of `Create` and `VerdictInv` for the writes that callers make |
| `ShutdownImplements` | `ShutdownSpec => Spec` | a step of the shutdown leaves the components alone, any other is a step of theirs |
| `ExitsClean` | `ShutdownSpec => []CleanExit` | `ShutdownInv`: nothing is orphaned while the process lives, a completed job without a result has a worker about to save it, a worker that has returned is idle; with `RunningJobsHeld`, which `ShutdownImplements` carries over |

`BoundedExecutions` is far from inductive.  `ExecutionInv` keeps an account of
the executions that what is stored and remembered still allows: a pending job
counts two (it can be claimed, and then marked scheduled by a stale snapshot and
claimed again), a scheduled one counts one, a snapshot that saw the job pending
counts one more.  For a job never retried and never hit by a lost mark the
account is stricter: as long as it is unsent (pending, delayed, or waiting in a
snapshot to be marked) no id of it is in flight and it has not been claimed, so
its first mark cannot come after its first claim.  `StartedInv` (what only a
started job can be) and `MintedInv` supply the side conditions.

The request handlers (`RequestsSpec`) are proved correct for any jobs, requests,
batches of any length, streams and channel capacity, from `JobAssumption`,
`BusAssumption` and `RequestAssumption`.  (Every item of a request has an id of
its own, which `uuid.New` gives it; a single submission without a type is
refused before anything happens.)

| Theorem | Statement | Argument |
|---|---|---|
| `RequestsCorrect` | `RequestsSpec => []RequestsInv` | the inductive invariant: `RequestsTypeOK`, `BusInv`, `KeyInv`, `BatchInv` |
| `SendsAreSafe` | `RequestsSpec => []NoSendOnClosed` | `BusInv` |
| `EventsOfferedOnce` | `RequestsSpec => []OfferedOnce` | `BusInv` |
| `KeysExact` | `RequestsSpec => []KeyIndexExact` | `KeyInv`: keys and stored jobs lead to each other, also after a `Cleanup` of many jobs |
| `BatchesCounted` | `RequestsSpec => []BatchCounts` | `BatchInv` |
| `AtomicBatchesComplete` | `RequestsSpec => []AtomicIsComplete` | `BatchInv` |
| `MemoryContractKept` | `RequestsSpec => MemoryKeepsContract` | the refinement, step by step, with `KeyInv` for the key test of `Create`; again to `ImplementedSpec` |

The three parts of `RequestsInv` do not share variables, and the proof follows
that: one lemma per operation of the store, of the bus (`EventBusProofs`) and of
a handler's bookkeeping, then one lemma per part that goes through the actions.

* `BusInv`.  That no closed channel is sent to is a matter of the lists: while a
  publisher is at it nobody can subscribe or unsubscribe, so what it still has
  to serve is a tail of lists that do not change.  `ListsExact` says that the
  list of a topic has every open stream of that topic once and no other, which
  makes what a publisher collects from the topic's list and from the wildcard
  list free of repetitions; `OwnEvents` and `NothingOwedYet` keep the events of
  two publishers, and of a stream's past, apart.
* `BatchInv`.  `Accepted` starts as the number of valid items and is corrected
  downwards, so in between it counts the jobs stored plus those still to be
  tried.  That these are different jobs needs the ids to be distinct.  The same
  account shows the half of "all-or-nothing" that the code keeps: an atomic batch
  that is answered with counters has stored every item (`AtomicIsComplete`, which
  no run lists because the theorem covers it; `batch_partial` shows the half that
  fails).

Only model-checked: liveness (`RunningEnds`, `WaitingIsServed`,
`DelayedIsScheduled`, `ShutdownEnds`, `RequestsEnd`), which is out of the
prover's reach, and the properties of the seven runs that are violated.

## 5. Not modelled

* The backoff's arithmetic: 64-bit floating point, and nothing reads the
  scheduled time of a retrying job.
* `SimpleDispatcher`: nothing in the server creates one.
* `RecoverOrphanedJobs`, which only calls `RecoverStuckJobs` and which nothing in
  the server calls.
* MemoryStore's lists (their order is that of a Go map), the per-item results
  of a batch response, and what a wait response says besides that it comes.
* Stopping a component and starting it again, which the server never does.
* Metrics, health, authentication (`gq serve` sets no authenticator), HTTP
  routing and encoding, the command line and the SDKs.

## 6. Plan

Done: the core (store, scheduler, pool, recovery, requests, composition,
crash), failing store calls, graceful shutdown, the store contract with its two
implementations, the request handlers with the event bus, and proofs of every
safety property that a passing run checks, of both refinements, and of the shutdown
implementing the server (section 4).  What could come next:

1. Consequences of `StoreContract` alone, such as that stored jobs have distinct
   keys, which every implementation of it then inherits.
2. The positive halves of the findings, as for `batch_partial`: under which
   conditions a completed job does have its result, and which steps can take a
   cancelled job back to `scheduled`.
