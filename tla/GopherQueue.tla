---------------------------- MODULE GopherQueue ----------------------------
(***************************************************************************)
(* The server "gq serve" starts: scheduler, worker pool, recovery manager  *)
(* and request handlers, all goroutines of one process that meet in the    *)
(* store and in two channels, and the process itself, which may be killed  *)
(* and started again on the same database file.                            *)
(***************************************************************************)
EXTENDS WorkerPool, Recovery, Api

CONSTANTS MaxTouches,   \* bound on the retries carried out and the marks lost per job
          MaxFaults,    \* bound on the marks lost among them
          MaxErrors,    \* bound on the server's other store calls that fail
          MaxCrashes    \* bound on the process's crashes

ASSUME BoundsAssumption == {MaxTouches, MaxFaults, MaxErrors, MaxCrashes} \subseteq Nat

VARIABLES claims,    \* history: executions started, per job
          retried,   \* history: retry Updates carried out, per job
          faults,    \* history: scheduler marks lost, per job
          orphans,   \* history: jobs claimed by a worker that crashed, or whose
                     \* report did not reach the store
          errors,    \* history: failed store calls so far, other than lost marks
                     \* and requests' calls
          crashes    \* history: crashes so far

history == <<claims, retried, faults, orphans, errors, crashes>>

vars == <<storeVars, schedVars, poolVars, rbatch, minted, req, history>>

HistoryTypeOK ==
    /\ claims \in [JobID -> Nat]
    /\ retried \in [JobID -> Nat]
    /\ faults \in [JobID -> Nat]
    /\ orphans \subseteq JobID
    /\ errors \in Nat
    /\ crashes \in Nat

\* The type invariant.
TypeOK ==
    /\ StoreTypeOK
    /\ SchedTypeOK
    /\ PoolTypeOK
    /\ RecoveryTypeOK
    /\ ApiTypeOK
    /\ HistoryTypeOK

Init ==
    /\ StoreInit
    /\ SchedInit
    /\ PoolInit
    /\ RecoveryInit
    /\ ApiInit
    /\ claims = [j \in JobID |-> 0]
    /\ retried = [j \in JobID |-> 0]
    /\ faults = [j \in JobID |-> 0]
    /\ orphans = {}
    /\ errors = 0
    /\ crashes = 0

-----------------------------------------------------------------------------
(* The components' steps.                                                  *)

\* runScheduleLoop.
SchedulerStep ==
    /\ \/ ScheduleScan
       \/ \E j \in JobID : ScheduleNext(j, TRUE)
    /\ UNCHANGED <<poolVars, rbatch, minted, req, history>>

\* runDelayedLoop.
DelayedStep ==
    /\ \/ \E found \in SUBSET DueDelayed : DelayedScan(found)
       \/ \E j \in JobID : DelayedNext(j)
    /\ UNCHANGED <<poolVars, rbatch, minted, req, history>>

\* The clock, as far as the code compares times with it.
ClockStep(j) ==
    \/ /\ DelayElapse(j)
       /\ UNCHANGED <<poolVars, rbatch, minted, req, history>>
    \/ /\ VisibilityElapse(j)
       /\ UNCHANGED <<schedVars, poolVars, minted, req, history>>

\* Retries and lost marks of j so far, retries still to be carried out included.
Touches(j) ==
    LET retrying == {c \in Client : req[c].job = j /\ req[c].write.state = "pending"}
    IN  retried[j] + faults[j] + Cardinality(retrying)

\* A write transaction fails (disk full, I/O error) and the scheduler goes
\* on as if the job had been marked.
LostMark(j) ==
    /\ batch[j] = "pending"
    /\ faults[j] < MaxFaults
    /\ Touches(j) < MaxTouches
    /\ ScheduleNext(j, FALSE)
    /\ faults' = [faults EXCEPT ![j] = @ + 1]
    /\ UNCHANGED <<poolVars, rbatch, minted, req, claims, retried, orphans, errors,
                   crashes>>

FetcherStep ==
    /\ GetNextJob \/ Forward
    /\ UNCHANGED <<rbatch, minted, req, history>>

ClaimStep(w) ==
    /\ Claim(w)
    /\ claims' = [claims EXCEPT ![worker[w].job] = @ + 1]
    /\ orphans' = orphans \ {worker[w].job}
    /\ UNCHANGED <<rbatch, minted, req, retried, faults, errors, crashes>>

ReportStep(w) ==
    /\ \/ CompleteUpdate(w)
       \/ CompleteSave(w)
       \/ FailSave(w)
       \/ FailUpdate(w)
    /\ UNCHANGED <<rbatch, minted, req, history>>

HandlerStep(w) ==
    /\ \/ Succeed(w)
       \/ \E category \in ErrorCategory : Fail(w, category)
    /\ UNCHANGED <<rbatch, minted, req, history>>

WorkerStep(w) ==
    /\ \/ Receive(w)
       \/ ClaimRefused(w)
    /\ UNCHANGED <<rbatch, minted, req, history>>

CheckpointStep(w) ==
    /\ Checkpoint(w)
    /\ UNCHANGED <<rbatch, minted, req, history>>

\* runRecoveryLoop.
RecoveryStep ==
    /\ \/ RecoveryScan
       \/ \E j \in JobID : RecoverJob(j)
    /\ UNCHANGED <<schedVars, poolVars, minted, req, history>>

RequestStep ==
    /\ \/ \E j \in JobID : Submit(j) \/ CreateEmbedded(j)
       \/ \E j \in JobID : DeleteJob(j)
       \/ \E c \in Client, j \in JobID, force \in BOOLEAN : CancelGet(c, j, force)
       \/ \E c \in Client, j \in JobID, reset \in BOOLEAN :
             /\ Touches(j) < MaxTouches
             /\ RetryGet(c, j, reset)
    /\ UNCHANGED <<poolVars, rbatch, history>>

UpdateStep(c) ==
    /\ RequestUpdate(c)
    /\ retried' = IF req[c].write.state = "pending"
                  THEN [retried EXCEPT ![req[c].job] = @ + 1] ELSE retried
    /\ UNCHANGED <<poolVars, rbatch, claims, faults, orphans, errors, crashes>>

\* The process dies and is started again: the store is kept, all else is lost.
Crash ==
    /\ crashes < MaxCrashes
    /\ schedCh' = <<>> /\ batch' = NoBatch /\ dbatch' = {}
    /\ fetched' = NoID /\ poolCh' = <<>>
    /\ worker' = [w \in Worker |-> Idle]
    /\ rbatch' = NoStuck
    /\ req' = [c \in Client |-> NoRequest]
    /\ orphans' = {j \in JobID : jobs[j].state = "running"}
    /\ crashes' = crashes + 1
    /\ UNCHANGED <<storeVars, ripe, minted, claims, retried, faults, errors>>

\* A transaction of a worker, of the delayed loop or of the recovery manager
\* fails.  Nobody tries again: what was to be written is forgotten.
ServerError ==
    /\ errors < MaxErrors
    /\ errors' = errors + 1
    /\ \/ \E w \in Worker :
             /\ CallFails(w)
             /\ orphans' = IF worker[w].pc \in Holding
                           THEN orphans \cup {worker[w].job} ELSE orphans
             /\ UNCHANGED <<rbatch, minted, req>>
       \/ /\ \E j \in JobID : DelayedFails(j)
          /\ UNCHANGED <<poolVars, rbatch, minted, req, orphans>>
       \/ /\ \E j \in JobID : RecoverFails(j)
          /\ UNCHANGED <<schedVars, poolVars, minted, req, orphans>>
    /\ UNCHANGED <<claims, retried, faults, crashes>>

\* A transaction of a request fails.  The client may try again, but as a new
\* request: there is no need to count.
RequestError ==
    /\ \E c \in Client : RequestFails(c)
    /\ UNCHANGED <<poolVars, rbatch, history>>

StoreError == ServerError \/ RequestError

Next ==
    \/ SchedulerStep
    \/ \E j \in JobID : LostMark(j)
    \/ DelayedStep
    \/ \E j \in JobID : ClockStep(j)
    \/ FetcherStep
    \/ \E w \in Worker : WorkerStep(w)
    \/ \E w \in Worker : ClaimStep(w)
    \/ \E w \in Worker : HandlerStep(w)
    \/ \E w \in Worker : CheckpointStep(w)
    \/ \E w \in Worker : ReportStep(w)
    \/ RecoveryStep
    \/ RequestStep
    \/ \E c \in Client : UpdateStep(c)
    \/ StoreError
    \/ Crash

Spec == Init /\ [][Next]_vars

-----------------------------------------------------------------------------
(* Safety.                                                                 *)

\* A record that says dead_letter has used up its attempts, and one that
\* says retrying or failed has not.
VerdictFits(j, rec) ==
    /\ rec.state = "dead_letter" => rec.attempt >= MaxAttemptsOf[j]
    /\ rec.state \in {"retrying", "failed"} => rec.attempt < MaxAttemptsOf[j]

\* Fail and RecoverStuckJobs decide on a copy and write later, over whatever
\* is there by then.  However their writes interleave with claims, cancels,
\* retries and crashes, the verdict in the store fits the attempt counter
\* stored with it.  Fail tests the attempts before the error's category, so
\* a permanent failure of the last attempt is a dead_letter too; the
\* documents call it failed.
VerdictMatchesAttempts == \A j \in JobID : VerdictFits(j, jobs[j])

\* ClaimJob counts attempts, stale writes may lose a count and Retry may
\* reset it, but the stored counter never claims more executions than there
\* were; so no job is dead-lettered before it was started MaxAttempts times
\* (docs/MANIFESTO.md and README.md word "dead letter" in other ways).
DeadLetterEarned ==
    \A j \in JobID :
        /\ jobs[j].attempt <= claims[j]
        /\ jobs[j].state = "dead_letter" => claims[j] >= MaxAttemptsOf[j]

\* The idempotency bucket and the jobs bucket agree: a key leads to a stored
\* job that carries it, and every stored job with a key is the one its key
\* leads to.  So two stored jobs never share a key, whatever their types and
\* however old they are (the code knows no scope or lifetime of a key).
IdempotencyIndex ==
    /\ \A k \in Key : idempotency[k] # NoID =>
          /\ Exists(idempotency[k])
          /\ KeyOf[idempotency[k]] = k
    /\ \A j \in JobID : Exists(j) /\ KeyOf[j] # NoKey => idempotency[KeyOf[j]] = j

\* Fail saves the result before it updates the job, so a failed job always
\* has a stored result, whoever deleted, retried or ran it in between and
\* wherever the process crashed.
FailedHasResult ==
    \A j \in JobID : jobs[j].state = "failed" => results[j] # "none"

Holds(w, j) == worker[w].job = j /\ worker[w].pc \in Holding

\* A running job is in the hands of a worker, unless the process crashed
\* after the claim or the report did not reach the store.  No worker gives up
\* a job otherwise and leaves it running.
RunningIsHeld ==
    \A j \in JobID : jobs[j].state = "running" /\ j \notin orphans =>
        \E w \in Worker : Holds(w, j)

\* Every tick sends unclaimed jobs again and marks from a stale snapshot, yet
\* a job is started once, plus at most twice per retry (the second time
\* because the mark of a stale snapshot makes a claimed job claimable again)
\* and once per mark the scheduler lost.  (An interrupted or temporarily
\* failed job becomes retrying, and nothing starts a retrying job again: see
\* RetryingIsRescheduled.)
BoundedExecutions ==
    \A j \in JobID : claims[j] <= 1 + 2 * retried[j] + faults[j]

\* A job that no retry and no lost mark touched is never in two workers'
\* hands, though its id may be in the channels many times.
NoOverlap ==
    \A j \in JobID : retried[j] = 0 /\ faults[j] = 0 =>
        \A v, w \in Worker : Holds(v, j) /\ Holds(w, j) => v = w

\* A deleted job stays deleted: no late write of a worker, of the recovery
\* manager, of the scheduler or of a request brings it back.
DeletedStaysDeleted ==
    [][\A j \in minted : jobs[j] = NoJob => jobs'[j] = NoJob]_vars

\* ClaimJob takes pending jobs as well as scheduled ones.  Every worker gets
\* its ids from the scheduler, which marks a job before it sends its id, so a
\* claim skips the scheduled state only for a job that was retried with an
\* old id still in a channel, or whose mark was lost.
PendingClaimsExplained ==
    [][\A j \in JobID :
          jobs[j].state = "pending" /\ jobs'[j].state = "running" =>
             retried[j] > 0 \/ faults[j] > 0]_vars

-----------------------------------------------------------------------------
(* Refinement.                                                             *)

Contract == INSTANCE StoreContract WITH
    jobs <- jobs, results <- results, checkpoints <- checkpoints

\* The whole server, crashes included, does to the store what the operations
\* of the JobStore interface may do, with the uniqueness of keys read off the
\* stored jobs instead of the idempotency bucket, and besides them only claim
\* pending jobs: no step, however stale the record it writes, revives a
\* deleted job, makes a job running without claiming it, or deletes only a
\* part of what is stored of it.
StoreContractHolds == Contract!ImplementedSpec

-----------------------------------------------------------------------------
(* What the documents say of the program.                                  *)

\* docs/JOB_MODEL.md: "Transitions are unidirectional; there is no backward
\* movement through states."  For a cancelled job, which Retry refuses: it
\* stays cancelled until it is deleted.
CancelledStays ==
    [][\A j \in JobID : jobs[j].state = "cancelled" =>
          jobs'[j].state \in {"cancelled", "absent"}]_vars

\* persistence/store.go: "ClaimJob atomically transitions a job from scheduled
\* to running."  The contract as the interface documents it.
DocumentedContract == Contract!Spec

\* docs/JOB_MODEL.md: "DELAYED | Job accepted but execution deferred until
\* specified time".  A deferred job is not started before its time.
DelayHonoured == \A j \in Deferred \ ripe : claims[j] = 0

\* docs/JOB_MODEL.md: "COMPLETED | Job executed successfully; result stored".
\* Complete stores it in a second transaction; at least no completed job is
\* left without a result once nobody is about to store one.
CompletedHasResult ==
    \A j \in JobID : jobs[j].state = "completed" =>
        \/ results[j] # "none"
        \/ \E w \in Worker : worker[w].pc = "complete_save" /\ worker[w].job = j

-----------------------------------------------------------------------------
(* Liveness.  The loops tick for ever, channel operations and store calls  *)
(* return, handlers return (they are given a context with a deadline), and *)
(* time passes.  Nothing obliges a client to do anything, a write to fail  *)
(* or the process to crash.                                                *)

\* A worker is one thread: at any time it has one of these to do.
WorkerThread(w) == WorkerStep(w) \/ ClaimStep(w) \/ HandlerStep(w) \/ ReportStep(w)

Fairness ==
    /\ WF_vars(SchedulerStep)
    /\ WF_vars(DelayedStep)
    /\ \A j \in JobID : WF_vars(ClockStep(j))
    /\ WF_vars(FetcherStep)
    /\ \A w \in Worker : WF_vars(WorkerThread(w))
    /\ WF_vars(RecoveryStep)
    /\ \A c \in Client : WF_vars(UpdateStep(c))

FairSpec == Spec /\ Fairness

\* A stored job that is waiting to run does not wait for ever, as long as
\* submissions end: JobID is finite.  (Under an endless stream of more urgent
\* jobs one of low priority does starve, as docs/JOB_MODEL.md says.)
WaitingIsServed ==
    \A j \in JobID : []<>~Claimable(j)

\* A delayed job does not stay delayed for ever, though GetDelayed returns at
\* most BatchSize of them, in no particular order.
DelayedIsScheduled ==
    \A j \in JobID : []<>(jobs[j].state # "delayed")

\* A claimed job does not stay running for ever, whatever became of its
\* worker or of the report: the report or the recovery manager ends it, also
\* when a write of either fails once.
RunningEnds ==
    \A j \in JobID : []<>(jobs[j].state # "running")

\* docs/JOB_MODEL.md: "RETRYING | SCHEDULED | Backoff expired".
RetryingIsRescheduled ==
    \A j \in JobID : []<>(jobs[j].state # "retrying")
=============================================================================
