------------------------------ MODULE Requests ------------------------------
(***************************************************************************)
(* The request handlers of api/handlers.go in full, on the in-memory store *)
(* and with the event bus: what a client is told and what is published     *)
(* about every write, step by step.  Each request is made once.            *)
(*                                                                         *)
(* The rest of the server is reduced to what it does to the store in the   *)
(* normal course of a job (OthersStep); its own races are GopherQueue's    *)
(* subject.                                                                *)
(***************************************************************************)
EXTENDS MemoryStore, Verdicts, EventBus

CONSTANTS Request,   \* requests made to the server
          OpsOf,     \* what each of them may be
          ItemsOf    \* the jobs it submits; NoID is one without a type

Op == {"submit", "batch", "cancel", "retry", "delete", "wait"}

ASSUME RequestAssumption ==
    /\ Publisher = Request
    /\ OpsOf \in [Request -> SUBSET Op]
    /\ ItemsOf \in [Request -> Seq(JobID \cup {NoID})]
    \* A single submission without a type is refused and is no step.
    /\ \A r \in Request : "submit" \in OpsOf[r] =>
          ItemsOf[r] # <<>> /\ ItemsOf[r][1] \in JobID
    \* Every item gets a uuid of its own.
    /\ \A r \in Request : \A i, k \in DOMAIN ItemsOf[r] :
          ItemsOf[r][i] = ItemsOf[r][k] /\ ItemsOf[r][i] # NoID => i = k

VARIABLES rq,    \* request -> where its handler is, the job it is about, the
                 \* record it is about to write, and the answer
          tally  \* a batch's loop: positions still to be created, the response's
                 \* counters, and (history) the jobs it has stored

requestVars == <<memVars, busVars, rq, tally>>

New == [pc |-> "new", op |-> "none", job |-> NoID, write |-> NoJob, answer |-> "none"]

NoTally == [todo |-> {}, atomic |-> FALSE, accepted |-> 0, rejected |-> 0, stored |-> {}]

RequestPC == {"new", "lookup", "create", "update", "reread", "publish", "publishing",
              "waiting", "result", "done"}

RequestAnswer == {"none", "existing", "conflict", "invalid", "failed", "batch", "notfound",
                  "aborted", "created", "cancelled", "retried", "deleted", "ended", "timedout"}

\* What a handler keeps, and what it must have by the time it gets to a step
\* that uses it.
Handler ==
    {h \in [pc     : RequestPC,
            op     : Op \cup {"none"},
            job    : JobID \cup {NoID},
            write  : JobRec \cup {NoJob},
            answer : RequestAnswer] :
        /\ h.pc \in {"lookup", "update", "reread", "publish", "publishing", "waiting"}
              => h.job \in JobID
        /\ h.pc \in {"publish", "publishing"} => h.op \in Op \ {"wait"}
        /\ h.pc \in {"update", "reread"} => h.op \in {"cancel", "retry"}
        /\ h.pc = "update" =>
              h.write \in JobRec /\ h.write.state \in {"cancelled", "pending"}}

Tally == [todo : SUBSET Nat, atomic : BOOLEAN, accepted : Int, rejected : Int,
          stored : SUBSET JobID]

RequestsTypeOK ==
    /\ MemoryTypeOK
    /\ BusTypeOK
    /\ rq \in [Request -> Handler]
    /\ tally \in [Request -> Tally]

RequestsInit ==
    /\ MemoryInit
    /\ BusInit
    /\ rq = [r \in Request |-> New]
    /\ tally = [r \in Request |-> NoTally]

Begin(r, op, j, pc) ==
    /\ rq[r].pc = "new"
    /\ op \in OpsOf[r]
    /\ rq' = [rq EXCEPT ![r].pc = pc, ![r].op = op, ![r].job = j]

GoTo(r, pc) == rq' = [rq EXCEPT ![r].pc = pc]

Answer(r, a) == rq' = [rq EXCEPT ![r].pc = "done", ![r].answer = a]

At(r, op, pc) == rq[r].op = op /\ rq[r].pc = pc

-----------------------------------------------------------------------------
(* submitJob.                                                              *)

Submit(r) ==
    LET j == ItemsOf[r][1]
    IN  /\ Begin(r, "submit", j, IF CanCreate(j) THEN "publish" ELSE "lookup")
        /\ Create(j, NewJob)
        /\ UNCHANGED <<busVars, tally>>

\* Create said ErrJobAlreadyExists; the job with the key may be gone by now.
Lookup(r) ==
    LET k == KeyOf[rq[r].job]
    IN  /\ At(r, "submit", "lookup")
        /\ Answer(r, IF k # NoKey /\ GetByIdempotencyKey(k) # NoID
                     THEN "existing" ELSE "conflict")
        /\ UNCHANGED <<memVars, busVars, tally>>

-----------------------------------------------------------------------------
(* handleBatchSubmit.                                                      *)

\* The positions of the items that pass validation, createdJobs.
Valid(r) == {i \in DOMAIN ItemsOf[r] : ItemsOf[r][i] # NoID}

\* Validation: an atomic batch with an invalid item is refused as a whole.
BatchBegin(r, atomic) ==
    LET invalid == Len(ItemsOf[r]) - Cardinality(Valid(r))
    IN  /\ rq[r].pc = "new"
        /\ "batch" \in OpsOf[r]
        /\ rq' = [rq EXCEPT ![r] = [New EXCEPT
                    !.pc = IF atomic /\ invalid > 0 THEN "done" ELSE "create",
                    !.op = "batch",
                    !.answer = IF atomic /\ invalid > 0 THEN "invalid" ELSE "none"]]
        /\ tally' = [tally EXCEPT ![r] =
                       [todo |-> Valid(r), atomic |-> atomic, accepted |-> Cardinality(Valid(r)),
                        rejected |-> invalid, stored |-> {}]]
        /\ UNCHANGED <<memVars, busVars>>

\* Mutant: a job that could not be created still counts as accepted.
BatchCreateUncounted(r) ==
    \E i \in tally[r].todo :
        LET j == ItemsOf[r][i]
            rest == tally[r].todo \ {i}
        IN
        /\ At(r, "batch", "create")
        /\ \A k \in rest : i < k
        /\ Create(j, NewJob)
        /\ IF CanCreate(j)
           THEN /\ rq' = [rq EXCEPT ![r].pc = "publish", ![r].job = j]
                /\ tally' = [tally EXCEPT ![r].todo = rest, ![r].stored = @ \cup {j}]
           ELSE IF tally[r].atomic
           THEN Answer(r, "failed") /\ UNCHANGED tally
           ELSE /\ tally' = [tally EXCEPT ![r].todo = rest, ![r].rejected = @ + 1]
                /\ UNCHANGED rq
        /\ UNCHANGED busVars

\* One round of the loop.  An atomic batch stops at the first job that cannot
\* be created and keeps the ones before it.
BatchCreate(r) ==
    \E i \in tally[r].todo :
        LET j == ItemsOf[r][i]
            rest == tally[r].todo \ {i}
        IN
        /\ At(r, "batch", "create")
        /\ \A k \in rest : i < k
        /\ Create(j, NewJob)
        /\ IF CanCreate(j)
           THEN /\ rq' = [rq EXCEPT ![r].pc = "publish", ![r].job = j]
                /\ tally' = [tally EXCEPT ![r].todo = rest, ![r].stored = @ \cup {j}]
           ELSE IF tally[r].atomic
           THEN Answer(r, "failed") /\ UNCHANGED tally
           ELSE /\ tally' = [tally EXCEPT ![r].todo = rest, ![r].accepted = @ - 1,
                                          ![r].rejected = @ + 1]
                /\ UNCHANGED rq
        /\ UNCHANGED busVars

BatchEnd(r) ==
    /\ At(r, "batch", "create")
    /\ tally[r].todo = {}
    /\ Answer(r, "batch")
    /\ UNCHANGED <<memVars, busVars, tally>>

-----------------------------------------------------------------------------
(* deleteJob, cancelJob, retryJob.                                         *)

DeleteJob(r, j) ==
    /\ Begin(r, "delete", j, "publish")
    /\ Delete(j)
    /\ UNCHANGED <<busVars, tally>>

\* Cancel's and Retry's Get and decision.
Decide(r, op, j, write) ==
    /\ rq[r].pc = "new"
    /\ op \in OpsOf[r]
    /\ rq' = [rq EXCEPT ![r] = [New EXCEPT !.pc = "update", !.op = op, !.job = j,
                                           !.write = write]]
    /\ UNCHANGED <<memVars, busVars, tally>>

\* A cancel that goes on to write.  The refusal of a terminal job is no step.
CancelJob(r, j, force) ==
    /\ Exists(j)
    /\ Cancellable(jobs[j], force)
    /\ Decide(r, "cancel", j, CancelWrite(jobs[j]))

\* An unforced cancel of a running job writes nothing and succeeds: the
\* handler goes on as if the job had been cancelled.
CancelRunning(r, j) ==
    /\ jobs[j].state = "running"
    /\ Begin(r, "cancel", j, "reread")
    /\ UNCHANGED <<memVars, busVars, tally>>

RetryJob(r, j, resetAttempts) ==
    /\ Retryable(jobs[j])
    /\ Decide(r, "retry", j, RetryWrite(jobs[j], resetAttempts))

UpdateJob(r) ==
    /\ rq[r].pc = "update"
    /\ Update(rq[r].job, rq[r].write)
    /\ IF Exists(rq[r].job) THEN GoTo(r, "reread") ELSE Answer(r, "notfound")
    /\ UNCHANGED <<busVars, tally>>

\* The job is read again for the answer and the error is dropped: when the
\* job has been deleted jobToResponse panics and the connection is closed.
Reread(r) ==
    /\ rq[r].pc = "reread"
    /\ IF Exists(rq[r].job) THEN GoTo(r, "publish") ELSE Answer(r, "aborted")
    /\ UNCHANGED <<memVars, busVars, tally>>

-----------------------------------------------------------------------------
(* eventBus.Publish, called by all of the above.                           *)

Kind(r) ==
    CASE rq[r].op \in {"submit", "batch"} -> "created"
      [] rq[r].op = "cancel" -> "cancelled"
      [] rq[r].op = "retry" -> "retried"
      [] rq[r].op = "delete" -> "deleted"

Publish(r) ==
    /\ rq[r].pc = "publish"
    /\ PublishBegin(r, [kind |-> Kind(r), job |-> rq[r].job, by |-> r])
    /\ GoTo(r, "publishing")
    /\ UNCHANGED <<memVars, tally>>

Send(r) ==
    /\ PublishSend(r)
    /\ UNCHANGED <<memVars, rq, tally>>

Published(r) ==
    /\ rq[r].pc = "publishing"
    /\ PublishEnd(r)
    /\ IF rq[r].op = "batch" THEN GoTo(r, "create") ELSE Answer(r, Kind(r))
    /\ UNCHANGED <<memVars, tally>>

-----------------------------------------------------------------------------
(* waitForJob.                                                             *)

WaitBegin(r, j) ==
    /\ Begin(r, "wait", j, "waiting")
    /\ UNCHANGED <<memVars, busVars, tally>>

\* A tick of the poll.  One that finds the job still going changes nothing.
WaitPoll(r) ==
    /\ rq[r].pc = "waiting"
    /\ IF ~Exists(rq[r].job) THEN Answer(r, "notfound")
       ELSE IsTerminal(jobs[rq[r].job]) /\ GoTo(r, "result")
    /\ UNCHANGED <<memVars, busVars, tally>>

\* GetResult, in a transaction of its own: there may be none, or an old one.
WaitResult(r) ==
    /\ rq[r].pc = "result"
    /\ Answer(r, "ended")
    /\ UNCHANGED <<memVars, busVars, tally>>

WaitTimeout(r) ==
    /\ rq[r].pc = "waiting"
    /\ Answer(r, IF Exists(rq[r].job) THEN "timedout" ELSE "notfound")
    /\ UNCHANGED <<memVars, busVars, tally>>

-----------------------------------------------------------------------------
(* What the scheduler, the workers and the recovery manager do to a job.   *)

OthersStep(j) ==
    /\ \/ jobs[j].state = "pending" /\ UpdateState(j, "scheduled")
       \/ ClaimJob(j)
       \/ /\ jobs[j].state = "running"
          /\ \/ j \in Checkpointing /\ SaveCheckpoint(j)
             \/ Update(j, CompleteWrite(jobs[j]))
             \/ Update(j, FailWrite(j, jobs[j], "permanent"))
       \/ jobs[j].state = "completed" /\ SaveResult(j, "success")
    /\ UNCHANGED <<busVars, rq, tally>>

\* The retention period of some jobs has passed.  (Nothing in the server
\* calls Cleanup; it is there for programs that embed the store.)
CleanupStep ==
    /\ \E old \in SUBSET JobID : Cleanup(old)
    /\ UNCHANGED <<busVars, rq, tally>>

StreamStep(s) ==
    /\ \/ Subscribe(s)
       \/ StreamReceive(s)
       \/ Unsubscribe(s)
    /\ UNCHANGED <<memVars, rq, tally>>

Arrive(r) ==
    \/ Submit(r)
    \/ \E atomic \in BOOLEAN : BatchBegin(r, atomic)
    \/ \E j \in JobID :
          \/ DeleteJob(r, j)
          \/ \E force \in BOOLEAN : CancelJob(r, j, force)
          \/ CancelRunning(r, j)
          \/ \E resetAttempts \in BOOLEAN : RetryJob(r, j, resetAttempts)
          \/ WaitBegin(r, j)

Proceed(r) ==
    \/ Lookup(r)
    \/ BatchCreate(r)
    \/ BatchEnd(r)
    \/ UpdateJob(r)
    \/ Reread(r)
    \/ Publish(r)
    \/ Send(r)
    \/ Published(r)
    \/ WaitPoll(r)
    \/ WaitResult(r)
    \/ WaitTimeout(r)

RequestsNext ==
    \/ \E r \in Request : Arrive(r) \/ Proceed(r)
    \/ \E s \in Stream : StreamStep(s)
    \/ \E j \in JobID : OthersStep(j)
    \/ CleanupStep

\* Handlers run to their end: store calls return, timers fire.  Nothing makes
\* a client read its stream, or leave it.
RequestsSpec ==
    /\ RequestsInit
    /\ [][RequestsNext]_requestVars
    /\ \A r \in Request : WF_requestVars(Proceed(r))

-----------------------------------------------------------------------------
(* Properties.                                                             *)

Contract == INSTANCE StoreContract WITH
    jobs <- jobs, results <- results, checkpoints <- checkpoints

\* MemoryStore keeps the promises of the JobStore interface too, but for the
\* pending jobs that it, too, lets be claimed.
MemoryKeepsContract == Contract!ImplementedSpec

\* Create refuses a key exactly when a stored job carries it, as store.go
\* says of Create: no key is forgotten while its job is there, and none
\* outlives its job, whether that was deleted or cleaned up.  (Which is not
\* what docs/JOB_MODEL.md says: keys there belong to a job type and expire.)
KeyIndexExact == \A j \in JobID : KeyTaken(j) <=> ~Contract!KeyIsFree(j)

\* The counters of a batch response add up, and Accepted is the number of
\* jobs the batch stored, also when other submissions take keys meanwhile.
BatchCounts ==
    \A r \in Request : rq[r].answer = "batch" =>
        /\ tally[r].accepted + tally[r].rejected = Len(ItemsOf[r])
        /\ tally[r].accepted = Cardinality(tally[r].stored)

\* What makes KeyIndexExact inductive: every key leads to the stored job that
\* carries it, and every stored job is found under its key.
KeyInv ==
    /\ \A k \in Key : idempotency[k] # NoID =>
          Exists(idempotency[k]) /\ KeyOf[idempotency[k]] = k
    /\ \A j \in JobID : Exists(j) /\ KeyOf[j] # NoKey => idempotency[KeyOf[j]] = j

\* What makes BatchCounts inductive: Accepted counts the jobs stored and the
\* ones that are still to be tried, which are different jobs; and an atomic
\* batch that has not ended has stored whatever it tried.
BatchAccount(r) ==
    /\ tally[r].todo \subseteq Valid(r)
    /\ tally[r].stored \subseteq {ItemsOf[r][i] : i \in Valid(r) \ tally[r].todo}
    /\ IsFiniteSet(tally[r].stored)
    /\ rq[r].op = "batch" =>
          /\ tally[r].accepted = Cardinality(tally[r].stored) + Cardinality(tally[r].todo)
          /\ tally[r].accepted + tally[r].rejected = Len(ItemsOf[r])
          /\ tally[r].atomic /\ (rq[r].pc # "done" \/ rq[r].answer = "batch") =>
                /\ Valid(r) = DOMAIN ItemsOf[r]
                /\ tally[r].stored = {ItemsOf[r][i] : i \in Valid(r) \ tally[r].todo}
    /\ rq[r].answer = "batch" =>
          rq[r].pc = "done" /\ rq[r].op = "batch" /\ tally[r].todo = {}

BatchInv == \A r \in Request : BatchAccount(r)

\* Requests being finite in number, there comes a time when every request
\* that arrived is answered (or aborted), and it stays so.  In particular no
\* publisher waits for a stream that nobody reads.
RequestsEnd == <>[](\A r \in Request : rq[r].pc \in {"new", "done"})

\* api/handlers.go on BatchSubmitRequest.Atomic: "All-or-nothing semantics".
AllOrNothing ==
    \A r \in Request : rq[r].op = "batch" /\ rq[r].pc = "done" /\ tally[r].atomic =>
        \/ tally[r].stored = {}
        \/ tally[r].stored = Range(ItemsOf[r])

\* The half of it that holds: an atomic batch that is answered with counters
\* has stored every item.
AtomicIsComplete ==
    \A r \in Request : rq[r].answer = "batch" /\ tally[r].atomic =>
        tally[r].stored = Range(ItemsOf[r])
=============================================================================
