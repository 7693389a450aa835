--------------------------- MODULE RequestsProofs ---------------------------
(***************************************************************************)
(* The request handlers on the in-memory store and the event bus, for any  *)
(* number of jobs, requests, streams and batch items.                      *)
(***************************************************************************)
EXTENDS Requests, EventBusProofs, FiniteSetTheorems

-----------------------------------------------------------------------------
(* The in-memory store.                                                    *)

\* What the contract talks about is left alone.
Same == UNCHANGED <<jobs, results, checkpoints>>

\* The contract's job record and absent job are the store's.
LEMMA ContractNames ==
    /\ Contract!NoJob = NoJob
    /\ Contract!JobRec = JobRec
    /\ \A j : Contract!Stored(j) <=> jobs[j] # NoJob
  BY DEF Contract!NoJob, NoJob, Contract!JobRec, JobRec, Contract!JobState, JobState,
         Contract!Stored

\* An absent job is no record, and no state of a stored job.
LEMMA RecordFacts ==
    /\ NoJob \notin JobRec
    /\ NewJob \in JobRec
    /\ \A rec \in JobRec \cup {NoJob} : rec # NoJob => rec \in JobRec /\ rec.state # "absent"
    /\ NoJob.state = "absent"
    /\ \A rec \in JobRec \cup {NoJob} : rec.attempt \in Nat
  BY DEF NoJob, NewJob, JobRec, JobState

\* An operation keeps the store well typed and its index exact, and is one of
\* the contract's operations, a claim of a pending job, or none.
KeepsStore == MemoryTypeOK' /\ KeyInv' /\ (Contract!ImplementedNext \/ Same)

\* Create: the index being exact, a key that is not in it is free, and a key
\* recorded for a job that cannot be created was recorded for it already.
LEMMA CreateKeeps ==
    ASSUME MemoryTypeOK, KeyInv, NEW j \in JobID, Create(j, NewJob)
    PROVE  KeepsStore
  <1>0. KeyOf[j] \in Key \cup {NoKey} /\ j # NoID /\ NoKey \notin Key
    BY JobAssumption DEF NoID
  <1>1. CASE CanCreate(j)
    <2>1. /\ jobs' = [jobs EXCEPT ![j] = NewJob]
          /\ idempotency' = IF KeyOf[j] = NoKey THEN idempotency
                            ELSE [idempotency EXCEPT ![KeyOf[j]] = j]
          /\ UNCHANGED <<results, checkpoints>>
      BY <1>1 DEF Create, CanCreate
    <2>2. MemoryTypeOK'
      BY <1>0, <2>1, RecordFacts DEF MemoryTypeOK
    <2>3. jobs'[j] # NoJob /\ jobs[j] = NoJob /\ \A i \in JobID \ {j} : jobs'[i] = jobs[i]
      BY <1>1, <2>1, RecordFacts DEF MemoryTypeOK, CanCreate, Exists
    <2>4. KeyOf[j] # NoKey => idempotency[KeyOf[j]] = NoID
      BY <1>1 DEF CanCreate, KeyTaken
    <2>5. ASSUME NEW k \in Key, idempotency'[k] # NoID
          PROVE  jobs'[idempotency'[k]] # NoJob /\ KeyOf[idempotency'[k]] = k
      <3>1. CASE k = KeyOf[j]
        BY <1>0, <2>1, <2>3, <3>1 DEF MemoryTypeOK
      <3>2. CASE k # KeyOf[j]
        <4>1. idempotency'[k] = idempotency[k] /\ idempotency[k] \in JobID
          BY <1>0, <2>1, <2>5, <3>2 DEF MemoryTypeOK
        <4> QED
          BY <2>3, <2>5, <4>1 DEF KeyInv, Exists
      <3> QED
        BY <3>1, <3>2
    <2>6. ASSUME NEW i \in JobID, jobs'[i] # NoJob, KeyOf[i] # NoKey
          PROVE  idempotency'[KeyOf[i]] = i
      <3>0. KeyOf[i] \in Key
        BY <2>6, JobAssumption
      <3>1. CASE i = j
        BY <1>0, <2>1, <2>6, <3>0, <3>1 DEF MemoryTypeOK
      <3>2. CASE i # j
        <4>1. idempotency[KeyOf[i]] = i /\ i # NoID
          BY <2>3, <2>6, <3>2, JobAssumption DEF KeyInv, Exists, NoID
        <4>2. KeyOf[i] # KeyOf[j]
          BY <2>4, <2>6, <4>1
        <4> QED
          BY <1>0, <2>1, <3>0, <4>1, <4>2 DEF MemoryTypeOK
      <3> QED
        BY <3>1, <3>2
    <2>7. KeyInv'
      BY <2>5, <2>6 DEF KeyInv, Exists
    <2>8. Contract!KeyIsFree(j)
      <3> SUFFICES ASSUME KeyOf[j] # NoKey, NEW i \in JobID, jobs[i] # NoJob
                   PROVE  KeyOf[i] # KeyOf[j]
        BY ContractNames DEF Contract!KeyIsFree
      <3>1. i # NoID
        BY JobAssumption DEF NoID
      <3> QED
        BY <2>4, <3>1 DEF KeyInv, Exists
    <2>9. Contract!Create(j)
      BY <2>1, <2>3, <2>8, ContractNames DEF NewJob, Contract!Create
    <2> QED
      BY <2>2, <2>7, <2>9 DEF KeepsStore, Contract!ImplementedNext, Contract!Next
  <1>2. CASE ~CanCreate(j)
    <2>1. UNCHANGED <<jobs, results, checkpoints>>
      BY <1>2 DEF Create
    <2>2. idempotency' = idempotency
      <3>1. CASE KeyOf[j] = NoKey \/ KeyTaken(j)
        BY <3>1 DEF Create
      <3>2. CASE KeyOf[j] # NoKey /\ ~KeyTaken(j)
        BY <1>0, <1>2, <3>2 DEF CanCreate, KeyTaken, KeyInv
      <3> QED
        BY <3>1, <3>2
    <2> QED
      BY <2>1, <2>2 DEF KeepsStore, MemoryTypeOK, KeyInv, Exists, Same
  <1> QED
    BY <1>1, <1>2

\* A write that leaves a stored job stored and the keys alone.
LEMMA WriteKeeps ==
    ASSUME MemoryTypeOK, KeyInv, NEW j \in JobID, Exists(j), NEW rec \in JobRec,
           jobs' = [jobs EXCEPT ![j] = rec], UNCHANGED <<results, checkpoints, idempotency>>
    PROVE  MemoryTypeOK' /\ KeyInv'
  <1>1. MemoryTypeOK'
    BY DEF MemoryTypeOK
  <1>2. \A i \in JobID : jobs'[i] # NoJob <=> jobs[i] # NoJob
    BY RecordFacts DEF MemoryTypeOK, Exists
  <1>3. KeyInv'
    BY <1>2 DEF KeyInv, Exists, MemoryTypeOK
  <1> QED
    BY <1>1, <1>3

\* Update, of a record that is neither running nor scheduled.
LEMMA UpdateKeeps ==
    ASSUME MemoryTypeOK, KeyInv, NEW j \in JobID, NEW rec \in JobRec, Update(j, rec),
           rec.state \notin {"running", "scheduled"}
    PROVE  KeepsStore
  <1>1. CASE Exists(j)
    <2>1. /\ jobs' = [jobs EXCEPT ![j] = rec] /\ jobs'[j] = rec
          /\ UNCHANGED <<results, checkpoints, idempotency>>
      BY <1>1 DEF Update, MemoryTypeOK
    <2>2. Contract!Stored(j) /\ jobs'[j] \in Contract!JobRec
      BY <1>1, <2>1, ContractNames DEF Exists
    <2>3. Contract!Update(j)
      BY <2>1, <2>2 DEF Contract!Update
    <2> QED
      BY <1>1, <2>1, <2>3, WriteKeeps DEF KeepsStore, Contract!ImplementedNext, Contract!Next
  <1>2. CASE ~Exists(j)
    BY <1>2 DEF Update, KeepsStore, MemoryTypeOK, KeyInv, Exists, Same
  <1> QED
    BY <1>1, <1>2

\* UpdateState and ClaimJob, as the scheduler and a worker call them.
LEMMA MarkKeeps ==
    ASSUME MemoryTypeOK, KeyInv, NEW j \in JobID,
           (jobs[j].state = "pending" /\ UpdateState(j, "scheduled")) \/ ClaimJob(j)
    PROVE  KeepsStore
  <1>1. Exists(j) /\ jobs[j] \in JobRec
    BY RecordFacts DEF Exists, ClaimJob, MemoryTypeOK
  <1>2. CASE UpdateState(j, "scheduled")
    <2>1. jobs' = [jobs EXCEPT ![j].state = "scheduled"]
      BY <1>1, <1>2 DEF UpdateState
    <2>2. jobs' = [jobs EXCEPT ![j] = [state |-> "scheduled", attempt |-> jobs[j].attempt]]
      <3>1. [jobs[j] EXCEPT !.state = "scheduled"] =
               [state |-> "scheduled", attempt |-> jobs[j].attempt]
        BY <1>1 DEF JobRec
      <3> QED
        BY <2>1, <3>1 DEF MemoryTypeOK
    <2>3. [state |-> "scheduled", attempt |-> jobs[j].attempt] \in JobRec
      BY <1>1 DEF JobRec, JobState
    <2>4. Contract!UpdateState(j)
      BY <1>1, <1>2, <2>1, ContractNames DEF Contract!UpdateState, Exists, UpdateState
    <2> QED
      BY <1>1, <1>2, <2>2, <2>3, <2>4, WriteKeeps
      DEF KeepsStore, Contract!ImplementedNext, Contract!Next, UpdateState
  <1>3. CASE ClaimJob(j)
    <2>1. [state |-> "running", attempt |-> jobs[j].attempt + 1] \in JobRec
      BY <1>1 DEF JobRec, JobState
    <2>2. Contract!ClaimJob(j) \/ Contract!ClaimPending(j)
      BY <1>3 DEF ClaimJob, Contract!ClaimJob, Contract!ClaimPending, Contract!Start
    <2>3. Contract!ImplementedNext
      BY <2>2 DEF Contract!ImplementedNext, Contract!Next
    <2> QED
      BY <1>1, <1>3, <2>1, <2>3, WriteKeeps DEF KeepsStore, ClaimJob
  <1> QED
    BY <1>2, <1>3

\* SaveResult and SaveCheckpoint leave the jobs and the keys alone.
LEMMA SaveKeeps ==
    ASSUME MemoryTypeOK, KeyInv, NEW j \in JobID, SaveResult(j, "success") \/ SaveCheckpoint(j)
    PROVE  KeepsStore
  <1>1. MemoryTypeOK' /\ KeyInv'
    BY DEF SaveResult, SaveCheckpoint, MemoryTypeOK, KeyInv, Exists
  <1>2. Contract!SaveResult(j) \/ Contract!SaveCheckpoint(j)
    BY DEF SaveResult, SaveCheckpoint, Contract!SaveResult, Contract!SaveCheckpoint
  <1> QED
    BY <1>1, <1>2 DEF KeepsStore, Contract!ImplementedNext, Contract!Next

\* Delete and Cleanup: the keys go with their jobs and with no other.
LEMMA ForgetKeeps ==
    ASSUME MemoryTypeOK, KeyInv, NEW removed \in SUBSET JobID, \A j \in removed : Exists(j),
           Forget(removed)
    PROVE  KeepsStore
  <1>1. MemoryTypeOK'
    BY DEF Forget, MemoryTypeOK
  <1>2. ASSUME NEW k \in Key, idempotency'[k] # NoID
        PROVE  jobs'[idempotency'[k]] # NoJob /\ KeyOf[idempotency'[k]] = k
    <2>1. /\ idempotency'[k] = idempotency[k]
          /\ \A j \in removed : KeyOf[j] # k
      BY <1>2 DEF Forget
    <2>2. idempotency[k] \in JobID /\ jobs[idempotency[k]] # NoJob /\ KeyOf[idempotency[k]] = k
      BY <1>2, <2>1 DEF MemoryTypeOK, KeyInv, Exists
    <2> QED
      BY <2>1, <2>2 DEF Forget
  <1>3. ASSUME NEW j \in JobID, jobs'[j] # NoJob, KeyOf[j] # NoKey
        PROVE  idempotency'[KeyOf[j]] = j
    <2>1. j \notin removed /\ jobs[j] # NoJob /\ KeyOf[j] \in Key
      BY <1>3, JobAssumption DEF Forget
    <2>2. idempotency[KeyOf[j]] = j
      BY <1>3, <2>1 DEF KeyInv, Exists
    <2>3. \A i \in removed : KeyOf[i] # KeyOf[j]
      BY <1>3, <2>1, <2>2 DEF KeyInv, Exists
    <2> QED
      BY <2>1, <2>2, <2>3 DEF Forget
  <1>4. KeyInv'
    BY <1>2, <1>3 DEF KeyInv, Exists
  <1>5. Contract!Remove(removed)
    BY ContractNames DEF Forget, Contract!Remove, Exists
  <1> QED
    BY <1>1, <1>4, <1>5 DEF KeepsStore, Contract!ImplementedNext, Contract!Next

\* A step that leaves the store alone.
LEMMA StoreUntouched ==
    ASSUME MemoryTypeOK, KeyInv, UNCHANGED memVars
    PROVE  KeepsStore
  BY DEF memVars, KeepsStore, MemoryTypeOK, KeyInv, Exists, Same

\* Every item a handler submits is a job: the first of a single submission,
\* and the valid ones of a batch.
LEMMA ItemsAreJobs ==
    ASSUME NEW r \in Request
    PROVE  /\ "submit" \in OpsOf[r] => ItemsOf[r][1] \in JobID
           /\ \A i \in Valid(r) : ItemsOf[r][i] \in JobID
  BY RequestAssumption DEF Valid

\* What each write of a handler, the scheduler or a worker puts in the store.
LEMMA WriteTypes ==
    ASSUME NEW j \in JobID, NEW rec \in JobRec
    PROVE  /\ CompleteWrite(rec) \in JobRec /\ CompleteWrite(rec).state = "completed"
           /\ FailWrite(j, rec, "permanent") \in JobRec
           /\ FailWrite(j, rec, "permanent").state \in {"dead_letter", "failed"}
           /\ CancelWrite(rec) \in JobRec /\ CancelWrite(rec).state = "cancelled"
           /\ \A b \in BOOLEAN : /\ RetryWrite(rec, b) \in JobRec
                                 /\ RetryWrite(rec, b).state = "pending"
  BY DEF CompleteWrite, FailWrite, CancelWrite, RetryWrite, JobRec, JobState

\* Every step, whoever takes it, keeps the store's part.
LEMMA StoreStep ==
    RequestsTypeOK /\ KeyInv /\ BatchInv /\ [RequestsNext]_requestVars => KeepsStore
  <1> SUFFICES ASSUME RequestsTypeOK, KeyInv, BatchInv, [RequestsNext]_requestVars
               PROVE  KeepsStore
    OBVIOUS
  <1>0. MemoryTypeOK
    BY DEF RequestsTypeOK
  <1>1. ASSUME NEW r \in Request, Submit(r) PROVE KeepsStore
    <2>1. ItemsOf[r][1] \in JobID
      BY <1>1, ItemsAreJobs DEF Submit, Begin
    <2> QED
      BY <1>0, <1>1, <2>1, CreateKeeps DEF Submit
  <1>2. ASSUME NEW r \in Request, BatchCreate(r) PROVE KeepsStore
    <2>1. PICK i \in tally[r].todo : Create(ItemsOf[r][i], NewJob)
      BY <1>2 DEF BatchCreate
    <2>2. ItemsOf[r][i] \in JobID
      BY <2>1, ItemsAreJobs DEF BatchInv, BatchAccount
    <2> QED
      BY <1>0, <2>1, <2>2, CreateKeeps
  <1>3. ASSUME NEW r \in Request, NEW j \in JobID, DeleteJob(r, j) PROVE KeepsStore
    <2>1. Exists(j) /\ Forget({j}) /\ {j} \in SUBSET JobID
      BY <1>3 DEF DeleteJob, Delete
    <2>2. \A i \in {j} : Exists(i)
      BY <2>1
    <2> QED
      BY <1>0, <2>1, <2>2, ForgetKeeps
  <1>4. ASSUME NEW r \in Request, UpdateJob(r) PROVE KeepsStore
    <2>1. rq[r] \in Handler /\ rq[r].pc = "update"
      BY <1>4 DEF RequestsTypeOK, UpdateJob
    <2>2. /\ rq[r].job \in JobID /\ rq[r].write \in JobRec
          /\ rq[r].write.state \notin {"running", "scheduled"}
      BY <2>1 DEF Handler
    <2> QED
      BY <1>0, <1>4, <2>2, UpdateKeeps DEF UpdateJob
  <1>5. ASSUME NEW j \in JobID, OthersStep(j) PROVE KeepsStore
    <2>1. CASE jobs[j].state = "running" /\ (\/ Update(j, CompleteWrite(jobs[j]))
                                             \/ Update(j, FailWrite(j, jobs[j], "permanent")))
      <3>1. jobs[j] \in JobRec
        BY <1>0, <2>1, RecordFacts DEF MemoryTypeOK
      <3> QED
        BY <1>0, <2>1, <3>1, WriteTypes, UpdateKeeps
    <2> QED
      BY <1>0, <1>5, <2>1, MarkKeeps, SaveKeeps DEF OthersStep
  <1>6. CASE CleanupStep
    <2>1. PICK old \in SUBSET JobID : Cleanup(old)
      BY <1>6 DEF CleanupStep
    <2> DEFINE removed == {j \in old : jobs[j].state \in {"completed", "failed"}}
    <2>2. removed \in SUBSET JobID /\ Forget(removed)
      BY <2>1 DEF Cleanup
    <2>3. \A j \in removed : Exists(j)
      BY RecordFacts DEF Exists
    <2> HIDE DEF removed
    <2> QED
      BY <1>0, <2>2, <2>3, ForgetKeeps
  <1>7. CASE UNCHANGED memVars
    BY <1>0, <1>7, StoreUntouched
  <1>8. CASE UNCHANGED requestVars
    BY <1>7, <1>8 DEF requestVars
  <1>9. ASSUME NEW r \in Request, Arrive(r) PROVE KeepsStore
    BY <1>1, <1>3, <1>7, <1>9
    DEF Arrive, BatchBegin, CancelJob, CancelRunning, RetryJob, Decide, WaitBegin
  <1>10. ASSUME NEW r \in Request, Proceed(r) PROVE KeepsStore
    BY <1>2, <1>4, <1>7, <1>10
    DEF Proceed, Lookup, BatchEnd, Reread, Publish, Send, Published, WaitPoll, WaitResult,
        WaitTimeout
  <1>11. ASSUME NEW s \in Stream, StreamStep(s) PROVE KeepsStore
    BY <1>7, <1>11 DEF StreamStep
  <1> QED
    BY <1>5, <1>6, <1>8, <1>9, <1>10, <1>11 DEF RequestsNext

-----------------------------------------------------------------------------
(* The bus.                                                                *)

\* Every step keeps the bus's part: a handler publishes an event of its own.
LEMMA BusStep ==
    RequestsTypeOK /\ BusInv /\ [RequestsNext]_requestVars => BusTypeOK' /\ BusInv'
  <1> SUFFICES ASSUME RequestsTypeOK, BusInv, [RequestsNext]_requestVars
               PROVE  BusTypeOK' /\ BusInv'
    OBVIOUS
  <1>0. BusTypeOK /\ Publisher = Request
    BY RequestAssumption DEF RequestsTypeOK
  <1>1. ASSUME NEW r \in Request, Publish(r) PROVE BusTypeOK' /\ BusInv'
    <2> DEFINE e == [kind |-> Kind(r), job |-> rq[r].job, by |-> r]
    <2>1. rq[r] \in Handler /\ rq[r].pc = "publish"
      BY <1>1 DEF RequestsTypeOK, Publish
    <2>2. rq[r].job \in JobID /\ rq[r].op \in {"submit", "batch", "cancel", "retry", "delete"}
      BY <2>1 DEF Handler, Op
    <2>3. Kind(r) \in {"created", "cancelled", "retried", "deleted"}
      BY <2>2 DEF Kind
    <2>4. e \in Event /\ e.by = r
      BY <1>0, <2>2, <2>3 DEF Event
    <2>5. PublishBegin(r, e)
      BY <1>1 DEF Publish
    <2> HIDE DEF e
    <2> QED
      BY <1>0, <2>4, <2>5, PublishBeginKeeps
  <1>2. ASSUME NEW r \in Request, Send(r) PROVE BusTypeOK' /\ BusInv'
    BY <1>0, <1>2, PublishSendKeeps DEF Send
  <1>3. ASSUME NEW r \in Request, Published(r) PROVE BusTypeOK' /\ BusInv'
    BY <1>0, <1>3, PublishEndKeeps DEF Published
  <1>4. ASSUME NEW s \in Stream, StreamStep(s) PROVE BusTypeOK' /\ BusInv'
    BY <1>0, <1>4, SubscribeKeeps, UnsubscribeKeeps, ReceiveKeeps DEF StreamStep
  <1>5. CASE UNCHANGED busVars
    BY <1>0, <1>5, BusUntouched
  <1>6. CASE UNCHANGED requestVars
    BY <1>5, <1>6 DEF requestVars
  <1>7. ASSUME NEW r \in Request, Arrive(r) PROVE BusTypeOK' /\ BusInv'
    BY <1>5, <1>7
    DEF Arrive, Submit, BatchBegin, DeleteJob, CancelJob, CancelRunning, RetryJob, Decide,
        WaitBegin
  <1>8. ASSUME NEW r \in Request, Proceed(r) PROVE BusTypeOK' /\ BusInv'
    BY <1>1, <1>2, <1>3, <1>5, <1>8
    DEF Proceed, Lookup, BatchCreate, BatchEnd, UpdateJob, Reread, WaitPoll, WaitResult,
        WaitTimeout
  <1> QED
    BY <1>4, <1>5, <1>6, <1>7, <1>8 DEF RequestsNext, OthersStep, CleanupStep

-----------------------------------------------------------------------------
(* The handlers.                                                           *)

HandlersOK ==
    /\ rq \in [Request -> Handler]
    /\ tally \in [Request -> Tally]
    /\ BatchInv

\* Before its first step a handler has nothing.
LEMMA NewHandler == New \in Handler /\ NoTally \in Tally
  BY DEF New, NoTally, Handler, Tally, RequestPC, RequestAnswer

\* A handler that moves on and leaves its batch, if it has one, alone.
LEMMA HandlerMoves ==
    ASSUME HandlersOK, NEW r \in Request, NEW h \in Handler,
           rq' = [rq EXCEPT ![r] = h], tally' = tally,
           rq[r].pc # "done",
           h.op = rq[r].op \/ h.op # "batch",
           h.answer = rq[r].answer \/ h.answer # "batch"
    PROVE  HandlersOK'
  <1>1. rq' \in [Request -> Handler] /\ rq'[r] = h /\ \A q \in Request \ {r} : rq'[q] = rq[q]
    BY DEF HandlersOK
  <1>2. h.answer # "batch"
    BY DEF HandlersOK, BatchInv, BatchAccount
  <1>3. BatchAccount(r)'
    BY <1>1, <1>2 DEF HandlersOK, BatchInv, BatchAccount, Valid
  <1>4. \A q \in Request \ {r} : BatchAccount(q)'
    BY <1>1 DEF HandlersOK, BatchInv, BatchAccount, Valid
  <1> QED
    BY <1>1, <1>3, <1>4 DEF HandlersOK, BatchInv

\* The answer to a request that is under way, other than a batch's.
LEMMA AnswerMoves ==
    ASSUME HandlersOK, NEW r \in Request, NEW a \in RequestAnswer \ {"batch"}, Answer(r, a),
           rq[r].pc # "done", tally' = tally
    PROVE  HandlersOK'
  <1> DEFINE h == [rq[r] EXCEPT !.pc = "done", !.answer = a]
  <1>1. rq[r] \in Handler
    BY DEF HandlersOK
  <1>2. h \in Handler /\ h.op = rq[r].op /\ h.answer # "batch"
    BY <1>1 DEF Handler, RequestPC
  <1>3. rq' = [rq EXCEPT ![r] = h]
    BY DEF Answer, HandlersOK
  <1> HIDE DEF h
  <1> QED
    BY <1>2, <1>3, HandlerMoves

\* A handler's next step, which must have what it needs.
LEMMA GoToMoves ==
    ASSUME HandlersOK, NEW r \in Request, NEW pc \in RequestPC, GoTo(r, pc),
           [rq[r] EXCEPT !.pc = pc] \in Handler, rq[r].pc # "done", tally' = tally
    PROVE  HandlersOK'
  <1> DEFINE h == [rq[r] EXCEPT !.pc = pc]
  <1>1. h \in Handler /\ h.op = rq[r].op /\ h.answer = rq[r].answer
    BY DEF HandlersOK, Handler
  <1>2. rq' = [rq EXCEPT ![r] = h]
    BY DEF GoTo, HandlersOK
  <1> HIDE DEF h
  <1> QED
    BY <1>1, <1>2, HandlerMoves

\* The start of a single submission, a deletion, a cancel without a write or
\* a wait.
LEMMA BeginMoves ==
    ASSUME HandlersOK, NEW r \in Request, NEW op \in {"submit", "delete", "cancel", "wait"},
           NEW j \in JobID, NEW pc \in {"lookup", "reread", "publish", "waiting"},
           Begin(r, op, j, pc), tally' = tally,
           pc = "publish" => op # "wait", pc = "reread" => op = "cancel"
    PROVE  HandlersOK'
  <1> DEFINE h == [rq[r] EXCEPT !.pc = pc, !.op = op, !.job = j]
  <1>1. rq[r] \in Handler /\ rq[r].pc = "new"
    BY DEF HandlersOK, Begin
  <1>2. h \in Handler /\ h.op # "batch" /\ h.answer = rq[r].answer
    BY <1>1 DEF Handler, RequestPC, Op
  <1>3. rq' = [rq EXCEPT ![r] = h]
    BY DEF Begin, HandlersOK
  <1> HIDE DEF h
  <1> QED
    BY <1>1, <1>2, <1>3, HandlerMoves

\* The decision of a Cancel or a Retry.
LEMMA DecideMoves ==
    ASSUME HandlersOK, NEW r \in Request, NEW op \in {"cancel", "retry"}, NEW j \in JobID,
           NEW write \in JobRec, write.state \in {"cancelled", "pending"},
           Decide(r, op, j, write)
    PROVE  HandlersOK'
  <1> DEFINE h == [New EXCEPT !.pc = "update", !.op = op, !.job = j, !.write = write]
  <1>1. New \in Handler /\ New.answer = "none"
    BY NewHandler DEF New
  <1>2. h \in Handler /\ h.op # "batch" /\ h.answer # "batch"
    BY <1>1 DEF Handler, RequestPC, Op
  <1>3. rq' = [rq EXCEPT ![r] = h] /\ rq[r].pc # "done" /\ tally' = tally
    BY DEF Decide
  <1> HIDE DEF h
  <1> QED
    BY <1>2, <1>3, HandlerMoves

\* A step of one handler leaves the batches of the others alone.
LEMMA OtherBatches ==
    ASSUME HandlersOK, NEW r \in Request, NEW h \in Handler, NEW t \in Tally,
           rq' = [rq EXCEPT ![r] = h], tally' = [tally EXCEPT ![r] = t], BatchAccount(r)'
    PROVE  HandlersOK'
  <1>1. rq' \in [Request -> Handler] /\ tally' \in [Request -> Tally]
    BY DEF HandlersOK
  <1>2. \A q \in Request \ {r} : rq'[q] = rq[q] /\ tally'[q] = tally[q]
    BY DEF HandlersOK
  <1>3. \A q \in Request \ {r} : BatchAccount(q)'
    BY <1>2 DEF HandlersOK, BatchInv, BatchAccount, Valid
  <1> QED
    BY <1>1, <1>3 DEF HandlersOK, BatchInv

\* A batch has finitely many items, and they are numbered.
LEMMA ValidFinite ==
    ASSUME NEW r \in Request
    PROVE  /\ Len(ItemsOf[r]) \in Nat
           /\ DOMAIN ItemsOf[r] = 1 .. Len(ItemsOf[r])
           /\ Valid(r) \subseteq 1 .. Len(ItemsOf[r])
           /\ IsFiniteSet(Valid(r))
           /\ Cardinality(Valid(r)) \in Nat
  <1>1. ItemsOf[r] \in Seq(JobID \cup {NoID})
    BY RequestAssumption
  <1>2. Len(ItemsOf[r]) \in Nat /\ DOMAIN ItemsOf[r] = 1 .. Len(ItemsOf[r])
    BY <1>1
  <1>3. Valid(r) \subseteq 1 .. Len(ItemsOf[r])
    BY <1>2 DEF Valid
  <1>4. IsFiniteSet(1 .. Len(ItemsOf[r]))
    BY <1>2, FS_Interval
  <1>5. IsFiniteSet(Valid(r))
    BY <1>3, <1>4, FS_Subset
  <1> QED
    BY <1>2, <1>3, <1>5, FS_CardinalityType

\* An interval from 1 has as many members as its upper end says.
LEMMA IntervalSize ==
    ASSUME NEW n \in Nat
    PROVE  IsFiniteSet(1 .. n) /\ Cardinality(1 .. n) = n
  <1>1. n \in Int /\ 1 \in Int
    OBVIOUS
  <1>2. IsFiniteSet(1 .. n)
    BY <1>1, FS_Interval
  <1>3. Cardinality(1 .. n) = IF 1 > n THEN 0 ELSE n - 1 + 1
    BY <1>1, FS_Interval, Zenon
  <1> QED
    BY <1>2, <1>3

\* Validation opens the account of a batch.
LEMMA BatchBegins ==
    ASSUME HandlersOK, NEW r \in Request, NEW atomic \in BOOLEAN, BatchBegin(r, atomic)
    PROVE  HandlersOK'
  <1> DEFINE invalid == Len(ItemsOf[r]) - Cardinality(Valid(r))
             refused == atomic /\ invalid > 0
             pc == IF refused THEN "done" ELSE "create"
             answer == IF refused THEN "invalid" ELSE "none"
             h == [New EXCEPT !.pc = pc, !.op = "batch", !.answer = answer]
             t == [todo |-> Valid(r), atomic |-> atomic, accepted |-> Cardinality(Valid(r)),
                   rejected |-> invalid, stored |-> {}]
  <1>1. rq' = [rq EXCEPT ![r] = h] /\ tally' = [tally EXCEPT ![r] = t]
    BY DEF BatchBegin
  <1>2. h \in Handler /\ h.answer # "batch" /\ h.op = "batch"
    <2>1. pc \in {"done", "create"} /\ answer \in {"invalid", "none"}
      OBVIOUS
    <2> HIDE DEF pc, answer
    <2> QED
      BY <2>1, NewHandler DEF Handler, RequestPC, Op, RequestAnswer
  <1>3. t \in Tally
    BY ValidFinite DEF Tally
  <1>4. Cardinality({}) = 0 /\ IsFiniteSet({})
    BY FS_EmptySet
  <1>5. rq'[r] = h /\ tally'[r] = t
    BY <1>1 DEF HandlersOK
  <1>6. /\ t.todo = Valid(r) /\ t.stored = {}
        /\ t.accepted = Cardinality(t.stored) + Cardinality(t.todo)
        /\ t.accepted + t.rejected = Len(ItemsOf[r])
    BY <1>4, ValidFinite
  <1>7. t.atomic /\ h.pc # "done" => Valid(r) = DOMAIN ItemsOf[r]
    <2> SUFFICES ASSUME ~(invalid > 0) PROVE Valid(r) = DOMAIN ItemsOf[r]
      BY NewHandler DEF Handler
    <2>1. IsFiniteSet(1 .. Len(ItemsOf[r])) /\ Cardinality(1 .. Len(ItemsOf[r])) = Len(ItemsOf[r])
      BY ValidFinite, IntervalSize
    <2>2. Cardinality(Valid(r)) <= Len(ItemsOf[r])
      BY <2>1, ValidFinite, FS_Subset
    <2>3. Cardinality(Valid(r)) = Cardinality(1 .. Len(ItemsOf[r]))
      BY <2>1, <2>2, ValidFinite
    <2> QED
      BY <2>1, <2>3, ValidFinite, FS_Subset
  <1> HIDE DEF h, t
  <1>8. BatchAccount(r)'
    BY <1>2, <1>4, <1>5, <1>6, <1>7 DEF BatchAccount, Valid
  <1> QED
    BY <1>1, <1>2, <1>3, <1>8, OtherBatches

\* The end of the loop: nothing is left to be tried.
LEMMA BatchEnds ==
    ASSUME HandlersOK, NEW r \in Request, BatchEnd(r)
    PROVE  HandlersOK'
  <1> DEFINE h == [rq[r] EXCEPT !.pc = "done", !.answer = "batch"]
  <1>1. /\ rq[r] \in Handler /\ rq[r].op = "batch" /\ rq[r].pc = "create"
        /\ tally[r] \in Tally /\ tally[r].todo = {}
    BY DEF HandlersOK, BatchEnd, At
  <1>2. h \in Handler /\ h.pc = "done" /\ h.op = "batch"
    BY <1>1 DEF Handler, RequestPC, RequestAnswer
  <1>3. rq' = [rq EXCEPT ![r] = h] /\ tally' = tally
    BY DEF BatchEnd, Answer, HandlersOK
  <1>4. tally' = [tally EXCEPT ![r] = tally[r]] /\ tally'[r] = tally[r] /\ rq'[r] = h
    BY <1>3 DEF HandlersOK
  <1> HIDE DEF h
  <1>5. BatchAccount(r)'
    BY <1>1, <1>2, <1>4 DEF HandlersOK, BatchInv, BatchAccount, Valid
  <1> QED
    BY <1>1, <1>2, <1>3, <1>4, <1>5, OtherBatches

\* One round of the loop: what leaves the items to be tried is either stored,
\* and was not before, or moves from accepted to rejected.
LEMMA BatchCreates ==
    ASSUME HandlersOK, NEW r \in Request, BatchCreate(r)
    PROVE  HandlersOK'
  <1>1. PICK i \in tally[r].todo :
          LET j == ItemsOf[r][i]
              rest == tally[r].todo \ {i}
          IN  IF CanCreate(j)
              THEN /\ rq' = [rq EXCEPT ![r].pc = "publish", ![r].job = j]
                   /\ tally' = [tally EXCEPT ![r].todo = rest, ![r].stored = @ \cup {j}]
              ELSE IF tally[r].atomic
              THEN Answer(r, "failed") /\ UNCHANGED tally
              ELSE /\ tally' = [tally EXCEPT ![r].todo = rest, ![r].accepted = @ - 1,
                                             ![r].rejected = @ + 1]
                   /\ UNCHANGED rq
    BY DEF BatchCreate
  <1> DEFINE j == ItemsOf[r][i]
             todo == tally[r].todo
             rest == todo \ {i}
             stored == tally[r].stored
  <1>2. rq[r] \in Handler /\ tally[r] \in Tally /\ rq[r].op = "batch" /\ rq[r].pc = "create"
    BY DEF HandlersOK, BatchCreate, At
  <1>3. BatchAccount(r) /\ rq[r].answer # "batch"
    BY <1>2 DEF HandlersOK, BatchInv, BatchAccount
  <1>4. /\ i \in Valid(r) /\ j \in JobID /\ j # NoID
        /\ todo \subseteq Valid(r)
        /\ stored \subseteq {ItemsOf[r][k] : k \in Valid(r) \ todo}
        /\ IsFiniteSet(stored)
        /\ tally[r].accepted = Cardinality(stored) + Cardinality(todo)
        /\ tally[r].accepted + tally[r].rejected = Len(ItemsOf[r])
    BY <1>2, <1>3, ItemsAreJobs DEF BatchAccount, Valid
  <1>5. /\ IsFiniteSet(todo) /\ IsFiniteSet(rest)
        /\ Cardinality(rest) = Cardinality(todo) - 1
        /\ Cardinality(todo) \in Nat /\ Cardinality(stored) \in Nat
    BY <1>4, ValidFinite, FS_Subset, FS_RemoveElement, FS_CardinalityType
  <1>6. j \notin stored
    <2>1. ASSUME NEW k \in Valid(r) \ todo, ItemsOf[r][k] = j PROVE FALSE
      <3>1. k \in DOMAIN ItemsOf[r] /\ i \in DOMAIN ItemsOf[r] /\ k # i
        BY <1>4 DEF Valid
      <3> QED
        BY <1>4, <2>1, <3>1, RequestAssumption
    <2> QED
      BY <1>4, <2>1
  <1>7. IsFiniteSet(stored \cup {j}) /\ Cardinality(stored \cup {j}) = Cardinality(stored) + 1
    BY <1>4, <1>6, FS_AddElement
  <1>8. CASE CanCreate(j)
    <2> DEFINE h == [rq[r] EXCEPT !.pc = "publish", !.job = j]
               t == [tally[r] EXCEPT !.todo = rest, !.stored = stored \cup {j}]
    <2>1. rq' = [rq EXCEPT ![r] = h] /\ tally' = [tally EXCEPT ![r] = t]
      BY <1>1, <1>8 DEF HandlersOK
    <2>2. h \in Handler /\ h.op = "batch" /\ h.answer = rq[r].answer
      BY <1>2, <1>4 DEF Handler, RequestPC, Op
    <2>3. /\ t \in Tally /\ t.todo = rest /\ t.stored = stored \cup {j}
          /\ t.accepted = tally[r].accepted /\ t.rejected = tally[r].rejected
          /\ t.atomic = tally[r].atomic
      BY <1>2, <1>4 DEF Tally
    <2>4. rq'[r] = h /\ tally'[r] = t
      BY <2>1 DEF HandlersOK
    <2> HIDE DEF h, t
    <2>5. /\ stored \cup {j} \subseteq {ItemsOf[r][k] : k \in Valid(r) \ rest}
          /\ t.atomic => /\ Valid(r) = DOMAIN ItemsOf[r]
                         /\ stored \cup {j} = {ItemsOf[r][k] : k \in Valid(r) \ rest}
      <3>1. {ItemsOf[r][k] : k \in Valid(r) \ rest} =
               {ItemsOf[r][k] : k \in Valid(r) \ todo} \cup {j}
        BY <1>4
      <3>2. tally[r].atomic => /\ Valid(r) = DOMAIN ItemsOf[r]
                               /\ stored = {ItemsOf[r][k] : k \in Valid(r) \ todo}
        BY <1>2, <1>3 DEF BatchAccount
      <3> QED
        BY <1>4, <2>3, <3>1, <3>2
    <2>6. t.accepted = Cardinality(t.stored) + Cardinality(t.todo)
      BY <1>4, <1>5, <1>7, <2>3
    <2>7. BatchAccount(r)'
      BY <1>3, <1>4, <1>7, <2>2, <2>3, <2>4, <2>5, <2>6 DEF BatchAccount, Valid
    <2> QED
      BY <2>1, <2>2, <2>3, <2>7, OtherBatches
  <1>9. CASE ~CanCreate(j) /\ tally[r].atomic
    BY <1>1, <1>2, <1>9, AnswerMoves DEF RequestAnswer
  <1>10. CASE ~CanCreate(j) /\ ~tally[r].atomic
    <2> DEFINE t == [tally[r] EXCEPT !.todo = rest, !.accepted = @ - 1, !.rejected = @ + 1]
    <2>1. rq' = rq /\ tally' = [tally EXCEPT ![r] = t]
      BY <1>1, <1>10 DEF HandlersOK
    <2>2. rq' = [rq EXCEPT ![r] = rq[r]] /\ rq'[r] = rq[r]
      BY <2>1 DEF HandlersOK
    <2>3. /\ t \in Tally /\ t.todo = rest /\ t.stored = stored
          /\ t.accepted = tally[r].accepted - 1 /\ t.rejected = tally[r].rejected + 1
          /\ ~t.atomic
      <3>1. /\ rest \in SUBSET Nat
            /\ tally[r].accepted - 1 \in Int /\ tally[r].rejected + 1 \in Int
        BY <1>2 DEF Tally
      <3> QED
        BY <1>2, <1>10, <3>1 DEF Tally
    <2>4. tally'[r] = t /\ tally[r].accepted \in Int /\ tally[r].rejected \in Int
      BY <1>2, <2>1 DEF HandlersOK, Tally
    <2> HIDE DEF t
    <2>5. stored \subseteq {ItemsOf[r][k] : k \in Valid(r) \ rest}
      BY <1>4
    <2>6. /\ t.accepted = Cardinality(t.stored) + Cardinality(t.todo)
          /\ t.accepted + t.rejected = Len(ItemsOf[r])
      <3>1. /\ tally[r].accepted - 1 = Cardinality(stored) + Cardinality(rest)
            /\ (tally[r].accepted - 1) + (tally[r].rejected + 1) = Len(ItemsOf[r])
        BY <1>4, <1>5, <2>4
      <3> QED
        BY <2>3, <3>1
    <2>7. BatchAccount(r)'
      BY <1>3, <1>4, <2>2, <2>3, <2>4, <2>5, <2>6 DEF BatchAccount, Valid
    <2> QED
      BY <1>2, <2>1, <2>2, <2>3, <2>7, OtherBatches
  <1> QED
    BY <1>8, <1>9, <1>10

\* Every step keeps the handlers' part.
LEMMA HandlerStep ==
    MemoryTypeOK /\ HandlersOK /\ [RequestsNext]_requestVars => HandlersOK'
  <1> SUFFICES ASSUME MemoryTypeOK, HandlersOK, [RequestsNext]_requestVars
               PROVE  HandlersOK'
    OBVIOUS
  <1>1. ASSUME NEW r \in Request, Arrive(r) PROVE HandlersOK'
    <2>1. CASE Submit(r)
      <3> DEFINE pc == IF CanCreate(ItemsOf[r][1]) THEN "publish" ELSE "lookup"
      <3>1. Begin(r, "submit", ItemsOf[r][1], pc) /\ tally' = tally
        BY <2>1 DEF Submit
      <3>2. ItemsOf[r][1] \in JobID
        BY <3>1, ItemsAreJobs DEF Begin
      <3>3. pc \in {"lookup", "publish"}
        OBVIOUS
      <3> HIDE DEF pc
      <3> QED
        BY <3>1, <3>2, <3>3, BeginMoves
    <2>2. ASSUME NEW atomic \in BOOLEAN, BatchBegin(r, atomic) PROVE HandlersOK'
      BY <2>2, BatchBegins
    <2>3. ASSUME NEW j \in JobID, DeleteJob(r, j) \/ CancelRunning(r, j) \/ WaitBegin(r, j)
          PROVE  HandlersOK'
      BY <2>3, BeginMoves DEF DeleteJob, CancelRunning, WaitBegin
    <2>4. ASSUME NEW j \in JobID, NEW b \in BOOLEAN, CancelJob(r, j, b) \/ RetryJob(r, j, b)
          PROVE  HandlersOK'
      <3>1. jobs[j] \in JobRec
        BY <2>4, RecordFacts DEF CancelJob, RetryJob, Exists, Retryable, MemoryTypeOK
      <3> QED
        BY <2>4, <3>1, WriteTypes, DecideMoves DEF CancelJob, RetryJob
    <2> QED
      BY <1>1, <2>1, <2>2, <2>3, <2>4 DEF Arrive
  <1>2. ASSUME NEW r \in Request, Proceed(r) PROVE HandlersOK'
    <2>0. rq[r] \in Handler
      BY DEF HandlersOK
    <2>1. CASE Lookup(r) \/ WaitResult(r) \/ WaitTimeout(r)
      BY <2>1, AnswerMoves DEF Lookup, WaitResult, WaitTimeout, At, RequestAnswer
    <2>2. CASE BatchCreate(r) \/ BatchEnd(r)
      BY <2>2, BatchCreates, BatchEnds
    <2>3. CASE UpdateJob(r)
      <3>1. [rq[r] EXCEPT !.pc = "reread"] \in Handler
        BY <2>0, <2>3 DEF UpdateJob, Handler, RequestPC
      <3> QED
        BY <2>3, <3>1, AnswerMoves, GoToMoves DEF UpdateJob, RequestAnswer, RequestPC
    <2>4. CASE Reread(r)
      <3>1. [rq[r] EXCEPT !.pc = "publish"] \in Handler
        BY <2>0, <2>4 DEF Reread, Handler, RequestPC, Op
      <3> QED
        BY <2>4, <3>1, AnswerMoves, GoToMoves DEF Reread, RequestAnswer, RequestPC
    <2>5. CASE Publish(r)
      <3>1. [rq[r] EXCEPT !.pc = "publishing"] \in Handler
        BY <2>0, <2>5 DEF Publish, Handler, RequestPC
      <3> QED
        BY <2>5, <3>1, GoToMoves DEF Publish, RequestPC
    <2>6. CASE Published(r)
      <3>1. [rq[r] EXCEPT !.pc = "create"] \in Handler
        BY <2>0 DEF Handler, RequestPC
      <3>2. rq[r].op \in {"submit", "batch", "cancel", "retry", "delete"}
        BY <2>0, <2>6 DEF Published, Handler, Op
      <3>3. Kind(r) \in RequestAnswer \ {"batch"}
        BY <3>2 DEF Kind, RequestAnswer
      <3> QED
        BY <2>6, <3>1, <3>3, AnswerMoves, GoToMoves DEF Published, RequestPC
    <2>7. CASE WaitPoll(r)
      <3>1. [rq[r] EXCEPT !.pc = "result"] \in Handler
        BY <2>0 DEF Handler, RequestPC
      <3> QED
        BY <2>7, <3>1, AnswerMoves, GoToMoves DEF WaitPoll, RequestAnswer, RequestPC
    <2>8. CASE Send(r)
      BY <2>8 DEF Send, HandlersOK, BatchInv, BatchAccount, Valid
    <2> QED
      BY <1>2, <2>1, <2>2, <2>3, <2>4, <2>5, <2>6, <2>7, <2>8 DEF Proceed
  <1>3. CASE UNCHANGED <<rq, tally>>
    BY <1>3 DEF HandlersOK, BatchInv, BatchAccount, Valid
  <1> QED
    BY <1>1, <1>2, <1>3
    DEF RequestsNext, StreamStep, OthersStep, CleanupStep, requestVars

-----------------------------------------------------------------------------
(* The theorems.                                                           *)

\* The inductive invariant of the request handlers.
RequestsInv == RequestsTypeOK /\ BusInv /\ KeyInv /\ BatchInv

\* Initially nothing is stored, subscribed, published or requested.
LEMMA RequestsInitially == RequestsInit => RequestsInv
  <1> SUFFICES ASSUME RequestsInit PROVE RequestsInv
    OBVIOUS
  <1>1. BusTypeOK /\ BusInv
    BY BusInitially DEF RequestsInit
  <1>2. MemoryTypeOK /\ KeyInv
    BY JobAssumption DEF RequestsInit, MemoryInit, MemoryTypeOK, KeyInv, Exists
  <1>3. /\ rq \in [Request -> Handler] /\ tally \in [Request -> Tally]
        /\ \A r \in Request : rq[r] = New /\ tally[r] = NoTally
    BY NewHandler DEF RequestsInit
  <1>4. IsFiniteSet({})
    BY FS_EmptySet
  <1>5. ASSUME NEW r \in Request PROVE BatchAccount(r)
    <2>1. /\ tally[r].todo = {} /\ tally[r].stored = {}
          /\ rq[r].op = "none" /\ rq[r].answer = "none"
      BY <1>3 DEF New, NoTally
    <2> QED
      BY <1>4, <2>1 DEF BatchAccount
  <1> QED
    BY <1>1, <1>2, <1>3, <1>5 DEF RequestsInv, RequestsTypeOK, BatchInv

\* Every step of the handlers, the streams and the rest of the server keeps
\* the invariant.
LEMMA RequestsInductive == RequestsInv /\ [RequestsNext]_requestVars => RequestsInv'
  <1> SUFFICES ASSUME RequestsInv, [RequestsNext]_requestVars PROVE RequestsInv'
    OBVIOUS
  <1>1. KeepsStore
    BY StoreStep DEF RequestsInv
  <1>2. BusTypeOK' /\ BusInv'
    BY BusStep DEF RequestsInv
  <1>3. HandlersOK'
    BY HandlerStep DEF RequestsInv, RequestsTypeOK, HandlersOK
  <1> QED
    BY <1>1, <1>2, <1>3 DEF RequestsInv, RequestsTypeOK, KeepsStore, HandlersOK

\* The handlers keep to their types and to what the three parts promise.
THEOREM RequestsCorrect == RequestsSpec => []RequestsInv
  BY RequestsInitially, RequestsInductive, PTL DEF RequestsSpec

\* No Publish ever sends on a closed channel, however many streams come and
\* go while it is at it.
THEOREM SendsAreSafe == RequestsSpec => []NoSendOnClosed
  <1>1. RequestsInv => NoSendOnClosed
    BY DEF RequestsInv, BusInv
  <1> QED
    BY <1>1, RequestsCorrect, PTL

\* Every open stream is offered every event it subscribed to exactly once.
THEOREM EventsOfferedOnce == RequestsSpec => []OfferedOnce
  <1>1. RequestsInv => OfferedOnce
    BY DEF RequestsInv, BusInv
  <1> QED
    BY <1>1, RequestsCorrect, PTL

\* MemoryStore's Create refuses a key exactly when a stored job carries it.
THEOREM KeysExact == RequestsSpec => []KeyIndexExact
  <1>1. RequestsInv => KeyIndexExact
    <2> SUFFICES ASSUME MemoryTypeOK, KeyInv, NEW j \in JobID
                 PROVE  KeyTaken(j) <=> ~Contract!KeyIsFree(j)
      BY DEF RequestsInv, RequestsTypeOK, KeyIndexExact
    <2>1. ASSUME KeyTaken(j) PROVE ~Contract!KeyIsFree(j)
      <3> DEFINE i == idempotency[KeyOf[j]]
      <3>1. KeyOf[j] # NoKey /\ KeyOf[j] \in Key /\ i # NoID
        BY <2>1, JobAssumption DEF KeyTaken
      <3>2. i \in JobID /\ jobs[i] # NoJob /\ KeyOf[i] = KeyOf[j]
        BY <3>1 DEF MemoryTypeOK, KeyInv, Exists
      <3> QED
        BY <3>1, <3>2, ContractNames DEF Contract!KeyIsFree
    <2>2. ASSUME ~Contract!KeyIsFree(j) PROVE KeyTaken(j)
      <3>1. PICK i \in JobID : KeyOf[j] # NoKey /\ jobs[i] # NoJob /\ KeyOf[i] = KeyOf[j]
        BY <2>2, ContractNames DEF Contract!KeyIsFree
      <3>2. idempotency[KeyOf[j]] = i /\ i # NoID
        BY <3>1, JobAssumption DEF KeyInv, Exists, NoID
      <3> QED
        BY <3>1, <3>2 DEF KeyTaken
    <2> QED
      BY <2>1, <2>2
  <1> QED
    BY <1>1, RequestsCorrect, PTL

\* The counters of a batch response add up and Accepted is what was stored,
\* whatever other submissions do meanwhile.
THEOREM BatchesCounted == RequestsSpec => []BatchCounts
  <1>1. RequestsInv => BatchCounts
    <2> SUFFICES ASSUME RequestsInv, NEW r \in Request, rq[r].answer = "batch"
                 PROVE  /\ tally[r].accepted + tally[r].rejected = Len(ItemsOf[r])
                        /\ tally[r].accepted = Cardinality(tally[r].stored)
      BY DEF BatchCounts
    <2>1. BatchAccount(r) /\ tally[r].todo = {} /\ rq[r].op = "batch"
      BY DEF RequestsInv, BatchInv, BatchAccount
    <2>2. Cardinality({}) = 0 /\ Cardinality(tally[r].stored) \in Nat
      BY <2>1, FS_EmptySet, FS_CardinalityType DEF BatchAccount
    <2> QED
      BY <2>1, <2>2 DEF BatchAccount
  <1> QED
    BY <1>1, RequestsCorrect, PTL

\* An atomic batch that is answered with counters has stored every item.
THEOREM AtomicBatchesComplete == RequestsSpec => []AtomicIsComplete
  <1>1. RequestsInv => AtomicIsComplete
    <2> SUFFICES ASSUME RequestsInv, NEW r \in Request, rq[r].answer = "batch", tally[r].atomic
                 PROVE  tally[r].stored = Range(ItemsOf[r])
      BY DEF AtomicIsComplete
    <2>1. BatchAccount(r) /\ tally[r].todo = {} /\ rq[r].op = "batch"
      BY DEF RequestsInv, BatchInv, BatchAccount
    <2>2. tally[r].stored = {ItemsOf[r][i] : i \in DOMAIN ItemsOf[r]}
      BY <2>1 DEF BatchAccount
    <2> QED
      BY <2>2 DEF Range
  <1> QED
    BY <1>1, RequestsCorrect, PTL

\* Under every interleaving of handlers, workers and cleanup the in-memory
\* store does what the interface documents, and besides it only lets pending
\* jobs be claimed.
THEOREM MemoryContractKept == RequestsSpec => MemoryKeepsContract
  <1>1. RequestsInit => Contract!Init
    BY ContractNames DEF RequestsInit, MemoryInit, Contract!Init
  <1>2. RequestsInv /\ [RequestsNext]_requestVars
           => [Contract!ImplementedNext]_Contract!contractVars
    BY StoreStep DEF RequestsInv, KeepsStore, Same, Contract!contractVars
  <1> QED
    BY <1>1, <1>2, RequestsCorrect, PTL
    DEF RequestsSpec, MemoryKeepsContract, Contract!ImplementedSpec
=============================================================================
