------------------------------ MODULE Scheduler ------------------------------
(***************************************************************************)
(* scheduler/scheduler.go, the PriorityScheduler.                          *)
(*                                                                         *)
(* Two goroutines poll the store.  runScheduleLoop takes a snapshot of the *)
(* claimable jobs every tick and works through it: a job the snapshot saw  *)
(* pending is marked scheduled, and every job of the snapshot is sent to   *)
(* the workers' channel, so a job nobody has claimed is sent again at      *)
(* every tick.  runDelayedLoop does the same for due delayed jobs, without *)
(* sending.  Neither rereads a job before writing to it.                   *)
(*                                                                         *)
(* Complete, Fail, Cancel and Retry are called by workers and by request   *)
(* handlers; their decisions are in Verdicts, their steps with the callers.*)
(***************************************************************************)
EXTENDS JobStore, Verdicts, Sequences

CONSTANT BatchSize    \* limit of a snapshot and capacity of the channel

ASSUME BatchAssumption == BatchSize \in Nat \ {0}

VARIABLES schedCh,    \* PriorityScheduler.jobCh, as a sequence of ids
          batch,      \* the rest of the tick's snapshot: id -> state it was seen in
          dbatch,     \* the rest of the delayed loop's snapshot
          ripe        \* deferred jobs whose time has come (the clock)

schedVars == <<schedCh, batch, dbatch, ripe>>

NoBatch == [j \in JobID |-> "out"]

SchedTypeOK ==
    /\ schedCh \in Seq(JobID)
    /\ batch \in [JobID -> {"out", "pending", "scheduled"}]
    /\ dbatch \subseteq JobID
    /\ ripe \subseteq JobID

SchedInit ==
    /\ schedCh = <<>>
    /\ batch = NoBatch
    /\ dbatch = {}
    /\ ripe = {}

-----------------------------------------------------------------------------
(* scheduleJobs.                                                           *)

\* GetPending.  A tick that finds nothing changes nothing and is not a step.
ScheduleScan ==
    /\ batch = NoBatch
    /\ GetPending(BatchSize) # {}
    /\ batch' = [j \in JobID |-> IF j \in GetPending(BatchSize)
                                 THEN jobs[j].state ELSE "out"]
    /\ UNCHANGED <<storeVars, schedCh, dbatch, ripe>>

NextInBatch(j) ==
    /\ batch[j] # "out"
    /\ \A i \in JobID : batch[i] # "out" /\ i # j => Before(j, i)

\* Mutant: every job of the snapshot is marked, the scheduled ones again.
MarkAlways(j, stored) ==
    IF stored THEN UpdateState(j, "scheduled") ELSE UNCHANGED storeVars

\* Mutant: a job is sent without being marked.
MarkNever(j, stored) == UNCHANGED storeVars

\* The error of UpdateState is dropped: stored is whether the write happened.
\* A job the snapshot saw scheduled is not written at all.
MarkScheduled(j, stored) ==
    IF batch[j] = "pending" /\ stored
    THEN UpdateState(j, "scheduled")
    ELSE UNCHANGED storeVars

\* The send never blocks: when the channel is full the rest of the snapshot
\* is dropped.
SendToWorkers(j) ==
    \/ /\ Len(schedCh) < BatchSize
       /\ schedCh' = Append(schedCh, j)
       /\ batch' = [batch EXCEPT ![j] = "out"]
    \/ /\ Len(schedCh) >= BatchSize
       /\ batch' = NoBatch
       /\ UNCHANGED schedCh

\* One round of the loop.  The write and the send are one step: only this
\* goroutine sends on schedCh, the reader of schedCh does not touch the
\* store, and ClaimJob treats pending and scheduled alike, so another step
\* between the two can be moved in front of the pair or behind it.
ScheduleNext(j, stored) ==
    /\ NextInBatch(j)
    /\ MarkScheduled(j, stored)
    /\ SendToWorkers(j)
    /\ UNCHANGED <<dbatch, ripe>>

-----------------------------------------------------------------------------
(* processDelayedJobs.                                                     *)

DueDelayed == {j \in JobID : jobs[j].state = "delayed" /\ j \in ripe}

\* Mutant: nothing is returned when more jobs are due than the limit.
DelayedScanAll(found) ==
    /\ dbatch = {}
    /\ found # {}
    /\ found = DueDelayed
    /\ Cardinality(found) <= BatchSize
    /\ dbatch' = found
    /\ UNCHANGED <<storeVars, schedCh, batch, ripe>>

\* GetDelayed walks the bucket in uuid order and stops at the limit: which
\* of more than BatchSize due jobs it returns is arbitrary.
DelayedScan(found) ==
    /\ dbatch = {}
    /\ found # {}
    /\ \/ found = DueDelayed
       \/ Cardinality(found) = BatchSize
    /\ Cardinality(found) <= BatchSize
    /\ dbatch' = found
    /\ UNCHANGED <<storeVars, schedCh, batch, ripe>>

DelayedNext(j) ==
    /\ j \in dbatch
    /\ UpdateState(j, "scheduled")
    /\ dbatch' = dbatch \ {j}
    /\ UNCHANGED <<schedCh, batch, ripe>>

\* UpdateState fails and the error is dropped; the next tick finds the job again.
DelayedFails(j) ==
    /\ j \in dbatch
    /\ dbatch' = dbatch \ {j}
    /\ UNCHANGED <<storeVars, schedCh, batch, ripe>>

\* Time passes: the ScheduledAt of a deferred job is reached.
DelayElapse(j) ==
    /\ j \in Deferred \ ripe
    /\ ripe' = ripe \cup {j}
    /\ UNCHANGED <<storeVars, schedCh, batch, dbatch>>

-----------------------------------------------------------------------------
(* Enqueue only edits the caller's in-memory record.                       *)

Enqueue(j) ==
    [state   |-> IF j \in Deferred \ ripe THEN "delayed" ELSE "pending",
     attempt |-> 0]
=============================================================================
