----------------------------- MODULE Invariants -----------------------------
(***************************************************************************)
(* The inductive strengthenings behind the safety properties of            *)
(* GopherQueue.  Each says of the records and ids in flight (a worker's    *)
(* pending write, a request's, a snapshot, a channel) what the property    *)
(* says of the store, because sooner or later they are written there.      *)
(***************************************************************************)
EXTENDS GopherQueue

\* VerdictMatchesAttempts, for the writes that workers and requests still
\* have to make.  The recovery manager's verdict is taken when it is written.
VerdictInv ==
    /\ VerdictMatchesAttempts
    /\ \A w \in Worker :
          /\ worker[w].pc \in {"fail_save", "fail_update"} =>
                /\ VerdictFits(worker[w].job, worker[w].write)
                /\ worker[w].write.state \in {"retrying", "failed", "dead_letter"}
          /\ worker[w].pc = "complete_update" => worker[w].write.state = "completed"
    /\ \A c \in Client : req[c] # NoRequest => req[c].write.state \in {"cancelled", "pending"}

\* DeadLetterEarned, for every copy of a record that may be written back.
AttemptInv ==
    /\ \A j \in JobID : jobs[j].attempt <= claims[j] /\ rbatch[j].attempt <= claims[j]
    /\ \A w \in Worker : worker[w].job # NoID =>
          worker[w].write.attempt <= claims[worker[w].job]
    /\ \A c \in Client : req[c] # NoRequest => req[c].write.attempt <= claims[req[c].job]

\* Only submitted jobs are in the store or in flight.
MintedInv ==
    /\ \A j \in JobID : j \notin minted =>
          /\ jobs[j] = NoJob /\ rbatch[j] = NoJob
          /\ batch[j] = "out" /\ j \notin dbatch
          /\ claims[j] = 0 /\ retried[j] = 0 /\ faults[j] = 0
    /\ \A n \in 1 .. Len(schedCh) : schedCh[n] \in minted
    /\ \A n \in 1 .. Len(poolCh) : poolCh[n] \in minted
    /\ fetched \in minted \cup {NoID}
    /\ \A w \in Worker : worker[w].job \in minted \cup {NoID}
    /\ \A c \in Client : req[c].job \in minted \cup {NoID}

\* FailedHasResult, for the worker about to write "failed".
ResultInv ==
    /\ FailedHasResult
    /\ \A w \in Worker : worker[w].pc = "fail_update" /\ Exists(worker[w].job) =>
          results[worker[w].job] # "none"

-----------------------------------------------------------------------------
(* BoundedExecutions.                                                      *)

Touched(j) == retried[j] > 0 \/ faults[j] > 0

\* The id is on its way to a worker, or will be sent without being marked.
InFlight(j) ==
    \/ batch[j] = "scheduled"
    \/ \E n \in 1 .. Len(schedCh) : schedCh[n] = j
    \/ fetched = j
    \/ \E n \in 1 .. Len(poolCh) : poolCh[n] = j
    \/ \E w \in Worker : worker[w].pc = "received" /\ worker[w].job = j

\* The executions that what is stored and remembered of the job still allows
\* without a retry or a lost mark: a pending job may be claimed and then
\* marked scheduled by a stale snapshot, so it counts twice.
Potential(j) ==
    IF jobs[j].state = "pending" THEN 2
    ELSE (IF jobs[j].state = "scheduled" THEN 1 ELSE 0)
         + (IF batch[j] = "pending" THEN 1 ELSE 0)

\* A job that waits to be marked for the first time has never been sent.
Unsent(j) ==
    \/ jobs[j].state \in {"pending", "delayed"}
    \/ batch[j] = "pending"
    \/ j \in dbatch

Executions(j) ==
    /\ jobs[j].state = "delayed" \/ j \in dbatch =>
          /\ ~Touched(j)
          /\ batch[j] = "out"
          /\ jobs[j].state # "pending"
    /\ ~Touched(j) /\ Unsent(j) =>
          /\ claims[j] = 0
          /\ ~InFlight(j)
          /\ jobs[j].state \in {"pending", "delayed", "cancelled", "absent"}
    /\ ~Touched(j) /\ jobs[j].state = "scheduled" => claims[j] = 0
    /\ ~Touched(j) => claims[j] <= 1
    /\ Touched(j) => claims[j] + Potential(j) <= 1 + 2 * retried[j] + faults[j]

ExecutionInv == \A j \in JobID : Executions(j)

\* What only a started job can be, or have pending.
StartedInv ==
    /\ \A j \in JobID :
          /\ jobs[j].state \in {"running", "retrying", "completed", "failed", "dead_letter"}
                => claims[j] >= 1
          /\ rbatch[j] # NoJob => claims[j] >= 1
    /\ \A w \in Worker : worker[w].pc \in Holding => claims[worker[w].job] >= 1
    /\ \A c \in Client : req[c] # NoRequest /\ req[c].write.state = "pending" =>
          claims[req[c].job] >= 1
=============================================================================
