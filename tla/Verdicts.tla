------------------------------ MODULE Verdicts ------------------------------
(***************************************************************************)
(* The decisions of the scheduler's Complete, Fail, Cancel and Retry       *)
(* (scheduler/scheduler.go).  Each reads the record, decides, and writes   *)
(* the whole record back in a later transaction.  Only the decision is     *)
(* here, as a function from the record read to the record to be written.   *)
(***************************************************************************)
EXTENDS Jobs

CompleteWrite(rec) == [state |-> "completed", attempt |-> rec.attempt]

\* Mutant: a job that has one attempt left is given up.
FailWriteEarly(j, rec, category) ==
    LET attemptsLeft == rec.attempt + 1 < MaxAttemptsOf[j]
    IN  [state   |-> IF ~attemptsLeft THEN "dead_letter"
                     ELSE IF category = "temporary" THEN "retrying" ELSE "failed",
         attempt |-> rec.attempt]

\* Mutant: the attempt limit is compared the wrong way round at the limit.
FailWriteLate(j, rec, category) ==
    LET attemptsLeft == rec.attempt <= MaxAttemptsOf[j]
    IN  [state   |-> IF ~attemptsLeft THEN "dead_letter"
                     ELSE IF category = "temporary" THEN "retrying" ELSE "failed",
         attempt |-> rec.attempt]

FailWrite(j, rec, category) ==
    LET attemptsLeft == rec.attempt < MaxAttemptsOf[j]
    IN  [state   |-> IF ~attemptsLeft THEN "dead_letter"
                     ELSE IF category = "temporary" THEN "retrying" ELSE "failed",
         attempt |-> rec.attempt]

\* Whether Cancel goes on to write.  It refuses a terminal job with an error;
\* a running one it leaves alone unless forced, and reports success.
Cancellable(rec, force) ==
    /\ ~IsTerminal(rec)
    /\ rec.state = "running" => force

CancelWrite(rec) == [state |-> "cancelled", attempt |-> rec.attempt]

Retryable(rec) == rec.state \in {"failed", "dead_letter"}

RetryWrite(rec, resetAttempts) ==
    [state   |-> "pending",
     attempt |-> IF resetAttempts THEN 0 ELSE rec.attempt]
=============================================================================
