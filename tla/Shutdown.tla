------------------------------ MODULE Shutdown ------------------------------
(***************************************************************************)
(* The life of the process, cli/serve.go: GopherQueue with a main          *)
(* goroutine that waits for SIGTERM and then stops the components one by   *)
(* one, and with goroutines that end.                                      *)
(*                                                                         *)
(* SIGTERM cancels the context every component was started with, so        *)
(* everything is told to stop at once: the loops leave between two ticks,  *)
(* the handlers see a cancelled context, and the Stop calls that follow    *)
(* only add the pool's stopCh and the waiting.  A select with several      *)
(* ready cases picks any of them: a loop may tick, and an idle worker may  *)
(* take a job, after the cancellation.                                     *)
(*                                                                         *)
(* apiServer.Stop waits for the requests in progress, pool.Stop for the    *)
(* pool's goroutines, both only until shutdownCtx expires.  (The pool's    *)
(* ShutdownGracePeriod is the same timeout started later, so it never      *)
(* comes first.)  recoveryMgr.Stop and sched.Stop wait for nobody.         *)
(* What follows the exit, or a kill on the way to it, is GopherQueue's     *)
(* Crash: a new process on the database this one leaves behind.            *)
(***************************************************************************)
EXTENDS GopherQueue

VARIABLES phase,        \* where runServe is
          gone,         \* the pool's goroutines that have returned
          expired,      \* shutdownCtx is done
          streaming,    \* apiServer.Stop found an event stream open, and it still is
          interrupted   \* history: jobs whose last handler was cut short by the signal

lifecycle == <<phase, gone, expired, streaming, interrupted>>

allVars == <<vars, lifecycle>>

Phase == {"serving", "signalled", "stop_api", "stop_pool", "closing", "exited"}

Pool == Worker \cup {"fetcher"}

ASSUME ShutdownAssumption == "fetcher" \notin Worker

LifecycleTypeOK ==
    /\ phase \in Phase
    /\ gone \subseteq Pool
    /\ expired \in BOOLEAN
    /\ streaming \in BOOLEAN
    /\ interrupted \subseteq JobID

ShutdownInit ==
    /\ Init
    /\ phase = "serving"
    /\ gone = {}
    /\ expired = FALSE
    /\ streaming = FALSE
    /\ interrupted = {}

Cancelled == phase # "serving"
PoolStopClosed == phase \in {"stop_pool", "closing"}
Listening == phase \in {"serving", "signalled"}
Up == phase # "exited"

-----------------------------------------------------------------------------
(* runServe.                                                               *)

Signal ==
    /\ phase = "serving"
    /\ phase' = "signalled"
    /\ UNCHANGED <<vars, gone, expired, streaming, interrupted>>

\* apiServer.Stop: no new requests from here on.  handleEvents returns only
\* when its client goes away: http.Server.Shutdown does not cancel requests.
StopApi ==
    /\ phase = "signalled"
    /\ phase' = "stop_api"
    /\ streaming' \in BOOLEAN
    /\ UNCHANGED <<vars, gone, expired, interrupted>>

StreamCloses ==
    /\ Up /\ streaming
    /\ streaming' = FALSE
    /\ UNCHANGED <<vars, phase, gone, expired, interrupted>>

\* http.Server.Shutdown returns; then recoveryMgr.Stop, and pool.Stop closes
\* its stopCh.
ApiStopped ==
    /\ phase = "stop_api"
    /\ (~streaming /\ \A c \in Client : req[c] = NoRequest) \/ expired
    /\ phase' = "stop_pool"
    /\ UNCHANGED <<vars, gone, expired, streaming, interrupted>>

\* Mutant: only the fetcher is in the wait group.
PoolStoppedEarly ==
    /\ phase = "stop_pool"
    /\ "fetcher" \in gone \/ expired
    /\ phase' = "closing"
    /\ UNCHANGED <<vars, gone, expired, streaming, interrupted>>

\* pool.Stop returns.
PoolStopped ==
    /\ phase = "stop_pool"
    /\ Pool \subseteq gone \/ expired
    /\ phase' = "closing"
    /\ UNCHANGED <<vars, gone, expired, streaming, interrupted>>

\* sched.Stop, store.Close, and the process ends with whatever still runs.
Exit ==
    /\ phase = "closing"
    /\ phase' = "exited"
    /\ UNCHANGED <<vars, gone, expired, streaming, interrupted>>

\* The timeout of shutdownCtx.
Expire ==
    /\ phase \in {"stop_api", "stop_pool"}
    /\ ~expired
    /\ expired' = TRUE
    /\ UNCHANGED <<vars, phase, gone, streaming, interrupted>>

-----------------------------------------------------------------------------
(* The goroutines end.  The scheduler's two loops and the recovery loop    *)
(* leave between two ticks, and nobody waits for them: a loop that has     *)
(* left is one that happens not to tick any more, and is not recorded.     *)

Leave(g) ==
    /\ Up
    /\ g \notin gone
    /\ gone' = gone \cup {g}
    /\ UNCHANGED <<vars, phase, expired, streaming, interrupted>>

\* Mutant: the fetcher's send to a full channel does not watch stopCh.
FetcherReturnsEmptyHanded ==
    /\ fetched = NoID /\ Cancelled
    /\ Leave("fetcher")

\* jobFetcher leaves from GetNextJob when the context is cancelled; blocked
\* on the send it watches stopCh only, and drops the job it holds.
FetcherReturns ==
    /\ \/ fetched = NoID /\ Cancelled
       \/ fetched # NoID /\ PoolStopClosed
    /\ Leave("fetcher")

WorkerReturns(w) ==
    /\ worker[w].pc = "idle"
    /\ Cancelled
    /\ Leave(w)

-----------------------------------------------------------------------------
(* The components' steps while the process is up.                          *)

\* After a send the fetcher is back at the top of its loop, where a
\* cancelled context makes it return.
FetcherGoesOn ==
    /\ Up /\ "fetcher" \notin gone
    /\ FetcherStep
    /\ gone' = IF Cancelled /\ fetched # NoID THEN gone \cup {"fetcher"} ELSE gone
    /\ UNCHANGED <<phase, expired, streaming, interrupted>>

\* The cancelled context ends the handler: context.Canceled is classified as
\* a system error.
Interrupt(w) ==
    /\ Up /\ Cancelled
    /\ Fail(w, "system")
    /\ interrupted' = interrupted \cup {worker[w].job}
    /\ UNCHANGED <<rbatch, minted, req, history, phase, gone, expired, streaming>>

\* A new claim starts a new handler.
ClaimAgain(w) ==
    /\ Up
    /\ ClaimStep(w)
    /\ interrupted' = interrupted \ {worker[w].job}
    /\ UNCHANGED <<phase, gone, expired, streaming>>

ComponentStep ==
    /\ Up
    /\ \/ SchedulerStep
       \/ \E j \in JobID : LostMark(j)
       \/ DelayedStep
       \/ RecoveryStep
       \/ \E w \in Worker : CheckpointStep(w)
       \/ Listening /\ RequestStep
    /\ UNCHANGED lifecycle

TimeStep ==
    /\ \E j \in JobID : ClockStep(j)
    /\ UNCHANGED lifecycle

WorkerGoesOn(w) ==
    /\ Up /\ w \notin gone
    /\ WorkerStep(w) \/ HandlerStep(w) \/ ReportStep(w)
    /\ UNCHANGED lifecycle

RequestEnds(c) ==
    /\ Up
    /\ UpdateStep(c)
    /\ UNCHANGED lifecycle

ShutdownNext ==
    \/ Signal
    \/ StopApi
    \/ StreamCloses
    \/ ApiStopped
    \/ PoolStopped
    \/ Exit
    \/ Expire
    \/ FetcherReturns
    \/ FetcherGoesOn
    \/ ComponentStep
    \/ TimeStep
    \/ \E c \in Client : RequestEnds(c)
    \/ \E w \in Worker :
          \/ WorkerReturns(w)
          \/ WorkerGoesOn(w)
          \/ ClaimAgain(w)
          \/ Interrupt(w)

ShutdownSpec == ShutdownInit /\ [][ShutdownNext]_allVars

-----------------------------------------------------------------------------
(* Properties.                                                             *)

\* When the server stops before its timeout, the wait for the pool was not in
\* vain: no job is left running, and a completed job has its result.  The
\* interleavings of the signal with claims, handlers and two-transaction
\* reports all end this way.
CleanExit ==
    phase = "exited" /\ ~expired =>
        \A j \in JobID :
            /\ jobs[j].state # "running"
            /\ jobs[j].state = "completed" => results[j] # "none"

\* What makes CleanExit inductive: nothing is orphaned while the process lives,
\* a completed job without a result has a worker about to save it, a goroutine
\* that has returned does nothing any more, and pool.Stop waited for them all.
ShutdownInv ==
    /\ orphans = {}
    /\ \A j \in JobID : jobs[j].state = "completed" /\ results[j] = "none" =>
          \E w \in Worker : worker[w].pc = "complete_save" /\ worker[w].job = j
    /\ \A w \in Worker \cap gone : worker[w].pc = "idle"
    /\ phase \in {"closing", "exited"} /\ ~expired => Pool \subseteq gone

\* docs/FAILURE_PLAYBOOK.md, on SIGTERM during execution: "Interrupted jobs
\* remain in RUNNING state" and are "detected and rescheduled" on restart; at
\* least, being interrupted is not held against a job as a failure.
InterruptedNotFailed ==
    \A j \in interrupted : jobs[j].state \notin {"failed", "dead_letter"}

\* What moves a shutdown on.  The timeout is only relied on for the requests,
\* whose clients may keep a stream open for ever: the pool must come to its
\* end without it.  (In the code it does expire there too.)
ShutdownFairness ==
    /\ WF_allVars(StopApi)
    /\ WF_allVars(ApiStopped)
    /\ WF_allVars(PoolStopped)
    /\ WF_allVars(Exit)
    /\ WF_allVars(Expire /\ phase = "stop_api")
    /\ WF_allVars(FetcherReturns)
    /\ WF_allVars(FetcherGoesOn)
    /\ \A w \in Worker :
          /\ WF_allVars(WorkerReturns(w))
          /\ WF_allVars(ClaimAgain(w))
          /\ WF_allVars(WorkerGoesOn(w))

FairShutdown == ShutdownSpec /\ ShutdownFairness

\* After SIGTERM the process exits: no goroutine the pool waits for is stuck
\* on a channel whose other end has left.
ShutdownEnds ==
    phase = "signalled" ~> phase = "exited"
=============================================================================
