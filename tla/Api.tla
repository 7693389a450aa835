-------------------------------- MODULE Api --------------------------------
(***************************************************************************)
(* The request handlers of api/handlers.go that change the store.  Submit  *)
(* and delete are one store transaction; cancel and retry are a Get and,   *)
(* later, an Update with the copy the Get returned.                        *)
(***************************************************************************)
EXTENDS Scheduler

CONSTANTS Client,        \* requests that can be in progress at the same time
          Embedded       \* jobs submitted by a Go program that runs the packages in its
                         \* own process and not over HTTP; none in "gq serve" alone

ASSUME ApiAssumption == Embedded \subseteq JobID

VARIABLES minted,   \* uuids already drawn by NewJob
          req       \* per client: the job and record of its pending Update

NoRequest == [job |-> NoID, write |-> NoJob]

ApiTypeOK ==
    /\ minted \subseteq JobID
    /\ req \in [Client -> [job : JobID, write : JobRec] \cup {NoRequest}]

ApiInit ==
    /\ minted = {}
    /\ req = [c \in Client |-> NoRequest]

\* A fresh job is handed to Create, which refuses one whose key is taken.
Submitted(j, rec) ==
    /\ j \notin minted
    /\ minted' = minted \cup {j}
    /\ IF CanCreate(j) THEN Create(j, rec) ELSE UNCHANGED storeVars
    /\ UNCHANGED <<schedVars, req>>

\* submitJob and each item of a batch: Create, and then Enqueue, which edits
\* the handler's copy; the store keeps a pending job whatever its delay.
Submit(j) ==
    /\ j \notin Embedded
    /\ Submitted(j, NewJob)

\* An application that runs the engine in its own process
\* (docs/PERFORMANCE_COMPARISON.md) calls Enqueue and JobStore.Create itself.
\* If it edits first and stores then, a deferred job is stored delayed, which
\* is what the delayed loop is there for.
CreateEmbedded(j) ==
    /\ j \in Embedded
    /\ Submitted(j, Enqueue(j))

DeleteJob(j) ==
    /\ Delete(j)
    /\ UNCHANGED <<schedVars, minted, req>>

\* Cancel's Get and decision.  Without a write to come the request only
\* answers the client: with an error for a terminal job, with success for a
\* running one that is not to be forced.
CancelGet(c, j, force) ==
    /\ req[c] = NoRequest
    /\ Exists(j)
    /\ Cancellable(jobs[j], force)
    /\ req' = [req EXCEPT ![c] = [job |-> j, write |-> CancelWrite(jobs[j])]]
    /\ UNCHANGED <<storeVars, schedVars, minted>>

\* Retry's Get and decision.
RetryGet(c, j, resetAttempts) ==
    /\ req[c] = NoRequest
    /\ Retryable(jobs[j])
    /\ req' = [req EXCEPT ![c] =
                 [job |-> j, write |-> RetryWrite(jobs[j], resetAttempts)]]
    /\ UNCHANGED <<storeVars, schedVars, minted>>

\* The Update that ends a cancel or a retry.
RequestUpdate(c) ==
    /\ req[c] # NoRequest
    /\ Update(req[c].job, req[c].write)
    /\ req' = [req EXCEPT ![c] = NoRequest]
    /\ UNCHANGED <<schedVars, minted>>

\* The Update fails and the client is told so.
RequestFails(c) ==
    /\ req[c] # NoRequest
    /\ req' = [req EXCEPT ![c] = NoRequest]
    /\ UNCHANGED <<storeVars, schedVars, minted>>
=============================================================================
