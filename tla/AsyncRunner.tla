----------------------------- MODULE AsyncRunner -----------------------------
(* AsyncScenarioRunner: every case of a batch runs in a task of its own (run),*)
(* which starts a worker task (_work), waits for the first of the worker, the *)
(* cancel event and the deadline, and hands the rest to a cleanup task with a *)
(* finite allowance of its own.  All tasks share one event loop, so an action *)
(* is what one task does between two awaits.  The clock is the only thing     *)
(* that moves inside such a step: an action that meets several checkpoints    *)
(* lets the deadline pass between them.                                       *)
(*                                                                            *)
(* The adapter factory, the limiter, adapter.send, the evaluator and          *)
(* adapter.aclose are callbacks of the user; those of the cases in Stubborn   *)
(* may swallow a cancellation and answer late or never.                       *)
EXTENDS ExecutionEvidence

CONSTANTS Cases,           \* the scenarios given to run_many
          MaxConcurrency,  \* the value of the runner's semaphore
          HasLimiter,      \* whether a limiter is configured
          HasQuality,      \* whether the scenario requires quality metrics
          OwnsAdapter,     \* owns_adapter
          RetrySafe,       \* adapter.retry_safe
          Stubborn         \* cases whose callbacks may suppress cancellation

ASSUME RunnerAssumption ==
    /\ IsFiniteSet(Cases)
    /\ MaxConcurrency \in Nat \ {0}
    /\ {HasLimiter, HasQuality, OwnsAdapter, RetrySafe} \subseteq BOOLEAN
    /\ Stubborn \subseteq Cases

VARIABLES
    run,         \* where the case's run() and its cleanup task are
    external,    \* the task of run() has been cancelled from outside
    worker,      \* the await the worker is suspended at
    outcome,     \* how the worker's task ended
    cancelling,  \* a CancelledError is on its way to the worker
    adapter,     \* state['adapter']
    permits,     \* free permits of the semaphore
    acquired,    \* state['acquired']
    status,      \* execution['status']
    unknown,     \* execution['effect_unknown']
    cleanup,     \* execution['cleanup_status']
    attempts,    \* execution['attempts']
    active,      \* position of state['active_attempt'] in attempts, 0 for None
    steps,       \* the status of each entry of result.steps
    quality,     \* result.quality_checks
    expired,     \* the case's deadline has passed
    cancelEvent  \* budget.cancel_event is set

taskVars   == <<worker, outcome, cancelling>>
permitVars == <<permits, acquired>>
recordVars == <<status, unknown, attempts, active, steps, quality>>
clockVars  == <<expired, cancelEvent>>
vars == <<run, external, taskVars, adapter, permitVars, recordVars, cleanup, clockVars>>

RunPlace  == {"start", "waiting", "cleanup", "draining", "closing", "closeDraining", "finished"}
Callbacks == {"init", "rate", "request", "evaluation"}
Awaits    == Callbacks \cup {"queue", "backoff"}
Verdicts  == {"ok", "deadline", "cancelled", "error"}

\* The types; permits within 0..MaxConcurrency also says that the semaphore is
\* never released more often than it was acquired, and active that a request
\* in flight has its record in the list.
TypeOK ==
    /\ run \in [Cases -> RunPlace]
    /\ external \in [Cases -> BOOLEAN]
    /\ worker \in [Cases -> Awaits \cup {"none", "ended"}]
    /\ outcome \in [Cases -> Verdicts \cup {"none"}]
    /\ cancelling \in [Cases -> BOOLEAN]
    /\ adapter \in [Cases -> {"none", "open", "closed"}]
    /\ permits \in 0..MaxConcurrency
    /\ acquired \in [Cases -> BOOLEAN]
    /\ status \in [Cases -> {"running"} \cup FinalStatus]
    /\ unknown \in [Cases -> BOOLEAN]
    /\ cleanup \in [Cases -> CleanupStatus]
    /\ attempts \in [Cases -> Seq(Attempt)]
    /\ active \in [Cases -> Nat]
    /\ \A c \in Cases : active[c] <= Len(attempts[c])
    /\ steps \in [Cases -> Seq(StepStatus)]
    /\ quality \in [Cases -> {"pending", "passed", "failed", "error"}]
    /\ expired \in [Cases -> BOOLEAN]
    /\ cancelEvent \in BOOLEAN

Init ==
    /\ run = [c \in Cases |-> "start"]
    /\ external = [c \in Cases |-> FALSE]
    /\ worker = [c \in Cases |-> "none"]
    /\ outcome = [c \in Cases |-> "none"]
    /\ cancelling = [c \in Cases |-> FALSE]
    /\ adapter = [c \in Cases |-> "none"]
    /\ permits = MaxConcurrency
    /\ acquired = [c \in Cases |-> FALSE]
    /\ status = [c \in Cases |-> "running"]
    /\ unknown = [c \in Cases |-> FALSE]
    /\ cleanup = [c \in Cases |-> "not_created"]
    /\ attempts = [c \in Cases |-> <<>>]
    /\ active = [c \in Cases |-> 0]
    /\ steps = [c \in Cases |-> <<>>]
    /\ quality = [c \in Cases |-> "pending"]
    /\ expired = [c \in Cases |-> FALSE]
    /\ cancelEvent \in BOOLEAN

------------------------------------------------------------------------------
(* The environment: the clock, the caller's cancel event, the caller that     *)
(* cancels run_many (and with it the task of every unfinished case).          *)

Expire(c) ==
    /\ run[c] = "waiting"
    /\ ~expired[c]
    /\ expired' = [expired EXCEPT ![c] = TRUE]
    /\ UNCHANGED <<run, external, taskVars, adapter, permitVars, recordVars, cleanup, cancelEvent>>

SetCancelEvent ==
    /\ ~cancelEvent
    /\ cancelEvent' = TRUE
    /\ UNCHANGED <<run, external, taskVars, adapter, permitVars, recordVars, cleanup, expired>>

CancelBatch ==
    /\ \E c \in Cases : run[c] # "finished" /\ ~external[c]
    /\ external' = [c \in Cases |-> external[c] \/ run[c] # "finished"]
    /\ UNCHANGED <<run, taskVars, adapter, permitVars, recordVars, cleanup, clockVars>>

------------------------------------------------------------------------------
(* The worker task.                                                           *)

\* Mutant: a checkpoint that does not look at the status run() has settled.
CheckpointIgnoringStatus(c, late) ==
    IF cancelEvent THEN "cancelled" ELSE IF late THEN "deadline" ELSE "ok"

\* What _checkpoint decides when it reads the clock as `late`: a case whose
\* status was already settled gets a CancelledError, which ends the worker the
\* way an explicit cancellation does.
Checkpoint(c, late) ==
    IF status[c] # "running" \/ cancelEvent THEN "cancelled"
    ELSE IF late THEN "deadline" ELSE "ok"

\* The readings of the clock at a later checkpoint of the same step.
Later(c) == {expired[c], TRUE}

ReadClock(c, late) == /\ expired' = [expired EXCEPT ![c] = late]
                      /\ UNCHANGED cancelEvent

Suspend(c, place) == /\ worker' = [worker EXCEPT ![c] = place]
                     /\ UNCHANGED <<outcome, cancelling>>

EndWorker(c, verdict) == /\ worker' = [worker EXCEPT ![c] = "ended"]
                         /\ outcome' = [outcome EXCEPT ![c] = verdict]
                         /\ cancelling' = [cancelling EXCEPT ![c] = FALSE]

\* Mutant: attempts numbered over the whole case, not per step.
NewAttemptOfCase(list, step) ==
    [step |-> step, number |-> Len(list) + 1, status |-> "started", unknown |-> FALSE]

NewAttempt(list, step) ==
    [step |-> step, number |-> Cardinality(AttemptsOn(list, step)) + 1,
     status |-> "started", unknown |-> FALSE]

\* The outcome written to the record of the attempt at position i.
Mark(list, i, verdict, lost) ==
    [list EXCEPT ![i] = [@ EXCEPT !.status = verdict, !.unknown = lost]]

\* The rest of one turn of _send's loop up to adapter.send: the record of the
\* attempt is appended before the request is sent.
Dispatch(c, list, step) ==
    /\ attempts' = [attempts EXCEPT ![c] = Append(list, NewAttempt(list, step))]
    /\ active' = [active EXCEPT ![c] = Len(list) + 1]
    /\ Suspend(c, "request")

NoAttempt(c, list) == /\ attempts' = [attempts EXCEPT ![c] = list]
                      /\ active' = [active EXCEPT ![c] = 0]

\* The top of the loop: a checkpoint, then the limiter if there is one.
NextAttempt(c, list, step, late) ==
    LET verdict == Checkpoint(c, late) IN
    \/ verdict # "ok" /\ NoAttempt(c, list) /\ EndWorker(c, verdict)
    \/ verdict = "ok" /\ HasLimiter /\ NoAttempt(c, list) /\ Suspend(c, "rate")
    \/ verdict = "ok" /\ ~HasLimiter /\ Dispatch(c, list, step)

CurrentStep(c) == Len(steps[c]) + 1

Resumes(c, place) == worker[c] = place /\ ~cancelling[c]

AcquirePermit(c) ==
    /\ Resumes(c, "queue")
    /\ permits > 0
    /\ permits' = permits - 1
    /\ acquired' = [acquired EXCEPT ![c] = TRUE]
    /\ LET verdict == Checkpoint(c, expired[c]) IN
       IF verdict = "ok" THEN Suspend(c, "init") ELSE EndWorker(c, verdict)
    /\ UNCHANGED <<run, external, adapter, recordVars, cleanup, clockVars>>

\* The factory's adapter is kept before the checkpoint, so that cleanup closes
\* one that arrives too late.  An adapter without an async send is an error.
InitReturns(c, native, late) ==
    /\ Resumes(c, "init")
    /\ adapter' = [adapter EXCEPT ![c] = "open"]
    /\ LET verdict == Checkpoint(c, expired[c]) IN
       \/ /\ verdict # "ok" \/ ~native
          /\ EndWorker(c, IF verdict # "ok" THEN verdict ELSE "error")
          /\ UNCHANGED <<attempts, active, clockVars>>
       \/ /\ verdict = "ok" /\ native
          /\ NextAttempt(c, attempts[c], CurrentStep(c), late)
          /\ ReadClock(c, late)
    /\ UNCHANGED <<run, external, permitVars, status, unknown, steps, quality, cleanup>>

RateReturns(c) ==
    /\ Resumes(c, "rate")
    /\ LET verdict == Checkpoint(c, expired[c]) IN
       IF verdict = "ok"
       THEN Dispatch(c, attempts[c], CurrentStep(c))
       ELSE EndWorker(c, verdict) /\ UNCHANGED <<attempts, active>>
    /\ UNCHANGED <<run, external, adapter, permitVars, status, unknown, steps, quality,
                   cleanup, clockVars>>

BackoffEnds(c) ==
    /\ Resumes(c, "backoff")
    /\ NextAttempt(c, attempts[c], CurrentStep(c), expired[c])
    /\ UNCHANGED <<run, external, adapter, permitVars, status, unknown, steps, quality,
                   cleanup, clockVars>>

\* The end of _work: nothing is awaited any more.
Finalize(c, late) ==
    LET verdict == Checkpoint(c, late) IN
    /\ EndWorker(c, verdict)
    /\ status' = IF verdict = "ok" THEN [status EXCEPT ![c] = "completed"] ELSE status

\* A usable response: the attempt is completed and the step recorded in the
\* same turn of the event loop, then the worker goes on to the next step, to
\* the evaluation or to the end.
Answered(c, verdict, late) ==
    LET list == Mark(attempts[c], active[c], "completed", FALSE)
        last == CurrentStep(c) = ExpectedSteps
    IN  /\ steps' = [steps EXCEPT ![c] = Append(@, verdict)]
        /\ ReadClock(c, late)
        /\ \/ ~last /\ NextAttempt(c, list, CurrentStep(c) + 1, late) /\ UNCHANGED status
           \/ /\ last /\ HasQuality
              /\ NoAttempt(c, list)
              /\ UNCHANGED status
              /\ LET gate == Checkpoint(c, late) IN
                 IF gate = "ok" THEN Suspend(c, "evaluation") ELSE EndWorker(c, gate)
           \/ last /\ ~HasQuality /\ NoAttempt(c, list) /\ Finalize(c, late)

\* adapter.send returns: a late or a malformed response leaves the attempt
\* active, for _abort to mark.
RequestReturns(c, response, late) ==
    /\ Resumes(c, "request")
    /\ LET verdict == Checkpoint(c, expired[c]) IN
       \/ /\ verdict # "ok" \/ response = "malformed"
          /\ EndWorker(c, IF verdict # "ok" THEN verdict ELSE "error")
          /\ UNCHANGED <<status, attempts, active, steps, clockVars>>
       \/ verdict = "ok" /\ response # "malformed" /\ Answered(c, response, late)
    /\ UNCHANGED <<run, external, adapter, permitVars, unknown, quality, cleanup>>

\* Mutant: retry_safe alone decides, whatever became of the request.
MayRetryLostRequest(c, retryable, lost) ==
    RetrySafe /\ retryable /\ attempts[c][active[c]].number < MaxAttempts

\* The condition under which a failed request is sent again.
MayRetry(c, retryable, lost) ==
    RetrySafe /\ retryable /\ ~lost /\ attempts[c][active[c]].number < MaxAttempts

\* adapter.send raises AsyncApplicationAdapterError: no checkpoint is passed
\* before the outcome is recorded, however late the error is.
RequestFails(c, retryable, lost) ==
    /\ Resumes(c, "request")
    /\ attempts' = [attempts EXCEPT ![c] = Mark(@, active[c], "error", lost)]
    /\ unknown' = [unknown EXCEPT ![c] = @ \/ lost]
    /\ active' = [active EXCEPT ![c] = 0]
    /\ IF MayRetry(c, retryable, lost)
       THEN Suspend(c, "backoff")
       ELSE EndWorker(c, "error")
    /\ UNCHANGED <<run, external, adapter, permitVars, status, steps, quality, cleanup, clockVars>>

\* Any other exception of a callback ends the worker; the evaluator's are
\* turned into a quality result by run_async_quality_callback.
CallbackRaises(c) ==
    /\ \E place \in Callbacks \ {"evaluation"} : Resumes(c, place)
    /\ EndWorker(c, "error")
    /\ UNCHANGED <<run, external, adapter, permitVars, recordVars, cleanup, clockVars>>

EvaluationReturns(c, result, late) ==
    /\ Resumes(c, "evaluation")
    /\ LET verdict == Checkpoint(c, expired[c]) IN
       \/ /\ verdict # "ok"
          /\ EndWorker(c, verdict)
          /\ UNCHANGED <<status, quality, clockVars>>
       \/ /\ verdict = "ok"
          /\ quality' = [quality EXCEPT ![c] = result]
          /\ Finalize(c, late)
          /\ ReadClock(c, late)
    /\ UNCHANGED <<run, external, adapter, permitVars, unknown, attempts, active, steps, cleanup>>

\* CancelledError reaches the worker: the one asked for, or one a callback
\* raises by itself.
WorkerCancelled(c) ==
    /\ \/ cancelling[c] /\ worker[c] \in Awaits
       \/ worker[c] \in Callbacks
    /\ EndWorker(c, "cancelled")
    /\ UNCHANGED <<run, external, adapter, permitVars, recordVars, cleanup, clockVars>>

\* A callback swallows the CancelledError and stays where it is.
Suppress(c) ==
    /\ c \in Stubborn
    /\ worker[c] \in Callbacks /\ cancelling[c]
    /\ cancelling' = [cancelling EXCEPT ![c] = FALSE]
    /\ UNCHANGED <<run, external, worker, outcome, adapter, permitVars, recordVars, cleanup, clockVars>>

------------------------------------------------------------------------------
(* run() and its cleanup task.                                                *)

\* worker.cancel(), without effect on a task that has ended.
CancelWorker(c) ==
    /\ cancelling' = [cancelling EXCEPT ![c] = @ \/ worker[c] \in Awaits]
    /\ UNCHANGED <<worker, outcome>>

\* Mutant: idempotency is taken for knowledge of the outcome.
UnknownAfterAbortIfUnsafe(c) == active[c] # 0 /\ ~RetrySafe

\* Whether _abort interrupts a request whose outcome nobody knows.
UnknownAfterAbort(c) == active[c] # 0

\* _abort: an attempt that is still active has been dispatched, and whatever
\* the adapter promises its effect is not known.
Abort(c, verdict) ==
    /\ status' = [status EXCEPT ![c] = verdict]
    /\ IF active[c] = 0
       THEN UNCHANGED <<attempts, unknown>>
       ELSE /\ attempts' = [attempts EXCEPT ![c] =
                                Mark(@, active[c], verdict, UnknownAfterAbort(c))]
            /\ unknown' = [unknown EXCEPT ![c] = @ \/ UnknownAfterAbort(c)]
    /\ steps' = IF Len(steps[c]) < ExpectedSteps
                THEN [steps EXCEPT ![c] = Append(@, "error")] ELSE steps
    /\ quality' = [quality EXCEPT ![c] = "pending"]
    /\ UNCHANGED active

\* A case that finds the cancel event set starts no worker.
Start(c) ==
    /\ run[c] = "start" /\ ~external[c]
    /\ IF cancelEvent
       THEN /\ run' = [run EXCEPT ![c] = "cleanup"]
            /\ Abort(c, "cancelled")
            /\ UNCHANGED worker
       ELSE /\ run' = [run EXCEPT ![c] = "waiting"]
            /\ worker' = [worker EXCEPT ![c] = "queue"]
            /\ UNCHANGED recordVars
    /\ UNCHANGED <<external, outcome, cancelling, adapter, permitVars, cleanup, clockVars>>

\* A task cancelled before its first step never enters run().
Abandon(c) ==
    /\ run[c] = "start" /\ external[c]
    /\ run' = [run EXCEPT ![c] = "finished"]
    /\ UNCHANGED <<external, taskVars, adapter, permitVars, recordVars, cleanup, clockVars>>

\* Mutant: asyncio.wait without the timeout.
AwakenedWithoutTimeout(c) == worker[c] = "ended" \/ cancelEvent

\* What ends asyncio.wait.
Awakened(c) == worker[c] = "ended" \/ cancelEvent \/ expired[c]

\* Mutant: the result of a worker that has ended counts first.
WakeVerdictOfWorker(c) ==
    IF worker[c] = "ended" THEN outcome[c]
    ELSE IF cancelEvent THEN "cancelled" ELSE "deadline"

\* The cancel event is looked at first, then the clock, and the worker's own
\* result last.
WakeVerdict(c) == IF cancelEvent THEN "cancelled"
                  ELSE IF expired[c] THEN "deadline" ELSE outcome[c]

\* run() resumes from asyncio.wait.  worker.cancel() does nothing to a worker
\* that has ended.
Wake(c) ==
    /\ run[c] = "waiting" /\ ~external[c]
    /\ Awakened(c)
    /\ run' = [run EXCEPT ![c] = "cleanup"]
    /\ CancelWorker(c)
    /\ IF WakeVerdict(c) = "ok" THEN UNCHANGED recordVars ELSE Abort(c, WakeVerdict(c))
    /\ UNCHANGED <<external, adapter, permitVars, cleanup, clockVars>>

\* The CancelledError of an outside cancellation is raised at the wait.
Interrupted(c) ==
    /\ run[c] = "waiting" /\ external[c]
    /\ run' = [run EXCEPT ![c] = "cleanup"]
    /\ CancelWorker(c)
    /\ Abort(c, "cancelled")
    /\ UNCHANGED <<external, adapter, permitVars, cleanup, clockVars>>

BeginCleanup(c) ==
    /\ run[c] = "cleanup"
    /\ run' = [run EXCEPT ![c] = "draining"]
    /\ CancelWorker(c)
    /\ UNCHANGED <<external, adapter, permitVars, recordVars, cleanup, clockVars>>

\* Mutants: the permit goes back while the worker may still run; a permit is
\* given back that was never taken; the permit goes back only where cleanup
\* fails; an unresponsive case keeps its verdict.
PermitDueAlways(c, result) == acquired[c]
PermitDueUnowned(c, result) == result # "unresponsive"
PermitDueOnFailure(c, result) == acquired[c] /\ result \in {"timeout", "error"}
SpoilsTheCaseUnlessUnresponsive(result) == result \in {"timeout", "error"}

PermitDue(c, result) == acquired[c] /\ result # "unresponsive"

\* The cleanup results that make an error of any earlier verdict.
SpoilsTheCase(result) == result \in {"timeout", "unresponsive", "error"}

\* The end of _cleanup: the permit goes back unless the case is unresponsive.
Finish(c, result) ==
    /\ run' = [run EXCEPT ![c] = "finished"]
    /\ cleanup' = [cleanup EXCEPT ![c] = result]
    /\ status' = IF SpoilsTheCase(result)
                 THEN [status EXCEPT ![c] = "error"] ELSE status
    /\ IF PermitDue(c, result)
       THEN permits' = permits + 1 /\ acquired' = [acquired EXCEPT ![c] = FALSE]
       ELSE UNCHANGED permitVars
    /\ UNCHANGED <<external, taskVars, unknown, attempts, active, steps, quality, clockVars>>

\* Mutant: the ownership test inverted.
MustCloseBorrowed(c) == adapter[c] # "none" /\ ~OwnsAdapter

MustClose(c) == adapter[c] # "none" /\ OwnsAdapter

\* The worker is gone: close the adapter, if there is one and it is owned.
Drained(c) ==
    /\ run[c] = "draining"
    /\ worker[c] \in {"none", "ended"}
    /\ IF MustClose(c)
       THEN /\ run' = [run EXCEPT ![c] = "closing"]
            /\ UNCHANGED <<external, taskVars, permitVars, recordVars, cleanup, clockVars>>
       ELSE Finish(c, IF adapter[c] = "none" THEN "not_created" ELSE "borrowed")
    /\ UNCHANGED adapter

\* The allowance runs out first.  A cooperative worker ends within it.
DrainExpires(c) ==
    /\ c \in Stubborn
    /\ run[c] = "draining" /\ worker[c] \in Awaits \ {"queue"}
    /\ Finish(c, "unresponsive")
    /\ UNCHANGED adapter

CloseReturns(c) ==
    /\ run[c] = "closing"
    /\ adapter' = [adapter EXCEPT ![c] = "closed"]
    /\ Finish(c, "closed")

\* aclose raises, is not asynchronous, or cancels itself.
CloseFails(c) ==
    /\ run[c] = "closing"
    /\ Finish(c, "error")
    /\ UNCHANGED adapter

CloseStalls(c) ==
    /\ run[c] = "closing"
    /\ run' = [run EXCEPT ![c] = "closeDraining"]
    /\ UNCHANGED <<external, taskVars, adapter, permitVars, recordVars, cleanup, clockVars>>

CloseAbandoned(c) ==
    /\ run[c] = "closeDraining"
    /\ \/ Finish(c, "timeout")
       \/ c \in Stubborn /\ Finish(c, "unresponsive")
    /\ UNCHANGED adapter

------------------------------------------------------------------------------
WorkerStep(c) ==
    \/ AcquirePermit(c)
    \/ \E native \in BOOLEAN, late \in Later(c) : InitReturns(c, native, late)
    \/ RateReturns(c)
    \/ BackoffEnds(c)
    \/ \E response \in {"passed", "failed", "malformed"}, late \in Later(c) :
           RequestReturns(c, response, late)
    \/ \E retryable, lost \in BOOLEAN : RequestFails(c, retryable, lost)
    \/ CallbackRaises(c)
    \/ \E result \in {"passed", "failed", "error"}, late \in Later(c) :
           EvaluationReturns(c, result, late)
    \/ WorkerCancelled(c)
    \/ Suppress(c)

RunnerStep(c) ==
    \/ Start(c) \/ Abandon(c) \/ Wake(c) \/ Interrupted(c)
    \/ BeginCleanup(c) \/ Drained(c) \/ DrainExpires(c)
    \/ CloseReturns(c) \/ CloseFails(c) \/ CloseStalls(c) \/ CloseAbandoned(c)

Next ==
    \/ SetCancelEvent
    \/ CancelBatch
    \/ \E c \in Cases : Expire(c) \/ WorkerStep(c) \/ RunnerStep(c)

Spec == Init /\ [][Next]_vars

\* The event loop runs what is ready, the clock advances and a cancellation is
\* delivered; nothing is assumed of the callbacks or of the caller.
Fairness ==
    \A c \in Cases :
        /\ WF_vars(RunnerStep(c))
        /\ WF_vars(Expire(c))
        /\ WF_vars(cancelling[c] /\ (WorkerCancelled(c) \/ Suppress(c)))

FairSpec == Spec /\ Fairness

------------------------------------------------------------------------------
(* What the runner promises.                                                  *)

Holders == {c \in Cases : acquired[c]}
Working == {c \in Cases : worker[c] \in Awaits \ {"queue"}}

\* ScenarioRunResult.complete.
Complete(c) ==
    /\ Len(steps[c]) = ExpectedSteps
    /\ \A s \in DOMAIN steps[c] : steps[c][s] # "error"
    /\ HasQuality => quality[c] \in {"passed", "failed"}
    /\ ExecutionComplete(status[c], unknown[c], cleanup[c])

\* What run() returned, NoResult while it has not returned a result: it raises
\* CancelledError instead if it was cancelled from outside.
Returned(c) == run[c] = "finished" /\ ~external[c]

\* Every permit is either free or held by a case: none is lost or made up,
\* whichever of cancellation, deadline and cleanup failure ends a case.
PermitAccounting == permits + Cardinality(Holders) = MaxConcurrency

\* max_concurrency bounds the work that is really going on, that of workers
\* which outlived their case because a callback ignored its cancellation
\* included: their permits are kept.
BoundedWork == /\ Working \subseteq Holders
               /\ Cardinality(Working) <= MaxConcurrency

\* A permit that never comes back is reported: the case that keeps it has
\* finished as an unresponsive error, and no other case keeps one.
LeakIsReported ==
    \A c \in Cases : run[c] = "finished" /\ acquired[c] =>
        cleanup[c] = "unresponsive" /\ status[c] = "error"

\* The strengthening of the three that every step preserves: a worker past the
\* queue holds the permit of its case, one before it does not, and cleanup
\* reaches the adapter only after the worker has gone.
PermitInv ==
    /\ PermitAccounting
    /\ LeakIsReported
    /\ \A c \in Cases :
           /\ worker[c] \in Awaits \ {"queue"} => acquired[c]
           /\ worker[c] \in {"none", "queue"} => ~acquired[c]
           /\ worker[c] = "ended" => outcome[c] # "none"
           /\ run[c] = "start" => worker[c] = "none"
           /\ run[c] \in {"closing", "closeDraining"} => worker[c] \in {"none", "ended"}
           /\ run[c] = "finished" => worker[c] # "queue"

\* The evidence of every result run() returns is evidence the reader accepts,
\* and remains so when a worker that outlived the case writes to it.
EvidenceAccepted ==
    \A c \in Cases : Returned(c) =>
        ValidExecution(status[c], unknown[c], cleanup[c], attempts[c], steps[c])

\* A complete result leaves nothing behind: the worker has ended, the adapter
\* is closed if it is owned, and every request sent was answered or is known
\* to have failed.
CompleteMeansSettled ==
    \A c \in Cases : Returned(c) /\ Complete(c) =>
        /\ worker[c] = "ended" /\ ~acquired[c]
        /\ adapter[c] = IF OwnsAdapter THEN "closed" ELSE "open"
        /\ \A i \in DOMAIN attempts[c] :
               ~attempts[c][i].unknown /\ attempts[c][i].status \in {"completed", "error"}

\* A case that finished while a request of its was in the air says that its
\* effect is unknown, and goes on saying so when the request ends after all.
OutstandingIsUnknown ==
    \A c \in Cases : run[c] = "finished" =>
        \/ unknown[c]
        \/ /\ worker[c] # "request"
           /\ \A i \in DOMAIN attempts[c] : attempts[c][i].status \in {"completed", "error"}

\* An interrupted case is over: no request is dispatched, no step is added and
\* no quality result is stored for it by a callback that answers late.
Interruption(c) == status[c] \in {"deadline", "cancelled", "error"}
EvidenceFrozen ==
    [][\A c \in Cases : Interruption(c) =>
          /\ Len(attempts'[c]) = Len(attempts[c])
          /\ steps'[c] = steps[c]
          /\ quality'[c] = quality[c]]_vars

\* A case whose deadline had passed, or whose cancel event was set, when run()
\* resumed is never complete, even if its worker had finished by then.
CancelWins ==
    [][\A c \in Cases : run[c] = "waiting" /\ run'[c] # "waiting" =>
          (status'[c] = "completed" => ~cancelEvent /\ ~expired[c] /\ ~external[c])]_vars

\* Every case finishes, whatever its callbacks do: the deadline bounds the
\* work and the allowance bounds the cleanup.
EveryCaseFinishes == \A c \in Cases : <>(run[c] = "finished")

\* What the test test_request_returning_after_cancellation_cannot_rewrite_
\* interrupted_evidence says of a case ended by its deadline: the attempt that
\* was recorded as interrupted by the deadline stands.
InterruptedAttemptStands ==
    [][\A c \in Cases : \A i \in DOMAIN attempts[c] :
          status[c] = "deadline" /\ attempts[c][i].status = "deadline" =>
              attempts'[c][i] = attempts[c][i]]_vars

Verdict == INSTANCE CaseVerdict WITH
    verdict  <- [c \in Cases |->
                    IF run[c] # "finished" THEN "none"
                    ELSE IF external[c] THEN "raised"
                    ELSE IF Complete(c) THEN "complete" ELSE "incomplete"],
    inFlight <- Holders

\* The runner implements CaseVerdict: one final verdict per case, given with
\* its permit, and a permit withheld only from cases that are not complete.
ImplementsVerdict == Verdict!Spec
==============================================================================
