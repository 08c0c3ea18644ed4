# FlowPilot: TLA+ models and proofs

FlowPilot accepts workflows (DAGs of jobs) over HTTP, stores them in SQLite, keeps their
runtime state in Redis, and runs their jobs with schedulers, worker threads, completion
handlers and a retry handler. This directory holds TLA+ models of its admission and execution
layers and of the lifecycle of its threads, the TLC runs that check them, and TLAPS proofs about
the execution layer and the lifecycle.

## Inventory

| Part | State | Operations | Talks to |
|---|---|---|---|
| Admission service | Redis request keys, active set, rate buckets; SQLite request, workflow and job rows | submit, reject, accept | Redis, SQLite |
| Workflow validation | the DAG being built | policy, semantic, dependency checks | admission |
| Runtime generation | Redis hashes, payloads, execution queue | create, publish, clean up | Redis, SQLite |
| Redis runtime state | workflow and job hashes, waiting set, execution queue, retry set | Lua scripts: claim, start, complete, fail, retry, promote | all actors |
| Scheduler | local queue of capacity N | pop, claim, check payload, dispatch | Redis, workers |
| Worker | the job it holds | start, execute, report | Redis, SQLite, stream |
| Completion handler | message, snapshot of the workflow | complete, fail, retry, clean up, repair | Redis, SQLite |
| Retry handler | the due job | dequeue, promote | Redis, SQLite |
| SQLite | workflow, job and request rows | status writes, each call may fail | |
| Runtime manager | vectors of schedulers and handlers, I/O context and threads | start, add, remove, shut down | all components |
| HTTP server, Redis client, configuration, logger | | | not modelled, see below |

What makes it hard: Redis and SQLite are written one after the other without a common
transaction; several handlers work on one workflow from snapshots; a script may run although
its reply is lost; hashes are deleted while calls are on their way; the key that detects
duplicate requests expires; threads that block and coroutines that need a thread share the I/O
context, and components are destroyed while jobs pass through them.

## Modules

| Module | What it models |
|---|---|
| `WorkflowRuntime` | the Redis state of one workflow, one operator per script or command |
| `Execution` | schedulers, workers, completion handlers and the retry handler around it, with SQLite |
| `ExecutionProperties` | fairness and properties |
| `ExecutionInvariant` | the inductive invariant `IInv` |
| `SlotAllocation`, `ExecutionRefinement` | the abstract pool of execution slots, and how `Execution` maps to it |
| `MCExecution` | instances: `Pair` (two independent jobs), `Fan`, `Meet`, `Join`, `Gather` |
| `DagValidation`, `MCDagValidation` | validation of a definition, Kahn's algorithm against a reference |
| `Admission`, `AdmissionProperties`, `MCAdmission` | concurrent submissions of one client |
| `Lifecycle`, `LifecycleProperties`, `MCLifecycle` | the runtime manager, main loops on I/O threads, worker threads and their bounded queue |
| `RuntimeLemmas`, `ActorSteps`, `ChannelSteps`, `CallSteps`, `LoopProofs`, `HandlerProofs`, `ExecutionProofs` | proofs about `Execution` |
| `LifecycleProofs` | proofs about `Lifecycle` |

A step of an actor is the code up to and including its next Redis or SQLite call; `pc` names
that call, and where the rest of a function is a fixed sequence of calls, `calls` holds it.
A definition preceded by "Mutant of X" is a deliberately wrong form of `X`, used to see that
the properties notice it.

`Lifecycle` looks at the same schedulers and workers from the side of threads. A main loop is a
coroutine: it takes a step only while the I/O context runs and an I/O thread is free, and a
scheduler that pushes into its full queue keeps its I/O thread until there is room or the queue
is closed. A worker is a thread, but starting and reporting a job are coroutines it waits for.
`shutdown()` and the remove calls are followed through each wait of a destructor. A job is only
where it is; what it does to its workflow is in `Execution`.

Abstractions. A sorted set is a set: the score is the priority, or a deadline any job may
reach. Timestamps, `owned_by`, `pending_jobs`, `failed_jobs` are left out, since nothing in the
modelled code reads them. Whether a job succeeds and whether a time limit has passed are
choices (`execute_job` is a placeholder that always succeeds; the code around it handles both
results). One workflow executes, starting just after its jobs were published; workflows share
only the queues. Each SQLite call is atomic. The deletions of all job hashes in the cleanup
are one step. In `Admission` the rows of a workflow's jobs are one value, the validation result
is a choice, and the execution of a workflow is reduced to what admission can see of it; the
Redis calls that take back a failed runtime generation may fail like any other. In
`DagValidation` the limits on one job are two flags. In `Lifecycle` the main loop of a handler
only ends (its work leaves the I/O threads free), a stop request is one step, waiting on a
condition variable is a guard, and a job is over when it is reported or its claim was refused.

Faults (constant `Faults`): a payload that is missing, a SQLite call that fails, a Redis call
that fails (executed or not), a job or a workflow that exceeds its time limit.

## Runs

Passing:

| Run | Instance | Shows |
|---|---|---|
| `OneHandler` | `Join`, limit 2, no faults, fairness | exact count of finished jobs, failure propagation, every workflow is released |
| `TwoHandlers` | `Gather` with 5 jobs, limit 3, 2 handlers, no faults | exact slots, somebody always holds one, dependencies, results survive racing handlers, the cleanup comes when nothing is in flight and revives nothing |
| `Faults` | `Pair`, limit 1, 1 worker, 2 handlers, every fault | `IInv`, the concurrency limit, the slot bound, terminal jobs never run again, the abstract pool is implemented |
| `DagValidation` | 1,934 definitions over 3 ids and an undefined one | the verdict equals the reference, runtime data match the DAG |
| `Admission` | 3 submissions, shared ids, SQLite fails, fairness | ids admitted once, limit of active workflows, no leaked place or hash, every place is given back |
| `AdmissionLossy` | a workflow submitted twice, one request per 2 seconds, Redis and SQLite fail | the rate window is exact, and what else survives lost replies |
| `Lifecycle` | 2 schedulers with 1 worker and a queue of 1, 2 completion handlers, 3 jobs, 3 I/O threads | nothing is destroyed in use, every job in progress is in one place, a scheduler told to stop gives up at most one job, the queue is bounded |
| `Drain` | the same with 1 completion handler, fairness | jobs handed over are reported, remove calls and `shutdown()` return |

Disagreements with what the repository says of itself (quotations in `PROJECT.json`):

| Run | The code | The text |
|---|---|---|
| `Standstill` | with as many pushing schedulers as I/O threads (1 and 1, the defaults) everyone waits for everyone until `shutdown()` | ARCHITECTURE 43, 871 |
| `RetryRace` | a retry decided on a stale snapshot leaves the workflow unfinished (2 handlers) | ARCHITECTURE 449 |
| `WorkflowRow` | a late RUNNING replaces the FAILED of the workflow in SQLite | ARCHITECTURE 436 |
| `DuplicateWorkflow` | a rejection fails the row of a workflow it does not own | redis_db_async_admission.cpp 108 |

TLC finds ten more when the property is checked on the instance given; they have no run of
their own:

| Property | Instance | The code | The text |
|---|---|---|---|
| `EventuallyReleased` | `Pair`, limit 1, fault `payload`, fairness | a payload failure before the first job starts never ends the workflow | ARCHITECTURE 387, 449 |
| `CompletedKept` | `Pair`, limit 2, fault `sqlite` | a SQLite failure makes a recorded completion a failure | ARCHITECTURE 910 |
| `Removing # {} ~> Removing = {}` | `Drain` | `shutdown()` stops the I/O context a remove call still waits on; the call never returns and its jobs stay behind | ARCHITECTURE 323 |
| `FailurePropagated` | `Pair`, limit 1, fault `workflow_expiry` | the time limit fails the workflow but not its waiting jobs | README 177 |
| `ImmediatePromotion` | `Fan`, limit 2 | one promotion per completion, although more slots are free | ARCHITECTURE 958 |
| `SlotEquation` | `Pair`, limit 2 | slots of canceled jobs are not given back | ARCHITECTURE 427, 908 |
| `JobsEventuallyRecorded` | `Pair`, limit 1, fairness | a late QUEUED or READY replaces a terminal SQLite status | ARCHITECTURE 445 |
| `NothingReappears` | `TwoHandlers` | a handler's late ABORTED write, after another handler's cleanup, recreates the hash of a job, which nothing deletes any more | ARCHITECTURE 451 |
| `NothingLost` | `Lifecycle` | a scheduler removed between popping a job and handing it over drops it, PENDING_EXECUTION for ever | ARCHITECTURE 913 |
| `AuditTrailDecided` | `Admission` | a rejection at the persist stage leaves the request RECEIVED | README 134 |

`NothingReappears` holds with one handler (`OneHandler`); with several, `NothingRevived` says what
can come back and what cannot. With faults more can: a start script on a deleted workflow recreates
it when failures let the cleanup run early.

One text errs the other way. ARCHITECTURE 455 says that with several handlers counter updates may
be lost; the code it describes has been replaced by atomic scripts, and `TwoHandlers` finds the
slot counter exact.

Bounds. Two jobs and a limit of one force waiting and promotion; `Join` has a job with two
predecessors, `Gather` one with three; retries of one let a job fail, retry, and fail for good.
A late write after a cleanup takes two handlers and three attempts in flight: one fails the
workflow, one is between its script and its write, and one ends the workflow; hence the limit of
3 in `TwoHandlers`, and a job more to wait for a slot. It has one worker: the attempts
that race are those reported, on the stream or with a handler. With four independent jobs TLC
passes the same properties with two workers (891,852 states) and with two schedulers (1,912,200).
Three submissions give every
pair of colliding ids plus a third that meets the result. Three jobs are what it takes to fill a
worker, its queue of one and a blocked push. Retry counts, buckets and ages are
finite by construction; no state constraint is used. Symmetry is used only in runs without
liveness. `CHECK_DEADLOCK FALSE`: a workflow, a validation, a set of submissions and a process
end.

Fairness. Weak fairness per actor: coroutines are resumed by the I/O threads, workers are
threads, a started job ends (the executor sleeps and returns), retry deadlines pass. In
`Admission` also that a published workflow is executed to its end, which `OneHandler` checks as
`EventuallyReleased`; one condition for all submissions and one for all executions are enough,
as both are finite. In `Lifecycle` one condition for everything that goes on by itself: no step
can be undone, so if any thread that can go on eventually does, all do. Nobody is obliged to
start, add, remove or shut down. `Drain` has one I/O thread more than schedulers; `Standstill`
shows that this is needed for draining (`shutdown()` returns even without it: it closes the queue).

## Proofs

`ExecutionProofs` proves, for every finite set of jobs, every dependency relation, limit, set
of actors and set of faults (TLC checks `IInv` on `Pair` in `Faults`, and also passes it on `Meet`,
a job with two predecessors, limit 2, one handler, every fault: 752,711 states):

- `InvariantHolds`: `Spec => []IInv`;
- `TypeCorrect`, `ConcurrencyLimitHolds`, `SlotsCoverActiveHolds`, which follow from it;
- `RefinesSlotAllocation`: `Execution` implements `SlotAllocation`. The pool's slot holders are
  the jobs `QUEUED`, `PENDING_EXECUTION` or `RUNNING`; a job is over when it is finished or, in a
  workflow that ended, holds no slot. Each action maps to a grant of at most one slot (`Grants`).

The assumptions are those on the constants in `WorkflowRuntime` and `Execution`. The limit is
not inductive alone: a script that frees a slot is right only if the job it is called for holds
one. `IInv` therefore says where every job with a slot is (`QueuesMatchStatus`,
`SchedulersMatchStatus`, `WorkersMatchStatus`, `OutcomesMatchStatus`), that it is in one place
only (`OnePop`, `OneRetry`, `OneCarrier`, `OneEntry`), and that calls still to be made cannot
touch it (`CallsOK`). Once the workflow has ended the places are not tracked: nothing is
promoted any more, so the number of slot holders only falls (`NoSlotFromClaim`).

`RuntimeLemmas` has the effect of each script, `ActorSteps` and `ChannelSteps` what a step of
one actor leaves in place, `LoopProofs`, `HandlerProofs` and `CallSteps` one lemma per action.

`LifecycleProofs` proves, for any number of components, workers, I/O threads and jobs and any
capacity, `LifecycleTypeCorrect` (types, and the capacity of the worker queue) and
`DestroyedAfterUseHolds`. Destruction only waits for main loops and workers; that no job is left
behind needs `Ownership`: a loop or worker holds a job exactly between taking it and handing it
on, and a worker ends only on a closed, drained queue, to which nothing can be added any more.

Only model-checked: liveness (out of the prover's reach), the exact slot count without faults,
the action properties, `JobsAccounted`, and everything about admission and
validation.

## Not modelled

- The Redis wire protocol and connections (a call is one step that may fail), the HTTP layer
  (read-only queries around `submit_workflow`; list, delete and cancel answer 501), client
  configuration (constants here), logging, keys and factories. `handle_job_canceled` is never
  called.
- The SQLite connection all pool threads share: each call is atomic here. Whether the statements
  of one call fall into another's transaction is decided by the library's locking, not by code
  of this repository.
- `notify_all` after the unlock in `mark_main_loop_finished` (scheduler.cpp 173,
  completion_handler.cpp 134, retry_handler.cpp 83): the destructor may run in between and destroy
  the condition variable. A main loop ends in one step of `Lifecycle`, so this is not visible there.
- Several executing workflows at once: they share only queues and threads, which `Execution` and
  `Lifecycle` each cover for one workflow and for jobs without one.
- Restart of the process: nothing in the code recovers workflows in progress; the documents defer
  it to a health monitor.
