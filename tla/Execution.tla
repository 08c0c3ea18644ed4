----------------------------- MODULE Execution -----------------------------
(***************************************************************************)
(* The execution of one workflow: schedulers pop jobs from Redis and hand  *)
(* them to their workers through a bounded local queue, workers run them   *)
(* and report on the completion stream, completion handlers consume the    *)
(* stream, and the retry handler returns delayed jobs to execution.        *)
(*                                                                         *)
(* An actor is a coroutine or a thread.  It can be interrupted at every    *)
(* Redis or SQLite call, so a step of an actor is the code up to and       *)
(* including its next call that changes or reads shared state.  pc is the  *)
(* call an actor is about to make; where the rest of a function is a fixed *)
(* sequence of calls, calls holds the ones still to be made.               *)
(***************************************************************************)
EXTENDS WorkflowRuntime, Sequences

CONSTANTS
  Schedulers, Workers, Handlers, RetryHandlers,
  SchedulerOf,    \* SchedulerOf[w]: the scheduler worker w belongs to
  QueueCapacity,  \* capacity of a scheduler's local worker queue
  Faults          \* what may go wrong in this instance

Procs == Schedulers \cup Workers \cup Handlers \cup RetryHandlers

\* payload: a payload is missing or has the wrong size; sqlite: a SQLite call
\* fails; redis: a Redis call fails, executed or not; job_expiry: a job runs
\* longer than its timeout; workflow_expiry: the workflow than its own.
FaultKinds == {"payload", "sqlite", "redis", "job_expiry", "workflow_expiry"}

ASSUME ActorsAssumption ==
  /\ Schedulers \cap Workers = {}
  /\ Schedulers \cap Handlers = {}
  /\ Schedulers \cap RetryHandlers = {}
  /\ Workers \cap Handlers = {}
  /\ Workers \cap RetryHandlers = {}
  /\ Handlers \cap RetryHandlers = {}
  /\ SchedulerOf \in [Workers -> Schedulers]
  /\ QueueCapacity \in Nat \ {0}
  /\ Faults \subseteq FaultKinds

VARIABLES
  dbWorkflow,  \* status of the workflow's row in SQLite
  dbJob,       \* status of each job's row in SQLite
  stream,      \* the completion stream
  localQueue,  \* the worker queue of each scheduler
  pc,          \* the call an actor is about to make
  held,        \* the job an actor is working on
  verdict,     \* the outcome a worker reports or a handler processes
  sawRunning,  \* handlers whose workflow snapshot was RUNNING
  calls        \* the calls an actor has still to make

dbVars == <<dbWorkflow, dbJob>>
procVars == <<pc, held, verdict, sawRunning, calls>>
vars == <<redisVars, dbVars, stream, localQueue, procVars>>

-----------------------------------------------------------------------------
(* Outcomes: the status and error code of a completion message.  UNFETCHED  *)
(* is ABORTED with INTERNAL_DB_FAILURE (the scheduler could not fetch the   *)
(* payload), INTERNAL is FAILED with INTERNAL_DB_FAILURE.                   *)

Verdict == {"COMPLETED", "FAILED", "ABORTED", "UNFETCHED", "INTERNAL"}

\* Mutant of TerminalFor: the outcome is stored as it was reported.
TerminalAsReported(v) == v

TerminalFor(v) == IF v \in {"ABORTED", "UNFETCHED"} THEN "ABORTED" ELSE "FAILED"

Message == [job : Jobs, verdict : Verdict]

PC == {"idle", "claim", "dispatch",
       "start", "mark", "execute", "report",
       "fetch", "complete", "settle", "inspect", "retry", "park", "fail",
       "persist", "repair",
       "promote", "mirror"}

\* A call still to be made: on jobs, with a status; ready is used by the
\* transaction of update_ready_jobs only.
Op == {"job_status", "workflow_status", "ready_jobs", "sweep",
       "abort_runtime", "unlist", "drop_jobs", "drop_workflow"}
CallType ==
  {c \in [op : Op, jobs : SUBSET Jobs, ready : SUBSET Jobs,
          status : StoredStatus] :
     c.op = "workflow_status" => c.status \in {"RUNNING", "COMPLETED", "FAILED"}}

CallOn(op, S, st) == [op |-> op, jobs |-> S, ready |-> {}, status |-> st]
SetJobs(S, st) == CallOn("job_status", S, st)
SetWorkflow(st) == CallOn("workflow_status", {}, st)
UpdateReady(Q, R) == [CallOn("ready_jobs", Q, "QUEUED") EXCEPT !.ready = R]
Sweep(S) == CallOn("sweep", S, "ABORTED")
AbortRuntime(j) == CallOn("abort_runtime", {j}, "ABORTED")
Cleanup == <<CallOn("unlist", {}, "COMPLETED"),
             CallOn("drop_jobs", {}, "COMPLETED"),
             CallOn("drop_workflow", {}, "COMPLETED")>>

JobSet(j) == {j} \ {NoJob}
When(b, s) == IF b THEN s ELSE <<>>

-----------------------------------------------------------------------------
DatabaseTypeOK ==
  /\ dbWorkflow \in {"READY", "RUNNING", "COMPLETED", "FAILED"}
  /\ dbJob \in [Jobs -> StoredStatus]

ChannelTypeOK ==
  /\ stream \in Seq(Message)
  /\ localQueue \in [Schedulers -> Seq(Jobs)]

ActorTypeOK ==
  /\ pc \in [Procs -> PC]
  /\ held \in [Procs -> Jobs \cup {NoJob}]
  /\ verdict \in [Procs -> Verdict \cup {"NONE"}]
  /\ sawRunning \subseteq Handlers
  /\ calls \in [Procs -> Seq(CallType)]

\* The statuses, counters, queues and program counters that the code can store:
\* in particular no counter is ever decremented below zero, and a job row never
\* gets a status it cannot have.
TypeOK == RuntimeTypeOK /\ DatabaseTypeOK /\ ChannelTypeOK /\ ActorTypeOK

Init ==
  /\ \E Q \in SUBSET Roots :
       /\ InitiallyQueued(Q)
       /\ initialize_runtime_data(Q)
       /\ dbJob = InitialStatus(Q)
  /\ dbWorkflow = "READY"
  /\ stream = <<>>
  /\ localQueue = [s \in Schedulers |-> <<>>]
  /\ pc = [p \in Procs |-> "idle"]
  /\ held = [p \in Procs |-> NoJob]
  /\ verdict = [p \in Procs |-> "NONE"]
  /\ sawRunning = {}
  /\ calls = [p \in Procs |-> <<>>]

-----------------------------------------------------------------------------
(* Moves of an actor: on to call l, on to a fixed sequence of calls, on     *)
(* with another verdict, or back to the head of its loop.                   *)

Goto(p, l) ==
  /\ pc' = [pc EXCEPT ![p] = l]
  /\ UNCHANGED <<held, verdict, sawRunning, calls>>

GotoCalls(p, l, s) ==
  /\ pc' = [pc EXCEPT ![p] = l]
  /\ calls' = [calls EXCEPT ![p] = s]
  /\ UNCHANGED <<held, verdict, sawRunning>>

GotoWith(p, l, v) ==
  /\ pc' = [pc EXCEPT ![p] = l]
  /\ verdict' = [verdict EXCEPT ![p] = v]
  /\ calls' = [calls EXCEPT ![p] = <<>>]
  /\ UNCHANGED <<held, sawRunning>>

Take(p, l, j, v) ==
  /\ pc' = [pc EXCEPT ![p] = l]
  /\ held' = [held EXCEPT ![p] = j]
  /\ verdict' = [verdict EXCEPT ![p] = v]
  /\ UNCHANGED <<sawRunning, calls>>

Release(p) ==
  /\ pc' = [pc EXCEPT ![p] = "idle"]
  /\ held' = [held EXCEPT ![p] = NoJob]
  /\ verdict' = [verdict EXCEPT ![p] = "NONE"]
  /\ sawRunning' = sawRunning \ {p}
  /\ calls' = [calls EXCEPT ![p] = <<>>]

Publish(j, v) == stream' = Append(stream, [job |-> j, verdict |-> v])

-----------------------------------------------------------------------------
(* Scheduler: scheduler_main_loop.                                          *)

\* blocking_dequeue_job_for_execution_async, first half: the blocking pop.
PopJob(s) ==
  /\ pc[s] = "idle"
  /\ \E j \in execQueue : PopForExecution(j) /\ Take(s, "claim", j, "NONE")
  /\ UNCHANGED <<dbVars, stream, localQueue>>

\* Second half: the claim.  A job that was canceled or deleted since the pop is
\* ignored.
Claim(s) ==
  /\ pc[s] = "claim"
  /\ \/ Claimable(held[s]) /\ ClaimJob(held[s]) /\ Goto(s, "dispatch")
     \/ ~Claimable(held[s]) /\ Release(s) /\ UNCHANGED redisVars
  /\ UNCHANGED <<dbVars, stream, localQueue>>

\* The job and its payload are fetched and pushed to the worker queue, where
\* push blocks while the queue is full.
Dispatch(s) ==
  /\ pc[s] = "dispatch"
  /\ "jobs" \notin dropped
  /\ Len(localQueue[s]) < QueueCapacity
  /\ localQueue' = [localQueue EXCEPT ![s] = Append(@, held[s])]
  /\ Release(s)
  /\ UNCHANGED <<redisVars, dbVars, stream>>

\* No valid payload, or none that can be fetched: the job is reported ABORTED
\* without being run.
RejectPayload(s) ==
  /\ pc[s] = "dispatch"
  /\ "jobs" \notin dropped
  /\ Faults \cap {"payload", "redis"} # {}
  /\ Publish(held[s], "UNFETCHED")
  /\ Release(s)
  /\ UNCHANGED <<redisVars, dbVars, localQueue>>

\* The dequeue returns false, or the job hash cannot be fetched, or the report
\* of a missing payload is not enqueued: the loop goes on without the job.
LoseJob(s) ==
  /\ \/ pc[s] \in {"claim", "dispatch"} /\ "redis" \in Faults
     \/ pc[s] = "dispatch" /\ "jobs" \in dropped
  /\ Release(s)
  /\ UNCHANGED <<redisVars, dbVars, stream, localQueue>>

Scheduler(s) ==
  PopJob(s) \/ Claim(s) \/ Dispatch(s) \/ RejectPayload(s) \/ LoseJob(s)

-----------------------------------------------------------------------------
(* Worker: run_worker_loop.                                                 *)

\* fetch_job: pop from the worker queue of the worker's scheduler.
FetchJob(w) ==
  LET s == SchedulerOf[w] IN
  /\ pc[w] = "idle"
  /\ localQueue[s] # <<>>
  /\ localQueue' = [localQueue EXCEPT ![s] = Tail(@)]
  /\ Take(w, "start", Head(localQueue[s]), "NONE")
  /\ UNCHANGED <<redisVars, dbVars, stream>>

\* The SQLite calls that follow a start; the first start of the workflow also
\* marks the workflow.
StartCalls(j) ==
  When(wfStatus = "READY", <<SetWorkflow("RUNNING")>>)
  \o <<SetJobs({j}, "RUNNING")>>

\* update_job_status_to_running: the start script and its answer.
StartJob(w) ==
  /\ pc[w] = "start"
  /\ try_set_job_to_running(held[w])
  /\ \/ Startable(held[w]) /\ GotoCalls(w, "mark", StartCalls(held[w]))
     \/ ~Startable(held[w]) /\ GotoWith(w, "report", "ABORTED")
     \/ "redis" \in Faults /\ GotoWith(w, "report", "ABORTED")
  /\ UNCHANGED <<dbVars, stream, localQueue>>

\* The start script is never run: INTERNAL_ERROR.
StartFails(w) ==
  /\ pc[w] = "start"
  /\ "redis" \in Faults
  /\ GotoWith(w, "report", "ABORTED")
  /\ UNCHANGED <<redisVars, dbVars, stream, localQueue>>

\* execute_job: the job itself, which succeeds or fails.  (The function is a stub
\* that returns true; the loop handles both answers.)
ExecuteJob(w) ==
  /\ pc[w] = "execute"
  /\ \E v \in {"COMPLETED", "FAILED"} : GotoWith(w, "report", v)
  /\ UNCHANGED <<redisVars, dbVars, stream, localQueue>>

\* update_completion_handler; a failed enqueue is only logged.
Report(w) ==
  /\ pc[w] = "report"
  /\ \/ Publish(held[w], verdict[w])
     \/ "redis" \in Faults /\ UNCHANGED stream
  /\ Release(w)
  /\ UNCHANGED <<redisVars, dbVars, localQueue>>

Worker(w) ==
  FetchJob(w) \/ StartJob(w) \/ StartFails(w) \/ ExecuteJob(w) \/ Report(w)

-----------------------------------------------------------------------------
(* Completion handler: process_completed_jobs and the functions it calls.   *)

\* get_completed_jobs: take the oldest message off the stream.  A reply that
\* does not arrive loses the message, which is already deleted.
DequeueCompletion(h) ==
  /\ pc[h] = "idle"
  /\ stream # <<>>
  /\ stream' = Tail(stream)
  /\ \/ Take(h, "fetch", Head(stream).job, Head(stream).verdict)
     \/ "redis" \in Faults /\ UNCHANGED procVars
  /\ UNCHANGED <<redisVars, dbVars, localQueue>>

\* fetch_workflow_runtime_async: the snapshot the retry decision uses.  A
\* workflow that cannot be fetched is taken for a missing one.
FetchWorkflow(h) ==
  /\ pc[h] = "fetch"
  /\ \/ /\ wfStatus # "DELETED"
        /\ pc' = [pc EXCEPT ![h] =
             IF verdict[h] = "COMPLETED" THEN "complete" ELSE "inspect"]
        /\ sawRunning' =
             IF wfStatus = "RUNNING" THEN sawRunning \cup {h} ELSE sawRunning
        /\ UNCHANGED <<held, verdict, calls>>
     \/ (wfStatus = "DELETED" \/ "redis" \in Faults) /\ Goto(h, "repair")
  /\ UNCHANGED <<redisVars, dbVars, stream, localQueue>>

\* The workflow's runtime is missing: unless SQLite has it FAILED already, it
\* is failed there (persist_failed_workflow_after_missing_runtime).
RepairMissingRuntime(h) ==
  /\ pc[h] = "repair"
  /\ \/ /\ dbWorkflow # "FAILED"
        /\ GotoCalls(h, "persist", <<Sweep(Jobs), SetWorkflow("FAILED")>>)
     \/ (dbWorkflow = "FAILED" \/ "sqlite" \in Faults) /\ Release(h)
  /\ UNCHANGED <<redisVars, dbVars, stream, localQueue>>

\* The calls handle_job_completed makes after the script moved job p.
SettleCalls(j, p) ==
  <<SetJobs({j}, "COMPLETED")>>
  \o When(LastJob, <<SetWorkflow("COMPLETED")>>)
  \o When(JobSet(p) \cup NewlyReady(j) # {},
          <<UpdateReady(JobSet(p), NewlyReady(j) \ {p})>>)
  \o When(LastJob, Cleanup)

\* handle_job_completed failed: the event is processed again as a failure.
TreatAsFailure(h) == GotoWith(h, "inspect", "INTERNAL")

\* complete_successful_job_runtime_async, its answer and, in the last
\* disjunct, the answer that does not arrive.
CompleteSuccessful(h) ==
  LET j == held[h] IN
  /\ pc[h] = "complete"
  /\ \/ /\ Completable(j)
        /\ \E p \in PromotableAfter(j) :
             /\ complete_successful_job(j, p)
             /\ \/ GotoCalls(h, "settle", SettleCalls(j, p))
                \/ "redis" \in Faults /\ TreatAsFailure(h)
     \/ /\ Completable(j) /\ "workflow_expiry" \in Faults
        /\ expire_workflow
        /\ TreatAsFailure(h)
     \/ /\ AlreadyCompleted(j)
        /\ GotoCalls(h, "settle", <<SetJobs({j}, "COMPLETED")>>)
        /\ UNCHANGED redisVars
     \/ /\ ~(Completable(j) \/ AlreadyCompleted(j)) \/ "redis" \in Faults
        /\ TreatAsFailure(h)
        /\ UNCHANGED redisVars
  /\ UNCHANGED <<dbVars, stream, localQueue>>

\* fetch_job_runtime_async and the decision of handle_job_failed: a failed job
\* of a workflow seen RUNNING is retried while it has retries left, except
\* after an internal failure or past its timeout.
MayRetry(h) ==
  /\ verdict[h] = "FAILED"
  /\ h \in sawRunning
  /\ "jobs" \notin dropped
  /\ retries[held[h]] + 1 =< MaxRetries[held[h]]

InspectFailure(h) ==
  /\ pc[h] = "inspect"
  /\ \/ MayRetry(h) /\ Goto(h, "retry")
     \/ /\ ~MayRetry(h) \/ Faults \cap {"job_expiry", "redis"} # {}
        /\ Goto(h, "fail")
  /\ UNCHANGED <<redisVars, dbVars, stream, localQueue>>

\* handle_job_retry.
ParkCalls(j, p) ==
  <<SetJobs({j}, "RETRY_DELAY")>>
  \o When(p # NoJob, <<UpdateReady({p}, {})>>)

ScheduleRetry(h) ==
  LET j == held[h] IN
  /\ pc[h] = "retry"
  /\ \/ \E p \in PromotableOnRetry :
          /\ schedule_job_retry(j, p)
          /\ \/ GotoCalls(h, "park", ParkCalls(j, p))
             \/ "redis" \in Faults /\ Release(h)
     \/ "redis" \in Faults /\ Release(h) /\ UNCHANGED redisVars
  /\ UNCHANGED <<dbVars, stream, localQueue>>

\* The calls handle_job_failed makes after the script.
PersistCalls(j, t) ==
  When(t = "ABORTED", <<AbortRuntime(j)>>)
  \o <<SetJobs({j}, t)>>
  \o When(Canceled(j) # {}, <<SetJobs(Canceled(j), "ABORTED")>>)
  \o When(wfStatus = "RUNNING", <<SetWorkflow("FAILED")>>)
  \o When(CompletedWithFailure(j), Cleanup)

\* persist_failed_workflow_after_runtime_failure.
FallbackCalls(j, t) ==
  <<SetJobs({j}, t), Sweep(Jobs \ {j}), SetWorkflow("FAILED")>>

\* complete_failed_job_runtime_async and its answer.  Without the list of jobs,
\* which SQLite provides, the script is not called at all.
CompleteFailed(h) ==
  LET j == held[h]
      t == TerminalFor(verdict[h])
  IN
  /\ pc[h] = "fail"
  /\ \/ /\ complete_failed_job(j)
        /\ \/ GotoCalls(h, "persist", PersistCalls(j, t))
           \/ "redis" \in Faults /\ GotoCalls(h, "persist", FallbackCalls(j, t))
     \/ /\ "redis" \in Faults
        /\ GotoCalls(h, "persist", FallbackCalls(j, t))
        /\ UNCHANGED redisVars
     \/ /\ "sqlite" \in Faults
        /\ GotoCalls(h, "persist", FallbackCalls(j, "FAILED"))
        /\ UNCHANGED redisVars
  /\ UNCHANGED <<dbVars, stream, localQueue>>

Handler(h) ==
  \/ DequeueCompletion(h) \/ FetchWorkflow(h) \/ RepairMissingRuntime(h)
  \/ CompleteSuccessful(h) \/ InspectFailure(h) \/ ScheduleRetry(h)
  \/ CompleteFailed(h)

-----------------------------------------------------------------------------
(* Retry handler: retry_handler_main_loop.                                  *)

DequeueRetry(r) ==
  /\ pc[r] = "idle"
  /\ \E j \in retryQueue :
       /\ dequeue_due_job_retry(j)
       /\ \/ Take(r, "promote", j, "NONE")
          \/ "redis" \in Faults /\ UNCHANGED procVars
  /\ UNCHANGED <<dbVars, stream, localQueue>>

\* process_retry_job: the promotion, after which the retried job is recorded
\* READY in SQLite unless it is the promoted one.
PromoteRetry(r) ==
  LET j == held[r] IN
  /\ pc[r] = "promote"
  /\ \/ \E p \in PromotableWith(j) :
          /\ promote_retry_job(j, p)
          /\ \/ GotoCalls(r, "mirror", <<UpdateReady(JobSet(p), {j} \ {p})>>)
             \/ "redis" \in Faults /\ Release(r)
     \/ "redis" \in Faults /\ Release(r) /\ UNCHANGED redisVars
  /\ UNCHANGED <<dbVars, stream, localQueue>>

RetryHandler(r) == DequeueRetry(r) \/ PromoteRetry(r)

-----------------------------------------------------------------------------
(* The fixed sequences of calls.  After the last one a worker executes its  *)
(* job and any other actor returns to its loop.                             *)

Calling == {"mark", "settle", "park", "persist", "mirror"}
ThisCall(p) == Head(calls[p])
IsCalling(p, op) == pc[p] \in Calling /\ calls[p] # <<>> /\ ThisCall(p).op = op

Advance(p, rest) ==
  \/ rest # <<>> /\ GotoCalls(p, pc[p], rest)
  \/ rest = <<>> /\ pc[p] = "mark" /\ GotoCalls(p, "execute", rest)
  \/ rest = <<>> /\ pc[p] # "mark" /\ Release(p)

\* What is left when the row of j has been dealt with: a call on several jobs
\* is one UPDATE per job.
AfterRow(p, j) ==
  LET c == ThisCall(p) IN
  When(c.jobs # {j}, <<[c EXCEPT !.jobs = @ \ {j}]>>) \o Tail(calls[p])

\* update_job_status: no condition on the status it replaces.
UpdateJobStatus(p) ==
  /\ IsCalling(p, "job_status")
  /\ \E j \in ThisCall(p).jobs :
       /\ dbJob' = [dbJob EXCEPT ![j] = ThisCall(p).status]
       /\ Advance(p, AfterRow(p, j))
  /\ UNCHANGED <<redisVars, dbWorkflow, stream, localQueue>>

\* update_workflow_status: no condition either.
UpdateWorkflowStatus(p) ==
  /\ IsCalling(p, "workflow_status")
  /\ dbWorkflow' = ThisCall(p).status
  /\ Advance(p, Tail(calls[p]))
  /\ UNCHANGED <<redisVars, dbJob, stream, localQueue>>

\* update_ready_jobs: one transaction, again without a condition.
UpdateReadyJobs(p) ==
  /\ IsCalling(p, "ready_jobs")
  /\ dbJob' = [j \in Jobs |-> IF j \in ThisCall(p).jobs THEN "QUEUED"
                              ELSE IF j \in ThisCall(p).ready THEN "READY"
                              ELSE dbJob[j]]
  /\ Advance(p, Tail(calls[p]))
  /\ UNCHANGED <<redisVars, dbWorkflow, stream, localQueue>>

\* get_all_jobs_for_workflow in the two repair functions, and the updates they
\* derive from the statuses it returned.
SweepCalls(S) ==
  LET aborted == {j \in S : dbJob[j] \in WaitingStatus}
      failed == {j \in S : dbJob[j] = "RUNNING"}
  IN  When(aborted # {}, <<SetJobs(aborted, "ABORTED")>>)
      \o When(failed # {}, <<SetJobs(failed, "FAILED")>>)

SweepJobs(p) ==
  /\ IsCalling(p, "sweep")
  /\ GotoCalls(p, pc[p], SweepCalls(ThisCall(p).jobs) \o Tail(calls[p]))
  /\ UNCHANGED <<redisVars, dbVars, stream, localQueue>>

\* The Redis call in hand, when Redis executes it and reports success.
RedisCall(p) ==
  \/ /\ IsCalling(p, "abort_runtime")
     /\ \E j \in ThisCall(p).jobs : abort_job(j)
  \/ IsCalling(p, "unlist") /\ active /\ remove_active_workflow
  \/ IsCalling(p, "drop_jobs") /\ delete_all_workflow_jobs
  \/ IsCalling(p, "drop_workflow") /\ wfStatus # "DELETED" /\ delete_workflow_runtime

UpdateRuntime(p) ==
  /\ RedisCall(p)
  /\ Advance(p, Tail(calls[p]))
  /\ UNCHANGED <<dbVars, stream, localQueue>>

\* A failed call.  handle_job_completed turns the event into a failure; the
\* start of a job is reported ABORTED; the retry paths give up; the failure
\* paths go on with the next call, except inside the cleanup.
AfterFailedCall(p) ==
  \/ pc[p] = "mark" /\ GotoWith(p, "report", "ABORTED")
  \/ pc[p] = "settle" /\ TreatAsFailure(p)
  \/ pc[p] \in {"park", "mirror"} /\ Release(p)
  \/ /\ pc[p] = "persist"
     /\ \/ ThisCall(p).op \in {"unlist", "drop_workflow"} /\ Release(p)
        \/ ThisCall(p).op = "job_status"
           /\ \E j \in ThisCall(p).jobs : Advance(p, AfterRow(p, j))
        \/ ThisCall(p).op \in {"workflow_status", "sweep", "abort_runtime"}
           /\ Advance(p, Tail(calls[p]))

SqliteFails(p) ==
  /\ "sqlite" \in Faults
  /\ \E op \in {"job_status", "workflow_status", "ready_jobs", "sweep", "unlist"} :
       IsCalling(p, op)
  /\ AfterFailedCall(p)
  /\ UNCHANGED <<redisVars, dbVars, stream, localQueue>>

\* remove_active_workflow and delete_workflow_runtime also fail when there is
\* nothing to remove.  delete_all_workflow_jobs ignores its failures.
RedisFails(p) ==
  /\ \/ IsCalling(p, "unlist") /\ ~active /\ UNCHANGED redisVars
     \/ IsCalling(p, "drop_workflow") /\ wfStatus = "DELETED" /\ UNCHANGED redisVars
     \/ "redis" \in Faults /\ RedisCall(p)
     \/ /\ "redis" \in Faults /\ UNCHANGED redisVars
        /\ \E op \in {"abort_runtime", "unlist", "drop_jobs", "drop_workflow"} :
             IsCalling(p, op)
  /\ \/ ThisCall(p).op = "drop_jobs" /\ Advance(p, Tail(calls[p]))
     \/ ThisCall(p).op # "drop_jobs" /\ AfterFailedCall(p)
  /\ UNCHANGED <<dbVars, stream, localQueue>>

MakeCall(p) ==
  \/ UpdateJobStatus(p) \/ UpdateWorkflowStatus(p) \/ UpdateReadyJobs(p)
  \/ SweepJobs(p) \/ UpdateRuntime(p) \/ SqliteFails(p) \/ RedisFails(p)

-----------------------------------------------------------------------------
Next ==
  \/ \E s \in Schedulers : Scheduler(s)
  \/ \E w \in Workers : Worker(w)
  \/ \E h \in Handlers : Handler(h)
  \/ \E r \in RetryHandlers : RetryHandler(r)
  \/ \E p \in Procs : MakeCall(p)

Spec == Init /\ [][Next]_vars
=============================================================================
