-------------------------- MODULE WorkflowRuntime --------------------------
(***************************************************************************)
(* The Redis runtime state of one workflow and the Lua scripts that change *)
(* it.  Redis runs a script, like any command, without interleaving, so    *)
(* each script is one operator on the primed Redis variables; the actors   *)
(* that call the scripts are in module Execution.                          *)
(*                                                                         *)
(* A sorted set is modelled by the set of its members: the score of a job  *)
(* in the execution queue and in the waiting set is always its priority,   *)
(* and the score in the retry set is a deadline, which any job may reach.  *)
(* Fields nothing reads again (timestamps, owned_by, pending_jobs,         *)
(* failed_jobs, the retry count stored with a terminal status) are left    *)
(* out.                                                                    *)
(***************************************************************************)
EXTENDS Integers, FiniteSets

CONSTANTS
  Jobs,           \* the jobs of the workflow
  Deps,           \* Deps[j]: the jobs j depends on
  Priority,       \* Priority[j]
  MaxRetries,     \* MaxRetries[j]: attempts allowed after the first one
  MaxConcurrent,  \* max_concurrent_jobs of the client's policy
  NoJob           \* "no job": an empty job id

ASSUME JobsAssumption == IsFiniteSet(Jobs) /\ NoJob \notin Jobs

ASSUME DefinitionAssumption ==
  /\ Deps \in [Jobs -> SUBSET Jobs]
  /\ Priority \in [Jobs -> Nat]
  /\ MaxRetries \in [Jobs -> Nat]
  /\ MaxConcurrent \in Nat \ {0}

VARIABLES
  wfStatus,   \* field status of the workflow hash
  jobStatus,  \* field status of each job hash
  remaining,  \* field remaining_dependencies of each job hash
  retries,    \* field current_retry_count of each job hash
  reserved,   \* field reserved_execution_slots of the workflow hash
  completed,  \* field completed_jobs of the workflow hash
  successors, \* the successors list of each job
  waiting,    \* sorted set of the READY jobs that have no slot
  execQueue,  \* sorted set fp:execution_queue
  retryQueue, \* sorted set fp:job_retry_stream
  active,     \* the workflow is in its client's set of active workflows
  dropped     \* which hashes the cleanup has deleted

redisVars == <<wfStatus, jobStatus, remaining, retries, reserved, completed,
               successors, waiting, execQueue, retryQueue, active, dropped>>

-----------------------------------------------------------------------------
(* Statuses.  NO_STATUS: the workflow hash exists without the field status, *)
(* because a command wrote another field of it after it was deleted.        *)

WorkflowStatus ==
  {"READY", "RUNNING", "COMPLETED", "FAILED", "NO_STATUS", "DELETED"}

WaitingStatus == {"PENDING", "READY", "QUEUED", "RETRY_DELAY"}
ActiveStatus == {"QUEUED", "PENDING_EXECUTION", "RUNNING"}
TerminalStatus == {"COMPLETED", "FAILED", "ABORTED"}
StoredStatus == WaitingStatus \cup ActiveStatus \cup TerminalStatus
JobStatus == StoredStatus \cup {"DELETED"}

Active == {j \in Jobs : jobStatus[j] \in ActiveStatus}
Live == wfStatus \in {"READY", "RUNNING"}

Successors(j) == {k \in Jobs : j \in Deps[k]}

\* total_jobs: 0 once the hash that held it is gone.
TotalJobs == IF "workflow" \in dropped THEN 0 ELSE Cardinality(Jobs)

\* ZPOPMAX and BZPOPMAX return a member of the highest score; which one of
\* several is decided by the spelling of the keys, so by any of them here.
Highest(S) == {j \in S : \A k \in S : Priority[k] =< Priority[j]}

\* Mutant of Freed: the slot is not given back.
FreedNothing == reserved

Freed == IF reserved > 0 THEN reserved - 1 ELSE 0

\* Mutant of Promotable: the limit is not consulted.
PromotableUnchecked(S, slots) == IF S # {} THEN Highest(S) ELSE {NoJob}

\* The job a script moves from the waiting set S to the execution queue when
\* slots are reserved: one of the highest priority, or none.
Promotable(S, slots) ==
  IF slots < MaxConcurrent /\ S # {} THEN Highest(S) ELSE {NoJob}

\* HSET of a field other than status: a deleted workflow hash reappears.
TouchedWorkflow == IF wfStatus = "DELETED" THEN "NO_STATUS" ELSE wfStatus

RuntimeTypeOK ==
  /\ wfStatus \in WorkflowStatus
  /\ jobStatus \in [Jobs -> JobStatus]
  /\ remaining \in [Jobs -> Nat]
  /\ retries \in [Jobs -> Nat]
  /\ reserved \in Nat
  /\ completed \in Nat
  /\ successors \in [Jobs -> SUBSET Jobs]
  /\ waiting \subseteq Jobs
  /\ execQueue \subseteq Jobs
  /\ retryQueue \subseteq Jobs
  /\ active \in BOOLEAN
  /\ dropped \subseteq {"jobs", "workflow"}

-----------------------------------------------------------------------------
(* The runtime data at the moment initialize_runtime_data publishes the     *)
(* first jobs: the highest-priority jobs without dependencies, as many as   *)
(* there are slots, are QUEUED and the others wait.                         *)

Roots == {j \in Jobs : Deps[j] = {}}

InitiallyQueued(Q) ==
  /\ \A j \in Q, k \in Roots \ Q : Priority[k] =< Priority[j]
  /\ Cardinality(Q) = IF Cardinality(Roots) =< MaxConcurrent
                      THEN Cardinality(Roots) ELSE MaxConcurrent

InitialStatus(Q) ==
  [j \in Jobs |-> IF j \in Q THEN "QUEUED"
                  ELSE IF j \in Roots THEN "READY" ELSE "PENDING"]

initialize_runtime_data(Q) ==
  /\ wfStatus = "READY"
  /\ jobStatus = InitialStatus(Q)
  /\ remaining = [j \in Jobs |-> Cardinality(Deps[j])]
  /\ retries = [j \in Jobs |-> 0]
  /\ reserved = Cardinality(Q)
  /\ completed = 0
  /\ successors = [j \in Jobs |-> Successors(j)]
  /\ waiting = Roots \ Q
  /\ execQueue = Q
  /\ retryQueue = {}
  /\ active = TRUE
  /\ dropped = {}

-----------------------------------------------------------------------------
(* Scheduler and worker side.                                               *)

\* BZPOPMAX on the execution queue.
PopForExecution(j) ==
  /\ j \in Highest(execQueue)
  /\ execQueue' = execQueue \ {j}
  /\ UNCHANGED <<wfStatus, jobStatus, remaining, retries, reserved, completed,
                 successors, waiting, retryQueue, active, dropped>>

\* Mutant of Claimable: whatever happened since the pop, the job is claimed.
ClaimableAlways(j) == jobStatus[j] # "DELETED"

Claimable(j) == jobStatus[j] \in {"READY", "QUEUED"}

\* The claim script: the popped job now belongs to the scheduler.
ClaimJob(j) ==
  /\ jobStatus' = [jobStatus EXCEPT ![j] = "PENDING_EXECUTION"]
  /\ UNCHANGED <<wfStatus, remaining, retries, reserved, completed,
                 successors, waiting, execQueue, retryQueue, active, dropped>>

\* FIRST_TO_START or STARTED.  A READY workflow never has a start_run_time, so
\* the script's INVARIANT_VIOLATION_WORKFLOW_TIME branch cannot be taken.
Startable(j) == jobStatus[j] = "PENDING_EXECUTION" /\ Live

\* try_set_job_to_running: the job starts; or it is refused, and a refusal for
\* any reason but a cancellation also fails the workflow.
try_set_job_to_running(j) ==
  /\ jobStatus' = [jobStatus EXCEPT ![j] =
       IF @ # "PENDING_EXECUTION" THEN @
       ELSE IF Live THEN "RUNNING" ELSE "ABORTED"]
  /\ wfStatus' =
       IF jobStatus[j] = "ABORTED" THEN wfStatus
       ELSE IF Startable(j) THEN "RUNNING" ELSE "FAILED"
  /\ UNCHANGED <<remaining, retries, reserved, completed, successors, waiting,
                 execQueue, retryQueue, active, dropped>>

-----------------------------------------------------------------------------
(* complete_successful_job_runtime_async                                    *)

\* Mutant of Completable: the status of the workflow is not consulted.
CompletableAlways(j) == jobStatus[j] \notin {"COMPLETED", "DELETED"}

Completable(j) ==
  wfStatus = "RUNNING" /\ jobStatus[j] \notin {"COMPLETED", "DELETED"}

AlreadyCompleted(j) ==
  wfStatus \notin {"NO_STATUS", "DELETED"} /\ jobStatus[j] = "COMPLETED"

\* Mutant of NewlyReady: one dependency too early.
NewlyReadyEarly(j) ==
  {k \in successors[j] : jobStatus[k] = "PENDING" /\ remaining[k] =< 2}

NewlyReady(j) ==
  {k \in successors[j] : jobStatus[k] = "PENDING" /\ remaining[k] =< 1}

\* Mutant of LastJob: one job too early.
LastJobEarly == TotalJobs > 0 /\ completed + 2 = TotalJobs

LastJob == TotalJobs > 0 /\ completed + 1 = TotalJobs

\* Mutant of PromotableAfter: only jobs that waited before are considered.
PromotableBefore(j) ==
  IF LastJob THEN {NoJob} ELSE Promotable(waiting, Freed)

PromotableAfter(j) ==
  IF LastJob THEN {NoJob} ELSE Promotable(waiting \cup NewlyReady(j), Freed)

\* The script past its checks: record the job, release its successors and its
\* slot, finish the workflow with its last job or hand the slot to p.
complete_successful_job(j, p) ==
  /\ jobStatus' = [k \in Jobs |->
       IF k = p THEN "QUEUED"
       ELSE IF k = j THEN "COMPLETED"
       ELSE IF k \in NewlyReady(j) THEN "READY" ELSE jobStatus[k]]
  /\ remaining' = [k \in Jobs |->
       IF k \in successors[j] /\ jobStatus[k] = "PENDING"
       THEN IF k \in NewlyReady(j) THEN 0 ELSE remaining[k] - 1
       ELSE remaining[k]]
  /\ successors' = [successors EXCEPT ![j] = {}]
  /\ completed' = completed + 1
  /\ wfStatus' = IF LastJob THEN "COMPLETED" ELSE wfStatus
  /\ waiting' = (waiting \cup NewlyReady(j)) \ {p}
  /\ execQueue' = IF p = NoJob THEN execQueue ELSE execQueue \cup {p}
  /\ reserved' = IF p = NoJob THEN Freed ELSE Freed + 1
  /\ UNCHANGED <<retries, retryQueue, active, dropped>>

\* The script finds the workflow past its max_run_time: the workflow fails and
\* the job is left as it was.
expire_workflow ==
  /\ wfStatus' = "FAILED"
  /\ UNCHANGED <<jobStatus, remaining, retries, reserved, completed,
                 successors, waiting, execQueue, retryQueue, active, dropped>>

-----------------------------------------------------------------------------
(* complete_failed_job_runtime_async                                        *)

\* Mutants of Canceled: a kind of waiting job is forgotten, or finished jobs are
\* not spared.
CanceledButPending(j) ==
  IF wfStatus = "RUNNING"
  THEN {k \in Jobs \ {j} : jobStatus[k] \in WaitingStatus \ {"PENDING"}}
  ELSE {}
CanceledButDelayed(j) ==
  IF wfStatus = "RUNNING"
  THEN {k \in Jobs \ {j} : jobStatus[k] \in WaitingStatus \ {"RETRY_DELAY"}}
  ELSE {}
CanceledFinished(j) ==
  IF wfStatus = "RUNNING"
  THEN {k \in Jobs \ {j} : jobStatus[k] \in WaitingStatus \cup TerminalStatus}
  ELSE {}

\* The jobs the first terminal failure of a running workflow cancels.
Canceled(j) ==
  IF wfStatus = "RUNNING"
  THEN {k \in Jobs \ {j} : jobStatus[k] \in WaitingStatus}
  ELSE {}

\* Mutants of CompletedWithFailure: the failed job is counted twice, or the
\* canceled jobs are not counted.
CompletedTooEarly(j) ==
  TotalJobs > 0 /\ completed + 2 + Cardinality(Canceled(j)) = TotalJobs
CompletedUncounted(j) == TotalJobs > 0 /\ completed + 1 = TotalJobs

CompletedWithFailure(j) ==
  TotalJobs > 0 /\ completed + 1 + Cardinality(Canceled(j)) = TotalJobs

complete_failed_job(j) ==
  /\ jobStatus' = [k \in Jobs |->
       IF k = j THEN "FAILED"
       ELSE IF k \in Canceled(j) THEN "ABORTED" ELSE jobStatus[k]]
  /\ wfStatus' = IF wfStatus = "RUNNING" THEN "FAILED" ELSE TouchedWorkflow
  /\ reserved' = IF wfStatus = "RUNNING" THEN Freed ELSE reserved
  /\ completed' = completed + 1 + Cardinality(Canceled(j))
  /\ waiting' = waiting \ Canceled(j)
  /\ execQueue' =
       execQueue \ {k \in Canceled(j) : jobStatus[k] = "QUEUED"}
  /\ retryQueue' =
       retryQueue \ {k \in Canceled(j) : jobStatus[k] = "RETRY_DELAY"}
  /\ UNCHANGED <<remaining, retries, successors, active, dropped>>

\* update_job_runtime_async with status ABORTED: a plain HSET.
abort_job(j) ==
  /\ jobStatus' = [jobStatus EXCEPT ![j] = "ABORTED"]
  /\ UNCHANGED <<wfStatus, remaining, retries, reserved, completed,
                 successors, waiting, execQueue, retryQueue, active, dropped>>

-----------------------------------------------------------------------------
(* Retries.                                                                 *)

\* schedule_job_retry_async: park j, give its slot back and, in a running
\* workflow, hand one slot to the waiting job p.
PromotableOnRetry ==
  IF wfStatus = "RUNNING" THEN Promotable(waiting, Freed) ELSE {NoJob}

schedule_job_retry(j, p) ==
  /\ jobStatus' = [k \in Jobs |->
       IF k = p THEN "QUEUED"
       ELSE IF k = j THEN "RETRY_DELAY" ELSE jobStatus[k]]
  /\ retries' = [retries EXCEPT ![j] = @ + 1]
  /\ retryQueue' = retryQueue \cup {j}
  /\ wfStatus' = TouchedWorkflow
  /\ waiting' = waiting \ {p}
  /\ execQueue' = IF p = NoJob THEN execQueue ELSE execQueue \cup {p}
  /\ reserved' = IF p = NoJob THEN Freed ELSE Freed + 1
  /\ UNCHANGED <<remaining, completed, successors, active, dropped>>

\* dequeue_due_job_retry_async
dequeue_due_job_retry(j) ==
  /\ j \in retryQueue
  /\ retryQueue' = retryQueue \ {j}
  /\ UNCHANGED <<wfStatus, jobStatus, remaining, retries, reserved, completed,
                 successors, waiting, execQueue, active, dropped>>

\* promote_retry_job_async.  With a free slot the retried job is queued when
\* nothing waits; else it joins the waiting jobs and the best of them gets the
\* slot.  Both are the promotion of a member of waiting \cup {j}.
Promotes(j) ==
  wfStatus = "RUNNING" /\ jobStatus[j] \in {"RETRY_DELAY", "READY"}

PromotableWith(j) ==
  IF Promotes(j) THEN Promotable(waiting \cup {j}, reserved) ELSE {NoJob}

promote_retry_job(j, p) ==
  /\ jobStatus' = [k \in Jobs |->
       IF k = p THEN "QUEUED"
       ELSE IF k # j THEN jobStatus[k]
       ELSE IF Promotes(j) THEN "READY"
       ELSE IF wfStatus \in {"RUNNING", "NO_STATUS", "DELETED"}
               \/ jobStatus[j] = "DELETED"
            THEN jobStatus[j] ELSE "ABORTED"]
  /\ waiting' = IF Promotes(j) THEN (waiting \cup {j}) \ {p} ELSE waiting
  /\ execQueue' = IF p = NoJob THEN execQueue ELSE execQueue \cup {p}
  /\ reserved' = IF p = NoJob THEN reserved ELSE reserved + 1
  /\ UNCHANGED <<wfStatus, remaining, retries, completed, successors,
                 retryQueue, active, dropped>>

-----------------------------------------------------------------------------
(* Cleanup of a finished workflow.                                          *)

\* remove_active_workflow_async
remove_active_workflow ==
  /\ active' = FALSE
  /\ UNCHANGED <<wfStatus, jobStatus, remaining, retries, reserved, completed,
                 successors, waiting, execQueue, retryQueue, dropped>>

\* delete_all_jobs_payload_async and delete_all_workflow_jobs_async
delete_all_workflow_jobs ==
  /\ jobStatus' = [j \in Jobs |-> "DELETED"]
  /\ remaining' = [j \in Jobs |-> 0]
  /\ retries' = [j \in Jobs |-> 0]
  /\ successors' = [j \in Jobs |-> {}]
  /\ retryQueue' = {}
  /\ dropped' = dropped \cup {"jobs"}
  /\ UNCHANGED <<wfStatus, reserved, completed, waiting, execQueue, active>>

\* delete_workflow_runtime_async and delete_workflow_waiting_ready_jobs
delete_workflow_runtime ==
  /\ wfStatus' = "DELETED"
  /\ reserved' = 0
  /\ completed' = 0
  /\ waiting' = {}
  /\ dropped' = dropped \cup {"workflow"}
  /\ UNCHANGED <<jobStatus, remaining, retries, successors, execQueue,
                 retryQueue, active>>
=============================================================================
