------------------------------ MODULE Admission -----------------------------
(***************************************************************************)
(* The admission pipeline of one client: WorkflowAdmissionService::        *)
(* submit_workflow, the admission script of Redis, the SQLite rows it      *)
(* writes, WorkflowRuntimeGenerator::initialize_runtime_data and the       *)
(* rejection path of AdmissionFailureHandler.                              *)
(*                                                                         *)
(* A submission is one POST whose body parsed, of a registered client; it  *)
(* is a coroutine, and every co_await is a point where others run.  What   *)
(* the validation says of its body is a choice (module DagValidation has   *)
(* the validation itself); what becomes of a published workflow is what    *)
(* module Execution models, here reduced to its writes to the state shared *)
(* with admission.                                                         *)
(***************************************************************************)
EXTENDS Integers, FiniteSets, FiniteSetsExt

CONSTANTS Requests, Workflows, Submissions,
          RequestOf, WorkflowOf,     \* the ids a submission carries
          MaxActive,                 \* max_concurrent_workflows
          MaxRequests, Window,       \* max_requests in window_sec seconds
          Faults                     \* a subset of {"redis", "sqlite"}

ASSUME AdmissionAssumption ==
  /\ RequestOf \in [Submissions -> Requests] /\ WorkflowOf \in [Submissions -> Workflows]
  /\ IsFiniteSet(Submissions) /\ IsFiniteSet(Workflows)
  /\ MaxActive \in Nat /\ MaxRequests \in Nat /\ Window \in Nat \ {0}
  /\ Faults \subseteq {"redis", "sqlite"}

VARIABLES
  reqKey,      \* Redis: fp:req:<client>:<request>
  activeSet,   \* Redis: fp:active:<client>:workflows
  rate,        \* Redis: fp:rate:<client>:<second>, by age in seconds
  runtime,     \* Redis: the workflows with runtime hashes
  execution,   \* how far the execution of a published workflow is
  reqRow,      \* SQLite: workflow_requests.status
  wfRow,       \* SQLite: workflows.status
  jobRows,     \* SQLite: jobs.status of the workflow's jobs taken together
  pc, stage, answer,   \* of each submission: next step, AdmissionStage, result
  age          \* history: seconds since the script granted the submission, up to Window

redisVars == <<reqKey, activeSet, rate>>
sqliteVars == <<reqRow, wfRow, jobRows>>
runVars == <<runtime, execution>>
vars == <<redisVars, runVars, sqliteVars, pc, stage, answer, age>>

RequestStatus == {"RECEIVED", "REJECTED", "ADMITTED"}
ActiveStatus == {"ADMITTED", "READY", "RUNNING"}
WorkflowStatus == ActiveStatus \cup {"COMPLETED", "FAILED"}

Init ==
  /\ reqKey = [r \in Requests |-> "NONE"] /\ activeSet = {}
  /\ rate = [a \in 0..(Window - 1) |-> 0]
  /\ runtime = {} /\ execution = [w \in Workflows |-> "none"]
  /\ reqRow = [r \in Requests |-> "NONE"] /\ wfRow = [w \in Workflows |-> "NONE"]
  /\ jobRows = [w \in Workflows |-> "NONE"]
  /\ pc = [s \in Submissions |-> "admit"] /\ stage = [s \in Submissions |-> "NONE"]
  /\ answer = [s \in Submissions |-> "NONE"] /\ age = [s \in Submissions |-> Window]

-----------------------------------------------------------------------------
Goto(s, next) == pc' = [pc EXCEPT ![s] = next] /\ UNCHANGED <<stage, answer>>

\* The result is fixed and handle_rejection begins.  Which rejection it was nobody
\* asks later, and of the stage only whether it was PERSIST_REQUEST.
Reject(s, at) ==
  /\ pc' = [pc EXCEPT ![s] = IF at = "ADMIT_REQUEST" THEN "done" ELSE "mark"]
  /\ stage' = [stage EXCEPT ![s] = IF at = "PERSIST_REQUEST" THEN at ELSE "OTHER"]
  /\ answer' = [answer EXCEPT ![s] = "REJECTED"]

Fails(kind) == kind \in Faults

(* admit_request_async: the script.                                          *)
WindowTotal == MapThenSumSet(LAMBDA a : rate[a], DOMAIN rate)
WithinRate == WindowTotal + 1 =< MaxRequests
WithinActive(w) == Cardinality(activeSet \cup {w}) =< MaxActive
\* Mutant of RateAfterRefusal: a refusal keeps its increment.
RateAfterRefusalKept == [rate EXCEPT ![0] = @ + 1]

\* Mutant of RateAfterRefusal: a refusal takes its increment back twice.
RateAfterRefusalTwice == [rate EXCEPT ![0] = @ - 1]

\* The bucket as a refusal leaves it: INCR, then DECR.
RateAfterRefusal == rate

Refuse(s) ==
  /\ reqKey' = [reqKey EXCEPT ![RequestOf[s]] = "REJECTED"]
  /\ rate' = RateAfterRefusal
  /\ Reject(s, "ADMIT_REQUEST")
  /\ UNCHANGED <<activeSet, age>>

\* The script lets the submission in; its reply may still be lost.
Grant(s) ==
  /\ reqKey' = [reqKey EXCEPT ![RequestOf[s]] = "RECEIVED"]
  /\ activeSet' = activeSet \cup {WorkflowOf[s]}
  /\ rate' = [rate EXCEPT ![0] = @ + 1] /\ age' = [age EXCEPT ![s] = 0]
  /\ \/ Goto(s, "insert")
     \/ Fails("redis") /\ Reject(s, "ADMIT_REQUEST")

AdmitRequest(s) ==
  /\ pc[s] = "admit"
  /\ \/ /\ reqKey[RequestOf[s]] # "NONE" \/ Fails("redis")
        /\ Reject(s, "ADMIT_REQUEST") /\ UNCHANGED <<redisVars, age>>
     \/ /\ reqKey[RequestOf[s]] = "NONE"
        /\ \/ ~WithinRate /\ Refuse(s)
           \/ WithinRate /\ WorkflowOf[s] \in activeSet /\ Refuse(s)
           \/ /\ WithinRate /\ WorkflowOf[s] \notin activeSet
              /\ ~WithinActive(WorkflowOf[s]) /\ Refuse(s)
           \/ /\ WithinRate /\ WorkflowOf[s] \notin activeSet
              /\ WithinActive(WorkflowOf[s]) /\ Grant(s)
  /\ UNCHANGED <<runVars, sqliteVars>>

(* persist_request: the statements of add_request.                           *)
\* Mutant of RequestRowFree: the table has no primary key.
RequestRowFreeAlways(r) == TRUE

RequestRowFree(r) == reqRow[r] = "NONE"

InsertRequest(s) ==
  /\ pc[s] = "insert"
  /\ \/ /\ RequestRowFree(RequestOf[s])
        /\ reqRow' = [reqRow EXCEPT ![RequestOf[s]] = "RECEIVED"] /\ Goto(s, "count")
     \/ /\ ~RequestRowFree(RequestOf[s]) /\ UNCHANGED reqRow
        /\ Reject(s, "PERSIST_REQUEST")
     \/ /\ Fails("sqlite") /\ UNCHANGED reqRow
        /\ Reject(s, "PERSIST_REQUEST")
  /\ UNCHANGED <<redisVars, runVars, wfRow, jobRows, age>>

ActiveRows == {w \in Workflows : wfRow[w] \in ActiveStatus}

WithinActiveRows == Cardinality(ActiveRows) < MaxActive

\* The count is too high, the body too large, or a statement fails.
CountActive(s) ==
  /\ pc[s] = "count"
  /\ \/ WithinActiveRows /\ Goto(s, "validate")
     \/ Reject(s, "PERSIST_REQUEST")
  /\ UNCHANGED <<redisVars, runVars, sqliteVars, age>>

\* Mutant of AfterValidation: the jobs are published first.
AfterValidationPublish == "publish"

AfterValidation == "workflow"

Validate(s) ==
  /\ pc[s] = "validate"
  /\ Goto(s, AfterValidation) \/ Reject(s, "VALIDATE_WORKFLOW")
  /\ UNCHANGED <<redisVars, runVars, sqliteVars, age>>

(* persist_workflow.                                                         *)
\* Mutant of WorkflowRowFree: the table has no primary key.
WorkflowRowFreeAlways(w) == TRUE

WorkflowRowFree(w) == wfRow[w] = "NONE"

AddWorkflow(s) ==
  /\ pc[s] = "workflow"
  /\ \/ /\ WorkflowRowFree(WorkflowOf[s])
        /\ wfRow' = [wfRow EXCEPT ![WorkflowOf[s]] = "ADMITTED"] /\ Goto(s, "jobs")
     \/ /\ ~WorkflowRowFree(WorkflowOf[s]) /\ UNCHANGED wfRow
        /\ Reject(s, "PERSIST_WORKFLOW")
     \/ /\ Fails("sqlite") /\ UNCHANGED wfRow
        /\ Reject(s, "PERSIST_WORKFLOW")
  /\ UNCHANGED <<redisVars, runVars, reqRow, jobRows, age>>

AddJobs(s) ==
  /\ pc[s] = "jobs"
  /\ \/ jobRows' = [jobRows EXCEPT ![WorkflowOf[s]] = "WAITING"] /\ Goto(s, "ready")
     \/ Fails("sqlite") /\ UNCHANGED jobRows /\ Goto(s, "unready")
  /\ UNCHANGED <<redisVars, runVars, reqRow, wfRow, age>>

\* update_workflow_status: no row, no change; its result is not looked at.
RowSet(w, status) == IF wfRow[w] = "NONE" THEN wfRow ELSE [wfRow EXCEPT ![w] = status]
UpdateRow(w, status) ==
  \/ wfRow' = RowSet(w, status)
  \/ Fails("sqlite") /\ UNCHANGED wfRow

SetReady(s) ==
  /\ pc[s] = "ready" /\ UpdateRow(WorkflowOf[s], "READY") /\ Goto(s, "runtime")
  /\ UNCHANGED <<redisVars, runVars, reqRow, jobRows, age>>

SetUnready(s) ==
  /\ pc[s] = "unready" /\ UpdateRow(WorkflowOf[s], "FAILED")
  /\ Reject(s, "PERSIST_WORKFLOW")
  /\ UNCHANGED <<redisVars, runVars, reqRow, jobRows, age>>

(* initialize_runtime_data.  Nobody reads the runtime hashes before the jobs *)
(* are published, so writing them and the payloads is one step, and so is    *)
(* removing them again, which may fail without anybody noticing.             *)
CreateRuntime(s) ==
  /\ pc[s] = "runtime"
  /\ \/ runtime' = runtime \cup {WorkflowOf[s]} /\ Goto(s, "update")
     \/ /\ Fails("redis")
        /\ runtime' \in {runtime \ {WorkflowOf[s]}, runtime \cup {WorkflowOf[s]}}
        /\ Reject(s, "GENERATE_RUNTIME_DATA")
  /\ UNCHANGED <<redisVars, sqliteVars, execution, age>>

\* Mutant of CleanedRuntime: a failure leaves the hashes behind.
CleanedRuntimeNot(w) == runtime

CleanedRuntime(w) == runtime \ {w}

CleanUp(w) ==
  \/ runtime' = CleanedRuntime(w)
  \/ Fails("redis") /\ UNCHANGED runtime

\* update_ready_jobs makes the root jobs READY or QUEUED, whatever they were, and
\* fails without their rows.
UpdateReadyJobs(s) ==
  /\ pc[s] = "update"
  /\ \/ /\ jobRows[WorkflowOf[s]] # "NONE" /\ Goto(s, "publish")
        /\ jobRows' = [jobRows EXCEPT ![WorkflowOf[s]] = "WAITING"] /\ UNCHANGED runtime
     \/ /\ jobRows[WorkflowOf[s]] = "NONE" \/ Fails("sqlite")
        /\ CleanUp(WorkflowOf[s]) /\ UNCHANGED jobRows
        /\ Reject(s, "GENERATE_RUNTIME_DATA")
  /\ UNCHANGED <<redisVars, reqRow, wfRow, execution, age>>

\* Mutant of AfterPublishFailed: the result is not looked at.
AfterPublishFailedAccept == "accept"

AfterPublishFailed == "unpublish"

Publish(s) ==
  /\ pc[s] = "publish"
  /\ \/ execution' = [execution EXCEPT ![WorkflowOf[s]] = "queued"]
        /\ (Goto(s, "accept") \/ (Fails("redis") /\ Goto(s, AfterPublishFailed)))
     \/ Fails("redis") /\ UNCHANGED execution /\ Goto(s, AfterPublishFailed)
  /\ UNCHANGED <<redisVars, sqliteVars, runtime, age>>

\* The jobs are taken off the execution queue, if no scheduler popped them yet.
Unpublish(s) ==
  /\ pc[s] = "unpublish"
  /\ \/ execution' = IF execution[WorkflowOf[s]] = "queued"
                     THEN [execution EXCEPT ![WorkflowOf[s]] = "none"] ELSE execution
     \/ Fails("redis") /\ UNCHANGED execution
  /\ CleanUp(WorkflowOf[s])
  /\ Reject(s, "GENERATE_RUNTIME_DATA")
  /\ UNCHANGED <<redisVars, sqliteVars, age>>

(* handle_request_accepted.                                                  *)
Accept(s) ==
  /\ pc[s] = "accept"
  /\ \/ reqKey' = [reqKey EXCEPT ![RequestOf[s]] = "ADMITTED"]
     \/ Fails("redis") /\ UNCHANGED reqKey
  /\ Goto(s, "record")
  /\ UNCHANGED <<activeSet, rate, runVars, sqliteVars, age>>

SetRequestRow(r, status) ==
  \/ reqRow' = IF reqRow[r] = "NONE" THEN reqRow ELSE [reqRow EXCEPT ![r] = status]
  \/ Fails("sqlite") /\ UNCHANGED reqRow

Record(s) ==
  /\ pc[s] = "record" /\ SetRequestRow(RequestOf[s], "ADMITTED")
  /\ pc' = [pc EXCEPT ![s] = "done"] /\ answer' = [answer EXCEPT ![s] = "WORKFLOW_ADMITTED"]
  /\ UNCHANGED <<redisVars, runVars, wfRow, jobRows, stage, age>>

(* handle_rejection from PERSIST_REQUEST on: update_redis_request_status.    *)
MarkRejected(s) ==
  /\ pc[s] = "mark"
  /\ \/ reqKey' = [reqKey EXCEPT ![RequestOf[s]] = "REJECTED"]
     \/ Fails("redis") /\ UNCHANGED reqKey
  /\ Goto(s, "free")
  /\ UNCHANGED <<activeSet, rate, runVars, sqliteVars, age>>

ReleaseRequestId(s) ==
  /\ pc[s] = "free"
  /\ \/ reqKey' = [reqKey EXCEPT ![RequestOf[s]] = "NONE"]
     \/ Fails("redis") /\ UNCHANGED reqKey
  /\ Goto(s, "unlist")
  /\ UNCHANGED <<activeSet, rate, runVars, sqliteVars, age>>

\* Mutant of Unlisted: a rejection keeps the place in the active set.
UnlistedNot(w) == activeSet

Unlisted(w) == activeSet \ {w}

RemoveActiveWorkflow(s) ==
  /\ pc[s] = "unlist"
  /\ \/ activeSet' = Unlisted(WorkflowOf[s])
     \/ Fails("redis") /\ UNCHANGED activeSet
  /\ Goto(s, IF stage[s] = "PERSIST_REQUEST" THEN "done" ELSE "row")
  /\ UNCHANGED <<reqKey, rate, runVars, sqliteVars, age>>

UpdateRequestStatus(s) ==
  /\ pc[s] = "row" /\ SetRequestRow(RequestOf[s], "REJECTED") /\ Goto(s, "abort")
  /\ UNCHANGED <<redisVars, runVars, wfRow, jobRows, age>>

\* fail_workflow: fail_all_jobs_waiting_to_run, then the row of the workflow.
FailJobs(s) ==
  /\ pc[s] = "abort"
  /\ \/ jobRows' = [jobRows EXCEPT ![WorkflowOf[s]] = IF @ = "WAITING" THEN "ABORTED" ELSE @]
     \/ Fails("sqlite") /\ UNCHANGED jobRows
  /\ Goto(s, "fail")
  /\ UNCHANGED <<redisVars, runVars, reqRow, wfRow, age>>

FailWorkflow(s) ==
  /\ pc[s] = "fail" /\ UpdateRow(WorkflowOf[s], "FAILED") /\ Goto(s, "done")
  /\ UNCHANGED <<redisVars, runVars, reqRow, jobRows, age>>

Submission(s) ==
  \/ AdmitRequest(s) \/ InsertRequest(s) \/ CountActive(s) \/ Validate(s)
  \/ AddWorkflow(s) \/ AddJobs(s) \/ SetReady(s) \/ SetUnready(s)
  \/ CreateRuntime(s) \/ UpdateReadyJobs(s) \/ Publish(s) \/ Unpublish(s)
  \/ Accept(s) \/ Record(s)
  \/ MarkRejected(s) \/ ReleaseRequestId(s) \/ RemoveActiveWorkflow(s)
  \/ UpdateRequestStatus(s) \/ FailJobs(s) \/ FailWorkflow(s)

(* The execution of a published workflow: update_job_status_to_running, the  *)
(* end in handle_job_completed or handle_job_failed, and the cleanup.        *)
ExecutionStarts(w) ==
  /\ execution[w] = "queued"
  /\ execution' = [execution EXCEPT ![w] = "running"]
  /\ wfRow' = RowSet(w, "RUNNING")
  /\ UNCHANGED <<redisVars, runtime, reqRow, jobRows, pc, stage, answer, age>>

ExecutionEnds(w) ==
  /\ execution[w] = "running"
  /\ execution' = [execution EXCEPT ![w] = "ended"]
  /\ jobRows' = [jobRows EXCEPT ![w] = "DONE"]
  /\ \/ w \in runtime /\ wfRow' = RowSet(w, "COMPLETED")
     \/ wfRow' = RowSet(w, "FAILED")
  /\ UNCHANGED <<redisVars, runtime, reqRow, pc, stage, answer, age>>

ExecutionCleanup(w) ==
  /\ execution[w] = "ended"
  /\ execution' = [execution EXCEPT ![w] = "released"]
  /\ activeSet' = activeSet \ {w} /\ runtime' = runtime \ {w}
  /\ UNCHANGED <<reqKey, rate, sqliteVars, pc, stage, answer, age>>

(* Redis's clock and the TTL of request keys.                                *)
Tick ==
  /\ rate' = [a \in DOMAIN rate |-> IF a = 0 THEN 0 ELSE rate[a - 1]]
  /\ age' = [s \in Submissions |-> IF age[s] = Window THEN Window ELSE age[s] + 1]
  /\ UNCHANGED <<reqKey, activeSet, runVars, sqliteVars, pc, stage, answer>>

ExpireKey(r) ==
  /\ reqKey[r] # "NONE" /\ reqKey' = [reqKey EXCEPT ![r] = "NONE"]
  /\ UNCHANGED <<activeSet, rate, runVars, sqliteVars, pc, stage, answer, age>>

Execute(w) == ExecutionStarts(w) \/ ExecutionEnds(w) \/ ExecutionCleanup(w)

Next ==
  \/ \E s \in Submissions : Submission(s)
  \/ \E w \in Workflows : Execute(w)
  \/ Tick
  \/ \E r \in Requests : ExpireKey(r)

Spec == Init /\ [][Next]_vars

\* While some coroutine can be resumed or some published workflow executed
\* (EventuallyReleased of module Execution), one of them is; they are finitely
\* many, so each gets its turn.  Nothing is assumed of the clock.
Fairness ==
  WF_vars((\E s \in Submissions : Submission(s)) \/ (\E w \in Workflows : Execute(w)))
FairSpec == Spec /\ Fairness
=============================================================================
