------------------------ MODULE ExecutionProperties ------------------------
(***************************************************************************)
(* What the execution of a workflow should and does guarantee.             *)
(***************************************************************************)
EXTENDS Execution

\* The actors run whenever they can: coroutines are resumed by the Redis I/O
\* threads, worker threads by the operating system, a job ends and a retry
\* deadline passes.
Fairness ==
  /\ \A s \in Schedulers : WF_vars(Scheduler(s))
  /\ \A w \in Workers : WF_vars(Worker(w) \/ MakeCall(w))
  /\ \A h \in Handlers : WF_vars(Handler(h) \/ MakeCall(h))
  /\ \A r \in RetryHandlers : WF_vars(RetryHandler(r) \/ MakeCall(r))

FairSpec == Spec /\ Fairness

-----------------------------------------------------------------------------
(* Where a job is.  An attempt is in flight from the claim of the job to    *)
(* the script that records its outcome.                                     *)

Deciding == {"fetch", "complete", "inspect", "retry", "fail"}

Reporting ==
  {held[w] : w \in {w \in Workers : pc[w] = "report"}}
  \cup {stream[i].job : i \in 1..Len(stream)}
  \cup {held[h] : h \in {h \in Handlers : pc[h] \in Deciding}}

Executing ==
  {held[s] : s \in {s \in Schedulers : pc[s] = "dispatch"}}
  \cup UNION {{localQueue[s][i] : i \in 1..Len(localQueue[s])} : s \in Schedulers}
  \cup {held[w] : w \in {w \in Workers : pc[w] \in {"start", "mark", "execute"}}}

-----------------------------------------------------------------------------
(* Safety.                                                                  *)

\* At most max_concurrent_jobs jobs are QUEUED, PENDING_EXECUTION or RUNNING,
\* whatever fails and however many handlers promote jobs at the same time.
ConcurrencyLimit == Cardinality(Active) =< MaxConcurrent

\* While the workflow can still make progress its slot counter is exactly the
\* number of jobs that hold a slot: no completion, retry or promotion loses or
\* invents a slot.
SlotsMatchWhileLive == Live => reserved = Cardinality(Active)

\* The slot counter never understates the jobs that hold a slot, so a script
\* that compares it with the limit never over-commits, even after faults.
SlotsCoverActive == Live => Cardinality(Active) =< reserved /\ reserved =< MaxConcurrent

\* No job waits for a slot while nothing runs: some other job holds a slot and
\* its outcome will hand the slot on.
SomeoneHoldsASlot == (Live /\ waiting # {}) => Active # {}

\* completed_jobs counts each finished job once: the jobs with a terminal status
\* except those whose outcome no handler has recorded yet.  The cleanup and the
\* end of the workflow depend on this number being exact.
CompletedJobsExact ==
  (dropped = {}) =>
    completed = Cardinality({j \in Jobs : jobStatus[j] \in TerminalStatus} \ Reporting)

\* When a workflow fails, its jobs that wait to run are ABORTED: none is left
\* PENDING, READY, QUEUED or in RETRY_DELAY.
FailurePropagated ==
  (wfStatus = "FAILED") => \A j \in Jobs : jobStatus[j] \notin WaitingStatus

\* The runtime data is deleted only when no attempt is in flight and no queue
\* refers to the workflow any more.
QuietAfterCleanup ==
  ("jobs" \in dropped) =>
    /\ execQueue = {} /\ retryQueue = {}
    /\ Reporting = {} /\ Executing = {}

\* Deleted runtime data does not come back to life, although a script or an HSET
\* on a deleted hash creates it again: the hash of the workflow stays deleted, and
\* the hash of a job comes back only as ABORTED, by the write a handler makes after
\* its script, when another handler's cleanup came in between.
NothingRevived ==
  /\ ("jobs" \in dropped) => \A j \in Jobs : jobStatus[j] \in {"DELETED", "ABORTED"}
  /\ ("workflow" \in dropped) => wfStatus = "DELETED"

\* A workflow is COMPLETED in Redis only if every job completed, and in SQLite
\* only if no job is recorded there as FAILED or ABORTED.
CompletedMeansAllCompleted ==
  /\ (wfStatus = "COMPLETED" /\ dropped = {}) =>
        \A j \in Jobs : jobStatus[j] = "COMPLETED"
  /\ (dbWorkflow = "COMPLETED") => \A j \in Jobs : dbJob[j] \notin {"FAILED", "ABORTED"}

-----------------------------------------------------------------------------
(* Action properties.                                                       *)

\* A job leaves PENDING for execution only in a step after which every job it
\* depends on is COMPLETED.
DependenciesFirst ==
  [][\A j \in Jobs :
       (jobStatus[j] = "PENDING" /\ jobStatus'[j] \in {"READY", "QUEUED"})
         => \A d \in Deps[j] : jobStatus'[d] = "COMPLETED"]_vars

\* A job that reached a terminal status is never run again: it stays terminal
\* until it is deleted.
NeverRunAgain ==
  [][\A j \in Jobs :
       jobStatus[j] \in TerminalStatus =>
         jobStatus'[j] \in TerminalStatus \cup {"DELETED"}]_vars

\* A completed job stays completed: the event that completed it is not applied a
\* second time as a failure.
CompletedKept ==
  [][\A j \in Jobs :
       jobStatus[j] = "COMPLETED" => jobStatus'[j] \in {"COMPLETED", "DELETED"}]_vars

\* A finished workflow never runs again and never changes its result.
ResultKept ==
  [][/\ wfStatus = "COMPLETED" => wfStatus' \in {"COMPLETED", "DELETED"}
     /\ wfStatus = "FAILED" => wfStatus' \in {"FAILED", "DELETED"}]_vars

-----------------------------------------------------------------------------
(* Liveness.                                                                *)

\* Every workflow ends: its runtime data is deleted and it stops counting
\* against its client's limit of active workflows.
EventuallyReleased == <>[](wfStatus = "DELETED" /\ ~active)

-----------------------------------------------------------------------------
(* What one expects or the documentation says, and the code does not keep.  *)

\* reserved_execution_slots = QUEUED + PENDING_EXECUTION + RUNNING jobs, in any
\* workflow that has runtime data, failed ones included.
SlotEquation == (dropped = {}) => reserved = Cardinality(Active)

\* A READY job is promoted to QUEUED at once when the workflow has capacity.
ImmediatePromotion == (Live /\ waiting # {}) => reserved >= MaxConcurrent

\* Once deleted the runtime data stays deleted: no late call brings back a hash
\* that nothing will ever delete.  With several handlers, see NothingRevived.
NothingReappears ==
  /\ ("jobs" \in dropped) => \A j \in Jobs : jobStatus[j] = "DELETED"
  /\ ("workflow" \in dropped) => wfStatus = "DELETED"

\* SQLite ends up with the final status of the workflow.
EventuallyRecorded == <>[](dbWorkflow \in {"COMPLETED", "FAILED"})

\* SQLite ends up with the final status of every job.
JobsEventuallyRecorded == <>[](\A j \in Jobs : dbJob[j] \in TerminalStatus)
=============================================================================
