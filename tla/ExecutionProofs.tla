-------------------------- MODULE ExecutionProofs ---------------------------
(***************************************************************************)
(* Proofs about module Execution for every set of jobs, schedulers,        *)
(* workers and handlers, every limit and every combination of faults: its  *)
(* variables keep their types, the workflow never exceeds its concurrency  *)
(* limit, and it implements the abstract slot pool of SlotAllocation.  All *)
(* rest on the invariant IInv of module ExecutionInvariant, which every    *)
(* action keeps.                                                           *)
(***************************************************************************)
EXTENDS CallSteps, LoopProofs, HandlerProofs, ExecutionRefinement

\* Time limits of the provers, per step.
USE SMTT(60), ZenonT(60)

-----------------------------------------------------------------------------
(* Initial states and the theorems.                                         *)

\* The invariant holds when the first jobs have been published.
LEMMA InitHolds == Init => IInv
<1> SUFFICES ASSUME Init PROVE IInv OBVIOUS
<1>1. PICK Q \in SUBSET Roots : /\ InitiallyQueued(Q) /\ initialize_runtime_data(Q)
                                /\ dbJob = InitialStatus(Q)
  BY DEF Init
<1>2. Roots \in SUBSET Jobs /\ Q \in SUBSET Jobs BY DEF Roots
<1>3. /\ Cardinality(Q) \in Nat /\ Cardinality(Roots) \in Nat /\ Cardinality(Q) =< MaxConcurrent
      /\ MaxConcurrent \in Nat
  BY <1>1, <1>2, JobSetsFinite, DefinitionAssumption DEF InitiallyQueued
<1>4. jobStatus \in [Jobs -> {"QUEUED", "READY", "PENDING"}]
      /\ jobStatus = [k \in Jobs |-> IF k \in Q THEN "QUEUED"
                                     ELSE IF k \in Roots THEN "READY" ELSE "PENDING"]
  BY <1>1 DEF initialize_runtime_data, InitialStatus
<1>5. Active = Q /\ reserved = Cardinality(Q) /\ wfStatus = "READY" /\ completed = 0
      /\ waiting = Roots \ Q /\ execQueue = Q /\ retryQueue = {}
  BY <1>1, <1>2, <1>4 DEF initialize_runtime_data, Active, ActiveStatus
<1>6. TypeOK
  <2>1. \A k \in Jobs : Cardinality(Deps[k]) \in Nat
    BY JobSetsFinite, DefinitionAssumption
  <2>2. RuntimeTypeOK
    BY <1>1, <1>2, <1>3, <1>4, <2>1 DEF RuntimeTypeOK, initialize_runtime_data, WorkflowStatus,
       JobStatus, StoredStatus, WaitingStatus, ActiveStatus, TerminalStatus, Successors
  <2>3. DatabaseTypeOK
    BY <1>1 DEF Init, DatabaseTypeOK, InitialStatus, StoredStatus, WaitingStatus
  <2>4. ChannelTypeOK
    BY DEF Init, ChannelTypeOK
  <2>5. ActorTypeOK
    <3>1. "idle" \in PC BY DEF PC
    <3>2. <<>> \in Seq(CallType) OBVIOUS
    <3>3. QED BY <3>1, <3>2 DEF Init, ActorTypeOK
  <2>6. QED BY <2>2, <2>3, <2>4, <2>5 DEF TypeOK
<1>7. \A q \in Procs : pc[q] = "idle" /\ calls[q] = <<>> /\ ~Carries(q)
  BY DEF Init, Carries, Deciding, Procs
<1>8. stream = <<>> /\ Len(stream) = 0 /\ \A s \in Schedulers : Len(localQueue[s]) = 0
  BY DEF Init
<1>9. ActorsOK
  BY <1>7, <1>8 DEF ActorsOK, Procs, Deciding
<1>10. ConcurrencyLimit /\ SlotsCoverActive
  BY <1>3, <1>5 DEF ConcurrencyLimit, SlotsCoverActive
<1>11. NoSlotFromClaim
  BY <1>2, <1>4, <1>5, <1>7 DEF NoSlotFromClaim, Procs
<1>12. LiveInv
  <2>1. QueuesMatchStatus
    BY <1>2, <1>4, <1>5 DEF QueuesMatchStatus
  <2>2. SchedulersMatchStatus /\ WorkersMatchStatus /\ RetriesMatchStatus /\ OutcomesMatchStatus
        /\ SecondTryFails
    BY <1>7, <1>8 DEF SchedulersMatchStatus, WorkersMatchStatus, RetriesMatchStatus,
                      OutcomesMatchStatus, SecondTryFails, Deciding, Procs
  <2>3. OnePop /\ OneRetry /\ OneCarrier /\ OneEntry
    BY <1>7, <1>8 DEF OnePop, OneRetry, OneCarrier, OneEntry, Procs
  <2>4. NothingRanYet
    <3>1. Finished \in SUBSET Jobs BY DEF Finished
    <3>2. Cardinality(Finished) \in Nat BY <3>1, JobSetsFinite
    <3>3. QED BY <1>4, <1>5, <3>2 DEF NothingRanYet
  <2>5. CallsOK
    <3>1. <<>> \in Seq(OKCalls) OBVIOUS
    <3>2. QED BY <1>7, <3>1, Zenon DEF CallsOK
  <2>6. QED BY <1>10, <2>1, <2>2, <2>3, <2>4, <2>5 DEF LiveInv
<1>13. QED BY <1>6, <1>9, <1>10, <1>11, <1>12 DEF IInv

\* A step that changes nothing.
LEMMA StutterKeeps ==
  ASSUME IInv, UNCHANGED vars
  PROVE  IInv'
<1> USE DEF vars, redisVars, dbVars, procVars
<1>1. TypeOK' BY DEF IInv, TypeOK, RuntimeTypeOK, DatabaseTypeOK, ChannelTypeOK, ActorTypeOK
<1>2. ActorsOK' BY DEF IInv, ActorsOK, Deciding
<1>3. ConcurrencyLimit' /\ NoSlotFromClaim'
  BY DEF IInv, ConcurrencyLimit, Active, NoSlotFromClaim
<1>4. Live' => LiveInv'
  <2>1. Live' => LiveInv BY DEF IInv, Live
  <2>2. LiveInv => SlotsCoverActive' /\ QueuesMatchStatus' /\ NothingRanYet' /\ SecondTryFails'
    BY DEF LiveInv, SlotsCoverActive, Live, Active, QueuesMatchStatus, NothingRanYet, Finished,
           SecondTryFails, Deciding
  <2>3. LiveInv => SchedulersMatchStatus' /\ WorkersMatchStatus' /\ RetriesMatchStatus'
                   /\ OutcomesMatchStatus'
    BY DEF LiveInv, SchedulersMatchStatus, WorkersMatchStatus, RetriesMatchStatus,
           OutcomesMatchStatus, StatusOf, Deciding
  <2>4. LiveInv => OnePop' /\ OneRetry' /\ OneCarrier' /\ OneEntry'
    <3>1. \A q \in Procs : Carries(q)' <=> Carries(q) BY DEF Carries, Deciding
    <3>2. LiveInv => OnePop' /\ OneRetry' BY DEF LiveInv, OnePop, OneRetry
    <3>3. LiveInv => OneCarrier' BY <3>1 DEF LiveInv, OneCarrier
    <3>4. LiveInv => OneEntry' BY DEF LiveInv, OneEntry
    <3>5. QED BY <3>2, <3>3, <3>4
  <2>5. LiveInv => CallsOK'
    <3>1. Seq(OKCalls) \subseteq Seq(OKCalls') BY CallsStayOK DEF Finished
    <3>2. QED BY <3>1 DEF LiveInv, CallsOK
  <2>6. QED BY <2>1, <2>2, <2>3, <2>4, <2>5 DEF LiveInv
<1>5. QED BY <1>1, <1>2, <1>3, <1>4 DEF IInv

\* IInv is inductive: whatever step of whatever actor, with whatever fault.
LEMMA StepKeeps ==
  ASSUME IInv, [Next]_vars
  PROVE  IInv'
<1>1. CASE \E s \in Schedulers : Scheduler(s) BY <1>1, SchedulerKeeps
<1>2. CASE \E w \in Workers : Worker(w) BY <1>2, WorkerKeeps
<1>3. CASE \E h \in Handlers : Handler(h) BY <1>3, HandlerKeeps
<1>4. CASE \E r \in RetryHandlers : RetryHandler(r) BY <1>4, RetryHandlerKeeps
<1>5. CASE \E p \in Procs : MakeCall(p) BY <1>5, MakeCallKeeps
<1>6. CASE UNCHANGED vars BY <1>6, StutterKeeps
<1>7. QED BY <1>1, <1>2, <1>3, <1>4, <1>5, <1>6 DEF Next

\* The invariant holds in every execution of every workflow, with any number of
\* schedulers, workers, completion handlers and retry handlers and any faults.
THEOREM InvariantHolds == Spec => []IInv
<1>1. Init => IInv BY InitHolds
<1>2. IInv /\ [Next]_vars => IInv' BY StepKeeps
<1>3. QED BY <1>1, <1>2, PTL DEF Spec

\* The statuses, counters, queues and program counters keep their types: no
\* script decrements a counter below zero or stores a status of the wrong kind.
THEOREM TypeCorrect == Spec => []TypeOK
<1>1. IInv => TypeOK BY DEF IInv
<1>2. QED BY <1>1, InvariantHolds, PTL

\* Never more than max_concurrent_jobs jobs are QUEUED, PENDING_EXECUTION or
\* RUNNING, under every interleaving of the Lua scripts and every fault.
THEOREM ConcurrencyLimitHolds == Spec => []ConcurrencyLimit
<1>1. IInv => ConcurrencyLimit BY DEF IInv
<1>2. QED BY <1>1, InvariantHolds, PTL

\* reserved_execution_slots never understates the jobs that hold a slot in a
\* READY or RUNNING workflow, so no script promotes a job past the limit.
THEOREM SlotsCoverActiveHolds == Spec => []SlotsCoverActive
<1>1. IInv => SlotsCoverActive BY DEF IInv, LiveInv, SlotsCoverActive
<1>2. QED BY <1>1, InvariantHolds, PTL

-----------------------------------------------------------------------------
(* The refinement: one condition on the statuses maps to a step of the pool. *)

\* Only job p gains a slot, if it is not over; finished jobs stay finished in a
\* workflow that goes on, and a workflow that ended stays so.
Grants(p) ==
  /\ \A k \in Jobs : jobStatus'[k] \in ActiveStatus =>
       \/ jobStatus[k] \in ActiveStatus
       \/ k = p /\ Live /\ jobStatus[k] \notin TerminalStatus \cup {"DELETED"}
  /\ Live' => /\ Live
              /\ \A k \in Jobs : jobStatus[k] \in TerminalStatus \cup {"DELETED"} =>
                                 jobStatus'[k] \in TerminalStatus \cup {"DELETED"}

\* A step of that kind is a step of the abstract specification.
LEMMA GrantIsStep ==
  ASSUME NEW p, Grants(p), ConcurrencyLimit'
  PROVE  Slots!Next
<1>1. \A k \in Active' : k \in Jobs /\ (k \in Active \/ (k = p /\ Live /\ k \notin Finished))
  BY DEF Grants, Active, Finished
<1>2. Active \cap Finished = {} /\ Active' \cap Finished' = {}
  BY DEF Active, Finished, ActiveStatus, TerminalStatus
<1>3. Live' => Live /\ Finished \subseteq Finished'
  BY DEF Grants, Finished
<1>4. \A j, k \in Active' \ Active : j = k
  BY <1>1
<1>5. Over \subseteq Over'
  <2>1. CASE Live' BY <1>3, <2>1 DEF Over
  <2>2. CASE ~Live'
    <3>1. Finished \subseteq Jobs BY DEF Finished
    <3>2. QED BY <1>1, <1>2, <2>2, <3>1 DEF Over
  <2>3. QED BY <2>1, <2>2
<1>6. Active' \subseteq Jobs \ Over'
  <2>1. CASE Live' BY <1>1, <1>2, <2>1 DEF Over
  <2>2. CASE ~Live' BY <1>1, <2>2 DEF Over
  <2>3. QED BY <2>1, <2>2
<1>7. Cardinality(Active') =< MaxConcurrent BY DEF ConcurrencyLimit
<1>8. QED BY <1>4, <1>5, <1>6, <1>7 DEF Slots!Next, Slots!Cardinality, Cardinality

\* A step that changes no status grants nothing.
LEMMA NothingGranted ==
  ASSUME UNCHANGED <<wfStatus, jobStatus>>
  PROVE  Grants(NoJob)
BY DEF Grants, Live

-----------------------------------------------------------------------------
(* The scripts.                                                             *)

\* A scheduler claims a job that is QUEUED already: it grants nothing.
LEMMA SchedulerGrants ==
  ASSUME IInv, NEW s \in Schedulers, Scheduler(s)
  PROVE  Grants(NoJob)
<1>1. CASE Claimable(held[s]) /\ ClaimJob(held[s]) /\ pc[s] = "claim"
  <2>1. held[s] \in Jobs /\ RuntimeTypeOK
    BY <1>1 DEF IInv, TypeOK, ActorsOK, Procs
  <2>2. jobStatus[held[s]] = "QUEUED"
    BY <1>1 DEF IInv, NoSlotFromClaim, Claimable
  <2>3. /\ jobStatus' = [jobStatus EXCEPT ![held[s]] = "PENDING_EXECUTION"]
        /\ UNCHANGED wfStatus
    BY <1>1 DEF ClaimJob
  <2>4. QED BY <2>1, <2>2, <2>3 DEF Grants, Live, ActiveStatus, TerminalStatus, RuntimeTypeOK
<1>2. CASE UNCHANGED <<wfStatus, jobStatus>> BY <1>2, NothingGranted
<1>3. QED
  BY <1>1, <1>2 DEF Scheduler, PopJob, PopForExecution, Claim, Dispatch, RejectPayload, LoseJob,
     redisVars

\* The start script keeps the slot of the job it starts, or takes it away.
LEMMA WorkerGrants ==
  ASSUME IInv, NEW w \in Workers, Worker(w)
  PROVE  Grants(NoJob)
<1>1. CASE try_set_job_to_running(held[w]) /\ pc[w] = "start"
  <2>1. held[w] \in Jobs /\ RuntimeTypeOK
    BY <1>1 DEF IInv, TypeOK, ActorsOK, Procs
  <2>2. Live => jobStatus[held[w]] = "PENDING_EXECUTION"
    BY <1>1 DEF IInv, LiveInv, WorkersMatchStatus
  <2>3. /\ jobStatus' = [jobStatus EXCEPT ![held[w]] =
             IF @ # "PENDING_EXECUTION" THEN @ ELSE IF Live THEN "RUNNING" ELSE "ABORTED"]
        /\ ~Live => ~Live'
    BY <1>1 DEF try_set_job_to_running, Startable, Live
  <2>4. QED BY <2>1, <2>2, <2>3 DEF Grants, ActiveStatus, TerminalStatus, RuntimeTypeOK
<1>2. CASE UNCHANGED <<wfStatus, jobStatus>> BY <1>2, NothingGranted
<1>3. QED
  BY <1>1, <1>2 DEF Worker, FetchJob, StartJob, StartFails, ExecuteJob, Report, redisVars

\* The script of a completion takes the slot of its job and grants one to a
\* waiting job, READY until then, or to a successor that was PENDING.
LEMMA CompletionGrants ==
  ASSUME IInv, NEW h \in Handlers, CompleteSuccessful(h)
  PROVE  \E p \in Jobs \cup {NoJob} : Grants(p)
<1> DEFINE j == held[h]
<1>1. pc[h] = "complete" /\ j \in Jobs /\ verdict[h] = "COMPLETED" /\ RuntimeTypeOK
  BY DEF CompleteSuccessful, IInv, TypeOK, ActorsOK, Procs
<1>2. CASE \E p \in PromotableAfter(j) : Completable(j) /\ complete_successful_job(j, p)
  <2>1. PICK p \in PromotableAfter(j) : Completable(j) /\ complete_successful_job(j, p)
    BY <1>2
  <2>2. Live /\ LiveInv BY <2>1 DEF Completable, Live, IInv
  <2>3. jobStatus[j] = "RUNNING"
    BY <1>1, <2>2 DEF LiveInv, OutcomesMatchStatus, StatusOf, Deciding
  <2>4. p = NoJob \/ p \in waiting \cup NewlyReady(j)
    BY <2>1, PromotableIn DEF PromotableAfter
  <2>5. p \in Jobs => jobStatus[p] \in {"READY", "PENDING"}
    BY <2>2, <2>4, JobsAssumption DEF LiveInv, QueuesMatchStatus, NewlyReady
  <2>6. p \in Jobs \cup {NoJob}
    BY <1>1, <2>1, CompleteSuccessfulTypes
  <2>7. \A k \in Jobs : jobStatus'[k] = IF k = p THEN "QUEUED"
                                        ELSE IF k = j THEN "COMPLETED"
                                        ELSE IF k \in NewlyReady(j) THEN "READY" ELSE jobStatus[k]
    BY <2>1 DEF complete_successful_job
  <2>8. \A k \in NewlyReady(j) : jobStatus[k] = "PENDING" BY DEF NewlyReady
  <2>9. Grants(p)
    BY <2>2, <2>3, <2>5, <2>7, <2>8 DEF Grants, ActiveStatus, TerminalStatus
  <2>10. QED BY <2>6, <2>9
<1>3. CASE expire_workflow
  <2>1. Grants(NoJob) BY <1>3 DEF expire_workflow, Grants, Live
  <2>2. QED BY <2>1
<1>4. CASE UNCHANGED <<wfStatus, jobStatus>> BY <1>4, NothingGranted
<1>5. QED BY <1>2, <1>3, <1>4 DEF CompleteSuccessful, redisVars

\* The script of a retry takes the slot of the job it parks and grants one to a
\* waiting job, but only in a RUNNING workflow.
LEMMA RetryGrants ==
  ASSUME IInv, NEW h \in Handlers, ScheduleRetry(h)
  PROVE  \E p \in Jobs \cup {NoJob} : Grants(p)
<1> DEFINE j == held[h]
<1>1. pc[h] = "retry" /\ j \in Jobs /\ verdict[h] = "FAILED" /\ RuntimeTypeOK
  BY DEF ScheduleRetry, IInv, TypeOK, ActorsOK, Procs
<1>2. CASE \E p \in PromotableOnRetry : schedule_job_retry(j, p)
  <2>1. PICK p \in PromotableOnRetry : schedule_job_retry(j, p) BY <1>2
  <2>2. p \in Jobs \cup {NoJob} BY <1>1, <2>1, ScheduleRetryTypes
  <2>3. Live => LiveInv /\ jobStatus[j] = "RUNNING"
    BY <1>1 DEF IInv, LiveInv, OutcomesMatchStatus, StatusOf, Deciding
  <2>4. p = NoJob \/ (Live /\ p \in waiting)
    BY <2>1, PromotableIn DEF PromotableOnRetry, Live
  <2>5. p \in Jobs => Live /\ jobStatus[p] = "READY"
    BY <2>3, <2>4, JobsAssumption DEF LiveInv, QueuesMatchStatus
  <2>6. \A k \in Jobs : jobStatus'[k] = IF k = p THEN "QUEUED"
                                        ELSE IF k = j THEN "RETRY_DELAY" ELSE jobStatus[k]
    BY <2>1 DEF schedule_job_retry
  <2>7. Live' => Live
    BY <2>1 DEF schedule_job_retry, TouchedWorkflow, Live
  <2>8. Grants(p)
    BY <2>3, <2>5, <2>6, <2>7 DEF Grants, ActiveStatus, TerminalStatus
  <2>9. QED BY <2>2, <2>8
<1>3. CASE UNCHANGED <<wfStatus, jobStatus>> BY <1>3, NothingGranted
<1>4. QED BY <1>2, <1>3 DEF ScheduleRetry, redisVars

\* The script of a failure only takes slots away.
LEMMA FailureGrants ==
  ASSUME IInv, NEW h \in Handlers, CompleteFailed(h)
  PROVE  Grants(NoJob)
<1>1. CASE complete_failed_job(held[h])
  <2>1. \A k \in Jobs : jobStatus'[k] \in {"FAILED", "ABORTED", jobStatus[k]}
    BY <1>1 DEF complete_failed_job
  <2>2. Live' => Live
    BY <1>1 DEF complete_failed_job, TouchedWorkflow, Live
  <2>3. QED BY <2>1, <2>2 DEF Grants, ActiveStatus, TerminalStatus
<1>2. CASE UNCHANGED <<wfStatus, jobStatus>> BY <1>2, NothingGranted
<1>3. QED BY <1>1, <1>2 DEF CompleteFailed, redisVars

\* The steps of a completion handler.
LEMMA HandlerGrants ==
  ASSUME IInv, NEW h \in Handlers, Handler(h)
  PROVE  \E p \in Jobs \cup {NoJob} : Grants(p)
<1>1. CASE UNCHANGED <<wfStatus, jobStatus>> BY <1>1, NothingGranted
<1>2. CASE CompleteFailed(h) BY <1>2, FailureGrants
<1>3. QED
  BY <1>1, <1>2, CompletionGrants, RetryGrants DEF Handler, DequeueCompletion, FetchWorkflow,
     RepairMissingRuntime, InspectFailure, redisVars

\* The promotion of a retried job grants a slot to it or to a waiting job, in a
\* RUNNING workflow; in one that ended it aborts the job.
LEMMA RetryHandlerGrants ==
  ASSUME IInv, NEW r \in RetryHandlers, RetryHandler(r)
  PROVE  \E p \in Jobs \cup {NoJob} : Grants(p)
<1> DEFINE j == held[r]
<1>1. CASE pc[r] = "promote" /\ \E p \in PromotableWith(j) : promote_retry_job(j, p)
  <2>1. PICK p \in PromotableWith(j) : promote_retry_job(j, p) BY <1>1
  <2>2. j \in Jobs /\ RuntimeTypeOK BY <1>1 DEF IInv, TypeOK, ActorsOK, Procs
  <2>3. p \in Jobs \cup {NoJob} BY <2>1, <2>2, PromoteRetryTypes
  <2>4. wfStatus' = wfStatus /\ (Live' <=> Live) BY <2>1 DEF promote_retry_job, Live
  <2>5. CASE Promotes(j)
    <3>1. Live /\ LiveInv BY <2>5 DEF Promotes, Live, IInv
    <3>2. p = NoJob \/ p \in waiting \cup {j}
      BY <2>1, <2>5, PromotableIn DEF PromotableWith
    <3>3. jobStatus[j] \in {"RETRY_DELAY", "READY"} BY <2>5 DEF Promotes
    <3>4. p \in Jobs => jobStatus[p] \in {"RETRY_DELAY", "READY"}
      BY <3>1, <3>2, <3>3, JobsAssumption DEF LiveInv, QueuesMatchStatus
    <3>5. \A k \in Jobs : jobStatus'[k] = IF k = p THEN "QUEUED"
                                          ELSE IF k = j THEN "READY" ELSE jobStatus[k]
      BY <2>1, <2>5 DEF promote_retry_job
    <3>6. Grants(p)
      BY <2>4, <3>1, <3>3, <3>4, <3>5 DEF Grants, ActiveStatus, TerminalStatus
    <3>7. QED BY <2>3, <3>6
  <2>6. CASE ~Promotes(j)
    <3>1. p = NoJob BY <2>1, <2>6 DEF PromotableWith
    <3>2. \A k \in Jobs : jobStatus'[k] \in {"ABORTED", jobStatus[k]}
      BY <2>1, <2>6, <3>1, JobsAssumption DEF promote_retry_job
    <3>3. Grants(NoJob) BY <2>4, <3>2 DEF Grants, ActiveStatus, TerminalStatus
    <3>4. QED BY <3>3
  <2>7. QED BY <2>5, <2>6
<1>2. CASE UNCHANGED <<wfStatus, jobStatus>> BY <1>2, NothingGranted
<1>3. QED
  BY <1>1, <1>2 DEF RetryHandler, DequeueRetry, dequeue_due_job_retry, PromoteRetry, redisVars

\* The calls after a script abort or delete jobs, and grant nothing.
LEMMA CallGrants ==
  ASSUME IInv, NEW p \in Procs, MakeCall(p)
  PROVE  Grants(NoJob)
<1>1. CASE RedisCall(p) /\ UNCHANGED <<stream, localQueue>>
  <2>1. CallEffect BY <1>1, RedisCallEffect
  <2>2. \A k \in Jobs : jobStatus'[k] \in {"ABORTED", "DELETED", jobStatus[k]}
    BY <2>1 DEF CallEffect
  <2>3. Live' => Live BY <2>1 DEF CallEffect, Live
  <2>4. QED BY <2>2, <2>3 DEF Grants, ActiveStatus, TerminalStatus
<1>2. CASE UNCHANGED <<wfStatus, jobStatus>> BY <1>2, NothingGranted
<1>3. QED
  BY <1>1, <1>2 DEF MakeCall, UpdateJobStatus, UpdateWorkflowStatus, UpdateReadyJobs, SweepJobs,
     UpdateRuntime, SqliteFails, RedisFails, redisVars

-----------------------------------------------------------------------------
(* The refinement.                                                          *)

\* The first jobs are published within the limit, and none is finished.
LEMMA InitRefines == Init => Slots!Init
<1> SUFFICES ASSUME Init PROVE Slots!Init OBVIOUS
<1>1. IInv BY InitHolds
<1>2. Active \in SUBSET Jobs /\ Cardinality(Active) =< MaxConcurrent
  BY <1>1 DEF Active, IInv, ConcurrencyLimit
<1>3. PICK Q \in SUBSET Roots : initialize_runtime_data(Q) BY DEF Init
<1>4. wfStatus = "READY" /\ \A k \in Jobs : jobStatus[k] \in {"QUEUED", "READY", "PENDING"}
  BY <1>3 DEF initialize_runtime_data, InitialStatus
<1>5. Over = {} BY <1>4 DEF Over, Live, Finished, TerminalStatus
<1>6. QED BY <1>2, <1>5 DEF Slots!Init, Slots!Cardinality, Cardinality

\* Every step of every actor is a step of the slot pool.
LEMMA StepRefines ==
  ASSUME IInv, [Next]_vars
  PROVE  [Slots!Next]_<<Active, Over>>
<1>1. CASE Next
  <2>1. \E p \in Jobs \cup {NoJob} : Grants(p)
    BY <1>1, SchedulerGrants, WorkerGrants, HandlerGrants, RetryHandlerGrants, CallGrants DEF Next
  <2>2. IInv' BY <1>1, StepKeeps
  <2>3. ConcurrencyLimit' BY <2>2 DEF IInv
  <2>4. QED BY <2>1, <2>3, GrantIsStep
<1>2. CASE UNCHANGED vars
  <2>1. UNCHANGED <<wfStatus, jobStatus>> BY <1>2 DEF vars, redisVars
  <2>2. UNCHANGED <<Active, Over>> BY <2>1 DEF Active, Over, Live, Finished
  <2>3. QED BY <2>2
<1>3. QED BY <1>1, <1>2

\* The execution of a workflow implements the abstract slot pool, under every
\* interleaving of the scripts and every fault: slots are granted one at a time
\* and within the limit, and never to a job that is over.
THEOREM RefinesSlotAllocation == Spec => ImplementsSlotAllocation
<1>1. Init => Slots!Init BY InitRefines
<1>2. IInv /\ [Next]_vars => [Slots!Next]_<<Active, Over>> BY StepRefines
<1>3. QED BY <1>1, <1>2, InvariantHolds, PTL DEF Spec, ImplementsSlotAllocation, Slots!Spec
=============================================================================
