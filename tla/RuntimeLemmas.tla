--------------------------- MODULE RuntimeLemmas ----------------------------
(***************************************************************************)
(* Lemmas about the operators of modules WorkflowRuntime and Execution:    *)
(* the sequences of calls an actor makes, the types of what the scripts    *)
(* and the moves leave behind, and the sizes of sets of jobs.              *)
(***************************************************************************)
EXTENDS ExecutionInvariant, FiniteSetTheorems, TLAPS

\* Time limits of the provers, per step.
USE SMTT(60), ZenonT(60)

-----------------------------------------------------------------------------
(* Sequences of calls.                                                      *)

\* One call, and an optional part of a sequence, are sequences of calls.
LEMMA OneCall ==
  ASSUME NEW S, NEW c \in S
  PROVE  <<c>> \in Seq(S)
OBVIOUS

\* An optional part of a sequence of calls.
LEMMA WhenSeq ==
  ASSUME NEW S, NEW s \in Seq(S), NEW b \in BOOLEAN
  PROVE  When(b, s) \in Seq(S)
BY DEF When

\* Sequences of calls can be joined.
LEMMA JoinSeq ==
  ASSUME NEW S, NEW s \in Seq(S), NEW t \in Seq(S)
  PROVE  s \o t \in Seq(S)
OBVIOUS

\* The head of a queue and what is left of it.
LEMMA HeadTail ==
  ASSUME NEW S, NEW s \in Seq(S), s # <<>>
  PROVE  /\ Head(s) \in S /\ Tail(s) \in Seq(S) /\ Len(Tail(s)) = Len(s) - 1
         /\ \A i \in 1..Len(Tail(s)) : Tail(s)[i] = s[i + 1]
OBVIOUS

\* A queue with one more entry at its end.
LEMMA SeqAppend ==
  ASSUME NEW S, NEW s \in Seq(S), NEW e \in S
  PROVE  /\ Append(s, e) \in Seq(S) /\ Len(Append(s, e)) = Len(s) + 1
         /\ \A i \in 1..Len(s) : Append(s, e)[i] = s[i]
         /\ Append(s, e)[Len(s) + 1] = e
OBVIOUS

\* The length of a queue and its entries.
LEMMA SeqLen ==
  ASSUME NEW S, NEW s \in Seq(S)
  PROVE  Len(s) \in Nat /\ DOMAIN s = 1..Len(s)
OBVIOUS

\* An entry of a queue.
LEMMA SeqElement ==
  ASSUME NEW S, NEW s \in Seq(S), NEW i \in 1..Len(s)
  PROVE  s[i] \in S
OBVIOUS

\* The empty queue, and the length of one that is not empty.
LEMMA SeqEmpty ==
  ASSUME NEW S
  PROVE  /\ <<>> \in Seq(S) /\ Len(<<>>) = 0
         /\ \A s \in Seq(S) : s # <<>> => Len(s) \in Nat \ {0}
OBVIOUS

\* Sequences over a smaller set are sequences over a larger one.
LEMMA WiderSeq ==
  ASSUME NEW S, NEW T, NEW s \in Seq(S), S \subseteq T
  PROVE  s \in Seq(T)
OBVIOUS

\* Calls built by CallOn are well typed.
LEMMA CallOnType ==
  ASSUME NEW op \in Op \ {"workflow_status"}, NEW S \in SUBSET Jobs, NEW st \in StoredStatus
  PROVE  CallOn(op, S, st) \in CallType
BY DEF CallOn, CallType

\* The call that stores a workflow status in SQLite.
LEMMA SetWorkflowType ==
  ASSUME NEW st \in {"RUNNING", "COMPLETED", "FAILED"}
  PROVE  SetWorkflow(st) \in CallType
BY DEF SetWorkflow, CallOn, CallType, Op, StoredStatus, WaitingStatus, ActiveStatus, TerminalStatus

\* The calls the actors make are calls of the right type.
LEMMA CallTypes ==
  /\ \A S \in SUBSET Jobs, st \in StoredStatus : SetJobs(S, st) \in CallType
  /\ \A Q \in SUBSET Jobs, R \in SUBSET Jobs : UpdateReady(Q, R) \in CallType
  /\ \A S \in SUBSET Jobs : Sweep(S) \in CallType
  /\ \A j \in Jobs : AbortRuntime(j) \in CallType
  /\ Cleanup \in Seq(CallType)
<1> USE DEF Op, StoredStatus, WaitingStatus, ActiveStatus, TerminalStatus
<1>1. \A S \in SUBSET Jobs, st \in StoredStatus : SetJobs(S, st) \in CallType
  BY CallOnType DEF SetJobs
<1>2. \A Q \in SUBSET Jobs, R \in SUBSET Jobs : UpdateReady(Q, R) \in CallType
  BY DEF UpdateReady, CallOn, CallType
<1>3. \A S \in SUBSET Jobs : Sweep(S) \in CallType
  BY CallOnType DEF Sweep
<1>4. \A j \in Jobs : AbortRuntime(j) \in CallType
  BY CallOnType DEF AbortRuntime
<1>5. Cleanup \in Seq(CallType)
  <2>1. \A op \in {"unlist", "drop_jobs", "drop_workflow"} :
          CallOn(op, {}, "COMPLETED") \in CallType
    BY CallOnType
  <2>2. QED BY <2>1 DEF Cleanup
<1>6. QED BY <1>1, <1>2, <1>3, <1>4, <1>5

\* Calls that no invariant constrains: everything but the writes to Redis.
PlainCalls ==
  {c \in CallType : c.op \notin {"abort_runtime", "unlist", "drop_jobs", "drop_workflow"}}

\* Plain calls, which only change SQLite, are harmless at any time.
LEMMA PlainCallsOK ==
  /\ PlainCalls \subseteq CallType /\ Seq(PlainCalls) \subseteq Seq(CallType)
  /\ Seq(PlainCalls) \subseteq Seq(OKCalls) /\ Seq(PlainCalls) \subseteq Seq(OKCalls')
<1>1. PlainCalls \subseteq CallType /\ PlainCalls \subseteq OKCalls /\ PlainCalls \subseteq OKCalls'
  BY DEF PlainCalls, OKCalls, CallOK
<1>2. QED BY <1>1, WiderSeq

\* The calls that update SQLite are plain.
LEMMA PlainTypes ==
  /\ \A S \in SUBSET Jobs, st \in StoredStatus : SetJobs(S, st) \in PlainCalls
  /\ \A st \in {"RUNNING", "COMPLETED", "FAILED"} : SetWorkflow(st) \in PlainCalls
  /\ \A Q \in SUBSET Jobs, R \in SUBSET Jobs : UpdateReady(Q, R) \in PlainCalls
  /\ \A S \in SUBSET Jobs : Sweep(S) \in PlainCalls
<1>1. \A S \in SUBSET Jobs, st \in StoredStatus : SetJobs(S, st) \in PlainCalls
  BY CallTypes DEF SetJobs, CallOn, PlainCalls
<1>2. \A st \in {"RUNNING", "COMPLETED", "FAILED"} : SetWorkflow(st) \in PlainCalls
  BY SetWorkflowType DEF SetWorkflow, CallOn, PlainCalls
<1>3. \A Q \in SUBSET Jobs, R \in SUBSET Jobs : UpdateReady(Q, R) \in PlainCalls
  <2>1. SUFFICES ASSUME NEW Q \in SUBSET Jobs, NEW R \in SUBSET Jobs
                 PROVE  UpdateReady(Q, R) \in PlainCalls
    OBVIOUS
  <2>2. UpdateReady(Q, R).op = "ready_jobs"
    BY DEF UpdateReady, CallOn
  <2>3. QED BY <2>2, CallTypes DEF PlainCalls
<1>4. \A S \in SUBSET Jobs : Sweep(S) \in PlainCalls
  BY CallTypes DEF Sweep, CallOn, PlainCalls
<1>5. QED BY <1>1, <1>2, <1>3, <1>4

-----------------------------------------------------------------------------
(* Each script keeps the types of the Redis state.                          *)

\* The job a script promotes, if any, is one of the jobs it chose from.
LEMMA HighestIn ==
  \A S : Highest(S) \subseteq S
BY DEF Highest

\* A promoted job comes from the waiting jobs, and only below the limit.
LEMMA PromotableIn ==
  ASSUME NEW S, NEW n, NEW p \in Promotable(S, n)
  PROVE  p = NoJob \/ (p \in S /\ n < MaxConcurrent)
BY HighestIn DEF Promotable

\* Giving a slot back never makes the counter negative.
LEMMA FreedType ==
  ASSUME RuntimeTypeOK
  PROVE  Freed \in Nat /\ (reserved > 0 => Freed = reserved - 1)
BY DEF RuntimeTypeOK, Freed

\* The pop, the claim and the start script.
LEMMA SchedulerScriptTypes ==
  ASSUME RuntimeTypeOK, NEW j \in Jobs,
         PopForExecution(j) \/ ClaimJob(j) \/ try_set_job_to_running(j)
  PROVE  RuntimeTypeOK'
<1> USE DEF RuntimeTypeOK, JobStatus, StoredStatus, WaitingStatus, ActiveStatus,
            TerminalStatus, WorkflowStatus
<1>1. CASE PopForExecution(j) BY <1>1 DEF PopForExecution
<1>2. CASE ClaimJob(j) BY <1>2 DEF ClaimJob
<1>3. CASE try_set_job_to_running(j) BY <1>3 DEF try_set_job_to_running, Live
<1>4. QED BY <1>1, <1>2, <1>3

\* complete_successful_job_runtime_async, which promotes a job or none.
LEMMA CompleteSuccessfulTypes ==
  ASSUME RuntimeTypeOK, NEW j \in Jobs, NEW p \in PromotableAfter(j),
         complete_successful_job(j, p)
  PROVE  RuntimeTypeOK' /\ p \in Jobs \cup {NoJob}
<1> USE DEF RuntimeTypeOK
<1>1. NewlyReady(j) \subseteq Jobs
  BY DEF NewlyReady
<1>2. p \in Jobs \cup {NoJob}
  BY <1>1, PromotableIn DEF PromotableAfter
<1>3. jobStatus' \in [Jobs -> JobStatus]
  BY DEF complete_successful_job, JobStatus, StoredStatus, WaitingStatus, ActiveStatus, TerminalStatus
<1>4. remaining' \in [Jobs -> Nat]
  <2>1. \A k \in Jobs : remaining'[k] \in Nat
    BY <1>1 DEF complete_successful_job, NewlyReady
  <2>2. QED BY <2>1 DEF complete_successful_job
<1>5. wfStatus' \in WorkflowStatus
  BY DEF complete_successful_job, WorkflowStatus
<1>6. reserved' \in Nat /\ completed' \in Nat
  BY FreedType DEF complete_successful_job
<1>7. successors' \in [Jobs -> SUBSET Jobs]
  BY DEF complete_successful_job
<1>8. waiting' \subseteq Jobs /\ execQueue' \subseteq Jobs
  BY <1>1, <1>2 DEF complete_successful_job
<1>9. QED BY <1>2, <1>3, <1>4, <1>5, <1>6, <1>7, <1>8 DEF complete_successful_job

\* The jobs a failure cancels are finitely many jobs of the workflow.
LEMMA CanceledType ==
  ASSUME NEW j \in Jobs
  PROVE  Canceled(j) \subseteq Jobs /\ Cardinality(Canceled(j)) \in Nat
<1>1. Canceled(j) \subseteq Jobs BY DEF Canceled
<1>2. QED BY <1>1, FS_Subset, FS_CardinalityType, JobsAssumption

\* complete_failed_job_runtime_async.
LEMMA CompleteFailedTypes ==
  ASSUME RuntimeTypeOK, NEW j \in Jobs, complete_failed_job(j)
  PROVE  RuntimeTypeOK'
<1> USE DEF RuntimeTypeOK
<1>1. jobStatus' \in [Jobs -> JobStatus]
  BY DEF complete_failed_job, JobStatus, StoredStatus, WaitingStatus, ActiveStatus, TerminalStatus
<1>2. wfStatus' \in WorkflowStatus
  BY DEF complete_failed_job, TouchedWorkflow, WorkflowStatus
<1>3. reserved' \in Nat /\ completed' \in Nat
  BY FreedType, CanceledType DEF complete_failed_job
<1>4. waiting' \subseteq Jobs /\ execQueue' \subseteq Jobs /\ retryQueue' \subseteq Jobs
  BY DEF complete_failed_job
<1>5. QED BY <1>1, <1>2, <1>3, <1>4 DEF complete_failed_job

\* schedule_job_retry_async, which promotes a waiting job or none.
LEMMA ScheduleRetryTypes ==
  ASSUME RuntimeTypeOK, NEW j \in Jobs, NEW p \in PromotableOnRetry, schedule_job_retry(j, p)
  PROVE  RuntimeTypeOK' /\ p \in Jobs \cup {NoJob}
<1> USE DEF RuntimeTypeOK
<1>1. p \in Jobs \cup {NoJob}
  BY PromotableIn DEF PromotableOnRetry
<1>2. jobStatus' \in [Jobs -> JobStatus]
  BY DEF schedule_job_retry, JobStatus, StoredStatus, WaitingStatus, ActiveStatus, TerminalStatus
<1>3. wfStatus' \in WorkflowStatus
  BY DEF schedule_job_retry, TouchedWorkflow, WorkflowStatus
<1>4. reserved' \in Nat /\ retries' \in [Jobs -> Nat]
  BY FreedType DEF schedule_job_retry
<1>5. waiting' \subseteq Jobs /\ execQueue' \subseteq Jobs /\ retryQueue' \subseteq Jobs
  BY <1>1 DEF schedule_job_retry
<1>6. QED BY <1>1, <1>2, <1>3, <1>4, <1>5 DEF schedule_job_retry

\* promote_retry_job_async, which promotes the job, another one or none.
LEMMA PromoteRetryTypes ==
  ASSUME RuntimeTypeOK, NEW j \in Jobs, NEW p \in PromotableWith(j), promote_retry_job(j, p)
  PROVE  RuntimeTypeOK' /\ p \in Jobs \cup {NoJob}
<1> USE DEF RuntimeTypeOK
<1>1. p \in Jobs \cup {NoJob}
  BY PromotableIn DEF PromotableWith
<1>2. jobStatus' \in [Jobs -> JobStatus]
  BY DEF promote_retry_job, JobStatus, StoredStatus, WaitingStatus, ActiveStatus, TerminalStatus
<1>3. reserved' \in Nat
  BY DEF promote_retry_job
<1>4. waiting' \subseteq Jobs /\ execQueue' \subseteq Jobs
  BY <1>1 DEF promote_retry_job
<1>5. QED BY <1>1, <1>2, <1>3, <1>4 DEF promote_retry_job

\* The expiry of a workflow, the abort of a job, the dequeue of a retry and the
\* three steps of the cleanup.
LEMMA SmallScriptTypes ==
  ASSUME RuntimeTypeOK, NEW j \in Jobs,
         \/ expire_workflow \/ abort_job(j) \/ dequeue_due_job_retry(j)
         \/ remove_active_workflow \/ delete_all_workflow_jobs \/ delete_workflow_runtime
  PROVE  RuntimeTypeOK'
<1> USE DEF RuntimeTypeOK, JobStatus, StoredStatus, WaitingStatus, ActiveStatus,
            TerminalStatus, WorkflowStatus
<1>1. CASE expire_workflow BY <1>1 DEF expire_workflow
<1>2. CASE abort_job(j) BY <1>2 DEF abort_job
<1>3. CASE dequeue_due_job_retry(j) BY <1>3 DEF dequeue_due_job_retry
<1>4. CASE remove_active_workflow BY <1>4, Zenon DEF remove_active_workflow
<1>5. CASE delete_all_workflow_jobs BY <1>5 DEF delete_all_workflow_jobs
<1>6. CASE delete_workflow_runtime BY <1>6 DEF delete_workflow_runtime
<1>7. QED BY <1>1, <1>2, <1>3, <1>4, <1>5, <1>6

-----------------------------------------------------------------------------
(* Each move keeps the types of the actors' state.                          *)

\* Every move of an actor keeps the types of its local state.
LEMMA MoveTypes ==
  ASSUME ActorTypeOK, NEW p \in Procs, NEW l \in PC, NEW s \in Seq(CallType),
         NEW v \in Verdict \cup {"NONE"}, NEW j \in Jobs \cup {NoJob},
         \/ Goto(p, l) \/ GotoCalls(p, l, s) \/ GotoWith(p, l, v)
         \/ Take(p, l, j, v) \/ Release(p)
  PROVE  ActorTypeOK'
<1> USE DEF ActorTypeOK
<1>1. CASE Goto(p, l) BY <1>1 DEF Goto
<1>2. CASE GotoCalls(p, l, s) BY <1>2 DEF GotoCalls
<1>3. CASE GotoWith(p, l, v)
  <2>1. <<>> \in Seq(CallType) OBVIOUS
  <2>2. QED BY <1>3, <2>1 DEF GotoWith
<1>4. CASE Take(p, l, j, v) BY <1>4 DEF Take
<1>5. CASE Release(p)
  <2>1. <<>> \in Seq(CallType) OBVIOUS
  <2>2. "idle" \in PC BY DEF PC
  <2>3. QED BY <1>5, <2>1, <2>2 DEF Release
<1>6. QED BY <1>1, <1>2, <1>3, <1>4, <1>5

-----------------------------------------------------------------------------
(* Finite sets of jobs.                                                     *)

\* Every set of jobs is finite.
LEMMA JobSetsFinite ==
  ASSUME NEW S \in SUBSET Jobs
  PROVE  IsFiniteSet(S) /\ Cardinality(S) \in Nat
BY JobsAssumption, FS_Subset, FS_CardinalityType

\* A subset of a set of jobs is no larger than the set.
LEMMA SmallerSet ==
  ASSUME NEW S \in SUBSET Jobs, NEW T \in SUBSET S
  PROVE  Cardinality(T) =< Cardinality(S)
BY JobSetsFinite, FS_Subset

\* A set of jobs as large as Jobs is Jobs.
LEMMA WholeSet ==
  ASSUME NEW S \in SUBSET Jobs, Cardinality(Jobs) =< Cardinality(S)
  PROVE  S = Jobs
<1>1. IsFiniteSet(Jobs) /\ IsFiniteSet(S) /\ Cardinality(S) \in Nat /\ Cardinality(Jobs) \in Nat
  BY JobSetsFinite, JobsAssumption, FS_CardinalityType
<1>2. Cardinality(S) =< Cardinality(Jobs)
  BY SmallerSet
<1>3. QED BY <1>1, <1>2, FS_Subset

\* Taking one job out of a set of jobs.
LEMMA WithoutOne ==
  ASSUME NEW S \in SUBSET Jobs, NEW j \in S
  PROVE  Cardinality(S \ {j}) = Cardinality(S) - 1 /\ Cardinality(S) > 0
<1>1. IsFiniteSet(S) BY JobSetsFinite
<1>2. Cardinality(S \ {j}) = Cardinality(S) - 1
  BY <1>1, FS_RemoveElement
<1>3. Cardinality(S) \in Nat /\ Cardinality(S \ {j}) \in Nat
  BY JobSetsFinite
<1>4. QED BY <1>2, <1>3

\* Adding one job to a set of jobs.
LEMMA WithOneMore ==
  ASSUME NEW S \in SUBSET Jobs, NEW j \in Jobs \ S
  PROVE  Cardinality(S \cup {j}) = Cardinality(S) + 1
BY JobSetsFinite, FS_AddElement

\* A step that only takes slots away keeps the concurrency limit.
LEMMA LimitKept ==
  ASSUME ConcurrencyLimit, Active' \subseteq Active
  PROVE  ConcurrencyLimit'
<1>1. Active \in SUBSET Jobs BY DEF Active
<1>2. Cardinality(Active') =< Cardinality(Active) /\ Cardinality(Active) \in Nat
      /\ Cardinality(Active') \in Nat
  BY <1>1, SmallerSet, JobSetsFinite
<1>3. QED BY <1>2, DefinitionAssumption DEF ConcurrencyLimit

-----------------------------------------------------------------------------
(* Pending calls and channel entries.                                       *)

\* A job that is finished stays finished, so a call that was harmless stays so.
LEMMA CallsStayOK ==
  ASSUME Finished \subseteq Finished'
  PROVE  Seq(OKCalls) \subseteq Seq(OKCalls')
<1>1. Finished' \subseteq Jobs BY DEF Finished
<1>2. OKCalls \subseteq OKCalls'
  BY <1>1 DEF OKCalls, CallOK
<1>3. QED BY <1>2, WiderSeq

\* The entries of the worker queues and of the stream.
LEMMA ChannelEntries ==
  ASSUME ChannelTypeOK
  PROVE  /\ \A i \in 1..Len(stream) :
              stream[i] \in Message /\ stream[i].job \in Jobs /\ stream[i].verdict \in Verdict
         /\ \A s \in Schedulers : \A i \in 1..Len(localQueue[s]) : localQueue[s][i] \in Jobs
<1>1. \A i \in 1..Len(stream) : stream[i] \in Message
  BY SeqElement DEF ChannelTypeOK
<1>2. \A m \in Message : m.job \in Jobs /\ m.verdict \in Verdict
  BY DEF Message
<1>3. \A s \in Schedulers : \A i \in 1..Len(localQueue[s]) : localQueue[s][i] \in Jobs
  BY SeqElement DEF ChannelTypeOK
<1>4. QED BY <1>1, <1>2, <1>3

\* No entry of the channels is repeated by a step that leaves them alone.
LEMMA EntriesStay ==
  ASSUME OneEntry, localQueue' = localQueue, stream' = stream
  PROVE  OneEntry'
  BY SMT DEF OneEntry
=============================================================================
