----------------------------- MODULE LoopProofs -----------------------------
(***************************************************************************)
(* Every step of a scheduler, a worker and a retry handler keeps the       *)
(* invariant IInv.                                                         *)
(***************************************************************************)
EXTENDS ChannelSteps

\* Time limits of the provers, per step.
USE SMTT(60), ZenonT(60)

-----------------------------------------------------------------------------
(* The scheduler's other steps.                                             *)

\* The popped job leaves the execution queue for the hands of one scheduler.
LEMMA PopJobKeeps ==
  ASSUME IInv, NEW s \in Schedulers, PopJob(s)
  PROVE  IInv'
<1>1. /\ RuntimeTypeOK /\ ActorTypeOK /\ ChannelTypeOK /\ DatabaseTypeOK
      /\ ActorsOK /\ NoSlotFromClaim /\ ConcurrencyLimit /\ s \in Procs
      /\ s \notin Workers /\ s \notin Handlers /\ s \notin RetryHandlers
  BY ActorsAssumption DEF IInv, TypeOK, Procs
<1>2. PICK j \in execQueue : PopForExecution(j) /\ Take(s, "claim", j, "NONE")
  BY DEF PopJob
<1>3. j \in Jobs /\ pc[s] = "idle" /\ UNCHANGED <<dbVars, stream, localQueue>>
  BY <1>1 DEF RuntimeTypeOK, PopJob
<1>4. execQueue' = execQueue \ {j}
      /\ UNCHANGED <<wfStatus, jobStatus, reserved, completed, waiting, retryQueue>>
  BY <1>2 DEF PopForExecution
<1>5. RuntimeTypeOK' BY <1>1, <1>2, <1>3, SchedulerScriptTypes
<1>6. /\ ActorTypeOK' /\ OthersStay(s)
      /\ pc'[s] = "claim" /\ held'[s] = j /\ verdict'[s] = "NONE" /\ calls'[s] = calls[s]
  <2>1. "claim" \in PC BY DEF PC
  <2>2. QED BY <1>1, <1>2, <1>3, <2>1, TakeFacts
<1>7. TypeOK'
  BY <1>1, <1>3, <1>5, <1>6 DEF TypeOK, DatabaseTypeOK, ChannelTypeOK, dbVars
<1>8. ActorsOK'
  <2>1. OwnLoop(s)' BY <1>1, <1>3, <1>6 DEF OwnLoop
  <2>2. QED BY <1>1, <1>3, <1>6, <2>1, ActorsKept DEF ActorsOK
<1>9. ConcurrencyLimit' BY <1>1, <1>4 DEF ConcurrencyLimit, Active
<1>10. NoSlotFromClaim'
  BY <1>1, <1>2, <1>4, <1>6 DEF NoSlotFromClaim, OthersStay, Procs
<1>11. ASSUME Live' PROVE LiveInv'
  <2>1. Live /\ LiveInv BY <1>4, <1>11 DEF IInv, Live
  <2>2. SlotsCoverActive' /\ QueuesMatchStatus' /\ NothingRanYet'
    BY <1>4, <2>1 DEF LiveInv, SlotsCoverActive, QueuesMatchStatus, NothingRanYet, Live, Active, Finished
  <2>3. \A q \in Procs : OwnPlace(q)'
    <3>1. OwnPlace(s)'
      BY <1>1, <1>2, <1>4, <1>6, <2>1 DEF OwnPlace, LiveInv, QueuesMatchStatus
    <3>2. \A q \in Procs : OwnPlace(q) BY <2>1, OwnPlaces
    <3>3. QED BY <1>1, <1>4, <1>6, <3>1, <3>2, OthersInPlace
  <2>4. SchedulersMatchStatus' /\ WorkersMatchStatus' /\ RetriesMatchStatus' /\ SecondTryFails'
    BY <1>3, <1>4, <2>1, <2>3 DEF OwnPlace, LiveInv, SchedulersMatchStatus, WorkersMatchStatus,
                             RetriesMatchStatus, SecondTryFails, Procs
  <2>5. OutcomesMatchStatus'
    BY <1>3, <1>4, <2>1, <2>3 DEF OwnPlace, LiveInv, OutcomesMatchStatus, Procs, StatusOf
  <2>6. OnePop'
    BY <1>2, <1>4, <1>6, <2>1 DEF LiveInv, OnePop, OthersStay, Procs
  <2>7. OneRetry'
    BY <1>1, <1>4, <1>6, <2>1 DEF LiveInv, OneRetry, OthersStay, Procs
  <2>8. OneCarrier' /\ OneEntry'
    <3>1. \A q \in Procs : Carries(q)' => Carries(q) /\ held'[q] = held[q]
      BY <1>1, <1>6 DEF Carries, OthersStay
    <3>2. OneCarrier /\ OneEntry BY <2>1 DEF LiveInv
    <3>3. QED BY <1>3, <3>1, <3>2, CarriersStay, EntriesStay
  <2>9. CallsOK'
    <3>1. Seq(OKCalls) \subseteq Seq(OKCalls')
      BY <1>4, CallsStayOK DEF Finished
    <3>2. QED BY <1>6, <2>1, <3>1 DEF LiveInv, CallsOK, OthersStay
  <2>10. QED BY <2>2, <2>4, <2>5, <2>6, <2>7, <2>8, <2>9 DEF LiveInv
<1>12. QED BY <1>7, <1>8, <1>9, <1>10, <1>11 DEF IInv

\* A claim takes a job that has its slot already: QUEUED, not READY.
LEMMA ClaimKeeps ==
  ASSUME IInv, NEW s \in Schedulers, Claim(s)
  PROVE  IInv'
<1>1. /\ RuntimeTypeOK /\ ActorTypeOK /\ ChannelTypeOK /\ DatabaseTypeOK
      /\ ActorsOK /\ NoSlotFromClaim /\ ConcurrencyLimit /\ s \in Procs
      /\ s \notin Workers /\ s \notin Handlers /\ s \notin RetryHandlers
  BY ActorsAssumption DEF IInv, TypeOK, Procs
<1> DEFINE j == held[s]
<1>2. pc[s] = "claim" /\ j \in Jobs /\ UNCHANGED <<dbVars, stream, localQueue>>
  BY <1>1 DEF Claim, ActorsOK
<1>3. CASE Release(s) /\ UNCHANGED redisVars
  BY <1>1, <1>2, <1>3, ReleaseKeeps
<1>4. CASE Claimable(j) /\ ClaimJob(j) /\ Goto(s, "dispatch")
  <2>1. jobStatus[j] = "QUEUED"
    BY <1>1, <1>2, <1>4 DEF Claimable, NoSlotFromClaim
  <2>2. /\ jobStatus' = [jobStatus EXCEPT ![j] = "PENDING_EXECUTION"]
        /\ UNCHANGED <<wfStatus, reserved, completed, waiting, execQueue, retryQueue>>
    BY <1>4 DEF ClaimJob
  <2>3. RuntimeTypeOK' BY <1>1, <1>2, <1>4, SchedulerScriptTypes
  <2>4. /\ ActorTypeOK' /\ OthersStay(s)
        /\ pc'[s] = "dispatch" /\ held'[s] = j /\ verdict'[s] = verdict[s] /\ calls'[s] = calls[s]
    <3>1. "dispatch" \in PC BY DEF PC
    <3>2. QED BY <1>1, <1>4, <3>1, GotoFacts
  <2>5. TypeOK'
    BY <1>1, <1>2, <2>3, <2>4 DEF TypeOK, DatabaseTypeOK, ChannelTypeOK, dbVars
  <2>6. ActorsOK'
    <3>1. OwnLoop(s)' BY <1>1, <1>2, <2>4 DEF OwnLoop
    <3>2. QED BY <1>1, <1>2, <2>4, <3>1, ActorsKept DEF ActorsOK
  <2>7. Active' = Active
    BY <1>1, <1>2, <2>1, <2>2 DEF Active, ActiveStatus, RuntimeTypeOK
  <2>8. ConcurrencyLimit' BY <1>1, <2>7 DEF ConcurrencyLimit
  <2>9. NoSlotFromClaim'
    BY <1>1, <1>2, <2>2, <2>4 DEF NoSlotFromClaim, OthersStay, Procs, RuntimeTypeOK
  <2>10. ASSUME Live' PROVE LiveInv'
    <3>1. Live /\ LiveInv BY <2>2, <2>10 DEF IInv, Live
    <3>2. \A k \in Jobs \ {j} : jobStatus'[k] = jobStatus[k]
      BY <1>1, <2>2 DEF RuntimeTypeOK
    <3>3. jobStatus'[j] = "PENDING_EXECUTION"
      BY <1>1, <1>2, <2>2 DEF RuntimeTypeOK
    <3>4. ActorStep(s)
      BY <1>2, <2>2, <2>4, <3>2 DEF ActorStep, OthersStay, InHand
    <3>5. OwnPlace(s)'
      BY <1>1, <2>4, <3>3 DEF OwnPlace
    <3>6. /\ SchedulersMatchStatus' /\ WorkersMatchStatus' /\ RetriesMatchStatus'
          /\ OutcomesMatchStatus' /\ SecondTryFails'
          /\ OnePop' /\ OneRetry' /\ OneCarrier' /\ OneEntry'
      BY <1>1, <2>5, <2>6, <3>1, <3>4, <3>5, ActorStepKeeps
    <3>7. SlotsCoverActive'
      BY <2>2, <2>7, <3>1 DEF LiveInv, SlotsCoverActive
    <3>8. QueuesMatchStatus'
      <4>1. j \notin execQueue /\ j \notin waiting /\ j \notin retryQueue
        BY <1>2, <2>1, <3>1 DEF LiveInv, OnePop, QueuesMatchStatus
      <4>2. QED BY <1>1, <2>2, <3>1, <3>2, <4>1 DEF LiveInv, QueuesMatchStatus, RuntimeTypeOK
    <3>9. Finished' = Finished
      BY <1>2, <2>1, <3>2, <3>3 DEF Finished, TerminalStatus
    <3>10. NothingRanYet'
      BY <2>2, <3>1, <3>2, <3>3, <3>9 DEF LiveInv, NothingRanYet
    <3>11. CallsOK'
      BY <2>4, <3>1, <3>9, CallsStayOK DEF LiveInv, CallsOK, OthersStay
    <3>12. QED BY <3>6, <3>7, <3>8, <3>10, <3>11 DEF LiveInv
  <2>11. QED BY <2>5, <2>6, <2>8, <2>9, <2>10 DEF IInv
<1>5. QED BY <1>3, <1>4 DEF Claim

\* Every step of a scheduler keeps the invariant.
LEMMA SchedulerKeeps ==
  ASSUME IInv, NEW s \in Schedulers, Scheduler(s)
  PROVE  IInv'
<1>1. s \in Procs BY DEF Procs
<1>2. CASE RejectPayload(s)
  <2>1. pc[s] = "dispatch" /\ Carries(s)
    BY <1>2 DEF RejectPayload, Carries
  <2>2. Live => jobStatus[held[s]] \in StatusOf("UNFETCHED")
    BY <2>1 DEF IInv, LiveInv, SchedulersMatchStatus, StatusOf
  <2>3. "UNFETCHED" \in Verdict \ {"INTERNAL"} BY DEF Verdict
  <2>4. QED BY <1>1, <1>2, <2>1, <2>2, <2>3, PublishKeeps DEF RejectPayload
<1>3. CASE LoseJob(s)
  BY <1>1, <1>3, ReleaseKeeps DEF LoseJob
<1>4. QED BY <1>2, <1>3, PopJobKeeps, ClaimKeeps, DispatchKeeps DEF Scheduler

-----------------------------------------------------------------------------
(* The worker's steps.                                                      *)

\* The SQLite calls that follow the start of a job are plain.
LEMMA StartCallsType ==
  ASSUME NEW j \in Jobs
  PROVE  StartCalls(j) \in Seq(PlainCalls)
<1>1. SetWorkflow("RUNNING") \in PlainCalls BY PlainTypes
<1>2. "RUNNING" \in StoredStatus BY DEF StoredStatus, ActiveStatus
<1>3. SetJobs({j}, "RUNNING") \in PlainCalls BY <1>2, PlainTypes
<1>4. When(wfStatus = "READY", <<SetWorkflow("RUNNING")>>) \in Seq(PlainCalls)
  BY <1>1, OneCall, WhenSeq, Zenon
<1>5. <<SetJobs({j}, "RUNNING")>> \in Seq(PlainCalls)
  BY <1>3, OneCall
<1>6. QED BY <1>4, <1>5, JoinSeq DEF StartCalls

\* The start script: the job runs, or it is refused and the workflow fails.
LEMMA StartJobKeeps ==
  ASSUME IInv, NEW w \in Workers, StartJob(w)
  PROVE  IInv'
<1> DEFINE j == held[w]
<1>1. /\ RuntimeTypeOK /\ ActorTypeOK /\ ActorsOK /\ w \in Procs
      /\ w \notin Schedulers /\ w \notin Handlers /\ w \notin RetryHandlers
  BY ActorsAssumption DEF IInv, TypeOK, Procs
<1>2. pc[w] = "start" /\ j \in Jobs /\ UNCHANGED <<dbVars, stream, localQueue>>
  BY <1>1 DEF StartJob, ActorsOK
<1>3. try_set_job_to_running(j) BY DEF StartJob
<1>4. RuntimeTypeOK' BY <1>1, <1>2, <1>3, SchedulerScriptTypes
<1>5. StartCalls(j) \in Seq(PlainCalls) /\ Seq(PlainCalls) \subseteq Seq(CallType)
      /\ Seq(PlainCalls) \subseteq Seq(OKCalls')
  BY <1>2, StartCallsType, PlainCallsOK
<1>6. /\ ActorTypeOK' /\ OthersStay(w) /\ held'[w] = j /\ calls'[w] \in Seq(PlainCalls)
      /\ \/ pc'[w] = "mark" /\ Startable(j)
         \/ pc'[w] = "report" /\ verdict'[w] = "ABORTED"
  <2>1. "mark" \in PC /\ "report" \in PC /\ "ABORTED" \in Verdict BY DEF PC, Verdict
  <2>2. StartCalls(j) \in Seq(CallType) BY <1>5
  <2>3. <<>> \in Seq(PlainCalls) OBVIOUS
  <2>4. CASE Startable(j) /\ GotoCalls(w, "mark", StartCalls(j))
    BY <1>1, <1>5, <2>1, <2>2, <2>4, GotoCallsFacts
  <2>5. CASE GotoWith(w, "report", "ABORTED")
    BY <1>1, <2>1, <2>3, <2>5, GotoWithFacts, Zenon
  <2>6. QED BY <2>4, <2>5 DEF StartJob
<1>7. OwnLoop(w)'
  BY <1>1, <1>2, <1>6 DEF OwnLoop
<1>8. /\ \A k \in Jobs \ {j} : jobStatus'[k] = jobStatus[k]
      /\ jobStatus'[j] = IF jobStatus[j] # "PENDING_EXECUTION" THEN jobStatus[j]
                         ELSE IF Live THEN "RUNNING" ELSE "ABORTED"
      /\ wfStatus' = IF jobStatus[j] = "ABORTED" THEN wfStatus
                     ELSE IF Startable(j) THEN "RUNNING" ELSE "FAILED"
      /\ UNCHANGED <<reserved, completed, waiting, execQueue, retryQueue>>
  BY <1>1, <1>2, <1>3 DEF try_set_job_to_running, RuntimeTypeOK
<1>9. CASE ~Live
  <2>1. ~Live' BY <1>8, <1>9 DEF Live, Startable
  <2>2. Active' \subseteq Active BY <1>8, <1>9 DEF Active, ActiveStatus
  <2>3. \A k \in Jobs : jobStatus'[k] = "READY" => jobStatus[k] = "READY"
    BY <1>8
  <2>4. QED BY <1>1, <1>2, <1>4, <1>6, <1>7, <1>8, <2>1, <2>2, <2>3, DeadStepKeeps
<1>10. CASE Live
  <2>1. LiveInv /\ jobStatus[j] = "PENDING_EXECUTION"
    BY <1>2, <1>10 DEF IInv, LiveInv, WorkersMatchStatus
  <2>2. jobStatus'[j] = "RUNNING" /\ wfStatus' = "RUNNING" /\ Live'
    BY <1>8, <1>10, <2>1 DEF Startable, Live
  <2>3. Active' = Active
    BY <1>2, <1>8, <2>1, <2>2 DEF Active, ActiveStatus
  <2>4. SlotsCoverActive' BY <1>8, <1>10, <2>1, <2>3 DEF LiveInv, SlotsCoverActive
  <2>5. QueuesMatchStatus'
    BY <1>1, <1>8, <2>1 DEF LiveInv, QueuesMatchStatus, RuntimeTypeOK
  <2>6. NothingRanYet' BY <2>2 DEF NothingRanYet
  <2>7. Finished \subseteq Finished'
    BY <1>8, <2>1 DEF Finished, TerminalStatus
  <2>8. OwnPlace(w)'
    BY <1>1, <1>6, <2>2 DEF OwnPlace, StatusOf
  <2>9. ActorStep(w)
    <3>1. Carries(w) BY <1>2 DEF Carries
    <3>2. QED BY <1>2, <1>6, <1>8, <2>2, <3>1 DEF ActorStep, OthersStay, InHand
  <2>10. QED BY <1>1, <1>2, <1>4, <1>5, <1>6, <1>7, <1>10, <2>2, <2>4, <2>5, <2>6, <2>7, <2>8, <2>9,
                LiveStepKeeps
<1>11. QED BY <1>9, <1>10

\* Every step of a worker keeps the invariant.
LEMMA WorkerKeeps ==
  ASSUME IInv, NEW w \in Workers, Worker(w)
  PROVE  IInv'
<1>1. /\ ActorTypeOK /\ ActorsOK /\ w \in Procs
      /\ w \notin Schedulers /\ w \notin Handlers /\ w \notin RetryHandlers
  BY ActorsAssumption DEF IInv, TypeOK, Procs
<1>2. ASSUME NEW v \in {"COMPLETED", "FAILED", "ABORTED"},
             pc[w] \in {"start", "execute"}, v # "ABORTED" => pc[w] = "execute",
             GotoWith(w, "report", v), UNCHANGED <<redisVars, dbVars, stream, localQueue>>
      PROVE  IInv'
  <2>1. "report" \in PC /\ v \in Verdict BY DEF PC, Verdict
  <2>2. /\ ActorTypeOK' /\ OthersStay(w)
        /\ pc'[w] = "report" /\ held'[w] = held[w] /\ verdict'[w] = v /\ calls'[w] = <<>>
    BY <1>1, <1>2, <2>1, GotoWithFacts
  <2>3. OwnLoop(w)'
    BY <1>1, <1>2, <2>2 DEF OwnLoop, ActorsOK
  <2>4. Carries(w) BY <1>2 DEF Carries
  <2>5. Live => OwnPlace(w)' /\ calls'[w] \in Seq(OKCalls)
    <3>1. ASSUME Live PROVE OwnPlace(w)'
      <4>1. jobStatus'[held[w]] \in StatusOf(v)
        BY <1>2, <3>1 DEF IInv, LiveInv, WorkersMatchStatus, StatusOf, redisVars
      <4>2. QED BY <1>1, <2>2, <4>1 DEF OwnPlace, StatusOf
    <3>2. <<>> \in Seq(OKCalls) OBVIOUS
    <3>3. QED BY <2>2, <3>1, <3>2
  <2>6. pc'[w] \notin {"claim", "promote"} BY <2>2
  <2>7. QED BY <1>1, <1>2, <2>2, <2>3, <2>4, <2>5, <2>6, QuietStepKeeps, Zenon
<1>3. CASE StartFails(w) BY <1>2, <1>3 DEF StartFails
<1>4. CASE ExecuteJob(w)
  <2>1. PICK v \in {"COMPLETED", "FAILED"} : GotoWith(w, "report", v)
    BY <1>4 DEF ExecuteJob
  <2>2. QED BY <1>2, <1>4, <2>1 DEF ExecuteJob
<1>5. CASE Report(w)
  <2>1. pc[w] = "report" /\ Release(w) /\ UNCHANGED <<redisVars, dbVars, localQueue>>
    BY <1>5 DEF Report
  <2>2. CASE UNCHANGED stream
    BY <1>1, <2>1, <2>2, ReleaseKeeps
  <2>3. CASE Publish(held[w], verdict[w])
    <3>1. Carries(w) BY <2>1 DEF Carries
    <3>2. verdict[w] \in Verdict \ {"INTERNAL"}
      BY <1>1, <2>1 DEF ActorsOK, Verdict
    <3>3. Live => jobStatus[held[w]] \in StatusOf(verdict[w])
      BY <2>1 DEF IInv, LiveInv, OutcomesMatchStatus
    <3>4. QED BY <1>1, <2>1, <2>3, <3>1, <3>2, <3>3, PublishKeeps
  <2>4. QED BY <1>5, <2>2, <2>3 DEF Report
<1>6. QED BY <1>3, <1>4, <1>5, FetchJobKeeps, StartJobKeeps DEF Worker

-----------------------------------------------------------------------------
(* The retry handler.                                                       *)

\* A retry leaves the delayed set for the hands of one handler, or is lost.
LEMMA DequeueRetryKeeps ==
  ASSUME IInv, NEW r \in RetryHandlers, DequeueRetry(r)
  PROVE  IInv'
<1>1. /\ RuntimeTypeOK /\ ActorTypeOK /\ ChannelTypeOK /\ DatabaseTypeOK
      /\ ActorsOK /\ NoSlotFromClaim /\ ConcurrencyLimit /\ r \in Procs
      /\ r \notin Workers /\ r \notin Handlers /\ r \notin Schedulers
  BY ActorsAssumption DEF IInv, TypeOK, Procs
<1>2. PICK j \in retryQueue : /\ dequeue_due_job_retry(j)
                              /\ Take(r, "promote", j, "NONE") \/ UNCHANGED procVars
  BY DEF DequeueRetry
<1>3. j \in Jobs /\ pc[r] = "idle" /\ UNCHANGED <<dbVars, stream, localQueue>>
  BY <1>1 DEF RuntimeTypeOK, DequeueRetry
<1>4. retryQueue' = retryQueue \ {j}
      /\ UNCHANGED <<wfStatus, jobStatus, reserved, completed, waiting, execQueue>>
  BY <1>2 DEF dequeue_due_job_retry
<1>5. RuntimeTypeOK' BY <1>1, <1>2, <1>3, SmallScriptTypes
<1>6. /\ ActorTypeOK' /\ OthersStay(r) /\ calls'[r] = calls[r]
      /\ pc'[r] = "idle" \/ (pc'[r] = "promote" /\ held'[r] = j)
  <2>1. CASE Take(r, "promote", j, "NONE")
    <3>1. "promote" \in PC BY DEF PC
    <3>2. QED BY <1>1, <1>2, <1>3, <2>1, <3>1, TakeFacts
  <2>2. CASE UNCHANGED procVars
    BY <1>1, <1>3, <2>2 DEF procVars, ActorTypeOK, OthersStay
  <2>3. QED BY <1>2, <2>1, <2>2
<1>7. TypeOK'
  BY <1>1, <1>3, <1>5, <1>6 DEF TypeOK, DatabaseTypeOK, ChannelTypeOK, dbVars
<1>8. ActorsOK'
  <2>1. OwnLoop(r)' BY <1>1, <1>3, <1>6 DEF OwnLoop
  <2>2. QED BY <1>1, <1>3, <1>6, <2>1, ActorsKept DEF ActorsOK
<1>9. ConcurrencyLimit' BY <1>1, <1>4 DEF ConcurrencyLimit, Active
<1>10. NoSlotFromClaim'
  BY <1>1, <1>4, <1>6 DEF NoSlotFromClaim, OthersStay, Procs
<1>11. ASSUME Live' PROVE LiveInv'
  <2>1. Live /\ LiveInv BY <1>4, <1>11 DEF IInv, Live
  <2>2. SlotsCoverActive' /\ QueuesMatchStatus' /\ NothingRanYet'
    BY <1>4, <2>1 DEF LiveInv, SlotsCoverActive, QueuesMatchStatus, NothingRanYet, Live, Active, Finished
  <2>3. \A q \in Procs : OwnPlace(q)'
    <3>1. OwnPlace(r)'
      BY <1>1, <1>2, <1>4, <1>6, <2>1 DEF OwnPlace, LiveInv, QueuesMatchStatus
    <3>2. \A q \in Procs : OwnPlace(q) BY <2>1, OwnPlaces
    <3>3. QED BY <1>1, <1>4, <1>6, <3>1, <3>2, OthersInPlace
  <2>4. SchedulersMatchStatus' /\ WorkersMatchStatus' /\ RetriesMatchStatus' /\ SecondTryFails'
    BY <1>3, <1>4, <2>1, <2>3 DEF OwnPlace, LiveInv, SchedulersMatchStatus, WorkersMatchStatus,
                             RetriesMatchStatus, SecondTryFails, Procs
  <2>5. OutcomesMatchStatus'
    BY <1>3, <1>4, <2>1, <2>3 DEF OwnPlace, LiveInv, OutcomesMatchStatus, Procs, StatusOf
  <2>6. OnePop'
    BY <1>1, <1>4, <1>6, <2>1 DEF LiveInv, OnePop, OthersStay, Procs
  <2>7. OneRetry'
    BY <1>2, <1>4, <1>6, <2>1 DEF LiveInv, OneRetry, OthersStay, Procs
  <2>8. OneCarrier' /\ OneEntry'
    <3>1. \A q \in Procs : Carries(q)' => Carries(q) /\ held'[q] = held[q]
      BY <1>1, <1>6 DEF Carries, OthersStay
    <3>2. OneCarrier /\ OneEntry BY <2>1 DEF LiveInv
    <3>3. QED BY <1>3, <3>1, <3>2, CarriersStay, EntriesStay
  <2>9. CallsOK'
    <3>1. Seq(OKCalls) \subseteq Seq(OKCalls')
      BY <1>4, CallsStayOK DEF Finished
    <3>2. QED BY <1>6, <2>1, <3>1 DEF LiveInv, CallsOK, OthersStay
  <2>10. QED BY <2>2, <2>4, <2>5, <2>6, <2>7, <2>8, <2>9 DEF LiveInv
<1>12. QED BY <1>7, <1>8, <1>9, <1>10, <1>11 DEF IInv

\* promote_retry_job_async: a job gets a slot only below the limit.
LEMMA PromoteRetryKeeps ==
  ASSUME IInv, NEW r \in RetryHandlers, PromoteRetry(r)
  PROVE  IInv'
<1> DEFINE j == held[r]
<1>1. /\ r \in Procs \ Schedulers /\ ActorsOK /\ ActorTypeOK /\ RuntimeTypeOK
      /\ r \notin Schedulers /\ r \notin Workers /\ r \notin Handlers
  BY ActorsAssumption DEF Procs, IInv, TypeOK
<1>2. pc[r] = "promote" /\ j \in Jobs /\ UNCHANGED <<dbVars, stream, localQueue>>
  BY <1>1 DEF PromoteRetry, ActorsOK
<1>3. CASE Release(r) /\ UNCHANGED redisVars
  BY <1>1, <1>2, <1>3, ReleaseKeeps
<1>4. CASE \E p \in PromotableWith(j) :
             /\ promote_retry_job(j, p)
             /\ GotoCalls(r, "mirror", <<UpdateReady(JobSet(p), {j} \ {p})>>) \/ Release(r)
  <2>1. PICK p \in PromotableWith(j) :
             /\ promote_retry_job(j, p)
             /\ GotoCalls(r, "mirror", <<UpdateReady(JobSet(p), {j} \ {p})>>) \/ Release(r)
    BY <1>4, Zenon
  <2>2. RuntimeTypeOK' /\ p \in Jobs \cup {NoJob}
    BY <1>1, <1>2, <2>1, PromoteRetryTypes
  <2>3. <<UpdateReady(JobSet(p), {j} \ {p})>> \in Seq(PlainCalls)
        /\ <<UpdateReady(JobSet(p), {j} \ {p})>> \in Seq(CallType)
        /\ <<>> \in Seq(PlainCalls)
    <3>1. JobSet(p) \in SUBSET Jobs /\ {j} \ {p} \in SUBSET Jobs BY <1>2, <2>2 DEF JobSet
    <3>2. UpdateReady(JobSet(p), {j} \ {p}) \in PlainCalls BY <3>1, PlainTypes
    <3>3. QED BY <3>2, OneCall, PlainCallsOK, SeqEmpty
  <2>4. /\ ActorTypeOK' /\ OthersStay(r) /\ calls'[r] \in Seq(PlainCalls)
        /\ pc'[r] = "idle" \/ (pc'[r] = "mirror" /\ held'[r] = j)
    <3>1. CASE Release(r) BY <1>1, <2>3, <3>1, ReleaseFacts, Zenon
    <3>2. CASE GotoCalls(r, "mirror", <<UpdateReady(JobSet(p), {j} \ {p})>>)
      <4>1. "mirror" \in PC BY DEF PC
      <4>2. QED BY <1>1, <2>3, <3>2, <4>1, GotoCallsFacts, Zenon
    <3>3. QED BY <2>1, <3>1, <3>2
  <2>5. OwnLoop(r)' BY <1>1, <1>2, <2>4 DEF OwnLoop
  <2>6. /\ UNCHANGED <<wfStatus, completed, retryQueue>>
        /\ waiting' = (IF Promotes(j) THEN (waiting \cup {j}) \ {p} ELSE waiting)
        /\ execQueue' = (IF p = NoJob THEN execQueue ELSE execQueue \cup {p})
        /\ reserved' = (IF p = NoJob THEN reserved ELSE reserved + 1)
    BY <2>1 DEF promote_retry_job
  <2>7. NoJob \notin Jobs BY JobsAssumption
  <2>8. ASSUME ~Promotes(j)
        PROVE  p = NoJob /\ \A k \in Jobs : \/ jobStatus'[k] = jobStatus[k]
                                            \/ k = j /\ jobStatus'[k] = "ABORTED"
    <3>1. p = NoJob BY <2>1, <2>8 DEF PromotableWith
    <3>2. QED BY <2>1, <2>7, <2>8, <3>1 DEF promote_retry_job
  <2>9. ASSUME Promotes(j)
        PROVE  /\ p = NoJob \/ (p \in waiting \cup {j} /\ reserved < MaxConcurrent)
               /\ \A k \in Jobs : jobStatus'[k] = IF k = p THEN "QUEUED"
                                                  ELSE IF k = j THEN "READY" ELSE jobStatus[k]
    <3>1. p \in Promotable(waiting \cup {j}, reserved) BY <2>1, <2>9 DEF PromotableWith
    <3>2. QED BY <2>1, <2>9, <3>1, PromotableIn DEF promote_retry_job
  <2>10. CASE ~Live
    <3>1. ~Promotes(j) /\ ~Live' BY <2>6, <2>10 DEF Promotes, Live
    <3>2. Active' \subseteq Active
      BY <2>8, <3>1 DEF Active, ActiveStatus
    <3>3. \A k \in Jobs : jobStatus'[k] = "READY" => jobStatus[k] = "READY"
      BY <2>8, <3>1
    <3>4. execQueue' \subseteq execQueue BY <2>6, <2>8, <3>1
    <3>5. QED BY <1>1, <1>2, <2>2, <2>4, <2>5, <3>1, <3>2, <3>3, <3>4, DeadStepKeeps
  <2>11. CASE Live
    <3>1. LiveInv /\ Live' BY <2>6, <2>11 DEF IInv, Live
    <3>2. jobStatus[j] = "RETRY_DELAY" /\ j \notin retryQueue
      BY <1>2, <3>1 DEF LiveInv, RetriesMatchStatus, OneRetry
    <3>3. /\ \A k \in execQueue : k \in Jobs /\ jobStatus[k] = "QUEUED" /\ k # j
          /\ \A k \in waiting : k \in Jobs /\ jobStatus[k] = "READY" /\ k # j
          /\ \A k \in retryQueue : k \in Jobs /\ jobStatus[k] = "RETRY_DELAY" /\ k # j
      BY <1>1, <3>1, <3>2 DEF LiveInv, QueuesMatchStatus, RuntimeTypeOK
    <3>4. Active \in SUBSET Jobs /\ Cardinality(Active) \in Nat /\ reserved \in Nat
          /\ MaxConcurrent \in Nat /\ Cardinality(Active) =< reserved /\ reserved =< MaxConcurrent
      <4>1. Active \in SUBSET Jobs BY DEF Active
      <4>2. QED BY <1>1, <2>11, <3>1, <4>1, JobSetsFinite, DefinitionAssumption
                   DEF RuntimeTypeOK, LiveInv, SlotsCoverActive
    <3>5. /\ SlotsCoverActive' /\ QueuesMatchStatus' /\ Finished \subseteq Finished'
          /\ \A k \in Jobs : jobStatus'[k] = "RUNNING" => jobStatus[k] = "RUNNING"
          /\ \A k \in Jobs : \/ jobStatus'[k] = jobStatus[k]
                             \/ jobStatus[k] \in {"PENDING", "READY"}
                             \/ k = j
          /\ \A k \in execQueue' \ execQueue : jobStatus[k] \in {"PENDING", "READY", "RETRY_DELAY"}
      <4>1. CASE ~Promotes(j)
        <5>1. Active' = Active
          BY <1>2, <2>8, <3>2, <4>1 DEF Active, ActiveStatus
        <5>2. SlotsCoverActive'
          BY <2>6, <2>8, <3>4, <4>1, <5>1 DEF SlotsCoverActive
        <5>3. QueuesMatchStatus'
          BY <2>6, <2>8, <3>3, <4>1 DEF QueuesMatchStatus
        <5>4. Finished \subseteq Finished'
          BY <2>8, <4>1 DEF Finished, TerminalStatus
        <5>5. QED BY <2>6, <2>8, <4>1, <5>2, <5>3, <5>4
      <4>2. CASE Promotes(j)
        <5>1. p # NoJob => p \in Jobs \ Active /\ jobStatus[p] \in {"READY", "RETRY_DELAY"}
          BY <1>2, <2>9, <3>2, <3>3, <4>2 DEF Active, ActiveStatus
        <5>2. Active' = Active \cup JobSet(p)
          BY <1>2, <2>7, <2>9, <3>2, <4>2, <5>1 DEF Active, ActiveStatus, JobSet
        <5>3. SlotsCoverActive'
          <6>1. CASE p = NoJob
            <7>1. Active' = Active BY <5>2, <6>1 DEF JobSet
            <7>2. QED BY <2>6, <3>4, <6>1, <7>1 DEF SlotsCoverActive
          <6>2. CASE p # NoJob
            <7>1. Active' = Active \cup {p} BY <5>2, <6>2 DEF JobSet
            <7>2. Cardinality(Active') = Cardinality(Active) + 1
              BY <3>4, <5>1, <6>2, <7>1, WithOneMore
            <7>3. reserved' = reserved + 1 /\ reserved < MaxConcurrent
              BY <2>6, <2>9, <4>2, <6>2
            <7>4. QED BY <3>4, <7>2, <7>3 DEF SlotsCoverActive
          <6>3. QED BY <6>1, <6>2
        <5>4. QueuesMatchStatus'
          <6>1. \A k \in execQueue' : jobStatus'[k] = "QUEUED"
            BY <2>6, <2>9, <3>3, <4>2, <5>1
          <6>2. \A k \in waiting' : jobStatus'[k] = "READY"
            BY <1>2, <2>6, <2>9, <3>3, <4>2
          <6>3. \A k \in retryQueue' : jobStatus'[k] = "RETRY_DELAY"
            <7>1. p \notin retryQueue BY <2>7, <2>9, <3>2, <3>3, <4>2
            <7>2. QED BY <2>6, <2>9, <3>3, <4>2, <7>1
          <6>4. QED BY <6>1, <6>2, <6>3 DEF QueuesMatchStatus
        <5>5. Finished \subseteq Finished'
          BY <2>7, <2>9, <3>2, <4>2, <5>1 DEF Finished, TerminalStatus
        <5>6. /\ \A k \in Jobs : jobStatus'[k] = "RUNNING" => jobStatus[k] = "RUNNING"
              /\ \A k \in Jobs : \/ jobStatus'[k] = jobStatus[k]
                                 \/ jobStatus[k] \in {"PENDING", "READY"}
                                 \/ k = j
          BY <2>7, <2>9, <3>3, <4>2, <5>1
        <5>7. QED BY <2>6, <5>1, <5>3, <5>4, <5>5, <5>6
      <4>3. QED BY <4>1, <4>2
    <3>6. NothingRanYet'
      <4>1. Finished' \in SUBSET Jobs BY DEF Finished
      <4>2. Finished \in SUBSET Jobs BY DEF Finished
      <4>3. /\ Cardinality(Finished) =< Cardinality(Finished')
            /\ Cardinality(Finished) \in Nat /\ Cardinality(Finished') \in Nat
        BY <3>5, <4>1, <4>2, SmallerSet, JobSetsFinite
      <4>4. completed' = completed /\ completed \in Nat /\ wfStatus' = wfStatus
        BY <1>1, <2>6 DEF RuntimeTypeOK
      <4>5. NothingRanYet BY <3>1 DEF LiveInv
      <4>6. \A k \in Jobs : jobStatus'[k] = "RUNNING" => jobStatus[k] = "RUNNING"
        BY <3>5
      <4>7. SUFFICES ASSUME wfStatus' = "READY"
                     PROVE  /\ \A k \in Jobs : jobStatus'[k] # "RUNNING"
                            /\ completed' =< Cardinality(Finished')
        BY DEF NothingRanYet
      <4>8. /\ \A k \in Jobs : jobStatus[k] # "RUNNING"
            /\ completed =< Cardinality(Finished)
        BY <4>4, <4>5, <4>7 DEF NothingRanYet
      <4>9. \A k \in Jobs : jobStatus'[k] # "RUNNING" BY <4>6, <4>8
      <4>10. completed' =< Cardinality(Finished') BY <4>3, <4>4, <4>8
      <4>11. QED BY <4>9, <4>10
    <3>7. OwnPlace(r)' BY <1>1, <2>4 DEF OwnPlace
    <3>8. ActorStep(r)
      <4>1. ~Carries(r)' BY <1>1 DEF Carries
      <4>2. InHand(r) BY <1>2 DEF InHand
      <4>3. QED BY <1>2, <2>4, <2>6, <3>5, <4>1, <4>2 DEF ActorStep, OthersStay
    <3>9. calls'[r] \in Seq(OKCalls') BY <2>4, PlainCallsOK
    <3>10. QED BY <1>1, <1>2, <2>2, <2>4, <2>5, <2>11, <3>1, <3>5, <3>6, <3>7, <3>8, <3>9,
                  LiveStepKeeps
  <2>12. QED BY <2>10, <2>11
<1>5. QED BY <1>3, <1>4 DEF PromoteRetry

\* Every step of a retry handler keeps the invariant.
LEMMA RetryHandlerKeeps ==
  ASSUME IInv, NEW r \in RetryHandlers, RetryHandler(r)
  PROVE  IInv'
BY DequeueRetryKeeps, PromoteRetryKeeps DEF RetryHandler
=============================================================================
