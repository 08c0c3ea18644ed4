--------------------------- MODULE HandlerProofs ----------------------------
(***************************************************************************)
(* Every step of a completion handler keeps the invariant IInv.            *)
(***************************************************************************)
EXTENDS ChannelSteps

\* Time limits of the provers, per step.
USE SMTT(60), ZenonT(60)

-----------------------------------------------------------------------------
(* The sequences of calls a handler makes.                                  *)

\* After a completion: plain calls unless it was the last job.
LEMMA SettleCallsType ==
  ASSUME RuntimeTypeOK, NEW j \in Jobs, NEW p \in Jobs \cup {NoJob}
  PROVE  /\ SettleCalls(j, p) \in Seq(CallType)
         /\ ~LastJob => SettleCalls(j, p) \in Seq(PlainCalls)
<1> DEFINE a == <<SetJobs({j}, "COMPLETED")>>
           b == When(LastJob, <<SetWorkflow("COMPLETED")>>)
           c == When(JobSet(p) \cup NewlyReady(j) # {},
                     <<UpdateReady(JobSet(p), NewlyReady(j) \ {p})>>)
           d == When(LastJob, Cleanup)
<1>1. "COMPLETED" \in StoredStatus BY DEF StoredStatus, TerminalStatus
<1>2. JobSet(p) \in SUBSET Jobs /\ NewlyReady(j) \ {p} \in SUBSET Jobs
  BY DEF JobSet, NewlyReady, RuntimeTypeOK
<1>3. a \in Seq(PlainCalls)
  BY <1>1, PlainTypes, OneCall
<1>4. LastJob \in BOOLEAN /\ (JobSet(p) \cup NewlyReady(j) # {}) \in BOOLEAN
  BY DEF LastJob
<1>5. b \in Seq(PlainCalls)
  BY <1>4, PlainTypes, OneCall, WhenSeq, Zenon
<1>6. c \in Seq(PlainCalls)
  <2>1. UpdateReady(JobSet(p), NewlyReady(j) \ {p}) \in PlainCalls
    BY <1>2, PlainTypes
  <2>2. QED BY <1>4, <2>1, OneCall, WhenSeq, Zenon
<1>7. d \in Seq(CallType) /\ (~LastJob => d = <<>>)
  BY <1>4, CallTypes, WhenSeq DEF When
<1>8. SettleCalls(j, p) = a \o b \o c \o d
  BY DEF SettleCalls
<1> HIDE DEF a, b, c, d
<1>9. a \o b \o c \in Seq(PlainCalls)
  BY <1>3, <1>5, <1>6, JoinSeq
<1>10. a \o b \o c \in Seq(CallType)
  BY <1>9, PlainCallsOK
<1>11. <<>> \in Seq(PlainCalls) OBVIOUS
<1>12. QED BY <1>7, <1>8, <1>9, <1>10, <1>11, JoinSeq

\* After a retry was scheduled.
LEMMA ParkCallsType ==
  ASSUME NEW j \in Jobs, NEW p \in Jobs \cup {NoJob}
  PROVE  ParkCalls(j, p) \in Seq(PlainCalls)
<1>1. "RETRY_DELAY" \in StoredStatus BY DEF StoredStatus, WaitingStatus
<1>2. <<SetJobs({j}, "RETRY_DELAY")>> \in Seq(PlainCalls)
  BY <1>1, PlainTypes, OneCall
<1>3. When(p # NoJob, <<UpdateReady({p}, {})>>) \in Seq(PlainCalls)
  <2>1. CASE p = NoJob
    BY <2>1, SeqEmpty DEF When
  <2>2. CASE p # NoJob
    BY <2>2, PlainTypes, OneCall DEF When
  <2>3. QED BY <2>1, <2>2
<1>4. QED BY <1>2, <1>3, JoinSeq DEF ParkCalls

\* After complete_failed_job_runtime_async was not executed.
LEMMA FallbackCallsType ==
  ASSUME NEW j \in Jobs, NEW t \in {"FAILED", "ABORTED"}
  PROVE  FallbackCalls(j, t) \in Seq(PlainCalls)
<1>1. t \in StoredStatus BY DEF StoredStatus, TerminalStatus
<1>2. /\ SetJobs({j}, t) \in PlainCalls /\ Sweep(Jobs \ {j}) \in PlainCalls
      /\ SetWorkflow("FAILED") \in PlainCalls
  BY <1>1, PlainTypes
<1>3. QED BY <1>2 DEF FallbackCalls

\* After a failure was recorded: the abort concerns a finished job, and the
\* cleanup follows only if every job is finished.
LEMMA PersistCallsType ==
  ASSUME NEW j \in Jobs, NEW t \in {"FAILED", "ABORTED"}
  PROVE  /\ PersistCalls(j, t) \in Seq(CallType)
         /\ (j \in Finished' /\ (CompletedWithFailure(j) => Finished' = Jobs))
              => PersistCalls(j, t) \in Seq(OKCalls')
<1> DEFINE a == When(t = "ABORTED", <<AbortRuntime(j)>>)
           b == <<SetJobs({j}, t)>>
           c == When(Canceled(j) # {}, <<SetJobs(Canceled(j), "ABORTED")>>)
           d == When(wfStatus = "RUNNING", <<SetWorkflow("FAILED")>>)
           e == When(CompletedWithFailure(j), Cleanup)
<1>1. t \in StoredStatus /\ "ABORTED" \in StoredStatus BY DEF StoredStatus, TerminalStatus
<1>2. b \in Seq(PlainCalls)
  BY <1>1, PlainTypes, OneCall
<1>3. c \in Seq(PlainCalls)
  BY <1>1, CanceledType, PlainTypes, OneCall, WhenSeq, Zenon
<1>4. d \in Seq(PlainCalls)
  BY PlainTypes, OneCall, WhenSeq, Zenon
<1>5. a \in Seq(CallType)
  BY CallTypes, OneCall, WhenSeq, Zenon
<1>6. CompletedWithFailure(j) \in BOOLEAN BY DEF CompletedWithFailure
<1>7. e \in Seq(CallType)
  BY <1>6, CallTypes, WhenSeq
<1>8. j \in Finished' => a \in Seq(OKCalls')
  <2>1. AbortRuntime(j) \in CallType BY CallTypes
  <2>2. j \in Finished' => AbortRuntime(j) \in OKCalls'
    BY <2>1 DEF OKCalls, CallOK, AbortRuntime, CallOn
  <2>3. QED BY <2>2, OneCall, WhenSeq, SeqEmpty DEF When
<1>9. (CompletedWithFailure(j) => Finished' = Jobs) => e \in Seq(OKCalls')
  <2>1. CASE ~CompletedWithFailure(j)
    BY <2>1, SeqEmpty DEF When
  <2>2. CASE Finished' = Jobs
    <3>1. \A op \in {"unlist", "drop_jobs", "drop_workflow"} :
            CallOn(op, {}, "COMPLETED") \in CallType
      BY CallOnType DEF Op, StoredStatus, TerminalStatus
    <3>2. \A op \in {"unlist", "drop_jobs", "drop_workflow"} :
            CallOn(op, {}, "COMPLETED") \in OKCalls'
      BY <2>2, <3>1 DEF OKCalls, CallOK, CallOn
    <3>3. Cleanup \in Seq(OKCalls')
      BY <3>2 DEF Cleanup
    <3>4. QED BY <1>6, <3>3, WhenSeq
  <2>3. QED BY <2>1, <2>2
<1>10. PersistCalls(j, t) = a \o b \o c \o d \o e
  BY DEF PersistCalls
<1> HIDE DEF a, b, c, d, e
<1>11. /\ b \in Seq(CallType) /\ c \in Seq(CallType) /\ d \in Seq(CallType)
       /\ b \in Seq(OKCalls') /\ c \in Seq(OKCalls') /\ d \in Seq(OKCalls')
  BY <1>2, <1>3, <1>4, PlainCallsOK
<1>12. PersistCalls(j, t) \in Seq(CallType)
  BY <1>5, <1>7, <1>10, <1>11, JoinSeq
<1>13. a \in Seq(OKCalls') /\ e \in Seq(OKCalls') => PersistCalls(j, t) \in Seq(OKCalls')
  <2> DEFINE S == OKCalls'
  <2> HIDE DEF S
  <2>1. a \in Seq(S) /\ b \in Seq(S) /\ c \in Seq(S) /\ d \in Seq(S) /\ e \in Seq(S)
          => a \o b \o c \o d \o e \in Seq(S)
    BY JoinSeq
  <2>2. QED BY <1>10, <1>11, <2>1 DEF S
<1>14. QED BY <1>8, <1>9, <1>12, <1>13

-----------------------------------------------------------------------------
(* The handler's steps that leave Redis alone.                              *)

\* A handler step without effect on Redis, SQLite and the channels.
LEMMA HandlerQuietKeeps ==
  ASSUME IInv, NEW h \in Handlers, UNCHANGED <<redisVars, dbVars, stream, localQueue>>,
         ActorTypeOK', OthersStay(h), OwnLoop(h)', held'[h] = held[h],
         calls'[h] = calls[h] \/ calls'[h] \in Seq(PlainCalls),
         \/ pc'[h] \in {"persist", "repair"}
         \/ pc[h] \in Deciding /\ pc'[h] \in Deciding /\ verdict'[h] = verdict[h]
         \/ /\ pc[h] = "complete" /\ pc'[h] = "inspect" /\ verdict'[h] = "INTERNAL"
  PROVE  IInv'
<1>1. /\ h \in Procs /\ ActorsOK
      /\ h \notin Schedulers /\ h \notin Workers /\ h \notin RetryHandlers
  BY ActorsAssumption DEF Procs, IInv
<1>2. Carries(h)' => Carries(h)
  BY <1>1 DEF Carries, Deciding
<1>3. pc'[h] \notin {"claim", "promote"}
  BY DEF Deciding
<1>4. ASSUME Live PROVE OwnPlace(h)' /\ calls'[h] \in Seq(OKCalls)
  <2>1. LiveInv /\ OwnPlace(h)
    BY <1>1, <1>4, OwnPlaces DEF IInv
  <2>2. calls'[h] \in Seq(OKCalls)
    BY <1>1, <2>1, PlainCallsOK DEF LiveInv, CallsOK
  <2>3. pc[h] = "complete" => wfStatus = "RUNNING"
    <3>1. pc[h] = "complete" => jobStatus[held[h]] = "RUNNING" /\ held[h] \in Jobs
      BY <1>1, <2>1 DEF ActorsOK, OwnPlace, StatusOf, Deciding
    <3>2. QED BY <1>4, <2>1, <3>1 DEF LiveInv, NothingRanYet, Live
  <2>4. OwnPlace(h)'
    BY <1>1, <2>1, <2>3 DEF OwnPlace, Deciding, StatusOf, redisVars
  <2>5. QED BY <2>2, <2>4
<1>5. QED BY <1>1, <1>2, <1>3, <1>4, QuietStepKeeps

\* The handler reads the workflow.
LEMMA FetchWorkflowKeeps ==
  ASSUME IInv, NEW h \in Handlers, FetchWorkflow(h)
  PROVE  IInv'
<1>1. /\ h \in Procs /\ ActorsOK /\ ActorTypeOK
      /\ h \notin Schedulers /\ h \notin Workers /\ h \notin RetryHandlers
  BY ActorsAssumption DEF Procs, IInv, TypeOK
<1>2. /\ pc[h] = "fetch" /\ held[h] \in Jobs /\ verdict[h] \in Verdict \ {"INTERNAL"}
      /\ UNCHANGED <<redisVars, dbVars, stream, localQueue>>
  BY <1>1 DEF FetchWorkflow, ActorsOK
<1>3. CASE Goto(h, "repair")
  <2>1. "repair" \in PC BY DEF PC
  <2>2. /\ ActorTypeOK' /\ OthersStay(h) /\ pc'[h] = "repair" /\ held'[h] = held[h]
        /\ calls'[h] = calls[h]
    BY <1>1, <1>3, <2>1, GotoFacts
  <2>3. OwnLoop(h)'
    BY <1>1, <1>2, <2>2 DEF OwnLoop
  <2>4. QED BY <1>2, <2>2, <2>3, HandlerQuietKeeps
<1>4. CASE /\ pc' = [pc EXCEPT ![h] = IF verdict[h] = "COMPLETED" THEN "complete" ELSE "inspect"]
           /\ sawRunning' = IF wfStatus = "RUNNING" THEN sawRunning \cup {h} ELSE sawRunning
           /\ UNCHANGED <<held, verdict, calls>>
  <2>1. /\ ActorTypeOK' /\ OthersStay(h) /\ held'[h] = held[h] /\ calls'[h] = calls[h]
        /\ verdict'[h] = verdict[h]
        /\ pc'[h] = IF verdict[h] = "COMPLETED" THEN "complete" ELSE "inspect"
    BY <1>1, <1>4 DEF ActorTypeOK, OthersStay, PC
  <2>2. OwnLoop(h)'
    BY <1>1, <1>2, <2>1 DEF OwnLoop, Deciding
  <2>3. pc[h] \in Deciding /\ pc'[h] \in Deciding
    BY <1>2, <2>1 DEF Deciding
  <2>4. QED BY <1>2, <2>1, <2>2, <2>3, HandlerQuietKeeps
<1>5. QED BY <1>3, <1>4 DEF FetchWorkflow

\* The handler goes on to store a failure in SQLite.
LEMMA PersistKeeps ==
  ASSUME IInv, NEW h \in Handlers, pc[h] # "idle", NEW s \in Seq(PlainCalls),
         GotoCalls(h, "persist", s), UNCHANGED <<redisVars, dbVars, stream, localQueue>>
  PROVE  IInv'
<1>1. /\ h \in Procs /\ ActorsOK /\ ActorTypeOK
      /\ h \notin Schedulers /\ h \notin Workers /\ h \notin RetryHandlers
  BY ActorsAssumption DEF Procs, IInv, TypeOK
<1>2. "persist" \in PC /\ s \in Seq(CallType) BY PlainCallsOK DEF PC
<1>3. /\ ActorTypeOK' /\ OthersStay(h) /\ pc'[h] = "persist" /\ held'[h] = held[h]
      /\ calls'[h] = s
  BY <1>1, <1>2, GotoCallsFacts
<1>4. OwnLoop(h)'
  BY <1>1, <1>3 DEF OwnLoop, ActorsOK
<1>5. QED BY <1>3, <1>4, HandlerQuietKeeps

\* The runtime data is missing.
LEMMA RepairKeeps ==
  ASSUME IInv, NEW h \in Handlers, RepairMissingRuntime(h)
  PROVE  IInv'
<1>1. h \in Procs BY DEF Procs
<1>2. pc[h] # "idle" /\ UNCHANGED <<redisVars, dbVars, stream, localQueue>>
  BY DEF RepairMissingRuntime
<1>3. <<Sweep(Jobs), SetWorkflow("FAILED")>> \in Seq(PlainCalls)
  <2>1. Sweep(Jobs) \in PlainCalls /\ SetWorkflow("FAILED") \in PlainCalls BY PlainTypes
  <2>2. QED BY <2>1
<1>4. CASE GotoCalls(h, "persist", <<Sweep(Jobs), SetWorkflow("FAILED")>>)
  BY <1>2, <1>3, <1>4, PersistKeeps, Zenon
<1>5. CASE Release(h)
  BY <1>1, <1>2, <1>5, ReleaseKeeps
<1>6. QED BY <1>4, <1>5 DEF RepairMissingRuntime

\* The handler decides between a retry and a failure.
LEMMA InspectFailureKeeps ==
  ASSUME IInv, NEW h \in Handlers, InspectFailure(h)
  PROVE  IInv'
<1>1. /\ h \in Procs /\ ActorsOK /\ ActorTypeOK
      /\ h \notin Schedulers /\ h \notin Workers /\ h \notin RetryHandlers
  BY ActorsAssumption DEF Procs, IInv, TypeOK
<1>2. /\ pc[h] = "inspect" /\ held[h] \in Jobs /\ verdict[h] \in Verdict \ {"COMPLETED"}
      /\ UNCHANGED <<redisVars, dbVars, stream, localQueue>>
  BY <1>1 DEF InspectFailure, ActorsOK
<1>3. PICK l \in {"retry", "fail"} : Goto(h, l) /\ (l = "retry" => verdict[h] = "FAILED")
  BY DEF InspectFailure, MayRetry
<1>4. l \in PC BY DEF PC
<1>5. /\ ActorTypeOK' /\ OthersStay(h) /\ pc'[h] = l /\ held'[h] = held[h]
      /\ verdict'[h] = verdict[h] /\ calls'[h] = calls[h]
  BY <1>1, <1>3, <1>4, GotoFacts
<1>6. OwnLoop(h)'
  BY <1>1, <1>2, <1>3, <1>5 DEF OwnLoop, Deciding
<1>7. pc[h] \in Deciding /\ pc'[h] \in Deciding
  BY <1>2, <1>5 DEF Deciding
<1>8. QED BY <1>2, <1>5, <1>6, <1>7, HandlerQuietKeeps

-----------------------------------------------------------------------------
(* The handler's scripts.                                                   *)

\* A script that takes the slot of job j and may hand one to the waiting job p
\* keeps the counter above the number of slots in use.
LEMMA SlotHandedOn ==
  ASSUME RuntimeTypeOK, RuntimeTypeOK', Live, SlotsCoverActive,
         NEW j \in Active, NEW p \in (Jobs \ Active) \cup {NoJob},
         p # NoJob => Freed < MaxConcurrent,
         Active' = (Active \ {j}) \cup JobSet(p),
         reserved' = IF p = NoJob THEN Freed ELSE Freed + 1
  PROVE  SlotsCoverActive'
<1>1. Active \in SUBSET Jobs BY DEF Active
<1>2. Cardinality(Active \ {j}) = Cardinality(Active) - 1 /\ Cardinality(Active) > 0
      /\ Cardinality(Active) \in Nat
  BY <1>1, WithoutOne, JobSetsFinite
<1>3. reserved > 0 /\ Freed = reserved - 1 /\ Cardinality(Active) =< reserved /\ reserved =< MaxConcurrent
      /\ reserved \in Nat /\ MaxConcurrent \in Nat
  BY <1>2, FreedType, DefinitionAssumption DEF SlotsCoverActive, RuntimeTypeOK
<1>4. CASE p = NoJob
  <2>1. Active' = Active \ {j} BY <1>4 DEF JobSet
  <2>2. QED BY <1>2, <1>3, <1>4, <2>1 DEF SlotsCoverActive
<1>5. CASE p # NoJob
  <2>1. Active' = (Active \ {j}) \cup {p} /\ p \in Jobs \ (Active \ {j})
    BY <1>5 DEF JobSet
  <2>2. Active \ {j} \in SUBSET Jobs BY <1>1
  <2>3. Cardinality(Active') = Cardinality(Active \ {j}) + 1
    BY <2>1, <2>2, WithOneMore
  <2>4. QED BY <1>2, <1>3, <1>5, <2>3 DEF SlotsCoverActive
<1>6. QED BY <1>4, <1>5

\* complete_successful_job_runtime_async: in a live workflow the completed job
\* held a slot, which is freed before another job gets one.
LEMMA CompleteSuccessfulKeeps ==
  ASSUME IInv, NEW h \in Handlers, CompleteSuccessful(h)
  PROVE  IInv'
<1> DEFINE j == held[h]
<1>1. /\ h \in Procs \ Schedulers /\ ActorsOK /\ ActorTypeOK /\ RuntimeTypeOK
      /\ h \notin Schedulers /\ h \notin Workers /\ h \notin RetryHandlers
  BY ActorsAssumption DEF Procs, IInv, TypeOK
<1>2. /\ pc[h] = "complete" /\ j \in Jobs /\ verdict[h] = "COMPLETED" /\ Carries(h)
      /\ UNCHANGED <<dbVars, stream, localQueue>>
  BY <1>1 DEF CompleteSuccessful, ActorsOK, Carries, Deciding
<1>3. "inspect" \in PC /\ "settle" \in PC /\ "INTERNAL" \in Verdict BY DEF PC, Verdict
<1>4. Live => LiveInv /\ jobStatus[j] = "RUNNING"
  BY <1>1, <1>2 DEF IInv, LiveInv, OutcomesMatchStatus, StatusOf, Deciding
<1>5. ASSUME TreatAsFailure(h)
      PROVE  /\ ActorTypeOK' /\ OthersStay(h) /\ pc'[h] = "inspect" /\ held'[h] = j
             /\ verdict'[h] = "INTERNAL" /\ calls'[h] = <<>> /\ calls'[h] \in Seq(PlainCalls)
             /\ OwnLoop(h)'
  <2>1. /\ ActorTypeOK' /\ OthersStay(h) /\ pc'[h] = "inspect" /\ held'[h] = j
        /\ verdict'[h] = "INTERNAL" /\ calls'[h] = <<>>
    BY <1>1, <1>3, <1>5, GotoWithFacts DEF TreatAsFailure
  <2>2. OwnLoop(h)' BY <1>1, <1>2, <1>3, <2>1 DEF OwnLoop, Deciding
  <2>3. QED BY <2>1, <2>2, SeqEmpty
<1>6. ASSUME NEW s \in Seq(CallType), GotoCalls(h, "settle", s)
      PROVE  /\ ActorTypeOK' /\ OthersStay(h) /\ pc'[h] = "settle" /\ held'[h] = j
             /\ calls'[h] = s /\ OwnLoop(h)'
  <2>1. /\ ActorTypeOK' /\ OthersStay(h) /\ pc'[h] = "settle" /\ held'[h] = j /\ calls'[h] = s
    BY <1>1, <1>3, <1>6, GotoCallsFacts
  <2>2. OwnLoop(h)' BY <1>1, <1>2, <2>1 DEF OwnLoop
  <2>3. QED BY <2>1, <2>2
<1>7. CASE /\ Completable(j)
           /\ \E p \in PromotableAfter(j) :
                /\ complete_successful_job(j, p)
                /\ \/ GotoCalls(h, "settle", SettleCalls(j, p))
                   \/ "redis" \in Faults /\ TreatAsFailure(h)
  <2>1. PICK p \in PromotableAfter(j) :
          /\ complete_successful_job(j, p)
          /\ GotoCalls(h, "settle", SettleCalls(j, p)) \/ TreatAsFailure(h)
    BY <1>7
  <2>2. RuntimeTypeOK' /\ p \in Jobs \cup {NoJob}
    BY <1>1, <1>2, <2>1, CompleteSuccessfulTypes
  <2>3. SettleCalls(j, p) \in Seq(CallType) /\ (~LastJob => SettleCalls(j, p) \in Seq(PlainCalls))
    BY <1>1, <1>2, <2>2, SettleCallsType
  <2>4. /\ ActorTypeOK' /\ OthersStay(h) /\ held'[h] = j /\ OwnLoop(h)'
        /\ (~LastJob => calls'[h] \in Seq(PlainCalls))
        /\ pc'[h] = "settle" \/ (pc'[h] = "inspect" /\ verdict'[h] = "INTERNAL")
    BY <1>5, <1>6, <2>1, <2>3
  <2>5. wfStatus = "RUNNING" /\ Live /\ LiveInv /\ jobStatus[j] = "RUNNING"
    BY <1>4, <1>7 DEF Completable, Live
  <2>6. \A k \in NewlyReady(j) : k \in Jobs /\ jobStatus[k] = "PENDING"
    BY <1>1, <1>2 DEF NewlyReady, RuntimeTypeOK
  <2>7. \A k \in waiting : k \in Jobs /\ jobStatus[k] = "READY"
    BY <1>1, <2>5 DEF LiveInv, QueuesMatchStatus, RuntimeTypeOK
  <2>8. \A k \in Jobs : jobStatus'[k] = IF k = p THEN "QUEUED"
                                         ELSE IF k = j THEN "COMPLETED"
                                         ELSE IF k \in NewlyReady(j) THEN "READY" ELSE jobStatus[k]
    BY <2>1 DEF complete_successful_job
  <2>9. /\ waiting' = (waiting \cup NewlyReady(j)) \ {p}
        /\ execQueue' = (IF p = NoJob THEN execQueue ELSE execQueue \cup {p})
        /\ reserved' = (IF p = NoJob THEN Freed ELSE Freed + 1)
        /\ wfStatus' = (IF LastJob THEN "COMPLETED" ELSE wfStatus)
        /\ retryQueue' = retryQueue
    BY <2>1 DEF complete_successful_job
  <2>10. CASE LastJob
    <3>1. p = NoJob BY <2>1, <2>10 DEF PromotableAfter
    <3>2. ~Live' BY <2>9, <2>10 DEF Live
    <3>3. NoJob \notin Jobs BY JobsAssumption
    <3>4. Active' \subseteq Active
      BY <2>8, <3>1, <3>3 DEF Active, ActiveStatus
    <3>5. \A k \in Jobs : jobStatus'[k] = "READY" =>
                            jobStatus[k] = "READY" \/ (Live /\ jobStatus[k] = "PENDING")
      BY <2>5, <2>6, <2>8, <3>1, <3>3
    <3>6. execQueue' \subseteq execQueue BY <2>9, <3>1
    <3>7. QED BY <1>1, <1>2, <2>2, <2>4, <3>2, <3>4, <3>5, <3>6, DeadStepKeeps
  <2>11. CASE ~LastJob
    <3>1. p = NoJob \/ (p \in waiting \cup NewlyReady(j) /\ Freed < MaxConcurrent)
      BY <2>1, <2>11, PromotableIn DEF PromotableAfter
    <3>2. p # NoJob => p \in Jobs /\ jobStatus[p] \in {"PENDING", "READY"} /\ p # j
      BY <2>5, <2>6, <2>7, <3>1
    <3>3. wfStatus' = "RUNNING" /\ Live' BY <2>5, <2>9, <2>11 DEF Live
    <3>4. NoJob \notin Jobs BY JobsAssumption
    <3>5. SlotsCoverActive'
      <4>1. j \in Active /\ (p # NoJob => p \in Jobs \ Active)
        BY <1>2, <2>5, <3>2 DEF Active, ActiveStatus
      <4>2. Active' = (Active \ {j}) \cup JobSet(p)
        BY <2>6, <2>8, <3>2, <3>4 DEF Active, ActiveStatus, JobSet
      <4>3. SlotsCoverActive BY <2>5 DEF LiveInv
      <4>4. QED BY <1>1, <2>2, <2>5, <2>9, <3>1, <4>1, <4>2, <4>3, SlotHandedOn
    <3>6. QueuesMatchStatus'
      <4>1. \A k \in execQueue : k \in Jobs /\ jobStatus[k] = "QUEUED"
        BY <1>1, <2>5 DEF LiveInv, QueuesMatchStatus, RuntimeTypeOK
      <4>2. \A k \in retryQueue : k \in Jobs /\ jobStatus[k] = "RETRY_DELAY"
        BY <1>1, <2>5 DEF LiveInv, QueuesMatchStatus, RuntimeTypeOK
      <4>3. \A k \in execQueue' : jobStatus'[k] = "QUEUED"
        BY <2>5, <2>6, <2>8, <2>9, <3>2, <4>1
      <4>4. \A k \in retryQueue' : jobStatus'[k] = "RETRY_DELAY"
        BY <2>5, <2>6, <2>8, <2>9, <3>2, <3>4, <4>2
      <4>5. \A k \in waiting' : jobStatus'[k] = "READY"
        BY <2>5, <2>6, <2>7, <2>8, <2>9
      <4>6. QED BY <4>3, <4>4, <4>5 DEF QueuesMatchStatus
    <3>7. NothingRanYet' BY <3>3 DEF NothingRanYet
    <3>8. Finished \subseteq Finished'
      BY <2>5, <2>6, <2>8, <3>2, <3>4 DEF Finished, TerminalStatus
    <3>9. OwnPlace(h)'
      BY <1>1, <2>4, <3>3 DEF OwnPlace, Deciding
    <3>10. ActorStep(h)
      <4>1. ~Carries(h)' BY <1>1, <2>4 DEF Carries, Deciding
      <4>2. \A k \in Jobs : \/ jobStatus'[k] = jobStatus[k]
                            \/ jobStatus[k] \in {"PENDING", "READY"}
                            \/ k = held[h] /\ InHand(h)
        BY <1>2, <2>6, <2>8, <3>2, <3>4 DEF InHand
      <4>3. \A k \in execQueue' \ execQueue : jobStatus[k] \in {"PENDING", "READY", "RETRY_DELAY"}
        BY <2>9, <3>2
      <4>4. QED BY <1>2, <2>4, <2>9, <3>3, <4>1, <4>2, <4>3 DEF ActorStep, OthersStay
    <3>11. calls'[h] \in Seq(OKCalls')
      BY <2>4, <2>11, PlainCallsOK
    <3>12. QED BY <1>1, <1>2, <2>2, <2>4, <2>5, <3>3, <3>5, <3>6, <3>7, <3>8, <3>9, <3>10, <3>11,
                  LiveStepKeeps
  <2>12. QED BY <2>10, <2>11
<1>8. CASE Completable(j) /\ expire_workflow /\ TreatAsFailure(h)
  <2>1. RuntimeTypeOK' BY <1>1, <1>2, <1>8, SmallScriptTypes
  <2>2. ~Live' /\ jobStatus' = jobStatus /\ execQueue' = execQueue
    BY <1>8 DEF expire_workflow, Live
  <2>3. Active' = Active BY <2>2 DEF Active
  <2>4. QED BY <1>1, <1>2, <1>5, <1>8, <2>1, <2>2, <2>3, DeadStepKeeps
<1>9. CASE /\ AlreadyCompleted(j)
           /\ GotoCalls(h, "settle", <<SetJobs({j}, "COMPLETED")>>)
           /\ UNCHANGED redisVars
  <2>1. ~Live BY <1>4, <1>9 DEF AlreadyCompleted
  <2>2. <<SetJobs({j}, "COMPLETED")>> \in Seq(CallType)
    <3>1. "COMPLETED" \in StoredStatus BY DEF StoredStatus, TerminalStatus
    <3>2. SetJobs({j}, "COMPLETED") \in CallType BY <1>2, <3>1, CallTypes
    <3>3. QED BY <3>2
  <2>3. ActorTypeOK' /\ OthersStay(h) /\ OwnLoop(h)'
    BY <1>6, <1>9, <2>2, Zenon
  <2>4. ~Live' /\ jobStatus' = jobStatus /\ execQueue' = execQueue /\ RuntimeTypeOK'
    BY <1>1, <1>9, <2>1 DEF redisVars, Live, RuntimeTypeOK
  <2>5. Active' = Active BY <2>4 DEF Active
  <2>6. QED BY <1>1, <1>2, <2>3, <2>4, <2>5, DeadStepKeeps
<1>10. CASE TreatAsFailure(h) /\ UNCHANGED redisVars
  BY <1>2, <1>5, <1>10, HandlerQuietKeeps
<1>11. QED BY <1>7, <1>8, <1>9, <1>10 DEF CompleteSuccessful

\* schedule_job_retry_async: the parked job held a slot.
LEMMA ScheduleRetryKeeps ==
  ASSUME IInv, NEW h \in Handlers, ScheduleRetry(h)
  PROVE  IInv'
<1> DEFINE j == held[h]
<1>1. /\ h \in Procs \ Schedulers /\ ActorsOK /\ ActorTypeOK /\ RuntimeTypeOK
      /\ h \notin Schedulers /\ h \notin Workers /\ h \notin RetryHandlers
  BY ActorsAssumption DEF Procs, IInv, TypeOK
<1>2. /\ pc[h] = "retry" /\ j \in Jobs /\ verdict[h] = "FAILED" /\ Carries(h)
      /\ UNCHANGED <<dbVars, stream, localQueue>>
  BY <1>1 DEF ScheduleRetry, ActorsOK, Carries, Deciding
<1>3. Live => LiveInv /\ jobStatus[j] = "RUNNING" /\ wfStatus = "RUNNING"
  <2>1. Live => LiveInv /\ jobStatus[j] = "RUNNING"
    BY <1>1, <1>2 DEF IInv, LiveInv, OutcomesMatchStatus, StatusOf, Deciding
  <2>2. QED BY <1>2, <2>1 DEF LiveInv, NothingRanYet, Live
<1>4. CASE Release(h) /\ UNCHANGED redisVars
  BY <1>1, <1>2, <1>4, ReleaseKeeps
<1>5. CASE \E p \in PromotableOnRetry :
             /\ schedule_job_retry(j, p)
             /\ GotoCalls(h, "park", ParkCalls(j, p)) \/ Release(h)
  <2>1. PICK p \in PromotableOnRetry :
             /\ schedule_job_retry(j, p)
             /\ GotoCalls(h, "park", ParkCalls(j, p)) \/ Release(h)
    BY <1>5
  <2>2. RuntimeTypeOK' /\ p \in Jobs \cup {NoJob}
    BY <1>1, <1>2, <2>1, ScheduleRetryTypes
  <2>3. ParkCalls(j, p) \in Seq(PlainCalls) /\ ParkCalls(j, p) \in Seq(CallType)
        /\ <<>> \in Seq(PlainCalls)
    BY <1>2, <2>2, ParkCallsType, PlainCallsOK, SeqEmpty
  <2>4. /\ ActorTypeOK' /\ OthersStay(h) /\ calls'[h] \in Seq(PlainCalls)
        /\ pc'[h] = "idle" \/ (pc'[h] = "park" /\ held'[h] = j)
    <3>1. CASE Release(h) BY <1>1, <2>3, <3>1, ReleaseFacts, Zenon
    <3>2. CASE GotoCalls(h, "park", ParkCalls(j, p))
      <4>1. "park" \in PC BY DEF PC
      <4>2. QED BY <1>1, <2>3, <3>2, <4>1, GotoCallsFacts
    <3>3. QED BY <2>1, <3>1, <3>2
  <2>5. OwnLoop(h)' BY <1>1, <1>2, <2>4 DEF OwnLoop
  <2>6. \A k \in Jobs : jobStatus'[k] = IF k = p THEN "QUEUED"
                                         ELSE IF k = j THEN "RETRY_DELAY" ELSE jobStatus[k]
    BY <2>1 DEF schedule_job_retry
  <2>7. /\ waiting' = waiting \ {p}
        /\ execQueue' = (IF p = NoJob THEN execQueue ELSE execQueue \cup {p})
        /\ reserved' = (IF p = NoJob THEN Freed ELSE Freed + 1)
        /\ wfStatus' = TouchedWorkflow
        /\ retryQueue' = retryQueue \cup {j}
    BY <2>1 DEF schedule_job_retry
  <2>8. NoJob \notin Jobs BY JobsAssumption
  <2>9. CASE ~Live
    <3>1. p = NoJob BY <2>1, <2>9 DEF PromotableOnRetry, Live
    <3>2. ~Live' BY <2>7, <2>9 DEF Live, TouchedWorkflow
    <3>3. Active' \subseteq Active
      BY <2>6, <2>8, <3>1 DEF Active, ActiveStatus
    <3>4. \A k \in Jobs : jobStatus'[k] = "READY" => jobStatus[k] = "READY"
      BY <2>6, <2>8, <3>1
    <3>5. execQueue' \subseteq execQueue BY <2>7, <3>1
    <3>6. QED BY <1>1, <1>2, <2>2, <2>4, <2>5, <3>2, <3>3, <3>4, <3>5, DeadStepKeeps
  <2>10. CASE Live
    <3>1. LiveInv /\ jobStatus[j] = "RUNNING" /\ wfStatus = "RUNNING"
      BY <1>3, <2>10
    <3>2. p = NoJob \/ (p \in waiting /\ Freed < MaxConcurrent)
      BY <2>1, <3>1, PromotableIn DEF PromotableOnRetry
    <3>3. \A k \in waiting : k \in Jobs /\ jobStatus[k] = "READY"
      BY <1>1, <3>1 DEF LiveInv, QueuesMatchStatus, RuntimeTypeOK
    <3>4. p # NoJob => p \in Jobs /\ jobStatus[p] = "READY" /\ p # j
      BY <3>1, <3>2, <3>3
    <3>5. wfStatus' = "RUNNING" /\ Live' BY <2>7, <3>1 DEF Live, TouchedWorkflow
    <3>6. SlotsCoverActive'
      <4>1. j \in Active /\ (p # NoJob => p \in Jobs \ Active)
        BY <1>2, <3>1, <3>4 DEF Active, ActiveStatus
      <4>2. Active' = (Active \ {j}) \cup JobSet(p)
        BY <2>6, <2>8, <3>4 DEF Active, ActiveStatus, JobSet
      <4>3. SlotsCoverActive BY <3>1 DEF LiveInv
      <4>4. QED BY <1>1, <2>2, <2>7, <2>10, <3>2, <4>1, <4>2, <4>3, SlotHandedOn
    <3>7. QueuesMatchStatus'
      <4>1. \A k \in execQueue : k \in Jobs /\ jobStatus[k] = "QUEUED"
        BY <1>1, <3>1 DEF LiveInv, QueuesMatchStatus, RuntimeTypeOK
      <4>2. \A k \in retryQueue : k \in Jobs /\ jobStatus[k] = "RETRY_DELAY"
        BY <1>1, <3>1 DEF LiveInv, QueuesMatchStatus, RuntimeTypeOK
      <4>3. \A k \in execQueue' : jobStatus'[k] = "QUEUED"
        BY <2>6, <2>7, <3>1, <3>4, <4>1
      <4>4. \A k \in retryQueue' : jobStatus'[k] = "RETRY_DELAY"
        BY <1>2, <2>6, <2>7, <2>8, <3>1, <3>4, <4>2
      <4>5. \A k \in waiting' : jobStatus'[k] = "READY"
        BY <2>6, <2>7, <3>1, <3>3
      <4>6. QED BY <4>3, <4>4, <4>5 DEF QueuesMatchStatus
    <3>8. NothingRanYet' BY <3>5 DEF NothingRanYet
    <3>9. Finished \subseteq Finished'
      BY <2>6, <2>8, <3>1, <3>4 DEF Finished, TerminalStatus
    <3>10. OwnPlace(h)'
      BY <1>1, <2>4 DEF OwnPlace, Deciding
    <3>11. ActorStep(h)
      <4>1. ~Carries(h)' BY <1>1, <2>4 DEF Carries, Deciding
      <4>2. \A k \in Jobs : \/ jobStatus'[k] = jobStatus[k]
                            \/ jobStatus[k] \in {"PENDING", "READY"}
                            \/ k = held[h] /\ InHand(h)
        BY <1>2, <2>6, <2>8, <3>4 DEF InHand
      <4>3. \A k \in execQueue' \ execQueue : jobStatus[k] \in {"PENDING", "READY", "RETRY_DELAY"}
        BY <2>7, <3>4
      <4>4. \A k \in retryQueue' \ retryQueue : jobStatus[k] = "RUNNING"
        BY <2>7, <3>1
      <4>5. QED BY <1>2, <2>4, <3>5, <4>1, <4>2, <4>3, <4>4 DEF ActorStep, OthersStay
    <3>12. calls'[h] \in Seq(OKCalls')
      BY <2>4, PlainCallsOK
    <3>13. QED BY <1>1, <1>2, <2>2, <2>4, <2>5, <2>10, <3>5, <3>6, <3>7, <3>8, <3>9, <3>10,
                  <3>11, <3>12, LiveStepKeeps
  <2>11. QED BY <2>9, <2>10
<1>6. QED BY <1>4, <1>5 DEF ScheduleRetry

\* complete_failed_job_runtime_async: a RUNNING workflow fails; a READY one stays
\* live and counts the job.
LEMMA CompleteFailedKeeps ==
  ASSUME IInv, NEW h \in Handlers, CompleteFailed(h)
  PROVE  IInv'
<1> DEFINE j == held[h]
           t == TerminalFor(verdict[h])
<1>1. /\ h \in Procs \ Schedulers /\ ActorsOK /\ ActorTypeOK /\ RuntimeTypeOK
      /\ h \notin Schedulers /\ h \notin Workers /\ h \notin RetryHandlers
  BY ActorsAssumption DEF Procs, IInv, TypeOK
<1>2. /\ pc[h] = "fail" /\ j \in Jobs /\ verdict[h] \in Verdict \ {"COMPLETED"}
      /\ UNCHANGED <<dbVars, stream, localQueue>> /\ t \in {"FAILED", "ABORTED"}
  BY <1>1 DEF CompleteFailed, ActorsOK, TerminalFor
<1>3. /\ FallbackCalls(j, t) \in Seq(PlainCalls) /\ FallbackCalls(j, "FAILED") \in Seq(PlainCalls)
      /\ FallbackCalls(j, t) \in Seq(CallType) /\ FallbackCalls(j, t) \in Seq(OKCalls')
  BY <1>2, FallbackCallsType, PlainCallsOK
<1>4. CASE /\ UNCHANGED redisVars
           /\ \/ GotoCalls(h, "persist", FallbackCalls(j, t))
              \/ GotoCalls(h, "persist", FallbackCalls(j, "FAILED"))
  BY <1>2, <1>3, <1>4, PersistKeeps
<1>5. CASE /\ complete_failed_job(j)
           /\ \/ GotoCalls(h, "persist", PersistCalls(j, t))
              \/ GotoCalls(h, "persist", FallbackCalls(j, t))
  <2>1. RuntimeTypeOK' BY <1>1, <1>2, <1>5, CompleteFailedTypes
  <2>2. PICK s \in {PersistCalls(j, t), FallbackCalls(j, t)} : GotoCalls(h, "persist", s)
    BY <1>5
  <2>3. s \in Seq(CallType) BY <1>2, <1>3, PersistCallsType
  <2>4. /\ ActorTypeOK' /\ OthersStay(h) /\ calls'[h] = s /\ pc'[h] = "persist" /\ held'[h] = j
    <3>1. "persist" \in PC BY DEF PC
    <3>2. QED BY <1>1, <2>2, <2>3, <3>1, GotoCallsFacts
  <2>5. OwnLoop(h)' BY <1>1, <1>2, <2>4 DEF OwnLoop
  <2>6. \A k \in Jobs : jobStatus'[k] = IF k = j THEN "FAILED"
                                         ELSE IF k \in Canceled(j) THEN "ABORTED" ELSE jobStatus[k]
    BY <1>5 DEF complete_failed_job
  <2>7. /\ wfStatus' = (IF wfStatus = "RUNNING" THEN "FAILED" ELSE TouchedWorkflow)
        /\ reserved' = (IF wfStatus = "RUNNING" THEN Freed ELSE reserved)
        /\ completed' = completed + 1 + Cardinality(Canceled(j))
        /\ waiting' \subseteq waiting /\ execQueue' \subseteq execQueue /\ retryQueue' \subseteq retryQueue
    BY <1>5 DEF complete_failed_job
  <2>8. Active' \subseteq Active
    BY <2>6 DEF Active, ActiveStatus
  <2>9. CASE wfStatus # "READY"
    <3>1. ~Live' BY <2>7, <2>9 DEF Live, TouchedWorkflow
    <3>2. \A k \in Jobs : jobStatus'[k] = "READY" => jobStatus[k] = "READY"
      BY <2>6
    <3>3. QED BY <1>1, <1>2, <2>1, <2>4, <2>5, <2>7, <2>8, <3>1, <3>2, DeadStepKeeps
  <2>10. CASE wfStatus = "READY"
    <3>1. Live /\ LiveInv /\ Live' /\ wfStatus' = "READY"
      BY <2>7, <2>10 DEF IInv, Live, TouchedWorkflow
    <3>2. verdict[h] # "INTERNAL" /\ jobStatus[j] = "PENDING_EXECUTION" /\ Carries(h)
      <4>1. verdict[h] # "INTERNAL"
        BY <1>2, <2>10, <3>1 DEF LiveInv, SecondTryFails, Deciding
      <4>2. jobStatus[j] \in {"PENDING_EXECUTION", "RUNNING"}
        BY <1>2, <3>1, <4>1 DEF LiveInv, OutcomesMatchStatus, StatusOf, Deciding
      <4>3. QED BY <1>2, <2>10, <3>1, <4>1, <4>2 DEF LiveInv, NothingRanYet, Carries, Deciding
    <3>3. Canceled(j) = {} /\ Cardinality(Canceled(j)) = 0
      BY <2>10, FS_EmptySet DEF Canceled
    <3>4. completed' = completed + 1 /\ reserved' = reserved /\ completed \in Nat
      BY <1>1, <2>7, <2>10, <3>3 DEF RuntimeTypeOK
    <3>5. Finished' = Finished \cup {j} /\ j \in Jobs \ Finished
      BY <1>2, <2>6, <3>2, <3>3 DEF Finished, TerminalStatus
    <3>6. /\ Finished \in SUBSET Jobs /\ Finished' \in SUBSET Jobs
          /\ Cardinality(Finished') = Cardinality(Finished) + 1
          /\ Cardinality(Finished) \in Nat
      <4>1. Finished \in SUBSET Jobs /\ Finished' \in SUBSET Jobs BY DEF Finished
      <4>2. QED BY <3>5, <4>1, WithOneMore, JobSetsFinite
    <3>7. completed' =< Cardinality(Finished')
      BY <2>10, <3>1, <3>4, <3>6 DEF LiveInv, NothingRanYet
    <3>8. NothingRanYet'
      <4>1. \A k \in Jobs : jobStatus'[k] # "RUNNING"
        BY <2>6, <2>10, <3>1, <3>3 DEF LiveInv, NothingRanYet
      <4>2. QED BY <3>7, <4>1 DEF NothingRanYet
    <3>9. CompletedWithFailure(j) => Finished' = Jobs
      <4>1. CompletedWithFailure(j) => Cardinality(Jobs) = completed'
        BY <3>3, <3>4 DEF CompletedWithFailure, TotalJobs
      <4>2. CompletedWithFailure(j) => Cardinality(Jobs) =< Cardinality(Finished')
        BY <3>7, <4>1
      <4>3. QED BY <3>6, <4>2, WholeSet
    <3>10. s \in Seq(OKCalls')
      BY <1>2, <1>3, <3>5, <3>9, PersistCallsType
    <3>11. SlotsCoverActive'
      <4>1. Active \in SUBSET Jobs BY DEF Active
      <4>2. /\ Cardinality(Active') =< Cardinality(Active)
            /\ Cardinality(Active) \in Nat /\ Cardinality(Active') \in Nat
        BY <2>8, <4>1, SmallerSet, JobSetsFinite
      <4>3. Cardinality(Active) =< reserved /\ reserved =< MaxConcurrent
        BY <3>1 DEF LiveInv, SlotsCoverActive
      <4>4. reserved \in Nat /\ MaxConcurrent \in Nat
        BY <1>1, DefinitionAssumption DEF RuntimeTypeOK
      <4>5. QED BY <3>4, <4>2, <4>3, <4>4 DEF SlotsCoverActive
    <3>12. QueuesMatchStatus'
      <4>1. \A k \in execQueue' : k \in Jobs /\ k # j /\ jobStatus[k] = "QUEUED"
        BY <1>1, <2>7, <3>1, <3>2 DEF LiveInv, QueuesMatchStatus, RuntimeTypeOK
      <4>2. \A k \in waiting' : k \in Jobs /\ k # j /\ jobStatus[k] = "READY"
        BY <1>1, <2>7, <3>1, <3>2 DEF LiveInv, QueuesMatchStatus, RuntimeTypeOK
      <4>3. \A k \in retryQueue' : k \in Jobs /\ k # j /\ jobStatus[k] = "RETRY_DELAY"
        BY <1>1, <2>7, <3>1, <3>2 DEF LiveInv, QueuesMatchStatus, RuntimeTypeOK
      <4>4. QED BY <2>6, <3>3, <4>1, <4>2, <4>3 DEF QueuesMatchStatus
    <3>13. OwnPlace(h)' BY <1>1, <2>4 DEF OwnPlace, Deciding
    <3>14. ActorStep(h)
      <4>1. ~Carries(h)' BY <1>1, <2>4 DEF Carries, Deciding
      <4>2. \A k \in Jobs : jobStatus'[k] = jobStatus[k] \/ (k = held[h] /\ InHand(h))
        BY <2>6, <3>2, <3>3 DEF InHand
      <4>3. QED BY <1>2, <2>4, <2>7, <2>10, <4>1, <4>2 DEF ActorStep, OthersStay
    <3>15. QED BY <1>1, <1>2, <2>1, <2>4, <2>5, <3>1, <3>5, <3>8, <3>10, <3>11, <3>12, <3>13, <3>14,
                  LiveStepKeeps
  <2>11. QED BY <2>9, <2>10
<1>6. QED BY <1>4, <1>5 DEF CompleteFailed

\* Every step of a completion handler keeps the invariant.
LEMMA HandlerKeeps ==
  ASSUME IInv, NEW h \in Handlers, Handler(h)
  PROVE  IInv'
BY DequeueCompletionKeeps, FetchWorkflowKeeps, RepairKeeps, CompleteSuccessfulKeeps,
   InspectFailureKeeps, ScheduleRetryKeeps, CompleteFailedKeeps DEF Handler
=============================================================================
