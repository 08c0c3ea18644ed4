----------------------------- MODULE CallSteps ------------------------------
(***************************************************************************)
(* The fixed sequences of calls that follow a script: every call, whether  *)
(* it succeeds or fails, keeps the invariant IInv.                         *)
(***************************************************************************)
EXTENDS RuntimeLemmas

\* Time limits of the provers, per step.
USE SMTT(60), ZenonT(60)

-----------------------------------------------------------------------------
(* The fixed sequences of calls.                                            *)

\* What a call in a fixed sequence does to the state the invariant is about.
CallEffect ==
  /\ wfStatus' = wfStatus \/ ~Live'
  /\ \A j \in Jobs :
       \/ jobStatus'[j] = jobStatus[j]
       \/ jobStatus'[j] \in {"ABORTED", "DELETED"} /\ (Live => j \in Finished)
  /\ Live' => UNCHANGED <<reserved, completed, waiting>>
  /\ retryQueue' \subseteq retryQueue
  /\ UNCHANGED <<execQueue, stream, localQueue>>

\* How it moves the actor that makes it.
CallMove(p) ==
  \E rest \in Seq(CallType) :
    /\ Live => rest \in Seq(OKCalls)
    /\ \/ GotoCalls(p, pc[p], rest)
       \/ pc[p] = "mark" /\ GotoCalls(p, "execute", rest)
       \/ pc[p] # "mark" /\ Release(p)
       \/ pc[p] = "mark" /\ GotoWith(p, "report", "ABORTED")
       \/ pc[p] = "settle" /\ TreatAsFailure(p)

\* What such a move does to the actors.
LEMMA CallMoveActors ==
  ASSUME ActorTypeOK, ActorsOK, NEW p \in Procs, pc[p] \in Calling, CallMove(p),
         UNCHANGED stream
  PROVE  /\ ActorTypeOK' /\ ActorsOK'
         /\ \A q \in Procs : (pc'[q] # "idle" => held'[q] = held[q])
         /\ \A q \in Procs \ {p} : pc'[q] = pc[q] /\ verdict'[q] = verdict[q]
                                     /\ calls'[q] = calls[q]
         /\ Live => calls'[p] \in Seq(OKCalls)
         /\ \/ pc'[p] = "idle"
            \/ pc'[p] = pc[p] /\ verdict'[p] = verdict[p]
            \/ pc[p] = "mark" /\ pc'[p] = "execute" /\ verdict'[p] = verdict[p]
            \/ pc[p] = "mark" /\ pc'[p] = "report" /\ verdict'[p] = "ABORTED"
            \/ pc[p] = "settle" /\ pc'[p] = "inspect" /\ verdict'[p] = "INTERNAL"
<1> PICK rest \in Seq(CallType) :
      /\ Live => rest \in Seq(OKCalls)
      /\ \/ GotoCalls(p, pc[p], rest)
         \/ pc[p] = "mark" /\ GotoCalls(p, "execute", rest)
         \/ pc[p] # "mark" /\ Release(p)
         \/ pc[p] = "mark" /\ GotoWith(p, "report", "ABORTED")
         \/ pc[p] = "settle" /\ TreatAsFailure(p)
  BY DEF CallMove
<1>1. ActorTypeOK'
  <2>1. pc[p] \in PC /\ "execute" \in PC /\ "report" \in PC /\ "inspect" \in PC
    BY DEF ActorTypeOK, PC
  <2>2. "ABORTED" \in Verdict \cup {"NONE"} /\ "INTERNAL" \in Verdict \cup {"NONE"}
        /\ NoJob \in Jobs \cup {NoJob}
    BY DEF Verdict
  <2>3. CASE GotoCalls(p, pc[p], rest) BY <2>1, <2>2, <2>3, MoveTypes, Zenon
  <2>4. CASE GotoCalls(p, "execute", rest) BY <2>1, <2>2, <2>4, MoveTypes, Zenon
  <2>5. CASE Release(p) BY <2>1, <2>2, <2>5, MoveTypes, Zenon
  <2>6. CASE GotoWith(p, "report", "ABORTED") BY <2>1, <2>2, <2>6, MoveTypes, Zenon
  <2>7. CASE TreatAsFailure(p) BY <2>1, <2>2, <2>7, MoveTypes, Zenon DEF TreatAsFailure
  <2>8. QED BY <2>3, <2>4, <2>5, <2>6, <2>7
<1>2. /\ \A q \in Procs : (pc'[q] # "idle" => held'[q] = held[q])
      /\ \A q \in Procs \ {p} : pc'[q] = pc[q] /\ verdict'[q] = verdict[q] /\ calls'[q] = calls[q]
  BY DEF ActorTypeOK, GotoCalls, GotoWith, Release, TreatAsFailure
<1>3. Live => calls'[p] \in Seq(OKCalls)
  <2>1. calls'[p] \in {rest, <<>>}
    BY DEF ActorTypeOK, GotoCalls, GotoWith, Release, TreatAsFailure
  <2>2. QED BY <2>1, SeqEmpty, Zenon
<1>4. \/ pc'[p] = "idle"
      \/ pc'[p] = pc[p] /\ verdict'[p] = verdict[p]
      \/ pc[p] = "mark" /\ pc'[p] = "execute" /\ verdict'[p] = verdict[p]
      \/ pc[p] = "mark" /\ pc'[p] = "report" /\ verdict'[p] = "ABORTED"
      \/ pc[p] = "settle" /\ pc'[p] = "inspect" /\ verdict'[p] = "INTERNAL"
  BY DEF ActorTypeOK, GotoCalls, GotoWith, Release, TreatAsFailure
<1>5. ActorsOK'
  <2>1. \A q \in Procs : pc'[q] # "idle" => held'[q] \in Jobs
    BY <1>2, <1>4 DEF ActorsOK, Calling
  <2>2. \A s \in Schedulers : pc'[s] \in {"idle", "claim", "dispatch"}
    BY <1>2, <1>4 DEF ActorsOK, Calling, Procs
  <2>3. \A w \in Workers :
          /\ pc'[w] \in {"idle", "start", "mark", "execute", "report"}
          /\ pc'[w] = "report" => verdict'[w] \in {"COMPLETED", "FAILED", "ABORTED"}
    BY <1>2, <1>4 DEF ActorsOK, Calling, Procs
  <2>4. \A h \in Handlers :
          /\ pc'[h] \in Deciding \cup {"idle", "settle", "park", "persist", "repair"}
          /\ pc'[h] = "fetch" => verdict'[h] \in Verdict \ {"INTERNAL"}
          /\ pc'[h] = "complete" => verdict'[h] = "COMPLETED"
          /\ pc'[h] = "retry" => verdict'[h] = "FAILED"
          /\ pc'[h] \in {"inspect", "fail"} => verdict'[h] \in Verdict \ {"COMPLETED"}
    BY <1>2, <1>4 DEF ActorsOK, Calling, Procs, Deciding, Verdict
  <2>5. \A r \in RetryHandlers : pc'[r] \in {"idle", "promote", "mirror"}
    BY <1>2, <1>4 DEF ActorsOK, Calling, Procs
  <2>6. QED BY <2>1, <2>2, <2>3, <2>4, <2>5 DEF ActorsOK, Deciding
<1>6. QED BY <1>1, <1>2, <1>3, <1>4, <1>5

\* A step with such an effect and such a move keeps the invariant.
LEMMA CallStepKeeps ==
  ASSUME IInv, NEW p \in Procs, pc[p] \in Calling, CallEffect, CallMove(p),
         RuntimeTypeOK', DatabaseTypeOK'
  PROVE  IInv'
<1>0. /\ TypeOK /\ ActorsOK /\ ConcurrencyLimit /\ NoSlotFromClaim /\ (Live => LiveInv)
      /\ ActorTypeOK /\ ChannelTypeOK /\ UNCHANGED <<execQueue, stream, localQueue>>
      /\ execQueue \subseteq Jobs /\ waiting \subseteq Jobs /\ retryQueue \subseteq Jobs
  BY DEF IInv, TypeOK, RuntimeTypeOK, CallEffect
<1>1. TypeOK' /\ ActorsOK'
  BY <1>0, CallMoveActors DEF TypeOK, ChannelTypeOK
<1>2. /\ \A q \in Procs : (pc'[q] # "idle" => held'[q] = held[q])
      /\ \A q \in Procs \ {p} : pc'[q] = pc[q] /\ verdict'[q] = verdict[q] /\ calls'[q] = calls[q]
      /\ Live => calls'[p] \in Seq(OKCalls)
      /\ \/ pc'[p] = "idle"
         \/ pc'[p] = pc[p] /\ verdict'[p] = verdict[p]
         \/ pc[p] = "mark" /\ pc'[p] = "execute" /\ verdict'[p] = verdict[p]
         \/ pc[p] = "mark" /\ pc'[p] = "report" /\ verdict'[p] = "ABORTED"
         \/ pc[p] = "settle" /\ pc'[p] = "inspect" /\ verdict'[p] = "INTERNAL"
  BY <1>0, CallMoveActors
<1>3. ConcurrencyLimit'
  <2>1. Active' \subseteq Active
    BY DEF Active, CallEffect, ActiveStatus
  <2>2. QED BY <1>0, <2>1, LimitKept
<1>4. /\ \A s \in Schedulers : pc'[s] = pc[s] /\ (pc[s] # "idle" => held'[s] = held[s])
      /\ \A w \in Workers :
           /\ pc'[w] # "idle" => pc[w] # "idle"
           /\ pc'[w] = "start" => pc[w] = "start"
           /\ pc'[w] \in {"mark", "execute"} => pc[w] \in {"mark", "execute"}
           /\ pc'[w] = "report" => \/ pc[w] = "report" /\ verdict'[w] = verdict[w]
                                   \/ pc[w] = "mark" /\ verdict'[w] = "ABORTED"
      /\ \A h \in Handlers :
           /\ pc'[h] \in Deciding /\ verdict'[h] # "INTERNAL"
                => pc'[h] = pc[h] /\ verdict'[h] = verdict[h]
           /\ pc'[h] = "settle" \/ (pc'[h] \in Deciding /\ verdict'[h] = "INTERNAL")
                => pc[h] = "settle" \/ (pc[h] \in Deciding /\ verdict[h] = "INTERNAL")
      /\ \A r \in RetryHandlers : pc'[r] = "promote" => pc[r] = "promote"
  <2>1. \A s \in Schedulers : s # p
    BY <1>0 DEF ActorsOK, Calling
  <2>2. \A w \in Workers : pc'[w] \in {"idle", "start", "mark", "execute", "report"}
    BY <1>1 DEF ActorsOK
  <2>3. \A h \in Handlers : pc[h] # "mark" /\ pc[h] \notin {"execute", "report"}
    BY <1>0 DEF ActorsOK, Deciding
  <2>4. \A s \in Schedulers : pc'[s] = pc[s] /\ (pc[s] # "idle" => held'[s] = held[s])
    BY <1>2, <2>1 DEF Procs
  <2>5. ASSUME NEW w \in Workers
        PROVE  /\ pc'[w] # "idle" => pc[w] # "idle"
               /\ pc'[w] = "start" => pc[w] = "start"
               /\ pc'[w] \in {"mark", "execute"} => pc[w] \in {"mark", "execute"}
               /\ pc'[w] = "report" => \/ pc[w] = "report" /\ verdict'[w] = verdict[w]
                                       \/ pc[w] = "mark" /\ verdict'[w] = "ABORTED"
    BY <1>2, <2>2 DEF Procs
  <2>6. ASSUME NEW h \in Handlers
        PROVE  /\ pc'[h] \in Deciding /\ verdict'[h] # "INTERNAL"
                    => pc'[h] = pc[h] /\ verdict'[h] = verdict[h]
               /\ pc'[h] = "settle" \/ (pc'[h] \in Deciding /\ verdict'[h] = "INTERNAL")
                    => pc[h] = "settle" \/ (pc[h] \in Deciding /\ verdict[h] = "INTERNAL")
    BY <1>2, <2>3 DEF Procs, Deciding
  <2>7. \A r \in RetryHandlers : pc'[r] = "promote" => pc[r] = "promote"
    BY <1>2 DEF Procs
  <2>8. QED BY <2>4, <2>5, <2>6, <2>7
<1>5. \A q \in Procs : pc'[q] # "idle" => held'[q] = held[q] /\ held[q] \in Jobs
  BY <1>1, <1>2 DEF ActorsOK
<1>6. NoSlotFromClaim'
  <2>1. \A j \in Jobs : jobStatus[j] # "READY" => jobStatus'[j] # "READY"
    BY DEF CallEffect
  <2>2. \A j \in execQueue' : jobStatus'[j] # "READY"
    BY <1>0, <2>1 DEF NoSlotFromClaim
  <2>3. \A s \in Schedulers : pc'[s] = "claim" => jobStatus'[held'[s]] # "READY"
    BY <1>0, <1>4, <1>5, <2>1 DEF NoSlotFromClaim, Procs
  <2>4. QED BY <2>2, <2>3 DEF NoSlotFromClaim
<1>7. ASSUME Live' PROVE LiveInv'
  <2>1. Live /\ LiveInv /\ wfStatus' = wfStatus /\ UNCHANGED <<reserved, completed, waiting>>
    BY <1>0, <1>7 DEF CallEffect, Live
  <2>2. \A j \in Jobs : jobStatus'[j] = jobStatus[j]
                        \/ (j \in Finished /\ jobStatus'[j] \in {"ABORTED", "DELETED"})
    BY <2>1 DEF CallEffect
  <2>3. \A j \in Jobs : jobStatus[j] \notin {"COMPLETED", "FAILED", "ABORTED", "DELETED"}
                          => jobStatus'[j] = jobStatus[j]
    BY <2>2 DEF Finished, TerminalStatus
  <2>4. SlotsCoverActive'
    <3>1. Active' = Active
      BY <2>2 DEF Active, Finished, ActiveStatus, TerminalStatus
    <3>2. QED BY <2>1, <3>1 DEF LiveInv, SlotsCoverActive
  <2>5. QueuesMatchStatus'
    <3>1. retryQueue' \subseteq retryQueue /\ QueuesMatchStatus
      BY <2>1 DEF CallEffect, LiveInv
    <3>2. QED BY <1>0, <2>1, <2>3, <3>1 DEF QueuesMatchStatus
  <2>6. SchedulersMatchStatus'
    <3>1. \A s \in Schedulers : \A i \in 1..Len(localQueue[s]) : localQueue[s][i] \in Jobs
      BY <1>0, ChannelEntries
    <3>2. SchedulersMatchStatus BY <2>1 DEF LiveInv
    <3>3. QED BY <1>0, <1>4, <1>5, <2>3, <3>1, <3>2 DEF SchedulersMatchStatus, Procs
  <2>7. WorkersMatchStatus'
    <3>1. WorkersMatchStatus BY <2>1 DEF LiveInv
    <3>2. QED BY <1>4, <1>5, <2>3, <3>1 DEF WorkersMatchStatus, Procs
  <2>8. RetriesMatchStatus'
    <3>1. RetriesMatchStatus BY <2>1 DEF LiveInv
    <3>2. QED BY <1>4, <1>5, <2>3, <3>1 DEF RetriesMatchStatus, Procs
  <2>9. OutcomesMatchStatus'
    <3>1. OutcomesMatchStatus /\ WorkersMatchStatus BY <2>1 DEF LiveInv
    <3>2. \A v, j : j \in Jobs /\ jobStatus[j] \in StatusOf(v) => jobStatus'[j] = jobStatus[j]
      BY <2>3 DEF StatusOf
    <3>3. \A i \in 1..Len(stream') : jobStatus'[stream'[i].job] \in StatusOf(stream'[i].verdict)
      <4>1. \A i \in 1..Len(stream) : stream[i].job \in Jobs
        BY <1>0, ChannelEntries
      <4>2. QED BY <1>0, <3>1, <3>2, <4>1 DEF OutcomesMatchStatus
    <3>4. ASSUME NEW w \in Workers, pc'[w] = "report"
          PROVE  jobStatus'[held'[w]] \in StatusOf(verdict'[w])
      <4>1. held'[w] = held[w] /\ held[w] \in Jobs BY <1>5, <3>4 DEF Procs
      <4>2. CASE pc[w] = "report" /\ verdict'[w] = verdict[w]
        BY <3>1, <3>2, <4>1, <4>2 DEF OutcomesMatchStatus
      <4>3. CASE pc[w] = "mark" /\ verdict'[w] = "ABORTED"
        BY <2>3, <3>1, <4>1, <4>3 DEF WorkersMatchStatus, StatusOf
      <4>4. QED BY <1>4, <3>4, <4>2, <4>3
    <3>5. ASSUME NEW h \in Handlers, pc'[h] \in Deciding, verdict'[h] # "INTERNAL"
          PROVE  jobStatus'[held'[h]] \in StatusOf(verdict'[h])
      <4>1. pc'[h] = pc[h] /\ verdict'[h] = verdict[h] BY <1>4, <3>5
      <4>2. held'[h] = held[h] /\ held[h] \in Jobs BY <1>5, <3>5 DEF Procs, Deciding
      <4>3. QED BY <3>1, <3>2, <3>5, <4>1, <4>2 DEF OutcomesMatchStatus
    <3>6. QED BY <3>3, <3>4, <3>5 DEF OutcomesMatchStatus, StatusOf
  <2>10. OnePop' /\ OneRetry'
    <3>1. OnePop /\ OneRetry /\ retryQueue' \subseteq retryQueue BY <2>1 DEF LiveInv, CallEffect
    <3>2. OnePop' BY <1>0, <1>4, <1>5, <3>1 DEF OnePop, Procs
    <3>3. OneRetry' BY <1>4, <1>5, <3>1 DEF OneRetry, Procs
    <3>4. QED BY <3>2, <3>3
  <2>11. OneCarrier' /\ OneEntry'
    <3>1. \A q \in Procs : Carries(q)' => Carries(q) /\ held'[q] = held[q]
      BY <1>2, <1>4 DEF Carries, Deciding, Procs
    <3>2. OneCarrier /\ OneEntry BY <2>1 DEF LiveInv
    <3>3. OneCarrier' BY <1>0, <3>1, <3>2 DEF OneCarrier
    <3>4. localQueue' = localQueue /\ stream' = stream BY <1>0
    <3>5. OneEntry' BY <3>2, <3>4, EntriesStay
    <3>6. QED BY <3>3, <3>5
  <2>12. NothingRanYet'
    <3>1. Finished \in SUBSET Jobs /\ Finished' \in SUBSET Jobs /\ Finished \subseteq Finished'
      BY <2>2 DEF Finished, TerminalStatus
    <3>2. Cardinality(Finished) =< Cardinality(Finished') /\ Cardinality(Finished) \in Nat
          /\ Cardinality(Finished') \in Nat
      BY <3>1, SmallerSet, JobSetsFinite
    <3>3. NothingRanYet /\ completed \in Nat BY <1>0, <2>1 DEF LiveInv, TypeOK, RuntimeTypeOK
    <3>4. QED BY <2>1, <2>2, <3>2, <3>3 DEF NothingRanYet
  <2>13. SecondTryFails'
    BY <1>4, <2>1 DEF LiveInv, SecondTryFails
  <2>14. CallsOK'
    <3>1. Finished \subseteq Finished'
      BY <2>2 DEF Finished, TerminalStatus
    <3>2. CallsOK BY <2>1 DEF LiveInv
    <3>3. \A q \in Procs : calls'[q] \in Seq(OKCalls)
      BY <1>2, <2>1, <3>2 DEF CallsOK
    <3>4. QED BY <3>1, <3>3, CallsStayOK DEF CallsOK
  <2>15. QED BY <2>4, <2>5, <2>6, <2>7, <2>8, <2>9, <2>10, <2>11, <2>12, <2>13, <2>14 DEF LiveInv
<1>8. QED BY <1>1, <1>3, <1>6, <1>7 DEF IInv

\* The sequence that remains after a call, or after one row of a call.
LEMMA RestOfCalls ==
  ASSUME IInv, NEW p \in Procs, calls[p] # <<>>
  PROVE  /\ ThisCall(p) \in CallType /\ Tail(calls[p]) \in Seq(CallType)
         /\ Live => ThisCall(p) \in OKCalls /\ Tail(calls[p]) \in Seq(OKCalls)
BY HeadTail DEF IInv, TypeOK, ActorTypeOK, LiveInv, CallsOK, ThisCall

\* What remains after one row of an update of several rows.
LEMMA RestAfterRow ==
  ASSUME IInv, NEW p \in Procs, calls[p] # <<>>, ThisCall(p).op = "job_status",
         NEW j \in ThisCall(p).jobs
  PROVE  /\ AfterRow(p, j) \in Seq(CallType)
         /\ Live => AfterRow(p, j) \in Seq(OKCalls)
<1> DEFINE c == ThisCall(p)
           d == [c EXCEPT !.jobs = @ \ {j}]
           w == When(c.jobs # {j}, <<d>>)
<1>1. c \in CallType /\ Tail(calls[p]) \in Seq(CallType)
      /\ (Live => Tail(calls[p]) \in Seq(OKCalls))
  BY RestOfCalls
<1>2. d \in PlainCalls
  BY <1>1 DEF CallType, PlainCalls
<1>3. w \in Seq(PlainCalls)
  <2> HIDE DEF c, d
  <2>1. QED BY <1>2, OneCall, WhenSeq, Zenon
<1>4. w \in Seq(CallType) /\ w \in Seq(OKCalls)
  <2> HIDE DEF w
  <2>1. QED BY <1>3, PlainCallsOK
<1>5. AfterRow(p, j) = w \o Tail(calls[p])
  BY DEF AfterRow
<1>6. QED
  <2> HIDE DEF w
  <2>1. QED BY <1>1, <1>4, <1>5, JoinSeq

\* Going on to the remaining calls is such a move.
LEMMA AdvanceMoves ==
  ASSUME NEW p, NEW rest \in Seq(CallType), Live => rest \in Seq(OKCalls), Advance(p, rest)
  PROVE  CallMove(p)
BY DEF Advance, CallMove

\* In particular when the call in hand was a single one.
LEMMA NextCallMoves ==
  ASSUME IInv, NEW p \in Procs, calls[p] # <<>>, Advance(p, Tail(calls[p]))
  PROVE  CallMove(p)
<1>1. Tail(calls[p]) \in Seq(CallType) /\ (Live => Tail(calls[p]) \in Seq(OKCalls))
  BY RestOfCalls
<1>2. QED BY <1>1, AdvanceMoves, Zenon

\* Or when one row of it was dealt with.
LEMMA NextRowMoves ==
  ASSUME IInv, NEW p \in Procs, calls[p] # <<>>, ThisCall(p).op = "job_status",
         NEW j \in ThisCall(p).jobs, Advance(p, AfterRow(p, j))
  PROVE  CallMove(p)
<1>1. AfterRow(p, j) \in Seq(CallType) /\ (Live => AfterRow(p, j) \in Seq(OKCalls))
  BY RestAfterRow
<1>2. QED BY <1>1, AdvanceMoves

\* The updates a repair function derives from the rows it read are plain calls.
LEMMA SweepCallsType ==
  ASSUME NEW S \in SUBSET Jobs
  PROVE  SweepCalls(S) \in Seq(PlainCalls)
<1> DEFINE a == {j \in S : dbJob[j] \in WaitingStatus}
           f == {j \in S : dbJob[j] = "RUNNING"}
<1>1. a \in SUBSET Jobs /\ f \in SUBSET Jobs
  OBVIOUS
<1>2. "ABORTED" \in StoredStatus /\ "FAILED" \in StoredStatus
  BY DEF StoredStatus, TerminalStatus
<1>3. SweepCalls(S) = When(a # {}, <<SetJobs(a, "ABORTED")>>) \o When(f # {}, <<SetJobs(f, "FAILED")>>)
  BY DEF SweepCalls
<1> HIDE DEF a, f
<1>4. SetJobs(a, "ABORTED") \in PlainCalls /\ SetJobs(f, "FAILED") \in PlainCalls
  BY <1>1, <1>2, PlainTypes
<1>5. When(a # {}, <<SetJobs(a, "ABORTED")>>) \in Seq(PlainCalls)
      /\ When(f # {}, <<SetJobs(f, "FAILED")>>) \in Seq(PlainCalls)
  BY <1>4, OneCall, WhenSeq, Zenon
<1>6. QED BY <1>3, <1>5, JoinSeq

\* After a call that failed.
LEMMA FailedCallMoves ==
  ASSUME IInv, NEW p \in Procs, pc[p] \in Calling, calls[p] # <<>>, AfterFailedCall(p)
  PROVE  CallMove(p)
<1>1. /\ Tail(calls[p]) \in Seq(CallType) /\ (Live => Tail(calls[p]) \in Seq(OKCalls))
  BY RestOfCalls
<1>2. CASE \/ pc[p] = "mark" /\ GotoWith(p, "report", "ABORTED")
           \/ pc[p] = "settle" /\ TreatAsFailure(p)
           \/ pc[p] # "mark" /\ Release(p)
  BY <1>1, <1>2 DEF CallMove
<1>3. CASE Advance(p, Tail(calls[p]))
  BY <1>3, NextCallMoves
<1>4. CASE ThisCall(p).op = "job_status" /\ \E j \in ThisCall(p).jobs : Advance(p, AfterRow(p, j))
  BY <1>4, NextRowMoves
<1>5. QED BY <1>2, <1>3, <1>4 DEF AfterFailedCall

\* The Redis calls of the sequences.
LEMMA RedisCallEffect ==
  ASSUME IInv, NEW p \in Procs, RedisCall(p), UNCHANGED <<stream, localQueue>>
  PROVE  /\ CallEffect /\ RuntimeTypeOK'
         /\ pc[p] \in Calling /\ calls[p] # <<>>
<1>1. pc[p] \in Calling /\ calls[p] # <<>>
  BY DEF RedisCall, IsCalling
<1>2. ThisCall(p) \in CallType /\ (Live => CallOK(ThisCall(p)))
  BY <1>1, RestOfCalls, Zenon DEF OKCalls
<1>3. held[p] \in Jobs /\ RuntimeTypeOK
  BY <1>1 DEF IInv, ActorsOK, Calling, TypeOK
<1>4. CASE \E j \in ThisCall(p).jobs : IsCalling(p, "abort_runtime") /\ abort_job(j)
  <2>1. PICK j \in ThisCall(p).jobs : abort_job(j)
    BY <1>4
  <2>2. j \in Jobs BY <1>2 DEF CallType
  <2>3. Live => j \in Finished
    BY <1>2, <1>4 DEF CallOK, IsCalling
  <2>4. CallEffect
    BY <1>3, <2>1, <2>2, <2>3 DEF abort_job, CallEffect, RuntimeTypeOK
  <2>5. QED BY <1>1, <1>3, <2>1, <2>2, <2>4, SmallScriptTypes
<1>5. CASE remove_active_workflow
  <2>1. CallEffect
    BY <1>5 DEF remove_active_workflow, CallEffect
  <2>2. QED BY <1>1, <1>3, <1>5, <2>1, SmallScriptTypes
<1>6. CASE IsCalling(p, "drop_jobs") /\ delete_all_workflow_jobs
  <2>1. Live => Finished = Jobs
    BY <1>2, <1>6 DEF CallOK, IsCalling
  <2>2. CallEffect
    BY <1>6, <2>1 DEF delete_all_workflow_jobs, CallEffect
  <2>3. QED BY <1>1, <1>3, <1>6, <2>2, SmallScriptTypes
<1>7. CASE delete_workflow_runtime
  <2>1. CallEffect
    BY <1>7 DEF delete_workflow_runtime, CallEffect, Live
  <2>2. QED BY <1>1, <1>3, <1>7, <2>1, SmallScriptTypes
<1>8. QED BY <1>4, <1>5, <1>6, <1>7 DEF RedisCall

\* Every call of a fixed sequence, successful or not, keeps the invariant.
LEMMA MakeCallKeeps ==
  ASSUME IInv, NEW p \in Procs, MakeCall(p)
  PROVE  IInv'
<1>1. RuntimeTypeOK /\ DatabaseTypeOK
  BY DEF IInv, TypeOK
<1>2. ASSUME UNCHANGED <<redisVars, stream, localQueue>>
      PROVE  CallEffect /\ RuntimeTypeOK'
  BY <1>1, <1>2 DEF CallEffect, redisVars, RuntimeTypeOK
<1>3. CASE UpdateJobStatus(p)
  <2>1. PICK j \in ThisCall(p).jobs :
          /\ dbJob' = [dbJob EXCEPT ![j] = ThisCall(p).status]
          /\ Advance(p, AfterRow(p, j))
    BY <1>3, Zenon DEF UpdateJobStatus
  <2>2. pc[p] \in Calling /\ calls[p] # <<>> /\ ThisCall(p).op = "job_status"
    BY <1>3 DEF UpdateJobStatus, IsCalling
  <2>3. ThisCall(p).status \in StoredStatus
    BY <2>2, RestOfCalls, Zenon DEF CallType
  <2>4. DatabaseTypeOK'
    BY <1>1, <1>3, <2>1, <2>3, Zenon DEF UpdateJobStatus, DatabaseTypeOK
  <2>5. CallMove(p) BY <2>1, <2>2, NextRowMoves
  <2>6. QED BY <1>2, <1>3, <2>2, <2>4, <2>5, CallStepKeeps DEF UpdateJobStatus
<1>4. CASE UpdateWorkflowStatus(p)
  <2>1. pc[p] \in Calling /\ calls[p] # <<>> /\ ThisCall(p).op = "workflow_status"
    BY <1>4 DEF UpdateWorkflowStatus, IsCalling
  <2>2. ThisCall(p).status \in {"RUNNING", "COMPLETED", "FAILED"}
    BY <2>1, RestOfCalls, Zenon DEF CallType
  <2>3. DatabaseTypeOK'
    BY <1>1, <1>4, <2>2 DEF UpdateWorkflowStatus, DatabaseTypeOK
  <2>4. CallMove(p) BY <1>4, <2>1, NextCallMoves DEF UpdateWorkflowStatus
  <2>5. QED BY <1>2, <1>4, <2>1, <2>3, <2>4, CallStepKeeps DEF UpdateWorkflowStatus
<1>5. CASE UpdateReadyJobs(p)
  <2>1. pc[p] \in Calling /\ calls[p] # <<>>
    BY <1>5 DEF UpdateReadyJobs, IsCalling
  <2>2. DatabaseTypeOK'
    BY <1>1, <1>5 DEF UpdateReadyJobs, DatabaseTypeOK, StoredStatus, WaitingStatus
  <2>3. CallMove(p) BY <1>5, <2>1, NextCallMoves DEF UpdateReadyJobs
  <2>4. QED BY <1>2, <1>5, <2>1, <2>2, <2>3, CallStepKeeps DEF UpdateReadyJobs
<1>6. CASE SweepJobs(p)
  <2>1. pc[p] \in Calling /\ calls[p] # <<>>
    BY <1>6 DEF SweepJobs, IsCalling
  <2> DEFINE rest == SweepCalls(ThisCall(p).jobs) \o Tail(calls[p])
  <2>2. SweepCalls(ThisCall(p).jobs) \in Seq(PlainCalls)
    BY <2>1, RestOfCalls, SweepCallsType, Zenon DEF CallType
  <2>3. rest \in Seq(CallType) /\ (Live => rest \in Seq(OKCalls))
    BY <2>1, <2>2, PlainCallsOK, RestOfCalls, JoinSeq
  <2>4. CallMove(p) BY <1>6, <2>3, Zenon DEF SweepJobs, CallMove
  <2>5. DatabaseTypeOK' BY <1>1, <1>6 DEF SweepJobs, dbVars, DatabaseTypeOK
  <2>6. QED BY <1>2, <1>6, <2>1, <2>4, <2>5, CallStepKeeps DEF SweepJobs
<1>7. CASE UpdateRuntime(p)
  <2>1. CallEffect /\ RuntimeTypeOK' /\ pc[p] \in Calling /\ calls[p] # <<>>
    BY <1>7, RedisCallEffect DEF UpdateRuntime
  <2>2. CallMove(p) BY <1>7, <2>1, NextCallMoves DEF UpdateRuntime
  <2>3. DatabaseTypeOK' BY <1>1, <1>7 DEF UpdateRuntime, dbVars, DatabaseTypeOK
  <2>4. QED BY <2>1, <2>2, <2>3, CallStepKeeps
<1>8. CASE SqliteFails(p)
  <2>1. pc[p] \in Calling /\ calls[p] # <<>>
    BY <1>8 DEF SqliteFails, IsCalling
  <2>2. CallMove(p) BY <1>8, <2>1, FailedCallMoves DEF SqliteFails
  <2>3. DatabaseTypeOK' BY <1>1, <1>8 DEF SqliteFails, dbVars, DatabaseTypeOK
  <2>4. QED BY <1>2, <1>8, <2>1, <2>2, <2>3, CallStepKeeps DEF SqliteFails
<1>9. CASE RedisFails(p)
  <2>1. /\ CallEffect /\ RuntimeTypeOK'
        /\ pc[p] \in Calling /\ calls[p] # <<>>
    <3>1. CASE RedisCall(p) BY <1>9, <3>1, RedisCallEffect DEF RedisFails
    <3>2. CASE UNCHANGED redisVars /\ \E op \in Op : IsCalling(p, op)
      BY <1>2, <1>9, <3>2 DEF RedisFails, IsCalling
    <3>3. QED BY <1>9, <3>1, <3>2 DEF RedisFails, Op
  <2>2. CallMove(p)
    BY <1>9, <2>1, NextCallMoves, FailedCallMoves DEF RedisFails
  <2>3. DatabaseTypeOK' BY <1>1, <1>9 DEF RedisFails, dbVars, DatabaseTypeOK
  <2>4. QED BY <2>1, <2>2, <2>3, CallStepKeeps
<1>10. QED BY <1>3, <1>4, <1>5, <1>6, <1>7, <1>8, <1>9 DEF MakeCall
=============================================================================
