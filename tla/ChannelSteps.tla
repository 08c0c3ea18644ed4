---------------------------- MODULE ChannelSteps ----------------------------
(***************************************************************************)
(* Passing an attempt on through a channel, a worker queue or the          *)
(* completion stream, keeps the invariant IInv.                            *)
(***************************************************************************)
EXTENDS ActorSteps

\* Time limits of the provers, per step.
USE SMTT(60), ZenonT(60)

-----------------------------------------------------------------------------
(* Steps that pass an attempt on: from an actor to the end of a channel, or *)
(* from the head of a channel to an actor.                                  *)

\* While the workflow is live, a step that touches no Redis or SQLite state and
\* keeps the places disjoint keeps the invariant.
LEMMA ChannelStepKeeps ==
  ASSUME IInv, NEW p \in Procs, UNCHANGED <<redisVars, dbVars>>,
         ChannelTypeOK', ActorTypeOK', OthersStay(p), OwnLoop(p)',
         pc'[p] \notin {"claim", "promote"},
         \A i \in 1..Len(stream') : stream'[i].verdict # "INTERNAL",
         Live => /\ calls'[p] \in Seq(OKCalls) /\ OwnPlace(p)'
                 /\ OneCarrier' /\ OneEntry'
                 /\ \A s \in Schedulers : \A i \in 1..Len(localQueue'[s]) :
                      jobStatus[localQueue'[s][i]] = "PENDING_EXECUTION"
                 /\ \A i \in 1..Len(stream') :
                      jobStatus[stream'[i].job] \in StatusOf(stream'[i].verdict)
  PROVE  IInv'
<1> USE DEF IInv
<1>1. TypeOK'
  BY DEF TypeOK, RuntimeTypeOK, DatabaseTypeOK, redisVars, dbVars
<1>2. ActorsOK'
  BY ActorsKept
<1>3. ConcurrencyLimit'
  BY DEF ConcurrencyLimit, Active, redisVars
<1>4. NoSlotFromClaim'
  BY DEF NoSlotFromClaim, redisVars, OthersStay, Procs
<1>5. ASSUME Live' PROVE LiveInv'
  <2>1. Live /\ LiveInv
    BY <1>5 DEF Live, redisVars
  <2>2. \A q \in Procs : OwnPlace(q)'
    <3>1. \A q \in Procs : OwnPlace(q) BY <2>1, OwnPlaces
    <3>2. OwnPlace(p)' BY <2>1
    <3>3. jobStatus' = jobStatus /\ wfStatus' = wfStatus BY DEF redisVars
    <3>4. QED BY <3>1, <3>2, <3>3, OthersInPlace
  <2>3. SchedulersMatchStatus' /\ WorkersMatchStatus' /\ RetriesMatchStatus' /\ SecondTryFails'
    BY <2>1, <2>2 DEF OwnPlace, SchedulersMatchStatus, WorkersMatchStatus, RetriesMatchStatus,
                      SecondTryFails, Procs, redisVars
  <2>4. OutcomesMatchStatus'
    <3>1. \A i \in 1..Len(stream') : jobStatus'[stream'[i].job] \in StatusOf(stream'[i].verdict)
      BY <2>1 DEF redisVars
    <3>2. QED BY <2>2, <3>1 DEF OwnPlace, OutcomesMatchStatus, Procs, StatusOf
  <2>5. OnePop' /\ OneRetry'
    BY <2>1 DEF LiveInv, OnePop, OneRetry, OthersStay, Procs, redisVars
  <2>6. SlotsCoverActive' /\ QueuesMatchStatus' /\ NothingRanYet'
    BY <2>1 DEF LiveInv, SlotsCoverActive, QueuesMatchStatus, NothingRanYet, Live, Active,
                Finished, redisVars
  <2>7. CallsOK'
    <3>1. Seq(OKCalls) \subseteq Seq(OKCalls')
      BY CallsStayOK DEF Finished, redisVars
    <3>2. QED BY <2>1, <3>1 DEF LiveInv, CallsOK, OthersStay
  <2>8. QED BY <2>1, <2>3, <2>4, <2>5, <2>6, <2>7 DEF LiveInv
<1>6. QED BY <1>1, <1>2, <1>3, <1>4, <1>5

\* The attempt in p's hand becomes the last message of the stream.
LEMMA PublishKeeps ==
  ASSUME IInv, NEW p \in Procs, Carries(p), NEW v \in Verdict \ {"INTERNAL"},
         Live => jobStatus[held[p]] \in StatusOf(v),
         Publish(held[p], v), Release(p), UNCHANGED <<redisVars, dbVars, localQueue>>
  PROVE  IInv'
<1> DEFINE m == [job |-> held[p], verdict |-> v]
<1>1. ActorTypeOK /\ ChannelTypeOK /\ ActorsOK BY DEF IInv, TypeOK
<1>2. ActorTypeOK' /\ OthersStay(p) /\ pc'[p] = "idle" /\ calls'[p] = <<>>
  BY <1>1, ReleaseFacts
<1>3. OwnLoop(p)' /\ OwnPlace(p)' /\ ~Carries(p)'
  BY <1>2, IdleLoopNext
<1>4. held[p] \in Jobs
  BY <1>1 DEF Carries, ActorsOK, Deciding
<1>5. m \in Message /\ m.job = held[p] /\ m.verdict = v
  BY <1>4 DEF Message
<1>6. /\ stream' \in Seq(Message) /\ Len(stream') = Len(stream) + 1 /\ Len(stream) \in Nat
      /\ \A i \in 1..Len(stream) : stream'[i] = stream[i]
      /\ stream'[Len(stream) + 1] = m
  <2>1. stream \in Seq(Message) /\ stream' = Append(stream, m) BY <1>1 DEF Publish, ChannelTypeOK
  <2>2. QED BY <1>5, <2>1, SeqAppend, SeqLen
<1> HIDE DEF m
<1>7. ChannelTypeOK'
  BY <1>1, <1>6 DEF ChannelTypeOK
<1>8. \A i \in 1..Len(stream') : i \in 1..Len(stream) \/ i = Len(stream) + 1
  BY <1>6
<1>9. \A i \in 1..Len(stream') : stream'[i].verdict # "INTERNAL"
  BY <1>1, <1>5, <1>6, <1>8 DEF ActorsOK
<1>10. ASSUME Live
       PROVE  /\ calls'[p] \in Seq(OKCalls)
              /\ OneCarrier' /\ OneEntry'
              /\ \A s \in Schedulers : \A i \in 1..Len(localQueue'[s]) :
                   jobStatus[localQueue'[s][i]] = "PENDING_EXECUTION"
              /\ \A i \in 1..Len(stream') :
                   jobStatus[stream'[i].job] \in StatusOf(stream'[i].verdict)
  <2>1. /\ OneCarrier /\ OneEntry
        /\ SchedulersMatchStatus /\ OutcomesMatchStatus /\ CallsOK
    BY <1>10 DEF IInv, LiveInv
  <2>2. \A q \in Procs : Carries(q)' => q # p /\ Carries(q) /\ held'[q] = held[q]
    BY <1>2, <1>3 DEF OthersStay, Carries
  <2>3. \A q \in Procs : Carries(q)' => held'[q] # held[p]
    BY <2>1, <2>2 DEF OneCarrier
  <2>4. OneCarrier'
    <3>1. \A q, r \in Procs : q # r /\ Carries(q)' /\ Carries(r)' => held'[q] # held'[r]
      BY <2>1, <2>2 DEF OneCarrier
    <3>2. \A q \in Procs, s \in Schedulers : Carries(q)' =>
            \A i \in 1..Len(localQueue'[s]) : localQueue'[s][i] # held'[q]
      BY <2>1, <2>2 DEF OneCarrier
    <3>3. \A q \in Procs : Carries(q)' => \A i \in 1..Len(stream) : stream[i].job # held'[q]
      BY <2>1, <2>2 DEF OneCarrier
    <3>4. \A q \in Procs : Carries(q)' => \A i \in 1..Len(stream') : stream'[i].job # held'[q]
      BY <1>5, <1>6, <1>8, <2>3, <3>3
    <3>5. QED BY <3>1, <3>2, <3>4 DEF OneCarrier
  <2>5. \A i \in 1..Len(stream) : stream[i].job # held[p]
    BY <2>1 DEF OneCarrier
  <2>6. \A s \in Schedulers : \A i \in 1..Len(localQueue[s]) : localQueue[s][i] # held[p]
    BY <2>1 DEF OneCarrier
  <2>7. OneEntry'
    BY <1>5, <1>6, <1>8, <2>1, <2>5, <2>6 DEF OneEntry
  <2>8. \A i \in 1..Len(stream') : jobStatus[stream'[i].job] \in StatusOf(stream'[i].verdict)
    BY <1>5, <1>6, <1>8, <1>10, <2>1 DEF OutcomesMatchStatus
  <2>9. \A s \in Schedulers : \A i \in 1..Len(localQueue'[s]) :
          jobStatus[localQueue'[s][i]] = "PENDING_EXECUTION"
    BY <2>1 DEF SchedulersMatchStatus
  <2>10. calls'[p] \in Seq(OKCalls)
    BY <1>2, SeqEmpty
  <2>11. QED BY <2>4, <2>7, <2>8, <2>9, <2>10
<1>11. pc'[p] \notin {"claim", "promote"}
  BY <1>2
<1>12. QED BY <1>2, <1>3, <1>7, <1>9, <1>10, <1>11, ChannelStepKeeps, Zenon

\* Scheduler s pushes the job in its hand to its worker queue.
LEMMA DispatchKeeps ==
  ASSUME IInv, NEW s \in Schedulers, Dispatch(s)
  PROVE  IInv'
<1>1. ActorTypeOK /\ ChannelTypeOK /\ ActorsOK /\ s \in Procs BY DEF IInv, TypeOK, Procs
<1>2. pc[s] = "dispatch" /\ Carries(s) /\ held[s] \in Jobs
  BY <1>1 DEF Dispatch, Carries, ActorsOK
<1>3. ActorTypeOK' /\ OthersStay(s) /\ pc'[s] = "idle" /\ calls'[s] = <<>>
  BY <1>1, ReleaseFacts DEF Dispatch
<1>4. OwnLoop(s)' /\ OwnPlace(s)' /\ ~Carries(s)'
  BY <1>1, <1>3, IdleLoopNext
<1>5. /\ localQueue'[s] \in Seq(Jobs) /\ Len(localQueue'[s]) = Len(localQueue[s]) + 1
      /\ Len(localQueue[s]) \in Nat
      /\ \A i \in 1..Len(localQueue[s]) : localQueue'[s][i] = localQueue[s][i]
      /\ localQueue'[s][Len(localQueue[s]) + 1] = held[s]
      /\ \A t \in Schedulers \ {s} : localQueue'[t] = localQueue[t]
  BY <1>1, <1>2, SeqAppend, SeqLen DEF Dispatch, ChannelTypeOK
<1>6. ChannelTypeOK' /\ stream' = stream
  BY <1>1, <1>5 DEF ChannelTypeOK, Dispatch
<1>7. \A i \in 1..Len(localQueue'[s]) : i \in 1..Len(localQueue[s]) \/ i = Len(localQueue[s]) + 1
  BY <1>5
<1>8. \A i \in 1..Len(stream') : stream'[i].verdict # "INTERNAL"
  BY <1>1, <1>6 DEF ActorsOK
<1>9. ASSUME Live
      PROVE  /\ calls'[s] \in Seq(OKCalls)
             /\ OneCarrier' /\ OneEntry'
             /\ \A t \in Schedulers : \A i \in 1..Len(localQueue'[t]) :
                  jobStatus[localQueue'[t][i]] = "PENDING_EXECUTION"
             /\ \A i \in 1..Len(stream') :
                  jobStatus[stream'[i].job] \in StatusOf(stream'[i].verdict)
  <2>1. /\ OneCarrier /\ OneEntry
        /\ SchedulersMatchStatus /\ OutcomesMatchStatus /\ CallsOK
    BY <1>9 DEF IInv, LiveInv
  <2>2. \A q \in Procs : Carries(q)' => q # s /\ Carries(q) /\ held'[q] = held[q]
    BY <1>3, <1>4 DEF OthersStay, Carries
  <2>3. \A q \in Procs : Carries(q)' => held'[q] # held[s]
    BY <1>1, <1>2, <2>1, <2>2 DEF OneCarrier
  <2>4. OneCarrier'
    <3>1. OneCarrier BY <2>1
    <3>2. \A p, q \in Procs : p # q /\ Carries(p)' /\ Carries(q)' => held'[p] # held'[q]
      BY <2>2, <3>1 DEF OneCarrier
    <3>3. \A p \in Procs : Carries(p)' => \A i \in 1..Len(localQueue'[s]) : localQueue'[s][i] # held'[p]
      BY <1>5, <1>7, <2>2, <2>3, <3>1 DEF OneCarrier
    <3>4. \A p \in Procs, t \in Schedulers \ {s} : Carries(p)' =>
            \A i \in 1..Len(localQueue'[t]) : localQueue'[t][i] # held'[p]
      <4>1. \A t \in Schedulers \ {s} : localQueue'[t] = localQueue[t] BY <1>5
      <4>2. QED BY <2>2, <3>1, <4>1 DEF OneCarrier
    <3>5. \A p \in Procs : Carries(p)' => \A i \in 1..Len(stream') : stream'[i].job # held'[p]
      BY <1>6, <2>2, <3>1 DEF OneCarrier
    <3>6. QED BY <3>2, <3>3, <3>4, <3>5 DEF OneCarrier
  <2>5. \A i \in 1..Len(stream) : stream[i].job # held[s]
    BY <1>1, <1>2, <2>1 DEF OneCarrier
  <2>6. \A t \in Schedulers : \A i \in 1..Len(localQueue[t]) : localQueue[t][i] # held[s]
    BY <1>1, <1>2, <2>1 DEF OneCarrier
  <2>7. OneEntry'
    <3>1. \A i, k \in 1..Len(localQueue'[s]) : i # k => localQueue'[s][i] # localQueue'[s][k]
      <4>1. \A i, k \in 1..Len(localQueue[s]) : i # k => localQueue[s][i] # localQueue[s][k]
        BY <2>1 DEF OneEntry
      <4>2. \A i \in 1..Len(localQueue[s]) : localQueue[s][i] # held[s]
        BY <2>6
      <4>3. QED BY <1>5, <1>7, <4>1, <4>2
    <3>2. \A t \in Schedulers \ {s} : \A i \in 1..Len(localQueue'[s]), k \in 1..Len(localQueue[t]) :
            localQueue'[s][i] # localQueue[t][k]
      BY <1>5, <1>7, <2>1, <2>6 DEF OneEntry
    <3>3. \A i \in 1..Len(localQueue'[s]), k \in 1..Len(stream) : localQueue'[s][i] # stream[k].job
      BY <1>5, <1>7, <2>1, <2>5 DEF OneEntry
    <3>4. /\ \A t \in Schedulers \ {s} : localQueue'[t] = localQueue[t]
          /\ stream' = stream
      BY <1>5, <1>6
    <3>5. OneEntry BY <2>1
    <3>6. \A t \in Schedulers : \A i, k \in 1..Len(localQueue'[t]) :
            i # k => localQueue'[t][i] # localQueue'[t][k]
      BY <3>1, <3>4, <3>5 DEF OneEntry
    <3>7. \A t, u \in Schedulers : t # u =>
            \A i \in 1..Len(localQueue'[t]), k \in 1..Len(localQueue'[u]) :
              localQueue'[t][i] # localQueue'[u][k]
      BY <3>2, <3>4, <3>5 DEF OneEntry
    <3>8. \A i, k \in 1..Len(stream') : i # k => stream'[i].job # stream'[k].job
      BY <3>4, <3>5 DEF OneEntry
    <3>9. \A t \in Schedulers : \A i \in 1..Len(localQueue'[t]), k \in 1..Len(stream') :
            localQueue'[t][i] # stream'[k].job
      BY <3>3, <3>4, <3>5 DEF OneEntry
    <3>10. QED BY <3>6, <3>7, <3>8, <3>9 DEF OneEntry
  <2>8. \A t \in Schedulers : \A i \in 1..Len(localQueue'[t]) :
          jobStatus[localQueue'[t][i]] = "PENDING_EXECUTION"
    <3>1. SchedulersMatchStatus BY <2>1
    <3>2. \A i \in 1..Len(localQueue'[s]) : jobStatus[localQueue'[s][i]] = "PENDING_EXECUTION"
      BY <1>2, <1>5, <1>7, <3>1 DEF SchedulersMatchStatus
    <3>3. \A t \in Schedulers \ {s} : localQueue'[t] = localQueue[t] BY <1>5
    <3>4. QED BY <3>1, <3>2, <3>3 DEF SchedulersMatchStatus
  <2>9. \A i \in 1..Len(stream') : jobStatus[stream'[i].job] \in StatusOf(stream'[i].verdict)
    BY <1>6, <2>1 DEF OutcomesMatchStatus
  <2>10. calls'[s] \in Seq(OKCalls)
    BY <1>3, SeqEmpty
  <2>11. QED BY <2>4, <2>7, <2>8, <2>9, <2>10
<1>10. pc'[s] \notin {"claim", "promote"} /\ UNCHANGED <<redisVars, dbVars>>
  BY <1>3 DEF Dispatch
<1>11. QED BY <1>1, <1>3, <1>4, <1>6, <1>8, <1>9, <1>10, ChannelStepKeeps, Zenon

\* Worker w takes the first job of its scheduler's worker queue.
LEMMA FetchJobKeeps ==
  ASSUME IInv, NEW w \in Workers, FetchJob(w)
  PROVE  IInv'
<1> DEFINE s == SchedulerOf[w]
           j == Head(localQueue[s])
<1>1. /\ ActorTypeOK /\ ChannelTypeOK /\ ActorsOK /\ w \in Procs /\ s \in Schedulers
      /\ w \notin Schedulers /\ w \notin Handlers /\ w \notin RetryHandlers
  BY ActorsAssumption DEF IInv, TypeOK, Procs
<1>2. pc[w] = "idle" /\ localQueue[s] # <<>> /\ stream' = stream /\ UNCHANGED <<redisVars, dbVars>>
  BY DEF FetchJob
<1>3. /\ Len(localQueue[s]) \in Nat \ {0}
      /\ localQueue'[s] \in Seq(Jobs) /\ Len(localQueue'[s]) = Len(localQueue[s]) - 1
      /\ \A i \in 1..Len(localQueue'[s]) : localQueue'[s][i] = localQueue[s][i + 1]
      /\ \A t \in Schedulers \ {s} : localQueue'[t] = localQueue[t]
  BY <1>1, <1>2, HeadTail, SeqEmpty DEF FetchJob, ChannelTypeOK
<1>4. j \in Jobs /\ j = localQueue[s][1]
  BY <1>1, <1>2, HeadTail DEF ChannelTypeOK
<1>5. /\ ActorTypeOK' /\ OthersStay(w)
      /\ pc'[w] = "start" /\ held'[w] = j /\ verdict'[w] = "NONE" /\ calls'[w] = calls[w]
  <2>1. "start" \in PC BY DEF PC
  <2>2. Take(w, "start", j, "NONE") BY DEF FetchJob
  <2>3. QED BY <1>1, <1>4, <2>1, <2>2, TakeFacts
<1> HIDE DEF s, j
<1>6. OwnLoop(w)'
  BY <1>1, <1>4, <1>5 DEF OwnLoop
<1>7. ChannelTypeOK'
  BY <1>1, <1>2, <1>3 DEF ChannelTypeOK, FetchJob
<1>8. \A i \in 1..Len(stream') : stream'[i].verdict # "INTERNAL"
  BY <1>1, <1>2 DEF ActorsOK
<1>9. ASSUME Live
      PROVE  /\ calls'[w] \in Seq(OKCalls) /\ OwnPlace(w)'
             /\ OneCarrier' /\ OneEntry'
             /\ \A t \in Schedulers : \A i \in 1..Len(localQueue'[t]) :
                  jobStatus[localQueue'[t][i]] = "PENDING_EXECUTION"
             /\ \A i \in 1..Len(stream') :
                  jobStatus[stream'[i].job] \in StatusOf(stream'[i].verdict)
  <2>1. /\ OneCarrier /\ OneEntry
        /\ SchedulersMatchStatus /\ OutcomesMatchStatus /\ CallsOK
    BY <1>9 DEF IInv, LiveInv
  <2>2. \A q \in Procs \ {w} : Carries(q)' => Carries(q) /\ held'[q] = held[q]
    BY <1>5 DEF OthersStay, Carries
  <2>3. \A i \in 1..Len(localQueue'[s]) :
          i + 1 \in 1..Len(localQueue[s]) /\ 1 \in 1..Len(localQueue[s]) /\ i + 1 # 1
    BY <1>3
  <2>4. 1 \in 1..Len(localQueue[s])
    BY <1>3
  <2>5. \A q \in Procs \ {w} : Carries(q)' => held'[q] # j
    BY <1>1, <1>4, <2>1, <2>2, <2>4 DEF OneCarrier
  <2>6. /\ \A i \in 1..Len(localQueue'[s]) : localQueue'[s][i] # j
        /\ \A t \in Schedulers \ {s} : \A i \in 1..Len(localQueue[t]) : localQueue[t][i] # j
        /\ \A i \in 1..Len(stream) : stream[i].job # j
    <3>1. OneEntry BY <2>1
    <3>2. \A i \in 1..Len(localQueue'[s]) : localQueue[s][i + 1] # localQueue[s][1]
      BY <1>1, <2>3, <3>1 DEF OneEntry
    <3>3. \A t \in Schedulers \ {s} : \A i \in 1..Len(localQueue[t]) : localQueue[t][i] # localQueue[s][1]
      BY <1>1, <2>4, <3>1 DEF OneEntry
    <3>4. \A i \in 1..Len(stream) : stream[i].job # localQueue[s][1]
      BY <1>1, <2>4, <3>1 DEF OneEntry
    <3>5. QED BY <1>3, <1>4, <3>2, <3>3, <3>4
  <2>7. OneCarrier'
    <3>1. \A p, q \in Procs : p # q /\ Carries(p)' /\ Carries(q)' => held'[p] # held'[q]
      BY <1>5, <2>1, <2>2, <2>5 DEF OneCarrier
    <3>2. \A p \in Procs, t \in Schedulers : Carries(p)' =>
            \A i \in 1..Len(localQueue'[t]) : localQueue'[t][i] # held'[p]
      <4>1. OneCarrier BY <2>1
      <4>2. \A p \in Procs \ {w} : Carries(p)' =>
              \A i \in 1..Len(localQueue'[s]) : localQueue[s][i + 1] # held'[p]
        BY <1>1, <2>2, <2>3, <4>1 DEF OneCarrier
      <4>3. \A p \in Procs \ {w}, t \in Schedulers \ {s} : Carries(p)' =>
              \A i \in 1..Len(localQueue'[t]) : localQueue'[t][i] # held'[p]
        BY <1>3, <2>2, <4>1 DEF OneCarrier
      <4>4. \A t \in Schedulers : \A i \in 1..Len(localQueue'[t]) : localQueue'[t][i] # held'[w]
        BY <1>3, <1>5, <2>6
      <4>5. QED BY <1>3, <4>2, <4>3, <4>4
    <3>3. \A p \in Procs : Carries(p)' => \A i \in 1..Len(stream') : stream'[i].job # held'[p]
      BY <1>2, <1>5, <2>1, <2>2, <2>6 DEF OneCarrier
    <3>4. QED BY <3>1, <3>2, <3>3 DEF OneCarrier
  <2>8. OneEntry'
    <3>1. OneEntry BY <2>1
    <3>2. \A i, k \in 1..Len(localQueue'[s]) : i # k => localQueue'[s][i] # localQueue'[s][k]
      <4> DEFINE n == Len(localQueue'[s])
      <4>1. SUFFICES ASSUME NEW i \in 1..n, NEW k \in 1..n, i # k
                     PROVE  localQueue'[s][i] # localQueue'[s][k]
        OBVIOUS
      <4>2. localQueue'[s][i] = localQueue[s][i + 1] /\ localQueue'[s][k] = localQueue[s][k + 1]
        BY <1>3
      <4>3. i + 1 \in 1..Len(localQueue[s]) /\ k + 1 \in 1..Len(localQueue[s]) /\ i + 1 # k + 1
        <5>1. i \in Int /\ k \in Int OBVIOUS
        <5>2. i + 1 # k + 1 BY <4>1, <5>1
        <5>3. QED BY <2>3, <5>2
      <4>4. QED BY <1>1, <3>1, <4>2, <4>3 DEF OneEntry
    <3>3. \A t \in Schedulers \ {s} : \A i \in 1..Len(localQueue'[s]), k \in 1..Len(localQueue[t]) :
            localQueue'[s][i] # localQueue[t][k]
      <4>1. \A t \in Schedulers \ {s} : \A i \in 1..Len(localQueue'[s]), k \in 1..Len(localQueue[t]) :
              localQueue[s][i + 1] # localQueue[t][k]
        BY <1>1, <2>3, <3>1 DEF OneEntry
      <4>2. QED BY <1>3, <4>1
    <3>4. \A i \in 1..Len(localQueue'[s]), k \in 1..Len(stream) : localQueue'[s][i] # stream[k].job
      <4>1. \A i \in 1..Len(localQueue'[s]), k \in 1..Len(stream) : localQueue[s][i + 1] # stream[k].job
        BY <1>1, <2>3, <3>1 DEF OneEntry
      <4>2. QED BY <1>3, <4>1
    <3>5. \A t \in Schedulers : \A i, k \in 1..Len(localQueue'[t]) :
            i # k => localQueue'[t][i] # localQueue'[t][k]
      <4>1. \A t \in Schedulers \ {s} : localQueue'[t] = localQueue[t] BY <1>3
      <4>2. QED BY <3>1, <3>2, <4>1 DEF OneEntry
    <3>6. \A t, u \in Schedulers : t # u =>
            \A i \in 1..Len(localQueue'[t]), k \in 1..Len(localQueue'[u]) :
              localQueue'[t][i] # localQueue'[u][k]
      <4>1. \A t, u \in Schedulers \ {s} : t # u =>
              \A i \in 1..Len(localQueue'[t]), k \in 1..Len(localQueue'[u]) :
                localQueue'[t][i] # localQueue'[u][k]
        <5>1. \A t \in Schedulers \ {s} : localQueue'[t] = localQueue[t] BY <1>3
        <5>2. QED BY <3>1, <5>1 DEF OneEntry
      <4>2. \A t \in Schedulers \ {s} : \A i \in 1..Len(localQueue'[s]), k \in 1..Len(localQueue'[t]) :
              localQueue'[s][i] # localQueue'[t][k]
        <5>1. \A t \in Schedulers \ {s} : localQueue'[t] = localQueue[t] BY <1>3
        <5>2. QED BY <3>3, <5>1
      <4>3. QED BY <4>1, <4>2
    <3>7. \A t \in Schedulers : \A i \in 1..Len(localQueue'[t]), k \in 1..Len(stream') :
            localQueue'[t][i] # stream'[k].job
      <4>1. \A t \in Schedulers \ {s} : localQueue'[t] = localQueue[t] BY <1>3
      <4>2. QED BY <1>2, <3>1, <3>4, <4>1 DEF OneEntry
    <3>8. QED BY <1>2, <3>1, <3>5, <3>6, <3>7 DEF OneEntry
  <2>9. \A t \in Schedulers : \A i \in 1..Len(localQueue'[t]) :
          jobStatus[localQueue'[t][i]] = "PENDING_EXECUTION"
    <3>1. SchedulersMatchStatus BY <2>1
    <3>2. \A i \in 1..Len(localQueue'[s]) : jobStatus[localQueue'[s][i]] = "PENDING_EXECUTION"
      <4>1. \A i \in 1..Len(localQueue'[s]) : jobStatus[localQueue[s][i + 1]] = "PENDING_EXECUTION"
        BY <1>1, <2>3, <3>1 DEF SchedulersMatchStatus
      <4>2. QED BY <1>3, <4>1
    <3>3. \A t \in Schedulers \ {s} : localQueue'[t] = localQueue[t] BY <1>3
    <3>4. QED BY <3>1, <3>2, <3>3 DEF SchedulersMatchStatus
  <2>10. \A i \in 1..Len(stream') : jobStatus[stream'[i].job] \in StatusOf(stream'[i].verdict)
    BY <1>2, <2>1 DEF OutcomesMatchStatus
  <2>11. OwnPlace(w)'
    <3>1. jobStatus'[j] = "PENDING_EXECUTION"
      BY <1>1, <1>2, <1>4, <2>1, <2>4 DEF SchedulersMatchStatus, redisVars
    <3>2. QED BY <1>1, <1>5, <3>1 DEF OwnPlace
  <2>12. calls'[w] \in Seq(OKCalls)
    BY <1>1, <1>5, <2>1 DEF CallsOK
  <2>13. QED BY <2>7, <2>8, <2>9, <2>10, <2>11, <2>12
<1>10. pc'[w] \notin {"claim", "promote"}
  BY <1>5
<1>11. QED BY <1>1, <1>2, <1>5, <1>6, <1>7, <1>8, <1>9, <1>10, ChannelStepKeeps

\* Handler h takes the first message of the stream, which may get lost.
LEMMA DequeueCompletionKeeps ==
  ASSUME IInv, NEW h \in Handlers, DequeueCompletion(h)
  PROVE  IInv'
<1> DEFINE m == Head(stream)
<1>1. /\ ActorTypeOK /\ ChannelTypeOK /\ ActorsOK /\ h \in Procs
      /\ h \notin Schedulers /\ h \notin Workers /\ h \notin RetryHandlers
  BY ActorsAssumption DEF IInv, TypeOK, Procs
<1>2. /\ pc[h] = "idle" /\ stream # <<>> /\ localQueue' = localQueue /\ UNCHANGED <<redisVars, dbVars>>
  BY DEF DequeueCompletion
<1>3. /\ Len(stream) \in Nat \ {0}
      /\ stream' \in Seq(Message) /\ Len(stream') = Len(stream) - 1
      /\ \A i \in 1..Len(stream') : stream'[i] = stream[i + 1]
  BY <1>1, <1>2, HeadTail, SeqEmpty DEF DequeueCompletion, ChannelTypeOK
<1>4. 1 \in 1..Len(stream) /\ \A i \in 1..Len(stream') : i + 1 \in 1..Len(stream) /\ i + 1 # 1
  BY <1>3
<1>5. m = stream[1]
  BY <1>1, <1>2 DEF ChannelTypeOK
<1>6. m.job \in Jobs /\ m.verdict \in Verdict \ {"INTERNAL"}
  BY <1>1, <1>4, <1>5, ChannelEntries DEF ActorsOK
<1>7. /\ ActorTypeOK' /\ OthersStay(h) /\ calls'[h] = calls[h]
      /\ \/ pc'[h] = "fetch" /\ held'[h] = m.job /\ verdict'[h] = m.verdict
         \/ pc'[h] = "idle"
  <2>1. CASE Take(h, "fetch", m.job, m.verdict)
    <3>1. "fetch" \in PC BY DEF PC
    <3>2. QED BY <1>1, <1>6, <2>1, <3>1, TakeFacts
  <2>2. CASE UNCHANGED procVars
    BY <1>1, <1>2, <2>2 DEF procVars, ActorTypeOK, OthersStay
  <2>3. QED BY <2>1, <2>2 DEF DequeueCompletion
<1> HIDE DEF m
<1>8. OwnLoop(h)'
  BY <1>1, <1>6, <1>7, IdleLoopNext DEF OwnLoop, Deciding
<1>9. ChannelTypeOK'
  BY <1>1, <1>2, <1>3 DEF ChannelTypeOK
<1>10. \A i \in 1..Len(stream') : stream'[i].verdict # "INTERNAL"
  BY <1>1, <1>3, <1>4 DEF ActorsOK
<1>11. ASSUME Live
       PROVE  /\ calls'[h] \in Seq(OKCalls) /\ OwnPlace(h)'
              /\ OneCarrier' /\ OneEntry'
              /\ \A t \in Schedulers : \A i \in 1..Len(localQueue'[t]) :
                   jobStatus[localQueue'[t][i]] = "PENDING_EXECUTION"
              /\ \A i \in 1..Len(stream') :
                   jobStatus[stream'[i].job] \in StatusOf(stream'[i].verdict)
  <2>1. /\ OneCarrier /\ OneEntry
        /\ SchedulersMatchStatus /\ OutcomesMatchStatus /\ CallsOK
    BY <1>11 DEF IInv, LiveInv
  <2>2. \A q \in Procs \ {h} : Carries(q)' => Carries(q) /\ held'[q] = held[q]
    BY <1>7 DEF OthersStay, Carries
  <2>3. Carries(h)' => held'[h] = m.job
    BY <1>1, <1>7, IdleLoopNext
  <2>4. \A q \in Procs \ {h} : Carries(q)' => held'[q] # m.job
    BY <1>4, <1>5, <2>1, <2>2 DEF OneCarrier
  <2>5. /\ \A i \in 1..Len(stream') : stream'[i].job # m.job
        /\ \A t \in Schedulers : \A i \in 1..Len(localQueue[t]) : localQueue[t][i] # m.job
    BY <1>3, <1>4, <1>5, <2>1 DEF OneEntry
  <2>6. OneCarrier'
    <3>1. \A p, q \in Procs : p # q /\ Carries(p)' /\ Carries(q)' => held'[p] # held'[q]
      BY <2>1, <2>2, <2>3, <2>4 DEF OneCarrier
    <3>2. \A p \in Procs, t \in Schedulers : Carries(p)' =>
            \A i \in 1..Len(localQueue'[t]) : localQueue'[t][i] # held'[p]
      BY <1>2, <2>1, <2>2, <2>3, <2>5 DEF OneCarrier
    <3>3. \A p \in Procs : Carries(p)' => \A i \in 1..Len(stream') : stream'[i].job # held'[p]
      BY <1>3, <1>4, <2>1, <2>2, <2>3, <2>5 DEF OneCarrier
    <3>4. QED BY <3>1, <3>2, <3>3 DEF OneCarrier
  <2>7. OneEntry'
    <3>1. OneEntry BY <2>1
    <3>2. \A i, k \in 1..Len(stream') : i # k => stream'[i].job # stream'[k].job
      <4>1. SUFFICES ASSUME NEW i \in 1..Len(stream'), NEW k \in 1..Len(stream'), i # k
                     PROVE  stream[i + 1].job # stream[k + 1].job
        BY <1>3
      <4>2. i + 1 \in 1..Len(stream) /\ k + 1 \in 1..Len(stream) /\ i + 1 # k + 1
        <5>1. i \in Int /\ k \in Int OBVIOUS
        <5>2. i + 1 # k + 1 BY <4>1, <5>1
        <5>3. QED BY <1>4, <5>2
      <4>3. QED BY <3>1, <4>2 DEF OneEntry
    <3>3. \A t \in Schedulers : \A i \in 1..Len(localQueue[t]), k \in 1..Len(stream') :
            localQueue[t][i] # stream'[k].job
      <4>1. \A t \in Schedulers : \A i \in 1..Len(localQueue[t]), k \in 1..Len(stream') :
              localQueue[t][i] # stream[k + 1].job
        BY <1>4, <3>1 DEF OneEntry
      <4>2. QED BY <1>3, <4>1
    <3>4. QED BY <1>2, <3>1, <3>2, <3>3 DEF OneEntry
  <2>8. \A t \in Schedulers : \A i \in 1..Len(localQueue'[t]) :
          jobStatus[localQueue'[t][i]] = "PENDING_EXECUTION"
    BY <1>2, <2>1 DEF SchedulersMatchStatus
  <2>9. \A i \in 1..Len(stream') : jobStatus[stream'[i].job] \in StatusOf(stream'[i].verdict)
    BY <1>3, <1>4, <2>1 DEF OutcomesMatchStatus
  <2>10. OwnPlace(h)'
    <3>1. jobStatus'[m.job] \in StatusOf(m.verdict)
      BY <1>2, <1>4, <1>5, <2>1 DEF OutcomesMatchStatus, redisVars
    <3>2. QED BY <1>1, <1>6, <1>7, <3>1, IdleLoopNext DEF OwnPlace, StatusOf
  <2>11. calls'[h] \in Seq(OKCalls)
    BY <1>1, <1>7, <2>1 DEF CallsOK
  <2>12. QED BY <2>6, <2>7, <2>8, <2>9, <2>10, <2>11
<1>12. pc'[h] \notin {"claim", "promote"}
  BY <1>7
<1>13. QED BY <1>1, <1>2, <1>7, <1>8, <1>9, <1>10, <1>11, <1>12, ChannelStepKeeps
=============================================================================
