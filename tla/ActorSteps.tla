----------------------------- MODULE ActorSteps -----------------------------
(***************************************************************************)
(* Classes of steps of one actor that keep the invariant IInv: a step that *)
(* leaves the channels alone, a script call in a workflow that is live     *)
(* afterwards and one in a workflow that is not.                           *)
(***************************************************************************)
EXTENDS RuntimeLemmas

\* Time limits of the provers, per step.
USE SMTT(60), ZenonT(60)

-----------------------------------------------------------------------------
(* A step of one actor p that leaves the worker queues and the stream       *)
(* alone.                                                                   *)

\* The status of the job in p's hand fits the call p is about to make.
OwnPlace(p) ==
  /\ p \in Schedulers =>
       /\ pc[p] = "claim" => jobStatus[held[p]] = "QUEUED"
       /\ pc[p] = "dispatch" => jobStatus[held[p]] = "PENDING_EXECUTION"
  /\ p \in Workers =>
       /\ pc[p] = "start" => jobStatus[held[p]] = "PENDING_EXECUTION"
       /\ pc[p] \in {"mark", "execute"} => jobStatus[held[p]] = "RUNNING"
       /\ pc[p] = "report" => jobStatus[held[p]] \in StatusOf(verdict[p])
  /\ p \in Handlers =>
       /\ pc[p] \in Deciding /\ verdict[p] # "INTERNAL" =>
            jobStatus[held[p]] \in StatusOf(verdict[p])
       /\ pc[p] = "settle" \/ (pc[p] \in Deciding /\ verdict[p] = "INTERNAL") =>
            wfStatus = "RUNNING"
  /\ p \in RetryHandlers /\ pc[p] = "promote" => jobStatus[held[p]] = "RETRY_DELAY"

\* In a live workflow every actor is in its place.
LEMMA OwnPlaces ==
  ASSUME LiveInv
  PROVE  \A p \in Procs : OwnPlace(p)
BY DEF LiveInv, OwnPlace, SchedulersMatchStatus, WorkersMatchStatus, RetriesMatchStatus,
       OutcomesMatchStatus, SecondTryFails

\* The job of an attempt in flight holds a slot.
LEMMA CarriedStatus ==
  ASSUME ActorsOK, LiveInv, NEW p \in Procs, Carries(p)
  PROVE  held[p] \in Jobs /\ jobStatus[held[p]] \in {"PENDING_EXECUTION", "RUNNING"}
BY OwnPlaces DEF OwnPlace, Carries, ActorsOK, StatusOf, Deciding

\* p holds its job exclusively.
InHand(p) == Carries(p) \/ pc[p] \in {"claim", "promote"}

\* What the step of p does to the actors and to the jobs.
ActorStep(p) ==
  /\ UNCHANGED <<stream, localQueue>>
  /\ \A q \in Procs \ {p} : pc'[q] = pc[q] /\ held'[q] = held[q] /\ verdict'[q] = verdict[q]
  /\ pc'[p] = "idle" \/ held'[p] = held[p]
  /\ pc'[p] \in {"claim", "promote"} => pc'[p] = pc[p]
  /\ Carries(p)' => Carries(p) \/ pc[p] = "claim"
  /\ \A k \in Jobs : \/ jobStatus'[k] = jobStatus[k]
                     \/ jobStatus[k] \in {"PENDING", "READY"}
                     \/ k = held[p] /\ InHand(p)
  /\ \A k \in execQueue' \ execQueue : jobStatus[k] \in {"PENDING", "READY", "RETRY_DELAY"}
  /\ \A k \in retryQueue' \ retryQueue : jobStatus[k] = "RUNNING"
  /\ wfStatus = "RUNNING" => wfStatus' = "RUNNING"

\* Such a step keeps the job statuses and the places of the jobs consistent.
LEMMA ActorStepKeeps ==
  ASSUME IInv, Live, TypeOK', ActorsOK', NEW p \in Procs, ActorStep(p), OwnPlace(p)'
  PROVE  /\ SchedulersMatchStatus' /\ WorkersMatchStatus' /\ RetriesMatchStatus'
         /\ OutcomesMatchStatus' /\ SecondTryFails'
         /\ OnePop' /\ OneRetry' /\ OneCarrier' /\ OneEntry'
<1>1. LiveInv /\ ActorsOK /\ TypeOK /\ \A q \in Procs : OwnPlace(q)
  BY OwnPlaces DEF IInv
<1>2. \A q \in Procs : Carries(q) =>
        held[q] \in Jobs /\ jobStatus[held[q]] \in {"PENDING_EXECUTION", "RUNNING"}
  BY <1>1, CarriedStatus
<1>3. \A s \in Schedulers : pc[s] = "claim" => held[s] \in Jobs /\ jobStatus[held[s]] = "QUEUED"
  BY <1>1 DEF OwnPlace, ActorsOK, Procs
<1>4. \A r \in RetryHandlers : pc[r] = "promote" => held[r] \in Jobs /\ jobStatus[held[r]] = "RETRY_DELAY"
  BY <1>1 DEF OwnPlace, ActorsOK, Procs
<1>5. /\ pc[p] = "claim" => p \in Schedulers
      /\ pc[p] = "promote" => p \in RetryHandlers
  BY <1>1 DEF ActorsOK, Procs, Deciding
<1>6. \A q \in Procs \ {p} : (Carries(q)' => Carries(q)) /\ held'[q] = held[q]
  BY DEF ActorStep, Carries
<1>7. \A q \in Procs \ {p} : Carries(q) => jobStatus'[held[q]] = jobStatus[held[q]]
  BY <1>1, <1>2, <1>3, <1>4, <1>5 DEF ActorStep, InHand, LiveInv, OneCarrier
<1>8. \A s \in Schedulers \ {p} : pc[s] = "claim" => jobStatus'[held[s]] = jobStatus[held[s]]
  BY <1>1, <1>2, <1>3, <1>4, <1>5 DEF ActorStep, InHand, LiveInv, OnePop
<1>9. \A r \in RetryHandlers \ {p} : pc[r] = "promote" => jobStatus'[held[r]] = jobStatus[held[r]]
  BY <1>1, <1>2, <1>3, <1>4, <1>5 DEF ActorStep, InHand, LiveInv, OneRetry
<1>10. \A s \in Schedulers : \A i \in 1..Len(localQueue[s]) :
         jobStatus[localQueue[s][i]] = "PENDING_EXECUTION" /\ jobStatus'[localQueue[s][i]] = "PENDING_EXECUTION"
  <2>1. \A s \in Schedulers : \A i \in 1..Len(localQueue[s]) :
          localQueue[s][i] \in Jobs /\ jobStatus[localQueue[s][i]] = "PENDING_EXECUTION"
    BY <1>1, ChannelEntries DEF LiveInv, SchedulersMatchStatus, TypeOK
  <2>2. QED BY <1>1, <1>3, <1>4, <1>5, <2>1 DEF ActorStep, InHand, LiveInv, OneCarrier
<1>11. \A i \in 1..Len(stream) : jobStatus'[stream[i].job] = jobStatus[stream[i].job]
  <2>1. \A i \in 1..Len(stream) :
          stream[i].job \in Jobs /\ jobStatus[stream[i].job] \in {"PENDING_EXECUTION", "RUNNING"}
    BY <1>1, ChannelEntries DEF LiveInv, OutcomesMatchStatus, StatusOf, TypeOK
  <2>2. QED BY <1>1, <1>3, <1>4, <1>5, <2>1 DEF ActorStep, InHand, LiveInv, OneCarrier
<1>12. \A q \in Procs : OwnPlace(q)'
  <2> SUFFICES ASSUME NEW q \in Procs \ {p} PROVE OwnPlace(q)'
    OBVIOUS
  <2>1. pc'[q] = pc[q] /\ held'[q] = held[q] /\ verdict'[q] = verdict[q]
        /\ (wfStatus = "RUNNING" => wfStatus' = "RUNNING")
    BY DEF ActorStep
  <2>2. Carries(q) => jobStatus'[held[q]] = jobStatus[held[q]]
    BY <1>7
  <2>3. q \in Schedulers /\ pc[q] = "claim" => jobStatus'[held[q]] = jobStatus[held[q]]
    BY <1>8
  <2>4. q \in RetryHandlers /\ pc[q] = "promote" => jobStatus'[held[q]] = jobStatus[held[q]]
    BY <1>9
  <2>5. QED BY <1>1, <2>1, <2>2, <2>3, <2>4 DEF OwnPlace, Carries, StatusOf
<1>13. SchedulersMatchStatus'
  BY <1>10, <1>12 DEF SchedulersMatchStatus, OwnPlace, Procs, ActorStep
<1>14. WorkersMatchStatus' /\ RetriesMatchStatus' /\ SecondTryFails'
  BY <1>12 DEF WorkersMatchStatus, RetriesMatchStatus, SecondTryFails, OwnPlace, Procs
<1>15. OutcomesMatchStatus'
  <2>1. \A i \in 1..Len(stream') : jobStatus'[stream'[i].job] \in StatusOf(stream'[i].verdict)
    BY <1>1, <1>11 DEF LiveInv, OutcomesMatchStatus, ActorStep
  <2>2. QED BY <1>12, <2>1 DEF OutcomesMatchStatus, OwnPlace, Procs, StatusOf
<1>16. OnePop'
  BY <1>1, <1>3, <1>5 DEF LiveInv, OnePop, ActorStep, Procs
<1>17. OneRetry'
  BY <1>1, <1>4, <1>5 DEF LiveInv, OneRetry, ActorStep, Procs
<1>18. OneCarrier'
  <2>1. Carries(p)' => held'[p] = held[p] /\ held[p] \in Jobs
                         /\ (Carries(p) \/ jobStatus[held[p]] = "QUEUED")
    <3>1. Carries(p)' => pc'[p] # "idle"
      BY DEF Carries, Deciding
    <3>2. QED BY <1>2, <1>3, <1>5, <3>1 DEF ActorStep
  <2> OneCarrier /\ localQueue' = localQueue /\ stream' = stream
    BY <1>1 DEF LiveInv, ActorStep
  <2>2. \A q \in Procs \ {p} : Carries(p)' /\ Carries(q)' => held'[p] # held'[q]
    BY <1>2, <1>6, <2>1 DEF OneCarrier
  <2>3. \A q, r \in Procs : q # r /\ Carries(q)' /\ Carries(r)' => held'[q] # held'[r]
    BY <1>6, <2>2 DEF OneCarrier
  <2>4. \A q \in Procs, s \in Schedulers : Carries(q)' =>
          \A i \in 1..Len(localQueue'[s]) : localQueue'[s][i] # held'[q]
    BY <1>6, <1>10, <2>1 DEF OneCarrier
  <2>5. \A q \in Procs : Carries(q)' => \A i \in 1..Len(stream') : stream'[i].job # held'[q]
    <3>1. \A i \in 1..Len(stream) : jobStatus[stream[i].job] \in {"PENDING_EXECUTION", "RUNNING"}
      BY <1>1 DEF LiveInv, OutcomesMatchStatus, StatusOf
    <3>2. QED BY <1>6, <2>1, <3>1 DEF OneCarrier
  <2>6. QED BY <2>3, <2>4, <2>5 DEF OneCarrier
<1>19. OneEntry'
  BY <1>1, EntriesStay DEF LiveInv, ActorStep
<1>20. QED BY <1>13, <1>14, <1>15, <1>16, <1>17, <1>18, <1>19

-----------------------------------------------------------------------------
(* Moves, seen from the actors.                                             *)

\* The other actors are where they were.
OthersStay(p) ==
  \A q \in Procs \ {p} : /\ pc'[q] = pc[q] /\ held'[q] = held[q]
                         /\ verdict'[q] = verdict[q] /\ calls'[q] = calls[q]

\* If no status changes, and p is in its place after a step of p, every actor is.
LEMMA OthersInPlace ==
  ASSUME NEW p \in Procs, OthersStay(p), jobStatus' = jobStatus, wfStatus' = wfStatus,
         \A q \in Procs : OwnPlace(q), OwnPlace(p)'
  PROVE  \A q \in Procs : OwnPlace(q)'
<1>1. SUFFICES ASSUME NEW q \in Procs \ {p} PROVE OwnPlace(q)'
  OBVIOUS
<1>2. OwnPlace(q) /\ pc'[q] = pc[q] /\ held'[q] = held[q] /\ verdict'[q] = verdict[q]
  BY DEF OthersStay
<1>3. QED BY <1>2 DEF OwnPlace, StatusOf, Deciding

\* If nobody takes an attempt up, an attempt stays with one carrier.
LEMMA CarriersStay ==
  ASSUME OneCarrier, UNCHANGED <<stream, localQueue>>,
         \A q \in Procs : Carries(q)' => Carries(q) /\ held'[q] = held[q]
  PROVE  OneCarrier'
<1>1. \A p, q \in Procs : p # q /\ Carries(p)' /\ Carries(q)' => held'[p] # held'[q]
  BY DEF OneCarrier
<1>2. \A p \in Procs, s \in Schedulers : Carries(p)' =>
        \A i \in 1..Len(localQueue'[s]) : localQueue'[s][i] # held'[p]
  BY DEF OneCarrier
<1>3. \A p \in Procs : Carries(p)' => \A i \in 1..Len(stream') : stream'[i].job # held'[p]
  BY DEF OneCarrier
<1>4. QED BY <1>1, <1>2, <1>3 DEF OneCarrier

\* What each move does, seen from the actor that moves and from the others.
LEMMA GotoFacts ==
  ASSUME ActorTypeOK, NEW p \in Procs, NEW l \in PC, Goto(p, l)
  PROVE  /\ ActorTypeOK' /\ OthersStay(p)
         /\ pc'[p] = l /\ held'[p] = held[p] /\ verdict'[p] = verdict[p] /\ calls'[p] = calls[p]
BY DEF ActorTypeOK, Goto, OthersStay

\* On to a sequence of calls.
LEMMA GotoCallsFacts ==
  ASSUME ActorTypeOK, NEW p \in Procs, NEW l \in PC, NEW s \in Seq(CallType), GotoCalls(p, l, s)
  PROVE  /\ ActorTypeOK' /\ OthersStay(p)
         /\ pc'[p] = l /\ held'[p] = held[p] /\ verdict'[p] = verdict[p] /\ calls'[p] = s
BY DEF ActorTypeOK, GotoCalls, OthersStay

\* On with another verdict.
LEMMA GotoWithFacts ==
  ASSUME ActorTypeOK, NEW p \in Procs, NEW l \in PC, NEW v \in Verdict, GotoWith(p, l, v)
  PROVE  /\ ActorTypeOK' /\ OthersStay(p)
         /\ pc'[p] = l /\ held'[p] = held[p] /\ verdict'[p] = v /\ calls'[p] = <<>>
<1>1. <<>> \in Seq(CallType) OBVIOUS
<1>2. QED BY <1>1 DEF ActorTypeOK, GotoWith, OthersStay

\* Taking a job in hand.
LEMMA TakeFacts ==
  ASSUME ActorTypeOK, NEW p \in Procs, NEW l \in PC, NEW j \in Jobs,
         NEW v \in Verdict \cup {"NONE"}, Take(p, l, j, v)
  PROVE  /\ ActorTypeOK' /\ OthersStay(p)
         /\ pc'[p] = l /\ held'[p] = j /\ verdict'[p] = v /\ calls'[p] = calls[p]
BY DEF ActorTypeOK, Take, OthersStay

\* Back to the head of the loop.
LEMMA ReleaseFacts ==
  ASSUME ActorTypeOK, NEW p \in Procs, Release(p)
  PROVE  /\ ActorTypeOK' /\ OthersStay(p)
         /\ pc'[p] = "idle" /\ calls'[p] = <<>>
<1>1. <<>> \in Seq(CallType) OBVIOUS
<1>2. "idle" \in PC BY DEF PC
<1>3. QED BY <1>1, <1>2 DEF ActorTypeOK, Release, OthersStay

\* p is at a call of its own loop.
OwnLoop(p) ==
  /\ pc[p] # "idle" => held[p] \in Jobs
  /\ p \in Schedulers => pc[p] \in {"idle", "claim", "dispatch"}
  /\ p \in Workers =>
       /\ pc[p] \in {"idle", "start", "mark", "execute", "report"}
       /\ pc[p] = "report" => verdict[p] \in {"COMPLETED", "FAILED", "ABORTED"}
  /\ p \in Handlers =>
       /\ pc[p] \in Deciding \cup {"idle", "settle", "park", "persist", "repair"}
       /\ pc[p] = "fetch" => verdict[p] \in Verdict \ {"INTERNAL"}
       /\ pc[p] = "complete" => verdict[p] = "COMPLETED"
       /\ pc[p] = "retry" => verdict[p] = "FAILED"
       /\ pc[p] \in {"inspect", "fail"} => verdict[p] \in Verdict \ {"COMPLETED"}
  /\ p \in RetryHandlers => pc[p] \in {"idle", "promote", "mirror"}

\* If the actor that moves stays in its own loop, every actor does.
LEMMA ActorsKept ==
  ASSUME ActorsOK, NEW p \in Procs, OthersStay(p), OwnLoop(p)',
         \A i \in 1..Len(stream') : stream'[i].verdict # "INTERNAL"
  PROVE  ActorsOK'
<1>1. \A q \in Procs : OwnLoop(q)
  BY DEF ActorsOK, OwnLoop
<1>2. \A q \in Procs : OwnLoop(q)'
  BY <1>1 DEF OthersStay, OwnLoop, Deciding
<1>3. QED BY <1>2 DEF OwnLoop, ActorsOK, Procs, Deciding

\* An idle actor is in its loop and in its place, and carries nothing.
LEMMA IdleLoopNext ==
  ASSUME NEW p \in Procs, pc'[p] = "idle"
  PROVE  OwnLoop(p)' /\ OwnPlace(p)' /\ ~Carries(p)'
<1>1. "idle" \notin Deciding
  BY DEF Deciding
<1>2. QED BY <1>1 DEF OwnLoop, OwnPlace, Carries, Deciding

\* A step of p that changes neither Redis, nor SQLite, nor the channels.
LEMMA QuietStepKeeps ==
  ASSUME IInv, NEW p \in Procs, UNCHANGED <<redisVars, dbVars, stream, localQueue>>,
         ActorTypeOK', OthersStay(p), OwnLoop(p)',
         pc'[p] = "idle" \/ held'[p] = held[p],
         pc'[p] \in {"claim", "promote"} => pc'[p] = pc[p],
         Carries(p)' => Carries(p),
         Live => OwnPlace(p)' /\ calls'[p] \in Seq(OKCalls)
  PROVE  IInv'
<1> USE DEF IInv
<1>1. TypeOK'
  BY DEF TypeOK, RuntimeTypeOK, DatabaseTypeOK, ChannelTypeOK, redisVars, dbVars
<1>2. ActorsOK'
  BY ActorsKept DEF ActorsOK
<1>3. ConcurrencyLimit'
  BY DEF ConcurrencyLimit, Active, redisVars
<1>4. NoSlotFromClaim'
  BY DEF NoSlotFromClaim, redisVars, OthersStay, Procs
<1>5. ASSUME Live' PROVE LiveInv'
  <2>1. Live /\ LiveInv
    BY <1>5 DEF Live, redisVars
  <2>2. ActorStep(p)
    BY DEF ActorStep, OthersStay, redisVars
  <2>3. /\ SchedulersMatchStatus' /\ WorkersMatchStatus' /\ RetriesMatchStatus'
        /\ OutcomesMatchStatus' /\ SecondTryFails'
        /\ OnePop' /\ OneRetry' /\ OneCarrier' /\ OneEntry'
    BY <1>1, <1>2, <2>1, <2>2, ActorStepKeeps
  <2>4. SlotsCoverActive' /\ QueuesMatchStatus' /\ NothingRanYet'
    BY <2>1 DEF LiveInv, SlotsCoverActive, QueuesMatchStatus, NothingRanYet, Live, Active,
                Finished, redisVars
  <2>5. CallsOK'
    <3>1. Seq(OKCalls) \subseteq Seq(OKCalls')
      BY CallsStayOK DEF Finished, redisVars
    <3>2. QED BY <2>1, <3>1 DEF LiveInv, CallsOK, OthersStay
  <2>6. QED BY <2>3, <2>4, <2>5 DEF LiveInv
<1>6. QED BY <1>1, <1>2, <1>3, <1>4, <1>5

\* An actor that gives up leaves everything as it is.
LEMMA ReleaseKeeps ==
  ASSUME IInv, NEW p \in Procs, UNCHANGED <<redisVars, dbVars, stream, localQueue>>, Release(p)
  PROVE  IInv'
<1>1. ActorTypeOK BY DEF IInv, TypeOK
<1>2. ActorTypeOK' /\ OthersStay(p) /\ pc'[p] = "idle" /\ calls'[p] = <<>>
  BY <1>1, ReleaseFacts
<1>3. OwnLoop(p)' /\ OwnPlace(p)' /\ ~Carries(p)'
  BY <1>2, IdleLoopNext
<1>4. <<>> \in Seq(OKCalls) OBVIOUS
<1>5. QED BY <1>2, <1>3, <1>4, QuietStepKeeps, Zenon

-----------------------------------------------------------------------------
(* Scripts called by workers and handlers: either the workflow is live     *)
(* before and after, or it is not live afterwards.                          *)

\* Once the workflow is not live it is enough that no job gains a slot.
LEMMA DeadStepKeeps ==
  ASSUME IInv, ~Live', NEW p \in Procs \ Schedulers, OthersStay(p), OwnLoop(p)',
         RuntimeTypeOK', ActorTypeOK', UNCHANGED <<dbVars, stream, localQueue>>,
         Active' \subseteq Active, execQueue' \subseteq execQueue,
         \A k \in Jobs : jobStatus'[k] = "READY" =>
                           jobStatus[k] = "READY" \/ (Live /\ jobStatus[k] = "PENDING")
  PROVE  IInv'
<1> USE DEF IInv
<1>1. TypeOK' BY DEF TypeOK, DatabaseTypeOK, ChannelTypeOK, dbVars
<1>2. ActorsOK' BY ActorsKept DEF ActorsOK
<1>3. ConcurrencyLimit' BY LimitKept
<1>4. NoSlotFromClaim'
  <2>1. \A k \in execQueue' : jobStatus'[k] # "READY"
    BY DEF NoSlotFromClaim, TypeOK, RuntimeTypeOK, LiveInv, QueuesMatchStatus
  <2>2. \A s \in Schedulers : pc'[s] = pc[s] /\ held'[s] = held[s] /\ (pc[s] # "idle" => held[s] \in Jobs)
    BY DEF OthersStay, Procs, ActorsOK
  <2>3. \A s \in Schedulers : pc'[s] = "claim" => jobStatus'[held'[s]] # "READY"
    BY <2>2 DEF NoSlotFromClaim, LiveInv, SchedulersMatchStatus
  <2>4. QED BY <2>1, <2>3 DEF NoSlotFromClaim
<1>5. QED BY <1>1, <1>2, <1>3, <1>4

\* A script call after which the workflow is still live.
LEMMA LiveStepKeeps ==
  ASSUME IInv, Live, Live', NEW p \in Procs, OthersStay(p), OwnLoop(p)', OwnPlace(p)',
         RuntimeTypeOK', ActorTypeOK', ActorStep(p), UNCHANGED dbVars,
         SlotsCoverActive', QueuesMatchStatus', NothingRanYet',
         Finished \subseteq Finished', calls'[p] \in Seq(OKCalls')
  PROVE  IInv'
<1> USE DEF IInv
<1>1. TypeOK' BY DEF TypeOK, DatabaseTypeOK, ChannelTypeOK, dbVars, ActorStep
<1>2. ActorsOK' BY ActorsKept DEF ActorsOK, ActorStep
<1>3. /\ SchedulersMatchStatus' /\ WorkersMatchStatus' /\ RetriesMatchStatus'
      /\ OutcomesMatchStatus' /\ SecondTryFails'
      /\ OnePop' /\ OneRetry' /\ OneCarrier' /\ OneEntry'
  BY <1>1, <1>2, ActorStepKeeps
<1>4. ConcurrencyLimit'
  <2>1. Active' \in SUBSET Jobs BY DEF Active
  <2>2. Cardinality(Active') \in Nat BY <2>1, JobSetsFinite
  <2>3. QED BY <2>2, DefinitionAssumption DEF SlotsCoverActive, RuntimeTypeOK, ConcurrencyLimit
<1>5. NoSlotFromClaim'
  BY <1>3 DEF NoSlotFromClaim, QueuesMatchStatus, SchedulersMatchStatus
<1>6. CallsOK'
  BY CallsStayOK DEF LiveInv, CallsOK, OthersStay
<1>7. LiveInv' BY <1>3, <1>6 DEF LiveInv
<1>8. QED BY <1>1, <1>2, <1>4, <1>5, <1>7
=============================================================================
