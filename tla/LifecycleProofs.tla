-------------------------- MODULE LifecycleProofs ---------------------------
(***************************************************************************)
(* Proofs about module Lifecycle for every number of schedulers, handlers, *)
(* workers, I/O threads and jobs and every capacity of the worker queue:   *)
(* types and the capacity are kept, and a component is destroyed only      *)
(* after its last use.                                                     *)
(***************************************************************************)
EXTENDS LifecycleProperties, TLAPS

\* Time limits of the provers, per step.
USE SMTT(30), ZenonT(30)

-----------------------------------------------------------------------------
(* Types.                                                                   *)

\* Dropping the last component of a vector leaves a vector.
LEMMA ButLastType ==
  ASSUME NEW S, NEW v \in Seq(S), v # <<>>
  PROVE  ButLast(v) \in Seq(S) /\ v[Len(v)] \in S
BY DEF ButLast

\* Appending a component to a vector gives a vector.
LEMMA AppendType ==
  ASSUME NEW S, NEW v \in Seq(S), NEW x \in S
  PROVE  Append(v, x) \in Seq(S)
OBVIOUS

\* The list of all components of the process.
LEMMA AllComponentsType ==
  ASSUME TypeOK
  PROVE  AllComponents \in Seq(Components)
<1>1. schedulers_ \in Seq(Components) /\ handlers_ \in Seq(Components)
  BY DEF TypeOK, Components, Handlers
<1>2. schedulers_ \o handlers_ \in Seq(Components) BY <1>1
<1>3. <<RetryHandler>> \in Seq(Components) /\ <<>> \in Seq(Components)
  BY DEF Components, Handlers
<1>4. QED BY <1>2, <1>3 DEF AllComponents

\* A stop request keeps the types of what it changes.
LEMMA RequestStopType ==
  ASSUME TypeOK, NEW C, request_stop(C)
  PROVE  running_' \in [Components -> BOOLEAN] /\ closed_' \in [Schedulers -> BOOLEAN]
BY Zenon DEF TypeOK, request_stop

\* The steps of the main loop of a scheduler.
LEMMA SchedulerTypes ==
  ASSUME TypeOK, Ownership, NEW s \in Schedulers, SchedulerLoop(s)
  PROVE  TypeOK'
<1> USE DEF TypeOK, LoopAt, JobAt, managerVars, queueVars, workerVars, MoveLoop, MoveJob
<1>1. s \in Components BY DEF Components
<1>2. loop[s] \in {"fetch", "push"} => hand[s] \in Jobs BY DEF Ownership
<1>3. CASE TakeJob(s) BY <1>1, <1>3 DEF TakeJob
<1>4. CASE FetchJob(s) BY <1>1, <1>2, <1>4, Zenon DEF FetchJob
<1>5. CASE PushJob(s)
  <2>1. hand[s] \in Jobs BY <1>2, <1>5 DEF PushJob
  <2>2. Capacity \in Nat BY SizesAssumption
  <2>3. CASE closed_[s] BY <1>1, <1>5, <2>1, <2>3, Zenon DEF PushJob
  <2>4. CASE ~closed_[s]
    <3>1. /\ queue_' = [queue_ EXCEPT ![s] = Append(queue_[s], hand[s])]
          /\ Len(queue_[s]) < Capacity
      BY <1>5, <2>4 DEF PushJob, HasRoom
    <3>2. queue_' \in [Schedulers -> Seq(Jobs)] BY <2>1, <3>1
    <3>3. \A r \in Schedulers : Len(queue_'[r]) =< Capacity
      BY <2>1, <2>2, <3>1
    <3>4. QED BY <1>1, <1>5, <2>1, <2>4, <3>2, <3>3, Zenon DEF PushJob
  <2>5. QED BY <2>3, <2>4
<1>6. QED BY <1>3, <1>4, <1>5 DEF SchedulerLoop

\* The steps of a worker thread.
LEMMA WorkerTypes ==
  ASSUME TypeOK, Ownership, NEW s \in Schedulers, NEW w \in Workers, WorkerThread(s, w)
  PROVE  TypeOK'
<1> USE DEF TypeOK, WorkerAt, JobAt, managerVars, loopVars, queueVars, MoveWorker, MoveJob
<1>1. worker[s][w] \in {"start", "report"} => task[s][w] \in Jobs BY DEF Ownership
<1>2. CASE PopJob(s, w)
  <2>1. CASE queue_[s] # <<>>
    <3>1. Head(queue_[s]) \in Jobs /\ Tail(queue_[s]) \in Seq(Jobs)
          /\ Len(Tail(queue_[s])) = Len(queue_[s]) - 1 /\ Len(queue_[s]) \in Nat
      BY <2>1
    <3>2. queue_' = [queue_ EXCEPT ![s] = Tail(queue_[s])] BY <1>2, <2>1 DEF PopJob
    <3>3. queue_' \in [Schedulers -> Seq(Jobs)] BY <3>1, <3>2
    <3>4. \A r \in Schedulers : Len(queue_'[r]) =< Capacity BY <3>1, <3>2, SizesAssumption
    <3>5. MoveWorker(s, w, "start", Head(queue_[s])) BY <1>2, <2>1 DEF PopJob
    <3>6. worker' \in [Schedulers -> [Workers -> WorkerAt]]
          /\ task' \in [Schedulers -> [Workers -> Jobs \cup {NoJob}]]
      BY <3>1, <3>5
    <3>7. UNCHANGED <<managerVars, life, running_, loopVars, closed_, job>> BY <1>2 DEF PopJob
    <3>8. QED BY <3>3, <3>4, <3>6, <3>7
  <2>2. CASE queue_[s] = <<>>
    <3>1. MoveWorker(s, w, "done", NoJob) BY <1>2, <2>2 DEF PopJob
    <3>2. worker' \in [Schedulers -> [Workers -> WorkerAt]]
          /\ task' \in [Schedulers -> [Workers -> Jobs \cup {NoJob}]]
      BY <3>1
    <3>3. UNCHANGED <<managerVars, life, running_, loopVars, queueVars, job>>
      BY <1>2, <2>2 DEF PopJob
    <3>4. QED BY <3>2, <3>3
  <2>3. QED BY <2>1, <2>2
<1>3. CASE StartJob(s, w) BY <1>1, <1>3 DEF StartJob
<1>4. CASE update_completion_handler(s, w) BY <1>1, <1>4 DEF update_completion_handler
<1>5. QED BY <1>2, <1>3, <1>4 DEF WorkerThread

\* The steps of the runtime manager, and the end of a main loop.
LEMMA ManagerTypes ==
  ASSUME TypeOK,
         Manager \/ \E c \in Components : EndLoop(c) \/ DestroyRemoved(c)
  PROVE  TypeOK'
<1> USE DEF TypeOK, Life, LoopAt, ShutdownAt, managerVars, loopVars, queueVars, workerVars
<1>1. CASE \E c \in Components : EndLoop(c) BY <1>1 DEF EndLoop
<1>2. CASE \E s \in Schedulers : add_scheduler(s)
  <2>1. PICK s \in Schedulers : add_scheduler(s) BY <1>2
  <2>2. schedulers_ \in Seq(Schedulers) /\ schedulers_' = Append(schedulers_, s)
    BY <2>1 DEF add_scheduler
  <2>3. schedulers_' \in Seq(Schedulers) BY ONLY <2>2, s \in Schedulers, AppendType, Zenon
  <2>4. life' \in [Components -> Life] BY <2>1, Zenon DEF add_scheduler, Join
  <2>5. QED BY <2>1, <2>3, <2>4 DEF add_scheduler, Join
<1>3. CASE \E c \in Components : DestroyRemoved(c) BY <1>3 DEF DestroyRemoved
<1>4. CASE start BY <1>4, ComponentsAssumption DEF start
<1>5. CASE remove_scheduler \/ remove_completion_handler
  <2>1. PICK c : Leave(c) BY <1>5 DEF remove_scheduler, remove_completion_handler
  <2>2. running_' \in [Components -> BOOLEAN] /\ closed_' \in [Schedulers -> BOOLEAN]
    BY <2>1, RequestStopType DEF Leave
  <2>3. schedulers_' \in Seq(Schedulers) /\ handlers_' \in Seq(CompletionHandlers)
    BY <1>5, ButLastType DEF remove_scheduler, remove_completion_handler
  <2>4. life' \in [Components -> Life] BY <2>1, Zenon DEF Leave
  <2>5. QED BY <2>1, <2>2, <2>3, <2>4 DEF Leave
<1>6. CASE BeginShutdown
  <2>1. running_' \in [Components -> BOOLEAN] /\ closed_' \in [Schedulers -> BOOLEAN]
    BY <1>6, RequestStopType DEF BeginShutdown
  <2>2. todo' \in Seq(Components) BY <1>6, AllComponentsType DEF BeginShutdown
  <2>3. schedulers_' \in Seq(Schedulers) /\ handlers_' \in Seq(CompletionHandlers)
    BY <1>6 DEF BeginShutdown
  <2>4. life' \in [Components -> Life] BY <1>6 DEF BeginShutdown
  <2>5. /\ shutting_down_' = TRUE /\ shutdown' = "destroying"
        /\ UNCHANGED <<started_, ioc, loopVars, queue_, workerVars, job>>
    BY <1>6 DEF BeginShutdown
  <2>6. QED BY <2>1, <2>2, <2>3, <2>4, <2>5
<1>7. CASE DestroyNext
  <2>1. todo' \in Seq(Components) BY <1>7 DEF DestroyNext
  <2>2. life' \in [Components -> Life] BY <1>7 DEF DestroyNext
  <2>3. QED BY <1>7, <2>1, <2>2 DEF DestroyNext
<1>8. CASE StopIoContext BY <1>8, Zenon DEF StopIoContext
<1>9. CASE JoinIoThreads BY <1>9 DEF JoinIoThreads
<1>10. CASE \E h \in CompletionHandlers : add_completion_handler(h)
  <2>1. PICK h \in CompletionHandlers : add_completion_handler(h) BY <1>10
  <2>2. handlers_ \in Seq(CompletionHandlers) /\ handlers_' = Append(handlers_, h)
    BY <2>1 DEF add_completion_handler
  <2>3. handlers_' \in Seq(CompletionHandlers)
    BY ONLY <2>2, h \in CompletionHandlers, AppendType, Zenon
  <2>4. life' \in [Components -> Life] BY <2>1, Zenon DEF add_completion_handler, Join
  <2>5. QED BY <2>1, <2>3, <2>4 DEF add_completion_handler, Join
<1>11. QED BY <1>1, <1>2, <1>3, <1>4, <1>5, <1>6, <1>7, <1>8, <1>9, <1>10 DEF Manager, Shutdown

-----------------------------------------------------------------------------
(* Ownership.                                                               *)

\* A step of a main loop: it belongs to a scheduler that is not destroyed,
\* because the loop has not ended, and it adds to a queue only while that is open.
LEMMA SchedulerOwnership ==
  ASSUME TypeOK, Ownership, NEW s \in Schedulers, SchedulerLoop(s)
  PROVE  Ownership'
<1>1. \A r \in Schedulers : r \in Components BY DEF Components
<1>2. NoJob \notin Jobs BY SizesAssumption
<1>3. /\ UNCHANGED <<life, closed_, worker, task>>
      /\ loop[s] # "done"
      /\ \/ loop' = [loop EXCEPT ![s] = "wait"] /\ hand' = [hand EXCEPT ![s] = NoJob]
         \/ loop' = [loop EXCEPT ![s] = "done"] /\ hand' = [hand EXCEPT ![s] = NoJob]
         \/ /\ loop[s] # "wait" /\ loop' = [loop EXCEPT ![s] = "push"]
            /\ hand' = [hand EXCEPT ![s] = hand[s]]
         \/ \E j \in Jobs : /\ loop' = [loop EXCEPT ![s] = "fetch"]
                            /\ hand' = [hand EXCEPT ![s] = j]
  BY DEF SchedulerLoop, TakeJob, FetchJob, PushJob, MoveLoop, queueVars, workerVars
<1>4. \A r \in Schedulers : closed_[r] => queue_'[r] = queue_[r]
  <2>1. CASE TakeJob(s) \/ FetchJob(s) BY <2>1 DEF TakeJob, FetchJob, queueVars
  <2>2. CASE PushJob(s) /\ closed_[s] BY <2>2 DEF PushJob
  <2>3. CASE PushJob(s) /\ ~closed_[s]
    <3>1. queue_' = [queue_ EXCEPT ![s] = Append(queue_[s], hand[s])] BY <2>3 DEF PushJob
    <3>2. \A r \in Schedulers \ {s} : queue_'[r] = queue_[r] BY <3>1 DEF TypeOK
    <3>3. QED BY <2>3, <3>2
  <2>4. QED BY <2>1, <2>2, <2>3 DEF SchedulerLoop
<1>5. \A r \in Schedulers : hand'[r] # NoJob <=> loop'[r] \in {"fetch", "push"}
  BY <1>1, <1>2, <1>3 DEF Ownership, TypeOK, LoopAt
<1>6. \A c \in Components : loop[c] = "done" => loop'[c] = "done"
  BY <1>1, <1>3 DEF TypeOK
<1>7. \A c \in Components : life'[c] = "destroyed" => Finished(c)'
  BY <1>3, <1>6 DEF Ownership, Finished
<1>8. QED BY <1>3, <1>4, <1>5, <1>7 DEF Ownership

\* A step of a worker thread: it has not ended, and ends only when its queue is
\* closed and empty.
LEMMA WorkerOwnership ==
  ASSUME TypeOK, Ownership, NEW s \in Schedulers, NEW w \in Workers, WorkerThread(s, w)
  PROVE  Ownership'
<1>1. NoJob \notin Jobs BY SizesAssumption
<1>2. UNCHANGED <<life, closed_, loop, hand>> /\ worker[s][w] # "done"
  BY DEF WorkerThread, PopJob, StartJob, update_completion_handler, loopVars, queueVars
<1>3. PICK l \in WorkerAt, j \in Jobs \cup {NoJob} :
        /\ worker' = [worker EXCEPT ![s][w] = l] /\ task' = [task EXCEPT ![s][w] = j]
        /\ j # NoJob <=> l \in {"start", "report"}
        /\ l = "done" => closed_[s] /\ queue_[s] = <<>>
  <2>1. CASE PopJob(s, w)
    <3>1. CASE queue_[s] # <<>>
      <4>1. Head(queue_[s]) \in Jobs BY <3>1 DEF TypeOK
      <4>2. MoveWorker(s, w, "start", Head(queue_[s])) BY <2>1, <3>1 DEF PopJob
      <4>3. QED BY <1>1, <4>1, <4>2, Zenon DEF MoveWorker, WorkerAt
    <3>2. CASE queue_[s] = <<>>
      <4>1. MoveWorker(s, w, "done", NoJob) /\ closed_[s] BY <2>1, <3>2 DEF PopJob
      <4>2. QED BY <3>2, <4>1, Zenon DEF MoveWorker, WorkerAt
    <3>3. QED BY <3>1, <3>2, Zenon
  <2>2. CASE StartJob(s, w)
    <3>1. MoveWorker(s, w, "report", task[s][w]) /\ task[s][w] \in Jobs
      BY <2>2 DEF StartJob, Ownership, TypeOK
    <3>2. QED BY <1>1, <3>1, Zenon DEF MoveWorker, WorkerAt
  <2>3. CASE update_completion_handler(s, w)
    BY <2>3, Zenon DEF update_completion_handler, MoveWorker, WorkerAt
  <2>4. QED BY <2>1, <2>2, <2>3 DEF WorkerThread
<1>4. \A r \in Schedulers : queue_[r] = <<>> => queue_'[r] = <<>>
  BY DEF TypeOK, WorkerThread, PopJob, StartJob, update_completion_handler, queueVars
<1>5. \A r \in Schedulers, v \in Workers :
        IF r = s /\ v = w THEN worker'[r][v] = l /\ task'[r][v] = j
                          ELSE worker'[r][v] = worker[r][v] /\ task'[r][v] = task[r][v]
  BY <1>3 DEF TypeOK
<1>6. \A r \in Schedulers, v \in Workers :
        /\ task'[r][v] # NoJob <=> worker'[r][v] \in {"start", "report"}
        /\ worker'[r][v] = "done" => closed_'[r] /\ queue_'[r] = <<>>
  BY <1>2, <1>3, <1>4, <1>5 DEF Ownership
<1>7. \A c \in Components : life'[c] = "destroyed" => Finished(c)'
  BY <1>2, <1>5 DEF Ownership, Finished
<1>8. QED BY <1>2, <1>6, <1>7 DEF Ownership

\* The runtime manager closes queues, never opens one, and destroys only what has
\* finished.
LEMMA ManagerOwnership ==
  ASSUME TypeOK, Ownership,
         Manager \/ \E c \in Components : EndLoop(c) \/ DestroyRemoved(c)
  PROVE  Ownership'
<1>1. UNCHANGED <<hand, queue_, worker, task>>
  BY DEF Manager, EndLoop, DestroyRemoved, start, add_scheduler, add_completion_handler, Join,
         remove_scheduler, remove_completion_handler, Leave, BeginShutdown, Shutdown, DestroyNext,
         StopIoContext, JoinIoThreads, loopVars, queueVars, workerVars
<1>2. \A s \in Schedulers : closed_[s] => closed_'[s]
  BY Zenon DEF Manager, EndLoop, DestroyRemoved, start, add_scheduler, add_completion_handler, Join,
         remove_scheduler, remove_completion_handler, Leave, BeginShutdown, Shutdown, DestroyNext,
         StopIoContext, JoinIoThreads, queueVars, request_stop
<1>3. \/ UNCHANGED loop
      \/ \E c \in Components : loop[c] = "wait" /\ loop' = [loop EXCEPT ![c] = "done"]
  BY DEF Manager, EndLoop, DestroyRemoved, start, add_scheduler, add_completion_handler, Join,
         remove_scheduler, remove_completion_handler, Leave, BeginShutdown, Shutdown, DestroyNext,
         StopIoContext, JoinIoThreads, loopVars
<1>4. \A c \in Components : /\ loop[c] = "done" => loop'[c] = "done"
                            /\ loop'[c] \in {"fetch", "push"} <=> loop[c] \in {"fetch", "push"}
  BY <1>3 DEF TypeOK
<1>5. \A c \in Components : Finished(c) => Finished(c)'
  BY <1>1, <1>4 DEF Finished
<1>6. \A c \in Components : life'[c] = "destroyed" => life[c] = "destroyed" \/ Finished(c)
  BY DEF TypeOK, Manager, EndLoop, DestroyRemoved, start, add_scheduler, add_completion_handler,
         Join, remove_scheduler, remove_completion_handler, Leave, BeginShutdown, Shutdown,
         DestroyNext, StopIoContext, JoinIoThreads
<1>7. \A s \in Schedulers : s \in Components BY DEF Components
<1>8. QED BY <1>1, <1>2, <1>4, <1>5, <1>6, <1>7 DEF Ownership

-----------------------------------------------------------------------------
(* The theorems.                                                            *)

\* Types, capacity and ownership are kept by every step of every thread.
THEOREM OwnershipHolds == Spec => [](TypeOK /\ Ownership)
<1>1. Init => TypeOK /\ Ownership
  <2> SUFFICES ASSUME Init PROVE TypeOK /\ Ownership OBVIOUS
  <2>1. /\ schedulers_ \in Seq(Schedulers) /\ handlers_ \in Seq(CompletionHandlers)
        /\ todo \in Seq(Components)
    BY DEF Init
  <2>2. queue_ \in [Schedulers -> Seq(Jobs)] /\ \A s \in Schedulers : Len(queue_[s]) =< Capacity
    BY SizesAssumption DEF Init
  <2>3. running_ \in [Components -> BOOLEAN] /\ closed_ \in [Schedulers -> BOOLEAN]
    BY Zenon DEF Init
  <2>4. /\ life \in [Components -> Life] /\ loop \in [Components -> LoopAt]
        /\ hand \in [Schedulers -> Jobs \cup {NoJob}] /\ job \in [Jobs -> JobAt]
    BY DEF Init, Life, LoopAt, JobAt
  <2>5. /\ worker \in [Schedulers -> [Workers -> WorkerAt]]
        /\ task \in [Schedulers -> [Workers -> Jobs \cup {NoJob}]]
    BY DEF Init, WorkerAt
  <2>6. TypeOK BY <2>1, <2>2, <2>3, <2>4, <2>5, Zenon DEF Init, TypeOK, ShutdownAt
  <2>7. \A s \in Schedulers : hand[s] = NoJob /\ loop[s] = "wait"
    BY DEF Init, Components
  <2>8. \A s \in Schedulers, w \in Workers : task[s][w] = NoJob /\ worker[s][w] = "pop"
    BY DEF Init
  <2>9. \A c \in Components : life[c] = "unborn" BY DEF Init
  <2>10. QED BY <2>6, <2>7, <2>8, <2>9 DEF Ownership
<1>2. TypeOK /\ Ownership /\ [Next]_vars => (TypeOK /\ Ownership)'
  <2> SUFFICES ASSUME TypeOK, Ownership, [Next]_vars PROVE TypeOK' /\ Ownership' OBVIOUS
  <2>1. CASE \E s \in Schedulers : SchedulerLoop(s)
    BY <2>1, SchedulerTypes, SchedulerOwnership
  <2>2. CASE \E s \in Schedulers, w \in Workers : WorkerThread(s, w)
    BY <2>2, WorkerTypes, WorkerOwnership
  <2>3. CASE Manager \/ \E c \in Components : EndLoop(c) \/ DestroyRemoved(c)
    BY <2>3, ManagerTypes, ManagerOwnership
  <2>4. CASE UNCHANGED vars
    BY <2>4 DEF vars, managerVars, loopVars, queueVars, workerVars, TypeOK, Ownership, Finished
  <2>5. QED BY <2>1, <2>2, <2>3, <2>4 DEF Next
<1>3. QED BY <1>1, <1>2, PTL DEF Spec

\* The variables keep their types, and no interleaving of pushes, pops and stops
\* puts more than Capacity jobs into a worker queue.
THEOREM LifecycleTypeCorrect == Spec => []TypeOK
BY OwnershipHolds, PTL

\* Whoever destroys a component, a remove call or shutdown(), does so after its
\* main loop and its worker threads have ended and with no job left in it.
THEOREM DestroyedAfterUseHolds == Spec => []DestroyedAfterUse
<1>1. TypeOK /\ Ownership => DestroyedAfterUse
  <2> SUFFICES ASSUME TypeOK, Ownership, NEW c \in Components, life[c] = "destroyed"
               PROVE  /\ loop[c] = "done"
                      /\ c \in Schedulers =>
                           /\ hand[c] = NoJob /\ queue_[c] = <<>>
                           /\ \A w \in Workers : worker[c][w] = "done" /\ task[c][w] = NoJob
    BY DEF DestroyedAfterUse
  <2>1. Finished(c) BY DEF Ownership
  <2>2. \E w \in Workers : TRUE BY SizesAssumption
  <2>3. QED BY <2>1, <2>2 DEF Finished, Ownership
<1>2. QED BY <1>1, OwnershipHolds, PTL
=============================================================================
