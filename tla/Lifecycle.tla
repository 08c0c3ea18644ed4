----------------------------- MODULE Lifecycle ------------------------------
(***************************************************************************)
(* The threads of one process and their lifecycle: the runtime manager     *)
(* starts, adds, removes and shuts down schedulers, completion handlers    *)
(* and the retry handler; their main loops are coroutines that run on a    *)
(* fixed number of I/O threads; a scheduler hands jobs to its worker       *)
(* threads through a bounded queue; a worker waits for coroutines of its   *)
(* own, which need an I/O thread too.                                      *)
(*                                                                         *)
(* What a job does to its workflow is in module Execution; here a job is   *)
(* only followed from the execution queue to the completion stream, and    *)
(* Redis calls fail only because a stopped component has closed its        *)
(* connection (a closed connection is never opened again).                 *)
(***************************************************************************)
EXTENDS Integers, Sequences, FiniteSets

CONSTANTS
  Schedulers, CompletionHandlers,        \* every one there can ever be
  RetryHandler,                          \* the only one
  InitialSchedulers, InitialHandlers,    \* sequences: the ones start() makes
  Workers,        \* the worker threads of a scheduler
  Capacity,       \* capacity of worker_thread_queue_
  IoThreads,      \* redis_io_thread_count_
  Jobs,           \* numbered in the order of the execution queue
  NoJob

Handlers == CompletionHandlers \cup {RetryHandler}
Components == Schedulers \cup Handlers

ASSUME ComponentsAssumption ==
  /\ Schedulers \cap Handlers = {}
  /\ RetryHandler \notin CompletionHandlers
  /\ InitialSchedulers \in Seq(Schedulers)
  /\ InitialHandlers \in Seq(CompletionHandlers)

ASSUME SizesAssumption ==
  /\ IsFiniteSet(Schedulers) /\ Workers # {}
  /\ Capacity \in Nat \ {0} /\ IoThreads \in Nat \ {0}
  /\ Jobs \subseteq Nat /\ NoJob \notin Jobs

VARIABLES
  schedulers_,    \* vector of the runtime manager
  handlers_,      \* vector completion_handlers_
  started_, shutting_down_,
  ioc,            \* the I/O context: "new", "running" or "stopped"
  shutdown,       \* where the thread that called shutdown() is
  todo,           \* components shutdown() has still to destroy
  life,           \* who owns a component
  running_,       \* running_[c]; cleared together with c's connection
  loop,           \* where the main loop of a component is
  hand,           \* hand[s]: the job the main loop of a scheduler deals with
  closed_, queue_,   \* worker_thread_queue_ of each scheduler
  worker,         \* worker[s][w]: where a worker thread is
  task,           \* task[s][w]: its job
  job             \* how far a job has come

managerVars == <<schedulers_, handlers_, started_, shutting_down_, ioc, shutdown, todo>>
loopVars == <<loop, hand>>
queueVars == <<closed_, queue_>>
workerVars == <<worker, task>>
vars == <<managerVars, life, running_, loopVars, queueVars, workerVars, job>>

\* "ending": moved out of its vector by shutdown(); "removed": by a remove call,
\* which has not returned yet.
Life == {"unborn", "live", "ending", "removed", "destroyed"}

\* A loop that "waits" is at the head of its loop or in the wait for work.
\* "done": main_loop_finished_ is set.
LoopAt == {"wait", "fetch", "push", "done"}
WorkerAt == {"pop", "start", "report", "done"}
ShutdownAt == {"none", "destroying", "joining", "returned"}

\* ready: in the execution queue; taken: by a scheduler; handed: in a worker
\* queue or with a worker; over: on the completion stream, or canceled before it
\* was claimed; lost: given up by a scheduler told to stop.
JobAt == {"ready", "taken", "handed", "over", "lost"}

\* Every variable has its type, and a worker queue never exceeds its capacity.
TypeOK ==
  /\ schedulers_ \in Seq(Schedulers) /\ handlers_ \in Seq(CompletionHandlers)
  /\ started_ \in BOOLEAN /\ shutting_down_ \in BOOLEAN
  /\ ioc \in {"new", "running", "stopped"}
  /\ shutdown \in ShutdownAt
  /\ todo \in Seq(Components)
  /\ life \in [Components -> Life]
  /\ running_ \in [Components -> BOOLEAN]
  /\ loop \in [Components -> LoopAt]
  /\ hand \in [Schedulers -> Jobs \cup {NoJob}]
  /\ closed_ \in [Schedulers -> BOOLEAN]
  /\ queue_ \in [Schedulers -> Seq(Jobs)]
  /\ \A s \in Schedulers : Len(queue_[s]) =< Capacity
  /\ worker \in [Schedulers -> [Workers -> WorkerAt]]
  /\ task \in [Schedulers -> [Workers -> Jobs \cup {NoJob}]]
  /\ job \in [Jobs -> JobAt]

Init ==
  /\ schedulers_ = <<>> /\ handlers_ = <<>>
  /\ started_ = FALSE /\ shutting_down_ = FALSE
  /\ ioc = "new" /\ shutdown = "none" /\ todo = <<>>
  /\ life = [c \in Components |-> "unborn"]
  /\ running_ = [c \in Components |-> TRUE]
  /\ loop = [c \in Components |-> "wait"]
  /\ hand = [s \in Schedulers |-> NoJob]
  /\ closed_ = [s \in Schedulers |-> FALSE]
  /\ queue_ = [s \in Schedulers |-> <<>>]
  /\ worker = [s \in Schedulers |-> [w \in Workers |-> "pop"]]
  /\ task = [s \in Schedulers |-> [w \in Workers |-> NoJob]]
  /\ job = [j \in Jobs |-> "ready"]

-----------------------------------------------------------------------------
(* I/O threads.                                                             *)

\* The schedulers whose blocking push occupies an I/O thread.
Pushing == {s \in Schedulers : loop[s] = "push"}

\* A coroutine can run on: an I/O thread is free to resume it.
Resumes == ioc = "running" /\ Cardinality(Pushing) < IoThreads

MoveLoop(s, l, j) ==
  loop' = [loop EXCEPT ![s] = l] /\ hand' = [hand EXCEPT ![s] = j]

MoveWorker(s, w, l, j) ==
  /\ worker' = [worker EXCEPT ![s][w] = l]
  /\ task' = [task EXCEPT ![s][w] = j]

MoveJob(j, to) == job' = [job EXCEPT ![j] = to]

-----------------------------------------------------------------------------
(* The main loop of a scheduler.                                            *)

\* get_next_ready_job: a job is popped from the execution queue.
TakeJob(s) ==
  /\ Resumes /\ life[s] # "unborn" /\ loop[s] = "wait" /\ running_[s]
  /\ \E j \in Jobs :
       /\ job[j] = "ready" /\ \A k \in Jobs : job[k] = "ready" => j =< k
       /\ MoveJob(j, "taken") /\ MoveLoop(s, "fetch", j)
  /\ UNCHANGED <<managerVars, life, running_, queueVars, workerVars>>

\* Mutant of FetchJob: the loop goes on to the push after a missing payload.
FetchJobNoContinue(s) ==
  /\ Resumes /\ loop[s] = "fetch"
  /\ \/ /\ running_[s]
        /\ MoveLoop(s, "push", hand[s])
        /\ job' \in {job, [job EXCEPT ![hand[s]] = "over"]}
     \/ ~running_[s] /\ MoveJob(hand[s], "lost") /\ MoveLoop(s, "wait", NoJob)
  /\ UNCHANGED <<managerVars, life, running_, queueVars, workerVars>>

\* The job is claimed and its data fetched.  The claim is refused when the job was
\* canceled meanwhile, and a payload that is missing is reported on the completion
\* stream.  When the connection has been closed the scheduler gives the job up.
FetchJob(s) ==
  /\ Resumes /\ loop[s] = "fetch"
  /\ \/ /\ running_[s]
        /\ MoveLoop(s, "push", hand[s]) /\ UNCHANGED job
     \/ /\ running_[s]
        /\ MoveJob(hand[s], "over") /\ MoveLoop(s, "wait", NoJob)
     \/ /\ ~running_[s]
        /\ MoveJob(hand[s], "lost") /\ MoveLoop(s, "wait", NoJob)
  /\ UNCHANGED <<managerVars, life, running_, queueVars, workerVars>>

\* Mutant of HasRoom: a full queue accepts one more.
HasRoomOffByOne(s) == Len(queue_[s]) =< Capacity

HasRoom(s) == Len(queue_[s]) < Capacity

\* push into the worker queue, on the I/O thread: it returns once there is room
\* or the queue is closed, and then the loop ends.
PushJob(s) ==
  /\ loop[s] = "push"
  /\ \/ /\ ~closed_[s] /\ HasRoom(s)
        /\ queue_' = [queue_ EXCEPT ![s] = Append(@, hand[s])]
        /\ MoveJob(hand[s], "handed") /\ MoveLoop(s, "wait", NoJob)
     \/ /\ closed_[s]
        /\ MoveJob(hand[s], "lost") /\ MoveLoop(s, "done", NoJob)
        /\ UNCHANGED queue_
  /\ UNCHANGED <<managerVars, life, running_, closed_, workerVars>>

-----------------------------------------------------------------------------
(* The worker threads of a scheduler.                                       *)

\* Mutant of PopJob: a closed queue is not drained.
PopJobUnlessClosed(s, w) ==
  /\ life[s] # "unborn" /\ worker[s][w] = "pop"
  /\ \/ /\ ~closed_[s] /\ queue_[s] # <<>>
        /\ MoveWorker(s, w, "start", Head(queue_[s]))
        /\ queue_' = [queue_ EXCEPT ![s] = Tail(@)]
     \/ /\ closed_[s]
        /\ MoveWorker(s, w, "done", NoJob) /\ UNCHANGED queue_
  /\ UNCHANGED <<managerVars, life, running_, loopVars, closed_, job>>

\* fetch_job: wait for a job; a closed queue is drained before the worker ends.
PopJob(s, w) ==
  /\ life[s] # "unborn" /\ worker[s][w] = "pop"
  /\ \/ /\ queue_[s] # <<>>
        /\ MoveWorker(s, w, "start", Head(queue_[s]))
        /\ queue_' = [queue_ EXCEPT ![s] = Tail(@)]
     \/ /\ closed_[s] /\ queue_[s] = <<>>
        /\ MoveWorker(s, w, "done", NoJob) /\ UNCHANGED queue_
  /\ UNCHANGED <<managerVars, life, running_, loopVars, closed_, job>>

\* The worker waits for update_job_status_to_running, a coroutine; then it runs
\* the job or, refused, goes on to report it ABORTED.
StartJob(s, w) ==
  /\ Resumes /\ worker[s][w] = "start"
  /\ MoveWorker(s, w, "report", task[s][w])
  /\ UNCHANGED <<managerVars, life, running_, loopVars, queueVars, job>>

\* The worker waits for enqueue_job_completion_async, a coroutine, over a
\* connection of its own that no request_stop closes.
update_completion_handler(s, w) ==
  /\ Resumes /\ worker[s][w] = "report"
  /\ MoveJob(task[s][w], "over") /\ MoveWorker(s, w, "pop", NoJob)
  /\ UNCHANGED <<managerVars, life, running_, loopVars, queueVars>>

-----------------------------------------------------------------------------
\* The main loop of any component sees that running_ is cleared and ends.  (What
\* the loop of a handler does until then is in module Execution: it leaves the
\* I/O threads free and changes nothing here.)
EndLoop(c) ==
  /\ Resumes /\ life[c] # "unborn" /\ loop[c] = "wait" /\ ~running_[c]
  /\ loop' = [loop EXCEPT ![c] = "done"]
  /\ UNCHANGED <<managerVars, life, running_, hand, queueVars, workerVars, job>>

-----------------------------------------------------------------------------
(* The runtime manager.                                                     *)

\* running_ is cleared, the worker queue and the connection are closed: for each
\* component of C.
request_stop(C) ==
  /\ running_' = [c \in Components |-> running_[c] /\ c \notin C]
  /\ closed_' = [s \in Schedulers |-> closed_[s] \/ s \in C]

Elements(v) == {v[i] : i \in 1..Len(v)}

start ==
  /\ ~started_ /\ ~shutting_down_
  /\ schedulers_' = InitialSchedulers /\ handlers_' = InitialHandlers
  /\ life' = [c \in Components |->
       IF c \in Elements(InitialSchedulers) \cup Elements(InitialHandlers) \cup {RetryHandler}
       THEN "live" ELSE life[c]]
  /\ started_' = TRUE /\ ioc' = "running"
  /\ UNCHANGED <<shutting_down_, shutdown, todo, running_, loopVars, queueVars,
                 workerVars, job>>

\* A new component runs its main loop and its workers.
Join(c) ==
  /\ started_ /\ ~shutting_down_ /\ life[c] = "unborn"
  /\ life' = [life EXCEPT ![c] = "live"]
  /\ UNCHANGED <<started_, shutting_down_, ioc, shutdown, todo, running_, loopVars,
                 queueVars, workerVars, job>>

add_scheduler(s) ==
  Join(s) /\ schedulers_' = Append(schedulers_, s) /\ UNCHANGED handlers_

add_completion_handler(h) ==
  Join(h) /\ handlers_' = Append(handlers_, h) /\ UNCHANGED schedulers_

ButLast(v) == SubSeq(v, 1, Len(v) - 1)

\* A remove call up to the release of mutex_: the component is told to stop.
Leave(c) ==
  /\ started_ /\ ~shutting_down_
  /\ request_stop({c})
  /\ life' = [life EXCEPT ![c] = "removed"]
  /\ UNCHANGED <<started_, shutting_down_, ioc, shutdown, todo, loopVars, queue_,
                 workerVars, job>>

\* The last component of a vector is taken out.
remove_scheduler ==
  /\ schedulers_ # <<>> /\ Leave(schedulers_[Len(schedulers_)])
  /\ schedulers_' = ButLast(schedulers_) /\ UNCHANGED handlers_

remove_completion_handler ==
  /\ handlers_ # <<>> /\ Leave(handlers_[Len(handlers_)])
  /\ handlers_' = ButLast(handlers_) /\ UNCHANGED schedulers_

\* Mutant of Finished: the destructor does not join the worker threads.
LoopFinished(c) == loop[c] = "done"

\* What the destructor of c waits for: its main loop and its worker threads.
Finished(c) ==
  /\ loop[c] = "done"
  /\ c \in Schedulers => \A w \in Workers : worker[c][w] = "done"

\* The destructor in a remove call, which then returns.
DestroyRemoved(c) ==
  /\ life[c] = "removed" /\ Finished(c)
  /\ life' = [life EXCEPT ![c] = "destroyed"]
  /\ UNCHANGED <<managerVars, running_, loopVars, queueVars, workerVars, job>>

-----------------------------------------------------------------------------
(* shutdown(), called by the thread that waits for a signal.                *)

AllComponents ==
  schedulers_ \o handlers_ \o (IF life[RetryHandler] = "live" THEN <<RetryHandler>> ELSE <<>>)

\* Under mutex_ every component is told to stop and the vectors are moved out.
BeginShutdown ==
  /\ ~shutting_down_
  /\ shutting_down_' = TRUE /\ shutdown' = "destroying" /\ todo' = AllComponents
  /\ request_stop(Elements(AllComponents))
  /\ schedulers_' = <<>> /\ handlers_' = <<>>
  /\ life' = [c \in Components |-> IF life[c] = "live" THEN "ending" ELSE life[c]]
  /\ UNCHANGED <<started_, ioc, loopVars, queue_, workerVars, job>>

\* Schedulers are destroyed first, then completion handlers, then the retry
\* handler; each destructor waits.
DestroyNext ==
  /\ shutdown = "destroying" /\ todo # <<>>
  /\ Finished(Head(todo))
  /\ life' = [life EXCEPT ![Head(todo)] = "destroyed"] /\ todo' = Tail(todo)
  /\ UNCHANGED <<schedulers_, handlers_, started_, shutting_down_, ioc, shutdown,
                 running_, loopVars, queueVars, workerVars, job>>

\* Mutant of StopIoContext: the I/O context is stopped before the destructors.
StopIoContextFirst ==
  /\ shutdown = "destroying" /\ ioc # "stopped"
  /\ ioc' = "stopped" /\ started_' = FALSE
  /\ shutdown' = IF todo = <<>> THEN "joining" ELSE shutdown
  /\ UNCHANGED <<schedulers_, handlers_, shutting_down_, todo, life, running_, loopVars,
                 queueVars, workerVars, job>>

\* redis_ioc_.stop(): no coroutine is resumed any more.  The I/O threads are
\* moved out under mutex_,
StopIoContext ==
  /\ shutdown = "destroying" /\ todo = <<>>
  /\ ioc' = "stopped" /\ shutdown' = "joining" /\ started_' = FALSE
  /\ UNCHANGED <<schedulers_, handlers_, shutting_down_, todo, life, running_, loopVars,
                 queueVars, workerVars, job>>

\* and joined: none is left in a blocking push.
JoinIoThreads ==
  /\ shutdown = "joining" /\ Pushing = {}
  /\ shutdown' = "returned"
  /\ UNCHANGED <<schedulers_, handlers_, started_, shutting_down_, ioc, todo, life,
                 running_, loopVars, queueVars, workerVars, job>>

-----------------------------------------------------------------------------
SchedulerLoop(s) == TakeJob(s) \/ FetchJob(s) \/ PushJob(s)
WorkerThread(s, w) ==
  PopJob(s, w) \/ StartJob(s, w) \/ update_completion_handler(s, w)
Shutdown == DestroyNext \/ StopIoContext \/ JoinIoThreads

Manager ==
  \/ start \/ remove_scheduler \/ remove_completion_handler
  \/ \E s \in Schedulers : add_scheduler(s)
  \/ \E h \in CompletionHandlers : add_completion_handler(h)
  \/ BeginShutdown \/ Shutdown

Next ==
  \/ \E s \in Schedulers : SchedulerLoop(s)
  \/ \E s \in Schedulers, w \in Workers : WorkerThread(s, w)
  \/ \E c \in Components : EndLoop(c) \/ DestroyRemoved(c)
  \/ Manager

Spec == Init /\ [][Next]_vars
=============================================================================
