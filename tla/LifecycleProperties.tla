------------------------ MODULE LifecycleProperties -------------------------
(***************************************************************************)
(* What starting, removing and shutting down the components guarantees.    *)
(***************************************************************************)
EXTENDS Lifecycle

\* What goes on by itself: coroutines while an I/O thread is free, worker
\* threads, and the threads inside shutdown() and remove calls.  Nothing obliges
\* anyone to start, add, remove or shut down.
Progress ==
  \/ \E s \in Schedulers : SchedulerLoop(s)
  \/ \E s \in Schedulers, w \in Workers : WorkerThread(s, w)
  \/ \E c \in Components : EndLoop(c) \/ DestroyRemoved(c)
  \/ Shutdown

\* The process does not halt while one of its threads can go on.  The operating
\* system gives no more than this to each thread; it is enough, because jobs and
\* components are finitely many and no step can be undone.
FairSpec == Spec /\ WF_vars(Progress)

-----------------------------------------------------------------------------
(* Safety.                                                                  *)

\* A component is destroyed only when nothing of it is in use: its main loop
\* has set main_loop_finished_, its worker threads have ended, and no job is
\* left in its queue or in anybody's hands.
DestroyedAfterUse ==
  \A c \in Components : life[c] = "destroyed" =>
    /\ loop[c] = "done"
    /\ c \in Schedulers =>
         /\ hand[c] = NoJob /\ queue_[c] = <<>>
         /\ \A w \in Workers : worker[c][w] = "done" /\ task[c][w] = NoJob

\* What makes that inductive: a main loop holds a job exactly between taking it
\* and handing it on, a worker while it runs it, a worker ends only when its
\* queue is closed and drained, and destructors wait.
Ownership ==
  /\ \A s \in Schedulers : hand[s] # NoJob <=> loop[s] \in {"fetch", "push"}
  /\ \A s \in Schedulers, w \in Workers :
       /\ task[s][w] # NoJob <=> worker[s][w] \in {"start", "report"}
       /\ worker[s][w] = "done" => closed_[s] /\ queue_[s] = <<>>
  /\ \A c \in Components : life[c] = "destroyed" => Finished(c)

\* The places where a job is in progress: in the hands of a main loop, in a worker
\* queue, with a worker.
Places(j) ==
  Cardinality({s \in Schedulers : hand[s] = j})
  + Cardinality({p \in Schedulers \X (1..Capacity) :
                   p[2] =< Len(queue_[p[1]]) /\ queue_[p[1]][p[2]] = j})
  + Cardinality({p \in Schedulers \X Workers : task[p[1]][p[2]] = j})

Lost == {j \in Jobs : job[j] = "lost"}

\* The schedulers that were told to stop and hold no job any more.
Emptied == {s \in Schedulers : ~running_[s] /\ hand[s] = NoJob}

\* Every job in progress is in exactly one place, so none is executed twice while
\* components come and go.  What stopping costs is bounded: a scheduler told to
\* stop gives up at most the one job it had popped and not yet handed to its
\* workers, and nobody gives up a job otherwise.
JobsAccounted ==
  /\ \A j \in Jobs : Places(j) = IF job[j] \in {"taken", "handed"} THEN 1 ELSE 0
  /\ Cardinality(Lost) =< Cardinality(Emptied)

-----------------------------------------------------------------------------
(* Liveness.                                                                *)

\* The components whose remove call has not returned.
Removing == {c \in Components : life[c] = "removed"}

\* A remove call is overtaken by shutdown() stopping the I/O context.
Overtaken == ioc = "stopped" /\ Removing # {}

\* The jobs handed to worker queues are all executed and reported, also while
\* their scheduler is removed or shut down: only a removal overtaken by shutdown()
\* may leave one behind.
HandedOffDrains ==
  (\E j \in Jobs : job[j] = "handed") ~> ((\A j \in Jobs : job[j] # "handed") \/ Overtaken)

\* Somebody waits in shutdown(), or in a remove call it has not overtaken.
Waiting == shutdown \in {"destroying", "joining"} \/ (Removing # {} /\ ioc # "stopped")

\* The calls of the runtime manager return, whatever the components were doing
\* when they were told to stop, a push into a full queue included: shutdown()
\* always, a remove call unless shutdown() overtakes it.
CallsReturn == Waiting ~> ~Waiting
-----------------------------------------------------------------------------
(* What the documentation also says, and the code does not keep.            *)

\* A job that a scheduler took is owned by a live scheduler that can progress it,
\* also when schedulers are removed: none is given up.
NothingLost == Lost = {}
=============================================================================
