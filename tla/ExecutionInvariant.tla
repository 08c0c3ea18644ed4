------------------------- MODULE ExecutionInvariant -------------------------
(***************************************************************************)
(* The inductive invariant behind ConcurrencyLimit.  While the workflow is *)
(* Live every job is referred to from at most one place of each kind, and  *)
(* its status tells which kind; so the job whose outcome frees a slot did  *)
(* hold one, and reserved never falls below the number of slots in use.    *)
(* Once the workflow is not Live no job can gain a slot.                   *)
(***************************************************************************)
EXTENDS ExecutionProperties

\* An actor is at a call of its own loop, with a job in hand unless idle.
ActorsOK ==
  /\ \A p \in Procs : pc[p] # "idle" => held[p] \in Jobs
  /\ \A s \in Schedulers : pc[s] \in {"idle", "claim", "dispatch"}
  /\ \A w \in Workers :
       /\ pc[w] \in {"idle", "start", "mark", "execute", "report"}
       /\ pc[w] = "report" => verdict[w] \in {"COMPLETED", "FAILED", "ABORTED"}
  /\ \A h \in Handlers :
       /\ pc[h] \in Deciding \cup {"idle", "settle", "park", "persist", "repair"}
       /\ pc[h] = "fetch" => verdict[h] \in Verdict \ {"INTERNAL"}
       /\ pc[h] = "complete" => verdict[h] = "COMPLETED"
       /\ pc[h] = "retry" => verdict[h] = "FAILED"
       /\ pc[h] \in {"inspect", "fail"} => verdict[h] \in Verdict \ {"COMPLETED"}
  /\ \A r \in RetryHandlers : pc[r] \in {"idle", "promote", "mirror"}
  /\ \A i \in 1..Len(stream) : stream[i].verdict # "INTERNAL"

\* A job popped or to be popped for execution is not READY: claiming it does
\* not give it a slot it did not have.
NoSlotFromClaim ==
  /\ \A j \in execQueue : jobStatus[j] # "READY"
  /\ \A s \in Schedulers : pc[s] = "claim" => jobStatus[held[s]] # "READY"

\* Actors that hold an attempt on its way to the script that records it.
Carries(p) ==
  \/ p \in Schedulers /\ pc[p] = "dispatch"
  \/ p \in Workers /\ pc[p] # "idle"
  \/ p \in Handlers /\ pc[p] \in Deciding /\ verdict[p] # "INTERNAL"

\* The status of a job tells where it can be.
QueuesMatchStatus ==
  /\ \A j \in execQueue : jobStatus[j] = "QUEUED"
  /\ \A j \in waiting : jobStatus[j] = "READY"
  /\ \A j \in retryQueue : jobStatus[j] = "RETRY_DELAY"

SchedulersMatchStatus ==
  \A s \in Schedulers :
    /\ pc[s] = "claim" => jobStatus[held[s]] = "QUEUED"
    /\ pc[s] = "dispatch" => jobStatus[held[s]] = "PENDING_EXECUTION"
    /\ \A i \in 1..Len(localQueue[s]) :
         jobStatus[localQueue[s][i]] = "PENDING_EXECUTION"

WorkersMatchStatus ==
  \A w \in Workers :
    /\ pc[w] = "start" => jobStatus[held[w]] = "PENDING_EXECUTION"
    /\ pc[w] \in {"mark", "execute"} => jobStatus[held[w]] = "RUNNING"

RetriesMatchStatus ==
  \A r \in RetryHandlers : pc[r] = "promote" => jobStatus[held[r]] = "RETRY_DELAY"

\* The status of a job whose outcome is known but not recorded.
StatusOf(v) == IF v \in {"COMPLETED", "FAILED"} THEN {"RUNNING"}
               ELSE {"PENDING_EXECUTION", "RUNNING"}

OutcomesMatchStatus ==
  /\ \A w \in Workers : pc[w] = "report" => jobStatus[held[w]] \in StatusOf(verdict[w])
  /\ \A i \in 1..Len(stream) : jobStatus[stream[i].job] \in StatusOf(stream[i].verdict)
  /\ \A h \in Handlers :
       pc[h] \in Deciding /\ verdict[h] # "INTERNAL" =>
         jobStatus[held[h]] \in StatusOf(verdict[h])

\* No two places of the same kind refer to the same job: a job is popped once,
OnePop ==
  /\ \A s, t \in Schedulers :
       s # t /\ pc[s] = "claim" /\ pc[t] = "claim" => held[s] # held[t]
  /\ \A s \in Schedulers : pc[s] = "claim" => held[s] \notin execQueue

\* taken for a retry once,
OneRetry ==
  /\ \A q, r \in RetryHandlers :
       q # r /\ pc[q] = "promote" /\ pc[r] = "promote" => held[q] # held[r]
  /\ \A r \in RetryHandlers : pc[r] = "promote" => held[r] \notin retryQueue

\* and its attempt is held by one actor, or is once in one worker queue, or is
\* once in the stream.
OneCarrier ==
  /\ \A p, q \in Procs : p # q /\ Carries(p) /\ Carries(q) => held[p] # held[q]
  /\ \A p \in Procs, s \in Schedulers : Carries(p) =>
       \A i \in 1..Len(localQueue[s]) : localQueue[s][i] # held[p]
  /\ \A p \in Procs : Carries(p) => \A i \in 1..Len(stream) : stream[i].job # held[p]

OneEntry ==
  /\ \A s \in Schedulers : \A i, k \in 1..Len(localQueue[s]) :
       i # k => localQueue[s][i] # localQueue[s][k]
  /\ \A s, t \in Schedulers : s # t =>
       \A i \in 1..Len(localQueue[s]), k \in 1..Len(localQueue[t]) :
         localQueue[s][i] # localQueue[t][k]
  /\ \A i, k \in 1..Len(stream) : i # k => stream[i].job # stream[k].job
  /\ \A s \in Schedulers : \A i \in 1..Len(localQueue[s]), k \in 1..Len(stream) :
       localQueue[s][i] # stream[k].job

Finished == {j \in Jobs : jobStatus[j] \in TerminalStatus \cup {"DELETED"}}

\* Before the first job starts nothing runs, and completed_jobs does not exceed
\* the jobs that ended without running.
NothingRanYet ==
  wfStatus = "READY" =>
    /\ \A j \in Jobs : jobStatus[j] # "RUNNING"
    /\ completed =< Cardinality(Finished)

\* An event is applied a second time only in a RUNNING workflow, which it fails.
SecondTryFails ==
  \A h \in Handlers :
    pc[h] = "settle" \/ (pc[h] \in Deciding /\ verdict[h] = "INTERNAL")
      => wfStatus = "RUNNING"

\* A pending call leaves the jobs that can still run alone.
CallOK(c) ==
  /\ c.op = "abort_runtime" => c.jobs \subseteq Finished
  /\ c.op \in {"unlist", "drop_jobs", "drop_workflow"} => Finished = Jobs

OKCalls == {c \in CallType : CallOK(c)}

CallsOK == \A p \in Procs : calls[p] \in Seq(OKCalls)

LiveInv ==
  /\ SlotsCoverActive
  /\ QueuesMatchStatus /\ SchedulersMatchStatus
  /\ WorkersMatchStatus /\ RetriesMatchStatus
  /\ OutcomesMatchStatus
  /\ OnePop /\ OneRetry /\ OneCarrier /\ OneEntry
  /\ NothingRanYet
  /\ SecondTryFails
  /\ CallsOK

IInv ==
  /\ TypeOK
  /\ ActorsOK
  /\ ConcurrencyLimit
  /\ NoSlotFromClaim
  /\ Live => LiveInv
=============================================================================
