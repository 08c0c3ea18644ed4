---------------------------- MODULE MCExecution ----------------------------
(* Small workflows and groups of actors for the execution of a workflow.    *)
EXTENDS ExecutionRefinement, TLC

\* Two independent jobs, one of which may be retried.
PairJobs == {"a", "b"}
PairDeps == [j \in PairJobs |-> {}]
PairPriority == [j \in PairJobs |-> 1]
PairRetries == [j \in PairJobs |-> IF j = "a" THEN 1 ELSE 0]

\* Three jobs; b may be retried.
TrioJobs == {"a", "b", "c"}
TrioPriority == [j \in TrioJobs |-> IF j = "b" THEN 2 ELSE 1]
TrioRetries == [j \in TrioJobs |-> IF j = "b" THEN 1 ELSE 0]

\* One job that releases two: a -> b, a -> c.
FanDeps == [j \in TrioJobs |-> IF j = "a" THEN {} ELSE {"a"}]

\* One job that needs two: {a, b} -> c.
MeetDeps == [j \in TrioJobs |-> IF j = "c" THEN {"a", "b"} ELSE {}]

\* Four jobs with a fork and a join: a -> c, {a, b} -> d.
JoinJobs == {"a", "b", "c", "d"}
JoinDeps == [j \in JoinJobs |->
  CASE j = "c" -> {"a"} [] j = "d" -> {"a", "b"} [] OTHER -> {}]
JoinPriority == [j \in JoinJobs |-> IF j = "d" THEN 2 ELSE 1]
JoinRetries == [j \in JoinJobs |-> IF j = "a" THEN 1 ELSE 0]

\* Jobs that are alike, a job d that needs all of them, and a job b alone, which
\* may be retried.
Alike == Jobs \ {"b", "d"}
GatherDeps == [j \in Jobs |-> IF j = "d" THEN Alike ELSE {}]
GatherPriority == [j \in Jobs |-> IF j = "b" THEN 2 ELSE 1]
GatherRetries == [j \in Jobs |-> IF j = "b" THEN 1 ELSE 0]

OneScheduler == [w \in Workers |-> "s1"]

\* The workers of one scheduler are interchangeable, and so are the handlers.
Interchangeable == Permutations(Workers) \cup Permutations(Handlers)

\* In Gather so are the jobs that are alike.
InterchangeableJobs == Interchangeable \cup Permutations(Alike)
=============================================================================
