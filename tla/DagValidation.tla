--------------------------- MODULE DagValidation ----------------------------
(***************************************************************************)
(* The checks WorkflowAdmissionService makes on a workflow definition      *)
(* before it is persisted, and the runtime data they build on the way:     *)
(* build_jobs_runtime_info, the policy checks, validate_semantic and       *)
(* validate_dependencies, whose cycle check is Kahn's algorithm.           *)
(*                                                                         *)
(* A definition is the "jobs" array of the request, a sequence of entries  *)
(* with a job id and a list of dependencies.  What the policy bounds about *)
(* one entry besides its dependencies is two flags of the entry: priority, *)
(* timeout and retries (within_policy), and size (within_size).            *)
(***************************************************************************)
EXTENDS Integers, SequencesExt

CONSTANTS JobIds,              \* every id an entry or a dependency may name
          Definitions,         \* the definitions submitted
          MaxJobs,             \* PolicyPlan::max_jobs_in_workflow
          MaxDependencies      \* PolicyPlan::max_job_dependencies

Entry == [job_id : JobIds, depends_on : Seq(JobIds), within_policy : BOOLEAN,
          within_size : BOOLEAN]

ASSUME DefinitionsAssumption ==
  /\ \A d \in Definitions : \A i \in DOMAIN d : d[i] \in Entry
  /\ MaxJobs \in Nat /\ MaxDependencies \in Nat

VARIABLES
  phase,         \* the function that runs next
  verdict,       \* ValidationResult: the rejection reason, or VALID
  data,          \* the definition
  remaining,     \* JobRuntimeData::remaining_dependencies
  ready,         \* ready_jobs, the jobs without dependencies
  successors,    \* JobRuntimeData::successors
  unfilled,      \* the jobs whose edges the first loop has not filled in yet
  incoming,      \* DagData::incoming_edges
  outgoing,      \* DagData::outgoing_edges
  dag_queue,
  visited        \* job_visited_count

vars == <<phase, verdict, data, remaining, ready, successors, unfilled, incoming, outgoing,
          dag_queue, visited>>
runtimeVars == <<remaining, ready, successors>>
dagVars == <<unfilled, incoming, outgoing, dag_queue, visited>>

-----------------------------------------------------------------------------
Entries == DOMAIN data
Ids == {data[i].job_id : i \in Entries}

\* jobs_runtime_info and jobs_map hold one entry per id: the last one stands.
EntryOf(j) == data[CHOOSE i \in Entries : data[i].job_id = j
                                          /\ \A k \in Entries : data[k].job_id = j => k =< i]
Dependencies(j) == ToSet(EntryOf(j).depends_on)

Init ==
  /\ phase = "build" /\ verdict = "NONE"
  /\ data \in Definitions
  /\ remaining = [j \in JobIds |-> 0] /\ ready = {}
  /\ successors = [j \in JobIds |-> <<>>]
  /\ unfilled = {}
  /\ incoming = [j \in JobIds |-> {}] /\ outgoing = [j \in JobIds |-> {}]
  /\ dag_queue = <<>> /\ visited = 0

Reject(reason) ==
  /\ phase' = "done" /\ verdict' = reason
  /\ UNCHANGED <<data, runtimeVars, dagVars>>

Proceed(next) == phase' = next /\ UNCHANGED <<verdict, data>>

\* Mutant of RemainingOf: off by one.
RemainingOfLess(j) == Len(EntryOf(j).depends_on) - 1

RemainingOf(j) == Len(EntryOf(j).depends_on)

\* build_jobs_runtime_info: the first entry outside the policy ends it.
build_jobs_runtime_info ==
  /\ phase = "build"
  /\ IF \E i \in Entries : \/ ~data[i].within_policy
                           \/ Len(data[i].depends_on) > MaxDependencies
     THEN Reject("JOB_POLICY_VIOLATION")
     ELSE /\ remaining' = [j \in JobIds |-> IF j \in Ids THEN RemainingOf(j) ELSE 0]
          /\ ready' = {data[i].job_id : i \in {k \in Entries : data[k].depends_on = <<>>}}
          /\ UNCHANGED <<successors, dagVars>>
          /\ Proceed("policy")

validate_admission_client_workflow_policy ==
  /\ phase = "policy"
  /\ \/ Len(data) > MaxJobs /\ Reject("JOB_COUNT_EXCEEDED")
     \/ Len(data) =< MaxJobs /\ Len(data) = 0 /\ Reject("JOB_COUNT_ZERO")
     \/ /\ Len(data) \in 1..MaxJobs /\ \E i \in Entries : ~data[i].within_size
        /\ Reject("JOB_SIZE_EXCEEDED")
     \/ /\ Len(data) \in 1..MaxJobs /\ \A i \in Entries : data[i].within_size
        /\ Proceed("semantic")
        /\ UNCHANGED <<runtimeVars, dagVars>>

\* validate_semantic checks the entries in order, in each one the list of its
\* dependencies before its own id.
\* Mutant of RepeatsDependency: repeated dependencies are let through.
RepeatsDependencyNever(i) == FALSE

RepeatsDependency(i) == ~IsInjective(data[i].depends_on)
RepeatsId(i) == \E k \in 1..(i - 1) : data[k].job_id = data[i].job_id
Offends(i) == RepeatsDependency(i) \/ RepeatsId(i)

validate_semantic ==
  /\ phase = "semantic"
  /\ \/ \E i \in Entries :
          /\ Offends(i) /\ \A k \in 1..(i - 1) : ~Offends(k)
          /\ \/ RepeatsDependency(i) /\ Reject("DUPLICATE_DEPENDENCY")
             \/ ~RepeatsDependency(i) /\ Reject("DUPLICATE_JOB_ID")
     \/ /\ \A i \in Entries : ~Offends(i)
        /\ Proceed("edges") /\ unfilled' = Ids
        /\ UNCHANGED <<runtimeVars, incoming, outgoing, dag_queue, visited>>

\* The first loop of validate_dependencies, for one job; the map is iterated
\* in no particular order.
\* Mutant of AddedSuccessor: only the first successor is kept.
AddedSuccessorFirst(j) ==
  [d \in JobIds |-> IF d \in Dependencies(j) /\ successors[d] = <<>> THEN <<j>> ELSE successors[d]]

AddedSuccessor(j) ==
  [d \in JobIds |-> IF d \in Dependencies(j) THEN Append(successors[d], j) ELSE successors[d]]
StartsQueued(j) == Dependencies(j) = {}

FillEdges ==
  /\ phase = "edges"
  /\ \E j \in unfilled :
       IF \E d \in Dependencies(j) : d \notin Ids
       THEN Reject("MISSING_DEPENDENCY")
       ELSE /\ incoming' = [incoming EXCEPT ![j] = Dependencies(j)]
            /\ outgoing' = [d \in JobIds |-> IF d \in Dependencies(j) THEN outgoing[d] \cup {j}
                                                                    ELSE outgoing[d]]
            /\ successors' = AddedSuccessor(j)
            /\ dag_queue' = IF StartsQueued(j) THEN Append(dag_queue, j) ELSE dag_queue
            /\ unfilled' = unfilled \ {j}
            /\ Proceed(IF unfilled = {j} THEN "visit" ELSE "edges")
            /\ UNCHANGED <<remaining, ready, visited>>

\* The second loop: the front of the queue is taken off its successors' incoming
\* edges, and those left without any are queued, in no particular order.
\* Mutant of Freed: the first predecessor visited queues the job.
FreedOnFirst(j) == outgoing[j]

\* Mutant of Freed: the edges are looked at before the job is taken off them.
FreedBefore(j) == {k \in outgoing[j] : incoming[k] = {}}

Freed(j) == {k \in outgoing[j] : incoming[k] \ {j} = {}}

VisitJob ==
  /\ phase = "visit" /\ dag_queue # <<>>
  /\ LET j == Head(dag_queue) IN
       /\ incoming' = [k \in JobIds |-> IF k \in outgoing[j] THEN incoming[k] \ {j} ELSE incoming[k]]
       /\ \E order \in SetToSeqs(Freed(j)) : dag_queue' = Tail(dag_queue) \o order
  /\ visited' = visited + 1
  /\ UNCHANGED <<phase, verdict, data, runtimeVars, unfilled, outgoing>>

DetectCycle ==
  /\ phase = "visit" /\ dag_queue = <<>>
  /\ \/ visited # Cardinality(Ids) /\ Reject("CIRCULAR_DEPENDENCY")
     \/ visited = Cardinality(Ids) /\ Reject("VALID")

Next ==
  \/ build_jobs_runtime_info \/ validate_admission_client_workflow_policy
  \/ validate_semantic \/ FillEdges \/ VisitJob \/ DetectCycle

Spec == Init /\ [][Next]_vars

-----------------------------------------------------------------------------
Phase == {"build", "policy", "semantic", "edges", "visit", "done"}
Verdict == {"NONE", "VALID", "JOB_POLICY_VIOLATION", "JOB_COUNT_EXCEEDED", "JOB_COUNT_ZERO",
            "JOB_SIZE_EXCEEDED",
            "DUPLICATE_DEPENDENCY", "DUPLICATE_JOB_ID", "MISSING_DEPENDENCY", "CIRCULAR_DEPENDENCY"}

\* Every variable has its type; a job enters the queue of validate_dependencies
\* from the ids of the definition.
TypeOK ==
  /\ phase \in Phase /\ verdict \in Verdict /\ data \in Definitions
  /\ remaining \in [JobIds -> Nat] /\ ready \subseteq JobIds
  /\ \A j \in JobIds : successors[j] \in Seq(JobIds)
  /\ unfilled \subseteq Ids
  /\ incoming \in [JobIds -> SUBSET JobIds] /\ outgoing \in [JobIds -> SUBSET JobIds]
  /\ dag_queue \in Seq(Ids) /\ visited \in Nat

\* Reference definition: no set of jobs in which each one depends on another of
\* the set, itself included.
Acyclic == \A S \in SUBSET Ids \ {{}} : \E j \in S : Dependencies(j) \cap S = {}

Sound ==
  /\ Len(data) \in 1..MaxJobs
  /\ \A i \in Entries : /\ data[i].within_policy /\ data[i].within_size
                        /\ Len(data[i].depends_on) =< MaxDependencies
                        /\ IsInjective(data[i].depends_on)
                        /\ ToSet(data[i].depends_on) \subseteq Ids
                        /\ \A k \in Entries : data[k].job_id = data[i].job_id => k = i

\* The validation accepts exactly the sound definitions without a cycle, in
\* whatever order the unordered containers of validate_dependencies are walked.
VerdictCorrect == phase = "done" => ((verdict = "VALID") <=> (Sound /\ Acyclic))

\* The reason is the right one: CIRCULAR_DEPENDENCY is given for a cycle and for
\* nothing else.
CircularOnlyForCycles == verdict = "CIRCULAR_DEPENDENCY" => Sound /\ ~Acyclic

\* What an accepted definition hands to the runtime is what the completion
\* scripts count on: a job waits for as many jobs as list it as a successor,
\* each of them once, and exactly the jobs that wait for none are ready.
RuntimeMatchesDag ==
  verdict = "VALID" =>
    \A j \in Ids :
      /\ remaining[j] = Cardinality({d \in Ids : j \in ToSet(successors[d])})
      /\ IsInjective(successors[j])
      /\ \A d \in Ids : j \in ToSet(successors[d]) <=> d \in Dependencies(j)
      /\ (j \in ready) <=> (remaining[j] = 0)

\* No job is queued twice, however its predecessors are visited, and the count
\* that detects cycles never exceeds the number of jobs: the loop ends.
QueuedOnce ==
  /\ IsInjective(dag_queue)
  /\ visited + Len(dag_queue) =< Cardinality(Ids)
=============================================================================
