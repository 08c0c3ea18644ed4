------------------------ MODULE AdmissionProperties -------------------------
(* What the admission pipeline promises.                                    *)
EXTENDS Admission

PC == {"admit", "insert", "count", "validate", "workflow", "jobs", "ready", "unready", "runtime",
       "update", "publish", "unpublish", "accept", "record", "mark", "free", "unlist", "row",
       "abort", "fail", "done"}

\* Every variable has its type; the buckets of the rate limiter never go below
\* zero, although a refusal takes its increment back.
TypeOK ==
  /\ reqKey \in [Requests -> RequestStatus \cup {"NONE"}] /\ activeSet \subseteq Workflows
  /\ rate \in [0..(Window - 1) -> Nat]
  /\ runtime \subseteq Workflows
  /\ execution \in [Workflows -> {"none", "queued", "running", "ended", "released"}]
  /\ reqRow \in [Requests -> RequestStatus \cup {"NONE"}]
  /\ wfRow \in [Workflows -> WorkflowStatus \cup {"NONE"}]
  /\ jobRows \in [Workflows -> {"NONE", "WAITING", "ABORTED", "DONE"}]
  /\ pc \in [Submissions -> PC] /\ age \in [Submissions -> 0..Window]

Admitted(s) == answer[s] = "WORKFLOW_ADMITTED"

\* A request id is admitted at most once, and so is a workflow id, although the
\* Redis key of the request expires, and is deleted by a rejection, while other
\* submissions with the same ids are under way.
AdmittedOnce ==
  \A s, t \in Submissions :
    s # t /\ Admitted(s) /\ Admitted(t) =>
      RequestOf[s] # RequestOf[t] /\ WorkflowOf[s] # WorkflowOf[t]


\* The buckets count exactly the submissions the script let through in the last
\* window_sec seconds (what it refused is taken back), never more than
\* max_requests of them.
RateExact ==
  LET recent == {s \in Submissions : age[s] < Window} IN
    WindowTotal = Cardinality(recent) /\ Cardinality(recent) =< MaxRequests

\* Jobs are published for execution only once the workflow and its jobs are
\* rows of the database.
PublishedIsPersisted ==
  \A w \in Workflows : execution[w] # "none" => wfRow[w] # "NONE" /\ jobRows[w] # "NONE"

\* A submission that is told its workflow was admitted has published its jobs.
AdmittedIsPublished ==
  \A s \in Submissions : Admitted(s) => execution[WorkflowOf[s]] # "none"

\* The submission occupies the place of its workflow in the active set.
Holds(s) == pc[s] \notin {"admit", "accept", "record", "row", "abort", "fail", "done"}

\* The active set has exactly the workflows with a submission under way or an
\* execution not cleaned up, and no workflow has two of them: no path of the
\* pipeline leaks a place or frees the place of another submission.
ActiveSetExact ==
  \A w \in Workflows :
    LET holders == {s \in Submissions : WorkflowOf[s] = w /\ Holds(s)}
        executing == execution[w] \in {"queued", "running", "ended"}
    IN  /\ w \in activeSet <=> (holders # {} \/ executing)
        /\ Cardinality(holders) + (IF executing THEN 1 ELSE 0) =< 1

\* Runtime hashes belong to a submission that is generating them or to an
\* execution that is not over: a rejected submission leaves none behind.
RuntimeOwned ==
  \A w \in runtime :
    \/ \E s \in Submissions : WorkflowOf[s] = w /\ pc[s] \in {"update", "publish"}
    \/ execution[w] \in {"queued", "running", "ended"}

\* Every place taken in the active set is given back: once no more submissions
\* come, the set empties.
PlaceFreed == (activeSet # {}) ~> (activeSet = {})

-----------------------------------------------------------------------------
\* A workflow recorded as completed stays completed.
FinishedKept == [][\A w \in Workflows : wfRow[w] = "COMPLETED" => wfRow'[w] = "COMPLETED"]_vars

\* Once nothing is under way, the audit trail has a decision for every request
\* it recorded.
AuditTrailDecided ==
  (\A s \in Submissions : pc[s] \in {"admit", "done"}) =>
    \A r \in Requests : reqRow[r] # "RECEIVED"
=============================================================================
