---------------------------- MODULE MCAdmission -----------------------------
(* Three submissions of one client: two of them share a request id, and two *)
(* share a workflow id, so that every kind of duplicate meets every other.  *)
EXTENDS AdmissionProperties, TLC

Req3 == "s1" :> "r1" @@ "s2" :> "r1" @@ "s3" :> "r2"
Wf3 == "s1" :> "w1" @@ "s2" :> "w2" @@ "s3" :> "w1"

\* A client that submits its workflow again, under a new request id.
ReqRetry == "s1" :> "r1" @@ "s2" :> "r2"
WfRetry == "s1" :> "w1" @@ "s2" :> "w1"
=============================================================================
