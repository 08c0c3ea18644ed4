--------------------------- MODULE SlotAllocation ---------------------------
(***************************************************************************)
(* What the execution of a workflow promises about its execution slots,    *)
(* without queues, scripts, actors or faults: a pool of MaxConcurrent      *)
(* slots, granted one at a time, never to a job that is over.              *)
(***************************************************************************)
EXTENDS Integers, FiniteSets

CONSTANTS Jobs, MaxConcurrent

VARIABLES
  holding,   \* the jobs that hold a slot
  over       \* the jobs that will never hold a slot again

Init ==
  /\ holding \in SUBSET Jobs /\ Cardinality(holding) =< MaxConcurrent
  /\ over = {}

\* Any number of jobs give their slots back or end, and at most one job is
\* granted a slot, which may be one given back in the same step.
Next ==
  /\ \A j, k \in holding' \ holding : j = k
  /\ Cardinality(holding') =< MaxConcurrent
  /\ over \subseteq over'
  /\ holding' \subseteq Jobs \ over'

Spec == Init /\ [][Next]_<<holding, over>>
=============================================================================
