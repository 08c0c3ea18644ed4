------------------------- MODULE ExecutionRefinement ------------------------
(***************************************************************************)
(* The execution of a workflow implements the abstract slot pool.          *)
(***************************************************************************)
EXTENDS ExecutionInvariant

\* A job of a READY or RUNNING workflow is over when it is finished; in a
\* workflow that ended every job is over as soon as it has no slot.
Over == IF Live THEN Finished ELSE Jobs \ Active

Slots == INSTANCE SlotAllocation WITH holding <- Active, over <- Over

\* Whatever the schedulers, workers and handlers do and whatever fails, slots
\* are granted one at a time and within the limit, no finished job gets one, and
\* none is granted once the workflow has ended.
ImplementsSlotAllocation == Slots!Spec
=============================================================================
