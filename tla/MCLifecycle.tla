---------------------------- MODULE MCLifecycle -----------------------------
(***************************************************************************)
(* Instances of the lifecycle for TLC.                                     *)
(***************************************************************************)
EXTENDS LifecycleProperties

CONSTANTS s1, s2, c1, c2

OneScheduler == <<s1>>
OneHandler == <<c1>>
=============================================================================
