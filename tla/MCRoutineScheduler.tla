------------------------- MODULE MCRoutineScheduler -------------------------
(* RoutineScheduler with the runs of RoutineChain. *)
EXTENDS RoutineScheduler, RoutineChain
=============================================================================
