---------------------------- MODULE RoutineChain -----------------------------
(***************************************************************************)
(* An instance of RoutineScheduler: a run of a chain of two steps, the     *)
(* second of which needs approval, and a run of another routine that needs *)
(* the checkout of the first step.                                         *)
(***************************************************************************)
EXTENDS TLC

ChainRoutine == 1 :> "build" @@ 2 :> "review"
ChainRun == 1 :> 1 @@ 2 :> 1 @@ 3 :> 2
ChainDeps == 1 :> {} @@ 2 :> {1} @@ 3 :> {}
ChainAgent == 1 :> "a" @@ 2 :> "b" @@ 3 :> "c"
ChainClaims == 1 :> {"a", "main"} @@ 2 :> {"b", "floor"} @@ 3 :> {"c", "main"}
ChainAttempts == 1 :> 2 @@ 2 :> 1 @@ 3 :> 1
ChainControls == {<<"cancel", 1>>, <<"cancel", 2>>, <<"repeat", 3>>}
=============================================================================
