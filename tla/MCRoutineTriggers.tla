------------------------ MODULE MCRoutineTriggers ------------------------
(***************************************************************************)
(* Two parts of routines whose progress is checked in one run, side by     *)
(* side: the triggers that start runs (RoutineTriggers) and the runs that  *)
(* are under way (RoutineScheduler with the chain of RoutineChain).        *)
(* "part" says which of them a behaviour is about; the other stands still. *)
(*                                                                         *)
(* The triggers watch two trees that can be scanned and one that is too    *)
(* large, one ref that may be absent, and a schedule of two occurrences,   *)
(* both of which a poll may look at when it catches up.                    *)
(***************************************************************************)
EXTENDS RoutineTriggers, RoutineChain

VARIABLES
  part,
  run, step, tries, approved, conv, away, gone, phase, faults, working, stray, straying

MCOrder == <<"sched", "fs", "git">>

\* Runs with a crash, and runs whose ended tasks are sent again.
Crashing == INSTANCE RoutineScheduler WITH
  Runs <- {1, 2}, RoutineOf <- ChainRoutine, Steps <- {1, 2, 3}, RunOf <- ChainRun,
  Deps <- ChainDeps, AgentOf <- ChainAgent, Claims <- ChainClaims, Gated <- {2},
  MaxAttempts <- ChainAttempts, Movable <- {}, Closable <- {}, Controls <- {},
  FaultKinds <- {"crash"}, MaxFaults <- 1

Repeating == INSTANCE RoutineScheduler WITH
  Runs <- {1, 2}, RoutineOf <- ChainRoutine, Steps <- {1, 2, 3}, RunOf <- ChainRun,
  Deps <- ChainDeps, AgentOf <- ChainAgent, Claims <- ChainClaims, Gated <- {2},
  MaxAttempts <- ChainAttempts, Movable <- {}, Closable <- {}, Controls <- {"repeat"} \X {1, 2, 3},
  FaultKinds <- {}, MaxFaults <- 0

runVars == <<run, step, tries, approved, conv, away, gone, phase, faults, working, stray, straying>>
allVars == <<part, vars, runVars>>

\* One of the initial states of the triggers is enough where they stand still.
RoutinesInit ==
  /\ part \in {"triggers", "crash", "repeat"}
  /\ Init /\ Crashing!Init
  /\ part # "triggers" => /\ tree = CHOOSE t \in Trees \ Oversized : TRUE
                          /\ refs = [r \in Refs |-> Absent]

RoutinesNext ==
  /\ UNCHANGED part
  /\ \/ part = "triggers" /\ Next /\ UNCHANGED runVars
     \/ part = "crash" /\ Crashing!Next /\ UNCHANGED vars
     \/ part = "repeat" /\ Repeating!Next /\ UNCHANGED vars

\* Time passes and runs end, and a tick that is due again and again is not met
\* by a storage fault every time; the application thread goes through its ticks
\* and is started again after a crash, agents answer what reaches them and users
\* decide.  A step of one part is fair with one of the other, as in the fairness
\* of the two modules; the fair actions of the two instances of RoutineScheduler
\* are the same.
Of(triggerStep, runStep) ==
  /\ UNCHANGED part
  /\ \/ part = "triggers" /\ triggerStep /\ UNCHANGED runVars
     \/ part # "triggers" /\ runStep /\ UNCHANGED vars
RoutinesFairness ==
  /\ WF_allVars(Of(Elapse, Crashing!Thread))
  /\ SF_allVars(Of(Tick({}), Crashing!Answer))
  /\ SF_allVars(Of(FALSE, Crashing!Decide))
  /\ WF_allVars(Of(EndRun, FALSE))

RoutinesSpec == RoutinesInit /\ [][RoutinesNext]_allVars /\ RoutinesFairness

\* A trigger that is due comes to run, and a schedule never stops
\* (routines/triggers.rs, poll).
DueTriggersRun == part = "triggers" => TriggersServe

\* Every run that is started finishes if agents answer and users decide: neither
\* the dependency and the approval gate of a chain, nor the checkout two runs
\* need, nor a spent retry budget, nor a crash or tasks that are sent again leave
\* it waiting for ever (routines/engine.rs, tick and recover).
RunsFinish == Crashing!RunsFinish
=============================================================================
