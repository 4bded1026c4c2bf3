----------------------------- MODULE MCWorkbench -----------------------------
(***************************************************************************)
(* What runs and what changes around the checkouts of a workspace, three   *)
(* instances side by side: the process of a terminal (ProcessRuntime),     *)
(* worktree floors (Floors) and the collision report (CollisionWatch).     *)
(* "part" says which of them a behaviour is about, one of the Parts of the *)
(* run; the others stand still.                                            *)
(***************************************************************************)
EXTENDS ProcessRuntime, TLC

CONSTANTS
  Parts,   \* the instances a run explores
  Paths, Nodes, Branches, NewBranches, MaxFloors, MaxChanges, MaxSwitches, MaxEdits,   \* Floors
  Directories, Unset, MaxFileChanges, MaxMoves, MaxFailures, MaxScans   \* CollisionWatch

VARIABLES
  part,
  checkouts, branches, head, entries, nodeFloors, active, directory, terminals, job, merging,
  preview, tokens, changes, switches, edits,
  world, watched, scan, observed, inFlight, fileChanges, moves, failures

\* Floors are created on branches of the repository.
ASSUME BranchesAssumption == NewBranches \subseteq Branches

F == INSTANCE Floors
Watch == INSTANCE CollisionWatch WITH directory <- watched, changes <- fileChanges,
                                   MaxChanges <- MaxFileChanges

floorVars == <<checkouts, branches, head, entries, nodeFloors, active, directory, terminals, job,
               merging, preview, tokens, changes, switches, edits>>
watchVars == <<world, watched, scan, observed, inFlight, fileChanges, moves, failures>>
allVars == <<part, vars, floorVars, watchVars>>

WorkbenchInit ==
  /\ part \in Parts
  /\ Init /\ F!Init /\ Watch!Init

WorkbenchNext ==
  /\ UNCHANGED part
  /\ \/ part = "process" /\ Next /\ UNCHANGED <<floorVars, watchVars>>
     \/ part = "floors" /\ F!Next /\ UNCHANGED <<vars, watchVars>>
     \/ part = "watch" /\ Watch!Next /\ UNCHANGED <<vars, floorVars>>

\* The threads of the process, the Git worker, the ticks and scans run, and
\* the main thread handles what they send.
Fairness ==
  /\ WF_vars(part = "process" /\ Reader) /\ WF_vars(part = "process" /\ Waiter)
  /\ WF_vars(part = "process" /\ NextEvent) /\ WF_vars(part = "process" /\ Cancels(Worker))
  /\ WF_vars(part = "process" /\ UserInterface)
  /\ WF_floorVars(part = "floors" /\ F!FloorWorker)
  /\ WF_floorVars(part = "floors" /\ F!MergeWorker)
  /\ WF_floorVars(part = "floors" /\ F!Complete)
  /\ WF_watchVars(part = "watch" /\ Watch!Scan(FALSE))
  /\ \A slot \in 1..MaxScans :
       WF_watchVars(part = "watch" /\ (Watch!Sign(slot) \/ Watch!Inspect(slot) \/ Watch!Completed(slot)))

WorkbenchSpec == WorkbenchInit /\ [][WorkbenchNext]_allVars /\ Fairness

\* A checkout the application deletes holds no uncommitted work and no active
\* terminal, and is the floor's own and merged unless the user worked in Git since
\* the checks began; cards edited while Git runs stay where the user put them; and an
\* integration merges the revision the user was shown, no later one, and an
\* earlier one only if the user committed since it was verified (floors.rs, git.rs,
\* git/integration.rs).
WorkKept == F!WorkKept

\* Documented (docs/worktrees.md:52-54), and not kept: a checkout that was replaced,
\* switched to another branch or lost its ownership marker is not removed
\* (git.rs, remove).
RevokedStays == F!RevokedStays

\* The collision report is about the directory it is shown for
\* (app/floors/status.rs).
ReportOfDirectory == Watch!ReportOfDirectory

\* A stopped process leaves nothing behind and its end is seen, and the
\* collision report comes to be up to date (runtime/local.rs,
\* app/floors/status.rs).
WorkEnds == StopEnds /\ EndIsSeen /\ Watch!CatchesUp

\* Every operation on floors and every integration ends, and the panel can be
\* used again (app/floors.rs, app/floors/integration.rs).
FloorsEnd == F!BusyEnds
=============================================================================
