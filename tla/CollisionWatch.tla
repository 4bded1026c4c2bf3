--------------------------- MODULE CollisionWatch ---------------------------
(***************************************************************************)
(* The collision report of a workspace: app/floors/status.rs over          *)
(* git/changes.rs, with the observations it hands to the supervisor.       *)
(*                                                                         *)
(* A tick of the user interface starts a scan on a background thread.  The *)
(* scan first signs the state of all checkouts and computes the report     *)
(* only if the signature differs from the last one; the user and Git keep  *)
(* changing files between the two readings, and the workspace may be       *)
(* given another directory, removed or opened again before the result      *)
(* arrives.                                                                *)
(***************************************************************************)
EXTENDS Integers, FiniteSets

CONSTANTS
  Directories,   \* repositories a workspace may be configured for
  Paths,         \* paths in a repository
  Unset,         \* no directory, no signature
  MaxChanges, MaxMoves, MaxFailures, MaxScans   \* bounds

VARIABLES
  world,      \* what each path is in the two checkouts of each repository
  directory,  \* the working directory of the workspace, Unset when it is not open
  scan,       \* its ScanState
  observed,   \* its entry in supervisor_collisions
  inFlight,   \* background scans: <<slot -> their progress>>
  changes, moves, failures   \* bounds used up

vars == <<world, directory, scan, observed, inFlight, changes, moves, failures>>

Sides == {"left", "right"}

\* What Git sees of a checkout: its head and its status, as far as reports
\* depend on it.  The signature of a repository is all of it.
Signature(d) == [of |-> d, sides |-> world[d]]

Touched(sides, side) == {p \in Paths : sides[side][p] # "unchanged"}
NoReport == [of |-> Unset, changed |-> [s \in Sides |-> {}], warnings |-> {}, critical |-> {}]
Report(signature) ==
  LET sides == signature.sides
      both == Touched(sides, "left") \cap Touched(sides, "right")
      conflicting == {p \in both : \A s \in Sides : sides[s][p] = "committed"}
  IN [of |-> signature.of, changed |-> [s \in Sides |-> Touched(sides, s)],
      warnings |-> both \ conflicting, critical |-> conflicting]

\* The observations made of a report; Unset stands for no entry.
Observations(report) == [of |-> report.of, paths |-> report.warnings \cup report.critical]

NewScan(d) == [directory |-> d, busy |-> FALSE, signature |-> Unset, report |-> NoReport]

-----------------------------------------------------------------------------
(* Files and settings *)

\* A user, an agent or Git changes a path in a checkout.
Change ==
  /\ changes < MaxChanges /\ changes' = changes + 1
  /\ \E d \in Directories, s \in Sides, p \in Paths, v \in {"unchanged", "edited", "committed"} :
       /\ world[d][s][p] # v
       /\ world' = [world EXCEPT ![d][s][p] = v]
  /\ UNCHANGED <<directory, scan, observed, inFlight, moves, failures>>

\* The workspace settings name another directory.
SetDirectory ==
  /\ directory # Unset /\ moves < MaxMoves /\ moves' = moves + 1
  /\ \E d \in Directories \ {directory} : directory' = d
  /\ UNCHANGED <<world, scan, observed, inFlight, changes, failures>>

\* remove_workspace: the observations go, the scan state stays until a tick.
RemoveWorkspace ==
  /\ directory # Unset /\ moves < MaxMoves /\ moves' = moves + 1
  /\ directory' = Unset /\ observed' = Unset
  /\ UNCHANGED <<world, scan, inFlight, changes, failures>>

\* A directory is opened; a removed workspace of it is restored under its id.
CreateWorkspace ==
  /\ directory = Unset
  /\ \E d \in Directories : directory' = d
  /\ UNCHANGED <<world, scan, observed, inFlight, changes, moves, failures>>

-----------------------------------------------------------------------------
(* Scans *)

\* align_with_candidates, on the scan state and on the observations.
AlignedScan ==
  IF directory = Unset THEN Unset
  ELSE IF scan # Unset /\ scan.directory = directory THEN scan ELSE NewScan(directory)
AlignedObservations ==
  IF directory # Unset /\ scan # Unset /\ scan.directory = directory THEN observed ELSE Unset

\* A tick (forced by a refresh, an integration or a floor operation) aligns the
\* states and starts a scan unless one is running; that polls are a second apart is left out.
Scan(forced) ==
  LET aligned == AlignedScan IN
  /\ observed' = AlignedObservations
  /\ IF aligned = Unset \/ (aligned # Unset /\ aligned.busy)
     THEN scan' = aligned /\ UNCHANGED inFlight
     ELSE \E slot \in 1..MaxScans :
            /\ inFlight[slot] = Unset /\ \A lower \in 1..(slot - 1) : inFlight[lower] # Unset
            /\ scan' = [aligned EXCEPT !.busy = TRUE]
            /\ inFlight' = [inFlight EXCEPT ![slot] =
                 [directory |-> directory, at |-> "started", result |-> Unset, report |-> Unset,
                  previous |-> IF forced THEN Unset ELSE aligned.signature]]
  /\ UNCHANGED <<world, directory, changes, moves, failures>>

\* inspect, first half: change_signature.
Sign(slot) ==
  LET running == inFlight[slot] IN
  /\ running # Unset /\ running.at = "started"
  /\ inFlight' = [inFlight EXCEPT ![slot].result = Signature(running.directory), ![slot].at = "signed"]
  /\ UNCHANGED <<world, directory, scan, observed, changes, moves, failures>>

\* inspect, second half: collision_report, if the signature is a new one.
Inspect(slot) ==
  LET running == inFlight[slot] IN
  /\ running # Unset /\ running.at = "signed"
  /\ inFlight' = [inFlight EXCEPT ![slot].at = "done", ![slot].previous = Unset,
       ![slot].report = IF running.result = running.previous THEN Unset
                        ELSE Report(Signature(running.directory))]
  /\ UNCHANGED <<world, directory, scan, observed, changes, moves, failures>>

\* Git fails in either half, or the directory is not a repository.
Fail(slot) ==
  LET running == inFlight[slot] IN
  /\ running # Unset /\ running.at \in {"started", "signed"}
  /\ failures < MaxFailures /\ failures' = failures + 1
  /\ inFlight' = [inFlight EXCEPT ![slot].at = "failed", ![slot].previous = Unset, ![slot].result = Unset]
  /\ UNCHANGED <<world, directory, scan, observed, changes, moves>>

\* Faulty variant: a result is taken for whatever directory there is now.
AnyDirectory(aligned, running) == aligned # Unset

\* scan_is_current, after the alignment.
IsCurrent(aligned, running) == aligned # Unset /\ aligned.directory = running.directory

\* The ScanState after a current result.
Accept(aligned, running) ==
  IF running.at = "failed" THEN [aligned EXCEPT !.busy = FALSE]
  ELSE [aligned EXCEPT !.busy = FALSE, !.signature = running.result,
          !.report = IF running.report = Unset THEN @ ELSE running.report]

\* update: the result of a scan arrives.
Completed(slot) ==
  LET running == inFlight[slot]
      aligned == AlignedScan
  IN
  /\ running # Unset /\ running.at \in {"done", "failed"}
  /\ inFlight' = [inFlight EXCEPT ![slot] = Unset]
  /\ IF IsCurrent(aligned, running)
     THEN /\ scan' = Accept(aligned, running)
          /\ observed' = IF running.at = "done" /\ running.report # Unset
                         THEN Observations(running.report) ELSE AlignedObservations
     ELSE scan' = aligned /\ observed' = AlignedObservations
  /\ UNCHANGED <<world, directory, changes, moves, failures>>

Init ==
  /\ world = [d \in Directories |-> [s \in Sides |-> [p \in Paths |-> "unchanged"]]]
  /\ directory = Unset /\ scan = Unset /\ observed = Unset
  /\ inFlight = [slot \in 1..MaxScans |-> Unset]
  /\ changes = 0 /\ moves = 0 /\ failures = 0

Next ==
  \/ Change \/ SetDirectory \/ RemoveWorkspace \/ CreateWorkspace
  \/ Scan(FALSE) \/ Scan(TRUE)
  \/ \E slot \in 1..MaxScans : Sign(slot) \/ Inspect(slot) \/ Fail(slot) \/ Completed(slot)

-----------------------------------------------------------------------------
(* Properties *)

\* The report in use, and what the supervisor was told, are about the directory
\* the scan state is for, however the result of an older scan is delayed
\* (status.rs, scan_is_current).
ReportOfDirectory ==
  /\ scan # Unset => scan.report.of \in {Unset, scan.directory}
  /\ scan # Unset /\ observed # Unset => observed.of = scan.directory

\* The signature of a scan promises a report it was not computed from: files
\* changed between the two readings, or the directory was left and set again
\* while a scan was under way.  Only another change or a refresh repairs it.
OutOfStep ==
  /\ scan # Unset /\ scan.signature # Unset
  /\ \/ scan.report # Report(scan.signature)
     \/ observed # Observations(scan.report)

\* Once files, settings and Git settle, the view and the supervisor show the
\* collisions there are, unless a scan was left out of step.
CatchesUp ==
  <>[](directory = Unset \/ OutOfStep \/
       (/\ scan # Unset
        /\ scan.report = Report(Signature(directory))
        /\ observed = Observations(scan.report)))
=============================================================================
