--------------------------- MODULE WorkbenchProofs ---------------------------
(***************************************************************************)
(* Proofs about what runs and changes around the checkouts of a workspace, *)
(* through the module that puts the three parts side by side (MCWorkbench).*)
(*                                                                         *)
(* ProcessRuntime, for buffers of any size and any output: a signal never  *)
(* reaches a process that took over the PID, and the end of a process is   *)
(* handled after everything it wrote.                                      *)
(*                                                                         *)
(* CollisionWatch, for any repositories, paths and delays: the report in   *)
(* use is about the directory it is shown for.                             *)
(*                                                                         *)
(* Floors, for any paths, cards, branches and bounds: a checkout the       *)
(* application deletes has no uncommitted work the user did not give up    *)
(* and runs no terminal, and is the floor's own unless the user worked in  *)
(* Git since the removal began its checks; cards edited while Git runs     *)
(* stay; an integration merges the revision that was shown.  Ownership     *)
(* tokens carry that argument: one is written once, into one checkout, so  *)
(* whoever finds the token of a floor in a checkout has found that floor's *)
(* own checkout, whatever the user did to worktrees and branches before.   *)
(***************************************************************************)
EXTENDS MCWorkbench, SequenceTheorems, FiniteSetTheorems, TLAPS

-----------------------------------------------------------------------------
(***************************************************************************)
(* ProcessRuntime.                                                         *)
(***************************************************************************)

Cancelling == {"out", "mark", "lock", "check", "kill", "close"}

\* What the arguments need to know of the types.
Types ==
  /\ child \in {"running", "zombie", "reaped"}
  /\ {output, produced, delivered, queue} \subseteq Nat
  /\ state \in {"running", "cancelled", "finished"}
  /\ cancel \in [Threads -> Cancelling]
  /\ reader \in {"read", "send", "done"}
  /\ waiter \in {"poll", "reap", "finish", "close", "reader", "done"}
  /\ session \in {"attached", "detached"} /\ task \in {"waiting", "done"}
  /\ event \in {"none", "output", "exited", "cancelled"}
  /\ ended \in {"none", "exited", "cancelled"}

\* Between a look at the state and the signal, and between reaping and the
\* state that says so, a thread holds the lifecycle lock.
Locked ==
  /\ lifecycle = "waiter" <=> waiter \in {"reap", "finish"}
  /\ \A t \in Threads : lifecycle = t <=> cancel[t] \in {"check", "kill"}

\* Outside the lock the state says whether the child is reaped.
Reaped ==
  /\ child = "reaped" <=> waiter \notin {"poll", "reap"}
  /\ waiter \in {"close", "reader", "done"} => state = "finished"

\* The output channel closes when session and task have let go of it, and the
\* worker cancels only then.
LetGo ==
  /\ closed => task = "done" /\ session = "detached"
  /\ cancel[Worker] # "out" => closed
  /\ event # "none" => task = "done"

LockInv == Types /\ Locked /\ Reaped /\ LetGo /\ KillsOwn

LEMMA InitLock == Init => LockInv
  BY RuntimeAssumption DEF Init, LockInv, Types, Cancelling, Locked, Reaped, LetGo, KillsOwn, Threads, Ui, Worker

LEMMA LockStep == LockInv /\ [Next]_vars => LockInv'
<1> SUFFICES ASSUME LockInv, [Next]_vars PROVE LockInv'
  OBVIOUS
<1> USE DEF LockInv, Types, Locked, Reaped, LetGo, KillsOwn, Cancelling, Threads, Ui, Worker,
            kernel, control, threads, owner
<1>1. CASE ChildWrites \/ ChildReads \/ ChildForks \/ ChildExits \/ DescendantExits
  BY <1>1 DEF ChildWrites, ChildReads, ChildForks, ChildExits, DescendantExits
<1>2. CASE ReadChunk \/ ReadEnd
  BY <1>2 DEF ReadChunk, ReadEnd
<1>3. CASE SendChunk
  BY <1>3 DEF SendChunk
<1>4. CASE WaitLock \/ Reap
  BY <1>4 DEF WaitLock, Reap, Lock
<1>5. CASE Finish
  BY <1>5 DEF Finish, Unlock
<1>6. CASE WaiterCloses \/ SendTermination
  BY <1>6 DEF WaiterCloses, SendTermination
<1>7. ASSUME NEW t \in Threads, Mark(t) \/ LockLifecycle(t) PROVE LockInv'
  BY <1>7 DEF Mark, LockLifecycle, At
<1>8. ASSUME NEW t \in Threads, Check(t) \/ Kill(t) PROVE LockInv'
  BY <1>8 DEF Check, FinishedNow, Kill, Unlock, At
<1>9. ASSUME NEW t \in Threads, CancelCloses(t) PROVE LockInv'
  BY <1>9 DEF CancelCloses, At
<1>10. CASE NextEvent
  <2>1. /\ task = "waiting" /\ task' = "done" /\ event' \in {"output", "exited", "cancelled"} /\ queue' \in Nat
        /\ UNCHANGED <<kernel, control, reader, waiter, session, ended, delivered>>
    BY <1>10 DEF NextEvent
  <2>2. \/ session = "detached" /\ closed' = TRUE /\ cancel' = [cancel EXCEPT ![Worker] = "mark"]
        \/ session = "attached" /\ UNCHANGED <<closed, cancel>>
    BY <1>10 DEF NextEvent, Drop
  <2>3. cancel[Worker] = "out"
    BY <2>1
  <2>4. /\ cancel' \in [Threads -> Cancelling] /\ cancel'[Ui] = cancel[Ui]
        /\ cancel'[Worker] \in {"out", "mark"} /\ (cancel'[Worker] # "out" => closed')
    BY <2>2, <2>3
  <2>5. Types' /\ Locked' /\ Reaped' /\ KillsOwn'
    BY <2>1, <2>3, <2>4
  <2>6. LetGo'
    BY <2>1, <2>2, <2>4
  <2> QED
    BY <2>5, <2>6
<1>11. CASE HandleEvent
  <2>1. /\ cancel[Ui] = "out" /\ event' = "none" /\ ended' \in {ended, event}
        /\ UNCHANGED <<kernel, control, threads>>
    BY <1>11 DEF HandleEvent
  <2>2. CASE event = "output"
    <3>1. /\ delivered' = delivered + 1 /\ UNCHANGED <<ended, session, closed, cancel>>
          /\ task' = IF session = "attached" THEN "waiting" ELSE task
      BY <1>11, <2>2 DEF HandleEvent, Again
    <3> QED
      BY <2>1, <3>1
  <2>3. CASE event # "output"
    <3>1. /\ session' = "detached" /\ UNCHANGED <<task, delivered>> /\ ended' = event /\ event # "none"
          /\ \/ session = "attached" /\ closed' = TRUE /\ cancel' = [cancel EXCEPT ![Ui] = "mark"]
             \/ session # "attached" /\ UNCHANGED <<closed, cancel>>
      BY <1>11, <2>3 DEF HandleEvent, Drop
    <3>2. task = "done"
      BY <3>1
    <3>3. /\ cancel' \in [Threads -> Cancelling] /\ cancel'[Worker] = cancel[Worker]
          /\ cancel'[Ui] \in {"out", "mark"}
      BY <2>1, <3>1
    <3>4. Types' /\ Locked' /\ Reaped' /\ KillsOwn'
      BY <2>1, <2>3, <3>1, <3>3
    <3>5. closed' => task' = "done" /\ session' = "detached"
      BY <3>1, <3>2
    <3>6. cancel'[Worker] # "out" => closed'
      BY <3>1, <3>3
    <3>7. LetGo'
      BY <2>1, <3>5, <3>6
    <3> QED
      BY <3>4, <3>7
  <2> QED
    BY <2>2, <2>3
<1>12. CASE StartWrite \/ EndWrite
  BY <1>12 DEF StartWrite, EndWrite
<1>13. CASE Stop
  BY <1>13 DEF Stop
<1>14. CASE Detach
  BY <1>14 DEF Detach, Drop
<1>15. CASE UNCHANGED vars
  BY <1>15 DEF vars
<1> QED
  BY <1>1, <1>2, <1>3, <1>4, <1>5, <1>6, <1>7, <1>8, <1>9, <1>10, <1>11, <1>12, <1>13, <1>14, <1>15
     DEF Next, Reader, Waiter, Cancels, UserInterface
-----------------------------------------------------------------------------
\* Until the receiver closes, every chunk the child wrote is in one place.
Held == (IF reader = "send" THEN 1 ELSE 0) + (IF event = "output" THEN 1 ELSE 0)
Accounted == ~closed => produced = output + queue + delivered + Held

\* A reader that ended by itself drained the terminal, and a termination is
\* the last event.
Drained ==
  /\ reader = "done" /\ ~closed => output = 0 /\ child # "running"
  /\ event \in {"exited", "cancelled"} \/ ended # "none" =>
       child # "running" /\ task = "done" /\ delivered = produced /\ event # "output"

EndInv == LockInv /\ Accounted /\ Drained

LEMMA InitEnd == Init => EndInv
  BY InitLock DEF Init, EndInv, Accounted, Held, Drained

LEMMA EndStep == EndInv /\ [Next]_vars => EndInv'
<1> SUFFICES ASSUME EndInv, [Next]_vars PROVE Accounted' /\ Drained'
  BY LockStep DEF EndInv
<1>t. /\ Types /\ (closed => task = "done") /\ (event # "none" => task = "done")
      /\ (child = "reaped" => waiter \notin {"poll", "reap"})
  BY DEF EndInv, LockInv, Types, LetGo, Reaped
<1>a. Accounted /\ Drained
  BY DEF EndInv
<1> USE <1>t, <1>a DEF Types, Accounted, Held, Drained, kernel, control, threads, owner
<1>1. CASE ChildWrites \/ ChildReads \/ ChildForks \/ ChildExits \/ DescendantExits
  BY <1>1 DEF ChildWrites, ChildReads, ChildForks, ChildExits, DescendantExits
<1>2. CASE ReadChunk
  BY <1>2 DEF ReadChunk
<1>3. CASE ReadEnd
  BY <1>3 DEF ReadEnd, HungUp
<1>4. CASE SendChunk
  BY <1>4 DEF SendChunk
<1>5. CASE WaitLock \/ Finish \/ WaiterCloses \/ SendTermination
  BY <1>5 DEF WaitLock, Finish, WaiterCloses, SendTermination
<1>6. CASE Reap
  BY <1>6 DEF Reap
<1>7. ASSUME NEW t \in Threads, Mark(t) \/ LockLifecycle(t) \/ Check(t) \/ CancelCloses(t)
      PROVE  Accounted' /\ Drained'
  BY <1>7 DEF Mark, LockLifecycle, Check, CancelCloses
<1>8. ASSUME NEW t \in Threads, Kill(t) PROVE Accounted' /\ Drained'
  BY <1>8 DEF Kill
<1>9. CASE NextEvent
  <2>1. ~closed /\ event = "none" /\ ended = "none"
    BY <1>9 DEF NextEvent
  <2>2. CASE queue > 0 /\ queue' = queue - 1 /\ event' = "output"
    BY <1>9, <2>1, <2>2 DEF NextEvent
  <2>3. CASE OutputOver /\ queue' = queue /\ event' \in {"exited", "cancelled"}
    BY <1>9, <2>1, <2>3 DEF NextEvent, OutputOver
  <2> QED
    BY <1>9, <2>2, <2>3 DEF NextEvent
<1>10. CASE HandleEvent
  <2>1. CASE event = "output"
    BY <1>10, <2>1 DEF HandleEvent
  <2>2. CASE event # "output"
    <3>1. event \in {"exited", "cancelled"} /\ task = "done" /\ UNCHANGED <<produced, delivered, task, child>>
      BY <1>10, <2>2 DEF HandleEvent
    <3>2. event' = "none" /\ UNCHANGED <<output, queue, reader>> /\ (closed => closed')
      BY <1>10, <2>2 DEF HandleEvent, Drop
    <3> QED
      BY <2>2, <3>1, <3>2
  <2> QED
    BY <2>1, <2>2
<1>11. CASE StartWrite \/ EndWrite \/ Stop
  BY <1>11 DEF StartWrite, EndWrite, Stop
<1>12. CASE Detach
  <2>1. /\ UNCHANGED <<produced, output, queue, delivered, reader, event, ended, task, child>>
        /\ closed => closed'
    BY <1>12 DEF Detach, Drop
  <2> QED
    BY <2>1
<1>13. CASE UNCHANGED vars
  BY <1>13 DEF vars
<1> HIDE DEF Types, Accounted, Held, Drained
<1> QED
  BY <1>1, <1>2, <1>3, <1>4, <1>5, <1>6, <1>7, <1>8, <1>9, <1>10, <1>11, <1>12, <1>13
     DEF Next, Reader, Waiter, Cancels, UserInterface, Threads

-----------------------------------------------------------------------------
\* No thread signals a PID that may belong to another process by now: the
\* lifecycle lock and the state read under it keep kill_process and waitpid
\* apart (runtime/local.rs, ProcessControl::cancel and try_wait_child).
THEOREM SignalsReachTheChild == Spec => []KillsOwn
<1>1. LockInv => KillsOwn
  BY DEF LockInv
<1> QED
  BY InitLock, LockStep, <1>1, PTL DEF Spec

\* A terminal that shows the end of its process has shown all its output
\* (runtime/local.rs, next_event and the waiter thread).
THEOREM EndIsLast == Spec => []EndComesLast
<1>1. EndInv => EndComesLast
  BY DEF EndInv, Drained, EndComesLast
<1> QED
  BY InitEnd, EndStep, <1>1, PTL DEF Spec

-----------------------------------------------------------------------------
(***************************************************************************)
(* CollisionWatch.                                                         *)
(***************************************************************************)

\* What the argument needs to know of the types: a report names what it is of,
\* a scan its directory and what it found.
Reports == [of : Directories \cup {Unset}, changed : [Watch!Sides -> SUBSET Paths], warnings : SUBSET Paths,
            critical : SUBSET Paths]
Signatures == [of : Directories, sides : [Watch!Sides -> [Paths -> {"unchanged", "edited", "committed"}]]]
Scans == [directory : Directories, busy : BOOLEAN, signature : Signatures \cup {Unset}, report : Reports]
Slots == [directory : Directories, at : {"started", "signed", "done", "failed"}, result : Signatures \cup {Unset},
          report : Reports \cup {Unset}, previous : Signatures \cup {Unset}]
WatchTypes ==
  /\ world \in [Directories -> [Watch!Sides -> [Paths -> {"unchanged", "edited", "committed"}]]]
  /\ watched \in Directories \cup {Unset}
  /\ scan \in Scans \cup {Unset}
  /\ inFlight \in [1..MaxScans -> Slots \cup {Unset}]

\* A scan reports on the directory it was started for.
ScansReport ==
  \A slot \in 1..MaxScans :
    inFlight[slot] # Unset /\ inFlight[slot].report # Unset => inFlight[slot].report.of = inFlight[slot].directory

WatchInv == WatchTypes /\ ScansReport /\ ReportOfDirectory

\* The state of the ticks: aligned with the directory, it keeps the invariant.
LEMMA Aligned ==
  ASSUME WatchInv
  PROVE  /\ Watch!AlignedScan \in Scans \cup {Unset}
         /\ Watch!AlignedScan # Unset =>
              /\ Watch!AlignedScan.directory = watched
              /\ Watch!AlignedScan.report.of \in {Unset, watched}
              /\ Watch!AlignedObservations # Unset => Watch!AlignedObservations.of = watched
<1>1. CASE watched = Unset
  BY <1>1 DEF Watch!AlignedScan
<1>2. CASE watched # Unset /\ scan # Unset /\ scan.directory = watched
  <2>1. Watch!AlignedScan = scan /\ Watch!AlignedObservations = observed
    BY <1>2 DEF Watch!AlignedScan, Watch!AlignedObservations
  <2> QED
    BY <1>2, <2>1 DEF WatchInv, WatchTypes, ReportOfDirectory, Watch!ReportOfDirectory
<1>3. CASE watched # Unset /\ ~(scan # Unset /\ scan.directory = watched)
  <2>1. Watch!AlignedScan = Watch!NewScan(watched) /\ Watch!AlignedObservations = Unset
    BY <1>3 DEF Watch!AlignedScan, Watch!AlignedObservations
  <2>2. watched \in Directories
    BY <1>3 DEF WatchInv, WatchTypes
  <2>3. Watch!NoReport \in Reports /\ Watch!NoReport.of = Unset
    BY DEF Watch!NoReport, Reports, Watch!Sides
  <2>4. Watch!NewScan(watched) \in Scans /\ Watch!NewScan(watched).directory = watched
        /\ Watch!NewScan(watched).report = Watch!NoReport
    BY <2>2, <2>3 DEF Watch!NewScan, Scans
  <2> QED
    BY <2>1, <2>3, <2>4
<1> QED
  BY <1>1, <1>2, <1>3

LEMMA ReportTyped ==
  ASSUME NEW sig \in Signatures
  PROVE  Watch!Report(sig) \in Reports /\ Watch!Report(sig).of = sig.of
<1>1. \A side \in Watch!Sides : Watch!Touched(sig.sides, side) \in SUBSET Paths
  BY DEF Watch!Touched
<1>2. PICK touched : touched = [s \in Watch!Sides |-> Watch!Touched(sig.sides, s)]
  OBVIOUS
<1>3. touched \in [Watch!Sides -> SUBSET Paths]
  BY <1>1, <1>2
<1>4. PICK both : both = Watch!Touched(sig.sides, "left") \cap Watch!Touched(sig.sides, "right")
  OBVIOUS
<1>5. PICK conflicting : conflicting = {p \in both : \A s \in Watch!Sides : sig.sides[s][p] = "committed"}
  OBVIOUS
<1>6. both \in SUBSET Paths /\ both \ conflicting \in SUBSET Paths /\ conflicting \in SUBSET Paths
  BY <1>1, <1>4, <1>5 DEF Watch!Sides
<1>7. Watch!Report(sig) = [of |-> sig.of, changed |-> touched, warnings |-> both \ conflicting, critical |-> conflicting]
  BY <1>2, <1>4, <1>5 DEF Watch!Report
<1>8. sig.of \in Directories
  BY DEF Signatures
<1> QED
  BY <1>3, <1>6, <1>7, <1>8 DEF Reports

\* A slot that is written keeps what is known of the others.
LEMMA SlotStep ==
  ASSUME WatchInv, NEW slot \in 1..MaxScans, NEW running \in Slots \cup {Unset},
         running # Unset /\ running.report # Unset => running.report.of = running.directory,
         inFlight' = [inFlight EXCEPT ![slot] = running]
  PROVE  inFlight' \in [1..MaxScans -> Slots \cup {Unset}] /\ ScansReport'
  BY DEF WatchInv, WatchTypes, ScansReport

LEMMA ScanStep ==
  ASSUME WatchInv, NEW forced \in BOOLEAN, Watch!Scan(forced)
  PROVE  WatchInv'
<1>0. PICK aligned : aligned = Watch!AlignedScan
  OBVIOUS
<1>1. /\ aligned \in Scans \cup {Unset}
      /\ aligned # Unset => aligned.directory = watched /\ aligned.report.of \in {Unset, watched}
      /\ aligned # Unset /\ observed' # Unset => observed'.of = watched
      /\ UNCHANGED <<world, watched>>
  BY <1>0, Aligned DEF Watch!Scan
<1>2. CASE scan' = aligned /\ UNCHANGED inFlight
  BY <1>1, <1>2 DEF WatchInv, WatchTypes, ScansReport, ReportOfDirectory, Watch!ReportOfDirectory
<1>3. ASSUME aligned # Unset, NEW slot \in 1..MaxScans, scan' = [aligned EXCEPT !.busy = TRUE],
             inFlight' = [inFlight EXCEPT ![slot] =
               [directory |-> watched, at |-> "started", result |-> Unset, report |-> Unset,
                previous |-> IF forced THEN Unset ELSE aligned.signature]]
      PROVE  WatchInv'
  <2>1. PICK running : running = [directory |-> watched, at |-> "started", result |-> Unset, report |-> Unset,
                                  previous |-> IF forced THEN Unset ELSE aligned.signature]
    OBVIOUS
  <2>2. aligned \in Scans /\ watched \in Directories
    BY <1>1, <1>3 DEF Scans
  <2>3. running \in Slots /\ running.report = Unset
    BY <2>1, <2>2 DEF Slots, Scans
  <2>4. inFlight' \in [1..MaxScans -> Slots \cup {Unset}] /\ ScansReport'
    BY <1>3, <2>1, <2>3, SlotStep
  <2>5. scan' \in Scans /\ scan'.directory = aligned.directory /\ scan'.report = aligned.report
    BY <1>3, <2>2 DEF Scans
  <2> QED
    BY <1>1, <1>3, <2>4, <2>5 DEF WatchInv, WatchTypes, ReportOfDirectory, Watch!ReportOfDirectory
<1> QED
  BY <1>0, <1>2, <1>3 DEF Watch!Scan

LEMMA SignStep ==
  ASSUME WatchInv, NEW slot \in 1..MaxScans, Watch!Sign(slot) \/ Watch!Inspect(slot) \/ Watch!Fail(slot)
  PROVE  WatchInv'
<1>1. PICK running : running = inFlight[slot]
  OBVIOUS
<1>2. running # Unset /\ running \in Slots /\ (running.report # Unset => running.report.of = running.directory)
  BY <1>1 DEF Watch!Sign, Watch!Inspect, Watch!Fail, WatchInv, WatchTypes, ScansReport
<1>3. Watch!Signature(running.directory) \in Signatures
      /\ Watch!Signature(running.directory).of = running.directory
  BY <1>2 DEF Watch!Signature, Signatures, Slots, WatchInv, WatchTypes
<1>4. \E next \in Slots : /\ inFlight' = [inFlight EXCEPT ![slot] = next]
                          /\ next.report # Unset => next.report.of = next.directory
  <2>1. CASE Watch!Sign(slot)
    <3>1. PICK next : next = [running EXCEPT !.result = Watch!Signature(running.directory), !.at = "signed"]
      OBVIOUS
    <3>2. next \in Slots /\ next.report = running.report /\ next.directory = running.directory
      BY <1>2, <1>3, <3>1 DEF Slots
    <3>3. inFlight' = [inFlight EXCEPT ![slot] = next]
      BY <1>1, <2>1, <3>1 DEF Watch!Sign, WatchInv, WatchTypes
    <3> QED
      BY <1>2, <3>2, <3>3
  <2>2. CASE Watch!Inspect(slot)
    <3>0. PICK report : report = IF running.result = running.previous THEN Unset
                                 ELSE Watch!Report(Watch!Signature(running.directory))
      OBVIOUS
    <3>1. PICK next : next = [running EXCEPT !.at = "done", !.previous = Unset, !.report = report]
      OBVIOUS
    <3>2. report \in Reports \cup {Unset} /\ (report # Unset => report.of = running.directory)
      BY <1>3, <3>0, ReportTyped
    <3>3. next \in Slots /\ next.report = report /\ next.directory = running.directory
      BY <1>2, <3>1, <3>2 DEF Slots
    <3>4. inFlight' = [inFlight EXCEPT ![slot] = next]
      BY <1>1, <2>2, <3>0, <3>1 DEF Watch!Inspect, WatchInv, WatchTypes
    <3> QED
      BY <3>2, <3>3, <3>4
  <2>3. CASE Watch!Fail(slot)
    <3>1. PICK next : next = [running EXCEPT !.at = "failed", !.previous = Unset, !.result = Unset]
      OBVIOUS
    <3>2. next \in Slots /\ next.report = running.report /\ next.directory = running.directory
      BY <1>2, <3>1 DEF Slots
    <3>3. inFlight' = [inFlight EXCEPT ![slot] = next]
      BY <1>1, <2>3, <3>1 DEF Watch!Fail, WatchInv, WatchTypes
    <3> QED
      BY <1>2, <3>2, <3>3
  <2> QED
    BY <2>1, <2>2, <2>3
<1>5. inFlight' \in [1..MaxScans -> Slots \cup {Unset}] /\ ScansReport'
  BY <1>4, SlotStep
<1>6. UNCHANGED <<world, watched, scan, observed>>
  BY DEF Watch!Sign, Watch!Inspect, Watch!Fail
<1> QED
  BY <1>5, <1>6 DEF WatchInv, WatchTypes, ReportOfDirectory, Watch!ReportOfDirectory

\* A result is used only for the directory it is of.
LEMMA CompletedStep ==
  ASSUME WatchInv, NEW slot \in 1..MaxScans, Watch!Completed(slot)
  PROVE  WatchInv'
<1>0. PICK aligned, running : aligned = Watch!AlignedScan /\ running = inFlight[slot]
  OBVIOUS
<1>1. /\ aligned \in Scans \cup {Unset}
      /\ aligned # Unset => aligned.directory = watched /\ aligned.report.of \in {Unset, watched}
      /\ aligned # Unset /\ Watch!AlignedObservations # Unset => Watch!AlignedObservations.of = watched
      /\ UNCHANGED <<world, watched>> /\ inFlight' = [inFlight EXCEPT ![slot] = Unset]
  BY <1>0, Aligned DEF Watch!Completed
<1>2. running \in Slots /\ (running.report # Unset => running.report.of = running.directory)
  BY <1>0 DEF Watch!Completed, WatchInv, WatchTypes, ScansReport
<1>3. inFlight' \in [1..MaxScans -> Slots \cup {Unset}] /\ ScansReport'
  BY <1>1, SlotStep
<1>4. CASE Watch!IsCurrent(aligned, running)
  <2>1. aligned # Unset /\ aligned \in Scans /\ aligned.directory = watched /\ running.directory = watched
    BY <1>1, <1>4 DEF Watch!IsCurrent
  <2>2. scan' = Watch!Accept(aligned, running)
    BY <1>0, <1>4 DEF Watch!Completed
  <2>3. Watch!Accept(aligned, running) \in Scans /\ Watch!Accept(aligned, running).directory = watched
        /\ Watch!Accept(aligned, running).report.of \in {Unset, watched}
    <3>1. CASE running.at = "failed"
      BY <1>1, <2>1, <3>1 DEF Watch!Accept, Scans
    <3>2. CASE running.at # "failed"
      <4>1. PICK report : report = IF running.report = Unset THEN aligned.report ELSE running.report
        OBVIOUS
      <4>2. report \in Reports /\ report.of \in {Unset, watched}
        BY <1>1, <1>2, <2>1, <4>1 DEF Scans, Slots
      <4>3. Watch!Accept(aligned, running) =
              [aligned EXCEPT !.busy = FALSE, !.signature = running.result, !.report = report]
        BY <3>2, <4>1 DEF Watch!Accept
      <4>4. running.result \in Signatures \cup {Unset}
        BY <1>2 DEF Slots
      <4> QED
        BY <2>1, <4>2, <4>3, <4>4 DEF Scans
    <3> QED
      BY <3>1, <3>2
  <2>4. observed' # Unset => observed'.of = watched
    BY <1>0, <1>1, <1>2, <1>4, <2>1 DEF Watch!Completed, Watch!Observations
  <2> QED
    BY <1>1, <1>3, <2>2, <2>3, <2>4 DEF WatchInv, WatchTypes, ReportOfDirectory, Watch!ReportOfDirectory
<1>5. CASE ~Watch!IsCurrent(aligned, running)
  <2>1. scan' = aligned /\ observed' = Watch!AlignedObservations
    BY <1>0, <1>5 DEF Watch!Completed
  <2> QED
    BY <1>1, <1>3, <2>1 DEF WatchInv, WatchTypes, ReportOfDirectory, Watch!ReportOfDirectory
<1> QED
  BY <1>4, <1>5

LEMMA ChangeStep ==
  ASSUME WatchInv, Watch!Change
  PROVE  WatchInv'
<1>1. PICK d \in Directories, s \in Watch!Sides, p \in Paths, v \in {"unchanged", "edited", "committed"} :
        world' = [world EXCEPT ![d][s][p] = v]
  BY DEF Watch!Change
<1>2. world' \in [Directories -> [Watch!Sides -> [Paths -> {"unchanged", "edited", "committed"}]]]
  BY <1>1 DEF WatchInv, WatchTypes
<1> QED
  BY <1>2 DEF Watch!Change, WatchInv, WatchTypes, ScansReport, ReportOfDirectory, Watch!ReportOfDirectory

LEMMA WatchStep ==
  ASSUME WatchInv, [WorkbenchNext]_allVars
  PROVE  WatchInv'
<1> USE DEF WatchInv, WatchTypes, ScansReport, ReportOfDirectory, Watch!ReportOfDirectory
<1>1. CASE UNCHANGED watchVars
  BY <1>1 DEF watchVars
<1>2. CASE Watch!SetDirectory
  BY <1>2 DEF Watch!SetDirectory
<1>3. CASE Watch!RemoveWorkspace
  BY <1>3 DEF Watch!RemoveWorkspace
<1>4. CASE Watch!CreateWorkspace
  BY <1>4 DEF Watch!CreateWorkspace
<1> HIDE DEF WatchInv
<1>5. CASE Watch!Next
  BY <1>2, <1>3, <1>4, <1>5, ChangeStep, ScanStep, SignStep, CompletedStep DEF Watch!Next
<1> QED
  BY <1>1, <1>5 DEF WorkbenchNext, allVars

LEMMA WatchInit == WorkbenchInit => WatchInv
  BY DEF WorkbenchInit, Watch!Init, WatchInv, WatchTypes, ScansReport, ReportOfDirectory, Watch!ReportOfDirectory

\* The collision report and what the supervisor was told are about the directory
\* they are shown for: however long a scan takes and wherever the workspace has
\* moved meanwhile, scan_is_current lets only a result for the present directory
\* in (app/floors/status.rs).
THEOREM ReportsAreOfDirectory == WorkbenchSpec => []ReportOfDirectory
<1>1. WatchInv => ReportOfDirectory
  BY DEF WatchInv
<1> QED
  BY <1>1, WatchInit, WatchStep, PTL DEF WorkbenchSpec

-----------------------------------------------------------------------------
(***************************************************************************)
(* Floors.                                                                 *)
(***************************************************************************)

AllBranches == Branches \cup NewBranches \cup {"none"}
Checkout == [branch : AllBranches, token : Nat, dirty : BOOLEAN]
IsSequence(s) == \E S : s \in Seq(S)

\* What an operation on the worker goes through; the checks of a removal.
Checking == {"owned", "read", "clean", "merged"}
Working == {"queued", "added"} \cup Checking

\* Tokens are written once.
TokensOwn ==
  /\ tokens \in Nat /\ checkouts \in [Paths -> Checkout]
  /\ \A p \in Paths : checkouts[p].token <= tokens
  /\ \A p, q \in Paths : checkouts[p].token = checkouts[q].token /\ checkouts[p].token # F!NoToken => p = q

\* What the worker holds.
JobSound ==
  /\ job.phase \in {"idle", "done"} \cup Working
  /\ job.phase \in {"done"} \cup Working =>
       {"phase", "op", "entries", "active", "ok", "result", "selected", "revision", "since"} \subseteq DOMAIN job
  /\ job.phase \in Working => job.op \in F!Ops
  /\ job.phase = "added" => job.op.kind = "create"
  /\ job.phase \in Checking => job.op.kind = "remove"

\* Floors are numbered: the selected one is none of "no floor".
Numbered ==
  /\ IsSequence(entries) /\ active \in Nat
  /\ job.phase \in Working => IsSequence(job.entries) /\ job.active \in Nat
  /\ job.phase = "done" /\ job.ok => IsSequence(job.result) /\ job.selected \in Nat

\* A terminal belongs to a card, and none starts on a floor to be removed.
TerminalsSound ==
  /\ nodeFloors \in [Nodes -> Nat \cup {F!NoFloor}] /\ terminals \subseteq Nodes
  /\ \A n \in terminals : nodeFloors[n] # F!NoFloor
  /\ job.phase \in Working /\ job.op.kind = "remove" => F!Quiet(job.op.floor)

CoreInv == TokensOwn /\ JobSound /\ Numbered /\ TerminalsSound

-----------------------------------------------------------------------------
LEMMA OpFields ==
  ASSUME NEW op \in F!Ops
  PROVE  /\ op.kind \in {"refresh", "create", "remove"}
         /\ op.kind = "create" => op.path \in Paths /\ op.branch \in NewBranches
         /\ op.kind = "remove" => op.floor \in 1..MaxFloors
  BY DEF F!Ops

LEMMA Sequences ==
  ASSUME NEW s, IsSequence(s)
  PROVE  /\ Len(s) \in Nat /\ DOMAIN s = 1..Len(s)
         /\ \A e : IsSequence(Append(s, e))
         /\ \A t : IsSequence(t) => IsSequence(s \o t)
<1>1. PICK S : s \in Seq(S)
  BY DEF IsSequence
<1>2. ASSUME NEW e PROVE IsSequence(Append(s, e))
  <2>1. PICK T : T = S \cup {e}
    OBVIOUS
  <2>2. s \in Seq(T) /\ e \in T
    BY <1>1, <2>1, SeqMonotonic
  <2>3. Append(s, e) \in Seq(T)
    BY <2>2, AppendProperties
  <2> QED
    BY <2>3 DEF IsSequence
<1>3. ASSUME NEW t, IsSequence(t) PROVE IsSequence(s \o t)
  <2>1. PICK T : t \in Seq(T)
    BY <1>3 DEF IsSequence
  <2>2. PICK U : U = S \cup T
    OBVIOUS
  <2>3. s \in Seq(U) /\ t \in Seq(U)
    BY <1>1, <2>1, <2>2, SeqMonotonic
  <2>4. s \o t \in Seq(U)
    BY <2>3, ConcatProperties
  <2> QED
    BY <2>4 DEF IsSequence
<1> QED
  BY <1>1, <1>2, <1>3

LEMMA Mapped ==
  ASSUME NEW n \in Nat, NEW f, f = [i \in 1..n |-> f[i]]
  PROVE  IsSequence(f)
<1>1. PICK S : S = {f[i] : i \in 1..n}
  OBVIOUS
<1>2. f \in [1..n -> S]
  BY <1>1
<1> QED
  BY <1>2 DEF IsSequence

-----------------------------------------------------------------------------
(* Steps that change a checkout *)

\* A checkout that is replaced keeps its token, or has no token.
LEMMA Replaced ==
  ASSUME TokensOwn, NEW p \in Paths, NEW e \in Checkout,
         e.token # F!NoToken => e.token = checkouts[p].token,
         checkouts' = [checkouts EXCEPT ![p] = e], tokens' = tokens
  PROVE  TokensOwn'
<1>1. checkouts' \in [Paths -> Checkout] /\ checkouts'[p] = e
      /\ \A q \in Paths : q # p => checkouts'[q] = checkouts[q]
  BY DEF TokensOwn
<1>2. \A q \in Paths : checkouts'[q].token = F!NoToken \/ checkouts'[q].token = checkouts[q].token
  BY <1>1
<1>3. \A q \in Paths : checkouts'[q].token <= tokens
  BY <1>2 DEF TokensOwn, F!NoToken
<1> QED
  BY <1>1, <1>2, <1>3 DEF TokensOwn

\* A failed operation changes nothing that is recorded.
LEMMA FailedStep ==
  ASSUME CoreInv, job.phase \in Working, job' = F!Failed,
         UNCHANGED <<checkouts, tokens, entries, active, nodeFloors, terminals>>
  PROVE  CoreInv'
<1>1. job'.phase = "done" /\ ~job'.ok /\ DOMAIN job' = DOMAIN job
  BY DEF F!Failed, CoreInv, JobSound
<1> QED
  BY <1>1 DEF CoreInv, TokensOwn, JobSound, Numbered, TerminalsSound, Working, Checking

LEMMA AbsentCheckout == F!Absent \in Checkout /\ F!Absent.token = F!NoToken
  BY DEF F!Absent, Checkout, AllBranches, F!NoToken

LEMMA AddWorktreeStep ==
  ASSUME CoreInv, F!AddWorktree
  PROVE  CoreInv'
<1>1. PICK op : op = job.op
  OBVIOUS
<1>2. job.phase = "queued" /\ op.kind = "create" /\ op \in F!Ops /\ op.path \in Paths /\ op.branch \in NewBranches
  BY <1>1, OpFields DEF F!AddWorktree, CoreInv, JobSound, Working
<1>3. entries' = entries /\ active' = active /\ nodeFloors' = nodeFloors /\ terminals' = terminals /\ tokens' = tokens
  BY DEF F!AddWorktree, F!floors, F!counters
<1>4. PICK made : made = [checkouts[op.path] EXCEPT !.branch = op.branch]
  OBVIOUS
<1>5. made \in Checkout /\ made.token = checkouts[op.path].token
  BY <1>2, <1>4 DEF Checkout, AllBranches, CoreInv, TokensOwn
<1>6. CASE checkouts' = [checkouts EXCEPT ![op.path] = made] /\ job' = [job EXCEPT !.phase = "added"]
  <2>1. TokensOwn'
    BY <1>2, <1>3, <1>5, <1>6, Replaced DEF CoreInv
  <2>2. job'.phase = "added" /\ job'.op = op /\ job'.entries = job.entries /\ job'.active = job.active
        /\ DOMAIN job' = DOMAIN job
    BY <1>1, <1>2, <1>6 DEF CoreInv, JobSound, Working
  <2>3. JobSound'
    BY <1>2, <2>2 DEF CoreInv, JobSound, Working, Checking
  <2>4. Numbered' /\ TerminalsSound'
    BY <1>2, <1>3, <2>2 DEF CoreInv, Numbered, TerminalsSound, Working, Checking
  <2> QED
    BY <2>1, <2>3, <2>4 DEF CoreInv
<1>7. CASE job' = F!Failed /\ checkouts' = checkouts
  BY <1>2, <1>3, <1>7, FailedStep DEF Working
<1>8. checkouts' = [checkouts EXCEPT ![op.path].branch = op.branch] => checkouts' = [checkouts EXCEPT ![op.path] = made]
  BY <1>4
<1> QED
  BY <1>1, <1>6, <1>7, <1>8 DEF F!AddWorktree

\* Claiming writes a token no checkout has.
LEMMA ClaimStep ==
  ASSUME CoreInv, F!Claim
  PROVE  CoreInv'
<1>1. PICK op : op = job.op
  OBVIOUS
<1>2. job.phase = "added" /\ op.kind = "create" /\ op \in F!Ops /\ op.path \in Paths
  BY <1>1, OpFields DEF F!Claim, CoreInv, JobSound, Working
<1>3. entries' = entries /\ active' = active /\ nodeFloors' = nodeFloors /\ terminals' = terminals
  BY DEF F!Claim, F!floors
<1>4. PICK floor : floor = [path |-> op.path, branch |-> op.branch, managed |-> TRUE, token |-> tokens + 1, life |-> "available"]
  OBVIOUS
<1>5. CASE /\ tokens' = tokens + 1 /\ checkouts' = [checkouts EXCEPT ![op.path].token = tokens + 1]
           /\ job' = F!Done(Append(job.entries, floor), Len(job.entries) + 1)
  <2>1. PICK e : e = [checkouts[op.path] EXCEPT !.token = tokens + 1]
    OBVIOUS
  <2>2. checkouts \in [Paths -> Checkout] /\ tokens \in Nat
    BY DEF CoreInv, TokensOwn
  <2>3. e \in Checkout /\ e.token = tokens + 1
    BY <1>2, <2>1, <2>2 DEF Checkout
  <2>4. checkouts' = [checkouts EXCEPT ![op.path] = e]
    BY <1>5, <2>1
  <2>5. checkouts' \in [Paths -> Checkout] /\ checkouts'[op.path] = e
        /\ \A q \in Paths : q # op.path => checkouts'[q] = checkouts[q]
    BY <1>2, <2>2, <2>3, <2>4
  <2>6. \A q \in Paths : checkouts[q].token \in Nat /\ checkouts[q].token <= tokens
    BY <2>2 DEF CoreInv, TokensOwn, Checkout
  <2>7. \A q \in Paths : checkouts'[q].token <= tokens + 1 /\ (checkouts'[q].token = tokens + 1 => q = op.path)
    BY <2>2, <2>3, <2>5, <2>6
  <2>8. \A p, q \in Paths : checkouts'[p].token = checkouts'[q].token /\ checkouts'[p].token # F!NoToken => p = q
    BY <2>3, <2>5, <2>7 DEF CoreInv, TokensOwn
  <2>10. TokensOwn'
    BY <1>5, <2>2, <2>5, <2>7, <2>8 DEF TokensOwn
  <2>11. job'.phase = "done" /\ job'.result = Append(job.entries, floor) /\ job'.selected = Len(job.entries) + 1
         /\ DOMAIN job' = DOMAIN job
    BY <1>2, <1>5 DEF F!Done, CoreInv, JobSound, Working
  <2>12. IsSequence(job'.result) /\ job'.selected \in Nat
    BY <1>2, <2>11, Sequences DEF CoreInv, Numbered, Working
  <2> QED
    BY <1>2, <1>3, <2>10, <2>11, <2>12 DEF CoreInv, JobSound, Numbered, TerminalsSound, Working, Checking
<1>6. CASE job' = F!Failed /\ checkouts' = checkouts /\ tokens' = tokens
  BY <1>2, <1>3, <1>6, FailedStep DEF Working
<1> QED
  BY <1>1, <1>4, <1>5, <1>6 DEF F!Claim

\* The result of a removal has the floors of its copy.
LEMMA RemoveWorktreeStep ==
  ASSUME CoreInv, F!RemoveWorktree
  PROVE  CoreInv'
<1>1. PICK i : i = job.op.floor
  OBVIOUS
<1>2. PICK p : p = job.entries[i].path
  OBVIOUS
<1>3. job.phase = "merged"
  BY DEF F!RemoveWorktree
<1>4. /\ entries' = entries /\ active' = active /\ nodeFloors' = nodeFloors /\ terminals' = terminals
      /\ tokens' = tokens
  BY DEF F!RemoveWorktree, F!floors, F!counters
<1>5. CASE /\ checkouts' = [checkouts EXCEPT ![p] = F!Absent]
           /\ job' = F!Done([job.entries EXCEPT ![i].life = "removed"], IF job.active = i THEN F!Main ELSE job.active)
  <2>1. TokensOwn'
    <3>1. CASE p \in Paths
      BY <1>4, <1>5, <3>1, AbsentCheckout, Replaced DEF CoreInv
    <3>2. CASE p \notin Paths
      <4>1. checkouts' = checkouts
        BY <1>5, <3>2 DEF CoreInv, TokensOwn
      <4> QED
        BY <1>4, <4>1 DEF CoreInv, TokensOwn
    <3> QED
      BY <3>1, <3>2
  <2>2. PICK result : result = [job.entries EXCEPT ![i].life = "removed"]
    OBVIOUS
  <2>3. IsSequence(result)
    <3>1. Len(job.entries) \in Nat /\ DOMAIN job.entries = 1..Len(job.entries) /\ IsSequence(job.entries)
      BY <1>3, Sequences DEF CoreInv, Numbered, Working, Checking
    <3>2. PICK S : job.entries \in Seq(S)
      BY <3>1 DEF IsSequence
    <3>3. PICK e : e = [job.entries[i] EXCEPT !.life = "removed"]
      OBVIOUS
    <3>4. result = [job.entries EXCEPT ![i] = e]
      BY <2>2, <3>3
    <3>5. PICK T : T = S \cup {e}
      OBVIOUS
    <3>6. job.entries \in Seq(T) /\ e \in T
      BY <3>2, <3>5, SeqMonotonic
    <3>7. CASE i \in DOMAIN job.entries
      <4>1. result \in Seq(T)
        BY <3>1, <3>4, <3>6, <3>7, ExceptSeq
      <4> QED
        BY <4>1 DEF IsSequence
    <3>8. CASE i \notin DOMAIN job.entries
      <4>1. result = job.entries
        BY <3>1, <3>4, <3>6, <3>8
      <4> QED
        BY <3>1, <4>1
    <3> QED
      BY <3>7, <3>8
  <2>4. job'.phase = "done" /\ job'.result = result /\ job'.selected \in {F!Main, job.active} /\ DOMAIN job' = DOMAIN job
    BY <1>3, <1>5, <2>2 DEF F!Done, CoreInv, JobSound, Working, Checking
  <2>5. job'.selected \in Nat
    BY <1>3, <2>4 DEF CoreInv, Numbered, F!Main, Working, Checking
  <2> QED
    BY <1>3, <1>4, <2>1, <2>3, <2>4, <2>5 DEF CoreInv, JobSound, Numbered, TerminalsSound, Working, Checking
<1>6. CASE job' = F!Failed /\ checkouts' = checkouts
  BY <1>3, <1>4, <1>6, FailedStep DEF Working, Checking
<1> QED
  BY <1>1, <1>2, <1>5, <1>6 DEF F!RemoveWorktree, F!Removing

\* A check of a removal goes on or fails; it changes nothing else.
LEMMA CheckSteps ==
  ASSUME CoreInv, F!CheckOwned \/ F!ReadRevision \/ F!CheckClean \/ F!CheckMerged
  PROVE  CoreInv'
<1>1. /\ job.phase \in Working /\ job.op.kind = "remove"
      /\ UNCHANGED <<checkouts, tokens, entries, active, nodeFloors, terminals>>
  BY DEF F!CheckOwned, F!ReadRevision, F!CheckClean, F!CheckMerged, F!Check, F!git, F!floors, F!counters, Working, Checking
<1>2. CASE job' = F!Failed
  BY <1>1, <1>2, FailedStep
<1>3. CASE job' # F!Failed
  <2>1. /\ job'.phase \in Checking /\ job'.op = job.op /\ job'.entries = job.entries /\ job'.active = job.active
        /\ DOMAIN job' = DOMAIN job
    BY <1>1, <1>3 DEF F!CheckOwned, F!ReadRevision, F!CheckClean, F!CheckMerged, F!Check, CoreInv, JobSound, Working, Checking
  <2> QED
    BY <1>1, <2>1 DEF CoreInv, TokensOwn, JobSound, Numbered, TerminalsSound, F!Quiet, Working, Checking
<1> QED
  BY <1>2, <1>3

\* A refresh keeps every recorded floor and appends what Git has besides.
LEMMA RefreshedIsSequence ==
  ASSUME IsFiniteSet(Paths), NEW fs, IsSequence(fs)
  PROVE  IsSequence(F!Refreshed(fs))
<1>1. PICK found : found = {p \in Paths : F!Present(p) /\ ~F!Recorded(fs, p)}
  OBVIOUS
<1>2. Cardinality(found) \in Nat
  BY <1>1, FS_Subset, FS_CardinalityType
<1>3. Len(fs) \in Nat /\ DOMAIN fs = 1..Len(fs)
  BY Sequences
<1>c. F!Cardinality(found) = Cardinality(found)
  BY Zenon DEF F!Cardinality, Cardinality
<1> DEFINE Matches(p) == {i \in DOMAIN fs : fs[i].path = p /\ fs[i].life # "removed"}
           First(p) == CHOOSE i \in Matches(p) : \A j \in Matches(p) : i <= j
           Kept(i) ==
             IF fs[i].life = "removed" THEN fs[i]
             ELSE IF F!Present(fs[i].path) /\ First(fs[i].path) = i
             THEN [fs[i] EXCEPT !.life = "available", !.branch = checkouts[fs[i].path].branch,
                                !.managed = @ /\ F!Owns(fs[i]), !.token = IF F!Owns(fs[i]) THEN @ ELSE F!NoToken]
             ELSE [fs[i] EXCEPT !.life = "missing"]
           Found(k) == [path |-> F!SetToSeq(found)[k], branch |-> checkouts[F!SetToSeq(found)[k]].branch,
                        managed |-> FALSE, token |-> F!NoToken, life |-> "available"]
           kept == [i \in DOMAIN fs |-> Kept(i)]
           new == [k \in 1..F!Cardinality(found) |-> Found(k)]
<1>4. F!Refreshed(fs) = kept \o new
  BY <1>1, Zenon DEF F!Refreshed
<1> HIDE DEF Matches, First, Kept, Found
<1>5. kept = [i \in 1..Len(fs) |-> kept[i]] /\ new = [k \in 1..F!Cardinality(found) |-> new[k]]
  BY <1>3
<1> HIDE DEF kept, new
<1>6. IsSequence(kept) /\ IsSequence(new)
  BY <1>2, <1>3, <1>5, <1>c, Mapped
<1> QED
  BY <1>4, <1>6, Sequences

LEMMA RunRefreshStep ==
  ASSUME IsFiniteSet(Paths), CoreInv, F!RunRefresh
  PROVE  CoreInv'
<1>1. job.phase = "queued"
  BY DEF F!RunRefresh
<1>2. /\ entries' = entries /\ active' = active /\ nodeFloors' = nodeFloors /\ terminals' = terminals
      /\ tokens' = tokens /\ checkouts' = checkouts
  BY DEF F!RunRefresh, F!floors, F!counters, F!git
<1>3. CASE job' = F!Done(F!Refreshed(job.entries), job.active)
  <2>1. job'.phase = "done" /\ job'.result = F!Refreshed(job.entries) /\ job'.selected = job.active
        /\ DOMAIN job' = DOMAIN job
    BY <1>1, <1>3 DEF F!Done, CoreInv, JobSound, Working
  <2>2. IsSequence(job'.result) /\ job'.selected \in Nat
    BY <1>1, <2>1, RefreshedIsSequence DEF CoreInv, Numbered, Working
  <2> QED
    BY <1>1, <1>2, <2>1, <2>2 DEF CoreInv, TokensOwn, JobSound, Numbered, TerminalsSound, Working, Checking
<1>4. CASE job' = F!Failed
  BY <1>1, <1>2, <1>4, FailedStep DEF Working
<1> QED
  BY <1>3, <1>4 DEF F!RunRefresh

\* Work of the user leaves tokens alone, or takes them away.
LEMMA UserWorksStep ==
  ASSUME CoreInv, NEW p \in Paths, F!UserWorks(p)
  PROVE  CoreInv'
<1>1. /\ tokens' = tokens /\ job' = job /\ entries' = entries /\ active' = active
      /\ nodeFloors' = nodeFloors /\ terminals' = terminals
  BY DEF F!UserWorks, F!floors, F!ui
<1>2. checkouts \in [Paths -> Checkout]
  BY DEF CoreInv, TokensOwn
<1>3. \E e \in Checkout : /\ checkouts' = [checkouts EXCEPT ![p] = e]
                          /\ e.token # F!NoToken => e.token = checkouts[p].token
  <2>1. CASE checkouts' = [checkouts EXCEPT ![p] = F!Absent]
    BY <2>1, AbsentCheckout
  <2>2. ASSUME NEW d \in BOOLEAN, checkouts' = [checkouts EXCEPT ![p].dirty = d]
        PROVE  \E e \in Checkout : /\ checkouts' = [checkouts EXCEPT ![p] = e]
                                   /\ e.token # F!NoToken => e.token = checkouts[p].token
    <3>1. PICK e : e = [checkouts[p] EXCEPT !.dirty = d]
      OBVIOUS
    <3>2. e \in Checkout /\ e.token = checkouts[p].token
      BY <1>2, <2>2, <3>1 DEF Checkout
    <3>3. checkouts' = [checkouts EXCEPT ![p] = e]
      BY <2>2, <3>1
    <3> QED
      BY <3>2, <3>3
  <2>3. checkouts[p].dirty \in BOOLEAN
    BY <1>2 DEF Checkout
  <2>4. \/ checkouts' = [checkouts EXCEPT ![p] = F!Absent]
        \/ checkouts' = [checkouts EXCEPT ![p].dirty = FALSE]
        \/ checkouts' = [checkouts EXCEPT ![p].dirty = ~checkouts[p].dirty]
    BY DEF F!UserWorks
  <2> QED
    BY <2>1, <2>2, <2>3, <2>4
<1>4. TokensOwn'
  BY <1>1, <1>3, Replaced DEF CoreInv
<1> QED
  BY <1>1, <1>4 DEF CoreInv, JobSound, Numbered, TerminalsSound, F!Quiet

LEMMA UserTakesStep ==
  ASSUME CoreInv, NEW p \in Paths, NEW b \in Branches, F!UserTakes(p, b)
  PROVE  CoreInv'
<1>1. /\ tokens' = tokens /\ job' = job /\ entries' = entries /\ active' = active
      /\ nodeFloors' = nodeFloors /\ terminals' = terminals
  BY DEF F!UserTakes, F!floors, F!ui
<1>2. PICK e : e = [checkouts[p] EXCEPT !.branch = b]
  OBVIOUS
<1>3. e \in Checkout /\ e.token = checkouts[p].token
  BY <1>2 DEF Checkout, AllBranches, CoreInv, TokensOwn
<1>4. checkouts' = [checkouts EXCEPT ![p] = e]
  BY <1>2 DEF F!UserTakes
<1>5. TokensOwn'
  BY <1>1, <1>3, <1>4, Replaced DEF CoreInv
<1> QED
  BY <1>1, <1>5 DEF CoreInv, JobSound, Numbered, TerminalsSound, F!Quiet

-----------------------------------------------------------------------------
(* The main thread *)

LEMMA SubmitStep ==
  ASSUME CoreInv, NEW op \in F!Ops, F!Submit(op)
  PROVE  CoreInv'
<1>1. /\ job = F!Idle
      /\ op.kind = "remove" => F!Quiet(op.floor)
      /\ tokens' = tokens /\ checkouts' = checkouts /\ entries' = entries /\ active' = active
      /\ nodeFloors' = nodeFloors /\ terminals' = terminals
  BY DEF F!Submit, F!git, F!floors, F!counters
<1>2. /\ job'.phase = "queued" /\ job'.op = op /\ job'.entries = entries /\ job'.active = active
      /\ {"phase", "op", "entries", "active", "ok", "result", "selected", "revision", "since"} \subseteq DOMAIN job'
  BY DEF F!Submit
<1> QED
  BY <1>1, <1>2 DEF CoreInv, TokensOwn, JobSound, Numbered, TerminalsSound, F!Quiet, Working, Checking

LEMMA CompleteStep ==
  ASSUME CoreInv, F!Complete
  PROVE  CoreInv'
<1>1. /\ job.phase = "done" /\ job' = F!Idle /\ tokens' = tokens /\ checkouts' = checkouts
      /\ nodeFloors' = nodeFloors /\ terminals' = terminals
      /\ \/ job.ok /\ entries' = job.result /\ active' \in {active, job.selected}
         \/ entries' = entries /\ active' = active
  BY DEF F!Complete, F!NoLongerBusy, F!NodesOfNow, F!git, F!counters
<1>2. Numbered'
  BY <1>1 DEF CoreInv, Numbered, F!Idle, Working, Checking
<1> QED
  BY <1>1, <1>2 DEF CoreInv, TokensOwn, JobSound, TerminalsSound, F!Idle, Working, Checking

LEMMA SwitchFloorStep ==
  ASSUME CoreInv, NEW f \in 0..MaxFloors, F!SwitchFloor(f)
  PROVE  CoreInv'
<1>1. /\ job' = job /\ tokens' = tokens /\ checkouts' = checkouts /\ entries' = entries /\ active' \in Nat
      /\ nodeFloors' = nodeFloors /\ terminals' = terminals
  BY DEF F!SwitchFloor, F!git, F!ui
<1> QED
  BY <1>1 DEF CoreInv, TokensOwn, JobSound, Numbered, TerminalsSound, F!Quiet

\* A card that is added has no terminal, one that is removed loses it.
LEMMA AddNodeStep ==
  ASSUME CoreInv, NEW n \in Nodes, F!AddNode(n)
  PROVE  CoreInv'
<1>1. /\ nodeFloors[n] = F!NoFloor /\ nodeFloors' = [nodeFloors EXCEPT ![n] = active]
      /\ job' = job /\ tokens' = tokens /\ checkouts' = checkouts /\ entries' = entries /\ active' = active
      /\ terminals' = terminals
  BY DEF F!AddNode, F!git, F!ui
<1>2. nodeFloors' \in [Nodes -> Nat \cup {F!NoFloor}] /\ n \notin terminals
      /\ \A k \in Nodes : k # n => nodeFloors'[k] = nodeFloors[k]
  BY <1>1 DEF CoreInv, Numbered, TerminalsSound
<1>3. \A k \in terminals : nodeFloors'[k] = nodeFloors[k]
  BY <1>2 DEF CoreInv, TerminalsSound
<1> QED
  BY <1>1, <1>2, <1>3 DEF CoreInv, TokensOwn, JobSound, Numbered, TerminalsSound, F!Quiet

LEMMA RemoveNodeStep ==
  ASSUME CoreInv, NEW n \in Nodes, F!RemoveNode(n)
  PROVE  CoreInv'
<1>1. /\ nodeFloors' = [nodeFloors EXCEPT ![n] = F!NoFloor] /\ terminals' = terminals \ {n}
      /\ job' = job /\ tokens' = tokens /\ checkouts' = checkouts /\ entries' = entries /\ active' = active
  BY DEF F!RemoveNode, F!git
<1>2. nodeFloors' \in [Nodes -> Nat \cup {F!NoFloor}] /\ \A k \in Nodes : k # n => nodeFloors'[k] = nodeFloors[k]
  BY <1>1 DEF CoreInv, TerminalsSound
<1>3. terminals' \subseteq terminals /\ \A k \in terminals' : nodeFloors'[k] = nodeFloors[k]
  BY <1>1, <1>2 DEF CoreInv, TerminalsSound
<1> QED
  BY <1>1, <1>2, <1>3 DEF CoreInv, TokensOwn, JobSound, Numbered, TerminalsSound, F!Quiet

LEMMA StartTerminalStep ==
  ASSUME CoreInv, NEW n \in Nodes, F!StartTerminal(n)
  PROVE  CoreInv'
<1>1. /\ job = F!Idle /\ nodeFloors[n] = active /\ terminals' = terminals \cup {n}
      /\ job' = job /\ tokens' = tokens /\ checkouts' = checkouts /\ entries' = entries /\ active' = active
      /\ nodeFloors' = nodeFloors
  BY DEF F!StartTerminal, F!NotBusy, F!git, F!floors, F!counters
<1>2. active # F!NoFloor
  BY DEF CoreInv, Numbered, F!NoFloor
<1> QED
  BY <1>1, <1>2 DEF CoreInv, TokensOwn, JobSound, Numbered, TerminalsSound, F!Idle, Working, Checking

LEMMA StopTerminalStep ==
  ASSUME CoreInv, NEW n \in Nodes, F!StopTerminal(n)
  PROVE  CoreInv'
<1>1. /\ terminals' = terminals \ {n}
      /\ job' = job /\ tokens' = tokens /\ checkouts' = checkouts /\ entries' = entries /\ active' = active
      /\ nodeFloors' = nodeFloors
  BY DEF F!StopTerminal, F!git, F!floors, F!counters
<1> QED
  BY <1>1 DEF CoreInv, TokensOwn, JobSound, Numbered, TerminalsSound, F!Quiet

LEMMA RestartStep ==
  ASSUME CoreInv, F!Restart
  PROVE  CoreInv'
<1>1. /\ terminals' = {} /\ job' = F!Idle /\ tokens' = tokens /\ checkouts' = checkouts /\ entries' = entries
      /\ active' = active /\ nodeFloors' = nodeFloors
  BY DEF F!Restart, F!git, F!floors
<1> QED
  BY <1>1 DEF CoreInv, TokensOwn, JobSound, Numbered, TerminalsSound, F!Idle, Working, Checking

\* Previews, directories and other workspaces concern none of this.
LEMMA OtherSteps ==
  ASSUME CoreInv, UNCHANGED <<checkouts, tokens, job, entries, active, nodeFloors, terminals>>
  PROVE  CoreInv'
  BY DEF CoreInv, TokensOwn, JobSound, Numbered, TerminalsSound, F!Quiet

-----------------------------------------------------------------------------
LEMMA CoreInit == F!Init => CoreInv
<1> SUFFICES ASSUME F!Init PROVE CoreInv
  OBVIOUS
<1>1. TokensOwn
  BY AbsentCheckout DEF F!Init, TokensOwn, F!NoToken
<1>2. IsSequence(<<>>)
  <2>1. <<>> \in Seq({})
    OBVIOUS
  <2> QED
    BY <2>1 DEF IsSequence
<1> QED
  BY <1>1, <1>2 DEF F!Init, CoreInv, JobSound, Numbered, TerminalsSound, F!Idle, F!Main, Working, Checking

LEMMA CoreStep ==
  ASSUME IsFiniteSet(Paths), CoreInv, [F!Next]_F!vars
  PROVE  CoreInv'
<1>1. CASE F!FloorWorker
  BY <1>1, RunRefreshStep, AddWorktreeStep, ClaimStep, CheckSteps, RemoveWorktreeStep DEF F!FloorWorker, F!Removal
<1>2. CASE F!MergeWorker
  BY <1>2, OtherSteps DEF F!MergeWorker, F!VerifyPreview, F!Merge, F!Integrated, F!git, F!floors, F!counters
<1>3. CASE F!Complete
  BY <1>3, CompleteStep
<1>4. ASSUME NEW op \in F!Ops, F!Submit(op) PROVE CoreInv'
  BY <1>4, SubmitStep
<1>5. ASSUME NEW f \in 0..MaxFloors, F!SwitchFloor(f) PROVE CoreInv'
  BY <1>5, SwitchFloorStep
<1>6. ASSUME NEW n \in Nodes, F!AddNode(n) \/ F!RemoveNode(n) \/ F!StartTerminal(n) \/ F!StopTerminal(n) PROVE CoreInv'
  BY <1>6, AddNodeStep, RemoveNodeStep, StartTerminalStep, StopTerminalStep
<1>7. ASSUME NEW p \in Paths, F!UserWorks(p) PROVE CoreInv'
  BY <1>7, UserWorksStep
<1>8. ASSUME NEW p \in Paths, NEW b \in Branches, F!UserTakes(p, b) PROVE CoreInv'
  BY <1>8, UserTakesStep
<1>9. ASSUME NEW f \in 0..MaxFloors, F!Preview(f) PROVE CoreInv'
  BY <1>9, OtherSteps DEF F!Preview, F!git, F!floors
<1>10. CASE F!ChooseMerge
  BY <1>10, OtherSteps DEF F!ChooseMerge, F!git, F!floors, F!counters
<1>11. CASE F!ChangeDirectory
  BY <1>11, OtherSteps DEF F!ChangeDirectory, F!git, F!ui
<1>12. CASE F!WorkspaceChanged
  BY <1>12, OtherSteps DEF F!WorkspaceChanged, F!git, F!floors
<1>13. CASE F!Restart
  BY <1>13, RestartStep
<1>14. ASSUME NEW b \in Branches \cup {F!Original}, F!UserIntegrates(b) PROVE CoreInv'
  BY <1>14, OtherSteps DEF F!UserIntegrates, F!floors, F!ui
<1>15. CASE UNCHANGED F!vars
  BY <1>15, OtherSteps DEF F!vars, F!git, F!floors, F!ui, F!counters
<1> QED
  BY <1>1, <1>2, <1>3, <1>4, <1>5, <1>6, <1>7, <1>8, <1>9, <1>10, <1>11, <1>12, <1>13, <1>14, <1>15 DEF F!Next

-----------------------------------------------------------------------------
(* What was read in Git, and what the user may have done since *)

GitTyped ==
  /\ changes \in Nat /\ branches \in [Branches -> Int] /\ head \in [Branches \cup {F!Original} -> Nat]
  /\ \A p \in Paths : F!Present(p) => checkouts[p].branch \in Branches

\* While a removal goes through its checks no other checkout has the floor's
\* token, and what it has found out holds unless the user worked in Git since.
RemovalSound ==
  job.phase \in Checking =>
    /\ job.since \in Nat /\ job.since <= changes
    /\ F!Removing.token # F!NoToken
    /\ \A q \in Paths : checkouts[q].token = F!Removing.token => q = F!Removing.path
    /\ changes = job.since => F!Owns(F!Removing)
    /\ job.phase # "owned" => /\ job.revision \in Int /\ F!Removing.branch \in Branches
                              /\ changes = job.since => job.revision = branches[F!Removing.branch]
    /\ job.phase = "merged" => job.op.discard \/ job.revision <= head[F!Removing.branch]

\* A revision that was shown and verified is the tip of its branch unless the
\* user worked in Git since.
Shown(seen) == seen.branch \in Branches /\ seen.revision \in Int
MergesSound ==
  /\ {"shown", "busy"} \subseteq DOMAIN preview
  /\ preview.shown => "seen" \in DOMAIN preview /\ Shown(preview.seen)
  /\ \A m \in merging :
       /\ m = [preview |-> m.preview, stage |-> m.stage, since |-> m.since] /\ Shown(m.preview.seen)
       /\ m.stage = "verified" =>
            /\ m.since \in Nat /\ m.since <= changes /\ m.preview.seen.revision \in Nat
            /\ changes = m.since => branches[m.preview.seen.branch] = m.preview.seen.revision

FloorsInv == CoreInv /\ GitTyped /\ RemovalSound /\ MergesSound

\* A step that leaves the job alone keeps what its removal relies on, if tokens
\* only go away, branches lose nothing and a change in Git is counted.
LEMMA RemovalKept ==
  ASSUME FloorsInv, job' = job, changes' \in Nat,
         \A q \in Paths : checkouts'[q].token \in {checkouts[q].token, F!NoToken},
         \A b \in Branches : head'[b] \in Nat /\ head[b] <= head'[b],
         \/ changes' = changes /\ UNCHANGED <<checkouts, branches>>
         \/ changes' = changes + 1
  PROVE  RemovalSound'
<1> SUFFICES ASSUME job.phase \in Checking PROVE RemovalSound'
  BY DEF RemovalSound
<1>1. F!Removing' = F!Removing
  BY DEF F!Removing
<1>2. changes \in Nat /\ head \in [Branches \cup {F!Original} -> Nat]
  BY DEF FloorsInv, GitTyped
<1>3. /\ job.since \in Nat /\ job.since <= changes' /\ F!Removing.token # F!NoToken
      /\ changes' = job.since => changes' = changes /\ UNCHANGED <<checkouts, branches>>
  BY <1>2 DEF FloorsInv, RemovalSound
<1>4. \A q \in Paths : checkouts'[q].token = F!Removing.token => q = F!Removing.path
  BY <1>3 DEF FloorsInv, RemovalSound
<1>5. changes' = job.since => F!Owns(F!Removing)'
  BY <1>1, <1>3 DEF FloorsInv, RemovalSound, F!Owns, F!Verified, F!Present
<1>6. job.phase # "owned" => /\ job.revision \in Int /\ F!Removing.branch \in Branches
                             /\ changes' = job.since => job.revision = branches'[F!Removing.branch]
  BY <1>3 DEF FloorsInv, RemovalSound
<1>7. job.phase = "merged" => job.op.discard \/ job.revision <= head'[F!Removing.branch]
  <2>1. CASE job.phase = "merged" /\ ~job.op.discard
    <3>1. PICK b \in Branches : b = F!Removing.branch
      BY <1>6, <2>1
    <3>2. job.revision \in Int /\ head[b] \in Nat /\ head'[b] \in Nat /\ head[b] <= head'[b] /\ job.revision <= head[b]
      BY <1>2, <1>6, <2>1, <3>1 DEF FloorsInv, RemovalSound
    <3> QED
      BY <3>1, <3>2
  <2> QED
    BY <2>1
<1> QED
  BY <1>1, <1>3, <1>4, <1>5, <1>6, <1>7 DEF RemovalSound

\* The same for the integrations, under a step that leaves them alone.
LEMMA MergesKept ==
  ASSUME FloorsInv, UNCHANGED <<preview, merging>>, changes' \in Nat,
         \/ changes' = changes + 1
         \/ changes' = changes /\ \A b \in Branches : branches'[b] = branches[b] \/ branches[b] = F!NoBranch
  PROVE  MergesSound'
<1>1. changes \in Nat
  BY DEF FloorsInv, GitTyped
<1>2. ASSUME NEW m \in merging, m.stage = "verified"
      PROVE  /\ m.since \in Nat /\ m.since <= changes' /\ m.preview.seen.revision \in Nat
             /\ changes' = m.since => branches'[m.preview.seen.branch] = m.preview.seen.revision
  <2>1. /\ m.since \in Nat /\ m.since <= changes /\ m.preview.seen.revision \in Nat /\ m.preview.seen.branch \in Branches
        /\ changes = m.since => branches[m.preview.seen.branch] = m.preview.seen.revision
    BY <1>2 DEF FloorsInv, MergesSound, Shown
  <2> QED
    BY <1>1, <2>1 DEF F!NoBranch
<1> QED
  BY <1>2 DEF FloorsInv, MergesSound, Shown

\* What a step must keep for a change of nothing but the job.
LEMMA JobOnly ==
  ASSUME FloorsInv, UNCHANGED <<checkouts, branches, head, changes>>
  PROVE  /\ GitTyped'
         /\ UNCHANGED <<preview, merging>> => MergesSound'
         /\ job' = job \/ job'.phase \notin Checking => RemovalSound'
<1>1. GitTyped'
  BY DEF FloorsInv, GitTyped, F!Present
<1>2. UNCHANGED <<preview, merging>> => MergesSound'
  BY <1>1, MergesKept DEF GitTyped
<1>3. job' = job => RemovalSound'
  BY DEF FloorsInv, RemovalSound, F!Removing, F!Owns, F!Verified, F!Present
<1>4. job'.phase \notin Checking => RemovalSound'
  BY DEF RemovalSound
<1> QED
  BY <1>1, <1>2, <1>3, <1>4

LEMMA FailsOrEnds ==
  ASSUME CoreInv, job.phase \in Working
  PROVE  /\ F!Failed.phase = "done"
         /\ \A result, selected : F!Done(result, selected).phase = "done"
  BY DEF F!Failed, F!Done, CoreInv, JobSound

-----------------------------------------------------------------------------
(* The worker *)

LEMMA WorkerRace ==
  ASSUME FloorsInv, F!FloorWorker
  PROVE  GitTyped' /\ RemovalSound' /\ MergesSound'
<1> USE DEF Checking
<1>1. CASE F!RunRefresh
  <2>1. UNCHANGED <<checkouts, branches, head, changes, preview, merging>> /\ job'.phase = "done"
    BY <1>1, FailsOrEnds DEF F!RunRefresh, F!git, F!counters, FloorsInv, Working
  <2> QED
    BY <2>1, JobOnly
<1>2. CASE F!AddWorktree
  <2>1. /\ job.phase = "queued" /\ job.op.kind = "create" /\ job.op \in F!Ops /\ job.op.path \in Paths /\ job.op.branch \in NewBranches
        /\ UNCHANGED <<head, changes, preview, merging>>
    BY <1>2, OpFields DEF F!AddWorktree, FloorsInv, CoreInv, JobSound, Working, F!counters
  <2>2. CASE job' = F!Failed /\ UNCHANGED <<checkouts, branches>>
    BY <2>1, <2>2, JobOnly, FailsOrEnds DEF FloorsInv, Working
  <2>3. CASE /\ branches[job.op.branch] = F!NoBranch
             /\ checkouts' = [checkouts EXCEPT ![job.op.path].branch = job.op.branch]
             /\ branches' = [branches EXCEPT ![job.op.branch] = 0] /\ job' = [job EXCEPT !.phase = "added"]
    <3>1. job'.phase = "added"
      BY <2>1, <2>3 DEF FloorsInv, CoreInv, JobSound, Working
    <3>2. job.op.branch \in Branches
      BY <2>1, BranchesAssumption
    <3>3. GitTyped'
      <4>1. checkouts'[job.op.path].branch = job.op.branch /\ \A q \in Paths : q # job.op.path => checkouts'[q] = checkouts[q]
        BY <2>1, <2>3 DEF FloorsInv, CoreInv, TokensOwn, Checkout
      <4>2. branches' \in [Branches -> Int]
        <5>1. branches \in [Branches -> Int] /\ branches' = [branches EXCEPT ![job.op.branch] = 0]
          BY <2>3 DEF FloorsInv, GitTyped
        <5> QED
          BY <3>2, <5>1
      <4> QED
        BY <2>1, <3>2, <4>1, <4>2 DEF FloorsInv, GitTyped, F!Present
    <3>4. MergesSound'
      <4>1. branches \in [Branches -> Int]
        BY DEF FloorsInv, GitTyped
      <4>2. PICK c \in Branches : c = job.op.branch
        BY <3>2
      <4>3. branches' = [branches EXCEPT ![c] = 0] /\ branches[c] = F!NoBranch
        BY <2>3, <4>2
      <4>4. \A b \in Branches : branches'[b] = branches[b] \/ branches[b] = F!NoBranch
        BY <4>1, <4>3
      <4>5. changes' = changes /\ changes' \in Nat
        BY <2>1 DEF FloorsInv, GitTyped
      <4> QED
        BY <2>1, <4>4, <4>5, MergesKept
    <3> QED
      BY <3>1, <3>3, <3>4 DEF RemovalSound
  <2> QED
    BY <1>2, <2>2, <2>3 DEF F!AddWorktree
<1>3. CASE F!Claim
  <2>1. /\ job.phase = "added" /\ job.op \in F!Ops /\ job.op.kind = "create" /\ job.op.path \in Paths
        /\ UNCHANGED <<branches, head, changes, preview, merging>> /\ job'.phase = "done"
    BY <1>3, OpFields, FailsOrEnds DEF F!Claim, FloorsInv, CoreInv, JobSound, Working
  <2>2. CASE checkouts' = checkouts
    BY <2>1, <2>2, JobOnly
  <2>3. CASE F!Verified(job.op) /\ checkouts' = [checkouts EXCEPT ![job.op.path].token = tokens + 1]
    <3>1. \A q \in Paths : F!Present(q)' => F!Present(q) /\ checkouts'[q].branch = checkouts[q].branch
      BY <2>1, <2>3 DEF FloorsInv, CoreInv, TokensOwn, Checkout, F!Verified, F!Present
    <3>2. GitTyped'
      BY <2>1, <3>1 DEF FloorsInv, GitTyped
    <3> QED
      BY <2>1, <3>2, MergesKept DEF RemovalSound, GitTyped
  <2> QED
    BY <1>3, <2>2, <2>3 DEF F!Claim
<1>4. CASE F!CheckOwned
  <2>1. UNCHANGED <<checkouts, branches, head, changes, preview, merging>> /\ job.phase = "queued"
    BY <1>4 DEF F!CheckOwned, F!Check, F!git, F!counters
  <2>2. CASE job' = F!Failed
    BY <2>1, <2>2, JobOnly, FailsOrEnds DEF FloorsInv, Working
  <2>3. CASE F!Ownable(F!Removing) /\ job' = [job EXCEPT !.phase = "owned", !.since = changes]
    <3>1. job'.phase = "owned" /\ job'.since = changes /\ job'.op = job.op /\ job'.entries = job.entries
      BY <2>1, <2>3 DEF FloorsInv, CoreInv, JobSound, Working
    <3>2. F!Removing' = F!Removing
      BY <3>1 DEF F!Removing
    <3>3. F!Owns(F!Removing) /\ F!Owns(F!Removing)'
      BY <2>1, <2>3, <3>2 DEF F!Ownable, F!Owns, F!Verified, F!Present
    <3>4. F!Removing.path \in Paths /\ F!Removing.token # F!NoToken
          /\ \A q \in Paths : checkouts[q].token = F!Removing.token => q = F!Removing.path
      BY <3>3 DEF F!Owns, F!Verified, F!Present, FloorsInv, CoreInv, TokensOwn
    <3>5. changes \in Nat
      BY DEF FloorsInv, GitTyped
    <3>6. RemovalSound'
      BY <2>1, <3>1, <3>2, <3>3, <3>4, <3>5 DEF RemovalSound
    <3> QED
      BY <2>1, <3>6, JobOnly
  <2> QED
    BY <1>4, <2>2, <2>3 DEF F!CheckOwned, F!Check
<1>5. CASE F!ReadRevision \/ F!CheckClean \/ F!CheckMerged
  <2>1. UNCHANGED <<checkouts, branches, head, changes, preview, merging>> /\ job.phase \in {"owned", "read", "clean"}
    BY <1>5 DEF F!ReadRevision, F!CheckClean, F!CheckMerged, F!Check, F!git, F!counters
  <2>2. CASE job' = F!Failed
    BY <2>1, <2>2, JobOnly, FailsOrEnds DEF FloorsInv, Working
  <2>3. CASE job' # F!Failed
    <3>1. /\ job'.op = job.op /\ job'.entries = job.entries /\ job'.since = job.since
          /\ \/ /\ F!Verified(F!Removing) /\ job.phase = "owned" /\ job'.phase = "read"
                /\ job'.revision = branches[F!Removing.branch]
             \/ job.phase = "read" /\ job'.phase = "clean" /\ job'.revision = job.revision
             \/ /\ job.phase = "clean" /\ job'.phase = "merged" /\ job'.revision = job.revision
                /\ job.op.discard \/ job.revision <= head[F!Removing.branch]
      BY <1>5, <2>1, <2>3 DEF F!ReadRevision, F!CheckClean, F!CheckMerged, F!Check, FloorsInv, CoreInv, JobSound, Working
    <3>2. F!Removing' = F!Removing
      BY <3>1 DEF F!Removing
    <3>3. F!Verified(F!Removing) => F!Removing.branch \in Branches /\ branches[F!Removing.branch] \in Int
      BY DEF F!Verified, F!Present, FloorsInv, GitTyped
    <3>4. F!Owns(F!Removing) => F!Owns(F!Removing)'
      BY <2>1, <3>2 DEF F!Owns, F!Verified, F!Present
    <3>5. RemovalSound'
      BY <2>1, <3>1, <3>2, <3>3, <3>4 DEF RemovalSound, FloorsInv
    <3> QED
      BY <2>1, <3>5, JobOnly
  <2> QED
    BY <2>2, <2>3
<1>6. CASE F!RemoveWorktree
  <2>1. /\ job.phase = "merged" /\ UNCHANGED <<branches, head, changes, preview, merging>> /\ job'.phase = "done"
        /\ \/ checkouts' = checkouts
           \/ checkouts' = [checkouts EXCEPT ![F!Removing.path] = F!Absent]
    BY <1>6, FailsOrEnds DEF F!RemoveWorktree, F!counters, FloorsInv, Working
  <2>2. \A q \in Paths : F!Present(q)' => F!Present(q) /\ checkouts'[q] = checkouts[q]
    BY <2>1 DEF FloorsInv, CoreInv, TokensOwn, F!Present
  <2>3. GitTyped'
    BY <2>1, <2>2 DEF FloorsInv, GitTyped
  <2> QED
    BY <2>1, <2>3, MergesKept DEF RemovalSound, GitTyped
<1> QED
  BY <1>1, <1>2, <1>3, <1>4, <1>5, <1>6 DEF F!FloorWorker, F!Removal

LEMMA MergeRace ==
  ASSUME FloorsInv, NEW m \in merging, F!VerifyPreview(m) \/ F!Merge(m) \/ F!Integrated(m)
  PROVE  GitTyped' /\ RemovalSound' /\ MergesSound'
<1>1. PICK c : c = m.preview.seen.branch
  OBVIOUS
<1>2. /\ m = [preview |-> m.preview, stage |-> m.stage, since |-> m.since] /\ Shown(m.preview.seen)
      /\ changes \in Nat /\ head \in [Branches \cup {F!Original} -> Nat] /\ branches \in [Branches -> Int]
  BY DEF FloorsInv, MergesSound, GitTyped
<1>3. CASE F!VerifyPreview(m)
  <2>1. /\ UNCHANGED <<checkouts, branches, head, changes, job, preview>>
        /\ \/ /\ F!Current(m.preview) /\ ~F!Blocked(m.preview)
              /\ merging' = (merging \ {m}) \cup {[preview |-> m.preview, stage |-> "verified", since |-> changes]}
           \/ merging' = (merging \ {m}) \cup {[preview |-> m.preview, stage |-> "done", since |-> 0]}
    BY <1>3 DEF F!VerifyPreview, F!Moves, F!git, F!counters
  <2>2. CASE merging' = (merging \ {m}) \cup {[preview |-> m.preview, stage |-> "done", since |-> 0]}
    <3>2. MergesSound'
      BY <1>2, <2>1, <2>2 DEF FloorsInv, MergesSound, Shown
    <3> QED
      BY <2>1, <3>2, JobOnly
  <2>3. CASE /\ F!Current(m.preview) /\ ~F!Blocked(m.preview)
             /\ merging' = (merging \ {m}) \cup {[preview |-> m.preview, stage |-> "verified", since |-> changes]}
    <3>2. m.preview.seen.revision \in Int /\ head[c] \in Nat /\ ~(m.preview.seen.revision <= head[c])
          /\ branches[c] = m.preview.seen.revision
      BY <1>1, <1>2, <2>3 DEF F!Current, F!Blocked, F!Seen, Shown
    <3>3. MergesSound'
      BY <1>1, <1>2, <2>1, <2>3, <3>2 DEF FloorsInv, MergesSound, Shown
    <3> QED
      BY <2>1, <3>3, JobOnly
  <2> QED
    BY <2>1, <2>2, <2>3
<1>4. CASE F!Merge(m)
  <2>1. PICK r : r = F!Merged(m)
    OBVIOUS
  <2>2. /\ m.stage = "verified" /\ UNCHANGED <<checkouts, branches, changes, job, preview>>
        /\ head' = head \/ head' = [head EXCEPT ![c] = IF head[c] < r THEN r ELSE head[c]]
        /\ merging' = (merging \ {m}) \cup {[preview |-> m.preview, stage |-> "done", since |-> 0]}
    BY <1>1, <1>4, <2>1 DEF F!Merge, F!Moves, F!counters
  <2>3. r \in Nat /\ c \in Branches
    BY <1>1, <1>2, <2>1, <2>2 DEF F!Merged, FloorsInv, MergesSound, Shown
  <2>4. head' \in [Branches \cup {F!Original} -> Nat] /\ \A b \in Branches : head[b] <= head'[b]
    BY <1>2, <2>2, <2>3
  <2>5. GitTyped'
    BY <2>2, <2>4 DEF FloorsInv, GitTyped, F!Present
  <2>6. RemovalSound'
    <3>1. \A q \in Paths : checkouts'[q].token \in {checkouts[q].token, F!NoToken}
      BY <2>2
    <3>2. \A b \in Branches : head'[b] \in Nat /\ head[b] <= head'[b]
      BY <2>4
    <3> QED
      BY <1>2, <2>2, <3>1, <3>2, RemovalKept
  <2>8. MergesSound'
    BY <1>2, <2>2 DEF FloorsInv, MergesSound, Shown
  <2> QED
    BY <2>5, <2>6, <2>8
<1>5. CASE F!Integrated(m)
  <2>1. UNCHANGED <<checkouts, branches, head, changes, job>> /\ merging' = merging \ {m} /\ preview' = F!NoPreview
    BY <1>5 DEF F!Integrated, F!git, F!counters
  <2>2. MergesSound'
    BY <2>1 DEF FloorsInv, MergesSound, Shown, F!NoPreview
  <2> QED
    BY <2>1, <2>2, JobOnly
<1> QED
  BY <1>3, <1>4, <1>5

-----------------------------------------------------------------------------
(* The main thread and the user *)

LEMMA PanelRace ==
  ASSUME FloorsInv,
         (\E f \in 0..MaxFloors : F!Preview(f)) \/ F!ChooseMerge \/ F!WorkspaceChanged
  PROVE  GitTyped' /\ RemovalSound' /\ MergesSound'
<1>1. CASE F!WorkspaceChanged
  <2>1. UNCHANGED <<checkouts, branches, head, changes, job, merging>> /\ preview' = F!NoPreview
    BY <1>1 DEF F!WorkspaceChanged, F!git
  <2>2. MergesSound'
    BY <2>1 DEF FloorsInv, MergesSound, Shown, F!NoPreview
  <2> QED
    BY <2>1, <2>2, JobOnly
<1>2. ASSUME NEW f \in 0..MaxFloors, F!Preview(f) PROVE GitTyped' /\ RemovalSound' /\ MergesSound'
  <2>1. PICK p : p = entries[f].path
    OBVIOUS
  <2>2. /\ UNCHANGED <<checkouts, branches, head, changes, job, merging>> /\ F!Present(p)
        /\ {"shown", "busy", "seen"} \subseteq DOMAIN preview' /\ preview'.seen = F!Seen(p)
    BY <1>2, <2>1 DEF F!Preview, F!git
  <2>3. Shown(F!Seen(p))
    BY <2>2 DEF Shown, F!Seen, F!Present, FloorsInv, GitTyped
  <2>4. MergesSound'
    BY <2>2, <2>3 DEF FloorsInv, MergesSound, Shown
  <2> QED
    BY <2>2, <2>4, JobOnly
<1>3. CASE F!ChooseMerge
  <2>1. PICK m : m = [preview |-> preview, stage |-> "chosen", since |-> 0]
    OBVIOUS
  <2>2. /\ UNCHANGED <<checkouts, branches, head, changes, job>> /\ preview.shown
        /\ preview' = [preview EXCEPT !.busy = TRUE] /\ merging' = merging \cup {m}
    BY <1>3, <2>1 DEF F!ChooseMerge, F!git, F!counters
  <2>3. "seen" \in DOMAIN preview /\ Shown(preview.seen) /\ {"shown", "busy"} \subseteq DOMAIN preview
    BY <2>2 DEF FloorsInv, MergesSound
  <2>4. {"shown", "busy", "seen"} \subseteq DOMAIN preview' /\ preview'.seen = preview.seen
    BY <2>2, <2>3
  <2>5. m = [preview |-> m.preview, stage |-> m.stage, since |-> m.since] /\ m.preview = preview /\ m.stage = "chosen"
    BY <2>1
  <2>6. MergesSound'
    BY <2>2, <2>3, <2>4, <2>5 DEF FloorsInv, MergesSound, Shown
  <2> QED
    BY <2>2, <2>6, JobOnly
<1> QED
  BY <1>1, <1>2, <1>3

LEMMA UserRace ==
  ASSUME FloorsInv,
         \/ \E p \in Paths : F!UserWorks(p) \/ \E b \in Branches : F!UserTakes(p, b)
         \/ \E b \in Branches \cup {F!Original} : F!UserIntegrates(b)
  PROVE  GitTyped' /\ RemovalSound' /\ MergesSound'
<1>1. /\ changes \in Nat /\ branches \in [Branches -> Int] /\ head \in [Branches \cup {F!Original} -> Nat]
      /\ checkouts \in [Paths -> Checkout]
  BY DEF FloorsInv, GitTyped, CoreInv, TokensOwn
<1>2. changes' = changes + 1 /\ UNCHANGED <<job, preview, merging>>
  BY DEF F!UserWorks, F!UserTakes, F!UserIntegrates, F!Change, F!ui
<1>3. /\ \A q \in Paths : checkouts'[q].token \in {checkouts[q].token, F!NoToken}
      /\ \A q \in Paths : F!Present(q)' => checkouts'[q].branch \in Branches
      /\ branches' \in [Branches -> Int] /\ head' \in [Branches \cup {F!Original} -> Nat]
      /\ \A b \in Branches : head[b] <= head'[b]
  <2>1. ASSUME NEW p \in Paths, F!UserWorks(p)
        PROVE  /\ \A q \in Paths : checkouts'[q].token \in {checkouts[q].token, F!NoToken}
               /\ \A q \in Paths : F!Present(q)' => checkouts'[q].branch \in Branches
               /\ branches' \in [Branches -> Int] /\ head' = head
    <3>1. /\ F!Present(p) /\ head' = head
          /\ branches' = branches \/ branches' = [branches EXCEPT ![checkouts[p].branch] = branches[checkouts[p].branch] + 1]
          /\ \/ checkouts' = [checkouts EXCEPT ![p].dirty = ~checkouts[p].dirty]
             \/ checkouts' = [checkouts EXCEPT ![p].dirty = FALSE]
             \/ checkouts' = [checkouts EXCEPT ![p] = F!Absent]
      BY <2>1 DEF F!UserWorks
    <3>2. checkouts[p].branch \in Branches
      BY <3>1 DEF FloorsInv, GitTyped
    <3>3. branches' \in [Branches -> Int]
      BY <1>1, <3>1, <3>2
    <3>4. /\ \A q \in Paths : q # p => checkouts'[q] = checkouts[q]
          /\ \/ checkouts'[p] = F!Absent
             \/ checkouts'[p].branch = checkouts[p].branch /\ checkouts'[p].token = checkouts[p].token
      BY <1>1, <3>1 DEF Checkout
    <3>5. \A q \in Paths : F!Present(q)' => checkouts'[q].branch \in Branches
      BY <3>2, <3>4 DEF FloorsInv, GitTyped, F!Present
    <3>6. \A q \in Paths : checkouts'[q].token \in {checkouts[q].token, F!NoToken}
      BY <3>4, AbsentCheckout
    <3> QED
      BY <3>1, <3>3, <3>5, <3>6
  <2>2. ASSUME NEW p \in Paths, NEW b \in Branches, F!UserTakes(p, b)
        PROVE  /\ \A q \in Paths : checkouts'[q].token \in {checkouts[q].token, F!NoToken}
               /\ \A q \in Paths : F!Present(q)' => checkouts'[q].branch \in Branches
               /\ branches' \in [Branches -> Int] /\ head' = head
    <3>1. /\ head' = head /\ checkouts' = [checkouts EXCEPT ![p].branch = b]
          /\ branches' = [branches EXCEPT ![b] = IF branches[b] = F!NoBranch THEN 0 ELSE branches[b]]
      BY <2>2 DEF F!UserTakes
    <3>2. branches' \in [Branches -> Int]
      BY <1>1, <3>1
    <3>3. /\ \A q \in Paths : q # p => checkouts'[q] = checkouts[q]
          /\ checkouts'[p].branch = b /\ checkouts'[p].token = checkouts[p].token
      BY <1>1, <3>1 DEF Checkout
    <3> QED
      BY <3>1, <3>2, <3>3 DEF FloorsInv, GitTyped, F!Present
  <2>3. ASSUME NEW b \in Branches \cup {F!Original}, F!UserIntegrates(b)
        PROVE  /\ UNCHANGED <<checkouts, branches>> /\ head' \in [Branches \cup {F!Original} -> Nat]
               /\ \A a \in Branches : head[a] <= head'[a]
    <3>1. /\ UNCHANGED <<checkouts, branches>>
          /\ head' = [head EXCEPT ![b] = IF b = F!Original THEN head[b] + 1 ELSE branches[b]]
          /\ b # F!Original => head[b] < branches[b]
      BY <2>3 DEF F!UserIntegrates
    <3>2. CASE b = F!Original
      BY <1>1, <3>1, <3>2
    <3>3. CASE b # F!Original
      <4>1. branches[b] \in Int /\ head[b] \in Nat /\ head[b] < branches[b]
        BY <1>1, <3>1, <3>3
      <4>2. branches[b] \in Nat
        BY <4>1
      <4> QED
        BY <1>1, <3>1, <3>3, <4>1, <4>2
    <3> QED
      BY <3>1, <3>2, <3>3
  <2>4. \A b \in Branches : head[b] <= head[b]
    BY <1>1
  <2>5. CASE \E p \in Paths : F!UserWorks(p) \/ \E b \in Branches : F!UserTakes(p, b)
    BY <1>1, <2>1, <2>2, <2>4, <2>5
  <2>6. CASE \E b \in Branches \cup {F!Original} : F!UserIntegrates(b)
    <3>1. /\ UNCHANGED <<checkouts, branches>> /\ head' \in [Branches \cup {F!Original} -> Nat]
          /\ \A a \in Branches : head[a] <= head'[a]
      BY <2>3, <2>6
    <3> QED
      BY <1>1, <3>1 DEF FloorsInv, GitTyped, F!Present
  <2> QED
    BY <2>5, <2>6
<1>4. GitTyped'
  BY <1>1, <1>2, <1>3 DEF GitTyped
<1>5. \A b \in Branches : head'[b] \in Nat /\ head[b] <= head'[b]
  BY <1>3
<1>6. RemovalSound'
  BY <1>1, <1>2, <1>3, <1>5, RemovalKept
<1>7. MergesSound'
  BY <1>1, <1>2, MergesKept
<1> QED
  BY <1>4, <1>6, <1>7

LEMMA FloorsInit == F!Init => FloorsInv
<1> SUFFICES ASSUME F!Init PROVE FloorsInv
  OBVIOUS
<1>1. GitTyped
  BY DEF F!Init, GitTyped, F!Present, F!NoBranch
<1>2. RemovalSound /\ MergesSound
  BY DEF F!Init, RemovalSound, MergesSound, Checking, F!Idle, F!NoPreview
<1> QED
  BY CoreInit, <1>1, <1>2 DEF FloorsInv

LEMMA FloorsStep ==
  ASSUME IsFiniteSet(Paths), FloorsInv, [F!Next]_F!vars
  PROVE  FloorsInv'
<1>1. CoreInv'
  BY CoreStep DEF FloorsInv
<1>2. GitTyped' /\ RemovalSound' /\ MergesSound'
  <2>1. CASE F!FloorWorker
    BY <2>1, WorkerRace
  <2>2. CASE F!MergeWorker
    BY <2>2, MergeRace DEF F!MergeWorker
  <2>3. CASE (\E f \in 0..MaxFloors : F!Preview(f)) \/ F!ChooseMerge \/ F!WorkspaceChanged
    BY <2>3, PanelRace
  <2>4. CASE \/ \E p \in Paths : F!UserWorks(p) \/ \E b \in Branches : F!UserTakes(p, b)
             \/ \E b \in Branches \cup {F!Original} : F!UserIntegrates(b)
    BY <2>4, UserRace
  <2>5. CASE F!Restart
    <3>1. UNCHANGED <<checkouts, branches, head, changes>> /\ job'.phase = "idle" /\ merging' = {} /\ preview' = F!NoPreview
      BY <2>5 DEF F!Restart, F!git, F!Idle
    <3>2. MergesSound'
      BY <3>1 DEF MergesSound, F!NoPreview
    <3> QED
      BY <3>1, <3>2, JobOnly DEF Checking
  <2>6. CASE F!Complete \/ \E op \in F!Ops : F!Submit(op)
    <3>1. F!Complete => UNCHANGED <<checkouts, branches, head, changes, preview, merging>> /\ job'.phase = "idle"
      BY DEF F!Complete, F!NoLongerBusy, F!Idle, F!git, F!counters
    <3>2. ASSUME NEW op \in F!Ops, F!Submit(op)
          PROVE  UNCHANGED <<checkouts, branches, head, changes, preview, merging>> /\ job'.phase = "queued"
      BY <3>2 DEF F!Submit, F!git, F!counters
    <3>3. UNCHANGED <<checkouts, branches, head, changes, preview, merging>> /\ job'.phase \notin Checking
      BY <2>6, <3>1, <3>2 DEF Checking
    <3> QED
      BY <3>3, JobOnly
  <2>7. CASE \/ \E f \in 0..MaxFloors : F!SwitchFloor(f)
             \/ \E n \in Nodes : F!AddNode(n) \/ F!RemoveNode(n) \/ F!StartTerminal(n) \/ F!StopTerminal(n)
             \/ F!ChangeDirectory \/ UNCHANGED F!vars
    <3>1. UNCHANGED <<checkouts, branches, head, changes, job, preview, merging>>
      BY <2>7 DEF F!SwitchFloor, F!AddNode, F!RemoveNode, F!StartTerminal, F!StopTerminal, F!ChangeDirectory,
                  F!vars, F!git, F!ui, F!counters
    <3> QED
      BY <3>1, JobOnly
  <2> QED
    BY <2>1, <2>2, <2>3, <2>4, <2>5, <2>6, <2>7 DEF F!Next
<1> QED
  BY <1>1, <1>2 DEF FloorsInv

-----------------------------------------------------------------------------
(* What a step may not do *)

\* Only the last step of a removal takes a checkout away with the job.
LEMMA OnlyRemovalRemoves ==
  ASSUME FloorsInv, [F!Next]_F!vars, NEW p \in Paths, F!Removes(p)
  PROVE  F!RemoveWorktree
<1>1. job' # job /\ F!Present(p) /\ checkouts'[p] = F!Absent /\ checkouts'[p] # checkouts[p]
  BY DEF F!Removes, F!Present
<1>2. ~F!Complete /\ ~F!Restart /\ ~F!RunRefresh /\ \A op \in F!Ops : ~F!Submit(op)
  BY <1>1 DEF F!Complete, F!Restart, F!RunRefresh, F!Submit, F!git
<1>3. ~(F!CheckOwned \/ F!ReadRevision \/ F!CheckClean \/ F!CheckMerged)
  BY <1>1 DEF F!CheckOwned, F!ReadRevision, F!CheckClean, F!CheckMerged, F!Check, F!git
<1>4. ~F!AddWorktree
  <2> SUFFICES ASSUME F!AddWorktree PROVE FALSE
    OBVIOUS
  <2>1. ~F!Present(job.op.path) /\ checkouts' = [checkouts EXCEPT ![job.op.path].branch = job.op.branch]
    BY <1>1 DEF F!AddWorktree
  <2>2. p # job.op.path
    BY <1>1, <2>1
  <2> QED
    BY <1>1, <2>1, <2>2 DEF FloorsInv, CoreInv, TokensOwn
<1>5. ~F!Claim
  <2> SUFFICES ASSUME F!Claim PROVE FALSE
    OBVIOUS
  <2>1. checkouts' = [checkouts EXCEPT ![job.op.path].token = tokens + 1] /\ tokens \in Nat /\ checkouts \in [Paths -> Checkout]
    BY <1>1 DEF F!Claim, FloorsInv, CoreInv, TokensOwn
  <2>2. checkouts'[p].token = tokens + 1
    BY <1>1, <2>1 DEF Checkout
  <2> QED
    BY <1>1, <2>1, <2>2, AbsentCheckout DEF F!NoToken
<1>6. ASSUME NEW f \in 0..MaxFloors, F!SwitchFloor(f) \/ F!Preview(f) PROVE job' = job
  BY <1>6 DEF F!SwitchFloor, F!Preview, F!ui
<1>7. ASSUME NEW n \in Nodes, F!AddNode(n) \/ F!RemoveNode(n) \/ F!StartTerminal(n) \/ F!StopTerminal(n) PROVE job' = job
  BY <1>7 DEF F!AddNode, F!RemoveNode, F!StartTerminal, F!StopTerminal, F!ui
<1>8. ASSUME NEW q \in Paths, F!UserWorks(q) \/ \E b \in Branches : F!UserTakes(q, b) PROVE job' = job
  BY <1>8 DEF F!UserWorks, F!UserTakes, F!ui
<1>9. ASSUME NEW b \in Branches \cup {F!Original}, F!UserIntegrates(b) PROVE job' = job
  BY <1>9 DEF F!UserIntegrates, F!ui
<1>10. F!MergeWorker \/ F!ChooseMerge \/ F!ChangeDirectory \/ F!WorkspaceChanged \/ UNCHANGED F!vars => job' = job
  BY DEF F!MergeWorker, F!VerifyPreview, F!Merge, F!Integrated, F!ChooseMerge, F!ChangeDirectory, F!WorkspaceChanged, F!vars, F!ui
<1> QED
  BY <1>1, <1>2, <1>3, <1>4, <1>5, <1>6, <1>7, <1>8, <1>9, <1>10 DEF F!Next, F!FloorWorker, F!Removal

LEMMA RemovesOwn ==
  ASSUME FloorsInv, [F!Next]_F!vars, NEW p \in Paths, F!Removes(p)
  PROVE  /\ job.op.kind = "remove" /\ p = F!Removing.path
         /\ checkouts[p].dirty => job.op.discard
         /\ \A n \in terminals : nodeFloors[n] # job.op.floor
         /\ \A q \in Paths : checkouts[q].token = F!Removing.token => q = p
         /\ changes = job.since =>
              F!Owns(F!Removing) /\ (job.op.discard \/ branches[F!Removing.branch] <= head[F!Removing.branch])
<1>1. F!RemoveWorktree
  BY OnlyRemovalRemoves
<1>2. job.phase = "merged" /\ job.phase \in Checking /\ job.phase \in Working
  BY <1>1 DEF F!RemoveWorktree, Checking, Working
<1>3. job.op.kind = "remove" /\ F!Quiet(job.op.floor)
  BY <1>2 DEF FloorsInv, CoreInv, JobSound, TerminalsSound
<1>4. checkouts'[p] # checkouts[p]
  BY DEF F!Removes, F!Present
<1>5. /\ F!Forced \/ ~checkouts[F!Removing.path].dirty
      /\ checkouts' = [checkouts EXCEPT ![F!Removing.path] = F!Absent]
  BY <1>1, <1>4 DEF F!RemoveWorktree
<1>6. p = F!Removing.path
  BY <1>4, <1>5 DEF FloorsInv, CoreInv, TokensOwn
<1>7. /\ \A q \in Paths : checkouts[q].token = F!Removing.token => q = F!Removing.path
      /\ changes = job.since => F!Owns(F!Removing) /\ job.revision = branches[F!Removing.branch]
      /\ job.op.discard \/ job.revision <= head[F!Removing.branch]
  BY <1>2 DEF FloorsInv, RemovalSound
<1>8. checkouts[p].dirty => job.op.discard
  BY <1>5, <1>6 DEF F!Forced
<1>9. changes = job.since =>
        F!Owns(F!Removing) /\ (job.op.discard \/ branches[F!Removing.branch] <= head[F!Removing.branch])
  BY <1>7
<1> QED
  BY <1>3, <1>6, <1>7, <1>8, <1>9 DEF F!Quiet

LEMMA CardsStay ==
  ASSUME [F!Next]_F!vars, job' # job
  PROVE  nodeFloors' = nodeFloors
<1>1. CASE F!FloorWorker
  BY <1>1 DEF F!FloorWorker, F!RunRefresh, F!AddWorktree, F!Claim, F!Removal, F!CheckOwned, F!ReadRevision, F!CheckClean,
              F!CheckMerged, F!Check, F!RemoveWorktree, F!floors
<1>2. CASE F!Complete \/ F!Restart
  BY <1>2 DEF F!Complete, F!Restart, F!NodesOfNow, F!floors
<1>3. ASSUME NEW op \in F!Ops, F!Submit(op) PROVE nodeFloors' = nodeFloors
  BY <1>3 DEF F!Submit, F!floors
<1>4. ASSUME NEW f \in 0..MaxFloors, F!SwitchFloor(f) \/ F!Preview(f) PROVE job' = job
  BY <1>4 DEF F!SwitchFloor, F!Preview, F!ui
<1>5. ASSUME NEW n \in Nodes, F!AddNode(n) \/ F!RemoveNode(n) \/ F!StartTerminal(n) \/ F!StopTerminal(n) PROVE job' = job
  BY <1>5 DEF F!AddNode, F!RemoveNode, F!StartTerminal, F!StopTerminal, F!ui
<1>6. ASSUME NEW p \in Paths, F!UserWorks(p) \/ \E b \in Branches : F!UserTakes(p, b) PROVE job' = job
  BY <1>6 DEF F!UserWorks, F!UserTakes, F!ui
<1>7. ASSUME NEW b \in Branches \cup {F!Original}, F!UserIntegrates(b) PROVE job' = job
  BY <1>7 DEF F!UserIntegrates, F!ui
<1>8. F!MergeWorker \/ F!ChooseMerge \/ F!ChangeDirectory \/ F!WorkspaceChanged \/ UNCHANGED F!vars => job' = job
  BY DEF F!MergeWorker, F!VerifyPreview, F!Merge, F!Integrated, F!ChooseMerge, F!ChangeDirectory, F!WorkspaceChanged, F!vars, F!ui
<1> QED
  BY <1>1, <1>2, <1>3, <1>4, <1>5, <1>6, <1>7, <1>8 DEF F!Next

\* Only an integration moves the original branch without a change of the user.
LEMMA OnlyMergeMoves ==
  ASSUME FloorsInv, [F!Next]_F!vars, head' # head, changes' = changes
  PROVE  \E m \in merging : F!Merge(m)
<1>1. changes \in Nat
  BY DEF FloorsInv, GitTyped
<1>2. \A p \in Paths : ~F!UserWorks(p) /\ \A b \in Branches : ~F!UserTakes(p, b)
  BY DEF F!UserWorks, F!UserTakes
<1>3. \A b \in Branches \cup {F!Original} : ~F!UserIntegrates(b)
  BY <1>1 DEF F!UserIntegrates, F!Change
<1>4. ~F!FloorWorker
  BY DEF F!FloorWorker, F!RunRefresh, F!AddWorktree, F!Claim, F!Removal, F!CheckOwned, F!ReadRevision, F!CheckClean,
         F!CheckMerged, F!Check, F!RemoveWorktree, F!git
<1>5. ~(F!Complete \/ F!Restart \/ F!ChooseMerge \/ F!ChangeDirectory \/ F!WorkspaceChanged \/ UNCHANGED F!vars)
  BY DEF F!Complete, F!Restart, F!ChooseMerge, F!ChangeDirectory, F!WorkspaceChanged, F!vars, F!git
<1>6. \A op \in F!Ops : ~F!Submit(op)
  BY DEF F!Submit, F!git
<1>7. \A f \in 0..MaxFloors : ~F!SwitchFloor(f) /\ ~F!Preview(f)
  BY DEF F!SwitchFloor, F!Preview, F!git
<1>8. \A n \in Nodes : ~F!AddNode(n) /\ ~F!RemoveNode(n) /\ ~F!StartTerminal(n) /\ ~F!StopTerminal(n)
  BY DEF F!AddNode, F!RemoveNode, F!StartTerminal, F!StopTerminal, F!git
<1>9. \A m \in merging : ~F!VerifyPreview(m) /\ ~F!Integrated(m)
  BY DEF F!VerifyPreview, F!Integrated, F!git
<1> QED
  BY <1>2, <1>3, <1>4, <1>5, <1>6, <1>7, <1>8, <1>9 DEF F!Next, F!MergeWorker

LEMMA MergesShown ==
  ASSUME FloorsInv, [F!Next]_F!vars, head' # head, changes' = changes
  PROVE  \E m \in merging :
           /\ head' = [head EXCEPT ![m.preview.seen.branch] = m.preview.seen.revision]
           /\ head[m.preview.seen.branch] < m.preview.seen.revision
           /\ changes = m.since => branches[m.preview.seen.branch] = m.preview.seen.revision
<1>1. PICK m \in merging : F!Merge(m)
  BY OnlyMergeMoves
<1>2. PICK c : c = m.preview.seen.branch
  OBVIOUS
<1>3. PICK r : r = m.preview.seen.revision
  OBVIOUS
<1>4. m.stage = "verified" /\ head' = [head EXCEPT ![c] = IF head[c] < r THEN r ELSE head[c]]
  BY <1>1, <1>2, <1>3 DEF F!Merge, F!Merged
<1>5. r \in Nat /\ c \in Branches /\ (changes = m.since => branches[c] = r)
  BY <1>2, <1>3, <1>4 DEF FloorsInv, MergesSound, Shown
<1>6. head \in [Branches \cup {F!Original} -> Nat]
  BY DEF FloorsInv, GitTyped
<1>7. head[c] < r
  <2>1. CASE ~(head[c] < r)
    <3>1. head' = [head EXCEPT ![c] = head[c]]
      BY <1>4, <2>1
    <3>2. head' = head
      BY <1>6, <3>1
    <3> QED
      BY <3>2
  <2> QED
    BY <2>1
<1>8. head' = [head EXCEPT ![c] = r]
  BY <1>4, <1>7
<1> QED
  BY <1>2, <1>3, <1>5, <1>7, <1>8

-----------------------------------------------------------------------------
\* The inductive invariant of the floors: tokens name one checkout each, no
\* terminal starts on a floor that is being removed, and what the checks of a
\* removal or of an integration found holds until the user's next work in Git,
\* which may come between any two Git commands.
THEOREM FloorsInductive == ASSUME IsFiniteSet(Paths) PROVE F!Spec => []FloorsInv
  BY FloorsInit, FloorsStep, PTL DEF F!Spec

LEMMA FloorsOfWorkbench == WorkbenchNext \/ UNCHANGED allVars => [F!Next]_F!vars
  BY DEF WorkbenchNext, allVars, floorVars, F!vars, F!git, F!floors, F!ui, F!counters

\* What survives the user's work in Git between the application's checks and its
\* git worktree remove or git merge (git.rs:214-240, integration.rs:126-160): no
\* uncommitted work, other floor's checkout or terminal is lost, cards stay, and
\* no revision is merged that was not shown; and when the user did nothing in
\* between, the checkout is the floor's own and merged, and the merge complete.
THEOREM WorkIsKept == ASSUME IsFiniteSet(Paths) PROVE WorkbenchSpec => WorkKept
<1>1. FloorsInv /\ [F!Next]_F!vars =>
        [\A p \in Paths : F!Removes(p) =>
           /\ job.op.kind = "remove" /\ p = F!Removing.path
           /\ checkouts[p].dirty => job.op.discard
           /\ \A n \in terminals : nodeFloors[n] # job.op.floor
           /\ \A q \in Paths : checkouts[q].token = F!Removing.token => q = p
           /\ changes = job.since =>
                F!Owns(F!Removing) /\ (job.op.discard \/ branches[F!Removing.branch] <= head[F!Removing.branch])]_F!vars
  BY RemovesOwn
<1>2. [F!Next]_F!vars => [job' # job => nodeFloors' = nodeFloors]_F!vars
  BY CardsStay
<1>3. FloorsInv /\ [F!Next]_F!vars =>
        [(head' # head /\ changes' = changes) =>
           \E m \in merging :
             LET shown == m.preview.seen IN
             /\ head' = [head EXCEPT ![shown.branch] = shown.revision] /\ head[shown.branch] < shown.revision
             /\ changes = m.since => branches[shown.branch] = shown.revision]_F!vars
  BY MergesShown
<1>4. WorkbenchInit => F!Init
  BY DEF WorkbenchInit
<1>5. [WorkbenchNext]_allVars => [F!Next]_F!vars
  BY FloorsOfWorkbench
<1>6. WorkbenchSpec => F!Spec
  BY <1>4, <1>5, PTL DEF WorkbenchSpec, F!Spec
<1> QED
  BY <1>1, <1>2, <1>3, <1>6, FloorsInductive, PTL
     DEF F!Spec, WorkKept, F!WorkKept, F!OnlyOwnRemoved, F!EditsSurvive, F!MergedAsShown
=============================================================================
