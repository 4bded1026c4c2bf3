----------------------- MODULE RoutineSchedulerProofs -----------------------
(***************************************************************************)
(* Proofs about RoutineScheduler for every set of runs, steps, claims,     *)
(* dependencies and budgets, and any number of faults.                     *)
(***************************************************************************)
EXTENDS RoutineScheduler, TLAPS

\* The inductive invariant: exclusion needs that finished runs hold nothing,
\* because a dispatch only looks at active runs; that needs the records.
Inv ==
  /\ TypeOK
  /\ ReservationsExclusive
  /\ FinishedReleases
  /\ DispatchJustified
  /\ WaitingCanRun
  /\ WorkReserved
  /\ OneActiveRun
  /\ RecordsAgree

-----------------------------------------------------------------------------
(* propagate_skips *)

\* propagate_skips marks waiting steps of the run as skipped, nothing else.
LEMMA SkipsWaitingOnly ==
  ASSUME NEW st \in [Steps -> StepStates], NEW r
  PROVE  /\ PropagateSkips(r, st) \in [Steps -> StepStates]
         /\ \A s \in Steps :
              \/ PropagateSkips(r, st)[s] = st[s]
              \/ RunOf[s] = r /\ st[s] \in Waiting /\ PropagateSkips(r, st)[s] = "skipped"
  BY DEF PropagateSkips, Skips, StepsOf, StepStates, Terminal, Dead

\* propagate_skips is complete: no step of the run waits for a dead one.
LEMMA SkipsComplete ==
  ASSUME NEW st \in [Steps -> StepStates],
         NEW s \in Steps, PropagateSkips(RunOf[s], st)[s] \in Waiting,
         NEW d \in Deps[s]
  PROVE  PropagateSkips(RunOf[s], st)[d] \notin Dead
<1> DEFINE waiting == {t \in StepsOf(RunOf[s]) : st[t] \in Waiting}
           Closed(C) == \A t \in waiting : (\E e \in Deps[t] : st[e] \in Dead \/ e \in C) => t \in C
<1>1. d \in Steps
  BY VersionAssumption
<1>2. s \notin Skips(RunOf[s], st) /\ s \in waiting
  BY DEF PropagateSkips, Waiting, StepsOf
<1>3. PICK C \in SUBSET waiting : Closed(C) /\ s \notin C
  BY <1>2 DEF Skips
<1>4. st[d] \notin Dead /\ d \notin C
  BY <1>2, <1>3
<1>5. d \notin Skips(RunOf[s], st)
  BY <1>3, <1>4 DEF Skips
<1> QED
  BY <1>1, <1>4, <1>5 DEF PropagateSkips

-----------------------------------------------------------------------------
(* Steps that leave the journal alone, and steps that change one step *)

\* Deliveries, answers, ticks, window events and faults outside a transaction
\* keep the invariant: they change no run and no step.
LEMMA QuietSteps ==
  ASSUME Inv, UNCHANGED journal,
         conv' \in [Steps -> Conversations], phase' \in Phases, faults' \in 0..MaxFaults,
         working' \subseteq Steps, stray' \subseteq Steps, straying' \subseteq Steps,
         \A s \in Steps : conv'[s] \in Unwithdrawn => conv[s] \in Unwithdrawn,
         \A s \in working' : /\ s \in working \/ conv[s] \in Undelivered
                             /\ conv'[s] \in {"delivered", "ended", "lost"}
  PROVE  Inv'
  BY DEF Inv, TypeOK, ReservationsExclusive, FinishedReleases, DispatchJustified,
         WaitingCanRun, WorkReserved, OneActiveRun, RecordsAgree, journal, Holds,
         DependenciesCompleted, Unwithdrawn

\* One step leaves its state for a released or waiting one: enough is known of
\* the new states to keep the invariant.
LEMMA ReleaseStep ==
  ASSUME Inv, NEW s \in Steps, run[RunOf[s]] \in Active,
         UNCHANGED <<run, tries>>,
         step' \in [Steps -> StepStates], approved' \subseteq Steps, approved \subseteq approved',
         conv' \in [Steps -> Conversations], phase' \in Phases, faults' \in 0..MaxFaults,
         working' \subseteq working, stray' \subseteq Steps, straying' \subseteq Steps,
         s \notin working', step[s] # "completed",
         step'[s] \notin Holding, conv'[s] \notin Unwithdrawn,
         \A t \in Steps : t # s => /\ conv'[t] = conv[t]
                                   /\ \/ step'[t] = step[t]
                                      \/ step[t] \in Waiting /\ step'[t] = "skipped"
                                         /\ run[RunOf[t]] \in Active,
         \A t \in Steps : step'[t] \in Waiting /\ run[RunOf[t]] \in Active =>
                           tries[t] < MaxAttempts[t] /\ \A d \in Deps[t] : step'[d] \notin Dead
  PROVE  Inv'
<1>1. \A t \in Steps : step[t] = "completed" => step'[t] = "completed"
  BY DEF Waiting
<1>2. \A t \in Steps : Holds(t)' => Holds(t) /\ t # s
  BY DEF Holds, Holding
<1>3. TypeOK'
  BY DEF Inv, TypeOK
<1>4. ReservationsExclusive'
  BY <1>2 DEF Inv, ReservationsExclusive
<1>5. FinishedReleases'
  BY <1>2 DEF Inv, FinishedReleases
<1>6. DispatchJustified'
  BY <1>1, VersionAssumption DEF Inv, DispatchJustified, DependenciesCompleted
<1>7. WaitingCanRun'
  BY DEF WaitingCanRun
<1>8. \A t \in Steps : Holds(t) /\ t # s => Holds(t)'
  BY DEF Holds, Holding, Waiting
<1>9. WorkReserved'
  BY <1>8 DEF Inv, TypeOK, WorkReserved
<1>10. OneActiveRun'
  BY DEF Inv, OneActiveRun
<1>11. RecordsAgree'
  BY <1>2, <1>8 DEF Inv, RecordsAgree, Active
<1> QED
  BY <1>3, <1>4, <1>5, <1>6, <1>7, <1>9, <1>10, <1>11 DEF Inv

\* A dispatched step that becomes interrupted keeps its reservations.
LEMMA InterruptOne ==
  ASSUME Inv, NEW s \in Steps, step[s] = "dispatched",
         step' = [step EXCEPT ![s] = "interrupted"],
         UNCHANGED <<run, tries, approved, conv, phase, faults, working, stray, straying>>
  PROVE  Inv'
<1>1. \A t \in Steps : /\ Holds(t)' <=> Holds(t)
                       /\ step'[t] \in Waiting <=> step[t] \in Waiting
                       /\ step'[t] \in Dead <=> step[t] \in Dead
                       /\ step'[t] = "completed" <=> step[t] = "completed"
                       /\ step'[t] = "pending" <=> step[t] = "pending"
  BY DEF Inv, TypeOK, Holds, Holding, Waiting, Dead
<1>2. TypeOK'
  BY DEF Inv, TypeOK, StepStates, Holding
<1>3. ReservationsExclusive' /\ FinishedReleases' /\ WorkReserved' /\ OneActiveRun'
  BY <1>1 DEF Inv, TypeOK, ReservationsExclusive, FinishedReleases, WorkReserved, OneActiveRun
<1>4. DispatchJustified' /\ WaitingCanRun'
  BY <1>1, VersionAssumption DEF Inv, DispatchJustified, WaitingCanRun, DependenciesCompleted
<1>5. RecordsAgree'
  BY <1>1 DEF Inv, RecordsAgree
<1> QED
  BY <1>2, <1>3, <1>4, <1>5 DEF Inv

\* request_cancellation with some interruptions, and the runs it settles.
LEMMA CancelSteps ==
  ASSUME Inv, NEW r \in Runs, run[r] \in Active,
         NEW done \in SUBSET Asked(r), step' = Cancelling(r, done),
         run' \in [Runs -> RunStates],
         run'[r] # "running",
         \A q \in Runs :
           \/ run[q] \in Active /\ run'[q] \in Finished /\ AllTerminal(q, step')
           \/ run[q] \in Active /\ run'[q] \in Active /\ (q = r \/ run'[q] = run[q])
           \/ q # r /\ run'[q] = run[q],
         UNCHANGED <<tries, approved, working, stray, straying>>,
         conv' \in [Steps -> Conversations], phase' \in Phases, faults' \in 0..MaxFaults,
         \A s \in Steps : conv'[s] \in Unwithdrawn => conv[s] \in Unwithdrawn,
         \A s \in working : conv'[s] \in {"delivered", "ended", "lost"}
  PROVE  Inv'
<1>1. \A s \in Steps :
        \/ RunOf[s] = r /\ step[s] \in Waiting /\ step'[s] = "cancelled"
        \/ RunOf[s] = r /\ step[s] = "dispatched" /\ step'[s] = "interrupted"
        \/ (RunOf[s] # r \/ step[s] \notin Waiting) /\ step'[s] = step[s]
  BY DEF Cancelling, Asked, StepsOf, Waiting
<1>2. \A s \in Steps : /\ Holds(s)' <=> Holds(s)
                       /\ step'[s] \in Waiting => step[s] \in Waiting /\ RunOf[s] # r
                                                  /\ step'[s] = step[s]
                       /\ step[s] = "completed" => step'[s] = "completed"
  BY <1>1 DEF Holds, Holding, Waiting
<1>3. TypeOK'
  BY DEF Inv, TypeOK, Cancelling, StepStates, Holding, Terminal, Dead
<1>4. ReservationsExclusive' /\ WorkReserved'
  BY <1>2 DEF Inv, TypeOK, ReservationsExclusive, WorkReserved
<1>5. FinishedReleases'
  <2> SUFFICES ASSUME NEW s \in Steps, Holds(s)' PROVE run'[RunOf[s]] \in Active
    BY DEF FinishedReleases
  <2>1. RunOf[s] \in Runs /\ run[RunOf[s]] \in Active /\ step'[s] \notin Terminal
    BY <1>2, RunAssumption DEF Inv, FinishedReleases, Holds, Holding, Terminal, Dead
  <2> QED
    BY <2>1 DEF AllTerminal, StepsOf
<1>6. DispatchJustified'
  BY <1>2, VersionAssumption DEF Inv, DispatchJustified, DependenciesCompleted
<1>7. WaitingCanRun'
  <2> SUFFICES ASSUME NEW s \in Steps, step'[s] \in Waiting, run'[RunOf[s]] \in Active
               PROVE  tries[s] < MaxAttempts[s] /\ \A d \in Deps[s] : step'[d] \notin Dead
    BY DEF WaitingCanRun
  <2>1. RunOf[s] # r /\ RunOf[s] \in Runs /\ step[s] \in Waiting
    BY <1>2, RunAssumption
  <2>2. run[RunOf[s]] \in Active
    BY <2>1
  <2>3. \A d \in Deps[s] : d \in Steps /\ RunOf[d] # r
    BY <2>1, VersionAssumption
  <2> QED
    BY <1>1, <2>1, <2>2, <2>3 DEF Inv, WaitingCanRun
<1>8. OneActiveRun'
  BY DEF Inv, OneActiveRun, Active, Finished
<1>9. RecordsAgree'
  <2> SUFFICES ASSUME NEW s \in Steps
               PROVE  /\ run'[RunOf[s]] = "unused" => step'[s] = "pending" /\ tries[s] = 0
                      /\ Holds(s)' => tries[s] > 0
                      /\ conv'[s] \in Unwithdrawn => Holds(s)'
                      /\ s \in working => conv'[s] \in {"delivered", "ended", "lost"}
    BY DEF RecordsAgree
  <2>1. run'[RunOf[s]] = "unused" => RunOf[s] # r /\ run[RunOf[s]] = "unused"
    BY RunAssumption DEF Active, Finished
  <2> QED
    BY <1>1, <1>2, <2>1 DEF Inv, RecordsAgree
<1> QED
  BY <1>3, <1>4, <1>5, <1>6, <1>7, <1>8, <1>9 DEF Inv

-----------------------------------------------------------------------------
(* The invariant is inductive: one lemma per kind of action *)

\* The tick, the orchestrator, the agents and the timeline change no run.
LEMMA QuietInductive ==
  ASSUME Inv,
         \/ StartTick \/ Orchestrated \/ EndTick \/ TickFails \/ Recovered \/ RecoverFails \/ Crash
         \/ \E s \in Steps : Orchestrate(s) \/ TimelineCancel(s) \/ TimelineRepeat(s)
         \/ \E a \in Movable : MoveAgent(a)
         \/ \E a \in Closable : CloseOrReopen(a)
  PROVE  Inv'
<1>1. UNCHANGED journal
  BY DEF StartTick, Orchestrated, EndTick, TickFails, Recovered, RecoverFails, Crash, Orchestrate,
         Deliver, Respond, DeliverStray, FinishStray, TimelineCancel, TimelineRepeat, MoveAgent,
         CloseOrReopen
<1>2. phase' \in Phases /\ faults' \in 0..MaxFaults
  <2>1. CASE \E s \in Steps : Orchestrate(s) \/ TimelineCancel(s) \/ TimelineRepeat(s)
    <3>1. UNCHANGED <<phase, faults>>
      BY <2>1 DEF Orchestrate, Deliver, Respond, DeliverStray, FinishStray, TimelineCancel,
                  TimelineRepeat
    <3> QED
      BY <3>1 DEF Inv, TypeOK
  <2>2. CASE ~\E s \in Steps : Orchestrate(s) \/ TimelineCancel(s) \/ TimelineRepeat(s)
    BY <2>2, FaultAssumption
       DEF Inv, TypeOK, Phases, Fault, StartTick, Orchestrated, EndTick, TickFails, Recovered,
           RecoverFails, Crash, MoveAgent, CloseOrReopen
  <2> QED
    BY <2>1, <2>2
<1>3. stray' \subseteq Steps /\ straying' \subseteq Steps
  BY DEF Inv, TypeOK, StartTick, Orchestrated, EndTick, TickFails, Recovered, RecoverFails, Crash,
         Orchestrate, Deliver, Respond, DeliverStray, FinishStray, TimelineCancel, TimelineRepeat,
         MoveAgent, CloseOrReopen, agents
<1> DEFINE Agrees ==
      /\ conv' \in [Steps -> Conversations] /\ working' \subseteq Steps
      /\ \A s \in Steps : conv'[s] \in Unwithdrawn => conv[s] \in Unwithdrawn
      /\ \A s \in working' : /\ s \in working \/ conv[s] \in Undelivered
                            /\ conv'[s] \in {"delivered", "ended", "lost"}
<1>4. Agrees
  <2> USE DEF Inv, TypeOK, RecordsAgree, Unwithdrawn, Undelivered, Answers, Conversations
  <2>1. CASE UNCHANGED <<conv, working>>
    BY <2>1
  <2>2. ASSUME NEW s \in Steps, Deliver(s) \/ Respond(s) \/ TimelineCancel(s)
        PROVE  Agrees
    BY <2>2 DEF Deliver, Respond, TimelineCancel, Cancellable, agents
  <2>3. CASE Crash
    BY <2>3 DEF Crash, AfterCrash, Requeued
  <2> QED
    BY <2>1, <2>2, <2>3
       DEF StartTick, Orchestrated, EndTick, TickFails, Recovered, RecoverFails, Orchestrate,
           DeliverStray, FinishStray, TimelineRepeat, MoveAgent, CloseOrReopen, agents
<1> QED
  BY <1>1, <1>2, <1>3, <1>4, QuietSteps

\* A step whose attempt ends, or that is gated, approved, rejected or stopped
\* releases what it held; those that depend on it are skipped if it died.
LEMMA ReleaseInductive ==
  ASSUME Inv, NEW s \in Steps, run[RunOf[s]] \in Active, step[s] # "completed",
         NEW new \in StepStates \ Holding,
         LET st == [step EXCEPT ![s] = new]
         IN  \/ step' = PropagateSkips(RunOf[s], st)
             \/ step' = st /\ new \notin Dead,
         new \in Waiting => tries[s] < MaxAttempts[s] /\ \A d \in Deps[s] : step[d] \notin Dead,
         UNCHANGED <<run, tries>>, approved' \subseteq Steps, approved \subseteq approved',
         conv' \in [Steps -> Conversations], phase' \in Phases, faults' \in 0..MaxFaults,
         working' \subseteq working, stray' \subseteq Steps, straying' \subseteq Steps,
         s \notin working', conv'[s] \notin Unwithdrawn,
         \A t \in Steps : t # s => conv'[t] = conv[t]
  PROVE  Inv'
<1> DEFINE st == [step EXCEPT ![s] = new]
<1>1. st \in [Steps -> StepStates] /\ st[s] = new /\ \A t \in Steps : t # s => st[t] = step[t]
  BY DEF Inv, TypeOK
<1>2. /\ step' \in [Steps -> StepStates]
      /\ \A t \in Steps : \/ step'[t] = st[t]
                          \/ RunOf[t] = RunOf[s] /\ st[t] \in Waiting /\ step'[t] = "skipped"
  <2>1. step' = PropagateSkips(RunOf[s], st) \/ step' = st
    OBVIOUS
  <2> HIDE DEF st
  <2>2. CASE step' = PropagateSkips(RunOf[s], st)
    BY <1>1, <2>2, SkipsWaitingOnly
  <2>3. CASE step' = st
    BY <1>1, <2>3
  <2> QED
    BY <2>1, <2>2, <2>3
<1>3. step'[s] \notin Holding
  BY <1>1, <1>2 DEF Holding
<1>4. ASSUME NEW t \in Steps, step'[t] \in Waiting, run[RunOf[t]] \in Active
      PROVE  tries[t] < MaxAttempts[t] /\ \A d \in Deps[t] : step'[d] \notin Dead
  <2>1. step'[t] = st[t]
    BY <1>2, <1>4 DEF Waiting
  <2>2. tries[t] < MaxAttempts[t] /\ \A d \in Deps[t] : step[d] \notin Dead
    BY <1>1, <1>4, <2>1 DEF Inv, WaitingCanRun
  <2>3. CASE step' = PropagateSkips(RunOf[s], st) /\ RunOf[t] = RunOf[s]
    BY <1>1, <1>4, <2>2, <2>3, SkipsComplete
  <2>4. CASE RunOf[t] # RunOf[s]
    <3>1. \A d \in Deps[t] : d \in Steps /\ RunOf[d] = RunOf[t]
      BY VersionAssumption
    <3> QED
      BY <1>1, <1>2, <2>2, <2>4, <3>1
  <2>5. CASE step' = st /\ new \notin Dead
    BY <1>1, <2>2, <2>5, VersionAssumption
  <2> QED
    BY <2>3, <2>4, <2>5
<1> QED
  BY <1>1, <1>2, <1>3, <1>4, ReleaseStep

\* Observations of finished work.
LEMMA ObserveInductive ==
  ASSUME Inv, NEW s \in Steps, Observe(s)
  PROVE  Inv'
<1> USE DEF Observe, Observable, agents
<1>1. run[RunOf[s]] \in Active /\ step[s] = "dispatched" /\ tries[s] > 0
  BY DEF Inv, FinishedReleases, RecordsAgree, Holds, Holding
<1>2. conv[s] # "ended" => s \notin working /\ conv[s] \notin Unwithdrawn
  BY DEF Inv, RecordsAgree, Answers, Unwithdrawn, Undelivered
<1>3. \A d \in Deps[s] : step[d] \notin Dead
  BY <1>1 DEF Inv, DispatchJustified, DependenciesCompleted, Dead
<1>4. CASE conv[s] = "ended"
  BY <1>1, <1>4, InterruptOne DEF Answers
<1>5. CASE conv[s] = "completed"
  <2>1. "completed" \in StepStates \ Holding /\ "completed" \notin Dead \cup Waiting
    BY DEF StepStates, Holding, Terminal, Dead, Waiting
  <2>2. step' = [step EXCEPT ![s] = "completed"]
    BY <1>5
  <2> QED
    BY <1>1, <1>2, <1>5, <2>1, <2>2, ReleaseInductive DEF Inv, TypeOK
<1>6. CASE conv[s] \in {"mismatched", "refused", "exhausted"}
  <2> DEFINE new == AfterFailure(s)
  <2>1. /\ new \in StepStates \ Holding
        /\ new \in Waiting => tries[s] < MaxAttempts[s]
        /\ new \in Dead => new = "failed"
    BY DEF AfterFailure, StepStates, Holding, Terminal, Dead, Waiting
  <2>2. LET st == [step EXCEPT ![s] = new]
        IN  \/ step' = PropagateSkips(RunOf[s], st)
            \/ step' = st /\ new \notin Dead
    BY <1>6, <2>1 DEF FailStep, Inv, TypeOK
  <2> HIDE DEF new
  <2> QED
    BY <1>1, <1>2, <1>3, <1>6, <2>1, <2>2, ReleaseInductive DEF Inv, TypeOK
<1> QED
  BY <1>4, <1>5, <1>6

\* Gates, stopped steps and the decisions of users.
LEMMA DecideInductive ==
  ASSUME Inv, NEW s \in Steps,
         \/ AwaitApproval(s) \/ CancelMoved(s) \/ \E granted \in BOOLEAN : DecideApproval(s, granted)
  PROVE  Inv'
<1> USE DEF agents
<1>1. run[RunOf[s]] \in Active /\ step[s] \in Waiting
  BY DEF AwaitApproval, CancelMoved, DecideApproval, Planning, NextPlan, Plannable, Ready, Active, Waiting
<1>2. step[s] # "completed" /\ s \notin working /\ conv[s] \notin Unwithdrawn
  BY <1>1 DEF Inv, WorkReserved, RecordsAgree, Holds, Holding, Waiting
<1>3. tries[s] < MaxAttempts[s] /\ \A d \in Deps[s] : step[d] \notin Dead
  BY <1>1 DEF Inv, WaitingCanRun
<1>4. PICK new \in {"awaiting", "pending", "cancelled"} :
        /\ \/ step' = PropagateSkips(RunOf[s], [step EXCEPT ![s] = new])
           \/ step' = [step EXCEPT ![s] = new] /\ new # "cancelled"
        /\ approved' = approved \/ approved' = approved \cup {s}
  BY DEF AwaitApproval, CancelMoved, DecideApproval
<1>5. new \in StepStates \ Holding /\ (new \in Dead => new = "cancelled")
  BY DEF StepStates, Holding, Waiting, Dead, Terminal
<1>6. UNCHANGED <<run, tries, conv, phase, faults, working, stray, straying>>
  BY DEF AwaitApproval, CancelMoved, DecideApproval
<1> QED
  BY <1>1, <1>2, <1>3, <1>4, <1>5, <1>6, ReleaseInductive DEF Inv, TypeOK

\* A confirmed interruption.
LEMMA ResolveInductive ==
  ASSUME Inv, NEW s \in Steps, ResolveInterruption(s)
  PROVE  Inv'
<1> USE DEF ResolveInterruption
<1> DEFINE new == Resolved(s)
<1>1. /\ new \in StepStates \ Holding
      /\ new \in Waiting => tries[s] < MaxAttempts[s]
  BY DEF Resolved, AfterFailure, StepStates, Holding, Terminal, Dead, Waiting
<1>2. \A d \in Deps[s] : step[d] \notin Dead
  BY DEF Inv, RecordsAgree, Holds, Holding, DispatchJustified, DependenciesCompleted, Dead
<1>3. LET st == [step EXCEPT ![s] = new]
      IN  \/ step' = PropagateSkips(RunOf[s], st)
          \/ step' = st /\ new \notin Dead
  BY DEF Inv, TypeOK
<1>4. /\ conv' \in [Steps -> Conversations] /\ conv'[s] \notin Unwithdrawn
      /\ \A t \in Steps : t # s => conv'[t] = conv[t]
  BY DEF Inv, TypeOK, Conversations, Unwithdrawn, Undelivered
<1>5. stray' \subseteq Steps /\ straying' \subseteq Steps /\ working' \subseteq working /\ s \notin working'
  BY DEF Inv, TypeOK
<1> HIDE DEF new
<1> QED
  BY <1>1, <1>2, <1>3, <1>4, <1>5, ReleaseInductive DEF Inv, TypeOK

\* A run that starts finds its steps untouched.
LEMMA StartInductive ==
  ASSUME Inv, NEW r \in Runs, StartRun(r)
  PROVE  Inv'
<1> USE DEF StartRun, agents
<1>1. run[r] = "unused" /\ run' = [run EXCEPT ![r] = "running"]
  BY RunAssumption
<1>2. TypeOK' /\ ReservationsExclusive' /\ DispatchJustified' /\ WorkReserved'
  BY <1>1 DEF Inv, TypeOK, RunStates, Active, ReservationsExclusive, DispatchJustified, WorkReserved,
              Holds, DependenciesCompleted
<1>3. FinishedReleases' /\ OneActiveRun'
  BY <1>1, RunAssumption DEF Inv, TypeOK, FinishedReleases, OneActiveRun, Active, Holds
<1>4. WaitingCanRun'
  BY <1>1, RunAssumption, VersionAssumption
     DEF Inv, TypeOK, WaitingCanRun, RecordsAgree, Waiting, Dead
<1>5. RecordsAgree'
  BY <1>1, RunAssumption DEF Inv, TypeOK, RecordsAgree, Holds
<1> QED
  BY <1>2, <1>3, <1>4, <1>5 DEF Inv

\* A dispatch takes claims that no other step holds.
LEMMA DispatchInductive ==
  ASSUME Inv, NEW s \in Steps, Dispatch(s)
  PROVE  Inv'
<1> USE DEF Dispatch, agents
<1>1. Ready(s) /\ s \notin Gated \ approved
  BY DEF Planning, NextPlan, Plannable, NeedsApproval
<1>2. /\ step[s] = "pending" /\ step'[s] = "dispatched"
      /\ \A t \in Steps : t # s => step'[t] = step[t] /\ tries'[t] = tries[t] /\ conv'[t] = conv[t]
      /\ tries'[s] = tries[s] + 1 /\ tries[s] \in Nat
      /\ conv'[s] \in {"queued", "unsent"}
  BY <1>1 DEF Inv, TypeOK, Ready
<1>3. \A t \in Steps : t # s => (Holds(t)' <=> Holds(t))
  BY <1>2 DEF Holds
<1>4. s \notin working
  BY <1>2 DEF Inv, WorkReserved, Holds, Holding
<1>5. TypeOK'
  BY <1>2 DEF Inv, TypeOK, StepStates, Holding, Conversations, Unwithdrawn, Undelivered, Phases
<1>6. ReservationsExclusive'
  <2>1. \A t \in Steps : Holds(t) => Claims[s] \cap Claims[t] = {}
    BY DEF Inv, FinishedReleases, ClaimsFree
  <2> QED
    BY <1>3, <2>1 DEF Inv, ReservationsExclusive
<1>7. FinishedReleases'
  BY <1>1, <1>3 DEF Inv, FinishedReleases, Ready, Active
<1>8. DispatchJustified'
  <2>1. \A t \in Steps : step[t] = "completed" => step'[t] = "completed"
    BY <1>2
  <2>2. \A t \in Steps, d \in Deps[s] : d \in Steps
    BY VersionAssumption
  <2>3. \A d \in Deps[s] : step'[d] = "completed"
    BY <1>1, <2>1, <2>2 DEF Ready, DependenciesCompleted
  <2>4. tries'[s] <= MaxAttempts[s]
    BY <1>2, VersionAssumption
  <2>5. \A t \in Steps : tries[t] > 0 => \A d \in Deps[t] : step'[d] = "completed"
    BY <2>1, VersionAssumption DEF Inv, DispatchJustified, DependenciesCompleted
  <2> QED
    BY <1>1, <1>2, <2>3, <2>4, <2>5 DEF Inv, DispatchJustified, DependenciesCompleted
<1>9. WaitingCanRun'
  BY <1>2, VersionAssumption DEF Inv, WaitingCanRun, Waiting, Dead
<1>10. WorkReserved'
  BY <1>3, <1>4 DEF Inv, TypeOK, WorkReserved
<1>11. OneActiveRun'
  BY DEF Inv, OneActiveRun
<1>12. RecordsAgree'
  BY <1>1, <1>2, <1>3, <1>4 DEF Inv, RecordsAgree, Ready, Holds, Holding
<1> QED
  BY <1>5, <1>6, <1>7, <1>8, <1>9, <1>10, <1>11, <1>12 DEF Inv

\* A run is settled only when none of its steps holds anything.
LEMMA SettleInductive ==
  ASSUME Inv, NEW r \in Runs, Settle(r)
  PROVE  Inv'
<1> USE DEF Settle, agents
<1>1. SettledState(r, run, step) \in Finished
  BY DEF SettledState, Finished
<1>2. /\ run[r] \in Active /\ run'[r] \in Finished
      /\ \A q \in Runs : q # r => run'[q] = run[q]
      /\ run' \in [Runs -> RunStates]
  BY <1>1 DEF Inv, TypeOK, RunStates
<1>3. TypeOK' /\ ReservationsExclusive' /\ DispatchJustified' /\ WorkReserved'
  BY <1>2 DEF Inv, TypeOK, ReservationsExclusive, DispatchJustified, WorkReserved, Holds,
              DependenciesCompleted
<1>4. FinishedReleases'
  <2>1. \A s \in StepsOf(r) : ~Holds(s)
    BY DEF AllTerminal, Holds, Holding, Terminal, Dead
  <2> QED
    BY <1>2, <2>1, RunAssumption DEF Inv, FinishedReleases, StepsOf, Holds
<1>5. WaitingCanRun'
  BY <1>2, RunAssumption DEF Inv, WaitingCanRun
<1>6. OneActiveRun'
  BY <1>2 DEF Inv, OneActiveRun, Active, Finished
<1>7. RecordsAgree'
  BY <1>2, RunAssumption DEF Inv, RecordsAgree, Finished, Holds
<1> QED
  BY <1>3, <1>4, <1>5, <1>6, <1>7 DEF Inv

\* cancel_run, complete or cut short.
LEMMA CancelInductive ==
  ASSUME Inv, NEW r \in Runs,
         \/ CancelRun(r)
         \/ \E done \in SUBSET Steps, ended \in SUBSET Steps, kind \in {"crash", "db"} :
              CancelRunStops(r, done, ended, kind)
  PROVE  Inv'
<1> USE DEF agents
<1>1. run[r] \in Active /\ UNCHANGED <<tries, approved, working, stray, straying>>
  BY DEF CancelRun, CancelRunStops
<1>2. phase' \in Phases /\ faults' \in 0..MaxFaults
  BY FaultAssumption DEF CancelRun, CancelRunStops, Fault, Inv, TypeOK, Phases
<1>3. CASE CancelRun(r)
  <2> DEFINE rn == [run EXCEPT ![r] = "cancelling"]
             st == Cancelling(r, Stopped(r))
  <2>1. Stopped(r) \in SUBSET Asked(r) /\ step' = st
    BY <1>3 DEF CancelRun, Stopped
  <2>2. rn \in [Runs -> RunStates] /\ rn[r] = "cancelling" /\ \A q \in Runs : q # r => rn[q] = run[q]
    BY DEF Inv, TypeOK, RunStates, Active
  <2>3. \A q \in Runs : SettledState(q, rn, st) \in Finished
    BY DEF SettledState, Finished
  <2>4. run' = SettleRuns(rn, st) \/ run' = rn
    BY <1>3 DEF CancelRun
  <2> HIDE DEF rn, st
  <2>5. /\ run' \in [Runs -> RunStates]
        /\ \A q \in Runs : \/ rn[q] \in Active /\ run'[q] \in Finished /\ AllTerminal(q, step')
                           \/ run'[q] = rn[q]
    BY <2>1, <2>2, <2>3, <2>4 DEF SettleRuns, RunStates
  <2>6. /\ run'[r] # "running"
        /\ \A q \in Runs :
             \/ run[q] \in Active /\ run'[q] \in Finished /\ AllTerminal(q, step')
             \/ run[q] \in Active /\ run'[q] \in Active /\ (q = r \/ run'[q] = run[q])
             \/ q # r /\ run'[q] = run[q]
    BY <1>1, <2>2, <2>5 DEF Active, Finished
  <2>7. conv' = EndConversations(Stopped(r))
    BY <1>3 DEF CancelRun
  <2>8. /\ conv' \in [Steps -> Conversations]
        /\ \A s \in Steps : conv'[s] \in Unwithdrawn => conv[s] \in Unwithdrawn
        /\ \A s \in working : conv'[s] \in {"delivered", "ended", "lost"}
    BY <2>7 DEF Inv, TypeOK, RecordsAgree, EndConversations, Conversations, Unwithdrawn, Undelivered
  <2>9. step' = Cancelling(r, Stopped(r))
    BY <1>3 DEF CancelRun
  <2> QED
    BY <1>1, <1>2, <2>1, <2>5, <2>6, <2>8, <2>9, CancelSteps
<1>4. ASSUME NEW done \in SUBSET Steps, NEW ended \in SUBSET Steps, NEW kind \in {"crash", "db"},
             CancelRunStops(r, done, ended, kind)
      PROVE  Inv'
  <2>1. done \in SUBSET Asked(r) /\ step' = Cancelling(r, done)
    BY <1>4 DEF CancelRunStops, Prefix, Stopped
  <2>2. /\ run' \in [Runs -> RunStates]
        /\ run'[r] = "cancelling" /\ \A q \in Runs : q # r => run'[q] = run[q]
    BY <1>4 DEF CancelRunStops, Inv, TypeOK, RunStates, Active
  <2>3. \A q \in Runs :
          \/ run[q] \in Active /\ run'[q] \in Active /\ (q = r \/ run'[q] = run[q])
          \/ q # r /\ run'[q] = run[q]
    BY <1>1, <2>2 DEF Active
  <2> DEFINE c == EndConversations(ended)
  <2>4. /\ c \in [Steps -> Conversations]
        /\ \A s \in Steps : c[s] \in Unwithdrawn => conv[s] \in Unwithdrawn
        /\ \A s \in working : c[s] \in {"delivered", "ended", "lost"}
    BY DEF Inv, TypeOK, RecordsAgree, EndConversations, Conversations, Unwithdrawn, Undelivered
  <2>5. conv' = AfterCrash(c) \/ conv' = c
    BY <1>4 DEF CancelRunStops
  <2> HIDE DEF c
  <2>6. /\ conv' \in [Steps -> Conversations]
        /\ \A s \in Steps : conv'[s] \in Unwithdrawn => conv[s] \in Unwithdrawn
        /\ \A s \in working : conv'[s] \in {"delivered", "ended", "lost"}
    BY <2>4, <2>5 DEF AfterCrash, Requeued, Conversations, Unwithdrawn, Undelivered, Inv, TypeOK
  <2> QED
    BY <1>1, <1>2, <2>1, <2>2, <2>3, <2>6, CancelSteps
<1> QED
  BY <1>3, <1>4

\* Every step of the scheduler keeps the invariant.
LEMMA Inductive ==
  ASSUME Inv, [Next]_vars
  PROVE  Inv'
<1>1. CASE UNCHANGED vars
  BY <1>1 DEF vars, Inv, TypeOK, ReservationsExclusive, FinishedReleases, DispatchJustified,
              WaitingCanRun, WorkReserved, OneActiveRun, RecordsAgree, Holds, DependenciesCompleted
<1>2. ASSUME NEW r \in Runs, StartRun(r) \/ Settle(r) \/ CancelRun(r) PROVE Inv'
  BY <1>2, StartInductive, SettleInductive, CancelInductive
<1>3. ASSUME NEW s \in Steps, Plan(s) PROVE Inv'
  BY <1>3, DecideInductive, DispatchInductive DEF Plan
<1>4. ASSUME NEW s \in Steps, UserDecides(s) PROVE Inv'
  BY <1>4, DecideInductive, ResolveInductive DEF UserDecides
<1>5. ASSUME NEW s \in Steps, RecoverStep(s) PROVE Inv'
  BY <1>5, InterruptOne DEF RecoverStep, agents
<1>6. ASSUME NEW s \in Steps, Observe(s) PROVE Inv'
  BY <1>6, ObserveInductive
<1>7. ASSUME NEW r \in Runs, NEW done \in SUBSET Steps, NEW ended \in SUBSET Steps,
             NEW kind \in {"crash", "db"}, CancelRunStops(r, done, ended, kind)
      PROVE  Inv'
  BY <1>7, CancelInductive
<1> QED
  BY <1>1, <1>2, <1>3, <1>4, <1>5, <1>6, <1>7, QuietInductive DEF Next, Recover

\* The invariant holds initially: nothing has started.
LEMMA Initial == Init => Inv
  BY RunAssumption, VersionAssumption, FaultAssumption
     DEF Init, Inv, TypeOK, ReservationsExclusive, FinishedReleases, DispatchJustified,
         WaitingCanRun, WorkReserved, OneActiveRun, RecordsAgree, Holds, Holding, Active, Waiting,
         Dead, Terminal, StepStates, RunStates, Conversations, Phases, Unwithdrawn, Undelivered,
         DependenciesCompleted

\* The scheduler's state is well formed in every reachable state.
THEOREM TypeCorrect == Spec => []TypeOK
<1>1. Inv => TypeOK
  BY DEF Inv
<1> QED
  BY <1>1, Initial, Inductive, PTL DEF Spec

\* Two steps that hold reservations never share an agent, a checkout or a named
\* resource, whatever runs, crashes, restarts and cancellations happen.
THEOREM Exclusion == Spec => []ReservationsExclusive
<1>1. Inv => ReservationsExclusive
  BY DEF Inv
<1> QED
  BY <1>1, Initial, Inductive, PTL DEF Spec

\* Every attempt was justified: its dependencies had completed, its gate was
\* approved and its budget was not exceeded.
THEOREM Justified == Spec => []DispatchJustified
<1>1. Inv => DispatchJustified
  BY DEF Inv
<1> QED
  BY <1>1, Initial, Inductive, PTL DEF Spec

\* Skips are complete in every state: a step that waits can still run.
THEOREM NoDoomedStep == Spec => []WaitingCanRun
<1>1. Inv => WaitingCanRun
  BY DEF Inv
<1> QED
  BY <1>1, Initial, Inductive, PTL DEF Spec

\* An agent works on the current prompt of a step only under its reservations.
THEOREM WorkUnderReservation == Spec => []WorkReserved
<1>1. Inv => WorkReserved
  BY DEF Inv
<1> QED
  BY <1>1, Initial, Inductive, PTL DEF Spec

-----------------------------------------------------------------------------
(* What a step of the scheduler does to steps and runs *)

\* Every action moves a step along: it is dispatched with free claims, released
\* alone, or keeps its hold; and nothing final changes.
Moves ==
  /\ \A s \in Steps : step[s] \in Terminal => step'[s] = step[s]
  /\ \/ \E s \in Steps : /\ ~Holds(s) /\ Holds(s)' /\ ClaimsFree(s)
                         /\ \A t \in Steps : t # s => (Holds(t)' <=> Holds(t))
     \/ \E s \in Steps : /\ Holds(s) /\ ~Holds(s)'
                         /\ \A t \in Steps : t # s => (Holds(t)' <=> Holds(t))
     \/ \A t \in Steps : Holds(t)' <=> Holds(t)

\* The change of one step that is not terminal, with the skips it causes.
LEMMA MoveOne ==
  ASSUME TypeOK, NEW s \in Steps, step[s] \notin Terminal, NEW new \in StepStates,
         \/ step' = [step EXCEPT ![s] = new]
         \/ step' = PropagateSkips(RunOf[s], [step EXCEPT ![s] = new]),
         ~Holds(s) => new \notin Holding \/ ClaimsFree(s)
  PROVE  Moves
<1> DEFINE st == [step EXCEPT ![s] = new]
<1>1. st \in [Steps -> StepStates] /\ st[s] = new /\ \A t \in Steps : t # s => st[t] = step[t]
  BY DEF TypeOK
<1>0. step' = st \/ step' = PropagateSkips(RunOf[s], st)
  OBVIOUS
<1> HIDE DEF st
<1>2. \A t \in Steps : \/ step'[t] = st[t]
                       \/ st[t] \in Waiting /\ step'[t] = "skipped"
  <2>1. CASE step' = st
    BY <2>1
  <2>2. CASE step' = PropagateSkips(RunOf[s], st)
    BY <1>1, <2>2, SkipsWaitingOnly
  <2> QED
    BY <1>0, <2>1, <2>2
<1>3. \A t \in Steps : t # s => (Holds(t)' <=> Holds(t))
  BY <1>1, <1>2 DEF Holds, Holding, Waiting
<1>4. Holds(s)' <=> new \in Holding
  BY <1>1, <1>2 DEF Holds, Holding, Waiting
<1>5. \A t \in Steps : step[t] \in Terminal => step'[t] = step[t]
  BY <1>1, <1>2 DEF Waiting, Terminal, Dead
<1> QED
  BY <1>3, <1>4, <1>5 DEF Moves

\* Every step of the scheduler is such a move, and finished runs and the
\* number of attempts are never taken back.
LEMMA StepMoves ==
  ASSUME Inv, [Next]_vars
  PROVE  /\ Moves
         /\ \A r \in Runs : run[r] \in Finished => run'[r] = run[r]
         /\ \A s \in Steps : tries'[s] >= tries[s]
<1> USE DEF agents, journal
<1> DEFINE Kept == /\ \A r \in Runs : run[r] \in Finished => run'[r] = run[r]
                   /\ \A s \in Steps : tries'[s] >= tries[s]
<1>0. UNCHANGED <<run, tries>> => Kept
  BY DEF Inv, TypeOK
<1>1. ASSUME UNCHANGED <<step, run, tries>> PROVE Moves /\ Kept
  BY <1>0, <1>1 DEF Moves, Holds
<1>2. ASSUME NEW r \in Runs, StartRun(r) \/ Settle(r) PROVE Moves /\ Kept
  <2>1. run[r] \notin Finished
    BY <1>2, RunAssumption DEF StartRun, Settle, Finished, Active
  <2> QED
    BY <1>2, <2>1 DEF StartRun, Settle, Moves, Holds, Inv, TypeOK
<1>3. ASSUME NEW s \in Steps, Observe(s) PROVE Moves /\ Kept
  <2>1. step[s] = "dispatched" /\ Holds(s) /\ UNCHANGED <<run, tries>>
    BY <1>3 DEF Observe, Observable, Holds, Holding
  <2>2. PICK new \in {"completed", "interrupted", "pending", "failed"} :
          \/ step' = [step EXCEPT ![s] = new]
          \/ step' = PropagateSkips(RunOf[s], [step EXCEPT ![s] = new])
    BY <1>3 DEF Observe, FailStep, AfterFailure
  <2> QED
    BY <1>0, <2>1, <2>2, MoveOne DEF Inv, StepStates, Waiting, Holding, Terminal, Dead
<1>4. ASSUME NEW s \in Steps, Plan(s) \/ RecoverStep(s) \/ UserDecides(s) PROVE Moves /\ Kept
  <2>1. CASE Dispatch(s)
    <3>1. step[s] = "pending" /\ ClaimsFree(s) /\ step' = [step EXCEPT ![s] = "dispatched"]
      BY <2>1 DEF Dispatch, Planning, NextPlan, Plannable, Ready
    <3>2. Kept
      BY <2>1 DEF Dispatch, Inv, TypeOK
    <3> QED
      BY <3>1, <3>2, MoveOne DEF Inv, StepStates, Waiting, Holding, Terminal, Dead
  <2>2. CASE AwaitApproval(s) \/ CancelMoved(s) \/ RecoverStep(s) \/ UserDecides(s)
    <3>1. /\ step[s] \in {"pending", "awaiting", "dispatched", "interrupted"}
          /\ UNCHANGED <<run, tries>>
      BY <2>2 DEF AwaitApproval, CancelMoved, RecoverStep, UserDecides, DecideApproval,
                  ResolveInterruption, Planning, NextPlan, Plannable, Ready
    <3>2. PICK new \in {"awaiting", "cancelled", "pending", "failed", "interrupted"} :
            /\ \/ step' = [step EXCEPT ![s] = new]
               \/ step' = PropagateSkips(RunOf[s], [step EXCEPT ![s] = new])
            /\ new = "interrupted" => step[s] = "dispatched"
      BY <2>2 DEF AwaitApproval, CancelMoved, RecoverStep, UserDecides, DecideApproval,
                  ResolveInterruption, Resolved, AfterFailure
    <3>3. new \in StepStates /\ step[s] \notin Terminal /\ (~Holds(s) => new \notin Holding)
      BY <3>1, <3>2 DEF StepStates, Waiting, Holding, Terminal, Dead, Holds
    <3> QED
      BY <1>0, <3>1, <3>2, <3>3, MoveOne DEF Inv
  <2> QED
    BY <1>4, <2>1, <2>2 DEF Plan
<1>5. ASSUME NEW r \in Runs, run[r] \in Active, NEW done \in SUBSET Asked(r),
             step' = Cancelling(r, done)
      PROVE  Moves
  BY <1>5 DEF Moves, Cancelling, Asked, Holds, Holding, Waiting, Terminal, Dead
<1>6. ASSUME NEW r \in Runs, CancelRun(r) PROVE Moves /\ Kept
  <2>1. Moves
    BY <1>5, <1>6 DEF CancelRun, Stopped
  <2>2. Kept
    BY <1>6 DEF CancelRun, SettleRuns, Active, Finished, Inv, TypeOK
  <2> QED
    BY <2>1, <2>2
<1>7. ASSUME NEW r \in Runs, NEW done \in SUBSET Steps, NEW ended \in SUBSET Steps,
             NEW kind \in {"crash", "db"}, CancelRunStops(r, done, ended, kind)
      PROVE  Moves /\ Kept
  <2>1. Moves
    BY <1>5, <1>7 DEF CancelRunStops, Prefix, Stopped
  <2>2. Kept
    BY <1>7 DEF CancelRunStops, Active, Finished, Inv, TypeOK
  <2> QED
    BY <2>1, <2>2
<1> HIDE DEF Kept
<1>8. \/ UNCHANGED <<step, run, tries>>
      \/ \E r \in Runs : StartRun(r) \/ Settle(r) \/ CancelRun(r)
      \/ \E s \in Steps : Observe(s) \/ Plan(s) \/ RecoverStep(s) \/ UserDecides(s)
      \/ \E r \in Runs, done \in SUBSET Steps, ended \in SUBSET Steps, kind \in {"crash", "db"} :
           CancelRunStops(r, done, ended, kind)
  BY DEF Next, vars, Recover, Recovered, RecoverFails, StartTick, Orchestrated, EndTick, TickFails,
         Crash, Orchestrate, Deliver, Respond, DeliverStray, FinishStray, TimelineCancel,
         TimelineRepeat, MoveAgent, CloseOrReopen
<1>9. Moves /\ Kept
  BY <1>1, <1>2, <1>3, <1>4, <1>6, <1>7, <1>8
<1> QED
  BY <1>9 DEF Kept

\* Finished runs, terminal steps and used attempts are final.
THEOREM FinalityHolds == Spec => Finality
<1>1. ASSUME Inv, [Next]_vars
      PROVE  [/\ \A r \in Runs : run[r] \in Finished => run'[r] = run[r]
              /\ \A s \in Steps : /\ step[s] \in Terminal => step'[s] = step[s]
                                  /\ tries'[s] >= tries[s]]_vars
  BY <1>1, StepMoves DEF Moves
<1> QED
  BY <1>1, Initial, Inductive, PTL DEF Spec, Finality

\* The scheduler implements the abstract reservation table.
THEOREM ImplementsTable == Spec => TableSpec
<1> DEFINE H == {s \in Steps : Holds(s)}
<1>1. Init => Table!Init
  BY DEF Init, Table!Init, Holds, Holding
<1>2. ASSUME Inv, [Next]_vars
      PROVE  [Table!Next]_H
  <2>1. Moves
    BY <1>2, StepMoves
  <2>2. ASSUME NEW s \in Steps, ~Holds(s), Holds(s)', ClaimsFree(s),
               \A t \in Steps : t # s => (Holds(t)' <=> Holds(t))
        PROVE  Table!Acquire(s)
    BY <1>2, <2>2 DEF Table!Acquire, Table!Free, ClaimsFree, Inv, FinishedReleases
  <2>3. ASSUME NEW s \in Steps, Holds(s), ~Holds(s)',
               \A t \in Steps : t # s => (Holds(t)' <=> Holds(t))
        PROVE  Table!Release(s)
    BY <2>3 DEF Table!Release
  <2>4. CASE \A t \in Steps : Holds(t)' <=> Holds(t)
    BY <2>4
  <2> QED
    BY <2>1, <2>2, <2>3, <2>4 DEF Moves, Table!Next
<1> QED
  BY <1>1, <1>2, Initial, Inductive, PTL DEF Spec, TableSpec, Table!Spec
=============================================================================
