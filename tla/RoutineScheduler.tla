-------------------------- MODULE RoutineScheduler --------------------------
(***************************************************************************)
(* The routine scheduler (src/src/routines/engine.rs) over the run rules   *)
(* of src/src/domain/routines.rs: dependency order, approval gates, retry  *)
(* budgets, reservations, interruption and cancellation of runs.           *)
(*                                                                         *)
(* The application thread alternates between user events and its tick: the *)
(* orchestration tick first, the scheduler tick after it.  Every advance   *)
(* of a run is one journal transaction and one action here, so a crash or  *)
(* a storage error may separate any two of them.                           *)
(*                                                                         *)
(* A step is a step of one run: the pinned version gives it a run, its     *)
(* dependencies in that run, its claims (agent, canonical checkout, named  *)
(* resources), its approval gate and its retry budget.  The conversation   *)
(* of its last attempt is what the orchestrator records about the handoff. *)
(***************************************************************************)
EXTENDS Integers, FiniteSets

CONSTANTS
  Runs,          \* run identifiers, in the order they are allocated
  RoutineOf,     \* the routine of a run
  Steps,         \* steps of all runs, oldest run first, then by identifier
  RunOf,         \* the run of a step
  Deps,          \* the steps a step depends on
  AgentOf,       \* the agent a step is pinned to
  Claims,        \* the reservations a step needs
  Gated,         \* the steps that need approval
  MaxAttempts,   \* the retry budget of a step
  Movable,       \* agents that may be moved to another checkout
  Closable,      \* agents whose window may be closed, which archives them
  Controls,      \* timeline controls used: pairs of "cancel" or "repeat" and a step
  FaultKinds,    \* subset of {"crash", "db"}
  MaxFaults      \* bound: faults in a behaviour

ASSUME RunAssumption ==
  /\ Runs \subseteq Nat
  /\ Steps \subseteq Nat
  /\ RunOf \in [Steps -> Runs]
  /\ \A s, t \in Steps : s < t => RunOf[s] <= RunOf[t]
ASSUME VersionAssumption ==
  /\ Deps \in [Steps -> SUBSET Steps]
  /\ \A s \in Steps : \A d \in Deps[s] : RunOf[d] = RunOf[s]
  /\ Gated \subseteq Steps
  /\ MaxAttempts \in [Steps -> Nat \ {0}]
ASSUME FaultAssumption == MaxFaults \in Nat

StepsOf(r) == {s \in Steps : RunOf[s] = r}

Waiting == {"pending", "awaiting"}
Holding == {"dispatched", "interrupted"}
Dead == {"failed", "cancelled", "skipped"}
Terminal == Dead \cup {"completed"}
StepStates == Waiting \cup Holding \cup Terminal
Active == {"running", "cancelling"}
Finished == {"completed", "failed", "cancelled"}
RunStates == {"unused"} \cup Active \cup Finished

\* The prompt of the last attempt waits in a mailbox (queued, or trying after
\* a failed write), never got into one (unsent), was being written when the
\* application crashed (lost), or was given up (exhausted); a delivered prompt
\* is answered or its handoff is ended.
Undelivered == {"queued", "trying"}
Unwithdrawn == Undelivered \cup {"unsent"}
Answers == {"completed", "mismatched", "refused"}
Conversations ==
  {"none", "unsent", "delivered", "lost", "exhausted", "ended"} \cup Undelivered \cup Answers
Phases == {"ui", "orchestrate", "schedule", "down"}

VARIABLES
  run,        \* state of each run
  step,       \* state of each step
  tries,      \* attempts of each step
  approved,   \* gated steps whose approval is recorded as granted
  conv,       \* conversation of the last attempt of each step
  away,       \* agents that run outside the checkout they were pinned to
  gone,       \* archived agents
  phase,      \* what the application thread does
  faults,     \* faults so far
  working,    \* steps whose current prompt an agent has and works on
  stray,      \* steps with an undelivered prompt of an abandoned attempt
  straying    \* steps an agent works on because of such a prompt

journal == <<run, step, tries, approved>>
agents == <<working, stray, straying>>
vars == <<run, step, tries, approved, conv, away, gone, phase, faults, working, stray, straying>>

Holds(s) == step[s] \in Holding

-----------------------------------------------------------------------------
(* RoutineRun: domain/routines.rs *)

DependenciesCompleted(s) == \A d \in Deps[s] : step[d] = "completed"

\* propagate_skips: the least set of waiting steps of a run that holds every
\* waiting step with a dead dependency or a dependency in the set.
Skips(r, st) ==
  LET waiting == {s \in StepsOf(r) : st[s] \in Waiting}
      Closed(C) == \A s \in waiting :
                     (\E d \in Deps[s] : st[d] \in Dead \/ d \in C) => s \in C
  IN  {s \in waiting : \A C \in SUBSET waiting : Closed(C) => s \in C}

PropagateSkips(r, st) ==
  LET skipped == Skips(r, st)
  IN  [s \in Steps |-> IF s \in skipped THEN "skipped" ELSE st[s]]

\* A failed or resolved attempt goes back to pending while its budget lasts.
AfterFailure(s) == IF tries[s] < MaxAttempts[s] THEN "pending" ELSE "failed"

FailStep(s) ==
  LET st == [step EXCEPT ![s] = AfterFailure(s)]
  IN  step' = IF st[s] = "failed" THEN PropagateSkips(RunOf[s], st) ELSE st

Resolved(s) == IF run[RunOf[s]] = "cancelling" THEN "cancelled" ELSE AfterFailure(s)

AllTerminal(r, st) == \A s \in StepsOf(r) : st[s] \in Terminal

SettledState(r, rn, st) ==
  IF \E s \in StepsOf(r) : st[s] \in {"failed", "skipped"} THEN "failed"
  ELSE IF rn[r] = "cancelling" \/ \E s \in StepsOf(r) : st[s] = "cancelled" THEN "cancelled"
  ELSE "completed"

\* settle_runs: every active run whose steps are all terminal is finished.
SettleRuns(rn, st) ==
  [r \in Runs |-> IF rn[r] \in Active /\ AllTerminal(r, st)
                  THEN SettledState(r, rn, st) ELSE rn[r]]

-----------------------------------------------------------------------------
(* start_run *)

\* Identifiers grow, and a routine has one active run at a time.
StartRun(r) ==
  /\ phase = "ui"
  /\ \A q \in Runs : q >= r => run[q] = "unused"
  /\ \A q \in Runs : run[q] \in Active => RoutineOf[q] # RoutineOf[r]
  /\ run' = [run EXCEPT ![r] = "running"]
  /\ UNCHANGED <<step, tries, approved, conv, away, gone, phase, faults, agents>>

-----------------------------------------------------------------------------
(* The orchestration tick, as the scheduler sees it *)

StartTick ==
  /\ phase = "ui"
  /\ phase' = "orchestrate"
  /\ UNCHANGED <<journal, conv, away, gone, faults, agents>>

Deliver(s) ==
  /\ phase = "orchestrate" /\ conv[s] \in Undelivered
  /\ \/ /\ AgentOf[s] \notin gone
        /\ conv' = [conv EXCEPT ![s] = "delivered"] /\ working' = working \cup {s}
     \/ conv' = [conv EXCEPT ![s] = "trying"] /\ working' = working
     \/ conv' = [conv EXCEPT ![s] = "exhausted"] /\ working' = working
  /\ UNCHANGED <<journal, away, gone, phase, faults, stray, straying>>

\* An agent answers once, and has stopped working when it does.
Respond(s) ==
  /\ phase = "orchestrate" /\ conv[s] = "delivered"
  /\ \E answer \in Answers : conv' = [conv EXCEPT ![s] = answer]
  /\ working' = working \ {s}
  /\ UNCHANGED <<journal, away, gone, phase, faults, stray, straying>>

DeliverStray(s) ==
  /\ phase = "orchestrate" /\ s \in stray
  /\ stray' = stray \ {s}
  /\ straying' \in {straying, straying \cup {s}}
  /\ UNCHANGED <<journal, conv, away, gone, phase, faults, working>>

FinishStray(s) ==
  /\ phase = "orchestrate" /\ s \in straying
  /\ straying' = straying \ {s}
  /\ UNCHANGED <<journal, conv, away, gone, phase, faults, working, stray>>

Orchestrated ==
  /\ phase = "orchestrate"
  /\ phase' = "schedule"
  /\ UNCHANGED <<journal, conv, away, gone, faults, agents>>

-----------------------------------------------------------------------------
(* RoutineScheduler::tick: observe, then dispatch, then settle *)

\* next_observation finds something to record about a dispatched step.
Observable(s) ==
  step[s] = "dispatched" /\ conv[s] \in Answers \cup {"ended", "exhausted"}

Observe(s) ==
  /\ phase = "schedule" /\ Observable(s)
  /\ \/ conv[s] = "completed" /\ step' = [step EXCEPT ![s] = "completed"]
     \/ conv[s] = "ended" /\ step' = [step EXCEPT ![s] = "interrupted"]
     \/ conv[s] \in {"mismatched", "refused", "exhausted"} /\ FailStep(s)
  /\ UNCHANGED <<run, tries, approved, conv, away, gone, phase, faults, agents>>

NothingToObserve == \A s \in Steps : ~Observable(s)

\* Faulty variants: a run checks its own reservations only; an interrupted step
\* counts as stopped; claims of a step dispatched once are never free again.
OwnClaimsFree(s) ==
  \A t \in StepsOf(RunOf[s]) : Holds(t) => Claims[s] \cap Claims[t] = {}
ClaimsIdle(s) ==
  \A t \in Steps : step[t] = "dispatched" => Claims[s] \cap Claims[t] = {}
ClaimsNeverUsed(s) ==
  \A t \in Steps : s # t /\ tries[t] > 0 => Claims[s] \cap Claims[t] = {}

\* held_reservations of every active run.
ClaimsFree(s) ==
  \A t \in Steps : run[RunOf[t]] \in Active /\ Holds(t) => Claims[s] \cap Claims[t] = {}

\* Faulty variant: a step is ready as soon as its dependencies were dispatched.
ReadyEarly(s) ==
  run[RunOf[s]] = "running" /\ step[s] = "pending" /\ \A d \in Deps[s] : tries[d] > 0

Ready(s) == run[RunOf[s]] = "running" /\ step[s] = "pending" /\ DependenciesCompleted(s)
NeedsApproval(s) == s \in Gated \ approved
Moved(s) == AgentOf[s] \in away

\* next_dispatch: the first ready step that is not held up by a claim.
Plannable(s) == Ready(s) /\ (NeedsApproval(s) \/ Moved(s) \/ ClaimsFree(s))
NextPlan(s) == Plannable(s) /\ \A t \in Steps : Plannable(t) => s <= t

Planning(s) == phase = "schedule" /\ NothingToObserve /\ NextPlan(s)

AwaitApproval(s) ==
  /\ Planning(s) /\ NeedsApproval(s)
  /\ step' = [step EXCEPT ![s] = "awaiting"]
  /\ UNCHANGED <<run, tries, approved, conv, away, gone, phase, faults, agents>>

CancelMoved(s) ==
  /\ Planning(s) /\ ~NeedsApproval(s) /\ Moved(s)
  /\ step' = PropagateSkips(RunOf[s], [step EXCEPT ![s] = "cancelled"])
  /\ UNCHANGED <<run, tries, approved, conv, away, gone, phase, faults, agents>>

\* One transaction records the attempt, the task, the handoff and the
\* reservations; the root is then queued in the recipient's mailbox.  An
\* archived recipient has no mailbox: the error abandons the tick.
Dispatch(s) ==
  /\ Planning(s) /\ ~NeedsApproval(s) /\ ~Moved(s) /\ ClaimsFree(s)
  /\ tries[s] < MaxAttempts[s]
  /\ step' = [step EXCEPT ![s] = "dispatched"]
  /\ tries' = [tries EXCEPT ![s] = @ + 1]
  /\ conv' = [conv EXCEPT ![s] = IF AgentOf[s] \in gone THEN "unsent" ELSE "queued"]
  /\ phase' = IF AgentOf[s] \in gone THEN "ui" ELSE phase
  /\ UNCHANGED <<run, approved, away, gone, faults, agents>>

NothingToPlan == \A s \in Steps : ~Plannable(s)

Settle(r) ==
  /\ phase = "schedule" /\ NothingToObserve /\ NothingToPlan
  /\ run[r] \in Active /\ AllTerminal(r, step)
  /\ run' = [run EXCEPT ![r] = SettledState(r, run, step)]
  /\ UNCHANGED <<step, tries, approved, conv, away, gone, phase, faults, agents>>

EndTick ==
  /\ phase = "schedule" /\ NothingToObserve /\ NothingToPlan
  /\ \A r \in Runs : run[r] \in Active => ~AllTerminal(r, step)
  /\ phase' = "ui"
  /\ UNCHANGED <<journal, conv, away, gone, faults, agents>>

-----------------------------------------------------------------------------
(* User events: the routines panel and the timeline *)

DecideApproval(s, granted) ==
  /\ phase = "ui" /\ step[s] = "awaiting" /\ run[RunOf[s]] \in Active
  /\ IF granted
     THEN step' = [step EXCEPT ![s] = "pending"] /\ approved' = approved \cup {s}
     ELSE step' = PropagateSkips(RunOf[s], [step EXCEPT ![s] = "cancelled"]) /\ approved' = approved
  /\ UNCHANGED <<run, tries, conv, away, gone, phase, faults, agents>>

\* The user confirms that nothing works on the step any more.  A prompt that
\* still waits for a mailbox or in one is not withdrawn.
ResolveInterruption(s) ==
  /\ phase = "ui" /\ step[s] = "interrupted" /\ run[RunOf[s]] \in Active
  /\ LET st == [step EXCEPT ![s] = Resolved(s)]
     IN  step' = IF st[s] \in Dead THEN PropagateSkips(RunOf[s], st) ELSE st
  /\ working' = working \ {s}
  /\ stray' = IF conv[s] \in Unwithdrawn THEN stray \cup {s} ELSE stray
  /\ conv' = IF conv[s] \in Unwithdrawn THEN [conv EXCEPT ![s] = "ended"] ELSE conv
  /\ UNCHANGED <<run, tries, approved, away, gone, phase, faults, straying>>

\* cancel_task is refused for a handoff that has ended or whose task has.
Cancellable(s) == conv[s] \in Unwithdrawn \cup {"delivered", "lost"}

Asked(r) == {s \in StepsOf(r) : step[s] = "dispatched"}

\* The dispatched steps that cancel_run reaches before one it may not cancel.
Stopped(r) == {s \in Asked(r) : \A t \in Asked(r) : t <= s => Cancellable(t)}

\* request_cancellation and the interruption of the steps in done.
Cancelling(r, done) ==
  [s \in Steps |-> CASE RunOf[s] = r /\ step[s] \in Waiting -> "cancelled"
                     [] s \in done -> "interrupted"
                     [] OTHER -> step[s]]

EndConversations(ended) == [s \in Steps |-> IF s \in ended THEN "ended" ELSE conv[s]]

CancelRun(r) ==
  /\ phase = "ui" /\ run[r] \in Active
  /\ step' = Cancelling(r, Stopped(r))
  /\ conv' = EndConversations(Stopped(r))
  /\ LET rn == [run EXCEPT ![r] = "cancelling"]
     IN  run' = IF Stopped(r) = Asked(r) THEN SettleRuns(rn, Cancelling(r, Stopped(r))) ELSE rn
  /\ UNCHANGED <<tries, approved, away, gone, phase, faults, agents>>

TimelineCancel(s) ==
  /\ <<"cancel", s>> \in Controls
  /\ phase = "ui" /\ Cancellable(s)
  /\ conv' = [conv EXCEPT ![s] = "ended"]
  /\ UNCHANGED <<journal, away, gone, phase, faults, agents>>

\* Retry and Resume send the prompt of the task again, outside the run.
TimelineRepeat(s) ==
  /\ <<"repeat", s>> \in Controls
  /\ phase = "ui" /\ conv[s] \in {"ended", "exhausted", "refused"}
  /\ stray' = stray \cup {s}
  /\ UNCHANGED <<journal, conv, away, gone, phase, faults, working, straying>>

MoveAgent(a) ==
  /\ phase = "ui" /\ a \in Movable
  /\ away' = IF a \in away THEN away \ {a} ELSE away \cup {a}
  /\ UNCHANGED <<journal, conv, gone, phase, faults, agents>>

\* Closing and reopening the window of an agent that runs in the default
\* checkout: without a node it is still taken to run there.
CloseOrReopen(a) ==
  /\ phase = "ui" /\ a \in Closable
  /\ gone' = IF a \in gone THEN gone \ {a} ELSE gone \cup {a}
  /\ UNCHANGED <<journal, conv, away, phase, faults, agents>>

-----------------------------------------------------------------------------
(* Storage errors, crashes and RoutineScheduler::recover *)

Fault(kind) == kind \in FaultKinds /\ faults < MaxFaults /\ faults' = faults + 1

\* A storage error abandons the tick.
TickFails ==
  /\ phase \in {"orchestrate", "schedule"} /\ Fault("db")
  /\ phase' = "ui"
  /\ UNCHANGED <<journal, conv, away, gone, agents>>

\* Orchestrator::recover queues every root that was never attempted, unless
\* the agent of one of them is archived: then nothing is queued.  The write
\* that a crash cuts short may or may not have reached the agent.
Requeued(c) ==
  IF \E s \in Steps : c[s] \in {"queued", "unsent"} /\ AgentOf[s] \in gone
  THEN "unsent" ELSE "queued"
AfterCrash(c) ==
  [s \in Steps |-> CASE c[s] = "trying" -> "lost"
                     [] c[s] \in {"queued", "unsent"} -> Requeued(c)
                     [] OTHER -> c[s]]

Crash ==
  /\ phase # "down" /\ Fault("crash")
  /\ phase' = "down"
  /\ \/ conv' = AfterCrash(conv) /\ working' = working
     \/ \E s \in Steps :
          /\ phase = "orchestrate" /\ conv[s] \in Undelivered /\ AgentOf[s] \notin gone
          /\ conv' = AfterCrash([conv EXCEPT ![s] = "trying"])
          /\ working' \in {working, working \cup {s}}
  /\ stray' \in SUBSET stray
  /\ UNCHANGED <<journal, away, gone, straying>>

Prefix(P, S) == P \subseteq S /\ \A s \in P, t \in S : t < s => t \in P

\* cancel_run stops between two of its transactions: the steps in done are
\* interrupted, and one more task may already be cancelled.
CancelRunStops(r, done, ended, kind) ==
  /\ phase = "ui" /\ run[r] \in Active
  /\ Fault(kind)
  /\ Prefix(done, Stopped(r)) /\ Prefix(ended, Stopped(r))
  /\ done \subseteq ended /\ \A s, t \in ended \ done : s = t
  /\ run' = [run EXCEPT ![r] = "cancelling"]
  /\ step' = Cancelling(r, done)
  /\ conv' = IF kind = "crash" THEN AfterCrash(EndConversations(ended)) ELSE EndConversations(ended)
  /\ phase' = IF kind = "crash" THEN "down" ELSE "ui"
  /\ UNCHANGED <<tries, approved, away, gone, agents>>

\* Faulty variant: a restart makes dispatched work ready again.
RecoverPending(s) ==
  /\ phase = "down"
  /\ run[RunOf[s]] \in Active /\ step[s] = "dispatched"
  /\ step' = [step EXCEPT ![s] = "pending"]
  /\ UNCHANGED <<run, tries, approved, conv, away, gone, phase, faults, agents>>

\* The outcome of a step dispatched before the restart is unknown.
RecoverStep(s) ==
  /\ phase = "down"
  /\ run[RunOf[s]] \in Active /\ step[s] = "dispatched"
  /\ step' = [step EXCEPT ![s] = "interrupted"]
  /\ UNCHANGED <<run, tries, approved, conv, away, gone, phase, faults, agents>>

Recovered ==
  /\ phase = "down"
  /\ \A s \in Steps : run[RunOf[s]] \in Active => step[s] # "dispatched"
  /\ phase' = "ui"
  /\ UNCHANGED <<journal, conv, away, gone, faults, agents>>

\* A storage error in recovery leaves a default scheduler.
RecoverFails ==
  /\ phase = "down" /\ Fault("db")
  /\ \E s \in Steps : run[RunOf[s]] \in Active /\ step[s] = "dispatched"
  /\ phase' = "ui"
  /\ UNCHANGED <<journal, conv, away, gone, agents>>

-----------------------------------------------------------------------------
Init ==
  /\ run = [r \in Runs |-> "unused"]
  /\ step = [s \in Steps |-> "pending"]
  /\ tries = [s \in Steps |-> 0]
  /\ approved = {}
  /\ conv = [s \in Steps |-> "none"]
  /\ away = {} /\ gone = {}
  /\ phase = "ui"
  /\ faults = 0
  /\ working = {} /\ stray = {} /\ straying = {}

Orchestrate(s) == Deliver(s) \/ Respond(s) \/ DeliverStray(s) \/ FinishStray(s)
Plan(s) == AwaitApproval(s) \/ CancelMoved(s) \/ Dispatch(s)
Recover == Recovered \/ RecoverFails \/ \E s \in Steps : RecoverStep(s)
UserDecides(s) == ResolveInterruption(s) \/ \E granted \in BOOLEAN : DecideApproval(s, granted)

Next ==
  \/ \E r \in Runs : StartRun(r) \/ Settle(r) \/ CancelRun(r)
  \/ \E s \in Steps : \/ Orchestrate(s) \/ Observe(s) \/ Plan(s) \/ UserDecides(s)
                      \/ TimelineCancel(s) \/ TimelineRepeat(s)
  \/ \E a \in Movable : MoveAgent(a)
  \/ \E a \in Closable : CloseOrReopen(a)
  \/ StartTick \/ Orchestrated \/ EndTick
  \/ TickFails \/ Crash \/ Recover
  \/ \E r \in Runs, done \in SUBSET Steps, ended \in SUBSET Steps, kind \in {"crash", "db"} :
       CancelRunStops(r, done, ended, kind)

Spec == Init /\ [][Next]_vars

\* The application thread goes through its ticks, and is started again after a
\* crash; in every phase one of these steps can be taken.
Thread ==
  \/ StartTick \/ Orchestrated \/ EndTick \/ Recover
  \/ \E s \in Steps : Observe(s) \/ Plan(s)
  \/ \E r \in Runs : Settle(r)
Answer == \E s \in Steps : Deliver(s) \/ Respond(s)
Decide == \E s \in Steps : UserDecides(s)

\* Agents answer the prompts they have, and users decide what waits for a
\* decision: the code obliges neither, so what is shown is that nothing else is
\* needed.
Fairness == WF_vars(Thread) /\ SF_vars(Answer) /\ SF_vars(Decide)

FairSpec == Spec /\ Fairness

-----------------------------------------------------------------------------
(* Properties *)

\* The state is well formed.
TypeOK ==
  /\ run \in [Runs -> RunStates]
  /\ step \in [Steps -> StepStates]
  /\ tries \in [Steps -> Nat]
  /\ approved \subseteq Steps
  /\ conv \in [Steps -> Conversations]
  /\ phase \in Phases
  /\ faults \in 0..MaxFaults
  /\ working \subseteq Steps /\ stray \subseteq Steps /\ straying \subseteq Steps

\* No two steps that hold reservations, of one run or of two, share a claim.
ReservationsExclusive ==
  \A s, t \in Steps : s # t /\ Holds(s) /\ Holds(t) => Claims[s] \cap Claims[t] = {}

\* A finished run holds nothing, so its claims are really free.
FinishedReleases ==
  \A s \in Steps : Holds(s) => run[RunOf[s]] \in Active

\* A step that was ever dispatched had all of its dependencies completed, its
\* approval if it is gated, and stays within its retry budget.
DispatchJustified ==
  \A s \in Steps :
    tries[s] > 0 => /\ DependenciesCompleted(s)
                    /\ s \in Gated => s \in approved
                    /\ tries[s] <= MaxAttempts[s]

\* A step that waits for dispatch can still run: its budget is not used up
\* and none of its dependencies is dead.
WaitingCanRun ==
  \A s \in Steps :
    step[s] \in Waiting /\ run[RunOf[s]] \in Active =>
      tries[s] < MaxAttempts[s] /\ \A d \in Deps[s] : step[d] \notin Dead

\* An agent works on the current prompt of a step only while the step holds
\* its reservations.
WorkReserved == \A s \in working : Holds(s)

\* The records of steps, attempts and conversations agree: an unused run is
\* untouched, a reservation belongs to an attempt, a prompt that may still be
\* written belongs to a step with reservations, and an agent that works on a
\* prompt has not answered it.
RecordsAgree ==
  \A s \in Steps :
    /\ run[RunOf[s]] = "unused" => step[s] = "pending" /\ tries[s] = 0
    /\ Holds(s) => tries[s] > 0
    /\ conv[s] \in Unwithdrawn => Holds(s)
    /\ s \in working => conv[s] \in {"delivered", "ended", "lost"}

\* Repeated triggers coalesce: a routine never has two active runs.
OneActiveRun ==
  \A q, r \in Runs :
    q # r /\ run[q] \in Active /\ run[r] \in Active => RoutineOf[q] # RoutineOf[r]

\* What a step of an active run may wait for between ticks: a decision, a
\* confirmation, an answer, or the next tick.
Awaits(s) ==
  \/ step[s] \in {"awaiting", "interrupted"}
  \/ step[s] = "dispatched" /\ conv[s] \notin {"none", "unsent", "lost"}
  \/ Ready(s)

\* A comment of the code (routines/engine.rs:504-506), and not kept for an agent
\* that was archived: between ticks no step sits dispatched with a prompt that
\* nothing delivers.
DispatchedEnds ==
  phase = "ui" => \A s \in Steps : step[s] = "dispatched" => Awaits(s)

\* Documented (docs/routines.md:81), and not kept by the prompts of abandoned
\* attempts: work that holds the same checkout never runs twice at once,
\* whatever made the agent start it.
AgentsIsolated ==
  \A s \in working \cup straying, t \in working \cup straying :
    s # t => Claims[s] \cap Claims[t] = {}

\* A comment of the code (routines/engine.rs:347-350), and not kept when a step's
\* task was cancelled by the user: a run that is being cancelled never holds a
\* step that waits for dispatch.
CancellingNeverWaits ==
  \A s \in Steps : run[RunOf[s]] = "cancelling" => step[s] \notin Waiting

\* What is final stays final: finished runs, terminal steps, used attempts.
Finality ==
  [][/\ \A r \in Runs : run[r] \in Finished => run'[r] = run[r]
     /\ \A s \in Steps : /\ step[s] \in Terminal => step'[s] = step[s]
                         /\ tries'[s] >= tries[s]]_vars

\* The scheduler implements the reservation table: a step takes all its claims
\* at once when it is dispatched, gives them all back at once, and a crash, a
\* restart or a cancellation takes none away.
Table == INSTANCE ReservationTable WITH
  Holders <- Steps, ClaimsOf <- Claims, held <- {s \in Steps : Holds(s)}
TableSpec == Table!Spec

\* Whenever a run is active there is a later moment when none is, if agents
\* answer and users decide: no dependency, claim, budget or gate leaves a run
\* waiting for ever (a run that was started is no longer active once it finished),
\* unless a storage error or the timeline cancels a task (CancellingNeverWaits).
RunActive == \E r \in Runs : run[r] \in Active
RunsFinish == RunActive ~> ~RunActive
=============================================================================
