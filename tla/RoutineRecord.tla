---------------------------- MODULE RoutineRecord ----------------------------
(***************************************************************************)
(* A routine, its versions and trigger, and one run of it, as the journal  *)
(* events of src/src/domain/workspace.rs change them, and the snapshot     *)
(* records of src/src/persistence/codec.rs they are stored in and rebuilt  *)
(* from.  The scheduler decides when a run advances: which runs it takes,  *)
(* in which order and against which reservations is RoutineScheduler.      *)
(***************************************************************************)
EXTENDS RoutineVersion, Sequences, SequencesExt

CONSTANTS
  Nothing,      \* no value
  Candidates,   \* steps and inputs of the versions users try to save
  FloorIds,     \* the floors of the workspace
  MaxVersions,  \* bound: versions of the routine
  MaxEdits      \* bound: changes of the trigger

VARIABLES
  routine,   \* its versions, oldest first, and its trigger
  run,       \* the run, Nothing before it starts
  edits      \* changes of the trigger so far

vars == <<routine, run, edits>>

Latest == Last(routine.versions)
NewVersion(c, n) == [number |-> n, inputs |-> c.inputs, steps |-> c.steps]

\* validate_routine_version: the floors that steps claim, if any, are there.
Claimed(v) == {v.steps[s].floor : s \in StepIds(v)} \ {Nothing}
Fits(v, floors) == Claimed(v) \subseteq floors

(***************************************************************************)
(* The routine.                                                            *)
(***************************************************************************)
Init ==
  /\ \E c \in Candidates :
       /\ Accepts(NewVersion(c, 1)) /\ Fits(c, FloorIds)
       /\ routine = [versions |-> <<NewVersion(c, 1)>>, trigger |-> Nothing]
  /\ run = Nothing
  /\ edits = 0

AddVersion ==
  /\ Len(routine.versions) < MaxVersions
  /\ \E c \in Candidates :
       /\ Accepts(NewVersion(c, Latest.number + 1)) /\ Fits(c, FloorIds)
       /\ routine' = [routine EXCEPT !.versions = Append(@, NewVersion(c, Latest.number + 1))]
  /\ UNCHANGED <<run, edits>>

Edit(trigger) ==
  /\ edits < MaxEdits
  /\ edits' = edits + 1
  /\ routine' = [routine EXCEPT !.trigger = trigger]
  /\ UNCHANGED run

AddTrigger ==
  /\ routine.trigger = Nothing
  /\ \E schedule \in {Nothing, 1} :
       Edit([next |-> schedule, enabled |-> TRUE, last |-> Nothing, skipped |-> 0])

ToggleTrigger ==
  /\ routine.trigger # Nothing
  /\ Edit([routine.trigger EXCEPT !.enabled = ~@])

RemoveTrigger ==
  /\ routine.trigger # Nothing
  /\ Edit(Nothing)

SkipOccurrence ==
  /\ routine.trigger # Nothing
  /\ routine.trigger.next # Nothing
  /\ Edit([routine.trigger EXCEPT !.skipped = @ + 1, !.next = @ + 1])

(***************************************************************************)
(* Starting a run.                                                         *)
(***************************************************************************)
NewStep ==
  [state |-> "pending", attempts |-> <<>>, outputs |-> {}, approval |-> Nothing,
   interruption |-> Nothing, failure |-> Nothing]

Started(v, supplied, occurrence) ==
  [version |-> v, inputs |-> ResolveInputs(v, supplied), occurrence |-> occurrence,
   state |-> "running", finished |-> FALSE, steps |-> [s \in StepIds(v) |-> NewStep]]

StartByHand ==
  /\ run = Nothing
  /\ \E supplied \in SUBSET DOMAIN Latest.inputs :
       /\ CanResolve(Latest, supplied)
       /\ run' = Started(Latest, supplied, Nothing)
  /\ UNCHANGED <<routine, edits>>

\* A trigger supplies what it observed and consumes its occurrence.
StartByTrigger ==
  /\ run = Nothing
  /\ routine.trigger # Nothing
  /\ routine.trigger.enabled
  /\ CanResolve(Latest, DOMAIN Latest.inputs)
  /\ LET occurrence == IF routine.trigger.next = Nothing THEN "change" ELSE routine.trigger.next
     IN  /\ routine.trigger.last # occurrence
         /\ run' = Started(Latest, DOMAIN Latest.inputs, occurrence)
         /\ routine' = [routine EXCEPT
              !.trigger.last = occurrence,
              !.trigger.next = IF @ = Nothing THEN Nothing ELSE @ + 1]
  /\ UNCHANGED edits

(***************************************************************************)
(* Advancing it.                                                           *)
(***************************************************************************)
Active == run # Nothing /\ ~run.finished
Step(s) == run.version.steps[s]
RunSteps == IF run = Nothing THEN {} ELSE StepIds(run.version)
StateOf(s) == run.steps[s].state
Tried(s) == Len(run.steps[s].attempts)

Ended == {"completed", "failed", "cancelled", "skipped"}
Dead == Ended \ {"completed"}

Ready(s) ==
  /\ StateOf(s) = "pending"
  /\ \A d \in Step(s).deps : StateOf(d) = "completed"

Resolves(s) ==
  \A name \in DOMAIN Step(s).binds :
    LET source == Step(s).binds[name] IN
    CASE source.from = "input" -> source.key \in DOMAIN run.inputs
      [] source.from = "output" -> source.key \in run.steps[source.step].outputs
      [] OTHER -> TRUE

\* Faulty variant: only the steps right behind a dead one are skipped.
SkippedOnce(steps) ==
  [s \in DOMAIN steps |->
    IF /\ steps[s].state \in {"pending", "awaiting"}
       /\ \E d \in Step(s).deps : steps[d].state \in {"failed", "cancelled"}
    THEN [steps[s] EXCEPT !.state = "skipped"]
    ELSE steps[s]]

\* Waiting steps behind a dead one are skipped, and so on down the graph.
Skipped(steps) ==
  LET after[n \in 0 .. Cardinality(DOMAIN steps)] ==
        IF n = 0 THEN steps
        ELSE [s \in DOMAIN steps |->
               IF /\ after[n - 1][s].state \in {"pending", "awaiting"}
                  /\ \E d \in Step(s).deps : after[n - 1][d].state \in Dead
               THEN [after[n - 1][s] EXCEPT !.state = "skipped"]
               ELSE after[n - 1][s]]
  IN  after[Cardinality(DOMAIN steps)]

Set(s, step) ==
  LET steps == [run.steps EXCEPT ![s] = step] IN
  /\ run' = [run EXCEPT !.steps = IF step.state \in Dead THEN Skipped(steps) ELSE steps]
  /\ UNCHANGED <<routine, edits>>

\* The step with its last attempt finished.
Finish(s, outcome) ==
  [run.steps[s] EXCEPT !.attempts[Tried(s)].outcome = outcome]

AwaitApproval(s) ==
  /\ run.state = "running"
  /\ Ready(s)
  /\ Step(s).approval
  /\ run.steps[s].approval = Nothing
  /\ Set(s, [run.steps[s] EXCEPT !.state = "awaiting"])

DecideApproval(s) ==
  /\ StateOf(s) = "awaiting"
  /\ \E decision \in {"approved", "rejected"} :
       Set(s, [run.steps[s] EXCEPT !.approval = decision,
                 !.state = IF decision = "approved" THEN "pending" ELSE "cancelled"])

Planned(s) ==
  /\ run.state = "running"
  /\ Ready(s)
  /\ Step(s).approval => run.steps[s].approval # Nothing

\* The pinned agent has been moved to another checkout.
CancelMoved(s) ==
  /\ Planned(s)
  /\ Set(s, [run.steps[s] EXCEPT !.state = "cancelled", !.failure = "moved"])

Dispatch(s) ==
  /\ Planned(s)
  /\ Resolves(s)
  /\ Tried(s) < Step(s).budget
  /\ Set(s, [run.steps[s] EXCEPT !.state = "dispatched",
               !.attempts = Append(@, [ordinal |-> Tried(s) + 1, outcome |-> Nothing])])

CompleteStep(s) ==
  /\ StateOf(s) = "dispatched"
  /\ Set(s, [Finish(s, "completed") EXCEPT !.state = "completed", !.outputs = Step(s).outputs])

FailStep(s) ==
  /\ StateOf(s) = "dispatched"
  /\ Set(s, [Finish(s, "failed") EXCEPT !.failure = "answer",
               !.state = IF Tried(s) < Step(s).budget THEN "pending" ELSE "failed"])

\* Faulty variant: the interruption also ends the attempt.
InterruptFinished(s) ==
  /\ StateOf(s) = "dispatched"
  /\ \E reason \in {"unknown", "unconfirmed"} :
       Set(s, [Finish(s, "cancelled") EXCEPT !.state = "interrupted", !.interruption = reason])

\* A restart, or a cancelled conversation, leaves the outcome unknown.
InterruptStep(s) ==
  /\ StateOf(s) = "dispatched"
  /\ \E reason \in {"unknown", "unconfirmed"} :
       Set(s, [run.steps[s] EXCEPT !.state = "interrupted", !.interruption = reason])

ResolveInterruption(s) ==
  /\ StateOf(s) = "interrupted"
  /\ Set(s, [Finish(s, "cancelled") EXCEPT !.interruption = Nothing,
               !.state = IF run.state = "cancelling" THEN "cancelled"
                         ELSE IF Tried(s) < Step(s).budget THEN "pending" ELSE "failed"])

CancelRun ==
  /\ run' = [run EXCEPT !.state = "cancelling",
               !.steps = [s \in RunSteps |->
                  IF StateOf(s) \in {"pending", "awaiting"}
                  THEN [@[s] EXCEPT !.state = "cancelled"] ELSE @[s]]]
  /\ UNCHANGED <<routine, edits>>

SettledState ==
  IF \E s \in RunSteps : StateOf(s) \in {"failed", "skipped"} THEN "failed"
  ELSE IF run.state = "cancelling" \/ \E s \in RunSteps : StateOf(s) = "cancelled"
  THEN "cancelled" ELSE "completed"

Settle ==
  /\ \A s \in RunSteps : StateOf(s) \notin {"dispatched", "interrupted"}
  /\ run.state = "running" => \A s \in RunSteps : StateOf(s) \in Ended
  /\ run' = [run EXCEPT !.state = SettledState, !.finished = TRUE]
  /\ UNCHANGED <<routine, edits>>

Advance(s) ==
  \/ AwaitApproval(s) \/ DecideApproval(s) \/ Dispatch(s)
  \/ CompleteStep(s) \/ FailStep(s) \/ ResolveInterruption(s)

AdvanceRun == Active /\ \E s \in RunSteps : Advance(s)
SettleRun == Active /\ Settle

Next ==
  \/ AddVersion \/ AddTrigger \/ ToggleTrigger \/ RemoveTrigger \/ SkipOccurrence
  \/ StartByHand \/ StartByTrigger
  \/ AdvanceRun \/ SettleRun
  \/ /\ Active
     /\ \/ \E s \in RunSteps : InterruptStep(s) \/ CancelMoved(s)
        \/ CancelRun

\* The scheduler runs on every tick, agents answer and users decide.
Spec == Init /\ [][Next]_vars /\ WF_vars(AdvanceRun) /\ WF_vars(SettleRun)

(***************************************************************************)
(* Snapshots: maps become lists of entries in key order, versions and runs *)
(* are built again through the rules above.                                *)
(***************************************************************************)
Entries(f) == SetToSeq({[key |-> k, value |-> f[k]] : k \in DOMAIN f})
Keyed(entries) ==
  [k \in {e.key : e \in ToSet(entries)} |-> (CHOOSE e \in ToSet(entries) : e.key = k).value]

\* The next occurrence belongs to the kind of a trigger, the last one to its
\* firing.
StoredTrigger(t) ==
  IF t = Nothing THEN <<>>
  ELSE <<[kind |-> IF t.next = Nothing THEN [type |-> "watch"] ELSE [type |-> "schedule", next |-> t.next],
          enabled |-> t.enabled, skipped |-> t.skipped,
          firing |-> IF t.last = Nothing THEN {} ELSE {t.last}]>>
RestoredTrigger(stored) ==
  IF stored = <<>> THEN Nothing
  ELSE LET t == Head(stored) IN
       [next |-> IF t.kind.type = "schedule" THEN t.kind.next ELSE Nothing,
        enabled |-> t.enabled, skipped |-> t.skipped,
        last |-> IF t.firing = {} THEN Nothing ELSE CHOOSE o \in t.firing : TRUE]

StoredVersion(v) == [number |-> v.number, inputs |-> v.inputs, steps |-> Entries(v.steps)]
StoredRoutine ==
  [versions |-> [n \in DOMAIN routine.versions |-> StoredVersion(routine.versions[n])],
   triggers |-> StoredTrigger(routine.trigger)]

StoredAttempt(a) == [ordinal |-> a.ordinal, outcome |-> a.outcome, ended |-> a.outcome # Nothing]
StoredStep(step) ==
  [step EXCEPT !.attempts = [n \in DOMAIN @ |-> StoredAttempt(@[n])]]
StoredRun ==
  IF run = Nothing THEN Nothing
  ELSE [run EXCEPT !.version = StoredVersion(@),
                   !.inputs = Entries(@),
                   !.steps = Entries([s \in DOMAIN @ |-> StoredStep(@[s])])]

\* Restoring gives the set of the one record built, or nothing when a rule
\* rejects the stored one.
RestoredVersion(stored) ==
  LET v == [number |-> stored.number, inputs |-> stored.inputs, steps |-> Keyed(stored.steps)]
  IN  IF Accepts(v) THEN {v} ELSE {}

\* The workspace a routine is restored into has its agents, and no floor yet:
\* decode_workspace adds the floors after everything else.
FloorsAtRestore == {}
RestoredRoutine(stored) ==
  LET versions == [n \in DOMAIN stored.versions |-> RestoredVersion(stored.versions[n])] IN
  IF \A n \in DOMAIN versions :
       stored.versions[n].number = n /\ \E v \in versions[n] : Fits(v, FloorsAtRestore)
  THEN {[versions |-> [n \in DOMAIN versions |-> CHOOSE v \in versions[n] : TRUE],
         trigger |-> RestoredTrigger(stored.triggers)]}
  ELSE {}

AttemptSound(stored) == stored.ended = (stored.outcome # Nothing)
StepSound(stored) ==
  LET attempts == stored.attempts IN
  /\ \A n \in DOMAIN attempts : attempts[n].ordinal = n /\ AttemptSound(attempts[n])
  /\ stored.state \in {"dispatched", "interrupted"} =>
       attempts # <<>> /\ Last(attempts).outcome = Nothing
  /\ stored.state = "interrupted" => stored.interruption # Nothing
RestoredStep(stored) ==
  [stored EXCEPT !.attempts =
     [n \in DOMAIN @ |-> [ordinal |-> @[n].ordinal, outcome |-> @[n].outcome]]]

\* The pinned version must be one of the routine's, and say which steps exist.
RestoredRun(stored, restored) ==
  {[stored EXCEPT !.version = v, !.inputs = Keyed(@), !.steps = [s \in StepIds(v) |-> RestoredStep(Keyed(@)[s])]] :
     v \in {w \in RestoredVersion(stored.version) :
              /\ w \in ToSet(restored.versions)
              /\ DOMAIN Keyed(stored.steps) = StepIds(w)
              /\ \A e \in ToSet(stored.steps) : StepSound(e.value)
              /\ stored.finished = (stored.state \in {"completed", "failed", "cancelled"})}}

Restored ==
  UNION {IF StoredRun = Nothing THEN {<<r, Nothing>>}
         ELSE {<<r, built>> : built \in RestoredRun(StoredRun, r)} :
           r \in RestoredRoutine(StoredRoutine)}

(***************************************************************************)
(* Properties.                                                             *)
(***************************************************************************)
\* What a snapshot stores of a routine and its run, at whatever point of the
\* run it is taken, is accepted by the restore rules and gives both back,
\* unless one of its versions, the old ones included, claims a floor: then the
\* snapshot is refused as a whole, and only events can rebuild the workspace.
FloorClaimed == \E v \in ToSet(routine.versions) : Claimed(v) # {}
RecordsRestore == Restored = IF FloorClaimed THEN {} ELSE {<<routine, run>>}

\* The bindings of a step that may start have a value, whichever version was
\* accepted and however the steps before it ended, unless they read an
\* optional input that was not supplied.
ReadyResolves ==
  Active => \A s \in RunSteps : Ready(s) =>
    \/ Resolves(s)
    \/ \E name \in DOMAIN Step(s).binds :
         LET source == Step(s).binds[name] IN
         source.from = "input" /\ run.version.inputs[source.key] = "optional"

\* A run of any accepted version ends: failures, rejections, interruptions
\* and cancellation leave no step waiting for one that will never complete.
Stuck == Active /\ \E s \in RunSteps : Ready(s) /\ ~Resolves(s)
EveryRunEnds == Active ~> (~Active \/ Stuck)
=============================================================================
