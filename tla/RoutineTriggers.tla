-------------------------- MODULE RoutineTriggers --------------------------
(***************************************************************************)
(* The triggers of one routine (src/routines/triggers.rs), and what the    *)
(* application does with what they report on every tick (run_routine_tick, *)
(* record_missed_occurrences and start_triggered_run in src/app.rs).       *)
(*                                                                         *)
(* The routine has one trigger of each observed kind: "fs" hashes the      *)
(* files of the active checkout, "git" compares the watched refs with a    *)
(* baseline, "sched" counts the occurrences of a cadence.  The watcher     *)
(* lives in memory and starts again with the program; the triggers and     *)
(* the runs are in the journal.  The reports of one poll are started in    *)
(* the order of the trigger identities, and each start is a journal        *)
(* transaction that can fail on its own.                                   *)
(*                                                                         *)
(* A hash is the tree it was made from.  The ages of an observation and of *)
(* a scan stop at the value the code compares them with.  The clock stops  *)
(* at Horizon: no occurrence later than that is in the model.              *)
(***************************************************************************)
EXTENDS Naturals, FiniteSets, Sequences, FiniteSetsExt

CONSTANTS
  Trees,          \* what the files of a checkout can look like
  Oversized,      \* the trees with more than MAX_SCANNED_ENTRIES entries
  Refs,           \* the watched refs, numbered in the order of their names
  Revisions,      \* the commits a ref can point to
  Nothing,        \* no observation, no firing
  Order,          \* the triggers in the order of their identities
  Period,         \* between two occurrences of the cadence
  Debounce,       \* how long a tree must stay the same to be reported
  ScanInterval,   \* MIN_SCAN_INTERVAL_MS
  MaxCatchup,     \* MAX_CATCHUP_OCCURRENCES
  Horizon,        \* bound: the last instant of the clock
  Switchable,     \* bound: the triggers the user switches on and off
  MaxChanges,     \* bound: changes to files, refs, floors and switches
  MaxRestarts     \* bound: restarts of the program

Triggers == {"fs", "git", "sched"}
Absent == "absent"      \* a ref that does not exist

ASSUME TriggerBounds ==
  /\ Period \in Nat \ {0} /\ MaxCatchup \in Nat \ {0}
  /\ {Debounce, ScanInterval, Horizon, MaxChanges, MaxRestarts} \subseteq Nat
  /\ Refs \subseteq Nat /\ Switchable \subseteq Triggers /\ Oversized \subseteq Trees
  /\ Len(Order) = 3 /\ {Order[i] : i \in 1..3} = Triggers

\* What the occurrences of the triggers can be; none of them is "no firing".
Occurrences ==
  {<<"fs", t>> : t \in Trees} \union {<<"git", r, v>> : r \in Refs, v \in Revisions \union {Absent}}
    \union {<<"sched", o>> : o \in 0..Horizon}
ASSUME NothingAssumption == Nothing \notin Occurrences

VARIABLES
  now,       \* the clock
  tree,      \* the files of the active checkout
  refs,      \* what each watched ref points to
  enabled,   \* which triggers are enabled
  next,      \* the stored next occurrence of the schedule
  last,      \* the last firing each trigger recorded
  runs,      \* the runs the triggers started, in order
  active,    \* whether the routine has a run that has not ended
  watcher,   \* the in-memory state of the TriggerWatcher
  counted,   \* history: how often each occurrence was counted as skipped
  joined,    \* history: the last change refused for a run already there
  changes,   \* bound: changes so far
  restarts   \* bound: restarts so far

world == <<tree, refs>>
vars == <<now, tree, refs, enabled, next, last, runs, active, watcher,
          counted, joined, changes, restarts>>

-----------------------------------------------------------------------------
(* What a poll observes *)

NewWatcher(start) ==
  [start |-> start, fs |-> Nothing, git |-> Nothing,
   scanned |-> [t \in {"fs", "git"} |-> ScanInterval],
   firstTree |-> Nothing, firstRefs |-> Nothing]

\* Enabled, and not scanned within the last interval.
Scans(t) == enabled[t] /\ watcher.scanned[t] = ScanInterval

FilesScanned == Scans("fs") /\ tree \notin Oversized

\* Faulty variant: every scan of an unreported tree starts its window again.
WindowRestarts ==
  IF ~FilesScanned THEN watcher.fs
  ELSE IF watcher.fs = Nothing
    THEN [digest |-> tree, age |-> 0, fired |-> TRUE]
  ELSE IF watcher.fs.digest # tree \/ ~watcher.fs.fired
    THEN [digest |-> tree, age |-> 0, fired |-> FALSE]
  ELSE watcher.fs

\* The first observation is the baseline; a new digest opens a window.
FilesSeen ==
  IF ~FilesScanned THEN watcher.fs
  ELSE IF watcher.fs = Nothing
    THEN [digest |-> tree, age |-> 0, fired |-> TRUE]
  ELSE IF watcher.fs.digest # tree
    THEN [digest |-> tree, age |-> 0, fired |-> FALSE]
  ELSE watcher.fs

FilesReport == FilesScanned /\ ~FilesSeen.fired /\ FilesSeen.age >= Debounce

RefsSeen ==
  IF Scans("git") /\ watcher.git = Nothing THEN refs ELSE watcher.git

ChangedRefs ==
  {r \in Refs : refs[r] # Absent /\ watcher.git # Nothing /\ watcher.git[r] # refs[r]}

RefsReport == Scans("git") /\ ChangedRefs # {}

\* The first MaxCatchup occurrences that are due.
Due == {t \in next..now : t % Period = 0 /\ t < next + MaxCatchup * Period}

\* The occurrences a poll may fire: those of this session.
FiringDue == {t \in Due : t >= watcher.start}

ScheduleReport == enabled["sched"] /\ FiringDue # {}

Skipped == IF ~enabled["sched"] THEN {}
           ELSE IF FiringDue = {} THEN Due ELSE Due \ {Min(FiringDue)}

\* The first occurrence the poll did not look at.
NextDue == IF Due = {} THEN next ELSE Max(Due) + Period

Reports(t) == CASE t = "fs" -> FilesReport
                [] t = "git" -> RefsReport
                [] t = "sched" -> ScheduleReport

\* The identity of what a trigger reports: the tree, the first changed ref
\* and its revision, or the instant.
Occurrence(t) ==
  CASE t = "fs" -> <<"fs", tree>>
    [] t = "git" -> <<"git", Min(ChangedRefs), refs[Min(ChangedRefs)]>>
    [] t = "sched" -> <<"sched", Min(FiringDue)>>

\* Faulty variant: only the last firing of the trigger is looked at.
LastOnly(t) == last[t] = Occurrence(t)

\* The trigger already consumed the occurrence: in a run, or as its last firing.
OccurrenceConsumed(t) ==
  \/ \E i \in DOMAIN runs : runs[i].occurrence = Occurrence(t)
  \/ last[t] = Occurrence(t)

-----------------------------------------------------------------------------
(* What the application does with the reports *)

Before(t, u) ==
  \E i, j \in 1..3 : i < j /\ Order[i] = t /\ Order[j] = u

\* Nothing but the storage can refuse this start.
Startable(t) == Reports(t) /\ ~OccurrenceConsumed(t) /\ ~active

\* The one report of this poll that starts a run; faults are the transactions
\* that the storage refuses.
Starts(t, faults) ==
  /\ Startable(t) /\ t \notin faults
  /\ \A u \in Triggers : Before(u, t) => ~(Startable(u) /\ u \notin faults)

\* A storage fault is the only error that is worth a retry; a report that comes
\* after the start of another is refused before it reaches the storage.
Retries(t, faults) ==
  /\ Startable(t) /\ t \in faults
  /\ \A u \in Triggers : Before(u, t) => ~Starts(u, faults)

\* mark_consumed: a run was started, or the report can never start one.
Consumed(t, faults) == Reports(t) /\ ~Retries(t, faults)

\* SkipRoutineOccurrences, and then the start of the run, each move the
\* schedule in a transaction of its own.
MoveSchedule(faults) ==
  LET recorded == Skipped # {} /\ "missed" \notin faults
  IN /\ counted' = IF recorded
                     THEN [o \in DOMAIN counted |->
                             counted[o] + IF o \in Skipped THEN 1 ELSE 0]
                     ELSE counted
     /\ next' = IF recorded \/ Starts("sched", faults) THEN NextDue ELSE next

\* start_triggered_run for every report, in order.
StartRuns(faults) ==
  LET started == {t \in Triggers : Starts(t, faults)}
      run == CHOOSE t \in started : TRUE
  IN IF started = {} THEN UNCHANGED <<runs, active, last>>
     ELSE /\ runs' = Append(runs, [occurrence |-> Occurrence(run), session |-> watcher.start])
          /\ active' = TRUE
          /\ last' = [last EXCEPT ![run] = Occurrence(run)]

Observe(faults) ==
  watcher' = [watcher EXCEPT
    !.fs = IF Consumed("fs", faults) THEN [FilesSeen EXCEPT !.fired = TRUE]
                                     ELSE FilesSeen,
    !.git = IF Consumed("git", faults) THEN refs ELSE RefsSeen,
    !.scanned = [t \in {"fs", "git"} |-> IF Scans(t) THEN 0 ELSE watcher.scanned[t]],
    !.firstTree = IF watcher.fs = Nothing /\ FilesScanned THEN tree ELSE @,
    !.firstRefs = IF watcher.git = Nothing /\ Scans("git") THEN refs ELSE @]

\* The reports of a change that are refused for the run that is already there.
Joins(faults) ==
  {t \in {"fs", "git"} :
     /\ Reports(t) /\ ~OccurrenceConsumed(t)
     /\ active \/ \E u \in Triggers : Before(u, t) /\ Starts(u, faults)}

\* run_routine_tick, up to the scheduler's own tick.
Tick(faults) ==
  /\ Observe(faults)
  /\ StartRuns(faults)
  /\ MoveSchedule(faults)
  /\ joined' = [t \in {"fs", "git"} |->
                  IF t \in Joins(faults) THEN Occurrence(t) ELSE joined[t]]
  /\ UNCHANGED <<now, world, enabled, changes, restarts>>

-----------------------------------------------------------------------------
(* The world around the triggers *)

Older(age, limit) == IF age < limit THEN age + 1 ELSE age

Aged(w) == [w EXCEPT
  !.fs = IF w.fs = Nothing THEN w.fs ELSE [w.fs EXCEPT !.age = Older(@, Debounce)],
  !.scanned = [t \in {"fs", "git"} |-> Older(w.scanned[t], ScanInterval)]]

Elapse ==
  /\ now' = Older(now, Horizon)
  /\ watcher' = Aged(watcher)
  /\ UNCHANGED <<world, enabled, next, last, runs, active, counted, joined, changes, restarts>>

\* An edit, or a switch to the checkout of another floor; a ref that is moved,
\* created or deleted; a trigger switched on or off.
Change ==
  /\ changes < MaxChanges
  /\ changes' = changes + 1
  /\ \/ \E t \in Trees \ {tree} : tree' = t /\ UNCHANGED <<refs, enabled>>
     \/ \E r \in Refs, v \in Revisions \union {Absent} :
          v # refs[r] /\ refs' = [refs EXCEPT ![r] = v] /\ UNCHANGED <<tree, enabled>>
     \/ \E t \in Switchable : enabled' = [enabled EXCEPT ![t] = ~@] /\ UNCHANGED world
  /\ UNCHANGED <<now, next, last, runs, active, watcher, counted, joined, restarts>>

\* The run reaches one of its ends in the scheduler's tick.
EndRun ==
  /\ active /\ active' = FALSE
  /\ UNCHANGED <<now, world, enabled, next, last, runs, watcher, counted, joined, changes, restarts>>

\* The program is closed and opened again some time later.
Restart ==
  /\ restarts < MaxRestarts /\ restarts' = restarts + 1
  /\ \E later \in now..Horizon : now' = later /\ watcher' = NewWatcher(later)
  /\ UNCHANGED <<world, enabled, next, last, runs, active, counted, joined, changes>>

\* The transactions of a tick: the count of what was missed, and the starts.
Transactions == {t \in Triggers : Startable(t)}
                  \union (IF Skipped = {} THEN {} ELSE {"missed"})

Init ==
  /\ now = 0 /\ watcher = NewWatcher(0)
  /\ tree \in Trees \ Oversized
  /\ refs \in [Refs -> Revisions \union {Absent}]
  /\ enabled = [t \in Triggers |-> TRUE] /\ next = Period
  /\ last = [t \in Triggers |-> Nothing]
  /\ runs = <<>> /\ active = FALSE
  /\ counted = [o \in 0..Horizon |-> 0] /\ joined = [t \in {"fs", "git"} |-> Nothing]
  /\ changes = 0 /\ restarts = 0

Next ==
  \/ \E faults \in SUBSET Transactions : Tick(faults)
  \/ Elapse \/ Change \/ EndRun \/ Restart

Spec == Init /\ [][Next]_vars

\* Time goes on, runs end, and the window's timer keeps ticking; a tick that is
\* due again and again is not met by a storage fault every time.
FairSpec ==
  /\ Spec
  /\ WF_vars(Elapse) /\ WF_vars(EndRun)
  /\ SF_vars(Tick({}))
-----------------------------------------------------------------------------
(* Properties *)

\* A duplicate observation can never start a second run: not after a restart,
\* not when the files come back to a state that already had its run.
OncePerOccurrence ==
  \A i, j \in DOMAIN runs :
    i # j => runs[i].occurrence # runs[j].occurrence

OccurrencesFired == {o \in 0..Horizon :
                       \E i \in DOMAIN runs : runs[i].occurrence = <<"sched", o>>}

\* An occurrence of the schedule is run or counted as skipped, never both and
\* never counted twice, although the count and the start are two transactions
\* of which either can fail and be made again.
HandledOnce ==
  \A o \in 0..Horizon : counted[o] + (IF o \in OccurrencesFired THEN 1 ELSE 0) <= 1

\* What came due while the program was closed is not replayed: a run of the
\* schedule stands for an instant of the session that started it.
NothingReplayed ==
  \A i \in DOMAIN runs : \A o \in 0..Horizon :
    runs[i].occurrence = <<"sched", o>> => o >= runs[i].session

Answered == {joined["fs"], joined["git"]} \union {runs[i].occurrence : i \in DOMAIN runs}

\* A change the watcher has ticked off has had its run, or was refused because
\* a run was there for it: a storage fault loses no change.
FaultsLoseNothing ==
  /\ watcher.fs # Nothing =>
       \/ ~watcher.fs.fired \/ watcher.fs.digest = watcher.firstTree
       \/ <<"fs", watcher.fs.digest>> \in Answered
  /\ watcher.git # Nothing /\ watcher.git # watcher.firstRefs =>
       \E r \in Refs : <<"git", r, watcher.git[r]>> \in Answered

\* Files that stay as they are get their run, or join one, in the end: the
\* window of a change is not opened again for ever.
SettledFilesRun ==
  \A t \in Trees \ Oversized :
    <>[](tree = t /\ enabled["fs"])
      => <>(watcher.fs # Nothing /\ watcher.fs.digest = t /\ watcher.fs.fired)

\* An enabled schedule never stays at an occurrence that has passed, whatever
\* runs are under way and whichever of its transactions failed.
ScheduleGoesOn ==
  (next <= now) ~> (next > now \/ ~enabled["sched"])

\* Each occurrence of a trigger counts once, through faults and restarts.
TriggersSound == OncePerOccurrence /\ HandledOnce /\ NothingReplayed /\ FaultsLoseNothing

\* A trigger that is due comes to run, and a schedule never stops.
TriggersServe == SettledFilesRun /\ ScheduleGoesOn
=============================================================================
