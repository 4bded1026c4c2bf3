------------------------ MODULE RoutineTriggersProofs ------------------------
(***************************************************************************)
(* Proofs about RoutineTriggers for any files, refs, cadence, windows,     *)
(* faults and restarts: an occurrence starts one run at most, is run or    *)
(* counted once, nothing from before a session is replayed, and a change   *)
(* that was ticked off has had its run.                                    *)
(*                                                                         *)
(* The schedule only moves past the occurrences a poll has looked at, so   *)
(* what lies at or behind the stored next occurrence was neither counted   *)
(* nor run; and every last firing is also the occurrence of a run, so the  *)
(* journal knows all that was consumed after the watcher's memory is gone. *)
(***************************************************************************)
EXTENDS RoutineTriggers, SequenceTheorems, FiniteSetTheorems, WellFoundedInduction, TLAPS

-----------------------------------------------------------------------------
(* Least and greatest numbers *)

Less == {pair \in Nat \X Nat : pair[1] < pair[2]}

LEMMA LessWellFounded == IsWellFoundedOn(Less, Nat)
<1>1. Less = OpToRel(<, Nat)
  BY Zenon DEF OpToRel, Less
<1> QED
  BY <1>1, NatLessThanWellFounded, Zenon

LEMMA MinOf ==
  ASSUME NEW S \in SUBSET Nat, S # {}
  PROVE  Min(S) \in S /\ \A n \in S : Min(S) <= n
<1>1. PICK m \in S : \A n \in S : ~(<<n, m>> \in Less)
  BY LessWellFounded, WFMin
<1>2. \A n \in S : ~(n < m)
  <2> SUFFICES ASSUME NEW n \in S, n < m PROVE FALSE
    OBVIOUS
  <2>1. PICK pair : pair = <<n, m>>
    OBVIOUS
  <2>2. pair \in Nat \X Nat /\ pair[1] = n /\ pair[2] = m
    BY <2>1
  <2>3. pair \in Less
    BY <2>2 DEF Less
  <2> QED
    BY <1>1, <2>1, <2>3
<1>3. \A n \in S : m <= n
  BY <1>2
<1> QED
  BY <1>3 DEF Min

LEMMA MaxOf ==
  ASSUME NEW S \in SUBSET Nat, S # {}, NEW top \in Nat, \A n \in S : n <= top
  PROVE  Max(S) \in S /\ \A n \in S : n <= Max(S)
<1>1. PICK gaps : gaps = {top - n : n \in S}
  OBVIOUS
<1>2. gaps \in SUBSET Nat /\ gaps # {}
  <2>1. \A n \in S : top - n \in Nat
    OBVIOUS
  <2>2. \A g \in gaps : g \in Nat
    BY <1>1, <2>1
  <2>3. \E n \in S : top - n \in gaps
    BY <1>1
  <2> QED
    BY <2>2, <2>3
<1>3. Min(gaps) \in gaps /\ \A g \in gaps : Min(gaps) <= g
  BY <1>2, MinOf
<1>4. PICK m \in S : Min(gaps) = top - m
  BY <1>1, <1>3
<1>5. \A n \in S : m >= n
  <2> SUFFICES ASSUME NEW n \in S PROVE m >= n
    OBVIOUS
  <2>1. top - n \in gaps
    BY <1>1
  <2>2. top - m <= top - n
    BY <1>3, <1>4, <2>1
  <2> QED
    BY <2>2
<1>6. PICK x : x = Max(S)
  OBVIOUS
<1>7. x \in S /\ \A n \in S : x >= n
  BY <1>5, <1>6 DEF Max
<1> QED
  BY <1>6, <1>7

-----------------------------------------------------------------------------
(* The invariant *)

Tips == [Refs -> Revisions \cup {Absent}]
Seen == {Nothing} \cup [digest : Trees, age : Nat, fired : BOOLEAN]
WatcherState ==
  [start : Nat, fs : Seen, git : {Nothing} \cup Tips, scanned : [{"fs", "git"} -> Nat],
   firstTree : Trees \cup {Nothing}, firstRefs : Tips \cup {Nothing}]
Run == [occurrence : Occurrences, session : Nat]

TriggerTypes ==
  /\ now \in 0..Horizon /\ next \in Nat /\ tree \in Trees /\ refs \in Tips
  /\ enabled \in [Triggers -> BOOLEAN] /\ watcher \in WatcherState
  /\ runs \in Seq(Run) /\ last \in [Triggers -> Occurrences \cup {Nothing}]
  /\ counted \in [0..Horizon -> Nat] /\ joined \in [{"fs", "git"} -> Occurrences \cup {Nothing}]

Ran(s, occurrence) == \E i \in DOMAIN s : s[i].occurrence = occurrence

\* What a trigger fired last is the occurrence of a run.
LastRan == \A t \in Triggers : last[t] # Nothing => Ran(runs, last[t])

\* The occurrences from the stored next one on are untouched.
Ahead == \A o \in 0..Horizon : o >= next => counted[o] = 0 /\ ~Ran(runs, <<"sched", o>>)

\* A change is refused as one of its own kind.
JoinedKind == \A t \in {"fs", "git"} : joined[t] # Nothing => joined[t][1] = t

TriggersInv == TriggerTypes /\ LastRan /\ Ahead /\ JoinedKind /\ TriggersSound

-----------------------------------------------------------------------------
(* What a poll sees *)

LEMMA Dues ==
  ASSUME TriggerTypes
  PROVE  /\ Due \in SUBSET (0..Horizon) /\ \A o \in Due : next <= o
         /\ NextDue \in Nat /\ next <= NextDue /\ \A o \in Due : o < NextDue
         /\ FiringDue # {} => /\ Min(FiringDue) \in Due /\ Min(FiringDue) \in 0..Horizon
                              /\ Min(FiringDue) >= watcher.start
         /\ Skipped \subseteq Due
         /\ FiringDue # {} => Min(FiringDue) \notin Skipped
<1>1. now \in Nat /\ now <= Horizon /\ next \in Nat /\ Horizon \in Nat /\ Period \in Nat \ {0}
  BY TriggerBounds DEF TriggerTypes
<1>2. \A o \in Due : o \in Nat /\ next <= o /\ o <= now
  BY <1>1 DEF Due
<1>3. Due \in SUBSET (0..Horizon)
  BY <1>1, <1>2
<1>4. NextDue \in Nat /\ next <= NextDue /\ \A o \in Due : o < NextDue
  <2>1. CASE Due = {}
    BY <1>1, <2>1 DEF NextDue
  <2>2. CASE Due # {}
    <3>1. Max(Due) \in Due /\ \A o \in Due : o <= Max(Due)
      BY <1>1, <1>2, <2>2, MaxOf
    <3>2. Max(Due) \in Nat /\ next <= Max(Due)
      BY <1>2, <3>1
    <3>3. NextDue = Max(Due) + Period
      BY <2>2 DEF NextDue
    <3> QED
      BY <1>1, <1>2, <3>1, <3>2, <3>3
  <2> QED
    BY <2>1, <2>2
<1>5. ASSUME FiringDue # {}
      PROVE  Min(FiringDue) \in Due /\ Min(FiringDue) \in 0..Horizon /\ Min(FiringDue) >= watcher.start
  <2>1. FiringDue \in SUBSET Nat
    BY <1>2 DEF FiringDue
  <2>2. Min(FiringDue) \in FiringDue
    BY <1>5, <2>1, MinOf
  <2> QED
    BY <1>3, <2>2 DEF FiringDue
<1>6. Skipped \subseteq Due /\ (FiringDue # {} => Min(FiringDue) \notin Skipped)
  BY DEF Skipped
<1> QED
  BY <1>2, <1>3, <1>4, <1>5, <1>6

LEMMA Reported ==
  ASSUME TriggerTypes, NEW t \in Triggers, Reports(t)
  PROVE  /\ Occurrence(t) \in Occurrences
         /\ t = "fs" => Occurrence(t) = <<"fs", tree>> /\ FilesScanned
         /\ t = "git" => \E r \in Refs : Occurrence(t) = <<"git", r, refs[r]>>
         /\ t = "git" => Scans("git")
         /\ t = "sched" => FiringDue # {} /\ Occurrence(t) = <<"sched", Min(FiringDue)>>
<1>1. CASE t = "fs"
  BY <1>1 DEF Reports, Occurrence, Occurrences, TriggerTypes, FilesReport
<1>2. CASE t = "git"
  <2>1. ChangedRefs # {} /\ Scans("git") /\ ChangedRefs \in SUBSET Refs
    BY <1>2 DEF Reports, RefsReport, ChangedRefs
  <2>2. Min(ChangedRefs) \in Refs
    BY <2>1, MinOf, TriggerBounds
  <2>3. Occurrence(t) = <<"git", Min(ChangedRefs), refs[Min(ChangedRefs)]>>
    BY <1>2 DEF Occurrence
  <2>4. refs[Min(ChangedRefs)] \in Revisions \cup {Absent}
    BY <2>2 DEF TriggerTypes, Tips
  <2> QED
    BY <1>2, <2>1, <2>2, <2>3, <2>4 DEF Occurrences
<1>3. CASE t = "sched"
  <2>1. FiringDue # {} /\ Occurrence(t) = <<"sched", Min(FiringDue)>>
    BY <1>3 DEF Reports, ScheduleReport, Occurrence
  <2>2. Min(FiringDue) \in 0..Horizon
    BY <2>1, Dues
  <2> QED
    BY <1>3, <2>1, <2>2 DEF Occurrences
<1> QED
  BY <1>1, <1>2, <1>3 DEF Triggers

\* A consumed report has had its run.
LEMMA ConsumedRan ==
  ASSUME TriggerTypes, LastRan, NEW t \in Triggers, Reports(t), OccurrenceConsumed(t)
  PROVE  Ran(runs, Occurrence(t))
<1>1. Occurrence(t) # Nothing
  BY Reported, NothingAssumption
<1> QED
  BY <1>1 DEF OccurrenceConsumed, Ran, LastRan

-----------------------------------------------------------------------------
(* The one run a poll starts *)

LEMMA OrderTotal ==
  ASSUME NEW t \in Triggers, NEW u \in Triggers, t # u
  PROVE  Before(t, u) \/ Before(u, t)
<1>1. PICK i \in 1..3, j \in 1..3 : Order[i] = t /\ Order[j] = u
  BY TriggerBounds
<1>2. i < j \/ j < i
  BY <1>1
<1> QED
  BY <1>1, <1>2 DEF Before

LEMMA OrderDistinct ==
  ASSUME NEW i \in 1..3, NEW j \in 1..3, Order[i] = Order[j]
  PROVE  i = j
<1>1. \A t \in Triggers : \E k \in 1..3 : Order[k] = t
  BY TriggerBounds
<1>2. \A t \in Triggers : t = Order[1] \/ t = Order[2] \/ t = Order[3]
  BY <1>1
<1>3. /\ "fs" = Order[1] \/ "fs" = Order[2] \/ "fs" = Order[3]
      /\ "git" = Order[1] \/ "git" = Order[2] \/ "git" = Order[3]
      /\ "sched" = Order[1] \/ "sched" = Order[2] \/ "sched" = Order[3]
  BY <1>2 DEF Triggers
<1>4. i \in {1, 2, 3} /\ j \in {1, 2, 3}
  OBVIOUS
<1>5. Order[1] # Order[2] /\ Order[1] # Order[3] /\ Order[2] # Order[3]
  BY <1>3
<1> QED
  BY <1>4, <1>5

LEMMA OneStart ==
  ASSUME NEW faults, NEW t \in Triggers, NEW u \in Triggers, Starts(t, faults), Starts(u, faults)
  PROVE  t = u
  BY OrderTotal DEF Starts

\* If something could start and no fault met it, something starts.
LEMMA FirstStarts ==
  ASSUME NEW faults, NEW t \in Triggers, Startable(t), t \notin faults,
         \A u \in Triggers : Before(u, t) => ~Starts(u, faults)
  PROVE  Starts(t, faults)
<1>1. PICK able : able = {i \in 1..3 : Order[i] \in Triggers /\ Startable(Order[i]) /\ Order[i] \notin faults}
  OBVIOUS
<1>2. able \in SUBSET Nat
  BY <1>1
<1>3. PICK k \in 1..3 : Order[k] = t
  BY TriggerBounds
<1>4. k \in able
  BY <1>1, <1>3
<1>5. Min(able) \in able /\ \A i \in able : Min(able) <= i
  BY <1>2, <1>4, MinOf
<1>6. PICK first : first = Order[Min(able)]
  OBVIOUS
<1>7. first \in Triggers /\ Startable(first) /\ first \notin faults
  BY <1>1, <1>5, <1>6
<1>8. CASE \A v \in Triggers : Before(v, first) => ~(Startable(v) /\ v \notin faults)
  <2>1. Starts(first, faults)
    BY <1>7, <1>8 DEF Starts
  <2>2. ~Before(first, t)
    BY <1>7, <2>1
  <2>3. Min(able) = k
    BY <1>1, <1>3, <1>4, <1>5, <1>6, <2>2 DEF Before
  <2> QED
    BY <1>3, <1>6, <2>1, <2>3
<1>9. CASE \E v \in Triggers : Before(v, first) /\ Startable(v) /\ v \notin faults
  <2>1. PICK v \in Triggers : Before(v, first) /\ Startable(v) /\ v \notin faults
    BY <1>9
  <2>2. PICK i \in 1..3, j \in 1..3 : i < j /\ Order[i] = v /\ Order[j] = first
    BY <2>1 DEF Before
  <2>3. i \in able
    BY <1>1, <2>1, <2>2
  <2>4. j = Min(able)
    BY <1>1, <1>5, <1>6, <2>2, OrderDistinct
  <2> QED
    BY <1>5, <2>2, <2>3, <2>4
<1> QED
  BY <1>8, <1>9

LEMMA StartedRun ==
  ASSUME TriggersInv, NEW faults, Tick(faults)
  PROVE  \/ /\ \A t \in Triggers : ~Starts(t, faults)
            /\ runs' = runs /\ last' = last
         \/ \E t \in Triggers :
              /\ Starts(t, faults)
              /\ Occurrence(t) \in Occurrences /\ ~Ran(runs, Occurrence(t))
              /\ runs' \in Seq(Run) /\ DOMAIN runs' = 1..(Len(runs) + 1)
              /\ DOMAIN runs = 1..Len(runs) /\ Len(runs) \in Nat
              /\ \A i \in DOMAIN runs : runs'[i] = runs[i]
              /\ runs'[Len(runs) + 1] = [occurrence |-> Occurrence(t), session |-> watcher.start]
              /\ last' = [last EXCEPT ![t] = Occurrence(t)]
<1>1. PICK started : started = {t \in Triggers : Starts(t, faults)}
  OBVIOUS
<1>2. CASE started = {}
  BY <1>1, <1>2 DEF Tick, StartRuns
<1>3. CASE started # {}
  <2>1. PICK t : t = CHOOSE u \in started : TRUE
    OBVIOUS
  <2>2. t \in Triggers /\ Starts(t, faults)
    BY <1>1, <1>3, <2>1
  <2>3. PICK run : run = [occurrence |-> Occurrence(t), session |-> watcher.start]
    OBVIOUS
  <2>4. runs' = Append(runs, run) /\ last' = [last EXCEPT ![t] = Occurrence(t)]
    BY <1>1, <1>3, <2>1, <2>3 DEF Tick, StartRuns
  <2>5. Reports(t) /\ ~OccurrenceConsumed(t)
    BY <2>2 DEF Starts, Startable
  <2>6. Occurrence(t) \in Occurrences
    BY <2>2, <2>5, Reported DEF TriggersInv
  <2>7. watcher.start \in Nat
    BY DEF TriggersInv, TriggerTypes, WatcherState
  <2>8. run \in Run
    BY <2>3, <2>6, <2>7 DEF Run
  <2>9. runs \in Seq(Run)
    BY DEF TriggersInv, TriggerTypes
  <2>10. DOMAIN runs = 1..Len(runs) /\ Len(runs) \in Nat
    BY <2>9
  <2>11. runs' \in Seq(Run) /\ DOMAIN runs' = 1..(Len(runs) + 1)
         /\ (\A i \in DOMAIN runs : runs'[i] = runs[i]) /\ runs'[Len(runs) + 1] = run
    BY <2>4, <2>8, <2>9, <2>10, AppendProperties
  <2>12. ~Ran(runs, Occurrence(t))
    BY <2>5 DEF OccurrenceConsumed, Ran
  <2> QED
    BY <2>2, <2>3, <2>4, <2>6, <2>10, <2>11, <2>12
<1> QED
  BY <1>2, <1>3

-----------------------------------------------------------------------------
(* A poll *)

\* The runs grow, and what the new one is for had none.
LEMMA TickRuns ==
  ASSUME TriggersInv, NEW faults, Tick(faults)
  PROVE  /\ OncePerOccurrence' /\ LastRan'
         /\ \A occurrence : Ran(runs, occurrence) => Ran(runs', occurrence)
         /\ \A t \in Triggers : Starts(t, faults) => Ran(runs', Occurrence(t))
         /\ \A o \in 0..Horizon : Ran(runs', <<"sched", o>>) =>
              \/ Ran(runs, <<"sched", o>>)
              \/ Starts("sched", faults) /\ FiringDue # {} /\ o = Min(FiringDue) /\ ~Ran(runs, <<"sched", o>>)
         /\ NothingReplayed' /\ runs' \in Seq(Run) /\ last' \in [Triggers -> Occurrences \cup {Nothing}]
<1>1. CASE (\A t \in Triggers : ~Starts(t, faults)) /\ runs' = runs /\ last' = last
  BY <1>1 DEF TriggersInv, TriggerTypes, TriggersSound, OncePerOccurrence, LastRan, NothingReplayed
<1>2. CASE \E t \in Triggers :
             /\ Starts(t, faults)
             /\ Occurrence(t) \in Occurrences /\ ~Ran(runs, Occurrence(t))
             /\ runs' \in Seq(Run) /\ DOMAIN runs' = 1..(Len(runs) + 1)
             /\ DOMAIN runs = 1..Len(runs) /\ Len(runs) \in Nat
             /\ \A i \in DOMAIN runs : runs'[i] = runs[i]
             /\ runs'[Len(runs) + 1] = [occurrence |-> Occurrence(t), session |-> watcher.start]
             /\ last' = [last EXCEPT ![t] = Occurrence(t)]
  <2>1. PICK t \in Triggers :
             /\ Starts(t, faults)
             /\ Occurrence(t) \in Occurrences /\ ~Ran(runs, Occurrence(t))
             /\ runs' \in Seq(Run) /\ DOMAIN runs' = 1..(Len(runs) + 1)
             /\ DOMAIN runs = 1..Len(runs) /\ Len(runs) \in Nat
             /\ \A i \in DOMAIN runs : runs'[i] = runs[i]
             /\ runs'[Len(runs) + 1] = [occurrence |-> Occurrence(t), session |-> watcher.start]
             /\ last' = [last EXCEPT ![t] = Occurrence(t)]
    BY <1>2
  <2>2. PICK n : n = Len(runs) + 1
    OBVIOUS
  <2>3. n \in DOMAIN runs' /\ runs'[n].occurrence = Occurrence(t) /\ runs'[n].session = watcher.start
        /\ DOMAIN runs \subseteq DOMAIN runs' /\ \A i \in DOMAIN runs' : i \in DOMAIN runs \/ i = n
    BY <2>1, <2>2
  <2>4. \A occurrence : Ran(runs', occurrence) <=> Ran(runs, occurrence) \/ occurrence = Occurrence(t)
    BY <2>1, <2>3 DEF Ran
  <2>5. OncePerOccurrence'
    <3>1. \A i \in DOMAIN runs : runs'[i].occurrence # Occurrence(t)
      BY <2>1 DEF Ran
    <3> QED
      BY <2>1, <2>3, <3>1 DEF TriggersInv, TriggersSound, OncePerOccurrence
  <2>6. last' \in [Triggers -> Occurrences \cup {Nothing}]
        /\ last'[t] = Occurrence(t) /\ \A u \in Triggers : u # t => last'[u] = last[u]
    BY <2>1 DEF TriggersInv, TriggerTypes
  <2>7. LastRan'
    BY <2>4, <2>6 DEF TriggersInv, LastRan
  <2>8. \A u \in Triggers : Starts(u, faults) => Ran(runs', Occurrence(u))
    BY <2>1, <2>4, OneStart
  <2>9. Reports(t)
    BY <2>1 DEF Starts, Startable
  <2>10. ASSUME NEW o \in 0..Horizon, Occurrence(t) = <<"sched", o>>
         PROVE  t = "sched" /\ FiringDue # {} /\ o = Min(FiringDue)
    <3>1. t # "fs"
      BY <2>9, <2>10, Reported DEF TriggersInv
    <3>2. t # "git"
      <4> SUFFICES ASSUME t = "git" PROVE FALSE
        OBVIOUS
      <4>1. PICK r \in Refs : Occurrence(t) = <<"git", r, refs[r]>>
        BY <2>9, Reported DEF TriggersInv
      <4> QED
        BY <2>10, <4>1
    <3>3. t = "sched"
      BY <3>1, <3>2 DEF Triggers
    <3> QED
      BY <2>9, <2>10, <3>3, Reported DEF TriggersInv
  <2>11. \A o \in 0..Horizon : Ran(runs', <<"sched", o>>) =>
           \/ Ran(runs, <<"sched", o>>)
           \/ Starts("sched", faults) /\ FiringDue # {} /\ o = Min(FiringDue) /\ ~Ran(runs, <<"sched", o>>)
    BY <2>1, <2>4, <2>10
  <2>12. NothingReplayed'
    <3> SUFFICES ASSUME NEW i \in DOMAIN runs', NEW o \in 0..Horizon, runs'[i].occurrence = <<"sched", o>>
                 PROVE  o >= runs'[i].session
      BY DEF NothingReplayed
    <3>1. CASE i \in DOMAIN runs
      BY <2>1, <3>1 DEF TriggersInv, TriggersSound, NothingReplayed
    <3>2. CASE i = n
      BY <2>3, <2>10, <3>2, Dues DEF TriggersInv
    <3> QED
      BY <2>3, <3>1, <3>2
  <2> QED
    BY <2>1, <2>4, <2>5, <2>6, <2>7, <2>8, <2>11, <2>12
<1> QED
  BY <1>1, <1>2, StartedRun

\* The schedule moves past whatever is counted or run.
LEMMA TickCounts ==
  ASSUME TriggersInv, NEW faults, Tick(faults)
  PROVE  counted' \in [0..Horizon -> Nat] /\ next' \in Nat /\ Ahead' /\ HandledOnce'
<1>1. counted \in [0..Horizon -> Nat] /\ next \in Nat
  BY DEF TriggersInv, TriggerTypes
<1>2. PICK recorded : recorded = (Skipped # {} /\ "missed" \notin faults)
  OBVIOUS
<1>3. /\ counted' = IF recorded
                    THEN [o \in DOMAIN counted |-> counted[o] + IF o \in Skipped THEN 1 ELSE 0]
                    ELSE counted
      /\ next' = IF recorded \/ Starts("sched", faults) THEN NextDue ELSE next
  BY <1>2 DEF Tick, MoveSchedule
<1>4. counted' \in [0..Horizon -> Nat]
      /\ \A o \in 0..Horizon : \/ counted'[o] = counted[o]
                               \/ recorded /\ o \in Skipped /\ counted'[o] = counted[o] + 1
  BY <1>1, <1>3
<1>5. /\ Due \in SUBSET (0..Horizon) /\ \A o \in Due : next <= o
      /\ NextDue \in Nat /\ next <= NextDue /\ \A o \in Due : o < NextDue
      /\ FiringDue # {} => Min(FiringDue) \in Due /\ Min(FiringDue) \notin Skipped
      /\ Skipped \subseteq Due
  BY Dues DEF TriggersInv
<1>6. next' \in Nat /\ next <= next' /\ ((recorded \/ Starts("sched", faults)) => next' = NextDue)
  BY <1>1, <1>3, <1>5
<1>7. \A o \in 0..Horizon : Ran(runs', <<"sched", o>>) =>
        \/ Ran(runs, <<"sched", o>>)
        \/ Starts("sched", faults) /\ FiringDue # {} /\ o = Min(FiringDue) /\ ~Ran(runs, <<"sched", o>>)
  BY TickRuns
<1>8. \A o \in 0..Horizon : o >= next => counted[o] = 0 /\ ~Ran(runs, <<"sched", o>>)
  BY DEF TriggersInv, Ahead
<1>9. \A o \in 0..Horizon : o >= next' => o >= next /\ ((recorded \/ Starts("sched", faults)) => o \notin Due)
  BY <1>1, <1>5, <1>6
<1>10. Ahead'
  <2> SUFFICES ASSUME NEW o \in 0..Horizon, o >= next'
               PROVE  counted'[o] = 0 /\ ~Ran(runs', <<"sched", o>>)
    BY DEF Ahead
  <2>1. counted[o] = 0 /\ ~Ran(runs, <<"sched", o>>)
    BY <1>8, <1>9
  <2>2. counted'[o] = counted[o]
    BY <1>4, <1>5, <1>9
  <2>3. ~Ran(runs', <<"sched", o>>)
    BY <1>5, <1>7, <1>9, <2>1
  <2> QED
    BY <2>1, <2>2, <2>3
<1>11. \A o \in 0..Horizon : counted[o] <= 1 /\ (Ran(runs, <<"sched", o>>) => counted[o] = 0)
  <2> SUFFICES ASSUME NEW o \in 0..Horizon
               PROVE  counted[o] <= 1 /\ (Ran(runs, <<"sched", o>>) => counted[o] = 0)
    OBVIOUS
  <2>1. counted[o] + (IF o \in OccurrencesFired THEN 1 ELSE 0) <= 1
    BY DEF TriggersInv, TriggersSound, HandledOnce
  <2>2. o \in OccurrencesFired <=> Ran(runs, <<"sched", o>>)
    BY DEF OccurrencesFired, Ran
  <2> QED
    BY <1>1, <2>1, <2>2
<1>12. \A o \in 0..Horizon : counted'[o] <= 1 /\ (Ran(runs', <<"sched", o>>) => counted'[o] = 0)
  <2> SUFFICES ASSUME NEW o \in 0..Horizon
               PROVE  counted'[o] <= 1 /\ (Ran(runs', <<"sched", o>>) => counted'[o] = 0)
    OBVIOUS
  <2>1. CASE counted'[o] = counted[o]
    <3>1. CASE Ran(runs', <<"sched", o>>) /\ ~Ran(runs, <<"sched", o>>)
      <4>1. o \in Due
        BY <1>5, <1>7, <3>1
      <4> QED
        BY <1>5, <1>8, <2>1, <4>1
    <3> QED
      BY <1>11, <2>1, <3>1
  <2>2. CASE o \in Skipped /\ counted'[o] = counted[o] + 1
    <3>1. counted[o] = 0 /\ ~Ran(runs, <<"sched", o>>)
      BY <1>5, <1>8, <2>2
    <3>2. ~Ran(runs', <<"sched", o>>)
      BY <1>5, <1>7, <2>2, <3>1
    <3> QED
      BY <2>2, <3>1, <3>2
  <2> QED
    BY <1>4, <2>1, <2>2
<1>13. HandledOnce'
  <2> SUFFICES ASSUME NEW o \in 0..Horizon
               PROVE  counted'[o] + (IF o \in OccurrencesFired' THEN 1 ELSE 0) <= 1
    BY DEF HandledOnce
  <2>1. o \in OccurrencesFired' => Ran(runs', <<"sched", o>>)
    BY DEF OccurrencesFired, Ran
  <2> QED
    BY <1>4, <1>12, <2>1
<1> QED
  BY <1>4, <1>6, <1>10, <1>13

\* A report that is ticked off had its run, or was refused for one.
LEMMA ConsumedAnswered ==
  ASSUME TriggersInv, NEW faults, Tick(faults), NEW t \in {"fs", "git"}, Consumed(t, faults)
  PROVE  Ran(runs', Occurrence(t)) \/ joined'[t] = Occurrence(t)
<1>1. Reports(t) /\ ~Retries(t, faults) /\ t \in Triggers
  BY DEF Consumed, Triggers
<1>2. CASE OccurrenceConsumed(t)
  BY <1>1, <1>2, ConsumedRan, TickRuns DEF TriggersInv
<1>3. CASE t \in Joins(faults)
  BY <1>3 DEF Tick
<1>4. CASE ~OccurrenceConsumed(t) /\ t \notin Joins(faults)
  <2>1. ~active /\ \A u \in Triggers : Before(u, t) => ~Starts(u, faults)
    BY <1>1, <1>4 DEF Joins
  <2>2. Startable(t)
    BY <1>1, <1>4, <2>1 DEF Startable
  <2>3. t \notin faults
    BY <1>1, <2>1, <2>2 DEF Retries
  <2>4. Starts(t, faults)
    BY <1>1, <2>1, <2>2, <2>3, FirstStarts
  <2> QED
    BY <1>1, <2>4, TickRuns
<1> QED
  BY <1>2, <1>3, <1>4

\* A report that joins another run is ticked off in the same poll.
LEMMA JoinsConsumed ==
  ASSUME NEW faults, NEW t \in {"fs", "git"}, t \in Joins(faults)
  PROVE  Consumed(t, faults)
  BY DEF Joins, Consumed, Retries, Startable

LEMMA TickJoined ==
  ASSUME TriggersInv, NEW faults, Tick(faults)
  PROVE  /\ joined' \in [{"fs", "git"} -> Occurrences \cup {Nothing}] /\ JoinedKind'
         /\ \A t \in {"fs", "git"} : ~Consumed(t, faults) => joined'[t] = joined[t]
<1>1. joined' = [t \in {"fs", "git"} |-> IF t \in Joins(faults) THEN Occurrence(t) ELSE joined[t]]
  BY DEF Tick
<1>2. ASSUME NEW t \in {"fs", "git"}, t \in Joins(faults)
      PROVE  Occurrence(t) \in Occurrences /\ Occurrence(t)[1] = t
  <2>1. Occurrence(t) \in Occurrences
    BY <1>2, Reported DEF Joins, TriggersInv, Triggers
  <2>2. Occurrence(t)[1] = t
    BY DEF Occurrence
  <2> QED
    BY <2>1, <2>2
<1>3. joined \in [{"fs", "git"} -> Occurrences \cup {Nothing}]
  BY DEF TriggersInv, TriggerTypes
<1>4. \A t \in {"fs", "git"} : joined'[t] \in Occurrences \cup {Nothing}
  BY <1>1, <1>2, <1>3
<1>5. joined' \in [{"fs", "git"} -> Occurrences \cup {Nothing}]
  BY <1>1, <1>4
<1>6. JoinedKind'
  BY <1>1, <1>2 DEF JoinedKind, TriggersInv
<1> QED
  BY <1>1, <1>5, <1>6, JoinsConsumed

\* What was answered stays answered, unless a newer change of its kind is.
LEMMA TickAnswered ==
  ASSUME TriggersInv, NEW faults, Tick(faults), NEW t \in {"fs", "git"},
         NEW occurrence \in Occurrences, occurrence[1] = t
  PROVE  /\ ~Consumed(t, faults) /\ occurrence \in Answered => occurrence \in Answered'
         /\ Consumed(t, faults) /\ occurrence = Occurrence(t) => occurrence \in Answered'
<1>1. occurrence \in Answered <=> occurrence = joined["fs"] \/ occurrence = joined["git"] \/ Ran(runs, occurrence)
  BY DEF Answered, Ran
<1>2. occurrence \in Answered' <=> occurrence = joined'["fs"] \/ occurrence = joined'["git"] \/ Ran(runs', occurrence)
  BY DEF Answered, Ran
<1>3. \A u \in {"fs", "git"} : occurrence = joined[u] => u = t
  BY NothingAssumption DEF TriggersInv, JoinedKind
<1>4. Ran(runs, occurrence) => Ran(runs', occurrence)
  BY TickRuns
<1>5. ~Consumed(t, faults) => joined'[t] = joined[t]
  BY TickJoined
<1>6. Consumed(t, faults) => Ran(runs', Occurrence(t)) \/ joined'[t] = Occurrence(t)
  BY ConsumedAnswered
<1> QED
  BY <1>1, <1>2, <1>3, <1>4, <1>5, <1>6

\* What a poll leaves in the watcher for the files.
LEMMA TickFiles ==
  ASSUME TriggersInv, NEW faults, Tick(faults)
  PROVE  /\ watcher'.fs \in Seen /\ watcher'.firstTree \in Trees \cup {Nothing}
         /\ watcher'.fs # Nothing =>
              \/ ~watcher'.fs.fired \/ watcher'.fs.digest = watcher'.firstTree
              \/ <<"fs", watcher'.fs.digest>> \in Answered'
<1>1. watcher \in WatcherState /\ tree \in Trees
  BY DEF TriggersInv, TriggerTypes
<1>2. PICK fs : fs = watcher.fs
  OBVIOUS
<1>3. fs = Nothing \/ fs \in [digest : Trees, age : Nat, fired : BOOLEAN]
  BY <1>1, <1>2 DEF WatcherState, Seen
<1>4. /\ watcher'.fs = IF Consumed("fs", faults) THEN [FilesSeen EXCEPT !.fired = TRUE] ELSE FilesSeen
      /\ watcher'.firstTree = IF fs = Nothing /\ FilesScanned THEN tree ELSE watcher.firstTree
  BY <1>1, <1>2 DEF Tick, Observe, WatcherState
<1>5. watcher.firstTree \in Trees \cup {Nothing}
  BY <1>1 DEF WatcherState
<1>6. PICK seen : seen = FilesSeen
  OBVIOUS
<1>7. \/ seen = fs /\ ~(fs = Nothing /\ FilesScanned)
      \/ FilesScanned /\ fs = Nothing /\ seen = [digest |-> tree, age |-> 0, fired |-> TRUE]
      \/ FilesScanned /\ fs # Nothing /\ seen = [digest |-> tree, age |-> 0, fired |-> FALSE]
  BY <1>2, <1>6 DEF FilesSeen
<1>8. seen \in Seen /\ (FilesScanned => seen \in [digest : Trees, age : Nat, fired : BOOLEAN])
  <2>1. ASSUME NEW fired \in BOOLEAN
        PROVE  [digest |-> tree, age |-> 0, fired |-> fired] \in [digest : Trees, age : Nat, fired : BOOLEAN]
    BY <1>1
  <2>2. /\ [digest |-> tree, age |-> 0, fired |-> TRUE] \in [digest : Trees, age : Nat, fired : BOOLEAN]
        /\ [digest |-> tree, age |-> 0, fired |-> FALSE] \in [digest : Trees, age : Nat, fired : BOOLEAN]
    BY <2>1
  <2> QED
    BY <1>3, <1>7, <2>2, Zenon DEF Seen
<1>9. CASE Consumed("fs", faults)
  <2>1. FilesReport
    BY <1>9 DEF Consumed, Reports
  <2>2. FilesScanned /\ ~seen.fired
    BY <1>6, <2>1 DEF FilesReport
  <2>3. seen \in [digest : Trees, age : Nat, fired : BOOLEAN]
    BY <1>8, <2>2
  <2>4. seen.digest = tree
    <3>1. CASE fs = Nothing
      BY <1>7, <2>2, <3>1
    <3>2. CASE fs # Nothing /\ fs.digest = tree
      BY <1>7, <3>2
    <3>3. CASE fs # Nothing /\ fs.digest # tree
      BY <1>2, <1>6, <2>2, <3>3 DEF FilesSeen
    <3> QED
      BY <3>1, <3>2, <3>3
  <2>5. watcher'.fs = [seen EXCEPT !.fired = TRUE]
    BY <1>4, <1>6, <1>9
  <2>6. watcher'.fs \in Seen /\ watcher'.fs.digest = tree
    BY <2>3, <2>4, <2>5 DEF Seen
  <2>7. <<"fs", tree>> \in Occurrences /\ <<"fs", tree>>[1] = "fs"
    BY <1>1 DEF Occurrences
  <2>8. Occurrence("fs") = <<"fs", tree>>
    BY DEF Occurrence
  <2>9. <<"fs", tree>> \in Answered'
    BY <1>9, <2>7, <2>8, TickAnswered
  <2> QED
    BY <1>1, <1>4, <1>5, <2>6, <2>9
<1>10. CASE ~Consumed("fs", faults)
  <2>1. watcher'.fs = seen
    BY <1>4, <1>6, <1>10
  <2>2. CASE seen = fs /\ ~(fs = Nothing /\ FilesScanned)
    <3>1. fs # Nothing => ~fs.fired \/ fs.digest = watcher.firstTree \/ <<"fs", fs.digest>> \in Answered
      BY <1>2 DEF TriggersInv, TriggersSound, FaultsLoseNothing
    <3>2. ASSUME fs # Nothing, <<"fs", fs.digest>> \in Answered PROVE <<"fs", fs.digest>> \in Answered'
      <4>1. <<"fs", fs.digest>> \in Occurrences /\ <<"fs", fs.digest>>[1] = "fs"
        BY <1>3, <3>2 DEF Occurrences
      <4> QED
        BY <1>10, <3>2, <4>1, TickAnswered
    <3> QED
      BY <1>4, <1>5, <1>8, <2>1, <2>2, <3>1, <3>2
  <2>3. CASE FilesScanned /\ fs = Nothing /\ seen = [digest |-> tree, age |-> 0, fired |-> TRUE]
    BY <1>1, <1>4, <1>8, <2>1, <2>3
  <2>4. CASE FilesScanned /\ fs # Nothing /\ seen = [digest |-> tree, age |-> 0, fired |-> FALSE]
    BY <1>1, <1>4, <1>5, <1>8, <2>1, <2>4
  <2> QED
    BY <1>7, <2>2, <2>3, <2>4
<1> QED
  BY <1>9, <1>10

\* What it leaves there for the refs.
LEMMA TickRefs ==
  ASSUME TriggersInv, NEW faults, Tick(faults)
  PROVE  /\ watcher'.git \in {Nothing} \cup Tips /\ watcher'.firstRefs \in Tips \cup {Nothing}
         /\ watcher'.git # Nothing /\ watcher'.git # watcher'.firstRefs =>
              \E r \in Refs : <<"git", r, watcher'.git[r]>> \in Answered'
<1>1. watcher \in WatcherState /\ refs \in Tips
  BY DEF TriggersInv, TriggerTypes
<1>2. PICK git : git = watcher.git
  OBVIOUS
<1>3. git \in {Nothing} \cup Tips /\ watcher.firstRefs \in Tips \cup {Nothing}
  BY <1>1, <1>2 DEF WatcherState
<1>4. /\ watcher'.git = IF Consumed("git", faults) THEN refs ELSE RefsSeen
      /\ watcher'.firstRefs = IF git = Nothing /\ Scans("git") THEN refs ELSE watcher.firstRefs
  BY <1>1, <1>2 DEF Tick, Observe, WatcherState
<1>5. CASE Consumed("git", faults)
  <2>1. Reports("git") /\ "git" \in Triggers
    BY <1>5 DEF Consumed, Triggers
  <2>2. Occurrence("git") \in Occurrences /\ \E r \in Refs : Occurrence("git") = <<"git", r, refs[r]>>
    BY <2>1, Reported DEF TriggersInv
  <2>3. PICK r \in Refs : Occurrence("git") = <<"git", r, refs[r]>>
    BY <2>2
  <2>4. Occurrence("git")[1] = "git"
    BY <2>3
  <2>5. Occurrence("git") \in Answered'
    BY <1>5, <2>2, <2>4, TickAnswered
  <2> QED
    BY <1>1, <1>3, <1>4, <1>5, <2>3, <2>5
<1>6. CASE ~Consumed("git", faults) /\ git = Nothing /\ Scans("git")
  <2>1. watcher'.git = refs /\ watcher'.firstRefs = refs
    BY <1>2, <1>4, <1>6 DEF RefsSeen
  <2> QED
    BY <1>1, <2>1
<1>7. CASE ~Consumed("git", faults) /\ ~(git = Nothing /\ Scans("git"))
  <2>1. watcher'.git = git /\ watcher'.firstRefs = watcher.firstRefs
    BY <1>2, <1>4, <1>7 DEF RefsSeen
  <2>2. git # Nothing /\ git # watcher.firstRefs => \E r \in Refs : <<"git", r, git[r]>> \in Answered
    BY <1>2 DEF TriggersInv, TriggersSound, FaultsLoseNothing
  <2>3. ASSUME NEW r \in Refs, git # Nothing, <<"git", r, git[r]>> \in Answered
        PROVE  <<"git", r, git[r]>> \in Answered'
    <3>1. git[r] \in Revisions \cup {Absent}
      BY <1>3, <2>3 DEF Tips
    <3>2. <<"git", r, git[r]>> \in Occurrences /\ <<"git", r, git[r]>>[1] = "git"
      BY <3>1 DEF Occurrences
    <3> QED
      BY <1>7, <2>3, <3>2, TickAnswered
  <2> QED
    BY <1>3, <2>1, <2>2, <2>3
<1> QED
  BY <1>5, <1>6, <1>7

LEMMA TickWatcher ==
  ASSUME TriggersInv, NEW faults, Tick(faults)
  PROVE  watcher' \in WatcherState /\ FaultsLoseNothing'
<1>1. watcher \in WatcherState /\ ScanInterval \in Nat
  BY TriggerBounds DEF TriggersInv, TriggerTypes
<1>2. PICK scanned : scanned = [t \in {"fs", "git"} |-> IF Scans(t) THEN 0 ELSE watcher.scanned[t]]
  OBVIOUS
<1>3. scanned \in [{"fs", "git"} -> Nat]
  BY <1>1, <1>2 DEF WatcherState
<1>4. PICK fs, git, firstTree, firstRefs :
        watcher' = [watcher EXCEPT !.fs = fs, !.git = git, !.scanned = scanned,
                                   !.firstTree = firstTree, !.firstRefs = firstRefs]
  BY <1>2 DEF Tick, Observe
<1>5. /\ fs \in Seen /\ firstTree \in Trees \cup {Nothing}
      /\ git \in {Nothing} \cup Tips /\ firstRefs \in Tips \cup {Nothing}
  <2>1. watcher'.fs = fs /\ watcher'.git = git /\ watcher'.firstTree = firstTree /\ watcher'.firstRefs = firstRefs
    BY <1>1, <1>4 DEF WatcherState
  <2> QED
    BY <2>1, TickFiles, TickRefs
<1>6. watcher' \in WatcherState
  BY <1>1, <1>3, <1>4, <1>5 DEF WatcherState
<1>7. FaultsLoseNothing'
  BY TickFiles, TickRefs DEF FaultsLoseNothing
<1> QED
  BY <1>6, <1>7

LEMMA TickStep ==
  ASSUME TriggersInv, NEW faults, Tick(faults)
  PROVE  TriggersInv'
<1>1. /\ now' = now /\ tree' = tree /\ refs' = refs /\ enabled' = enabled
  BY DEF Tick, world
<1>2. TriggerTypes'
  BY <1>1, TickRuns, TickCounts, TickWatcher, TickJoined DEF TriggersInv, TriggerTypes
<1>3. LastRan' /\ Ahead' /\ JoinedKind' /\ TriggersSound'
  BY TickRuns, TickCounts, TickWatcher, TickJoined DEF TriggersSound
<1> QED
  BY <1>2, <1>3 DEF TriggersInv

-----------------------------------------------------------------------------
(* The other steps leave the runs, the schedule and the counts alone *)

LEMMA RecordsKept ==
  ASSUME TriggersInv, UNCHANGED <<next, last, runs, counted, joined>>,
         now' \in 0..Horizon, tree' \in Trees, refs' \in Tips, enabled' \in [Triggers -> BOOLEAN],
         watcher' \in WatcherState, FaultsLoseNothing'
  PROVE  TriggersInv'
<1>1. TriggerTypes'
  BY DEF TriggersInv, TriggerTypes
<1>2. LastRan' /\ Ahead' /\ JoinedKind'
  BY DEF TriggersInv, LastRan, Ahead, JoinedKind, Ran
<1>3. OncePerOccurrence' /\ HandledOnce' /\ NothingReplayed'
  BY DEF TriggersInv, TriggersSound, OncePerOccurrence, HandledOnce, NothingReplayed, OccurrencesFired
<1> QED
  BY <1>1, <1>2, <1>3 DEF TriggersInv, TriggersSound

LEMMA ElapseStep ==
  ASSUME TriggersInv, Elapse
  PROVE  TriggersInv'
<1>1. /\ now \in 0..Horizon /\ tree \in Trees /\ refs \in Tips /\ enabled \in [Triggers -> BOOLEAN]
      /\ watcher \in WatcherState
  BY DEF TriggersInv, TriggerTypes
<1>2. Horizon \in Nat /\ Debounce \in Nat /\ ScanInterval \in Nat
  BY TriggerBounds
<1>3. \A age, limit \in Nat : Older(age, limit) \in Nat
  BY DEF Older
<1>4. now' \in 0..Horizon
  BY <1>1, <1>2 DEF Elapse, Older
<1>5. PICK fs : fs = IF watcher.fs = Nothing THEN watcher.fs
                     ELSE [watcher.fs EXCEPT !.age = Older(watcher.fs.age, Debounce)]
  OBVIOUS
<1>6. PICK scanned : scanned = [t \in {"fs", "git"} |-> Older(watcher.scanned[t], ScanInterval)]
  OBVIOUS
<1>7. watcher' = [watcher EXCEPT !.fs = fs, !.scanned = scanned]
  <2>1. watcher' = Aged(watcher)
    BY DEF Elapse
  <2>2. Aged(watcher) = [watcher EXCEPT
          !.fs = IF watcher.fs = Nothing THEN watcher.fs
                 ELSE [watcher.fs EXCEPT !.age = Older(watcher.fs.age, Debounce)],
          !.scanned = [t \in {"fs", "git"} |-> Older(watcher.scanned[t], ScanInterval)]]
    BY <1>1 DEF Aged, WatcherState
  <2> QED
    BY <1>5, <1>6, <2>1, <2>2
<1>8. scanned \in [{"fs", "git"} -> Nat]
  BY <1>1, <1>2, <1>3, <1>6 DEF WatcherState
<1>9. /\ fs \in Seen
      /\ fs # Nothing => /\ watcher.fs # Nothing
                         /\ fs.digest = watcher.fs.digest /\ fs.fired = watcher.fs.fired
  <2>1. CASE watcher.fs = Nothing
    BY <1>5, <2>1 DEF Seen
  <2>2. CASE watcher.fs # Nothing
    <3>1. watcher.fs \in [digest : Trees, age : Nat, fired : BOOLEAN]
      BY <1>1, <2>2 DEF WatcherState, Seen
    <3>2. fs = [watcher.fs EXCEPT !.age = Older(watcher.fs.age, Debounce)]
      BY <1>5, <2>2
    <3>3. Older(watcher.fs.age, Debounce) \in Nat
      BY <1>2, <1>3, <3>1
    <3> QED
      BY <2>2, <3>1, <3>2, <3>3 DEF Seen
  <2> QED
    BY <2>1, <2>2
<1>10. watcher' \in WatcherState
  BY <1>1, <1>7, <1>8, <1>9 DEF WatcherState
<1>11. watcher'.fs = fs /\ watcher'.git = watcher.git /\ watcher'.firstTree = watcher.firstTree
       /\ watcher'.firstRefs = watcher.firstRefs
  BY <1>1, <1>7 DEF WatcherState
<1>12. UNCHANGED <<tree, refs, enabled, next, last, runs, counted, joined>>
  BY DEF Elapse, world
<1>13. FaultsLoseNothing'
  BY <1>9, <1>11, <1>12 DEF TriggersInv, TriggersSound, FaultsLoseNothing, Answered
<1> QED
  BY <1>1, <1>4, <1>10, <1>12, <1>13, RecordsKept

LEMMA ChangeStep ==
  ASSUME TriggersInv, Change
  PROVE  TriggersInv'
<1>1. /\ now \in 0..Horizon /\ tree \in Trees /\ refs \in Tips /\ enabled \in [Triggers -> BOOLEAN]
      /\ watcher \in WatcherState
  BY DEF TriggersInv, TriggerTypes
<1>2. UNCHANGED <<now, next, last, runs, watcher, counted, joined>>
  BY DEF Change
<1>3. tree' \in Trees
  BY <1>1 DEF Change, world
<1>4. refs' \in Tips
  BY <1>1 DEF Change, world, Tips
<1>5. enabled' \in [Triggers -> BOOLEAN]
  BY <1>1 DEF Change, world
<1>6. FaultsLoseNothing'
  BY <1>2 DEF TriggersInv, TriggersSound, FaultsLoseNothing, Answered
<1> QED
  BY <1>1, <1>2, <1>3, <1>4, <1>5, <1>6, RecordsKept

LEMMA EndRunStep ==
  ASSUME TriggersInv, EndRun
  PROVE  TriggersInv'
<1>1. /\ now \in 0..Horizon /\ tree \in Trees /\ refs \in Tips /\ enabled \in [Triggers -> BOOLEAN]
      /\ watcher \in WatcherState
  BY DEF TriggersInv, TriggerTypes
<1>2. UNCHANGED <<now, tree, refs, enabled, next, last, runs, watcher, counted, joined>>
  BY DEF EndRun, world
<1>3. FaultsLoseNothing'
  BY <1>2 DEF TriggersInv, TriggersSound, FaultsLoseNothing, Answered
<1> QED
  BY <1>1, <1>2, <1>3, RecordsKept

\* The watcher forgets what it saw, and with it what it would have to answer for.
LEMMA NewWatcherForgets ==
  ASSUME NEW start \in Nat
  PROVE  /\ NewWatcher(start) \in WatcherState
         /\ NewWatcher(start).fs = Nothing /\ NewWatcher(start).git = Nothing
<1>1. PICK scanned : scanned = [t \in {"fs", "git"} |-> ScanInterval]
  OBVIOUS
<1>2. scanned \in [{"fs", "git"} -> Nat]
  BY <1>1, TriggerBounds
<1>3. NewWatcher(start) = [start |-> start, fs |-> Nothing, git |-> Nothing, scanned |-> scanned,
                           firstTree |-> Nothing, firstRefs |-> Nothing]
  BY <1>1 DEF NewWatcher
<1>4. Nothing \in Seen
  BY DEF Seen
<1> QED
  BY <1>2, <1>3, <1>4 DEF WatcherState

LEMMA RestartStep ==
  ASSUME TriggersInv, Restart
  PROVE  TriggersInv'
<1>1. now \in 0..Horizon /\ tree \in Trees /\ refs \in Tips /\ enabled \in [Triggers -> BOOLEAN]
  BY DEF TriggersInv, TriggerTypes
<1>2. PICK later \in now..Horizon : now' = later /\ watcher' = NewWatcher(later)
  BY DEF Restart
<1>3. later \in 0..Horizon /\ later \in Nat
  BY <1>1, <1>2, TriggerBounds
<1>4. UNCHANGED <<tree, refs, enabled, next, last, runs, counted, joined>>
  BY DEF Restart, world
<1>5. watcher' \in WatcherState /\ watcher'.fs = Nothing /\ watcher'.git = Nothing
  BY <1>2, <1>3, NewWatcherForgets
<1>6. FaultsLoseNothing'
  BY <1>5 DEF FaultsLoseNothing
<1> QED
  BY <1>1, <1>2, <1>3, <1>4, <1>5, <1>6, RecordsKept

-----------------------------------------------------------------------------
(* The theorems *)

LEMMA TriggersInit ==
  ASSUME Init
  PROVE  TriggersInv
<1>1. TriggerTypes
  <2>1. now \in 0..Horizon /\ next \in Nat /\ tree \in Trees /\ refs \in Tips
    BY TriggerBounds DEF Init, Tips
  <2>2. watcher \in WatcherState
    BY NewWatcherForgets DEF Init
  <2>3. enabled \in [Triggers -> BOOLEAN] /\ last \in [Triggers -> Occurrences \cup {Nothing}]
    BY DEF Init
  <2>4. counted \in [0..Horizon -> Nat] /\ joined \in [{"fs", "git"} -> Occurrences \cup {Nothing}]
    BY DEF Init
  <2>5. runs \in Seq(Run)
    BY DEF Init
  <2> QED
    BY <2>1, <2>2, <2>3, <2>4, <2>5 DEF TriggerTypes
<1>2. runs = <<>> /\ DOMAIN runs = {}
  BY DEF Init
<1>3. LastRan /\ Ahead /\ JoinedKind
  BY <1>2 DEF Init, LastRan, Ahead, JoinedKind, Ran
<1>4. OncePerOccurrence /\ HandledOnce /\ NothingReplayed
  BY <1>2 DEF Init, OncePerOccurrence, HandledOnce, NothingReplayed, OccurrencesFired
<1>5. FaultsLoseNothing
  BY NewWatcherForgets DEF Init, FaultsLoseNothing
<1> QED
  BY <1>1, <1>3, <1>4, <1>5 DEF TriggersInv, TriggersSound

LEMMA NextStep ==
  ASSUME TriggersInv, [Next]_vars
  PROVE  TriggersInv'
<1>1. CASE \E faults \in SUBSET Transactions : Tick(faults)
  BY <1>1, TickStep
<1>2. CASE Elapse
  BY <1>2, ElapseStep
<1>3. CASE Change
  BY <1>3, ChangeStep
<1>4. CASE EndRun
  BY <1>4, EndRunStep
<1>5. CASE Restart
  BY <1>5, RestartStep
<1>6. CASE UNCHANGED vars
  <2>1. UNCHANGED <<now, tree, refs, enabled, next, last, runs, watcher, counted, joined>>
    BY <1>6 DEF vars
  <2>2. FaultsLoseNothing'
    BY <2>1 DEF TriggersInv, TriggersSound, FaultsLoseNothing, Answered
  <2> QED
    BY <2>1, <2>2, RecordsKept DEF TriggersInv, TriggerTypes
<1> QED
  BY <1>1, <1>2, <1>3, <1>4, <1>5, <1>6 DEF Next

\* The triggers, their watcher and their journal agree in every state
\* (src/routines/triggers.rs, run_routine_tick in src/app.rs).
THEOREM TriggersInductive == Spec => []TriggersInv
<1>1. Init => TriggersInv
  BY TriggersInit
<1>2. TriggersInv /\ [Next]_vars => TriggersInv'
  BY NextStep
<1> QED
  BY <1>1, <1>2, PTL DEF Spec

\* Whatever files and refs change, whichever transactions fail and however
\* often the program restarts: an occurrence starts at most one run
\* (occurrence_consumed), one of the schedule is run or counted as skipped
\* once, none from before the session is replayed, and a change that was
\* ticked off (mark_consumed) was answered.
THEOREM OccurrencesCountOnce == Spec => []TriggersSound
<1>1. TriggersInv => TriggersSound
  BY DEF TriggersInv
<1> QED
  BY <1>1, TriggersInductive, PTL
=============================================================================
