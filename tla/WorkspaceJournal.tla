--------------------------- MODULE WorkspaceJournal ---------------------------
(***************************************************************************)
(* The workspace journal of src/src/persistence/storage.rs and the manager *)
(* of src/src/workspaces.rs that keeps the open workspaces in memory.      *)
(*                                                                         *)
(* A batch of commands is applied to a copy of the workspace; its events   *)
(* and two snapshots are committed in one transaction and the copy then    *)
(* replaces the workspace.  Recovery takes the newest snapshot that        *)
(* decodes and replays the events after it.  Removing a workspace only     *)
(* takes it off the list; its journal stays and can be opened again.       *)
(*                                                                         *)
(* The aggregate is reduced to its directory and where its agents are: on  *)
(* the canvas, archived with their last card, or, in snapshots of earlier  *)
(* versions, neither.                                                      *)
(***************************************************************************)
EXTENDS Integers, Sequences, SequencesExt, FiniteSets

CONSTANTS
  Workspaces,   \* identifiers, 1..n
  Agents, Directories,
  MaxEvents,    \* bound: events in the journal
  MaxBatch,     \* bound: commands of a batch
  MaxTime,      \* bound: clock of the last-opened times
  MaxFaults     \* bound: crashes, database errors and unreadable snapshots

Nobody == 0
Gone == [dir |-> "gone", agents |-> [a \in Agents |-> "none"]]
States == [dir : Directories, agents : [Agents -> {"none", "placed", "unplaced", "archived"}]]

VARIABLES
  events,     \* journal_events: the workspace and command of each sequence number
  snapshots,  \* workspace_snapshots: sequence, workspace, state, whether it decodes
  registry,   \* workspace_registry: when each workspace was last opened, 0 for not listed
  selected,   \* application_state: the active workspace
  running,    \* whether the application runs
  memory,     \* its workspaces
  recent,     \* its list of recent workspaces
  active,     \* its active workspace
  clock, faults

disk == <<events, snapshots, registry, selected>>
manager == <<running, memory, recent, active>>
vars == <<disk, manager, clock, faults>>

-----------------------------------------------------------------------------
(* The aggregate: domain/workspace.rs *)

Commands == [op : {"settings"}, dir : Directories] \cup [op : {"add", "remove", "restore"}, agent : Agents]

\* The refusals of execute and apply.
Allowed(s, c) ==
  CASE c.op = "settings" -> c.dir # s.dir
    [] c.op = "add" -> s.agents[c.agent] = "none"
    [] c.op = "remove" -> s.agents[c.agent] = "placed"
    [] OTHER -> s.agents[c.agent] \in {"archived", "unplaced"}

\* Removing the last card of an agent archives it; a card brings it back.
Apply(s, c) ==
  CASE c.op = "settings" -> [s EXCEPT !.dir = c.dir]
    [] c.op = "remove" -> [s EXCEPT !.agents[c.agent] = "archived"]
    [] OTHER -> [s EXCEPT !.agents[c.agent] = "placed"]

-----------------------------------------------------------------------------
(* Recovery: Journal::recover *)

EventsOf(w) == {n \in DOMAIN events : events[n].ws = w}
SnapshotsOf(w) == {s \in snapshots : s.ws = w}
Readable(w) == {s \in SnapshotsOf(w) : s.valid}

\* The commands of a workspace journalled from sequence number n on.
CommandsFrom(w, n) ==
  LET own == SelectSeq(SubSeq(events, n, Len(events)), LAMBDA e : e.ws = w)
  IN [i \in DOMAIN own |-> own[i].command]

\* The events after a snapshot, applied in their order.
Replay(w, s) == FoldLeft(Apply, s.state, CommandsFrom(w, s.seq + 1))

Newest(S) == CHOOSE s \in S : \A t \in S : t.seq <= s.seq
Recover(w) == IF Readable(w) = {} THEN Gone ELSE Replay(w, Newest(Readable(w)))

\* Agents whose events show that they were on the canvas.
PreviouslyPlaced(w) == {a \in Agents : \E n \in EventsOf(w) : events[n].command \in [op : {"add", "remove", "restore"}, agent : {a}]}
\* Archives the agents that an earlier version left without a card.
ArchiveUnplaced(w, s) ==
  [s EXCEPT !.agents = [a \in Agents |->
     IF s.agents[a] = "unplaced" /\ a \in PreviouslyPlaced(w) THEN "archived" ELSE s.agents[a]]]
Opened(w) == ArchiveUnplaced(w, Recover(w))

\* A journal an earlier version may have left: the removal of an agent's card
\* kept the agent.
Legacy(w, a, d) ==
  LET start == [Gone EXCEPT !.dir = d]
      placed == [start EXCEPT !.agents[a] = "placed"]
  IN /\ events = <<[ws |-> w, command |-> [op |-> "settings", dir |-> d]],
                   [ws |-> w, command |-> [op |-> "add", agent |-> a]],
                   [ws |-> w, command |-> [op |-> "remove", agent |-> a]]>>
     /\ snapshots = {[seq |-> 1, ws |-> w, state |-> start, valid |-> TRUE],
                     [seq |-> 2, ws |-> w, state |-> placed, valid |-> TRUE],
                     [seq |-> 3, ws |-> w, state |-> [placed EXCEPT !.agents[a] = "unplaced"], valid |-> TRUE]}
     /\ registry = [x \in Workspaces |-> IF x = w THEN 1 ELSE 0] /\ selected = w

Init ==
  /\ \/ /\ events = <<>> /\ snapshots = {}
        /\ registry = [w \in Workspaces |-> 0] /\ selected = Nobody
     \/ \E a \in Agents, d \in Directories : Legacy(1, a, d)
  /\ running = FALSE /\ memory = [w \in Workspaces |-> Gone] /\ recent = <<>> /\ active = Nobody
  /\ clock = 1 /\ faults = 0

-----------------------------------------------------------------------------
(* WorkspaceManager *)

\* The order of recent_workspace_ids: the active one, then the last opened.
Before(v, w) ==
  \/ v = selected /\ w # selected
  \/ (v = selected) = (w = selected)
     /\ (registry[v] > registry[w] \/ (registry[v] = registry[w] /\ v < w))
Listed == {w \in Workspaces : registry[w] > 0}

\* Starts the application: WorkspaceManager::open.
Open ==
  /\ ~running /\ running' = TRUE
  /\ memory' = [w \in Workspaces |-> IF w \in Listed THEN Opened(w) ELSE Gone]
  /\ recent' = SetToSortSeq(Listed, Before)
  /\ active' = selected
  /\ UNCHANGED <<disk, clock, faults>>

MarkRecent(w) == <<w>> \o SelectSeq(recent, LAMBDA v : v # w)

\* The rows a batch writes: each event, and snapshots of the first and the last.
Written(w, states, commands) ==
  /\ events' = events \o [i \in DOMAIN commands |-> [ws |-> w, command |-> commands[i]]]
  /\ snapshots' = snapshots \cup
       {[seq |-> Len(events) + i, ws |-> w, state |-> states[i], valid |-> TRUE] : i \in {1, Len(commands)}}

\* The states after each command of a batch on s, and whether all are allowed.
After(s, commands) == [i \in DOMAIN commands |-> FoldLeft(Apply, s, SubSeq(commands, 1, i))]
Accepted(s, commands) ==
  \A i \in DOMAIN commands : Allowed(IF i = 1 THEN s ELSE After(s, commands)[i - 1], commands[i])

\* The transaction of execute_batch, which also lists a workspace it has not seen.
Commit(w, s, commands) ==
  /\ Written(w, After(s, commands), commands)
  /\ IF registry[w] = 0
     THEN registry' = [registry EXCEPT ![w] = clock] /\ selected' = w
     ELSE UNCHANGED <<registry, selected>>

\* Executes a batch: all its commands or none.
ExecuteBatch(w, commands) ==
  /\ running /\ memory[w] # Gone
  /\ Len(events) + Len(commands) <= MaxEvents
  /\ Accepted(memory[w], commands)
  /\ Commit(w, memory[w], commands)
  /\ memory' = [memory EXCEPT ![w] = Last(After(memory[w], commands))]
  /\ UNCHANGED <<running, recent, active, clock, faults>>

\* Faulty variant: an identifier that no open workspace has.
FreshAmongOpen == {w \in Workspaces : registry[w] = 0 /\ \A v \in Listed : v < w}
\* The identifier above every recorded one: next_workspace_id.
FreshIdentifier ==
  LET recorded == {events[n].ws : n \in DOMAIN events}
  IN {w \in Workspaces : (\A v \in recorded : v < w) /\ (w = 1 \/ w - 1 \in recorded)}

\* Workspaces of that directory that were removed from the list.
Closed(d) == {w \in Workspaces : memory[w] = Gone /\ EventsOf(w) # {} /\ Recover(w).dir = d}

\* Creates a workspace for a directory, or opens the one it had before.
CreateWorkspace(d) ==
  /\ running
  /\ IF Closed(d) # {}
     THEN \E w \in Closed(d) :
            /\ registry' = [registry EXCEPT ![w] = clock] /\ selected' = w
            /\ memory' = [memory EXCEPT ![w] = Recover(w)]
            /\ recent' = MarkRecent(w) /\ active' = w
            /\ UNCHANGED <<events, snapshots>>
     ELSE \E w \in FreshIdentifier :
            LET settings == <<[op |-> "settings", dir |-> d]>> IN
            /\ Len(events) < MaxEvents
            /\ Commit(w, Gone, settings)
            /\ memory' = [memory EXCEPT ![w] = After(Gone, settings)[1]]
            /\ recent' = MarkRecent(w) /\ active' = w
  /\ UNCHANGED <<running, clock, faults>>

Switch(w) ==
  /\ running /\ memory[w] # Gone
  /\ registry' = [registry EXCEPT ![w] = clock] /\ selected' = w
  /\ active' = w /\ recent' = MarkRecent(w)
  /\ UNCHANGED <<events, snapshots, running, memory, clock, faults>>

\* Faulty variant: the removed workspace stays selected.
SelectedKept(w) == {selected}
\* The workspace that is active after one is removed.
SelectedAfter(w) ==
  IF selected # w THEN {selected}
  ELSE IF Listed \ {w} = {} THEN {Nobody}
  ELSE {v \in Listed \ {w} : \A x \in Listed \ {w} : registry[v] > registry[x] \/ (registry[v] = registry[x] /\ v <= x)}

RemoveWorkspace(w) ==
  /\ running /\ memory[w] # Gone
  /\ selected' \in SelectedAfter(w)
  /\ registry' = [registry EXCEPT ![w] = 0]
  /\ memory' = [memory EXCEPT ![w] = Gone]
  /\ recent' = SelectSeq(recent, LAMBDA v : v # w)
  /\ active' = selected'
  /\ UNCHANGED <<events, snapshots, running, clock, faults>>

-----------------------------------------------------------------------------
(* Time and faults *)

Fault == faults < MaxFaults /\ faults' = faults + 1

\* What a transaction that fails leaves in memory.
RolledBack(w, commands) == memory

\* The transaction of a batch fails and leaves nothing.
BatchFails(w, commands) ==
  /\ running /\ memory[w] # Gone /\ Accepted(memory[w], commands)
  /\ Fault
  /\ memory' = RolledBack(w, commands)
  /\ UNCHANGED <<disk, running, recent, active, clock>>

Crash ==
  /\ running /\ Fault
  /\ running' = FALSE /\ memory' = [w \in Workspaces |-> Gone] /\ recent' = <<>> /\ active' = Nobody
  /\ UNCHANGED <<disk, clock>>

\* A snapshot no longer decodes; an older one is left.
Damage ==
  /\ Fault
  /\ \E s \in snapshots :
       /\ s.valid /\ Cardinality(Readable(s.ws)) > 1
       /\ snapshots' = (snapshots \ {s}) \cup {[s EXCEPT !.valid = FALSE]}
  /\ UNCHANGED <<events, registry, selected, manager, clock>>

\* The clock moves, or not, between two operations.
Tick == clock < MaxTime /\ clock' = clock + 1 /\ UNCHANGED <<disk, manager, faults>>

Batches == UNION {[1..n -> Commands] : n \in 1..MaxBatch}

Next ==
  \/ Open \/ Crash \/ Damage \/ Tick
  \/ \E w \in Workspaces : Switch(w) \/ RemoveWorkspace(w)
  \/ \E w \in Workspaces : \E commands \in Batches : ExecuteBatch(w, commands) \/ BatchFails(w, commands)
  \/ \E d \in Directories : CreateWorkspace(d)

Spec == Init /\ [][Next]_vars

-----------------------------------------------------------------------------
(* Properties *)

\* What the application works on is what a restart would recover, and the
\* lists in memory and in the database name the same workspaces.
MemoryMatchesJournal ==
  running =>
    /\ \A w \in Workspaces :
         IF w \in Listed THEN ArchiveUnplaced(w, memory[w]) = Opened(w) ELSE memory[w] = Gone
    /\ ToSet(recent) = Listed /\ active = selected

\* A start never meets a missing workspace: the active workspace is listed,
\* and every listed one has a snapshot that decodes.
AlwaysOpens ==
  /\ selected \in Listed \cup {Nobody} /\ (selected = Nobody => Listed = {})
  /\ \A w \in Listed : Readable(w) # {}

\* Every snapshot leads to the same workspace: recovery does not depend on
\* which ones decode, and no two workspaces share a journal.
SnapshotsAgree ==
  \A s \in snapshots : ArchiveUnplaced(s.ws, Replay(s.ws, s)) = Opened(s.ws)

\* The journal implements the abstract store: crashes, failed transactions,
\* restarts and damaged snapshots change nothing.
Store == INSTANCE WorkspaceStore WITH
  NoState <- Gone, state <- [w \in Workspaces |-> Opened(w)], open <- Listed, active <- selected
StoreImplemented == Store!Spec
=============================================================================
