---------------------------- MODULE AgentWindows ----------------------------
(***************************************************************************)
(* The canvas of a workspace and the terminals of its cards: the canvas    *)
(* handlers of src/src/app.rs, the canvas part of domain/workspace.rs and  *)
(* src/src/terminal/session.rs.                                            *)
(*                                                                         *)
(* Every edit replaces the layout of the shown floor and is undone by      *)
(* replacing it back.  An agent is active while some floor has a card of   *)
(* it.  A terminal is kept under its card's id; its process is started on  *)
(* a worker, and its events are awaited one at a time, so that both may    *)
(* arrive after the card or the terminal has changed.  The last screen is  *)
(* stored now and then and shown again after a restart.                    *)
(***************************************************************************)
EXTENDS CanvasEditor, Sequences, SequencesExt

CONSTANTS
  FloorIds, Original,   \* floors of the workspace, the original checkout's
  MaxAgents, MaxNodes,   \* bounds: agents ever recorded, card ids
  MaxEdits,    \* bound: changes of the canvas and copies
  MaxStarts,   \* bound: terminals started
  MaxOutputs,  \* bound: outputs of processes
  MaxResets    \* bound: floor or workspace switches, and restarts

ASSUME WindowsAssumption ==
  Original \in FloorIds /\ {MaxAgents, MaxNodes, MaxEdits, MaxStarts, MaxOutputs, MaxResets} \subseteq Nat

Blank == <<>>   \* a screen without output; others are <<agent, output>>

VARIABLES
  canvas,     \* Workspace.nodes, groups and connections
  floorOf,    \* the floor of each card
  floor,      \* the shown floor
  agents,     \* Workspace.agents
  archived,   \* Workspace.archived_agents
  undo, redo, \* History
  clipboard,  \* the copied fragment
  sessions,   \* OpenPodium.terminals: a session under a card id
  generation, \* terminal_generation
  spawns,     \* processes being started on workers
  waits,      \* awaited events of processes
  live,       \* processes with a handle in a session
  stored,     \* terminal_transcripts: a screen under a card id
  imported,   \* a template was instantiated while there was history
  edits, outputs, resets   \* counters

workspace == <<canvas, floorOf, floor, agents, archived>>
history == <<undo, redo>>
terminals == <<sessions, generation, spawns, waits, live>>
counters == <<edits, outputs, resets>>
vars == <<workspace, history, clipboard, terminals, stored, imported, counters>>

None == CHOOSE f \in [{} -> {}] : TRUE

Init ==
  /\ canvas = EmptyLayout /\ floorOf = None /\ floor = Original
  /\ agents = {} /\ archived = {} /\ undo = <<>> /\ redo = <<>> /\ clipboard = EmptyLayout
  /\ sessions = None /\ generation = 0 /\ spawns = {} /\ waits = {} /\ live = {}
  /\ stored = None /\ imported = FALSE /\ edits = 0 /\ outputs = 0 /\ resets = 0

Recorded == agents \cup archived
OnFloor(f) == {n \in DOMAIN canvas.nodes : floorOf[n] = f}
Shown == Part(canvas, OnFloor(floor))
Placed(c) == Range(c.nodes) \ {Note}

-----------------------------------------------------------------------------
(* The canvas *)

\* Faulty variant: terminals of removed cards are kept.
KeepSessions(gone) == UNCHANGED terminals
\* synchronize_terminals: the process of a dropped session is cancelled.
DropSessions(gone) ==
  /\ sessions' = [n \in DOMAIN sessions \ gone |-> sessions[n]]
  /\ live' = {p \in live : p.node \notin gone}
  /\ UNCHANGED <<generation, spawns, waits>>

\* CanvasReplaced: the whole canvas with the shown part replaced must be valid.
Acceptable(after) ==
  LET rest == Without(canvas, Shown) IN
  Disjoint(rest, after) /\ ValidCanvas(Together(rest, after), Recorded \cup {Note})

\* archive_unplaced_agents, for the agents of the replaced layout.
Archives(after) == Placed(Shown) \ Placed(Together(Without(canvas, Shown), after))

\* restore_placed_agents.
Restores(all) == Placed(all) \cap archived

\* persist_canvas: CanvasReplaced, then synchronize_terminals.
Replace(after) ==
  LET all == Together(Without(canvas, Shown), after)
      gone == Archives(after)
      back == Restores(all)
  IN /\ Acceptable(after)
     /\ canvas' = all
     /\ floorOf' = [n \in DOMAIN all.nodes |-> IF n \in DOMAIN after.nodes THEN floor ELSE floorOf[n]]
     /\ agents' = (agents \ gone) \cup back
     /\ archived' = (archived \cup gone) \ back
     /\ UNCHANGED floor
     /\ DropSessions(DOMAIN canvas.nodes \ DOMAIN all.nodes)

\* Faulty variant: what was undone stays redoable after another edit.
RecordKeeping(before) == undo' = Append(undo, before) /\ redo' = redo
\* History::record.
Record(before) == undo' = Append(undo, before) /\ redo' = <<>>

Counted == edits < MaxEdits /\ edits' = edits + 1 /\ UNCHANGED <<outputs, resets>>

EditTo(after) ==
  /\ after # Shown /\ \A n \in DOMAIN after.nodes : n <= MaxNodes
  /\ Counted /\ Replace(after) /\ Record(Shown)
  /\ UNCHANGED <<clipboard, stored, imported>>

Selections == SUBSET OnFloor(floor)
RemoveCards == \E sel \in Selections : EditTo(Removed(Shown, sel))
Duplicate == \E sel \in Selections : EditTo(Duplicated(Shown, sel, canvas))
Group == \E sel \in Selections : EditTo(Grouped(Shown, sel, canvas))
Ungroup == \E sel \in Selections : EditTo(Ungrouped(Shown, sel))
Connect == \E s, t \in OnFloor(floor) :
  CanConnect(Shown, s, t) /\ EditTo(Connected(Shown, s, t, canvas))
Paste == EditTo(Pasted(Shown, clipboard, canvas))
Copy ==
  /\ \E sel \in Selections \ {{}} : clipboard' = Fragment(Shown, sel)
  /\ Counted
  /\ UNCHANGED <<workspace, history, terminals, stored, imported>>

\* The lowest number that is not in use.
Lowest(used) == CHOOSE i \in 1..(Cardinality(used) + 1) : i \notin used /\ \A j \in 1..(i-1) : j \in used

Undo ==
  /\ undo # <<>> /\ Replace(Last(undo))
  /\ undo' = Front(undo) /\ redo' = Append(redo, Shown)
  /\ UNCHANGED <<clipboard, stored, imported, counters>>

Redo ==
  /\ redo # <<>> /\ Replace(Last(redo))
  /\ redo' = Front(redo) /\ undo' = Append(undo, Shown)
  /\ UNCHANGED <<clipboard, stored, imported, counters>>

\* NodeAdded and AgentNodeAdded: a card on the shown floor.
AddCard(card, target) ==
  /\ card <= MaxNodes /\ Counted
  /\ canvas' = [canvas EXCEPT !.nodes = Over(@, [n \in {card} |-> target])]
  /\ floorOf' = Over(floorOf, [n \in {card} |-> floor])
  /\ UNCHANGED <<floor, archived, clipboard, stored>>

AddNote ==
  /\ AddCard(Lowest(DOMAIN canvas.nodes), Note) /\ Record(Shown)
  /\ UNCHANGED <<agents, terminals, imported>>

\* A routine run rebuilds its template: new agents and cards, no history.
Instantiate ==
  /\ MaxAgents > Cardinality(Recorded)
  /\ LET agent == Max(Recorded \cup {0}) + 1 IN
     AddCard(NextId(canvas.nodes), agent) /\ agents' = agents \cup {agent}
  /\ imported' = (imported \/ undo # <<>> \/ redo # <<>>)
  /\ UNCHANGED <<history, terminals>>

-----------------------------------------------------------------------------
(* Terminals *)

Session(gen, status, screen) == [gen |-> gen, status |-> status, screen |-> screen, dirty |-> FALSE]
IsActive(n) == n \in DOMAIN sessions /\ sessions[n].status \in {"starting", "running"}
SetSession(n, s) == sessions' = Over(sessions, [m \in {n} |-> s])

\* Session::stop and Session::drop: the process of the session is cancelled.
Released(n) == {p \in live : p.node # n}

\* start_terminal on a card of an active agent without an active session.  A
\* session it replaces, which may have failed with its process left, is dropped.
Starting(n, agent) ==
  /\ generation < MaxStarts /\ generation' = generation + 1
  /\ SetSession(n, Session(generation', "starting", Blank))
  /\ spawns' = spawns \cup {[node |-> n, gen |-> generation', agent |-> agent]}
  /\ live' = Released(n)
  /\ UNCHANGED waits

StartTerminal == \E n \in OnFloor(floor) :
  /\ canvas.nodes[n] \in agents /\ ~IsActive(n)
  /\ Starting(n, canvas.nodes[n])
  /\ UNCHANGED <<workspace, history, clipboard, stored, imported, counters>>

\* AddAgentNode, which records the edit and starts the terminal.
AddAgent ==
  /\ MaxAgents > Cardinality(Recorded)
  /\ LET agent == Lowest(Recorded)
         card == Lowest(DOMAIN canvas.nodes)
     IN AddCard(card, agent) /\ agents' = agents \cup {agent} /\ Starting(card, agent)
  /\ Record(Shown)
  /\ UNCHANGED imported

\* The session a message of a worker is for.
Addressed(w) == w.node \in DOMAIN sessions /\ sessions[w.node].gen = w.gen

\* handle_terminal_started; a process nobody takes is dropped and cancelled.
Started == \E w \in spawns, ok \in BOOLEAN :
  /\ spawns' = spawns \ {w}
  /\ IF Addressed(w)
     THEN /\ SetSession(w.node, [sessions[w.node] EXCEPT !.status = IF ok THEN "running" ELSE "ended"])
          /\ live' = IF ok THEN live \cup {w} ELSE live
          /\ waits' = IF ok THEN waits \cup {w} ELSE waits
     ELSE UNCHANGED <<sessions, live, waits>>
  /\ UNCHANGED <<workspace, history, clipboard, generation, stored, imported, counters>>

\* handle_terminal_event: output.  A reply it asks for (PtyWrite) that cannot be
\* written fails the session, which keeps its process; another event is awaited
\* while the session has a process.
Output == \E w \in waits, replied \in BOOLEAN :
  /\ outputs < MaxOutputs /\ outputs' = outputs + 1
  /\ IF Addressed(w)
     THEN /\ SetSession(w.node, [sessions[w.node] EXCEPT !.screen = <<w.agent, outputs'>>, !.dirty = TRUE,
                                                        !.status = IF replied THEN @ ELSE "failed"])
          /\ waits' = IF w \in live THEN waits ELSE waits \ {w}
     ELSE waits' = waits \ {w} /\ UNCHANGED sessions
  /\ UNCHANGED <<workspace, history, clipboard, generation, spawns, live, stored, imported, edits, resets>>

\* handle_terminal_event: the process ended, by itself or cancelled.
Terminated == \E w \in waits :
  /\ waits' = waits \ {w} /\ live' = live \ {w}
  /\ IF Addressed(w)
     THEN SetSession(w.node, [sessions[w.node] EXCEPT !.status = IF w \in live THEN "ended" ELSE "stopped"])
     ELSE UNCHANGED sessions
  /\ UNCHANGED <<workspace, history, clipboard, generation, spawns, stored, imported, counters>>

\* Session::stop.
StopTerminal == \E n \in OnFloor(floor) :
  /\ IsActive(n)
  /\ SetSession(n, [sessions[n] EXCEPT !.status = "stopped"])
  /\ live' = Released(n)
  /\ UNCHANGED <<workspace, history, clipboard, generation, spawns, waits, stored, imported, counters>>

-----------------------------------------------------------------------------
(* Transcripts, floors and restarts *)

Dirty == {n \in DOMAIN sessions : sessions[n].dirty}
Saved(done) == Over(stored, [n \in done |-> sessions[n].screen])

\* mark_transcript_persisted, for those whose store succeeded.
Clean(done) == [n \in DOMAIN sessions |-> IF n \in done THEN [sessions[n] EXCEPT !.dirty = FALSE] ELSE sessions[n]]

\* flush_terminal_transcripts; any of the writes may fail.
Flush == Dirty # {} /\ \E done \in SUBSET Dirty :
  /\ stored' = Saved(done) /\ sessions' = Clean(done)
  /\ UNCHANGED <<workspace, history, clipboard, generation, spawns, waits, live, imported, counters>>

\* restore_terminal_transcripts over the sessions old: transcripts of cards
\* that are gone are deleted, others are shown offline.
Restored(old, transcripts, gen) ==
  LET cards == {n \in DOMAIN canvas.nodes : canvas.nodes[n] # Note}
      new == (DOMAIN transcripts \cap cards) \ DOMAIN old
  IN /\ stored' = [n \in DOMAIN transcripts \cap cards |-> transcripts[n]]
     /\ sessions' = Over(old, [n \in new |->
          Session(gen + Cardinality({m \in new : m <= n}), "offline", transcripts[n])])
     /\ generation' = gen + Cardinality(new)

Reset == resets < MaxResets /\ resets' = resets + 1 /\ UNCHANGED <<edits, outputs>>
\* reset_canvas_session.
NoHistory == undo' = <<>> /\ redo' = <<>>

SwitchFloor ==
  /\ Reset /\ floor' \in FloorIds \ {floor} /\ NoHistory
  /\ UNCHANGED <<canvas, floorOf, agents, archived, clipboard, terminals, stored, imported>>

\* Another workspace is shown and then this one again.
Reopen ==
  /\ Reset /\ NoHistory /\ Restored(sessions, stored, generation)
  /\ UNCHANGED <<workspace, clipboard, spawns, waits, live, imported>>

\* The application stops, flushing what it can, or crashes, and starts again.
Restart ==
  /\ Reset /\ NoHistory
  /\ \E done \in SUBSET Dirty : Restored(None, Saved(done), 0)
  /\ spawns' = {} /\ waits' = {} /\ live' = {} /\ imported' = FALSE
  /\ UNCHANGED <<workspace, clipboard>>

Next ==
  \/ AddAgent \/ RemoveCards \/ Duplicate \/ Group \/ Ungroup \/ Connect \/ AddNote \/ Copy \/ Paste
  \/ Undo \/ Redo \/ Instantiate
  \/ StartTerminal \/ Started \/ Output \/ Terminated \/ StopTerminal
  \/ Flush \/ SwitchFloor \/ Reopen \/ Restart

Spec == Init /\ [][Next]_vars

-----------------------------------------------------------------------------
(* Properties *)

\* Undo and redo move through one line of layouts, whatever a routine adds to
\* the canvas and wherever the floor or the workspace is switched in between.
Line == INSTANCE CanvasTimeline WITH
  timeline <- undo \o <<Shown>> \o Reverse(redo), cursor <- Len(undo) + 1
TimelineImplemented == Line!Spec

\* What undo or redo would restore can be applied to the canvas as it is now:
\* no id in it was given to a card of another floor, no agent in it is unknown.
HistoryApplies ==
  /\ undo # <<>> => Acceptable(Last(undo))
  /\ redo # <<>> => Acceptable(Last(redo))

\* An agent is active exactly while some card of some floor shows it, through
\* removal, undo, redo and pasting (docs/agent-window-deletion.md:3-11).
AgentsFollowWindows == agents = Placed(canvas) /\ archived \cap agents = {}

\* A process runs only in the session that started it, under a card that
\* still shows its agent: unless a template was instantiated between an edit
\* and its redo, which puts another agent's card under the same id.
OwnTerminal == \A p \in live :
  /\ Addressed(p) /\ p.node \in DOMAIN canvas.nodes
  /\ imported \/ canvas.nodes[p.node] = p.agent

\* A running terminal has its process, and every process a session has is read,
\* also that of a terminal that failed because a reply to it could not be
\* written; one whose process ended awaits nothing: late messages, restarts of
\* a failed terminal and failed replies neither freeze a process nor end
\* another's session.
RunningIsRead ==
  /\ live \subseteq waits
  /\ \A n \in DOMAIN sessions :
       LET of(workers) == \E w \in workers : w.node = n /\ w.gen = sessions[n].gen IN
       (sessions[n].status = "running" => of(live)) /\ (sessions[n].status = "ended" => ~of(waits))

\* Output that is not marked for storing is stored: a crash loses only what
\* came after the last successful flush, and failed writes are retried (with
\* the exception of OwnTerminal).
CleanIsStored == \A n \in DOMAIN sessions :
  ~imported /\ ~sessions[n].dirty /\ sessions[n].screen # Blank => n \in DOMAIN stored /\ stored[n] = sessions[n].screen

\* Documented (docs/terminal.md:12-13), and not kept: a terminal stopped while
\* its process is being started runs when the process has started.
StoppedStays == [][\A n \in DOMAIN sessions \cap DOMAIN sessions' :
  sessions[n].status = "stopped" /\ sessions'[n].gen = sessions[n].gen => sessions'[n].status # "running"]_vars

\* Documented (docs/terminal.md:20-25), and not kept: the transcript of a
\* removed card is shown on the next card that gets its id.
OwnScreen == \A n \in DOMAIN sessions : sessions[n].screen # Blank => sessions[n].screen[1] = canvas.nodes[n]
=============================================================================
