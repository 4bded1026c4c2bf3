------------------------------- MODULE MCCanvas -------------------------------
(***************************************************************************)
(* What the cards of a canvas stand for, two small instances explored in   *)
(* one run: agents and their terminals (AgentWindows) and notes            *)
(* (NoteEditor).  "part" says which of them a behaviour is about; the      *)
(* other one stands still.                                                 *)
(***************************************************************************)
EXTENDS AgentWindows

CONSTANTS
  Places, WorkspaceOf, Nodes, Home, Typed, Written, Nothing, Missing, Empty, Unreadable,
  MaxNoteEdits, MaxWrites, MaxMoves, MaxSaves   \* NoteEditor

\* What is typed is a content; a missing file has none.
ASSUME NotesAssumption == Missing \notin Typed \cup {Empty}

VARIABLES
  part,
  file, active, key, note, busy, refresh, saving, seen, noteEdits, writes, moves, saves

Notes == INSTANCE NoteEditor WITH MaxEdits <- MaxNoteEdits, shown <- seen, edits <- noteEdits

noteVars == <<file, active, key, note, busy, refresh, saving, seen, noteEdits, writes, moves, saves>>

\* Two floors of a workspace and another workspace, and a note of each floor.
TwoWorkspaces == "main" :> "w" @@ "floor" :> "w" @@ "other" :> "v"
NoteHomes == "n" :> "main" @@ "m" :> "floor"

\* A part that stands still does so in one state.
CanvasInit ==
  /\ part \in {"windows", "notes"}
  /\ Init /\ Notes!Init
  /\ part # "notes" => active = "main"

CanvasNext ==
  /\ UNCHANGED part
  /\ \/ part = "windows" /\ Next /\ UNCHANGED noteVars
     \/ part = "notes" /\ Notes!Next /\ UNCHANGED vars

CanvasSpec == CanvasInit /\ [][CanvasNext]_<<part, vars, noteVars>>

\* Undo and redo move between layouts that can be applied, as CanvasTimeline
\* says (canvas/history.rs, app.rs).
HistoryHolds == []HistoryApplies /\ TimelineImplemented

\* Agents, terminals and transcripts belong together through edits, undo, late
\* results of workers and restarts (app.rs, terminal/session.rs).
WindowsHold == AgentsFollowWindows /\ OwnTerminal /\ RunningIsRead /\ CleanIsStored

\* Neither a save nor a scan loses a content nobody has seen
\* (context.rs, app/context_nodes.rs).
NotesKept == Notes!NotesKept
=============================================================================
