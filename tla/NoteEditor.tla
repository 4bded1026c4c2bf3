----------------------------- MODULE NoteEditor -----------------------------
(***************************************************************************)
(* The editor of note nodes: NoteBuffer of context.rs and its use in       *)
(* app/context_nodes.rs.                                                   *)
(*                                                                         *)
(* The body of a note lives in a file that agents and other programs       *)
(* write too.  The editor keeps a buffer with the content it observed; a   *)
(* background scan refreshes a copy of the buffer from the checkout that   *)
(* is active when it starts, and its result replaces the buffer only if    *)
(* nothing happened to it meanwhile.  Saving reads the file, compares it   *)
(* with what was observed and renames a temporary file over it.            *)
(***************************************************************************)
EXTENDS Integers

CONSTANTS
  Places,        \* floors: a workspace and the checkout it works in
  WorkspaceOf,   \* the workspace of a place
  Nodes, Home,   \* note nodes, and the floor each one belongs to
  Typed, Written,   \* contents the user types, and other programs write
  Nothing,       \* no value
  Missing, Empty,   \* no file, and a file without content
  Unreadable,    \* a content that is not text, or is too large
  MaxEdits, MaxWrites, MaxMoves, MaxSaves   \* bounds

VARIABLES
  file,     \* what each checkout has at the path of each note
  active,   \* the active floor of the active workspace
  key,      \* UiState.note_key
  note,     \* UiState.note
  busy,     \* UiState.refresh_busy
  refresh,  \* the background scan
  saving,   \* a save between its check and its write
  shown,    \* contents the editor has shown since the note was opened
  edits, writes, moves, saves   \* bounds used up

bounds == <<edits, writes, moves, saves>>
vars == <<file, active, key, note, busy, refresh, saving, shown, bounds>>

Place(node) == Home[node]

\* read_note: the text of a file and its revision; a missing file has no text.
Readable(content) == content # Unreadable
Text(content) == IF content = Missing THEN Empty ELSE content

\* NoteBuffer::load
Loaded(content) == [text |-> Text(content), observed |-> content, dirty |-> FALSE, external |-> Nothing]

\* NoteBuffer::refresh, of a readable file
Refreshed(buffer, content) ==
  IF content = buffer.observed THEN buffer
  ELSE IF buffer.dirty THEN [buffer EXCEPT !.external = content]
  ELSE Loaded(content)

\* The user interface thread is not in the middle of a save.
Free == saving = Nothing

-----------------------------------------------------------------------------
(* Other programs *)

WriteFile ==
  /\ writes < MaxWrites /\ writes' = writes + 1
  /\ \E p \in Places, n \in Nodes, c \in Written :
       /\ file[p][n] # c
       /\ file' = [file EXCEPT ![p][n] = c]
       /\ saving' = IF Free \/ p # Place(key) \/ n # key THEN saving
                    ELSE [saving EXCEPT !.meanwhile = @ \cup {c}]
  /\ UNCHANGED <<active, key, note, busy, refresh, shown, edits, moves, saves>>

-----------------------------------------------------------------------------
(* The editor *)

\* selection_changed with a note selected: the buffer of another note goes.
Select(n) ==
  LET content == file[Place(n)][n] IN
  /\ Free /\ Place(n) = active /\ key # n
  /\ moves < MaxMoves /\ moves' = moves + 1
  /\ key' = n
  /\ note' = IF Readable(content) THEN Loaded(content) ELSE Nothing
  /\ shown' = IF Readable(content) THEN {Text(content)} ELSE {}
  /\ UNCHANGED <<file, active, busy, refresh, saving, edits, writes, saves>>

\* selection_changed with anything else selected.
Deselect ==
  /\ Free /\ key # Nothing
  /\ key' = Nothing /\ note' = Nothing /\ shown' = {}
  /\ UNCHANGED <<file, active, busy, refresh, saving, bounds>>

\* Another floor or workspace becomes active; the editor's state stays.
Activate ==
  /\ Free /\ moves < MaxMoves /\ moves' = moves + 1
  /\ \E p \in Places \ {active} : active' = p
  /\ UNCHANGED <<file, key, note, busy, refresh, saving, shown, edits, writes, saves>>

\* edit_note and NoteBuffer::edit
EditNote ==
  /\ Free /\ note # Nothing /\ edits < MaxEdits /\ edits' = edits + 1
  /\ \E t \in Typed \ {note.text} : note' = [note EXCEPT !.text = t, !.dirty = TRUE]
  /\ UNCHANGED <<file, active, key, busy, refresh, saving, shown, writes, moves, saves>>

\* NoteBuffer::save, up to the write: a plain save of a file that changed
\* reports a conflict.
CheckSave(overwrite) ==
  LET current == file[Place(key)][key] IN
  /\ Free /\ note # Nothing /\ saves < MaxSaves /\ saves' = saves + 1
  /\ IF ~Readable(current) THEN UNCHANGED <<note, saving>>
     ELSE IF ~overwrite /\ current # note.observed
     THEN note' = [note EXCEPT !.external = current] /\ UNCHANGED saving
     ELSE saving' = [overwrite |-> overwrite, meanwhile |-> {}] /\ UNCHANGED note
  /\ UNCHANGED <<file, active, key, busy, refresh, shown, edits, writes, moves>>

\* atomic_write, and the end of save.
WriteSave ==
  /\ saving # Nothing
  /\ file' = [file EXCEPT ![Place(key)][key] = note.text]
  /\ note' = [note EXCEPT !.observed = note.text, !.dirty = FALSE, !.external = Nothing]
  /\ shown' = shown \cup {note.text} /\ saving' = Nothing
  /\ UNCHANGED <<active, key, busy, refresh, bounds>>

\* atomic_write fails: the file and the buffer stay.
FailSave ==
  /\ saving # Nothing /\ saving' = Nothing
  /\ UNCHANGED <<file, active, key, note, busy, refresh, shown, bounds>>

\* reload_note
Reload ==
  LET current == file[Place(key)][key] IN
  /\ Free /\ note # Nothing /\ Readable(current) /\ note # Loaded(current)
  /\ note' = Loaded(current) /\ shown' = shown \cup {Text(current)}
  /\ UNCHANGED <<file, active, key, busy, refresh, saving, bounds>>

-----------------------------------------------------------------------------
(* The background scan *)

\* tick, on the fifth refresh tick: the scan gets copies of the state.
Tick ==
  /\ Free /\ ~busy /\ busy' = TRUE
  /\ refresh' = [at |-> "started", place |-> active, key |-> key, original |-> note, result |-> note]
  /\ UNCHANGED <<file, active, key, note, saving, shown, bounds>>

\* scan: the copy of the buffer is refreshed from the checkout that was active,
\* if the note is one of that workspace; a file it cannot read ends the scan.
ReadFile ==
  LET mine == refresh.key # Nothing /\ refresh.original # Nothing
              /\ WorkspaceOf[Place(refresh.key)] = WorkspaceOf[refresh.place]
      content == file[refresh.place][refresh.key]
  IN
  /\ refresh # Nothing /\ refresh.at = "started"
  /\ refresh' = IF ~mine THEN [refresh EXCEPT !.at = "done"]
                ELSE IF ~Readable(content) THEN [refresh EXCEPT !.at = "failed"]
                ELSE [refresh EXCEPT !.at = "done", !.result = Refreshed(refresh.original, content)]
  /\ UNCHANGED <<file, active, key, note, busy, saving, shown, bounds>>

\* Faulty variant: the result replaces whatever buffer of the note there is.
SameNote(scan) ==
  /\ scan.at = "done" /\ WorkspaceOf[active] = WorkspaceOf[scan.place]
  /\ key = scan.key /\ note # Nothing /\ scan.result # Nothing

\* scan_completed: the result is for this workspace, note and buffer.
Applies(scan) ==
  /\ scan.at = "done" /\ WorkspaceOf[active] = WorkspaceOf[scan.place]
  /\ key = scan.key /\ note = scan.original /\ scan.result # Nothing

ScanCompleted ==
  /\ Free /\ refresh # Nothing /\ refresh.at \in {"done", "failed"}
  /\ refresh' = Nothing /\ busy' = FALSE
  /\ IF Applies(refresh)
     THEN note' = refresh.result /\ shown' = shown \cup {refresh.result.text}
     ELSE UNCHANGED <<note, shown>>
  /\ UNCHANGED <<file, active, key, saving, bounds>>

Init ==
  /\ file \in [Places -> [Nodes -> {Missing}]] /\ active \in Places
  /\ key = Nothing /\ note = Nothing /\ busy = FALSE /\ refresh = Nothing
  /\ saving = Nothing /\ shown = {}
  /\ edits = 0 /\ writes = 0 /\ moves = 0 /\ saves = 0

Next ==
  \/ WriteFile \/ Deselect \/ Activate \/ EditNote \/ Reload
  \/ \E n \in Nodes : Select(n)
  \/ \E overwrite \in BOOLEAN : CheckSave(overwrite)
  \/ WriteSave \/ FailSave
  \/ Tick \/ ReadFile \/ ScanCompleted

-----------------------------------------------------------------------------
(* Properties *)

\* A plain save replaces nothing the user has not had before his eyes: the file
\* had a content the editor showed, or one written while the save was under way
\* (NoteBuffer::save and refresh; docs/context-nodes.md, "fails if the observed
\* revision changed").
NothingUnseenReplaced ==
  [][saving # Nothing /\ saving' = Nothing /\ file' # file /\ ~saving.overwrite
     => \/ Text(file[Place(key)][key]) \in shown
        \/ file[Place(key)][key] \in saving.meanwhile]_vars

\* Typed text goes only by a save, a reload or a selection, whatever a scan
\* started before it was typed brings ("a dirty buffer is never replaced").
TypedTextStays ==
  [][refresh # Nothing /\ refresh' = Nothing /\ note # Nothing /\ note.dirty
     => note' # Nothing /\ note'.text = note.text]_vars

\* Neither a save nor a scan loses a content the user has not seen.
NotesKept == NothingUnseenReplaced /\ TypedTextStays
=============================================================================
