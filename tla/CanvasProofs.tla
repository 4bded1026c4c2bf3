----------------------------- MODULE CanvasProofs -----------------------------
(***************************************************************************)
(* Proofs about what the cards of a canvas stand for, through the module   *)
(* that puts notes and terminals side by side (MCCanvas).                  *)
(*                                                                         *)
(* NoteEditor, for any floors, notes and contents: no content is lost that *)
(* the user has not seen.  AgentWindows, for any floors and any number of  *)
(* agents, cards and terminals: agents, terminals and transcripts belong   *)
(* together through edits, undo, late results and restarts.                *)
(***************************************************************************)
EXTENDS MCCanvas, FiniteSetTheorems, TLAPS

\* What the argument needs to know of the types.
Contents == Typed \cup Written \cup {Missing, Empty, Unreadable}
Buffers == [text : Contents \ {Missing}, observed : Contents, dirty : BOOLEAN, external : Contents \cup {Nothing}]
Scans == [at : {"started", "done", "failed"}, place : Places, key : Nodes \cup {Nothing},
          original : Buffers \cup {Nothing}, result : Buffers \cup {Nothing}]
Saves == [overwrite : BOOLEAN, meanwhile : SUBSET Contents]
NoteTypes ==
  /\ file \in [Places -> [Nodes -> Contents]] /\ active \in Places
  /\ key \in Nodes \cup {Nothing}
  /\ note \in Buffers \cup {Nothing}
  /\ refresh \in Scans \cup {Nothing}
  /\ saving \in Saves \cup {Nothing}

\* The buffer is of a note that is there, and the user has seen what it took
\* from the file.
BufferSeen ==
  note # Nothing => /\ key \in Nodes /\ Home[key] \in Places
                    /\ Notes!Text(note.observed) \in seen

\* A save that was checked is of a buffer, and a plain one found what was
\* observed: the file is as it was then, or was written since.
SaveChecked ==
  saving # Nothing =>
    /\ note # Nothing
    /\ ~saving.overwrite => \/ file[Home[key]][key] = note.observed
                            \/ file[Home[key]][key] \in saving.meanwhile

\* A scan keeps the text of a buffer that was dirty when it was copied, and
\* takes nothing for read that it does not show.
Keeps(old, new) ==
  /\ old = Nothing => new = Nothing
  /\ new # Nothing /\ old # Nothing =>
       /\ old.dirty => new.text = old.text
       /\ new.observed = old.observed \/ new.text = Notes!Text(new.observed)
ScanKeeps == refresh # Nothing => Keeps(refresh.original, refresh.result)

NotesInv == NoteTypes /\ BufferSeen /\ SaveChecked /\ ScanKeeps

-----------------------------------------------------------------------------
LEMMA TextTyped == \A c \in Contents : Notes!Text(c) \in Contents \ {Missing}
  BY NotesAssumption DEF Notes!Text, Contents

LEMMA LoadedTyped ==
  ASSUME NEW c \in Contents
  PROVE  /\ Notes!Loaded(c) \in Buffers /\ Notes!Loaded(c).observed = c
         /\ Notes!Loaded(c).text = Notes!Text(c)
  BY TextTyped DEF Notes!Loaded, Buffers

\* A buffer that is replaced or changed while no save is under way.
LEMMA BufferStep ==
  ASSUME NotesInv, saving = Nothing, saving' = Nothing, UNCHANGED <<file, active, refresh>>,
         key' \in Nodes \cup {Nothing}, note' \in Buffers \cup {Nothing},
         note' # Nothing => key' \in Nodes /\ Home[key'] \in Places /\ Notes!Text(note'.observed) \in seen'
  PROVE  NotesInv'
  BY DEF NotesInv, NoteTypes, BufferSeen, SaveChecked, ScanKeeps

LEMMA WriteFileStep ==
  ASSUME NotesInv, Notes!WriteFile
  PROVE  NotesInv'
<1>1. PICK p \in Places, n \in Nodes, c \in Written :
        /\ file' = [file EXCEPT ![p][n] = c]
        /\ saving' = IF saving = Nothing \/ p # Home[key] \/ n # key THEN saving
                     ELSE [saving EXCEPT !.meanwhile = saving.meanwhile \cup {c}]
  BY DEF Notes!WriteFile, Notes!Free, Notes!Place
<1>2. UNCHANGED <<active, key, note, refresh, seen>>
  BY DEF Notes!WriteFile
<1>3. /\ c \in Contents /\ file' \in [Places -> [Nodes -> Contents]]
      /\ file'[p][n] = c
      /\ \A q \in Places, m \in Nodes : q # p \/ m # n => file'[q][m] = file[q][m]
  BY <1>1 DEF NotesInv, NoteTypes, Contents
<1>4. CASE saving = Nothing
  BY <1>1, <1>2, <1>3, <1>4 DEF NotesInv, NoteTypes, BufferSeen, SaveChecked, ScanKeeps
<1>5. CASE saving # Nothing
  <2>1. saving \in Saves /\ note # Nothing /\ key \in Nodes /\ Home[key] \in Places
    BY <1>5 DEF NotesInv, NoteTypes, BufferSeen, SaveChecked
  <2>2. CASE p # Home[key] \/ n # key
    <3>1. saving' = saving /\ file'[Home[key]][key] = file[Home[key]][key]
      BY <1>1, <1>3, <2>1, <2>2
    <3> QED
      BY <1>2, <1>3, <3>1 DEF NotesInv, NoteTypes, BufferSeen, SaveChecked, ScanKeeps
  <2>3. CASE p = Home[key] /\ n = key
    <3>1. PICK s : s = [saving EXCEPT !.meanwhile = saving.meanwhile \cup {c}]
      OBVIOUS
    <3>2. s \in Saves /\ s.overwrite = saving.overwrite /\ c \in s.meanwhile
      BY <1>3, <2>1, <3>1 DEF Saves
    <3>3. saving' = s /\ file'[Home[key]][key] = c
      BY <1>1, <1>3, <1>5, <2>3, <3>1
    <3>4. UNCHANGED <<key, note>> /\ saving'.overwrite = saving.overwrite /\ file'[Home[key']][key'] \in saving'.meanwhile
      BY <1>2, <3>2, <3>3
    <3>5. SaveChecked'
      BY <2>1, <3>4 DEF SaveChecked
    <3> QED
      BY <1>2, <1>3, <3>2, <3>3, <3>5 DEF NotesInv, NoteTypes, BufferSeen, ScanKeeps
  <2> QED
    BY <2>2, <2>3
<1> QED
  BY <1>4, <1>5

LEMMA SelectStep ==
  ASSUME NotesInv, NEW n \in Nodes, Notes!Select(n)
  PROVE  NotesInv'
<1>1. PICK c : c = file[Home[n]][n]
  OBVIOUS
<1>2. Home[n] \in Places /\ c \in Contents
  BY <1>1 DEF Notes!Select, Notes!Place, NotesInv, NoteTypes
<1>3. /\ saving = Nothing /\ saving' = Nothing /\ UNCHANGED <<file, active, refresh>> /\ key' = n
      /\ note' = IF Notes!Readable(c) THEN Notes!Loaded(c) ELSE Nothing
      /\ seen' = IF Notes!Readable(c) THEN {Notes!Text(c)} ELSE {}
  BY <1>1 DEF Notes!Select, Notes!Place, Notes!Free
<1> QED
  BY <1>2, <1>3, LoadedTyped, BufferStep

LEMMA EditStep ==
  ASSUME NotesInv, Notes!EditNote
  PROVE  NotesInv'
<1>0. PICK t \in Typed : note' = [note EXCEPT !.text = t, !.dirty = TRUE]
  BY DEF Notes!EditNote
<1>1. PICK b : b = [note EXCEPT !.text = t, !.dirty = TRUE] /\ note' = b
  BY <1>0
<1>2. note \in Buffers /\ note # Nothing
  BY DEF Notes!EditNote, NotesInv, NoteTypes
<1>3. b \in Buffers /\ b.observed = note.observed
  BY <1>1, <1>2, NotesAssumption DEF Buffers, Contents
<1>4. saving = Nothing /\ saving' = Nothing /\ UNCHANGED <<file, active, refresh, key, seen>>
  BY DEF Notes!EditNote, Notes!Free
<1> QED
  BY <1>1, <1>2, <1>3, <1>4, BufferStep DEF NotesInv, NoteTypes, BufferSeen

LEMMA CheckSaveStep ==
  ASSUME NotesInv, NEW overwrite \in BOOLEAN, Notes!CheckSave(overwrite)
  PROVE  NotesInv'
<1>1. PICK c : c = file[Home[key]][key]
  OBVIOUS
<1>2. note \in Buffers /\ note # Nothing /\ key \in Nodes /\ Home[key] \in Places /\ c \in Contents
      /\ Notes!Text(note.observed) \in seen
  BY <1>1 DEF Notes!CheckSave, NotesInv, NoteTypes, BufferSeen
<1>3. saving = Nothing /\ UNCHANGED <<file, active, refresh, key, seen>>
  BY DEF Notes!CheckSave, Notes!Free
<1>4. CASE UNCHANGED <<note, saving>>
  BY <1>3, <1>4 DEF NotesInv, NoteTypes, BufferSeen, SaveChecked, ScanKeeps
<1>5. CASE note' = [note EXCEPT !.external = c] /\ UNCHANGED saving
  <2>1. PICK b : b = [note EXCEPT !.external = c]
    OBVIOUS
  <2>2. b \in Buffers /\ b.observed = note.observed
    BY <1>2, <2>1 DEF Buffers
  <2> QED
    BY <1>2, <1>3, <1>5, <2>1, <2>2, BufferStep
<1>6. CASE ~(~overwrite /\ c # note.observed) /\ saving' = [overwrite |-> overwrite, meanwhile |-> {}] /\ UNCHANGED note
  <2>1. saving' \in Saves /\ saving'.overwrite = overwrite
    BY <1>6 DEF Saves
  <2>2. UNCHANGED note /\ (~overwrite => c = note.observed)
    BY <1>6
  <2> QED
    BY <1>1, <1>2, <1>3, <2>1, <2>2 DEF NotesInv, NoteTypes, BufferSeen, SaveChecked, ScanKeeps
<1> QED
  BY <1>1, <1>4, <1>5, <1>6 DEF Notes!CheckSave, Notes!Place

LEMMA WriteSaveStep ==
  ASSUME NotesInv, Notes!WriteSave
  PROVE  NotesInv'
<1>1. note \in Buffers /\ note # Nothing /\ key \in Nodes /\ Home[key] \in Places
  BY DEF Notes!WriteSave, NotesInv, NoteTypes, BufferSeen, SaveChecked
<1>2. PICK b : b = [note EXCEPT !.observed = note.text, !.dirty = FALSE, !.external = Nothing]
  OBVIOUS
<1>3. b \in Buffers /\ b.observed = note.text /\ Notes!Text(note.text) = note.text /\ note.text \in Contents
  BY <1>1, <1>2 DEF Buffers, Notes!Text
<1>4. /\ note' = b /\ seen' = seen \cup {note.text} /\ saving' = Nothing
      /\ file' = [file EXCEPT ![Home[key]][key] = note.text]
      /\ UNCHANGED <<active, key, refresh>>
  BY <1>2 DEF Notes!WriteSave, Notes!Place
<1>5. file' \in [Places -> [Nodes -> Contents]]
  BY <1>3, <1>4 DEF NotesInv, NoteTypes
<1> QED
  BY <1>1, <1>3, <1>4, <1>5 DEF NotesInv, NoteTypes, BufferSeen, SaveChecked, ScanKeeps

LEMMA ReloadStep ==
  ASSUME NotesInv, Notes!Reload
  PROVE  NotesInv'
<1>1. PICK c : c = file[Home[key]][key]
  OBVIOUS
<1>2. key \in Nodes /\ Home[key] \in Places /\ c \in Contents
  BY <1>1 DEF Notes!Reload, NotesInv, NoteTypes, BufferSeen
<1>3. /\ saving = Nothing /\ saving' = Nothing /\ UNCHANGED <<file, active, refresh, key>>
      /\ note' = Notes!Loaded(c) /\ seen' = seen \cup {Notes!Text(c)}
  BY <1>1 DEF Notes!Reload, Notes!Place, Notes!Free
<1> QED
  BY <1>2, <1>3, LoadedTyped, BufferStep

LEMMA TickStep ==
  ASSUME NotesInv, Notes!Tick
  PROVE  NotesInv'
<1>1. PICK s : s = [at |-> "started", place |-> active, key |-> key, original |-> note, result |-> note]
  OBVIOUS
<1>2. s \in Scans /\ Keeps(s.original, s.result)
  BY <1>1 DEF Scans, Keeps, NotesInv, NoteTypes
<1>3. refresh' = s /\ UNCHANGED <<file, active, key, note, saving, seen>>
  BY <1>1 DEF Notes!Tick
<1> QED
  BY <1>2, <1>3 DEF NotesInv, NoteTypes, BufferSeen, SaveChecked, ScanKeeps

LEMMA RefreshedKeeps ==
  ASSUME NEW b \in Buffers, NEW c \in Contents, b # Nothing
  PROVE  Notes!Refreshed(b, c) \in Buffers /\ Keeps(b, Notes!Refreshed(b, c))
<1>1. CASE c = b.observed
  BY <1>1 DEF Notes!Refreshed, Keeps
<1>2. CASE c # b.observed /\ b.dirty
  <2>1. PICK e : e = [b EXCEPT !.external = c]
    OBVIOUS
  <2>2. e \in Buffers /\ e.observed = b.observed /\ e.text = b.text
    BY <2>1 DEF Buffers
  <2>3. Notes!Refreshed(b, c) = e
    BY <1>2, <2>1 DEF Notes!Refreshed
  <2> QED
    BY <2>2, <2>3 DEF Keeps
<1>3. CASE c # b.observed /\ ~b.dirty
  <2>1. Notes!Refreshed(b, c) = Notes!Loaded(c)
    BY <1>3 DEF Notes!Refreshed
  <2> QED
    BY <1>3, <2>1, LoadedTyped DEF Keeps
<1> QED
  BY <1>1, <1>2, <1>3

LEMMA ReadFileStep ==
  ASSUME NotesInv, Notes!ReadFile
  PROVE  NotesInv'
<1>1. refresh \in Scans /\ refresh # Nothing /\ Keeps(refresh.original, refresh.result)
  BY DEF Notes!ReadFile, NotesInv, NoteTypes, ScanKeeps
<1>2. UNCHANGED <<file, active, key, note, saving, seen>>
  BY DEF Notes!ReadFile
<1>3. \E s \in Scans : refresh' = s /\ Keeps(s.original, s.result)
  <2>1. PICK done, failed : /\ done = [refresh EXCEPT !.at = "done"]
                            /\ failed = [refresh EXCEPT !.at = "failed"]
    OBVIOUS
  <2>2. /\ done \in Scans /\ done.original = refresh.original /\ done.result = refresh.result
        /\ failed \in Scans /\ failed.original = refresh.original /\ failed.result = refresh.result
    BY <1>1, <2>1 DEF Scans
  <2>3. CASE refresh' = done \/ refresh' = failed
    BY <1>1, <2>2, <2>3
  <2>4. CASE refresh.key # Nothing /\ refresh.original # Nothing
             /\ refresh' = [refresh EXCEPT !.at = "done",
                  !.result = Notes!Refreshed(refresh.original, file[refresh.place][refresh.key])]
    <3>1. PICK r : r = Notes!Refreshed(refresh.original, file[refresh.place][refresh.key])
      OBVIOUS
    <3>2. refresh.original \in Buffers /\ file[refresh.place][refresh.key] \in Contents
      BY <1>1, <2>4 DEF Scans, NotesInv, NoteTypes
    <3>3. r \in Buffers /\ Keeps(refresh.original, r)
      BY <2>4, <3>1, <3>2, RefreshedKeeps
    <3>4. PICK s : s = [refresh EXCEPT !.at = "done", !.result = r]
      OBVIOUS
    <3>5. s \in Scans /\ s.original = refresh.original /\ s.result = r
      BY <1>1, <3>3, <3>4 DEF Scans
    <3> QED
      BY <2>4, <3>1, <3>3, <3>4, <3>5
  <2> QED
    BY <2>1, <2>3, <2>4 DEF Notes!ReadFile
<1> QED
  BY <1>2, <1>3 DEF NotesInv, NoteTypes, BufferSeen, SaveChecked, ScanKeeps

LEMMA CompletedStep ==
  ASSUME NotesInv, Notes!ScanCompleted
  PROVE  NotesInv'
<1>1. refresh \in Scans /\ Keeps(refresh.original, refresh.result)
  BY DEF Notes!ScanCompleted, NotesInv, NoteTypes, ScanKeeps
<1>2. saving = Nothing /\ saving' = Nothing /\ refresh' = Nothing /\ UNCHANGED <<file, active, key>>
  BY DEF Notes!ScanCompleted, Notes!Free
<1>3. CASE Notes!Applies(refresh)
  <2>1. note' = refresh.result /\ seen' = seen \cup {refresh.result.text} /\ note = refresh.original
        /\ refresh.result # Nothing
    BY <1>3 DEF Notes!ScanCompleted, Notes!Applies
  <2>2. note # Nothing /\ note' \in Buffers /\ note \in Buffers
    BY <1>1, <2>1 DEF Keeps, Scans, NotesInv, NoteTypes
  <2>3. note'.observed = note.observed \/ note'.text = Notes!Text(note'.observed)
    BY <1>1, <2>1, <2>2 DEF Keeps
  <2>4. Notes!Text(note.observed) \in seen /\ key \in Nodes /\ Home[key] \in Places
    BY <2>2 DEF NotesInv, BufferSeen
  <2>5. Notes!Text(note'.observed) \in seen'
    <3>1. CASE note'.observed = note.observed
      <4>1. Notes!Text(note'.observed) = Notes!Text(note.observed)
        BY <3>1
      <4> QED
        BY <2>1, <2>4, <4>1
    <3>2. CASE note'.text = Notes!Text(note'.observed)
      BY <2>1, <3>2
    <3> QED
      BY <2>3, <3>1, <3>2
  <2> QED
    BY <1>2, <2>2, <2>4, <2>5 DEF NotesInv, NoteTypes, BufferSeen, SaveChecked, ScanKeeps
<1>4. CASE ~Notes!Applies(refresh)
  <2>1. UNCHANGED <<note, seen>>
    BY <1>4 DEF Notes!ScanCompleted
  <2> QED
    BY <1>2, <2>1 DEF NotesInv, NoteTypes, BufferSeen, SaveChecked, ScanKeeps
<1> QED
  BY <1>3, <1>4

LEMMA NotesStep ==
  ASSUME NotesInv, [Notes!Next]_Notes!vars
  PROVE  NotesInv'
<1>1. CASE Notes!Deselect
  <2>1. saving = Nothing /\ saving' = Nothing /\ UNCHANGED <<file, active, refresh>> /\ key' = Nothing /\ note' = Nothing
    BY <1>1 DEF Notes!Deselect, Notes!Free
  <2> QED
    BY <2>1, BufferStep
<1>2. CASE Notes!Activate
  BY <1>2 DEF Notes!Activate, NotesInv, NoteTypes, BufferSeen, SaveChecked, ScanKeeps
<1>3. CASE Notes!FailSave
  BY <1>3 DEF Notes!FailSave, NotesInv, NoteTypes, BufferSeen, SaveChecked, ScanKeeps
<1>4. CASE UNCHANGED Notes!vars
  BY <1>4 DEF Notes!vars, NotesInv, NoteTypes, BufferSeen, SaveChecked, ScanKeeps
<1> QED
  BY <1>1, <1>2, <1>3, <1>4, WriteFileStep, SelectStep, EditStep, CheckSaveStep, WriteSaveStep, ReloadStep,
     TickStep, ReadFileStep, CompletedStep DEF Notes!Next

LEMMA NotesInit == Notes!Init => NotesInv
  BY DEF Notes!Init, NotesInv, NoteTypes, BufferSeen, SaveChecked, ScanKeeps, Contents

-----------------------------------------------------------------------------
\* The step that ends a save writes over something the user has seen.
LEMMA SaveSeen ==
  ASSUME NotesInv, [Notes!Next]_Notes!vars
  PROVE  [saving # Nothing /\ saving' = Nothing /\ file' # file /\ ~saving.overwrite
          => \/ Notes!Text(file[Notes!Place(key)][key]) \in seen
             \/ file[Notes!Place(key)][key] \in saving.meanwhile]_Notes!vars
<1> SUFFICES ASSUME saving # Nothing, ~saving.overwrite
             PROVE  \/ Notes!Text(file[Home[key]][key]) \in seen
                    \/ file[Home[key]][key] \in saving.meanwhile
  BY DEF Notes!Place
<1>1. note # Nothing /\ (file[Home[key]][key] = note.observed \/ file[Home[key]][key] \in saving.meanwhile)
  BY DEF NotesInv, SaveChecked
<1>2. Notes!Text(note.observed) \in seen
  BY <1>1 DEF NotesInv, BufferSeen
<1>3. CASE file[Home[key]][key] = note.observed
  BY <1>2, <1>3
<1> QED
  BY <1>1, <1>3

\* A scan that ends leaves typed text alone.
LEMMA TextStays ==
  ASSUME NotesInv, [Notes!Next]_Notes!vars
  PROVE  [refresh # Nothing /\ refresh' = Nothing /\ note # Nothing /\ note.dirty
          => note' # Nothing /\ note'.text = note.text]_Notes!vars
<1> SUFFICES ASSUME refresh # Nothing, refresh' = Nothing, note # Nothing, note.dirty, note' # note
             PROVE  note' # Nothing /\ note'.text = note.text
  OBVIOUS
<1>1. Notes!ScanCompleted
  <2>1. ~UNCHANGED refresh /\ ~UNCHANGED note
    OBVIOUS
  <2> QED
    BY <2>1 DEF Notes!Next, Notes!vars, Notes!WriteFile, Notes!Deselect, Notes!Activate, Notes!EditNote, Notes!Reload,
       Notes!Select, Notes!CheckSave, Notes!WriteSave, Notes!FailSave, Notes!Tick, Notes!ReadFile
<1>2. Notes!Applies(refresh)
  BY <1>1 DEF Notes!ScanCompleted
<1>3. note' = refresh.result /\ refresh.result # Nothing /\ note = refresh.original
  BY <1>1, <1>2 DEF Notes!ScanCompleted, Notes!Applies
<1>4. Keeps(refresh.original, refresh.result)
  BY DEF NotesInv, ScanKeeps
<1> QED
  BY <1>3, <1>4 DEF Keeps

LEMMA NotesOfCanvas == [CanvasNext]_<<part, vars, noteVars>> => [Notes!Next]_Notes!vars
  BY DEF CanvasNext, noteVars, Notes!vars, Notes!bounds

\* No content is lost that the user has not seen: a plain save replaces only
\* what the editor has shown or what was written while the save was under way,
\* and a background scan never takes typed text away (context.rs,
\* NoteBuffer::save and refresh; app/context_nodes.rs, scan_completed).
THEOREM NotesAreKept == CanvasSpec => NotesKept
<1>1. CanvasInit => NotesInv
  BY NotesInit DEF CanvasInit
<1>2. NotesInv /\ [CanvasNext]_<<part, vars, noteVars>> => NotesInv'
  BY NotesOfCanvas, NotesStep
<1>3. NotesInv /\ [CanvasNext]_<<part, vars, noteVars>> =>
        [saving # Nothing /\ saving' = Nothing /\ file' # file /\ ~saving.overwrite
         => \/ Notes!Text(file[Notes!Place(key)][key]) \in seen
            \/ file[Notes!Place(key)][key] \in saving.meanwhile]_Notes!vars
  BY NotesOfCanvas, SaveSeen
<1>4. NotesInv /\ [CanvasNext]_<<part, vars, noteVars>> =>
        [refresh # Nothing /\ refresh' = Nothing /\ note # Nothing /\ note.dirty
         => note' # Nothing /\ note'.text = note.text]_Notes!vars
  BY NotesOfCanvas, TextStays
<1> QED
  BY <1>1, <1>2, <1>3, <1>4, PTL
     DEF CanvasSpec, NotesKept, Notes!NotesKept, Notes!NothingUnseenReplaced, Notes!TypedTextStays

-----------------------------------------------------------------------------
(***************************************************************************)
(* AgentWindows.                                                           *)
(***************************************************************************)

CardIds == 1..MaxNodes
CardsOf(l) == DOMAIN l.nodes

\* What the argument needs to know of the types: which cards there are, not
\* what groups and connections are made of them.
HistoryOf(s) == (\E S : s \in Seq(S)) /\ \A i \in DOMAIN s : CardsOf(s[i]) \subseteq CardIds
CardTypes ==
  /\ DOMAIN canvas = {"nodes", "groups", "links"}
  /\ CardsOf(canvas) \subseteq CardIds /\ DOMAIN floorOf = CardsOf(canvas)
  /\ CardsOf(clipboard) \subseteq CardIds
  /\ HistoryOf(undo) /\ HistoryOf(redo)

\* Agents are numbered as they come, and nothing that was recorded is forgotten.
Numbered == \E k \in Nat : Recorded = 1..k

\* Neighbours in the history have the same agent on a card both show, unless a
\* template was instantiated in between.
Agree(l, m) == \A n \in CardsOf(l) \cap CardsOf(m) : l.nodes[n] = m.nodes[n]
Steps(s) == \A i \in 1..(Len(s) - 1) : Agree(s[i], s[i + 1])
Leads(s, l) == Steps(s) /\ (s # <<>> => Agree(Last(s), l))
HistoryAgrees == ~imported => Leads(undo, Shown) /\ Leads(redo, Shown)

Screens == Seq(Nat)
Statuses == {"starting", "running", "failed", "ended", "stopped", "offline"}
TerminalSessions == [gen : Nat, status : Statuses, screen : Screens, dirty : BOOLEAN]
Workers == [node : Nat, gen : Nat, agent : Nat]
TerminalTypes ==
  /\ generation \in Nat /\ outputs \in Nat
  /\ DOMAIN sessions \subseteq CardsOf(canvas)
  /\ \A n \in DOMAIN sessions : sessions[n] \in TerminalSessions /\ sessions[n].gen <= generation
  /\ \A n \in DOMAIN stored : stored[n] \in Screens
  /\ spawns \subseteq Workers /\ waits \subseteq Workers /\ live \subseteq waits

\* A generation is given out once, and a process is being started or awaited.
WorkersDiffer ==
  /\ spawns \cap waits = {}
  /\ \A w \in spawns \cup waits : w.gen <= generation
  /\ \A v, w \in spawns \cup waits : v.gen = w.gen => v = w

\* A process that lives is of a session that runs or failed; sessions are of cards of
\* agents, and workers of the agents of their cards (OwnTerminal's exception).
SessionsShow ==
  /\ \A p \in live : Addressed(p) /\ sessions[p.node].status \in {"running", "failed"}
  /\ ~imported =>
       /\ \A n \in DOMAIN sessions : canvas.nodes[n] # Note
       /\ \A w \in spawns \cup waits : Addressed(w) => canvas.nodes[w.node] = w.agent

CardsInv == CardTypes /\ Numbered /\ AgentsFollowWindows
TerminalsInv == TerminalTypes /\ WorkersDiffer /\ SessionsShow /\ RunningIsRead /\ CleanIsStored
WindowInv == CardsInv /\ HistoryAgrees /\ TerminalsInv

-----------------------------------------------------------------------------
(* Numbers that are not in use *)

LEMMA LeastNumber ==
  ASSUME NEW S \in SUBSET Nat, S # {}
  PROVE  \E i \in S : \A j \in S : i <= j
<1>1. PICK R : R = {pair \in Nat \X Nat : pair[1] < pair[2]}
  OBVIOUS
<1>2. R = OpToRel(<, Nat)
  BY <1>1, Zenon DEF OpToRel
<1>3. IsWellFoundedOn(R, Nat)
  BY <1>2, NatLessThanWellFounded, Zenon
<1>4. PICK i \in S : \A j \in S : ~(<<j, i>> \in R)
  BY <1>3, WFMin
<1>5. \A j \in S : i <= j
  <2> SUFFICES ASSUME NEW j \in S, j < i PROVE FALSE
    BY <1>4
  <2>1. PICK pair : pair = <<j, i>>
    OBVIOUS
  <2>2. pair \in Nat \X Nat /\ pair[1] = j /\ pair[2] = i
    BY <1>4, <2>1
  <2> QED
    BY <1>1, <1>4, <2>1, <2>2
<1> QED
  BY <1>4, <1>5

LEMMA LowestIsFree ==
  ASSUME NEW m \in Nat, NEW used \in SUBSET (1..m)
  PROVE  Lowest(used) \in Nat \ {0} /\ Lowest(used) \notin used
<1>1. IsFiniteSet(used) /\ Cardinality(used) \in Nat
  <2>1. IsFiniteSet(1..m)
    BY FS_Interval
  <2> QED
    BY <2>1, FS_Subset, FS_CardinalityType
<1>2. PICK c \in Nat : c = Cardinality(used)
  BY <1>1
<1>3. PICK S : S = {i \in 1..(c + 1) : i \notin used}
  OBVIOUS
<1>4. S # {}
  <2> SUFFICES ASSUME 1..(c + 1) \subseteq used PROVE FALSE
    BY <1>3
  <2>1. IsFiniteSet(1..(c + 1)) /\ Cardinality(1..(c + 1)) = c + 1
    BY FS_Interval
  <2>2. Cardinality(1..(c + 1)) <= c
    BY <1>1, <1>2, FS_Subset
  <2> QED
    BY <2>1, <2>2
<1>5. PICK i \in S : \A j \in S : i <= j
  BY <1>3, <1>4, LeastNumber
<1>6. i \in 1..(c + 1) /\ i \notin used /\ \A j \in 1..(i - 1) : j \in used
  BY <1>2, <1>3, <1>5
<1>7. Lowest(used) \in 1..(c + 1) /\ Lowest(used) \notin used
  BY <1>2, <1>6 DEF Lowest
<1> QED
  BY <1>2, <1>7

LEMMA MaximumFacts ==
  ASSUME NEW m \in Nat, NEW S \in SUBSET (0..m), S # {}
  PROVE  Max(S) \in S /\ \A i \in S : i <= Max(S)
<1>1. PICK T : T = {i \in Nat : \A j \in S : j <= i}
  OBVIOUS
<1>2. m \in T
  BY <1>1
<1>3. PICK top \in T : \A i \in T : top <= i
  BY <1>1, <1>2, LeastNumber
<1>4. top \in S
  <2> SUFFICES ASSUME top \notin S PROVE FALSE
    OBVIOUS
  <2>1. \A j \in S : j \in Nat /\ j <= top /\ j # top
    BY <1>1, <1>3
  <2>2. PICK t : t = top - 1
    OBVIOUS
  <2>3. top \in Nat
    BY <1>1, <1>3
  <2>4. \E j \in S : j \in Nat /\ j < top
    <3>1. PICK j \in S : TRUE
      OBVIOUS
    <3> QED
      BY <2>1, <2>3, <3>1
  <2>5. t \in Nat
    BY <2>2, <2>3, <2>4
  <2>6. \A j \in S : j <= t
    BY <2>1, <2>2, <2>3
  <2>7. t \in T
    BY <1>1, <2>5, <2>6
  <2> QED
    BY <1>3, <2>2, <2>3, <2>7
<1>5. \E i \in S : \A j \in S : i >= j
  BY <1>1, <1>3, <1>4
<1>6. Max(S) \in S /\ \A j \in S : Max(S) >= j
  BY <1>5 DEF Max
<1> QED
  BY <1>6

LEMMA NextIdIsFree ==
  ASSUME MaxNodes \in Nat, NEW f, DOMAIN f \subseteq CardIds
  PROVE  NextId(f) \in Nat \ {0} /\ \A n \in DOMAIN f : n < NextId(f)
<1>1. PICK S : S = DOMAIN f \cup {0}
  OBVIOUS
<1>2. S \in SUBSET (0..MaxNodes) /\ S # {}
  BY <1>1 DEF CardIds
<1>3. Max(S) \in S /\ \A i \in S : i <= Max(S)
  BY <1>2, MaximumFacts
<1> QED
  BY <1>1, <1>2, <1>3 DEF NextId

LEMMA AgentIsNew ==
  ASSUME Numbered
  PROVE  /\ \E k \in Nat : Recorded = 1..k /\ Lowest(Recorded) = k + 1 /\ Max(Recorded \cup {0}) + 1 = k + 1
<1>1. PICK k \in Nat : Recorded = 1..k
  BY DEF Numbered
<1>2. Cardinality(1..k) = k
  BY FS_Interval
<1>3. Lowest(1..k) = k + 1
  <2>1. k + 1 \in 1..(k + 1) /\ k + 1 \notin 1..k /\ \A j \in 1..((k + 1) - 1) : j \in 1..k
    OBVIOUS
  <2>2. \A i \in 1..(k + 1) : i \notin 1..k => i = k + 1
    OBVIOUS
  <2> QED
    BY <1>2, <2>1, <2>2 DEF Lowest
<1>4. Max(1..k \cup {0}) = k
  <2>1. 1..k \cup {0} \in SUBSET (0..k) /\ k \in 1..k \cup {0}
    OBVIOUS
  <2>2. Max(1..k \cup {0}) \in 1..k \cup {0} /\ k <= Max(1..k \cup {0})
    BY <2>1, MaximumFacts
  <2> QED
    BY <2>2
<1> QED
  BY <1>1, <1>3, <1>4

-----------------------------------------------------------------------------
(* What an edit does to the cards *)

LEMMA ShownCards ==
  /\ CardsOf(Shown) = OnFloor(floor) /\ OnFloor(floor) \subseteq CardsOf(canvas)
  /\ \A n \in CardsOf(Shown) : Shown.nodes[n] = canvas.nodes[n]
<1>1. Shown.nodes = [n \in DOMAIN canvas.nodes \cap OnFloor(floor) |-> canvas.nodes[n]]
  BY DEF Shown, Part
<1>2. OnFloor(floor) \subseteq CardsOf(canvas)
  BY DEF OnFloor, CardsOf
<1> QED
  BY <1>1, <1>2 DEF CardsOf

\* The canvas after the shown part was replaced.
LEMMA ReplacedCards ==
  ASSUME CardTypes, NEW after, Replace(after)
  PROVE  /\ DOMAIN canvas' = {"nodes", "groups", "links"}
         /\ CardsOf(canvas)' = (CardsOf(canvas) \ OnFloor(floor)) \cup CardsOf(after)
         /\ (CardsOf(canvas) \ OnFloor(floor)) \cap CardsOf(after) = {}
         /\ \A n \in CardsOf(after) : canvas'.nodes[n] = after.nodes[n]
         /\ \A n \in CardsOf(canvas) \ OnFloor(floor) : canvas'.nodes[n] = canvas.nodes[n]
         /\ \A n \in CardsOf(canvas)' : canvas'.nodes[n] \in Recorded \cup {Note}
         /\ Range(canvas'.nodes) \subseteq Recorded \cup {Note}
<1>1. PICK rest : rest = Without(canvas, Shown)
  OBVIOUS
<1>2. PICK all : all = Together(rest, after)
  OBVIOUS
<1>3. canvas' = all /\ Disjoint(rest, after) /\ ValidCanvas(all, Recorded \cup {Note})
  BY <1>1, <1>2 DEF Replace, Acceptable
<1>4. DOMAIN rest = {"nodes", "groups", "links"}
      /\ rest["nodes"] = [i \in DOMAIN canvas["nodes"] \ DOMAIN Shown["nodes"] |-> canvas["nodes"][i]]
  BY <1>1 DEF Without, CardTypes
<1>5. DOMAIN rest.nodes = CardsOf(canvas) \ OnFloor(floor)
      /\ \A n \in CardsOf(canvas) \ OnFloor(floor) : rest.nodes[n] = canvas.nodes[n]
  BY <1>4, ShownCards DEF CardsOf
<1>6. DOMAIN all = {"nodes", "groups", "links"} /\ all.nodes = Over(rest.nodes, after.nodes)
  BY <1>2, <1>4 DEF Together
<1>7. DOMAIN rest.nodes \cap DOMAIN after.nodes = {}
  BY <1>3, <1>4 DEF Disjoint
<1>8. Range(all.nodes) \subseteq Recorded \cup {Note}
  BY <1>3 DEF ValidCanvas
<1>9. \A n \in DOMAIN all.nodes : all.nodes[n] \in Recorded \cup {Note}
  BY <1>8 DEF Range
<1>10. /\ DOMAIN all.nodes = DOMAIN rest.nodes \cup DOMAIN after.nodes
       /\ \A n \in DOMAIN after.nodes : all.nodes[n] = after.nodes[n]
       /\ \A n \in DOMAIN rest.nodes : all.nodes[n] = rest.nodes[n]
  BY <1>6, <1>7 DEF Over
<1> QED
  BY <1>3, <1>5, <1>6, <1>7, <1>8, <1>9, <1>10 DEF CardsOf

\* What is shown then is what it was replaced with.
LEMMA ReplacedShown ==
  ASSUME CardTypes, NEW after, Replace(after)
  PROVE  /\ DOMAIN floorOf' = CardsOf(canvas)' /\ floor' = floor
         /\ CardsOf(Shown)' = CardsOf(after)
         /\ \A n \in CardsOf(after) : Shown'.nodes[n] = after.nodes[n]
<1>1. floor' = floor
      /\ floorOf' = [n \in DOMAIN canvas'.nodes |-> IF n \in DOMAIN after.nodes THEN floor ELSE floorOf[n]]
  BY DEF Replace
<1>2. OnFloor(floor)' = {n \in DOMAIN canvas'.nodes : floorOf'[n] = floor}
  BY <1>1 DEF OnFloor
<1>3. OnFloor(floor) = {n \in DOMAIN canvas.nodes : floorOf[n] = floor}
  BY DEF OnFloor
<1>4. OnFloor(floor)' = CardsOf(after)
  BY <1>1, <1>2, <1>3, ReplacedCards DEF CardsOf
<1>5. /\ CardsOf(Shown)' = OnFloor(floor)'
      /\ \A n \in CardsOf(Shown)' : Shown'.nodes[n] = canvas'.nodes[n]
  <2>1. Shown'.nodes = [n \in DOMAIN canvas'.nodes \cap OnFloor(floor)' |-> canvas'.nodes[n]]
    BY DEF Shown, Part
  <2>2. OnFloor(floor)' \subseteq DOMAIN canvas'.nodes
    BY <1>2
  <2> QED
    BY <2>1, <2>2 DEF CardsOf
<1> QED
  BY <1>1, <1>4, <1>5, ReplacedCards DEF CardsOf

\* Agents whose last card goes are archived, and come back with a card.
LEMMA ReplacedAgents ==
  ASSUME CardTypes, Numbered, AgentsFollowWindows, NEW after, Replace(after)
  PROVE  Numbered' /\ AgentsFollowWindows'
<1>1. PICK all, gone, back : /\ all = Together(Without(canvas, Shown), after)
                             /\ gone = Archives(after) /\ back = Restores(all)
  OBVIOUS
<1>2. /\ canvas' = all /\ agents' = (agents \ gone) \cup back
      /\ archived' = (archived \cup gone) \ back
  BY <1>1 DEF Replace
<1>3. /\ gone = Placed(Shown) \ Placed(canvas') /\ back = Placed(canvas') \cap archived
      /\ agents = Placed(canvas) /\ archived \cap agents = {}
  BY <1>1, <1>2 DEF Archives, Restores, AgentsFollowWindows
<1>4. Placed(canvas') \subseteq agents \cup archived
  BY ReplacedCards DEF Placed, Recorded
<1>5. Placed(Shown) \subseteq Placed(canvas)
  BY ShownCards DEF Placed, Range, CardsOf
<1>6. Placed(canvas) \subseteq Placed(Shown) \cup Placed(canvas')
  <2> SUFFICES ASSUME NEW n \in CardsOf(canvas), canvas.nodes[n] # Note
               PROVE  canvas.nodes[n] \in Placed(Shown) \cup Placed(canvas')
    BY DEF Placed, Range, CardsOf
  <2>1. CASE n \in OnFloor(floor)
    BY <2>1, ShownCards DEF Placed, Range, CardsOf
  <2>2. CASE n \notin OnFloor(floor)
    BY <2>2, ReplacedCards DEF Placed, Range, CardsOf
  <2> QED
    BY <2>1, <2>2
<1>7. agents' = Placed(canvas') /\ archived' \cap agents' = {}
  BY <1>2, <1>3, <1>4, <1>5, <1>6
<1>8. agents' \cup archived' = agents \cup archived
  BY <1>2, <1>3, <1>5
<1>9. AgentsFollowWindows'
  BY <1>7 DEF AgentsFollowWindows, Placed
<1> QED
  BY <1>8, <1>9 DEF Numbered, Recorded

\* A card that is added is of no other, and every other one stays as it was.
LEMMA AddedCards ==
  ASSUME CardTypes, MaxNodes \in Nat, NEW card \in Nat \ {0}, card \notin CardsOf(canvas), NEW target, AddCard(card, target)
  PROVE  /\ DOMAIN canvas' = {"nodes", "groups", "links"} /\ CardsOf(canvas)' \subseteq CardIds
         /\ DOMAIN floorOf' = CardsOf(canvas)' /\ clipboard' = clipboard
         /\ CardsOf(canvas)' = CardsOf(canvas) \cup {card}
         /\ canvas'.nodes[card] = target
         /\ \A n \in CardsOf(canvas) : canvas'.nodes[n] = canvas.nodes[n]
         /\ CardsOf(Shown)' = CardsOf(Shown) \cup {card}
         /\ \A n \in CardsOf(Shown) : Shown'.nodes[n] = Shown.nodes[n]
<1>1. PICK one : one = [n \in {card} |-> target]
  OBVIOUS
<1>2. canvas' = [canvas EXCEPT !.nodes = Over(canvas.nodes, one)]
      /\ card <= MaxNodes /\ floor' = floor /\ clipboard' = clipboard
  BY <1>1 DEF AddCard
<1>3. DOMAIN canvas' = {"nodes", "groups", "links"} /\ canvas'.nodes = Over(canvas.nodes, one)
  BY <1>2 DEF CardTypes
<1>4. /\ CardsOf(canvas)' = CardsOf(canvas) \cup {card} /\ canvas'.nodes[card] = target
      /\ \A n \in CardsOf(canvas) : canvas'.nodes[n] = canvas.nodes[n]
  BY <1>1, <1>3 DEF CardsOf, Over
<1>5. PICK place : place = [n \in {card} |-> floor]
  OBVIOUS
<1>6. floorOf' = Over(floorOf, place)
  BY <1>5 DEF AddCard
<1>7. /\ DOMAIN floorOf' = CardsOf(canvas)' /\ floorOf'[card] = floor
      /\ \A n \in CardsOf(canvas) : floorOf'[n] = floorOf[n]
  BY <1>4, <1>5, <1>6 DEF CardTypes, Over
<1>8. OnFloor(floor)' = OnFloor(floor) \cup {card}
  BY <1>2, <1>4, <1>7 DEF OnFloor, CardsOf
<1>9. Shown'.nodes = [n \in DOMAIN canvas'.nodes \cap OnFloor(floor)' |-> canvas'.nodes[n]]
  BY DEF Shown, Part
<1>10. CardsOf(Shown)' = CardsOf(Shown) \cup {card} /\ \A n \in CardsOf(Shown) : Shown'.nodes[n] = Shown.nodes[n]
  BY <1>4, <1>8, <1>9, ShownCards DEF CardsOf
<1>11. CardsOf(canvas)' \subseteq CardIds
  BY <1>2, <1>4 DEF CardTypes, CardIds
<1> QED
  BY <1>2, <1>3, <1>4, <1>7, <1>10, <1>11

-----------------------------------------------------------------------------
(* The history *)

LEMMA Pushed ==
  ASSUME NEW s, HistoryOf(s), NEW l, CardsOf(l) \subseteq CardIds
  PROVE  /\ HistoryOf(Append(s, l))
         /\ \A m : Leads(s, l) /\ Agree(l, m) => Leads(Append(s, l), m)
<1>1. PICK S : s \in Seq(S)
  BY DEF HistoryOf
<1>2. PICK T : T = S \cup {l}
  OBVIOUS
<1>3. s \in Seq(T) /\ l \in T /\ Len(s) \in Nat /\ DOMAIN s = 1..Len(s)
  BY <1>1, <1>2
<1>4. PICK t : t = Append(s, l)
  OBVIOUS
<1>5. /\ t \in Seq(T) /\ Len(t) = Len(s) + 1 /\ DOMAIN t = 1..(Len(s) + 1)
      /\ \A i \in 1..Len(s) : t[i] = s[i]
      /\ t[Len(s) + 1] = l
  BY <1>3, <1>4
<1>6. HistoryOf(t)
  BY <1>3, <1>5 DEF HistoryOf
<1>7. ASSUME NEW m, Leads(s, l), Agree(l, m) PROVE Leads(t, m)
  <2>1. Steps(t)
    <3> SUFFICES ASSUME NEW i \in 1..(Len(t) - 1) PROVE Agree(t[i], t[i + 1])
      BY DEF Steps
    <3>1. CASE i = Len(s)
      <4>1. s # <<>> /\ Last(s) = t[i] /\ t[i + 1] = l
        BY <1>3, <1>5, <3>1 DEF Last
      <4> QED
        BY <1>7, <4>1 DEF Leads
    <3>2. CASE i # Len(s)
      <4>1. i \in 1..(Len(s) - 1) /\ t[i] = s[i] /\ t[i + 1] = s[i + 1]
        <5>1. PICK n \in Nat : n = Len(s)
          BY <1>3
        <5>2. i \in 1..((n + 1) - 1) /\ i # n
          BY <1>5, <3>2, <5>1
        <5>3. i \in 1..(n - 1) /\ i \in 1..n /\ i + 1 \in 1..n
          BY <5>1, <5>2
        <5> QED
          BY <1>5, <5>1, <5>3
      <4> QED
        BY <1>7, <4>1 DEF Leads, Steps
    <3> QED
      BY <3>1, <3>2
  <2>2. Last(t) = l
    BY <1>3, <1>5 DEF Last
  <2> QED
    BY <1>7, <2>1, <2>2 DEF Leads
<1> QED
  BY <1>4, <1>6, <1>7

LEMMA Popped ==
  ASSUME NEW s, HistoryOf(s), s # <<>>
  PROVE  /\ HistoryOf(Front(s)) /\ CardsOf(Last(s)) \subseteq CardIds
         /\ \A l : Leads(s, l) => Leads(Front(s), Last(s)) /\ Agree(Last(s), l)
<1>1. PICK S : s \in Seq(S)
  BY DEF HistoryOf
<1>2. Len(s) \in Nat \ {0} /\ DOMAIN s = 1..Len(s)
  BY <1>1
<1>3. PICK t : t = Front(s)
  OBVIOUS
<1>4. /\ t \in Seq(S) /\ Len(t) = Len(s) - 1 /\ DOMAIN t = 1..(Len(s) - 1)
      /\ \A i \in 1..(Len(s) - 1) : t[i] = s[i]
  BY <1>1, <1>2, <1>3 DEF Front
<1>5. HistoryOf(t)
  BY <1>2, <1>4 DEF HistoryOf
<1>6. CardsOf(Last(s)) \subseteq CardIds
  BY <1>2 DEF HistoryOf, Last
<1>7. ASSUME NEW l, Leads(s, l) PROVE Leads(t, Last(s)) /\ Agree(Last(s), l)
  <2>1. Steps(t)
    BY <1>2, <1>4, <1>7 DEF Leads, Steps
  <2>2. ASSUME t # <<>> PROVE Agree(Last(t), Last(s))
    <3>1. Len(t) \in 1..(Len(s) - 1) /\ t[Len(t)] = s[Len(t)] /\ Len(t) + 1 = Len(s)
      <4>1. Len(t) # 0
        BY <1>4, <2>2
      <4> QED
        BY <1>2, <1>4, <4>1
    <3>2. Agree(s[Len(t)], s[Len(t) + 1])
      BY <1>7, <3>1 DEF Leads, Steps
    <3> QED
      BY <3>1, <3>2 DEF Last
  <2> QED
    BY <1>7, <2>1, <2>2 DEF Leads
<1> QED
  BY <1>3, <1>5, <1>6, <1>7

LEMMA AgreeBack == \A l, m : Agree(l, m) => Agree(m, l)
  BY DEF Agree

\* The history of a canvas whose shown part agrees with the one before.
LEMMA RecordStep ==
  ASSUME CardTypes, HistoryAgrees, Record(Shown), UNCHANGED imported,
         ~imported => \A n \in CardsOf(Shown) \cap CardsOf(Shown)' : Shown'.nodes[n] = Shown.nodes[n]
  PROVE  HistoryOf(undo)' /\ HistoryOf(redo)' /\ HistoryAgrees'
<1>1. PICK l, m : l = Shown /\ m = Shown'
  OBVIOUS
<1>2. undo' = Append(undo, l) /\ redo' = <<>>
  BY <1>1 DEF Record
<1>3. HistoryOf(undo) /\ CardsOf(l) \subseteq CardIds
  BY <1>1, ShownCards DEF CardTypes
<1>4. HistoryOf(Append(undo, l)) /\ \A k : Leads(undo, l) /\ Agree(l, k) => Leads(Append(undo, l), k)
  BY <1>3, Pushed
<1>5. HistoryOf(<<>>) /\ Leads(<<>>, m)
  BY DEF HistoryOf, Leads, Steps
<1>6. HistoryAgrees'
  <2>1. ~imported => Leads(undo, l) /\ Agree(l, m)
    BY <1>1 DEF HistoryAgrees, Agree, CardsOf
  <2>2. ~imported => Leads(undo', m) /\ Leads(redo', m)
    BY <1>2, <1>4, <1>5, <2>1
  <2> QED
    BY <1>1, <2>2 DEF HistoryAgrees, Leads, Steps, Agree, CardsOf
<1>7. HistoryOf(undo') /\ HistoryOf(redo')
  BY <1>2, <1>4, <1>5
<1> QED
  BY <1>6, <1>7 DEF HistoryOf, CardsOf, CardIds

\* One step back in a history is one more in the other one.
LEMMA MoveStep ==
  ASSUME NEW s, NEW t, HistoryOf(s), HistoryOf(t), s # <<>>, NEW l, CardsOf(l) \subseteq CardIds,
         NEW m, CardsOf(m) = CardsOf(Last(s)), \A n \in CardsOf(m) : m.nodes[n] = Last(s).nodes[n]
  PROVE  /\ HistoryOf(Front(s)) /\ HistoryOf(Append(t, l))
         /\ Leads(s, l) /\ Leads(t, l) => Leads(Front(s), m) /\ Leads(Append(t, l), m) /\ Agree(m, l)
<1>1. HistoryOf(Front(s)) /\ (Leads(s, l) => Leads(Front(s), Last(s)) /\ Agree(Last(s), l))
  BY Popped
<1>2. HistoryOf(Append(t, l)) /\ (Leads(t, l) /\ Agree(l, m) => Leads(Append(t, l), m))
  BY Pushed
<1>3. Agree(Last(s), l) => Agree(m, l) /\ Agree(l, m)
  BY DEF Agree
<1>4. Leads(Front(s), Last(s)) => Leads(Front(s), m)
  BY DEF Leads, Agree
<1> QED
  BY <1>1, <1>2, <1>3, <1>4

-----------------------------------------------------------------------------
(* Terminals when cards come and go *)

\* Cards that are left keep their agents, and with them their sessions.
LEMMA DropStep ==
  ASSUME CardTypes, TerminalsInv, UNCHANGED <<stored, imported, outputs>>,
         DropSessions(DOMAIN canvas.nodes \ DOMAIN canvas'.nodes),
         ~imported => \A n \in CardsOf(canvas) \cap CardsOf(canvas)' : canvas'.nodes[n] = canvas.nodes[n]
  PROVE  TerminalsInv'
<1> DEFINE gone == DOMAIN canvas.nodes \ DOMAIN canvas'.nodes
<1>1. /\ sessions' = [n \in DOMAIN sessions \ gone |-> sessions[n]]
      /\ live' = {p \in live : p.node \notin gone}
      /\ UNCHANGED <<generation, spawns, waits>>
  BY DEF DropSessions
<1>2. /\ DOMAIN sessions' = DOMAIN sessions \ gone /\ DOMAIN sessions' \subseteq CardsOf(canvas)'
      /\ DOMAIN sessions' \subseteq CardsOf(canvas)
      /\ \A n \in DOMAIN sessions' : n \in DOMAIN sessions /\ sessions'[n] = sessions[n]
  BY <1>1 DEF TerminalsInv, TerminalTypes, CardsOf
<1> HIDE DEF gone
<1>3. TerminalTypes'
  BY <1>1, <1>2 DEF TerminalsInv, TerminalTypes, CardsOf
<1>4. WorkersDiffer'
  BY <1>1 DEF TerminalsInv, WorkersDiffer
<1>5. \A w : Addressed(w)' => Addressed(w)
  BY <1>2 DEF Addressed
<1>6. SessionsShow'
  <2>1. ASSUME NEW p \in live' PROVE Addressed(p)' /\ sessions'[p.node].status \in {"running", "failed"}
    <3>1. p \in live /\ p.node \notin gone /\ Addressed(p) /\ sessions[p.node].status \in {"running", "failed"}
      BY <1>1, <2>1 DEF TerminalsInv, SessionsShow
    <3>2. p.node \in DOMAIN sessions'
      BY <1>2, <3>1 DEF Addressed
    <3> QED
      BY <1>2, <3>1, <3>2 DEF Addressed
  <2>2. ASSUME ~imported, NEW n \in DOMAIN sessions' PROVE canvas'.nodes[n] = canvas.nodes[n]
    BY <1>2, <2>2 DEF CardsOf
  <2>3. ASSUME ~imported PROVE \A n \in DOMAIN sessions' : canvas'.nodes[n] # Note
    BY <1>2, <2>2, <2>3 DEF TerminalsInv, SessionsShow
  <2>4. ASSUME ~imported, NEW w \in spawns \cup waits, Addressed(w)' PROVE canvas'.nodes[w.node] = w.agent
    BY <1>2, <1>5, <2>2, <2>4 DEF TerminalsInv, SessionsShow, Addressed
  <2> QED
    BY <1>1, <2>1, <2>3, <2>4 DEF SessionsShow
<1>7. RunningIsRead' /\ CleanIsStored'
  BY <1>1, <1>2 DEF TerminalsInv, RunningIsRead, CleanIsStored
<1> QED
  BY <1>3, <1>4, <1>6, <1>7 DEF TerminalsInv

\* Cards that come disturb no terminal.
LEMMA TerminalsStay ==
  ASSUME TerminalsInv, UNCHANGED <<terminals, stored, outputs>>, imported => imported',
         CardsOf(canvas) \subseteq CardsOf(canvas)',
         \A n \in CardsOf(canvas) : canvas'.nodes[n] = canvas.nodes[n]
  PROVE  TerminalsInv'
<1>1. UNCHANGED <<sessions, generation, spawns, waits, live>>
  BY DEF terminals
<1>2. TerminalTypes' /\ WorkersDiffer' /\ RunningIsRead' /\ CleanIsStored'
  BY <1>1 DEF TerminalsInv, TerminalTypes, WorkersDiffer, RunningIsRead, CleanIsStored
<1>3. \A n \in DOMAIN sessions : canvas'.nodes[n] = canvas.nodes[n]
  BY DEF TerminalsInv, TerminalTypes
<1>4. SessionsShow'
  BY <1>1, <1>3 DEF TerminalsInv, SessionsShow, Addressed
<1> QED
  BY <1>2, <1>4 DEF TerminalsInv

\* A session that is replaced by one of the same or a later generation.
LEMMA SetFacts ==
  ASSUME NEW n, NEW s, SetSession(n, s)
  PROVE  /\ DOMAIN sessions' = DOMAIN sessions \cup {n} /\ sessions'[n] = s
         /\ \A m \in DOMAIN sessions \ {n} : sessions'[m] = sessions[m]
  BY DEF SetSession, Over

\* A terminal is started on a card, which may be new.
LEMMA StartingStep ==
  ASSUME TerminalsInv, UNCHANGED <<stored, imported, outputs>>, NEW n \in Nat, NEW agent \in Nat \ {Note},
         Starting(n, agent), ~IsActive(n), n \in CardsOf(canvas)', canvas'.nodes[n] = agent,
         CardsOf(canvas) \subseteq CardsOf(canvas)',
         \A m \in CardsOf(canvas) : canvas'.nodes[m] = canvas.nodes[m]
  PROVE  TerminalsInv'
<1>1. PICK g, s, w : /\ g = generation + 1 /\ s = Session(g, "starting", Blank)
                     /\ w = [node |-> n, gen |-> g, agent |-> agent]
  OBVIOUS
<1>2. /\ generation' = g /\ SetSession(n, s) /\ spawns' = spawns \cup {w}
      /\ waits' = waits /\ live' = {p \in live : p.node # n}
  BY <1>1 DEF Starting, Released
<1>3. generation \in Nat /\ g \in Nat /\ g > generation
  BY <1>1 DEF TerminalsInv, TerminalTypes
<1>4. /\ s \in TerminalSessions /\ s.gen = g /\ s.status = "starting" /\ s.screen = Blank
      /\ w \in Workers /\ w.node = n /\ w.gen = g /\ w.agent = agent
  BY <1>1, <1>3 DEF Session, TerminalSessions, Statuses, Screens, Blank, Workers
<1>5. /\ DOMAIN sessions' = DOMAIN sessions \cup {n} /\ sessions'[n] = s
      /\ \A m \in DOMAIN sessions \ {n} : sessions'[m] = sessions[m]
  BY <1>2, SetFacts
<1>6. \A v \in spawns \cup waits : v.gen \in Nat /\ v.gen <= generation /\ v.gen # g
  BY <1>3 DEF TerminalsInv, WorkersDiffer, TerminalTypes, Workers
<1>7. TerminalTypes'
  <2>1. \A m \in DOMAIN sessions' : sessions'[m] \in TerminalSessions /\ sessions'[m].gen <= g
    <3>1. \A m \in DOMAIN sessions : sessions[m] \in TerminalSessions /\ sessions[m].gen \in Nat /\ sessions[m].gen <= generation
      BY DEF TerminalsInv, TerminalTypes, TerminalSessions
    <3> QED
      BY <1>3, <1>4, <1>5, <3>1
  <2> QED
    BY <1>2, <1>3, <1>4, <1>5, <2>1 DEF TerminalsInv, TerminalTypes
<1>8. WorkersDiffer'
  <2>1. w \notin waits
    BY <1>4, <1>6
  <2>2. \A v \in (spawns \cup waits)' : v.gen <= g
    BY <1>2, <1>3, <1>4, <1>6
  <2>3. \A u, v \in (spawns \cup waits)' : u.gen = v.gen => u = v
    BY <1>2, <1>4, <1>6 DEF TerminalsInv, WorkersDiffer
  <2> QED
    BY <1>2, <2>1, <2>2, <2>3 DEF TerminalsInv, WorkersDiffer
<1>9. \A v \in spawns \cup waits : Addressed(v)' <=> Addressed(v) /\ v.node # n
  BY <1>4, <1>5, <1>6 DEF Addressed
<1>10. SessionsShow'
  <2>1. ASSUME NEW p \in live' PROVE Addressed(p)' /\ sessions'[p.node].status \in {"running", "failed"}
    <3>1. p \in live /\ p \in waits /\ Addressed(p) /\ sessions[p.node].status \in {"running", "failed"}
      BY <1>2, <2>1 DEF TerminalsInv, TerminalTypes, SessionsShow
    <3>2. p.node # n
      BY <1>2, <2>1
    <3> QED
      BY <1>5, <1>9, <3>1, <3>2 DEF Addressed
  <2>2. ASSUME ~imported, NEW m \in DOMAIN sessions' PROVE canvas'.nodes[m] # Note
    <3>1. m \in DOMAIN sessions => canvas'.nodes[m] # Note
      BY <2>2 DEF TerminalsInv, TerminalTypes, SessionsShow
    <3> QED
      BY <1>5, <3>1
  <2>3. ASSUME ~imported, NEW v \in spawns \cup waits, Addressed(v)' PROVE canvas'.nodes[v.node] = v.agent
    <3>1. Addressed(v) /\ canvas.nodes[v.node] = v.agent /\ v.node \in CardsOf(canvas)
      BY <1>9, <2>3 DEF TerminalsInv, TerminalTypes, SessionsShow, Addressed
    <3> QED
      BY <3>1
  <2> QED
    BY <1>2, <1>4, <2>1, <2>2, <2>3 DEF SessionsShow
<1>11. RunningIsRead'
  <2>1. \A m \in DOMAIN sessions \ {n} : sessions'[m] = sessions[m]
    BY <1>5
  <2> QED
    BY <1>2, <1>4, <1>5, <2>1 DEF TerminalsInv, RunningIsRead
<1>12. CleanIsStored'
  BY <1>4, <1>5 DEF TerminalsInv, CleanIsStored
<1> QED
  BY <1>7, <1>8, <1>10, <1>11, <1>12 DEF TerminalsInv

-----------------------------------------------------------------------------
(* What terminals do *)

Placing == UNCHANGED <<canvas, stored, imported, generation>>

\* What the session of a card keeps when its status or its screen changes.
LEMMA UpdateFacts ==
  ASSUME TerminalsInv, Placing, outputs' \in Nat, NEW n \in DOMAIN sessions, NEW s \in TerminalSessions,
         SetSession(n, s), s.gen = sessions[n].gen,
         spawns' \subseteq spawns, waits' \subseteq spawns \cup waits, live' \subseteq waits', spawns' \cap waits' = {}
  PROVE  /\ TerminalTypes' /\ WorkersDiffer'
         /\ DOMAIN sessions' = DOMAIN sessions /\ sessions'[n] = s
         /\ \A m \in DOMAIN sessions \ {n} : sessions'[m] = sessions[m]
         /\ \A w : Addressed(w)' <=> Addressed(w)
         /\ (~imported => /\ \A m \in DOMAIN sessions : canvas.nodes[m] # Note
                          /\ \A w \in spawns \cup waits : Addressed(w) => canvas.nodes[w.node] = w.agent)'
<1>1. /\ DOMAIN sessions' = DOMAIN sessions /\ sessions'[n] = s
      /\ \A m \in DOMAIN sessions \ {n} : sessions'[m] = sessions[m]
  <2>1. DOMAIN sessions' = DOMAIN sessions \cup {n} /\ sessions'[n] = s
    BY SetFacts
  <2>2. \A m \in DOMAIN sessions \ {n} : sessions'[m] = sessions[m]
    BY SetFacts
  <2> QED
    BY <2>1, <2>2
<1>2. UNCHANGED <<canvas, stored, imported, generation>>
  BY DEF Placing
<1>3. TerminalTypes'
  <2>1. \A m \in DOMAIN sessions' : sessions'[m] \in TerminalSessions /\ sessions'[m].gen <= generation
    BY <1>1 DEF TerminalsInv, TerminalTypes
  <2>2. spawns' \subseteq Workers /\ waits' \subseteq Workers
    BY DEF TerminalsInv, TerminalTypes
  <2> QED
    BY <1>1, <1>2, <2>1, <2>2 DEF TerminalsInv, TerminalTypes, CardsOf
<1>4. WorkersDiffer'
  BY <1>2 DEF TerminalsInv, WorkersDiffer
<1>5. \A w : Addressed(w)' <=> Addressed(w)
  BY <1>1 DEF Addressed
<1>6. ~imported' => \A m \in DOMAIN sessions' : canvas'.nodes[m] # Note
  BY <1>1, <1>2 DEF TerminalsInv, SessionsShow
<1>7. ~imported' => \A w \in (spawns \cup waits)' : Addressed(w)' => canvas'.nodes[w.node] = w.agent
  BY <1>2, <1>5 DEF TerminalsInv, SessionsShow
<1> QED
  BY <1>1, <1>3, <1>4, <1>5, <1>6, <1>7

\* A worker whose session is gone leaves; what is left is as it was.
LEMMA WorkerLeaves ==
  ASSUME TerminalsInv, Placing, UNCHANGED sessions, outputs' \in Nat, NEW w \in spawns \cup waits, ~Addressed(w),
         spawns' = spawns \ {w}, waits' = waits \ {w}, live' \in {live, live \ {w}}
  PROVE  TerminalsInv'
<1>1. UNCHANGED <<canvas, stored, imported, generation>>
  BY DEF Placing
<1>2. w \notin live /\ live' = live
  BY DEF TerminalsInv, SessionsShow
<1>3. TerminalTypes' /\ WorkersDiffer'
  BY <1>1, <1>2 DEF TerminalsInv, TerminalTypes, WorkersDiffer, CardsOf
<1>4. \A v : Addressed(v)' <=> Addressed(v)
  BY DEF Addressed
<1>5. SessionsShow'
  BY <1>1, <1>2, <1>4 DEF TerminalsInv, SessionsShow
<1>6. \A n \in DOMAIN sessions : ~(w.node = n /\ w.gen = sessions[n].gen)
  BY DEF Addressed
<1>7. RunningIsRead'
  BY <1>2, <1>3, <1>6 DEF TerminalsInv, TerminalTypes, RunningIsRead
<1>8. CleanIsStored'
  BY <1>1 DEF TerminalsInv, CleanIsStored
<1> QED
  BY <1>3, <1>5, <1>7, <1>8 DEF TerminalsInv

\* Of one generation there is one worker.
LEMMA OneWorker ==
  ASSUME TerminalsInv, NEW v \in spawns \cup waits, NEW w \in spawns \cup waits, v.gen = w.gen
  PROVE  v = w
  BY DEF TerminalsInv, WorkersDiffer

LEMMA StartedStep ==
  ASSUME TerminalsInv, Started
  PROVE  TerminalsInv'
<1>1. PICK w \in spawns, ok \in BOOLEAN :
        /\ spawns' = spawns \ {w}
        /\ IF Addressed(w)
           THEN /\ SetSession(w.node, [sessions[w.node] EXCEPT !.status = IF ok THEN "running" ELSE "ended"])
                /\ live' = IF ok THEN live \cup {w} ELSE live
                /\ waits' = IF ok THEN waits \cup {w} ELSE waits
           ELSE UNCHANGED <<sessions, live, waits>>
  BY DEF Started
<1>2. Placing /\ outputs' \in Nat
  BY DEF Started, Placing, workspace, counters, TerminalsInv, TerminalTypes
<1>3. w \notin waits /\ live \subseteq waits
  BY DEF TerminalsInv, TerminalTypes, WorkersDiffer
<1>4. CASE ~Addressed(w)
  BY <1>1, <1>2, <1>3, <1>4, WorkerLeaves
<1>5. ASSUME Addressed(w) PROVE TerminalsInv'
  <2>1. PICK n, status, s : /\ n = w.node /\ status = (IF ok THEN "running" ELSE "ended")
                            /\ s = [sessions[n] EXCEPT !.status = status]
    OBVIOUS
  <2>2. n \in DOMAIN sessions /\ sessions[n].gen = w.gen /\ SetSession(n, s)
    BY <1>1, <1>5, <2>1 DEF Addressed
  <2>3. sessions[n] \in TerminalSessions /\ status \in {"running", "ended"}
    BY <2>1, <2>2 DEF TerminalsInv, TerminalTypes
  <2>4. /\ s \in TerminalSessions /\ s.gen = sessions[n].gen /\ s.status = status
        /\ s.screen = sessions[n].screen /\ s.dirty = sessions[n].dirty
    BY <2>1, <2>3 DEF TerminalSessions, Statuses
  <2>5. waits' \subseteq spawns \cup waits /\ live' \subseteq waits' /\ spawns' \cap waits' = {} /\ spawns' \subseteq spawns
    BY <1>1, <1>3, <1>5 DEF TerminalsInv, WorkersDiffer
  <2>6. /\ TerminalTypes' /\ WorkersDiffer'
        /\ DOMAIN sessions' = DOMAIN sessions /\ sessions'[n] = s
        /\ \A m \in DOMAIN sessions \ {n} : sessions'[m] = sessions[m]
        /\ \A v : Addressed(v)' <=> Addressed(v)
        /\ (~imported => /\ \A m \in DOMAIN sessions : canvas.nodes[m] # Note
                         /\ \A v \in spawns \cup waits : Addressed(v) => canvas.nodes[v.node] = v.agent)'
    BY <1>2, <2>2, <2>4, <2>5, UpdateFacts
  <2>7. ASSUME NEW v \in waits, v.node = n, v.gen = sessions[n].gen PROVE FALSE
    BY <1>3, <2>2, <2>7, OneWorker
  <2>8. \A p \in live' : Addressed(p)' /\ sessions'[p.node].status \in {"running", "failed"}
    <3> SUFFICES ASSUME NEW p \in live' PROVE Addressed(p)' /\ sessions'[p.node].status \in {"running", "failed"}
      OBVIOUS
    <3>1. CASE p \in live
      <4>1. p \in waits /\ Addressed(p) /\ sessions[p.node].status \in {"running", "failed"} /\ p.node \in DOMAIN sessions
        BY <1>3, <3>1 DEF TerminalsInv, SessionsShow, Addressed
      <4>2. p.node # n
        BY <2>7, <4>1 DEF Addressed
      <4> QED
        BY <2>6, <4>1, <4>2
    <3>2. CASE p \notin live
      <4>1. p = w /\ ok
        BY <1>1, <1>5, <3>2
      <4> QED
        BY <1>5, <2>1, <2>4, <2>6, <4>1
    <3> QED
      BY <3>1, <3>2
  <2>9. RunningIsRead'
    <3>1. \A m \in DOMAIN sessions \ {n} : \A v : v \in waits' /\ v.node = m => v \in waits
      BY <1>1, <1>5, <2>1
    <3>2. live \subseteq live' /\ (ok => w \in live') /\ (~ok => waits' = waits)
      BY <1>1, <1>5
    <3>3. ASSUME NEW m \in DOMAIN sessions', m # n
          PROVE  /\ sessions'[m].status = "running" => \E v \in live' : v.node = m /\ v.gen = sessions'[m].gen
                 /\ sessions'[m].status = "ended" => ~\E v \in waits' : v.node = m /\ v.gen = sessions'[m].gen
      <4>1. m \in DOMAIN sessions /\ sessions'[m] = sessions[m]
        BY <2>6, <3>3
      <4> QED
        BY <3>1, <3>2, <3>3, <4>1 DEF TerminalsInv, RunningIsRead
    <3>4. /\ sessions'[n].status = "running" => \E v \in live' : v.node = n /\ v.gen = sessions'[n].gen
          /\ sessions'[n].status = "ended" => ~\E v \in waits' : v.node = n /\ v.gen = sessions'[n].gen
      BY <2>1, <2>2, <2>4, <2>6, <2>7, <3>2
    <3> QED
      BY <2>5, <3>3, <3>4 DEF RunningIsRead
  <2>10. CleanIsStored'
    BY <1>2, <2>4, <2>6 DEF TerminalsInv, CleanIsStored, Placing
  <2> QED
    BY <2>6, <2>8, <2>9, <2>10 DEF TerminalsInv, SessionsShow
<1> QED
  BY <1>4, <1>5

LEMMA OutputStep ==
  ASSUME TerminalsInv, Output
  PROVE  TerminalsInv'
<1>1. PICK w \in waits, replied \in BOOLEAN :
        /\ outputs' = outputs + 1
        /\ IF Addressed(w)
           THEN /\ SetSession(w.node, [sessions[w.node] EXCEPT !.screen = <<w.agent, outputs'>>, !.dirty = TRUE,
                                                              !.status = IF replied THEN @ ELSE "failed"])
                /\ waits' = IF w \in live THEN waits ELSE waits \ {w}
           ELSE waits' = waits \ {w} /\ UNCHANGED sessions
  BY DEF Output
<1>2. Placing /\ outputs' \in Nat /\ UNCHANGED <<spawns, live>>
  BY <1>1 DEF Output, Placing, workspace, TerminalsInv, TerminalTypes
<1>3. w \notin spawns
  BY DEF TerminalsInv, WorkersDiffer
<1>4. CASE ~Addressed(w)
  BY <1>1, <1>2, <1>3, <1>4, WorkerLeaves
<1>5. ASSUME Addressed(w) PROVE TerminalsInv'
  <2>1. PICK n, text, status, s :
          /\ n = w.node /\ text = <<w.agent, outputs'>>
          /\ status = (IF replied THEN sessions[n].status ELSE "failed")
          /\ s = [sessions[n] EXCEPT !.screen = text, !.dirty = TRUE, !.status = status]
    OBVIOUS
  <2>2. n \in DOMAIN sessions /\ sessions[n].gen = w.gen /\ SetSession(n, s)
    BY <1>1, <1>5, <2>1 DEF Addressed
  <2>3. sessions[n] \in TerminalSessions /\ text \in Screens
    <3>1. w.agent \in Nat
      BY DEF TerminalsInv, TerminalTypes, Workers
    <3> QED
      BY <1>2, <2>1, <2>2, <3>1 DEF TerminalsInv, TerminalTypes, Screens
  <2>4. s \in TerminalSessions /\ s.gen = sessions[n].gen /\ s.status \in {sessions[n].status, "failed"} /\ s.dirty
    BY <2>1, <2>3 DEF TerminalSessions, Statuses
  <2>5. waits' \subseteq waits /\ \A p \in live : p \in waits'
    BY <1>1, <1>5 DEF TerminalsInv, TerminalTypes
  <2>6. waits' \subseteq spawns \cup waits /\ live' \subseteq waits' /\ spawns' \cap waits' = {} /\ spawns' \subseteq spawns
    BY <1>2, <2>5 DEF TerminalsInv, WorkersDiffer
  <2>7. /\ TerminalTypes' /\ WorkersDiffer'
        /\ DOMAIN sessions' = DOMAIN sessions /\ sessions'[n] = s
        /\ \A m \in DOMAIN sessions \ {n} : sessions'[m] = sessions[m]
        /\ \A v : Addressed(v)' <=> Addressed(v)
        /\ (~imported => /\ \A m \in DOMAIN sessions : canvas.nodes[m] # Note
                         /\ \A v \in spawns \cup waits : Addressed(v) => canvas.nodes[v.node] = v.agent)'
    BY <1>2, <2>2, <2>4, <2>6, UpdateFacts
  <2>8. \A m \in DOMAIN sessions :
          sessions'[m].status \in {sessions[m].status, "failed"} /\ sessions'[m].gen = sessions[m].gen
    BY <2>4, <2>7
  <2>9. \A p \in live' : Addressed(p)' /\ sessions'[p.node].status \in {"running", "failed"}
    BY <1>2, <2>7, <2>8 DEF TerminalsInv, SessionsShow, Addressed
  <2>10. RunningIsRead'
    BY <1>2, <2>5, <2>6, <2>7, <2>8 DEF TerminalsInv, RunningIsRead
  <2>11. CleanIsStored'
    BY <1>2, <2>4, <2>7 DEF TerminalsInv, CleanIsStored, Placing
  <2> QED
    BY <2>7, <2>9, <2>10, <2>11 DEF TerminalsInv, SessionsShow
<1> QED
  BY <1>4, <1>5

LEMMA TerminatedStep ==
  ASSUME TerminalsInv, Terminated
  PROVE  TerminalsInv'
<1>1. PICK w \in waits :
        /\ waits' = waits \ {w} /\ live' = live \ {w}
        /\ IF Addressed(w)
           THEN SetSession(w.node, [sessions[w.node] EXCEPT !.status = IF w \in live THEN "ended" ELSE "stopped"])
           ELSE UNCHANGED sessions
  BY DEF Terminated
<1>2. Placing /\ outputs' \in Nat /\ UNCHANGED spawns
  BY DEF Terminated, Placing, workspace, counters, TerminalsInv, TerminalTypes
<1>3. w \notin spawns /\ live \subseteq waits
  BY DEF TerminalsInv, WorkersDiffer, TerminalTypes
<1>4. CASE ~Addressed(w)
  BY <1>1, <1>2, <1>3, <1>4, WorkerLeaves
<1>5. ASSUME Addressed(w) PROVE TerminalsInv'
  <2>1. PICK n, status, s : /\ n = w.node /\ status = (IF w \in live THEN "ended" ELSE "stopped")
                            /\ s = [sessions[n] EXCEPT !.status = status]
    OBVIOUS
  <2>2. n \in DOMAIN sessions /\ sessions[n].gen = w.gen /\ SetSession(n, s)
    BY <1>1, <1>5, <2>1 DEF Addressed
  <2>3. sessions[n] \in TerminalSessions /\ status \in {"stopped", "ended"}
    BY <2>1, <2>2 DEF TerminalsInv, TerminalTypes
  <2>4. /\ s \in TerminalSessions /\ s.gen = sessions[n].gen /\ s.status = status
        /\ s.screen = sessions[n].screen /\ s.dirty = sessions[n].dirty
    BY <2>1, <2>3 DEF TerminalSessions, Statuses
  <2>5. waits' \subseteq spawns \cup waits /\ live' \subseteq waits' /\ spawns' \cap waits' = {} /\ spawns' \subseteq spawns
    BY <1>1, <1>2, <1>3 DEF TerminalsInv, WorkersDiffer
  <2>6. /\ TerminalTypes' /\ WorkersDiffer'
        /\ DOMAIN sessions' = DOMAIN sessions /\ sessions'[n] = s
        /\ \A m \in DOMAIN sessions \ {n} : sessions'[m] = sessions[m]
        /\ \A v : Addressed(v)' <=> Addressed(v)
        /\ (~imported => /\ \A m \in DOMAIN sessions : canvas.nodes[m] # Note
                         /\ \A v \in spawns \cup waits : Addressed(v) => canvas.nodes[v.node] = v.agent)'
    BY <1>2, <2>2, <2>4, <2>5, UpdateFacts
  <2>7. ASSUME NEW v \in waits', v.node = n, v.gen = sessions[n].gen PROVE FALSE
    BY <1>1, <2>2, <2>7, OneWorker
  <2>8. \A p \in live' : Addressed(p)' /\ sessions'[p.node].status \in {"running", "failed"}
    <3> SUFFICES ASSUME NEW p \in live' PROVE Addressed(p)' /\ sessions'[p.node].status \in {"running", "failed"}
      OBVIOUS
    <3>1. p \in live /\ p \in waits' /\ Addressed(p) /\ sessions[p.node].status \in {"running", "failed"} /\ p.node \in DOMAIN sessions
      BY <1>1, <1>3 DEF TerminalsInv, SessionsShow, Addressed
    <3>2. p.node # n
      BY <2>7, <3>1 DEF Addressed
    <3> QED
      BY <2>6, <3>1, <3>2
  <2>9. RunningIsRead'
    <3>1. ASSUME NEW m \in DOMAIN sessions', m # n
          PROVE  /\ sessions'[m].status = "running" => \E v \in live' : v.node = m /\ v.gen = sessions'[m].gen
                 /\ sessions'[m].status = "ended" => ~\E v \in waits' : v.node = m /\ v.gen = sessions'[m].gen
      <4>1. m \in DOMAIN sessions /\ sessions'[m] = sessions[m]
        BY <2>6, <3>1
      <4>2. \A v \in live : v.node = m => v \in live'
        BY <1>1, <2>1, <3>1
      <4> QED
        BY <1>1, <4>1, <4>2 DEF TerminalsInv, RunningIsRead
    <3>2. /\ sessions'[n].status = "running" => \E v \in live' : v.node = n /\ v.gen = sessions'[n].gen
          /\ sessions'[n].status = "ended" => ~\E v \in waits' : v.node = n /\ v.gen = sessions'[n].gen
      BY <2>3, <2>4, <2>6, <2>7
    <3> QED
      BY <2>5, <3>1, <3>2 DEF RunningIsRead
  <2>10. CleanIsStored'
    BY <1>2, <2>4, <2>6 DEF TerminalsInv, CleanIsStored, Placing
  <2> QED
    BY <2>6, <2>8, <2>9, <2>10 DEF TerminalsInv, SessionsShow
<1> QED
  BY <1>4, <1>5

LEMMA StopTerminalStep ==
  ASSUME TerminalsInv, StopTerminal
  PROVE  TerminalsInv'
<1>1. PICK n \in OnFloor(floor) :
        /\ IsActive(n) /\ SetSession(n, [sessions[n] EXCEPT !.status = "stopped"])
        /\ live' = {p \in live : p.node # n}
  BY DEF StopTerminal, Released
<1>2. Placing /\ outputs' \in Nat /\ UNCHANGED <<spawns, waits>>
  BY DEF StopTerminal, Placing, workspace, counters, TerminalsInv, TerminalTypes
<1>3. PICK s : s = [sessions[n] EXCEPT !.status = "stopped"]
  OBVIOUS
<1>4. n \in DOMAIN sessions /\ sessions[n] \in TerminalSessions /\ SetSession(n, s)
  BY <1>1, <1>3 DEF IsActive, TerminalsInv, TerminalTypes
<1>5. /\ s \in TerminalSessions /\ s.gen = sessions[n].gen /\ s.status = "stopped"
      /\ s.screen = sessions[n].screen /\ s.dirty = sessions[n].dirty
  BY <1>3, <1>4 DEF TerminalSessions, Statuses
<1>6. waits' \subseteq spawns \cup waits /\ live' \subseteq waits' /\ spawns' \cap waits' = {} /\ spawns' \subseteq spawns
  BY <1>1, <1>2 DEF TerminalsInv, WorkersDiffer, TerminalTypes
<1>7. /\ TerminalTypes' /\ WorkersDiffer'
      /\ DOMAIN sessions' = DOMAIN sessions /\ sessions'[n] = s
      /\ \A m \in DOMAIN sessions \ {n} : sessions'[m] = sessions[m]
      /\ \A v : Addressed(v)' <=> Addressed(v)
      /\ (~imported => /\ \A m \in DOMAIN sessions : canvas.nodes[m] # Note
                       /\ \A v \in spawns \cup waits : Addressed(v) => canvas.nodes[v.node] = v.agent)'
  BY <1>2, <1>4, <1>5, <1>6, UpdateFacts
<1>8. \A p \in live' : Addressed(p)' /\ sessions'[p.node].status \in {"running", "failed"}
  BY <1>1, <1>7 DEF TerminalsInv, SessionsShow, Addressed
<1>9. RunningIsRead'
  <2>1. \A v \in live : v.node # n => v \in live'
    BY <1>1
  <2>2. \A m \in DOMAIN sessions : sessions'[m].status \in {sessions[m].status, "stopped"} /\ sessions'[m].gen = sessions[m].gen
    BY <1>5, <1>7
  <2> QED
    BY <1>2, <1>5, <1>6, <1>7, <2>1, <2>2 DEF TerminalsInv, RunningIsRead
<1>10. CleanIsStored'
  BY <1>2, <1>5, <1>7 DEF TerminalsInv, CleanIsStored, Placing
<1> QED
  BY <1>7, <1>8, <1>9, <1>10 DEF TerminalsInv, SessionsShow

-----------------------------------------------------------------------------
(* Transcripts and restarts *)

\* The transcripts after a flush: of the sessions written, and the ones before.
LEMMA SavedFacts ==
  ASSUME TerminalsInv, NEW done \in SUBSET Dirty
  PROVE  /\ done \subseteq DOMAIN sessions
         /\ DOMAIN Saved(done) = DOMAIN stored \cup done
         /\ \A n \in done : Saved(done)[n] = sessions[n].screen
         /\ \A n \in DOMAIN stored \ done : Saved(done)[n] = stored[n]
         /\ \A n \in DOMAIN Saved(done) : Saved(done)[n] \in Screens
<1>1. done \subseteq DOMAIN sessions
  BY DEF Dirty
<1>2. PICK screens : screens = [n \in done |-> sessions[n].screen]
  OBVIOUS
<1>3. Saved(done) = Over(stored, screens)
  BY <1>2 DEF Saved
<1>4. /\ DOMAIN Saved(done) = DOMAIN stored \cup done
      /\ \A n \in done : Saved(done)[n] = sessions[n].screen
      /\ \A n \in DOMAIN stored \ done : Saved(done)[n] = stored[n]
  BY <1>2, <1>3 DEF Over
<1>5. \A n \in done : sessions[n].screen \in Screens
  BY <1>1 DEF TerminalsInv, TerminalTypes, TerminalSessions
<1>6. \A n \in DOMAIN stored : stored[n] \in Screens
  BY DEF TerminalsInv, TerminalTypes
<1> QED
  BY <1>1, <1>4, <1>5, <1>6

LEMMA FlushStep ==
  ASSUME TerminalsInv, Flush
  PROVE  TerminalsInv'
<1>1. PICK done \in SUBSET Dirty : stored' = Saved(done) /\ sessions' = Clean(done)
  BY DEF Flush
<1>2. UNCHANGED <<canvas, generation, spawns, waits, live, imported, outputs>>
  BY DEF Flush, workspace, counters
<1>3. /\ done \subseteq DOMAIN sessions
      /\ DOMAIN stored' = DOMAIN stored \cup done
      /\ \A n \in done : stored'[n] = sessions[n].screen
      /\ \A n \in DOMAIN stored \ done : stored'[n] = stored[n]
      /\ \A n \in DOMAIN stored' : stored'[n] \in Screens
  BY <1>1, SavedFacts
<1>4. DOMAIN sessions' = DOMAIN sessions
      /\ \A n \in DOMAIN sessions :
           sessions'[n] = IF n \in done THEN [sessions[n] EXCEPT !.dirty = FALSE] ELSE sessions[n]
  BY <1>1 DEF Clean
<1>5. ASSUME NEW n \in DOMAIN sessions
      PROVE  /\ sessions'[n] \in TerminalSessions /\ sessions'[n].gen = sessions[n].gen
             /\ sessions'[n].status = sessions[n].status /\ sessions'[n].screen = sessions[n].screen
             /\ n \notin done => sessions'[n].dirty = sessions[n].dirty
  <2>1. sessions[n] \in TerminalSessions
    BY DEF TerminalsInv, TerminalTypes
  <2>2. PICK s : s = [sessions[n] EXCEPT !.dirty = FALSE]
    OBVIOUS
  <2>3. s \in TerminalSessions /\ s.gen = sessions[n].gen /\ s.status = sessions[n].status /\ s.screen = sessions[n].screen
    BY <2>1, <2>2 DEF TerminalSessions
  <2> QED
    BY <1>4, <2>1, <2>2, <2>3
<1>6. TerminalTypes'
  BY <1>2, <1>3, <1>4, <1>5 DEF TerminalsInv, TerminalTypes, CardsOf
<1>7. WorkersDiffer'
  BY <1>2 DEF TerminalsInv, WorkersDiffer
<1>8. \A w : Addressed(w)' <=> Addressed(w)
  BY <1>4, <1>5 DEF Addressed
<1>9. SessionsShow'
  <2>1. \A p \in live : p.node \in DOMAIN sessions
    BY DEF TerminalsInv, SessionsShow, Addressed
  <2> QED
    BY <1>2, <1>4, <1>5, <1>8, <2>1 DEF TerminalsInv, SessionsShow
<1>10. RunningIsRead'
  BY <1>2, <1>4, <1>5 DEF TerminalsInv, RunningIsRead
<1>11. CleanIsStored'
  BY <1>2, <1>3, <1>4, <1>5 DEF TerminalsInv, CleanIsStored
<1> QED
  BY <1>6, <1>7, <1>9, <1>10, <1>11 DEF TerminalsInv

\* The generations of restored sessions are new.
LEMMA CountedUp ==
  ASSUME MaxNodes \in Nat, NEW cards \in SUBSET CardIds
  PROVE  /\ Cardinality(cards) \in Nat
         /\ \A n \in cards : Cardinality({m \in cards : m <= n}) \in 1..Cardinality(cards)
<1>1. IsFiniteSet(cards)
  <2>1. IsFiniteSet(1..MaxNodes)
    BY FS_Interval
  <2> QED
    BY <2>1, FS_Subset DEF CardIds
<1>2. Cardinality(cards) \in Nat
  BY <1>1, FS_CardinalityType
<1>3. ASSUME NEW n \in cards PROVE Cardinality({m \in cards : m <= n}) \in 1..Cardinality(cards)
  <2>1. PICK S : S = {m \in cards : m <= n}
    OBVIOUS
  <2>2. S \in SUBSET cards /\ n \in S
    BY <2>1 DEF CardIds
  <2>3. IsFiniteSet(S) /\ Cardinality(S) <= Cardinality(cards)
    BY <1>1, <2>2, FS_Subset
  <2>4. Cardinality(S) \in Nat /\ (Cardinality(S) = 0 => S = {})
    BY <2>3, FS_CardinalityType, FS_EmptySet
  <2> QED
    BY <1>2, <2>1, <2>2, <2>3, <2>4
<1> QED
  BY <1>2, <1>3

\* Transcripts of cards of agents are shown on the cards that have no session.
LEMMA RestoredFacts ==
  ASSUME CardTypes, MaxNodes \in Nat, NEW old, NEW transcripts, NEW gen \in Nat, Restored(old, transcripts, gen),
         \A n \in DOMAIN transcripts : transcripts[n] \in Screens
  PROVE  /\ generation' \in Nat /\ generation' >= gen
         /\ DOMAIN stored' = {n \in DOMAIN transcripts \cap CardsOf(canvas) : canvas.nodes[n] # Note}
         /\ \A n \in DOMAIN stored' : stored'[n] = transcripts[n]
         /\ DOMAIN sessions' = DOMAIN old \cup DOMAIN stored'
         /\ \A n \in DOMAIN old : sessions'[n] = old[n]
         /\ \A n \in DOMAIN stored' \ DOMAIN old :
              /\ sessions'[n] \in TerminalSessions /\ sessions'[n].gen > gen /\ sessions'[n].gen <= generation'
              /\ sessions'[n].status = "offline" /\ sessions'[n].screen = stored'[n]
<1>1. PICK cards : cards = {n \in DOMAIN canvas.nodes : canvas.nodes[n] # Note}
  OBVIOUS
<1>2. PICK new : new = (DOMAIN transcripts \cap cards) \ DOMAIN old
  OBVIOUS
<1>3. PICK back : back = [n \in new |->
        Session(gen + Cardinality({m \in new : m <= n}), "offline", transcripts[n])]
  OBVIOUS
<1>4. /\ stored' = [n \in DOMAIN transcripts \cap cards |-> transcripts[n]]
      /\ sessions' = Over(old, back) /\ generation' = gen + Cardinality(new)
  BY <1>1, <1>2, <1>3 DEF Restored
<1>5. new \in SUBSET CardIds
  BY <1>1, <1>2 DEF CardTypes, CardsOf
<1>6. /\ Cardinality(new) \in Nat
      /\ \A n \in new : Cardinality({m \in new : m <= n}) \in 1..Cardinality(new)
  BY <1>5, CountedUp
<1>7. generation' \in Nat /\ generation' >= gen
  BY <1>4, <1>6
<1>8. ASSUME NEW n \in new
      PROVE  /\ back[n] \in TerminalSessions /\ back[n].gen > gen /\ back[n].gen <= generation'
             /\ back[n].status = "offline" /\ back[n].screen = transcripts[n]
  <2>1. PICK count : count = Cardinality({m \in new : m <= n})
    OBVIOUS
  <2>2. count \in Nat /\ count >= 1 /\ count <= Cardinality(new)
    BY <1>6, <2>1
  <2>3. PICK g : g = gen + count
    OBVIOUS
  <2>4. g \in Nat /\ g > gen /\ g <= generation'
    BY <1>4, <1>6, <2>2, <2>3
  <2>5. back[n] = Session(g, "offline", transcripts[n])
    BY <1>3, <2>1, <2>3
  <2>6. transcripts[n] \in Screens
    BY <1>2
  <2> QED
    BY <2>4, <2>5, <2>6 DEF Session, TerminalSessions, Statuses
<1>9. /\ DOMAIN stored' = DOMAIN transcripts \cap cards /\ \A n \in DOMAIN stored' : stored'[n] = transcripts[n]
      /\ new = DOMAIN stored' \ DOMAIN old
  BY <1>2, <1>4
<1>10. /\ DOMAIN sessions' = DOMAIN old \cup new
       /\ \A n \in new : sessions'[n] = back[n]
       /\ \A n \in DOMAIN old : sessions'[n] = old[n]
  BY <1>2, <1>3, <1>4 DEF Over
<1>11. DOMAIN stored' = {n \in DOMAIN transcripts \cap CardsOf(canvas) : canvas.nodes[n] # Note}
  BY <1>1, <1>9 DEF CardsOf
<1> QED
  BY <1>7, <1>8, <1>9, <1>10, <1>11

LEMMA ReopenStep ==
  ASSUME CardTypes, TerminalsInv, MaxNodes \in Nat, Reopen
  PROVE  TerminalsInv'
<1>1. UNCHANGED <<canvas, spawns, waits, live, imported, outputs>>
  BY DEF Reopen, Reset, workspace
<1>2. generation \in Nat /\ Restored(sessions, stored, generation) /\ \A n \in DOMAIN stored : stored[n] \in Screens
  BY DEF Reopen, TerminalsInv, TerminalTypes
<1>3. /\ generation' \in Nat /\ generation' >= generation
      /\ DOMAIN stored' = {n \in DOMAIN stored \cap CardsOf(canvas) : canvas.nodes[n] # Note}
      /\ \A n \in DOMAIN stored' : stored'[n] = stored[n]
      /\ DOMAIN sessions' = DOMAIN sessions \cup DOMAIN stored'
      /\ \A n \in DOMAIN sessions : sessions'[n] = sessions[n]
      /\ \A n \in DOMAIN stored' \ DOMAIN sessions :
           /\ sessions'[n] \in TerminalSessions /\ sessions'[n].gen > generation /\ sessions'[n].gen <= generation'
           /\ sessions'[n].status = "offline" /\ sessions'[n].screen = stored'[n]
  BY <1>2, RestoredFacts
<1>4. TerminalTypes'
  <2>1. ASSUME NEW n \in DOMAIN sessions' PROVE sessions'[n] \in TerminalSessions /\ sessions'[n].gen <= generation'
    <3>1. CASE n \in DOMAIN sessions
      <4>1. sessions[n] \in TerminalSessions /\ sessions[n].gen \in Nat /\ sessions[n].gen <= generation
        BY <3>1 DEF TerminalsInv, TerminalTypes, TerminalSessions
      <4> QED
        BY <1>2, <1>3, <3>1, <4>1
    <3> QED
      BY <1>3, <2>1, <3>1
  <2>2. DOMAIN sessions' \subseteq CardsOf(canvas)'
    BY <1>1, <1>3 DEF TerminalsInv, TerminalTypes, CardsOf
  <2>3. \A n \in DOMAIN stored' : stored'[n] \in Screens
    BY <1>2, <1>3
  <2> QED
    BY <1>1, <1>3, <2>1, <2>2, <2>3 DEF TerminalsInv, TerminalTypes
<1>5. \A w \in spawns \cup waits : w.gen \in Nat /\ w.gen <= generation
  BY DEF TerminalsInv, TerminalTypes, WorkersDiffer, Workers
<1>6. WorkersDiffer'
  <2>1. \A w \in spawns \cup waits : w.gen <= generation'
    BY <1>2, <1>3, <1>5
  <2> QED
    BY <1>1, <2>1 DEF TerminalsInv, WorkersDiffer
<1>7. \A n \in DOMAIN sessions' \ DOMAIN sessions, w \in spawns \cup waits : w.gen # sessions'[n].gen
  <2>1. \A n \in DOMAIN sessions' \ DOMAIN sessions : sessions'[n].gen \in Nat /\ sessions'[n].gen > generation
    BY <1>3 DEF TerminalSessions
  <2> QED
    BY <1>2, <1>5, <2>1
<1>8. \A w \in spawns \cup waits : Addressed(w)' <=> Addressed(w)
  BY <1>3, <1>7 DEF Addressed
<1>9. SessionsShow'
  <2>1. \A p \in live : p \in waits /\ p.node \in DOMAIN sessions
    BY DEF TerminalsInv, TerminalTypes, SessionsShow, Addressed
  <2>2. ~imported => \A n \in DOMAIN sessions' : canvas.nodes[n] # Note
    BY <1>3 DEF TerminalsInv, SessionsShow
  <2> QED
    BY <1>1, <1>3, <1>8, <2>1, <2>2 DEF TerminalsInv, SessionsShow
<1>10. RunningIsRead'
  BY <1>1, <1>3, <1>7 DEF TerminalsInv, RunningIsRead
<1>11. CleanIsStored'
  <2> SUFFICES ASSUME NEW n \in DOMAIN sessions', ~imported, ~sessions'[n].dirty, sessions'[n].screen # Blank
               PROVE  n \in DOMAIN stored' /\ stored'[n] = sessions'[n].screen
    BY <1>1 DEF CleanIsStored
  <2>1. CASE n \in DOMAIN sessions
    <3>1. n \in DOMAIN stored /\ stored[n] = sessions[n].screen /\ canvas.nodes[n] # Note /\ n \in CardsOf(canvas)
      BY <1>3, <2>1 DEF TerminalsInv, CleanIsStored, SessionsShow, TerminalTypes
    <3> QED
      BY <1>3, <2>1, <3>1
  <2> QED
    BY <1>3, <2>1
<1> QED
  BY <1>4, <1>6, <1>9, <1>10, <1>11 DEF TerminalsInv

LEMMA RestartStep ==
  ASSUME CardTypes, TerminalsInv, MaxNodes \in Nat, Restart
  PROVE  TerminalsInv'
<1>1. UNCHANGED <<canvas, outputs>> /\ spawns' = {} /\ waits' = {} /\ live' = {} /\ imported' = FALSE
  BY DEF Restart, Reset, workspace
<1>2. PICK done \in SUBSET Dirty : Restored(None, Saved(done), 0)
  BY DEF Restart
<1>3. PICK transcripts : transcripts = Saved(done)
  OBVIOUS
<1>4. \A n \in DOMAIN transcripts : transcripts[n] \in Screens
  BY <1>3, SavedFacts
<1>5. DOMAIN None = {}
  BY DEF None
<1>6. /\ generation' \in Nat
      /\ DOMAIN stored' = {n \in DOMAIN transcripts \cap CardsOf(canvas) : canvas.nodes[n] # Note}
      /\ \A n \in DOMAIN stored' : stored'[n] = transcripts[n]
      /\ DOMAIN sessions' = DOMAIN stored'
      /\ \A n \in DOMAIN stored' :
           /\ sessions'[n] \in TerminalSessions /\ sessions'[n].gen <= generation'
           /\ sessions'[n].status = "offline" /\ sessions'[n].screen = stored'[n]
  <2>1. Restored(None, transcripts, 0) /\ 0 \in Nat
    BY <1>2, <1>3
  <2> QED
    BY <1>4, <1>5, <2>1, RestoredFacts
<1>7. TerminalTypes'
  BY <1>1, <1>4, <1>6 DEF TerminalsInv, TerminalTypes, CardsOf
<1>8. WorkersDiffer' /\ SessionsShow'
  BY <1>1, <1>6 DEF WorkersDiffer, SessionsShow
<1>9. RunningIsRead' /\ CleanIsStored'
  BY <1>1, <1>6 DEF RunningIsRead, CleanIsStored
<1> QED
  BY <1>7, <1>8, <1>9 DEF TerminalsInv

-----------------------------------------------------------------------------
(* Edits, undo and redo *)

\* Replacing the shown part with cards that agree with it.
LEMMA ReplaceStep ==
  ASSUME CardsInv, TerminalsInv, NEW after, Replace(after), UNCHANGED <<stored, imported, outputs>>,
         ~imported => Agree(Shown, after)
  PROVE  /\ Numbered' /\ AgentsFollowWindows' /\ TerminalsInv'
         /\ CardsOf(after) \subseteq CardIds /\ clipboard' = clipboard /\ HistoryOf(undo)' /\ HistoryOf(redo)' => CardTypes'
<1>1. CardTypes /\ Numbered' /\ AgentsFollowWindows'
  BY ReplacedAgents DEF CardsInv
<1>2. /\ DOMAIN canvas' = {"nodes", "groups", "links"}
      /\ CardsOf(canvas)' = (CardsOf(canvas) \ OnFloor(floor)) \cup CardsOf(after)
      /\ (CardsOf(canvas) \ OnFloor(floor)) \cap CardsOf(after) = {}
      /\ \A n \in CardsOf(after) : canvas'.nodes[n] = after.nodes[n]
      /\ \A n \in CardsOf(canvas) \ OnFloor(floor) : canvas'.nodes[n] = canvas.nodes[n]
  BY <1>1, ReplacedCards
<1>3. DOMAIN floorOf' = CardsOf(canvas)'
  BY <1>1, ReplacedShown
<1>4. ASSUME ~imported, NEW n \in CardsOf(canvas) \cap CardsOf(canvas)' PROVE canvas'.nodes[n] = canvas.nodes[n]
  <2>1. CASE n \in OnFloor(floor)
    BY <1>2, <1>4, <2>1, ShownCards DEF Agree
  <2> QED
    BY <1>2, <2>1
<1>5. DropSessions(DOMAIN canvas.nodes \ DOMAIN canvas'.nodes)
  BY DEF Replace
<1>6. TerminalsInv'
  BY <1>1, <1>4, <1>5, DropStep
<1>7. CardsOf(after) \subseteq CardIds => CardsOf(canvas)' \subseteq CardIds
  BY <1>1, <1>2 DEF CardTypes
<1>8. CardsOf(after) \subseteq CardIds /\ clipboard' = clipboard /\ HistoryOf(undo)' /\ HistoryOf(redo)' => CardTypes'
  BY <1>1, <1>2, <1>3, <1>7 DEF CardTypes, CardsOf, CardIds
<1> QED
  BY <1>1, <1>6, <1>8

LEMMA EditToStep ==
  ASSUME WindowInv, MaxNodes \in Nat, NEW after, EditTo(after), CardsOf(after) \subseteq Nat \ {0}, Agree(Shown, after)
  PROVE  WindowInv'
<1>1. /\ Replace(after) /\ Record(Shown) /\ UNCHANGED <<clipboard, stored, imported, outputs>>
      /\ \A n \in DOMAIN after.nodes : n <= MaxNodes
  BY DEF EditTo, Counted
<1>2. CardTypes /\ HistoryAgrees /\ CardsOf(after) \subseteq CardIds
  BY <1>1 DEF WindowInv, CardsInv, CardsOf, CardIds
<1>3. \A n \in CardsOf(Shown) \cap CardsOf(Shown)' : Shown'.nodes[n] = Shown.nodes[n]
  BY <1>1, <1>2, ReplacedShown DEF Agree
<1>4. HistoryOf(undo)' /\ HistoryOf(redo)' /\ HistoryAgrees'
  BY <1>1, <1>2, <1>3, RecordStep
<1>5. CardTypes' /\ Numbered' /\ AgentsFollowWindows' /\ TerminalsInv'
  BY <1>1, <1>2, <1>4, ReplaceStep DEF WindowInv
<1> QED
  BY <1>4, <1>5 DEF WindowInv, CardsInv

LEMMA UndoStep ==
  ASSUME WindowInv, Undo
  PROVE  WindowInv'
<1>1. PICK after, l, m : after = Last(undo) /\ l = Shown /\ m = Shown'
  OBVIOUS
<1>2. /\ undo # <<>> /\ Replace(after) /\ undo' = Front(undo) /\ redo' = Append(redo, l)
      /\ UNCHANGED <<clipboard, stored, imported, outputs>>
  BY <1>1 DEF Undo, counters
<1>3. CardTypes /\ HistoryOf(undo) /\ HistoryOf(redo) /\ CardsOf(l) \subseteq CardIds
  BY <1>1, ShownCards DEF WindowInv, CardsInv, CardTypes
<1>4. CardsOf(m) = CardsOf(after) /\ \A n \in CardsOf(m) : m.nodes[n] = after.nodes[n]
  BY <1>1, <1>2, <1>3, ReplacedShown DEF CardsOf
<1>5. /\ HistoryOf(undo') /\ HistoryOf(redo')
      /\ Leads(undo, l) /\ Leads(redo, l) => Leads(undo', m) /\ Leads(redo', m) /\ Agree(m, l)
  BY <1>1, <1>2, <1>3, <1>4, MoveStep
<1>6. CardsOf(after) \subseteq CardIds /\ (Leads(undo, l) => Agree(after, l))
  BY <1>1, <1>2, <1>3, Popped
<1>7. ~imported => Leads(undo, l) /\ Leads(redo, l)
  BY <1>1 DEF WindowInv, HistoryAgrees
<1>8. ~imported => Agree(Shown, after)
  BY <1>1, <1>6, <1>7, AgreeBack
<1>9. HistoryOf(undo)' /\ HistoryOf(redo)'
  BY <1>5 DEF HistoryOf, CardsOf, CardIds
<1>10. CardTypes' /\ Numbered' /\ AgentsFollowWindows' /\ TerminalsInv'
  BY <1>2, <1>6, <1>8, <1>9, ReplaceStep DEF WindowInv
<1>11. HistoryAgrees'
  BY <1>1, <1>2, <1>5, <1>7 DEF HistoryAgrees, Leads, Steps, Agree, CardsOf
<1> QED
  BY <1>10, <1>11 DEF WindowInv, CardsInv

LEMMA RedoStep ==
  ASSUME WindowInv, Redo
  PROVE  WindowInv'
<1>1. PICK after, l, m : after = Last(redo) /\ l = Shown /\ m = Shown'
  OBVIOUS
<1>2. /\ redo # <<>> /\ Replace(after) /\ redo' = Front(redo) /\ undo' = Append(undo, l)
      /\ UNCHANGED <<clipboard, stored, imported, outputs>>
  BY <1>1 DEF Redo, counters
<1>3. CardTypes /\ HistoryOf(undo) /\ HistoryOf(redo) /\ CardsOf(l) \subseteq CardIds
  BY <1>1, ShownCards DEF WindowInv, CardsInv, CardTypes
<1>4. CardsOf(m) = CardsOf(after) /\ \A n \in CardsOf(m) : m.nodes[n] = after.nodes[n]
  BY <1>1, <1>2, <1>3, ReplacedShown DEF CardsOf
<1>5. /\ HistoryOf(redo') /\ HistoryOf(undo')
      /\ Leads(redo, l) /\ Leads(undo, l) => Leads(redo', m) /\ Leads(undo', m) /\ Agree(m, l)
  BY <1>1, <1>2, <1>3, <1>4, MoveStep
<1>6. CardsOf(after) \subseteq CardIds /\ (Leads(redo, l) => Agree(after, l))
  BY <1>1, <1>2, <1>3, Popped
<1>7. ~imported => Leads(undo, l) /\ Leads(redo, l)
  BY <1>1 DEF WindowInv, HistoryAgrees
<1>8. ~imported => Agree(Shown, after)
  BY <1>1, <1>6, <1>7, AgreeBack
<1>9. HistoryOf(undo)' /\ HistoryOf(redo)'
  BY <1>5 DEF HistoryOf, CardsOf, CardIds
<1>10. CardTypes' /\ Numbered' /\ AgentsFollowWindows' /\ TerminalsInv'
  BY <1>2, <1>6, <1>8, <1>9, ReplaceStep DEF WindowInv
<1>11. HistoryAgrees'
  BY <1>1, <1>2, <1>5, <1>7 DEF HistoryAgrees, Leads, Steps, Agree, CardsOf
<1> QED
  BY <1>10, <1>11 DEF WindowInv, CardsInv

\* What is cut out of the shown part.
LEMMA FragmentFacts ==
  ASSUME NEW sel
  PROVE  CardsOf(Fragment(Shown, sel)) \subseteq CardsOf(Shown)
  BY DEF Fragment, CardsOf

\* A copy has numbers of its own and leaves what is shown as it is.
LEMMA PastedFacts ==
  ASSUME CardTypes, MaxNodes \in Nat, NEW fragment, CardsOf(fragment) \subseteq CardIds
  PROVE  CardsOf(Pasted(Shown, fragment, canvas)) \subseteq Nat \ {0} /\ Agree(Shown, Pasted(Shown, fragment, canvas))
<1>1. PICK ids : ids = Fresh(DOMAIN fragment.nodes, canvas.nodes)
  OBVIOUS
<1>2. PICK after : after = Pasted(Shown, fragment, canvas)
  OBVIOUS
<1>3. after.nodes = Over(Shown.nodes, Under(ids, fragment.nodes))
  BY <1>1, <1>2 DEF Pasted
<1>4. PICK cards : cards = DOMAIN fragment.nodes
  OBVIOUS
<1>5. PICK next : next = NextId(canvas.nodes)
  OBVIOUS
<1>6. next \in Nat \ {0} /\ \A n \in DOMAIN canvas.nodes : n < next
  <2>1. DOMAIN canvas.nodes \subseteq CardIds
    BY DEF CardTypes, CardsOf
  <2> QED
    BY <1>5, <2>1, NextIdIsFree
<1>7. DOMAIN ids = cards /\ \A i \in cards : ids[i] = next + Cardinality({j \in cards : j < i})
  BY <1>1, <1>4, <1>5 DEF Fresh
<1>8. ASSUME NEW i \in cards PROVE ids[i] \in Nat \ {0} /\ ids[i] \notin CardsOf(Shown)
  <2>1. PICK S : S = {j \in cards : j < i}
    OBVIOUS
  <2>2. S \in SUBSET CardIds
    BY <1>4, <2>1 DEF CardsOf
  <2>3. Cardinality(S) \in Nat
    BY <2>2, CountedUp
  <2>4. ids[i] \in Nat /\ ids[i] >= next
    BY <1>6, <1>7, <2>1, <2>3
  <2>5. \A n \in CardsOf(Shown) : n \in Nat /\ n < next
    BY <1>6, ShownCards DEF CardTypes, CardIds, CardsOf
  <2> QED
    BY <1>6, <2>4, <2>5
<1>9. DOMAIN Under(ids, fragment.nodes) \subseteq (Nat \ {0}) \ CardsOf(Shown)
  BY <1>7, <1>8 DEF Under, Range
<1>10. CardsOf(Shown) \subseteq Nat \ {0}
  BY ShownCards DEF CardTypes, CardIds
<1>11. CardsOf(after) \subseteq Nat \ {0} /\ Agree(Shown, after)
  <2>1. PICK f, g : f = Shown.nodes /\ g = Under(ids, fragment.nodes)
    OBVIOUS
  <2>2. after.nodes = Over(f, g)
    BY <1>3, <2>1
  <2>3. DOMAIN after.nodes = DOMAIN f \cup DOMAIN g
    BY <2>2 DEF Over
  <2>4. \A n \in DOMAIN f : n \notin DOMAIN g => after.nodes[n] = f[n]
    BY <2>2 DEF Over
  <2> QED
    BY <1>9, <1>10, <2>1, <2>3, <2>4 DEF CardsOf, Agree
<1> QED
  BY <1>2, <1>11

\* Groups and connections: the cards stay.
LEMMA SameCards ==
  ASSUME CardTypes, NEW after, after.nodes = Shown.nodes
  PROVE  CardsOf(after) \subseteq Nat \ {0} /\ Agree(Shown, after)
<1>1. CardsOf(Shown) \subseteq Nat \ {0}
  BY ShownCards DEF CardTypes, CardIds
<1> QED
  BY <1>1 DEF CardsOf, Agree

LEMMA ShownFields == DOMAIN Shown = {"nodes", "groups", "links"}
  BY DEF Shown, Part

LEMMA EditsStep ==
  ASSUME WindowInv, MaxNodes \in Nat,
         RemoveCards \/ Duplicate \/ Group \/ Ungroup \/ Connect \/ Paste
  PROVE  WindowInv'
<1>0. CardTypes /\ CardsOf(Shown) \subseteq CardIds /\ CardsOf(clipboard) \subseteq CardIds
  BY ShownCards DEF WindowInv, CardsInv, CardTypes
<1>1. CASE RemoveCards
  <2>1. PICK sel : EditTo(Removed(Shown, sel))
    BY <1>1 DEF RemoveCards
  <2>2. PICK after : after = Removed(Shown, sel)
    OBVIOUS
  <2>3. after.nodes = [n \in DOMAIN Shown.nodes \ sel |-> Shown.nodes[n]]
    BY <2>2 DEF Removed
  <2>4. CardsOf(after) \subseteq Nat \ {0} /\ Agree(Shown, after)
    BY <1>0, <2>3 DEF CardsOf, CardIds, Agree
  <2> QED
    BY <2>1, <2>2, <2>4, EditToStep
<1>2. CASE Duplicate
  <2>1. PICK sel : EditTo(Duplicated(Shown, sel, canvas))
    BY <1>2 DEF Duplicate
  <2>2. PICK fragment : fragment = Fragment(Shown, sel)
    OBVIOUS
  <2>3. CardsOf(fragment) \subseteq CardIds
    BY <1>0, <2>2, FragmentFacts
  <2>4. PICK after : after = Pasted(Shown, fragment, canvas)
    OBVIOUS
  <2>5. EditTo(after)
    BY <2>1, <2>2, <2>4 DEF Duplicated
  <2>6. CardsOf(after) \subseteq Nat \ {0} /\ Agree(Shown, after)
    BY <1>0, <2>3, <2>4, PastedFacts
  <2> QED
    BY <2>5, <2>6, EditToStep
<1>3. CASE Group
  <2>1. PICK sel : EditTo(Grouped(Shown, sel, canvas))
    BY <1>3 DEF Group
  <2>2. PICK after : after = Grouped(Shown, sel, canvas)
    OBVIOUS
  <2>3. \E groups : after = Shown \/ after = [Shown EXCEPT !.groups = groups]
    BY <2>2 DEF Grouped
  <2>4. after.nodes = Shown.nodes
    BY <2>3, ShownFields
  <2>5. CardsOf(after) \subseteq Nat \ {0} /\ Agree(Shown, after)
    BY <1>0, <2>4, SameCards
  <2> QED
    BY <2>1, <2>2, <2>5, EditToStep
<1>4. CASE Ungroup
  <2>1. PICK sel : EditTo(Ungrouped(Shown, sel))
    BY <1>4 DEF Ungroup
  <2>2. PICK after : after = Ungrouped(Shown, sel)
    OBVIOUS
  <2>3. \E groups : after = [Shown EXCEPT !.groups = groups]
    BY <2>2 DEF Ungrouped
  <2>4. after.nodes = Shown.nodes
    BY <2>3, ShownFields
  <2>5. CardsOf(after) \subseteq Nat \ {0} /\ Agree(Shown, after)
    BY <1>0, <2>4, SameCards
  <2> QED
    BY <2>1, <2>2, <2>5, EditToStep
<1>5. CASE Connect
  <2>1. PICK s, t : EditTo(Connected(Shown, s, t, canvas))
    BY <1>5 DEF Connect
  <2>2. PICK after : after = Connected(Shown, s, t, canvas)
    OBVIOUS
  <2>3. \E links : after = [Shown EXCEPT !.links = links]
    BY <2>2 DEF Connected
  <2>4. after.nodes = Shown.nodes
    BY <2>3, ShownFields
  <2>5. CardsOf(after) \subseteq Nat \ {0} /\ Agree(Shown, after)
    BY <1>0, <2>4, SameCards
  <2> QED
    BY <2>1, <2>2, <2>5, EditToStep
<1>6. CASE Paste
  <2>1. PICK after : after = Pasted(Shown, clipboard, canvas)
    OBVIOUS
  <2>2. CardsOf(after) \subseteq Nat \ {0} /\ Agree(Shown, after)
    BY <1>0, <2>1, PastedFacts
  <2> QED
    BY <1>6, <2>1, <2>2, EditToStep DEF Paste
<1> QED
  BY <1>1, <1>2, <1>3, <1>4, <1>5, <1>6

-----------------------------------------------------------------------------
(* Cards that are added *)

\* Agents and cards after one was added.
LEMMA AddedStep ==
  ASSUME CardsInv, MaxNodes \in Nat, NEW card \in Nat \ {0}, card \notin CardsOf(canvas), NEW target, AddCard(card, target),
         HistoryOf(undo)', HistoryOf(redo)',
         \/ target = Note /\ agents' = agents
         \/ /\ target \in Nat \ {Note} /\ agents' = agents \cup {target}
            /\ \E k \in Nat : Recorded = 1..k /\ target = k + 1
  PROVE  CardsInv'
<1>1. /\ DOMAIN canvas' = {"nodes", "groups", "links"} /\ CardsOf(canvas)' \subseteq CardIds
      /\ DOMAIN floorOf' = CardsOf(canvas)' /\ clipboard' = clipboard
      /\ CardsOf(canvas)' = CardsOf(canvas) \cup {card}
      /\ canvas'.nodes[card] = target
      /\ \A n \in CardsOf(canvas) : canvas'.nodes[n] = canvas.nodes[n]
  BY AddedCards DEF CardsInv
<1>2. archived' = archived
  BY DEF AddCard
<1>3. CardTypes'
  BY <1>1 DEF CardsInv, CardTypes, CardsOf, CardIds
<1>4. Placed(canvas') = Placed(canvas) \cup ({target} \ {Note})
  <2>1. Range(canvas'.nodes) = Range(canvas.nodes) \cup {target}
    BY <1>1 DEF Range, CardsOf
  <2> QED
    BY <2>1 DEF Placed
<1>5. agents = Placed(canvas) /\ archived \cap agents = {}
  BY DEF CardsInv, AgentsFollowWindows
<1>6. CASE target = Note /\ agents' = agents
  <2>1. Numbered'
    BY <1>2, <1>6 DEF CardsInv, Numbered, Recorded
  <2>2. agents' = Placed(canvas') /\ archived' \cap agents' = {}
    BY <1>2, <1>4, <1>5, <1>6
  <2> QED
    BY <1>3, <2>1, <2>2 DEF CardsInv, AgentsFollowWindows, Placed
<1>7. ASSUME target \in Nat \ {Note}, agents' = agents \cup {target}, NEW k \in Nat, Recorded = 1..k, target = k + 1
      PROVE  CardsInv'
  <2>1. agents \cup archived = 1..k
    BY <1>7 DEF Recorded
  <2>2. agents' \cup archived' = 1..(k + 1)
    <3>1. 1..(k + 1) = 1..k \cup {k + 1}
      OBVIOUS
    <3> QED
      BY <1>2, <1>7, <2>1, <3>1
  <2>3. Numbered'
    BY <2>2 DEF Numbered, Recorded
  <2>4. target \notin archived
    BY <1>7, <2>1
  <2>5. agents' = Placed(canvas') /\ archived' \cap agents' = {}
    BY <1>2, <1>4, <1>5, <1>7, <2>4
  <2> QED
    BY <1>3, <2>3, <2>5 DEF CardsInv, AgentsFollowWindows, Placed
<1> QED
  BY <1>6, <1>7

LEMMA FreshCards ==
  ASSUME CardTypes, MaxNodes \in Nat
  PROVE  /\ Lowest(DOMAIN canvas.nodes) \in Nat \ {0} /\ Lowest(DOMAIN canvas.nodes) \notin CardsOf(canvas)
         /\ NextId(canvas.nodes) \in Nat \ {0} /\ NextId(canvas.nodes) \notin CardsOf(canvas)
<1>1. PICK used : used = DOMAIN canvas.nodes
  OBVIOUS
<1>2. used \in SUBSET (1..MaxNodes) /\ used = CardsOf(canvas)
  BY <1>1 DEF CardTypes, CardsOf, CardIds
<1>3. Lowest(used) \in Nat \ {0} /\ Lowest(used) \notin used
  BY <1>2, LowestIsFree
<1>4. DOMAIN canvas.nodes \subseteq CardIds
  BY <1>1, <1>2 DEF CardIds
<1>5. NextId(canvas.nodes) \in Nat \ {0} /\ \A n \in DOMAIN canvas.nodes : n < NextId(canvas.nodes)
  BY <1>4, NextIdIsFree
<1> QED
  BY <1>1, <1>2, <1>3, <1>5

LEMMA AddNoteStep ==
  ASSUME WindowInv, MaxNodes \in Nat, AddNote
  PROVE  WindowInv'
<1>1. PICK card : card = Lowest(DOMAIN canvas.nodes)
  OBVIOUS
<1>2. /\ AddCard(card, Note) /\ Record(Shown) /\ UNCHANGED <<agents, terminals, imported, stored, outputs>>
  BY <1>1 DEF AddNote, AddCard, Counted
<1>3. CardsInv /\ CardTypes /\ HistoryAgrees /\ TerminalsInv
  BY DEF WindowInv, CardsInv
<1>4. card \in Nat \ {0} /\ card \notin CardsOf(canvas)
  BY <1>1, <1>3, FreshCards
<1>5. /\ CardsOf(canvas)' = CardsOf(canvas) \cup {card}
      /\ \A n \in CardsOf(canvas) : canvas'.nodes[n] = canvas.nodes[n]
      /\ \A n \in CardsOf(Shown) : Shown'.nodes[n] = Shown.nodes[n]
  BY <1>2, <1>3, <1>4, AddedCards
<1>6. HistoryOf(undo)' /\ HistoryOf(redo)' /\ HistoryAgrees'
  BY <1>2, <1>3, <1>5, RecordStep
<1>7. CardsInv'
  BY <1>2, <1>3, <1>4, <1>6, AddedStep
<1>8. TerminalsInv'
  BY <1>2, <1>3, <1>5, TerminalsStay
<1> QED
  BY <1>6, <1>7, <1>8 DEF WindowInv

LEMMA InstantiateStep ==
  ASSUME WindowInv, MaxNodes \in Nat, Instantiate
  PROVE  WindowInv'
<1>1. PICK card, agent : card = NextId(canvas.nodes) /\ agent = Max(Recorded \cup {0}) + 1
  OBVIOUS
<1>2. /\ AddCard(card, agent) /\ agents' = agents \cup {agent} /\ UNCHANGED <<undo, redo, terminals, stored, outputs>>
      /\ imported' = (imported \/ undo # <<>> \/ redo # <<>>)
  BY <1>1 DEF Instantiate, AddCard, Counted, history
<1>3. CardsInv /\ CardTypes /\ HistoryAgrees /\ TerminalsInv /\ Numbered
  BY DEF WindowInv, CardsInv
<1>4. card \in Nat \ {0} /\ card \notin CardsOf(canvas)
  BY <1>1, <1>3, FreshCards
<1>5. agent \in Nat \ {Note} /\ \E k \in Nat : Recorded = 1..k /\ agent = k + 1
  <2>1. PICK k \in Nat : Recorded = 1..k /\ Max(Recorded \cup {0}) + 1 = k + 1
    BY <1>3, AgentIsNew
  <2>2. agent = k + 1
    BY <1>1, <2>1
  <2> QED
    BY <2>1, <2>2 DEF Note
<1>6. /\ CardsOf(canvas)' = CardsOf(canvas) \cup {card}
      /\ \A n \in CardsOf(canvas) : canvas'.nodes[n] = canvas.nodes[n]
  BY <1>2, <1>3, <1>4, AddedCards
<1>7. HistoryOf(undo)' /\ HistoryOf(redo)'
  BY <1>2, <1>3 DEF CardTypes, HistoryOf, CardsOf, CardIds
<1>8. HistoryAgrees'
  <2>1. ~imported' => undo = <<>> /\ redo = <<>>
    BY <1>2, Zenon
  <2>2. ~imported' => undo' = <<>> /\ redo' = <<>>
    BY <1>2, <2>1
  <2> QED
    BY <2>2 DEF HistoryAgrees, Leads, Steps
<1>9. CardsInv'
  BY <1>2, <1>3, <1>4, <1>5, <1>7, AddedStep
<1>10. TerminalsInv'
  BY <1>2, <1>3, <1>6, TerminalsStay
<1> QED
  BY <1>8, <1>9, <1>10 DEF WindowInv

LEMMA AddAgentStep ==
  ASSUME WindowInv, MaxNodes \in Nat, AddAgent
  PROVE  WindowInv'
<1>1. PICK card, agent : card = Lowest(DOMAIN canvas.nodes) /\ agent = Lowest(Recorded)
  OBVIOUS
<1>2. /\ AddCard(card, agent) /\ agents' = agents \cup {agent} /\ Starting(card, agent) /\ Record(Shown)
      /\ UNCHANGED <<imported, stored, outputs>>
  BY <1>1 DEF AddAgent, AddCard, Counted
<1>3. CardsInv /\ CardTypes /\ HistoryAgrees /\ TerminalsInv /\ Numbered
  BY DEF WindowInv, CardsInv
<1>4. card \in Nat \ {0} /\ card \notin CardsOf(canvas)
  BY <1>1, <1>3, FreshCards
<1>5. agent \in Nat \ {Note} /\ \E k \in Nat : Recorded = 1..k /\ agent = k + 1
  BY <1>1, <1>3, AgentIsNew DEF Note
<1>6. /\ CardsOf(canvas)' = CardsOf(canvas) \cup {card} /\ canvas'.nodes[card] = agent
      /\ \A n \in CardsOf(canvas) : canvas'.nodes[n] = canvas.nodes[n]
      /\ \A n \in CardsOf(Shown) : Shown'.nodes[n] = Shown.nodes[n]
  BY <1>2, <1>3, <1>4, AddedCards
<1>7. HistoryOf(undo)' /\ HistoryOf(redo)' /\ HistoryAgrees'
  BY <1>2, <1>3, <1>6, RecordStep
<1>8. CardsInv'
  BY <1>2, <1>3, <1>4, <1>5, <1>7, AddedStep
<1>9. ~IsActive(card)
  BY <1>3, <1>4 DEF IsActive, TerminalsInv, TerminalTypes
<1>10. TerminalsInv'
  BY <1>2, <1>3, <1>4, <1>5, <1>6, <1>9, StartingStep
<1> QED
  BY <1>7, <1>8, <1>10 DEF WindowInv

LEMMA StartTerminalStep ==
  ASSUME WindowInv, StartTerminal
  PROVE  TerminalsInv'
<1>1. PICK n \in OnFloor(floor) : canvas.nodes[n] \in agents /\ ~IsActive(n) /\ Starting(n, canvas.nodes[n])
  BY DEF StartTerminal
<1>2. PICK agent : agent = canvas.nodes[n]
  OBVIOUS
<1>3. UNCHANGED <<canvas, stored, imported, outputs>>
  BY DEF StartTerminal, workspace, counters
<1>4. n \in CardsOf(canvas) /\ n \in Nat
  BY ShownCards DEF WindowInv, CardsInv, CardTypes, CardIds
<1>5. agent \in Nat \ {Note}
  <2>1. agent \in Recorded /\ agent # Note
    BY <1>1, <1>2 DEF WindowInv, CardsInv, AgentsFollowWindows, Placed, Recorded
  <2> QED
    BY <2>1 DEF WindowInv, CardsInv, Numbered
<1>6. CardsOf(canvas)' = CardsOf(canvas)
  BY <1>3 DEF CardsOf
<1> QED
  BY <1>1, <1>2, <1>3, <1>4, <1>5, <1>6, StartingStep DEF WindowInv

\* Steps of terminals leave cards and history alone.
LEMMA CardsStay ==
  ASSUME WindowInv, UNCHANGED <<workspace, history, clipboard, imported>>
  PROVE  CardsInv' /\ HistoryAgrees'
<1>1. UNCHANGED <<canvas, floorOf, floor, agents, archived, undo, redo, clipboard, imported>>
  BY DEF workspace, history
<1>2. CardsInv'
  BY <1>1 DEF WindowInv, CardsInv, CardTypes, Numbered, AgentsFollowWindows, Placed, Recorded, HistoryOf, CardsOf, CardIds
<1>3. Shown' = Shown
  BY <1>1 DEF Shown, OnFloor
<1>4. HistoryAgrees'
  BY <1>1, <1>3 DEF WindowInv, HistoryAgrees, Leads, Steps
<1> QED
  BY <1>2, <1>4

\* A canvas without history.
LEMMA HistoryGone ==
  ASSUME CardsInv, NoHistory, UNCHANGED <<canvas, floorOf, agents, archived, clipboard>>
  PROVE  CardsInv' /\ HistoryAgrees'
<1>1. undo' = <<>> /\ redo' = <<>>
  BY DEF NoHistory
<1>2. HistoryOf(undo)' /\ HistoryOf(redo)'
  BY <1>1 DEF HistoryOf
<1>3. CardTypes'
  BY <1>2 DEF CardsInv, CardTypes, CardsOf, CardIds
<1>4. Numbered' /\ AgentsFollowWindows'
  BY DEF CardsInv, Numbered, AgentsFollowWindows, Placed, Recorded
<1>5. HistoryAgrees'
  BY <1>1 DEF HistoryAgrees, Leads, Steps
<1> QED
  BY <1>3, <1>4, <1>5 DEF CardsInv

LEMMA CopyStep ==
  ASSUME WindowInv, Copy
  PROVE  WindowInv'
<1>1. PICK sel : clipboard' = Fragment(Shown, sel)
  BY DEF Copy
<1>2. /\ UNCHANGED <<canvas, floorOf, floor, agents, archived, undo, redo, imported>>
      /\ UNCHANGED <<terminals, stored, outputs>>
  BY DEF Copy, Counted, workspace, history
<1>3. CardsOf(clipboard') \subseteq CardIds
  BY <1>1, FragmentFacts, ShownCards DEF WindowInv, CardsInv, CardTypes
<1>4. CardsInv'
  BY <1>2, <1>3 DEF WindowInv, CardsInv, CardTypes, Numbered, AgentsFollowWindows, Placed, Recorded, HistoryOf, CardsOf, CardIds
<1>5. Shown' = Shown
  BY <1>2 DEF Shown, OnFloor
<1>6. HistoryAgrees'
  BY <1>2, <1>5 DEF WindowInv, HistoryAgrees, Leads, Steps
<1>7. TerminalsInv'
  BY <1>2, TerminalsStay DEF WindowInv, CardsOf
<1> QED
  BY <1>4, <1>6, <1>7 DEF WindowInv

LEMMA SwitchFloorStep ==
  ASSUME WindowInv, SwitchFloor
  PROVE  WindowInv'
<1>1. NoHistory /\ UNCHANGED <<canvas, floorOf, agents, archived, clipboard, terminals, stored, imported, outputs>>
  BY DEF SwitchFloor, Reset
<1>2. CardsInv' /\ HistoryAgrees'
  BY <1>1, HistoryGone DEF WindowInv
<1>3. TerminalsInv'
  BY <1>1, TerminalsStay DEF WindowInv, CardsOf
<1> QED
  BY <1>2, <1>3 DEF WindowInv

-----------------------------------------------------------------------------
LEMMA WindowStep ==
  ASSUME WindowInv, MaxNodes \in Nat, Next
  PROVE  WindowInv'
<1>1. CASE Started \/ Output \/ Terminated \/ StopTerminal \/ StartTerminal \/ Flush
  <2>1. UNCHANGED <<workspace, history, clipboard, imported>>
    BY <1>1 DEF Started, Output, Terminated, StopTerminal, StartTerminal, Flush
  <2>2. CardsInv' /\ HistoryAgrees'
    BY <2>1, CardsStay
  <2>3. TerminalsInv'
    BY <1>1, StartedStep, OutputStep, TerminatedStep, StopTerminalStep, StartTerminalStep, FlushStep DEF WindowInv
  <2> QED
    BY <2>2, <2>3 DEF WindowInv
<1>2. CASE Reopen \/ Restart
  <2>1. NoHistory /\ UNCHANGED <<canvas, floorOf, agents, archived, clipboard>>
    BY <1>2 DEF Reopen, Restart, workspace
  <2>2. CardsInv' /\ HistoryAgrees'
    BY <2>1, HistoryGone DEF WindowInv
  <2>3. TerminalsInv'
    BY <1>2, ReopenStep, RestartStep DEF WindowInv, CardsInv
  <2> QED
    BY <2>2, <2>3 DEF WindowInv
<1>3. CASE RemoveCards \/ Duplicate \/ Group \/ Ungroup \/ Connect \/ Paste
  BY <1>3, EditsStep
<1> QED
  BY <1>1, <1>2, <1>3, UndoStep, RedoStep, AddNoteStep, AddAgentStep, InstantiateStep, CopyStep, SwitchFloorStep DEF Next

LEMMA WindowStutters ==
  ASSUME WindowInv, UNCHANGED vars
  PROVE  WindowInv'
<1>1. UNCHANGED <<workspace, history, clipboard, imported>> /\ UNCHANGED <<terminals, stored, canvas, outputs>>
  BY DEF vars, workspace, counters
<1>2. CardsInv' /\ HistoryAgrees'
  BY <1>1, CardsStay
<1>3. TerminalsInv'
  BY <1>1, TerminalsStay DEF WindowInv, CardsOf
<1> QED
  BY <1>2, <1>3 DEF WindowInv

LEMMA WindowInit == Init => WindowInv
<1> SUFFICES ASSUME Init PROVE WindowInv
  OBVIOUS
<1>1. DOMAIN <<>> = {} /\ DOMAIN None = {} /\ EmptyLayout.nodes = <<>>
      /\ DOMAIN EmptyLayout = {"nodes", "groups", "links"}
  BY DEF None, EmptyLayout
<1>2. HistoryOf(<<>>) /\ \A l : Leads(<<>>, l)
  BY DEF HistoryOf, Leads, Steps
<1>3. CardTypes
  BY <1>1, <1>2 DEF Init, CardTypes, CardsOf
<1>4. Numbered /\ AgentsFollowWindows
  <2>1. Recorded = 1..0 /\ Placed(canvas) = {}
    BY <1>1 DEF Init, Recorded, Placed, Range
  <2> QED
    BY <2>1 DEF Numbered, AgentsFollowWindows, Init
<1>5. HistoryAgrees
  BY <1>2 DEF Init, HistoryAgrees
<1>6. TerminalsInv
  BY <1>1 DEF Init, TerminalsInv, TerminalTypes, WorkersDiffer, SessionsShow, RunningIsRead, CleanIsStored
<1> QED
  BY <1>3, <1>4, <1>5, <1>6 DEF WindowInv, CardsInv

\* Agents, terminals and transcripts belong together: an agent is active while
\* a card shows it, a process runs in the session that started it under a card
\* of its agent, a running terminal is read, and output that counts as stored
\* is stored, through edits, undo, late results and restarts (app.rs,
\* persist_canvas and handle_terminal_event; terminal/session.rs).
THEOREM WindowsAreHeld == CanvasSpec => []WindowsHold
<1>1. CanvasInit => WindowInv
  BY WindowInit DEF CanvasInit
<1>2. MaxNodes \in Nat
  BY WindowsAssumption
<1>3. WindowInv /\ [CanvasNext]_<<part, vars, noteVars>> => WindowInv'
  BY <1>2, WindowStep, WindowStutters DEF CanvasNext
<1>4. WindowInv => WindowsHold
  <2> SUFFICES ASSUME WindowInv PROVE WindowsHold
    OBVIOUS
  <2>1. OwnTerminal
    BY DEF WindowInv, TerminalsInv, TerminalTypes, SessionsShow, OwnTerminal, Addressed, CardsOf
  <2> QED
    BY <2>1 DEF WindowInv, CardsInv, TerminalsInv, WindowsHold
<1> QED
  BY <1>1, <1>3, <1>4, PTL DEF CanvasSpec
=============================================================================
