---------------------------- MODULE MCPersistence ----------------------------
(***************************************************************************)
(* What is kept and restored, four instances explored in one run: the      *)
(* journal of the workspaces (WorkspaceJournal), the conversations of a    *)
(* workspace with its snapshots (Chat), a routine with its versions and a  *)
(* run of it (RoutineRecord), and templates and archives (Portable).       *)
(* "part" says which of them a behaviour is about; the others stand still. *)
(***************************************************************************)
EXTENDS Chat, TLC

CONSTANTS
  Nothing, MaxVersions, MaxEdits,   \* RoutineRecord
  Source, Selections, Joined, MaxPlain, MaxImports,   \* Portable
  Workspaces, Agents, Directories, MaxEvents, MaxBatch, MaxTime, MaxFailures   \* WorkspaceJournal

VARIABLES part, routine, run, edits,
          work, clip, saved, import, plain, imports,
          events, snapshots, registry, selected, open, memory, recent, active, clock, failures

(* A workspace with every kind of element: three agents, one of them closed  *)
(* and one waiting, a failed task with its retry, a handoff, a floor, a       *)
(* conversation with one message that mentions a connected agent.           *)
SmallWorkspace ==
  [settings |-> "home", roles |-> [r \in {1} |-> "reviewer"], presets |-> {8},
   agents |-> [a \in 1..3 |-> [role |-> IF a = 3 THEN 1 ELSE 0, program |-> IF a = 1 THEN 8 ELSE 0,
                               state |-> IF a = 2 THEN "waiting" ELSE "starting"]],
   closed |-> {3},
   tasks |-> [t \in 1..2 |-> IF t = 1 THEN [assignee |-> 1, retry |-> 0, state |-> "failed"]
                             ELSE [assignee |-> 2, retry |-> 1, state |-> "blocked"]],
   handoffs |-> [h \in {1} |-> [from |-> 1, to |-> 3, task |-> 2]],
   canvas |-> [nodes |-> [n \in 1..4 |-> <<Agent(1), Agent(2), Task(2), Handoff(1)>>[n]],
               groups |-> [g \in {1} |-> {2, 3}], links |-> [e \in {1} |-> <<1, 2>>]],
   floors |-> {1}, active |-> 0, at |-> [n \in {4} |-> 1],
   threads |-> [t \in {1} |-> [NewThread(1) EXCEPT !.messages = <<MessageOf(1, [NoDraft EXCEPT !.text = "p", !.mentions = {Agent(2)}])>>]], attachments |-> <<>>]

(* Candidate versions of the routine: what users try to save, the wrong ones *)
(* included.                                                                 *)
V == INSTANCE RoutineVersion
None == <<>>
StepOf(deps, binds, outputs, gated, budget) ==
  [deps |-> deps, binds |-> binds, holes |-> DOMAIN binds, outputs |-> outputs,
   approval |-> gated, budget |-> budget, floor |-> Nothing]
Plain(deps) == StepOf(deps, None, {}, FALSE, 1)
VersionOf(in, plan) == [inputs |-> in, steps |-> plan]

\* Output handed down a chain with a gate, beside an independent branch.
Chain == VersionOf("goal" :> "required",
  1 :> StepOf({}, "goal" :> V!Input("goal"), {"plan"}, FALSE, 2)
  @@ 2 :> StepOf({1}, "plan" :> V!Output(1, "plan"), {}, TRUE, 1)
  @@ 3 :> StepOf({2}, "plan" :> V!Output(1, "plan"), {}, FALSE, 1))
Fork == VersionOf("base" :> "default" @@ "note" :> "optional",
  1 :> StepOf({}, "base" :> V!Input("base"), {"a"}, FALSE, 1)
  @@ 2 :> StepOf({}, "text" :> V!Literal, {"b"}, FALSE, 1)
  @@ 3 :> StepOf({1, 2}, "a" :> V!Output(1, "a") @@ "b" :> V!Output(2, "b"), {}, TRUE, 1))
Noted == VersionOf("note" :> "optional", 1 :> StepOf({}, "note" :> V!Input("note"), {}, FALSE, 1))

\* A step that claims a floor, on one that is there and on one that is not.
OnFloor(f) == VersionOf(None, 1 :> [Plain({}) EXCEPT !.floor = f])

\* Rejected: a cycle behind a first step, an output of a step that need not
\* have run, an undeclared output and a placeholder without a binding.
Cycle == VersionOf(None, 1 :> Plain({}) @@ 2 :> Plain({1, 3}) @@ 3 :> Plain({2}))
Unordered == VersionOf(None,
  1 :> StepOf({}, None, {"a"}, FALSE, 1) @@ 2 :> StepOf({}, "a" :> V!Output(1, "a"), {}, FALSE, 1))
Undeclared == VersionOf(None,
  1 :> Plain({}) @@ 2 :> StepOf({1}, "a" :> V!Output(1, "a"), {}, FALSE, 1))
Unbound == VersionOf(None, 1 :> [Plain({}) EXCEPT !.holes = {"goal"}])
Unknown == VersionOf(None, 1 :> Plain({2}))

SavedVersions == {Chain, Fork, Noted, OnFloor(1), OnFloor(2), Cycle, Unordered, Undeclared, Unbound, Unknown}
Routine == INSTANCE RoutineRecord WITH Candidates <- SavedVersions, FloorIds <- {1}

(* What is exported: two agents, one with a role and one on a custom         *)
(* launcher, a failed task and its retry, a handoff of an agent and one of a *)
(* routine, cards for some of them on two floors, a group and a connection.  *)
SourceWorkspace ==
  [settings |-> "home", roles |-> [r \in {1} |-> "reviewer"], presets |-> {8, 9},
   agents |-> [a \in 1..2 |-> IF a = 1 THEN [role |-> 1, program |-> 0] ELSE [role |-> 0, program |-> 8]],
   closed |-> {},
   tasks |-> [t \in 1..2 |-> IF t = 1 THEN [assignee |-> 1, retry |-> 0, state |-> "failed"]
                             ELSE [assignee |-> 2, retry |-> 1, state |-> "queued"]],
   handoffs |-> [h \in 1..2 |-> [from |-> IF h = 1 THEN 1 ELSE 0, to |-> 2, task |-> h]],
   canvas |-> [nodes |-> [n \in 1..5 |-> <<Agent(1), Agent(2), Task(2), NoteCard, Handoff(1)>>[n]],
               groups |-> [g \in {1} |-> {1, 4}], links |-> [e \in {1} |-> <<2, 3>>]],
   floors |-> {1}, active |-> 0, at |-> [n \in {5} |-> 1], checkouts |-> {0, 1}]
CardSelections == {{1}, {3}, {2, 3}, {5}}
Documents == INSTANCE Portable WITH Start <- Source, MaxSteps <- MaxPlain, ws <- work,
                                  draft <- import, steps <- plain

TwoWorkspaces == 1..2
Journal == INSTANCE WorkspaceJournal WITH MaxFaults <- MaxFailures, faults <- failures, running <- open

routineVars == <<routine, run, edits>>
documentVars == <<work, clip, saved, import, plain, imports>>
journalVars == <<events, snapshots, registry, selected, open, memory, recent, active, clock, failures>>
allVars == <<vars, part, routineVars, documentVars, journalVars>>

PersistenceInit ==
  /\ part \in {"journal", "chat", "routine", "documents"}
  /\ Init /\ Documents!Init /\ Journal!Init
  /\ part # "journal" => events = <<>>
  /\ \/ part = "routine" /\ Routine!Init
     \/ part # "routine" /\ routine = Nothing /\ run = Nothing /\ edits = 0

PersistenceNext ==
  /\ UNCHANGED part
  /\ \/ part = "chat" /\ Next /\ UNCHANGED <<routineVars, documentVars, journalVars>>
     \/ part = "routine" /\ Routine!Next /\ UNCHANGED <<vars, documentVars, journalVars>>
     \/ part = "documents" /\ Documents!Next /\ UNCHANGED <<vars, routineVars, journalVars>>
     \/ part = "journal" /\ Journal!Next /\ UNCHANGED <<vars, routineVars, documentVars>>

PersistenceFairness ==
  /\ WF_routineVars(part = "routine" /\ Routine!SettleRun)
  /\ WF_routineVars(part = "routine" /\ Routine!AdvanceRun)

PersistenceSpec == PersistenceInit /\ [][PersistenceNext]_allVars /\ PersistenceFairness

\* A start recovers exactly what the application worked on, whichever snapshot
\* decodes, and never fails (storage.rs, workspaces.rs).
StartsRecover ==
  part = "journal" => Journal!MemoryMatchesJournal /\ Journal!AlwaysOpens /\ Journal!SnapshotsAgree

\* The journal implements the abstract store of workspaces (WorkspaceStore).
StoreImplemented == Journal!StoreImplemented

\* The newest snapshot of a conversation that decodes, with the events after
\* it, is the workspace the application worked on; no attachment loses its file
\* and no prompt is lost
\* (persistence/codec.rs, chat.rs).
ChatsRecover == part = "chat" => RecoveryExact /\ NewestDecodes /\ FilesSound /\ PromptsRecorded

\* Whatever point of a run it is taken at, a snapshot of a routine and its run
\* is accepted by the restore rules and gives both back (codec.rs, RoutineV1),
\* except that one whose routine claims a floor is refused, never misread;
\* and the bindings of a step that may start have a value, whichever version
\* was accepted (RoutineVersion::new) and however the steps before it ended.
RoutinesRestore == part = "routine" => Routine!RecordsRestore /\ Routine!ReadyResolves

\* A run of any accepted version ends: no failure, rejection, interruption or
\* cancellation leaves a step waiting for one that will never complete.
RunEnds == part = "routine" => Routine!EveryRunEnds

\* What is exported can be imported, an import gives a copy of it and leaves
\* the rest alone, and lands where its preview said (persistence/portable.rs).
DocumentsImport ==
  /\ [](part = "documents" => Documents!WorkspaceClosed /\ Documents!ExportsImport)
  /\ Documents!CopyIsFaithful /\ Documents!LandsWherePreviewed
=============================================================================
