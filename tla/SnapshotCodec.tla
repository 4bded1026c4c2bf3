--------------------------- MODULE SnapshotCodec ----------------------------
(***************************************************************************)
(* Workspace snapshots: src/src/persistence/codec.rs.  A snapshot holds    *)
(* every collection of the workspace; it is read back by issuing the       *)
(* commands that would build the same workspace, each with the checks it   *)
(* has for the user, in an order in which what an element refers to comes  *)
(* first.  A command that is refused makes the snapshot unreadable.        *)
(* Handoffs' own history is in HandoffSnapshot, routines in RoutineRecord. *)
(***************************************************************************)
EXTENDS ChatDomain

Do(op, id, val) == <<[op |-> op, id |-> id, val |-> val]>>
InOrder(S) == [i \in 1..Cardinality(S) |-> CHOOSE x \in S : Cardinality({y \in S : y < x}) = i - 1]
ForEach(S, C(_)) == LET order == InOrder(S) IN FlattenSeq([i \in DOMAIN order |-> C(order[i])])

\* Workspace::new: no element, no floor, its first name.
Fresh0 == [settings |-> "new", roles |-> <<>>, presets |-> {}, agents |-> <<>>, closed |-> {}, tasks |-> <<>>,
           handoffs |-> <<>>, canvas |-> EmptyLayout, floors |-> {}, active |-> 0, at |-> <<>>,
           threads |-> <<>>, attachments |-> <<>>]

SettingsCommands(s) == IF s.settings = Fresh0.settings THEN <<>> ELSE Do("settings", 0, s.settings)
PresetCommands(s) == ForEach(s.presets, LAMBDA p : Do("preset", p, p))
RoleCommands(s) == ForEach(DOMAIN s.roles, LAMBDA r : Do("role", r, s.roles[r]))

\* The moves that lead an agent or a task to its state.
\* Faulty variant: an agent that waited comes back as running.
ShortPath(state) == IF state \in {"waiting", "running"} THEN <<"running">> ELSE IF state = "starting" THEN <<>> ELSE <<state>>
AgentPath(state) ==
  CASE state = "starting" -> <<>>
    [] state \in {"waiting", "completed"} -> <<"running", state>>
    [] OTHER -> <<state>>
TaskPath(state) ==
  CASE state = "queued" -> <<>>
    [] state \in {"delivered", "cancelled"} -> <<state>>
    [] state = "running" -> <<"delivered", "running">>
    [] state = "failed" -> <<"delivered", "failed">>
    [] OTHER -> <<"delivered", "running", state>>
Moves(op, id, path) == FlattenSeq([i \in DOMAIN path |-> Do(op, id, path[i])])

AgentCommands(s) ==
  ForEach(DOMAIN s.agents, LAMBDA a : Do("agent", a, [s.agents[a] EXCEPT !.state = "starting"])
                                      \o Moves("agent state", a, AgentPath(s.agents[a].state)))

\* The first task whose predecessor is there, until none is left.
RetryOrder(tasks) ==
  LET chain[t \in DOMAIN tasks] ==
        IF tasks[t].retry \in DOMAIN tasks THEN Append(chain[tasks[t].retry], t) ELSE <<t>>
  IN FoldLeft(LAMBDA order, t : order \o SelectSeq(chain[t], LAMBDA u : u \notin Range(order)), <<>>, InOrder(DOMAIN tasks))
TaskCommands(s) ==
  LET order == RetryOrder(s.tasks) IN
  FlattenSeq([i \in DOMAIN order |->
    LET t == order[i] IN
    Do("task", t, [assignee |-> s.tasks[t].assignee, retry |-> s.tasks[t].retry])
    \o Moves("move", t, TaskPath(s.tasks[t].state))])
HandoffCommands(s) == ForEach(DOMAIN s.handoffs, LAMBDA h : Do("handoff", h, s.handoffs[h]))

\* The cards one by one, then their groups and connections at once.
NodeCommands(s) == ForEach(DOMAIN s.canvas.nodes, LAMBDA n : Do("node", n, s.canvas.nodes[n]))
GraphCommands(s) ==
  LET cards == [EmptyLayout EXCEPT !.nodes = s.canvas.nodes] IN
  IF s.canvas = cards THEN <<>> ELSE Do("canvas", cards, s.canvas)

ThreadCommands(s) == ForEach(DOMAIN s.threads, LAMBDA t : Do("thread", t, s.threads[t].owner))
AttachmentCommands(s) == ForEach(DOMAIN s.attachments, LAMBDA f : Do("attachment", f, s.attachments[f]))
\* A message is written as a draft again and submitted; all are the user's, as
\* nothing in the application appends one of an agent.
MessageCommands(t, m) ==
  Do("draft", t, [text |-> m.text, files |-> m.files, mentions |-> m.mentions]) \o Do("submit", t, m.id)
ConversationCommands(s) ==
  ForEach(DOMAIN s.threads, LAMBDA t :
    FlattenSeq([i \in DOMAIN s.threads[t].messages |-> MessageCommands(t, s.threads[t].messages[i])])
    \o (IF EmptyDraft(s.threads[t].draft) THEN <<>> ELSE Do("draft", t, s.threads[t].draft)))

FloorCommands(s) ==
  IF s.floors = {} THEN <<>> ELSE Do("floors", 0, [floors |-> s.floors, active |-> s.active, at |-> s.at])

RestoreCommands(s) ==
  SettingsCommands(s) \o PresetCommands(s) \o RoleCommands(s) \o AgentCommands(s) \o TaskCommands(s) \o HandoffCommands(s)
  \o NodeCommands(s) \o GraphCommands(s) \o ThreadCommands(s) \o AttachmentCommands(s) \o ConversationCommands(s) \o FloorCommands(s)

ValidFloors(ws, f) == DOMAIN f.at \subseteq DOMAIN ws.canvas.nodes /\ Range(f.at) \subseteq f.floors /\ f.active \in f.floors \cup {0}
ExecuteSnapshot(ws, c) ==
  CASE ws = Refused -> Refused
    [] ws # Refused /\ c.op = "preset" -> [ws EXCEPT !.presets = @ \cup {c.val}]
    [] ws # Refused /\ c.op = "node" -> IF c.id \notin DOMAIN ws.canvas.nodes /\ c.val \in Targets(ws)
                                        THEN [ws EXCEPT !.canvas.nodes = With(@, c.id, c.val)] ELSE Refused
    [] ws # Refused /\ c.op = "floors" -> IF ValidFloors(ws, c.val)
                                          THEN [ws EXCEPT !.floors = c.val.floors, !.active = c.val.active, !.at = c.val.at]
                                          ELSE Refused
    [] OTHER -> ExecuteChat(ws, c)

\* Agents without a card are archived last, none of them on the canvas.
WithArchived(ws, closed) ==
  IF ws # Refused /\ closed \subseteq DOMAIN ws.agents \ AgentsOn(ws.canvas) THEN [ws EXCEPT !.closed = closed] ELSE Refused

\* The commands one after the other, as FoldLeft, without its sets of positions.
RunAll(w, commands) ==
  LET after[i \in 0..Len(commands)] == IF i = 0 THEN w ELSE ExecuteSnapshot(after[i - 1], commands[i]) IN after[Len(commands)]

\* decode_workspace: the workspace a snapshot gives, or Refused.
Restored(s) == WithArchived(RunAll(Fresh0, RestoreCommands(s)), s.closed)
=============================================================================
