------------------------- MODULE WorkspaceAggregate -------------------------
(***************************************************************************)
(* The commands of src/src/domain/workspace.rs that an import plan is made *)
(* of, and those that may take away what a document or a draft refers to:  *)
(* what each is refused for and what it leaves.  A workspace is a record   *)
(* of its collections, each a function from ids; 0 is "none" in an         *)
(* optional reference.  The conversation and routine commands are in       *)
(* Orchestration and RoutineScheduler.                                     *)
(***************************************************************************)
EXTENDS CanvasEditor, Sequences, SequencesExt

CONSTANT Refused   \* what a refused command or plan gives

TaskStates == {"queued", "delivered", "running", "blocked", "completed", "failed", "cancelled"}
Retriable == {"failed", "cancelled"}
TaskMoves == {"queued"} \X {"delivered", "failed", "cancelled"}
        \cup {"delivered"} \X {"running", "failed", "cancelled"}
        \cup {"running"} \X {"blocked", "completed", "failed", "cancelled"}
        \cup {"blocked"} \X {"running", "failed", "cancelled"}

Agent(a) == <<"agent", a>>
Task(t) == <<"task", t>>
Handoff(h) == <<"handoff", h>>
NoteCard == <<"note", 0>>

\* What a card of the workspace may stand for; closed agents still can.
Targets(ws) == {NoteCard} \cup {Agent(a) : a \in DOMAIN ws.agents}
          \cup {Task(t) : t \in DOMAIN ws.tasks} \cup {Handoff(h) : h \in DOMAIN ws.handoffs}

\* ConnectionKind::between_content: the pairs that cannot be connected.
Linkable(source, target) == <<source[1], target[1]>> # <<"task", "agent">>

ValidLayout(ws, l) ==
  /\ ValidCanvas(l, Targets(ws))
  /\ \A e \in Range(l.links) : Linkable(l.nodes[e[1]], l.nodes[e[2]])

FloorOf(ws, n) == IF n \in DOMAIN ws.at THEN ws.at[n] ELSE 0
Shown(ws) == {n \in DOMAIN ws.canvas.nodes : FloorOf(ws, n) = ws.active}
Visible(ws) == Part(ws.canvas, Shown(ws))
AgentsOn(l) == {a[2] : a \in {x \in Range(l.nodes) : x[1] = "agent"}}

With(f, i, v) == Over([j \in {i} |-> v], f)
Less(f, i) == [j \in DOMAIN f \ {i} |-> f[j]]

-----------------------------------------------------------------------------
\* Each command as its condition and its effect.
CanAddRole(ws, id) == id \notin DOMAIN ws.roles
WithRole(ws, id, name) == [ws EXCEPT !.roles = With(@, id, name)]

CanRemoveRole(ws, id) == id \in DOMAIN ws.roles /\ \A a \in DOMAIN ws.agents : ws.agents[a].role # id
WithoutRole(ws, id) == [ws EXCEPT !.roles = Less(@, id)]

CanRemovePreset(ws, p) == p \in ws.presets /\ \A a \in DOMAIN ws.agents : ws.agents[a].program # p
WithoutPreset(ws, p) == [ws EXCEPT !.presets = @ \ {p}]

CanAddAgent(ws, id, agent) ==
  /\ id \notin DOMAIN ws.agents
  /\ agent.role \in DOMAIN ws.roles \cup {0} /\ agent.program \in ws.presets \cup {0}
WithAgent(ws, id, agent) == [ws EXCEPT !.agents = With(@, id, agent)]

CanAssignRole(ws, a, role) ==
  /\ a \in DOMAIN ws.agents \ ws.closed /\ ws.agents[a].role # role
  /\ role \in DOMAIN ws.roles \cup {0}
WithAssigned(ws, a, role) == [ws EXCEPT !.agents[a].role = role]

CanAddTask(ws, id, task) ==
  /\ id \notin DOMAIN ws.tasks
  /\ task.assignee \in DOMAIN ws.agents \cup {0}
  /\ task.retry # 0 => task.retry \in DOMAIN ws.tasks /\ ws.tasks[task.retry].state \in Retriable
WithTask(ws, id, task) ==
  [ws EXCEPT !.tasks = With(@, id, [assignee |-> task.assignee, retry |-> task.retry, state |-> "queued"])]

CanMoveTask(ws, id, to) == id \in DOMAIN ws.tasks /\ <<ws.tasks[id].state, to>> \in TaskMoves
WithMoved(ws, id, to) == [ws EXCEPT !.tasks[id].state = to]

\* A handoff of an agent; one a routine submitted has from = 0.
CanAddHandoff(ws, id, h) ==
  /\ id \notin DOMAIN ws.handoffs
  /\ h.from # h.to /\ {h.from, h.to} \subseteq DOMAIN ws.agents
  /\ h.task \in DOMAIN ws.tasks \cup {0}
WithHandoff(ws, id, h) == [ws EXCEPT !.handoffs = With(@, id, h)]

CanReplaceCanvas(ws, before, after) ==
  /\ before = Visible(ws) /\ ValidLayout(ws, after)
  /\ Disjoint(Without(ws.canvas, before), after)
  /\ ValidLayout(ws, Together(Without(ws.canvas, before), after))

\* The agents that lost their last card are closed, those that got one are not.
Closed(ws, before, canvas) == (ws.closed \cup AgentsOn(before)) \ AgentsOn(canvas)
WithCanvas(ws, before, after) ==
  LET canvas == Together(Without(ws.canvas, before), after)
      kept == [n \in DOMAIN ws.at \ DOMAIN before.nodes |-> ws.at[n]]
      placed == IF ws.active = 0 THEN <<>> ELSE [n \in DOMAIN after.nodes |-> ws.active]
  IN [ws EXCEPT !.canvas = canvas, !.at = Over(placed, kept), !.closed = Closed(ws, before, canvas)]

\* AddAgentNode: an agent and its card on the active floor, in one event.
WithAgentNode(ws, id, agent) ==
  LET n == NextId(ws.canvas.nodes) IN
  [ws EXCEPT !.agents = With(@, id, agent), !.canvas.nodes = With(@, n, Agent(id)),
             !.at = IF ws.active = 0 THEN @ ELSE With(@, n, ws.active)]

-----------------------------------------------------------------------------
\* One command of a batch, and the batch: all of it or nothing.
Execute(ws, c) ==
  CASE ws = Refused -> Refused
    [] ws # Refused /\ c.op = "settings" -> [ws EXCEPT !.settings = c.val]
    [] ws # Refused /\ c.op = "role" -> IF CanAddRole(ws, c.id) THEN WithRole(ws, c.id, c.val) ELSE Refused
    [] ws # Refused /\ c.op = "agent" -> IF CanAddAgent(ws, c.id, c.val) THEN WithAgent(ws, c.id, c.val) ELSE Refused
    [] ws # Refused /\ c.op = "task" -> IF CanAddTask(ws, c.id, c.val) THEN WithTask(ws, c.id, c.val) ELSE Refused
    [] ws # Refused /\ c.op = "move" -> IF CanMoveTask(ws, c.id, c.val) THEN WithMoved(ws, c.id, c.val) ELSE Refused
    [] ws # Refused /\ c.op = "handoff" -> IF CanAddHandoff(ws, c.id, c.val) THEN WithHandoff(ws, c.id, c.val) ELSE Refused
    [] ws # Refused /\ c.op = "canvas" -> IF CanReplaceCanvas(ws, c.id, c.val) THEN WithCanvas(ws, c.id, c.val) ELSE Refused
ExecuteBatch(ws, commands) == FoldLeft(Execute, ws, commands)

-----------------------------------------------------------------------------
\* Every reference of the workspace has something behind it: what restoring it
\* from a snapshot and exporting it take for granted.
Closure(ws) ==
  /\ \A a \in DOMAIN ws.agents : /\ ws.agents[a].role \in DOMAIN ws.roles \cup {0}
                                 /\ ws.agents[a].program \in ws.presets \cup {0}
  /\ \A t \in DOMAIN ws.tasks :
       /\ ws.tasks[t].assignee \in DOMAIN ws.agents \cup {0}
       /\ ws.tasks[t].retry # 0 => ws.tasks[t].retry \in DOMAIN ws.tasks /\ ws.tasks[ws.tasks[t].retry].state \in Retriable
  /\ \A h \in DOMAIN ws.handoffs : /\ {ws.handoffs[h].from, ws.handoffs[h].to} \subseteq DOMAIN ws.agents \cup {0}
                                   /\ ws.handoffs[h].task \in DOMAIN ws.tasks \cup {0}
  /\ ValidLayout(ws, ws.canvas)
  /\ DOMAIN ws.at \subseteq DOMAIN ws.canvas.nodes /\ Range(ws.at) \subseteq ws.floors /\ ws.active \in ws.floors \cup {0}
  /\ \A g \in Range(ws.canvas.groups) : Cardinality({FloorOf(ws, n) : n \in g}) = 1
  /\ AgentsOn(ws.canvas) \cap ws.closed = {}
=============================================================================
