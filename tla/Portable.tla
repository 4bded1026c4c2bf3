------------------------------ MODULE Portable ------------------------------
(***************************************************************************)
(* Templates and workspace archives: src/src/persistence/portable.rs, the  *)
(* import entry points of src/src/workspaces.rs and the clipboard handlers *)
(* of src/src/app.rs.  A document leaves the workspace when it is exported *)
(* and comes back through a preview that the user confirms later, or, a    *)
(* routine's template, when the routine starts; in between the workspace   *)
(* goes on changing.  Ids of a document are those of its source; an import *)
(* gives everything a fresh one.                                           *)
(***************************************************************************)
EXTENDS WorkspaceAggregate

CONSTANTS Nothing,     \* no document, no draft
          Start,       \* the workspace before the first step
          Selections,  \* bound: the cards a template is made of
          Joined,      \* bound: the cards that get connected
          MaxSteps,    \* bound: steps of a behaviour other than import
          MaxImports   \* bound: imports of a behaviour

VARIABLES ws,      \* the workspace
          clip,    \* the document on the clipboard
          saved,   \* the template captured in a routine's version
          draft,   \* the import waiting for its confirmation
          steps, imports   \* counted for the bounds
vars == <<ws, clip, saved, draft, steps, imports>>

-----------------------------------------------------------------------------
(* Export. *)
Chain(tasks) ==
  LET chain[t \in DOMAIN tasks] ==
        IF tasks[t].retry \in DOMAIN tasks THEN Append(chain[tasks[t].retry], t) ELSE <<t>>
  IN chain

\* What the cards of a layout reach: handoffs, tasks with what they retry, agents, roles.
Referenced(w, l) ==
  LET named(k) == {x[2] : x \in {y \in Range(l.nodes) : y[1] = k}}
      handoffs == named("handoff")
      tasks == UNION {Range(Chain(w.tasks)[t]) :
                      t \in (named("task") \cup {w.handoffs[h].task : h \in handoffs}) \ {0}}
      agents == (named("agent") \cup {w.tasks[t].assignee : t \in tasks}
                 \cup UNION {{w.handoffs[h].from, w.handoffs[h].to} : h \in handoffs}) \ {0}
  IN [handoffs |-> handoffs, tasks |-> tasks, agents |-> agents,
      roles |-> {w.agents[a].role : a \in agents} \ {0}]

ByAgents(w) == {h \in DOMAIN w.handoffs : w.handoffs[h].from # 0}
WithoutHandoffCards(l, kept) == Part(l, {n \in DOMAIN l.nodes : l.nodes[n][1] = "handoff" => l.nodes[n][2] \in kept})

TaskRecord(w, t) ==
  [assignee |-> w.tasks[t].assignee, retry |-> w.tasks[t].retry,
   source |-> IF w.tasks[t].retry = 0 THEN "none" ELSE w.tasks[w.tasks[t].retry].state]
Body(w, l, refs) ==
  [roles |-> [r \in refs.roles |-> w.roles[r]], agents |-> [a \in refs.agents |-> w.agents[a]],
   tasks |-> [t \in refs.tasks |-> TaskRecord(w, t)],
   handoffs |-> [h \in refs.handoffs |-> w.handoffs[h]], canvas |-> l]

TemplateLayout(w, selection) == WithoutHandoffCards(Fragment(Visible(w), selection), ByAgents(w))
Template(w, selection) ==
  LET l == TemplateLayout(w, selection) IN
  [kind |-> "template", settings |-> "none", body |-> Body(w, l, Referenced(w, l))]
Archive(w) ==
  [kind |-> "archive", settings |-> w.settings,
   body |-> Body(w, WithoutHandoffCards(w.canvas, ByAgents(w)),
                 [roles |-> DOMAIN w.roles, agents |-> DOMAIN w.agents, tasks |-> DOMAIN w.tasks, handoffs |-> ByAgents(w)])]

-----------------------------------------------------------------------------
(* Import. *)
Launchers(body) == {body.agents[a].program : a \in DOMAIN body.agents} \ {0}
LaunchersResolved(w, body, launchers) ==
  Launchers(body) \subseteq DOMAIN launchers /\ {launchers[p] : p \in Launchers(body)} \subseteq w.presets

\* Every reference of a document is to something in it.
SelfContained(b) ==
  /\ \A a \in DOMAIN b.agents : b.agents[a].role \in DOMAIN b.roles \cup {0}
  /\ \A t \in DOMAIN b.tasks : b.tasks[t].assignee \in DOMAIN b.agents \cup {0} /\ b.tasks[t].retry \in DOMAIN b.tasks \cup {0}
  /\ \A h \in DOMAIN b.handoffs : /\ {b.handoffs[h].from, b.handoffs[h].to} \subseteq DOMAIN b.agents
                                  /\ b.handoffs[h].task \in DOMAIN b.tasks \cup {0}
  /\ Range(b.canvas.nodes) \subseteq Targets(b)
  /\ UNION Range(b.canvas.groups) \subseteq DOMAIN b.canvas.nodes
  /\ \A e \in Range(b.canvas.links) : {e[1], e[2]} \subseteq DOMAIN b.canvas.nodes

Ascending(S) == SetToSortSeq(S, <)
\* append_task_order: a task comes after the one it retries.
TaskOrder(tasks) ==
  FoldLeft(LAMBDA order, t : order \o SelectSeq(Chain(tasks)[t], LAMBDA u : u \notin Range(order)), <<>>, Ascending(DOMAIN tasks))

\* The fresh ids of an import, per collection.
\* Faulty variant: the agents that were closed do not count.
OpenIds(w, b) ==
  [roles |-> Fresh(DOMAIN b.roles, w.roles),
   agents |-> Fresh(DOMAIN b.agents, [a \in DOMAIN w.agents \ w.closed |-> w.agents[a]]),
   tasks |-> Fresh(DOMAIN b.tasks, w.tasks), handoffs |-> Fresh(DOMAIN b.handoffs, w.handoffs),
   nodes |-> Fresh(DOMAIN b.canvas.nodes, w.canvas.nodes), groups |-> Fresh(DOMAIN b.canvas.groups, w.canvas.groups),
   links |-> Fresh(DOMAIN b.canvas.links, w.canvas.links)]
FreshIds(w, b) ==
  [roles |-> Fresh(DOMAIN b.roles, w.roles), agents |-> Fresh(DOMAIN b.agents, w.agents),
   tasks |-> Fresh(DOMAIN b.tasks, w.tasks), handoffs |-> Fresh(DOMAIN b.handoffs, w.handoffs),
   nodes |-> Fresh(DOMAIN b.canvas.nodes, w.canvas.nodes), groups |-> Fresh(DOMAIN b.canvas.groups, w.canvas.groups),
   links |-> Fresh(DOMAIN b.canvas.links, w.canvas.links)]

Of(ids, i) == IF i \in DOMAIN ids THEN ids[i] ELSE 0
TargetDomain(ids, x) ==
  CASE x[1] = "agent" -> Agent(ids.agents[x[2]]) [] x[1] = "task" -> Task(ids.tasks[x[2]])
    [] x[1] = "handoff" -> Handoff(ids.handoffs[x[2]]) [] x[1] = "note" -> x
CanvasDomain(ids, l) ==
  [nodes |-> Under(ids.nodes, [n \in DOMAIN l.nodes |-> TargetDomain(ids, l.nodes[n])]),
   groups |-> Under(ids.groups, [g \in DOMAIN l.groups |-> {ids.nodes[n] : n \in l.groups[g]}]),
   links |-> Under(ids.links, [e \in DOMAIN l.links |-> <<ids.nodes[l.links[e][1]], ids.nodes[l.links[e][2]]>>])]

\* The commands of an import, in their order.
Each(S, C(_)) == FlattenSeq([i \in 1..Len(Ascending(S)) |-> C(Ascending(S)[i])])
Command(op, id, val) == <<[op |-> op, id |-> id, val |-> val]>>
SettingsCommand(w, doc) ==
  IF doc.kind = "archive" /\ doc.settings # w.settings THEN Command("settings", 0, doc.settings) ELSE <<>>
AgentCommand(ids, b, launchers, a) ==
  Command("agent", ids.agents[a], [role |-> Of(ids.roles, b.agents[a].role), program |-> Of(launchers, b.agents[a].program)])
SourceStates(b, t) == {b.tasks[u].source : u \in {v \in DOMAIN b.tasks : b.tasks[v].retry = t}}
TaskCommands(ids, b, t) ==
  Command("task", ids.tasks[t], [assignee |-> Of(ids.agents, b.tasks[t].assignee), retry |-> Of(ids.tasks, b.tasks[t].retry)])
  \o (IF SourceStates(b, t) = {} THEN <<>> ELSE Command("move", ids.tasks[t], CHOOSE s \in SourceStates(b, t) : TRUE))
HandoffCommand(ids, b, h) ==
  Command("handoff", ids.handoffs[h], [from |-> ids.agents[b.handoffs[h].from], to |-> ids.agents[b.handoffs[h].to],
                                       task |-> Of(ids.tasks, b.handoffs[h].task)])
BuildCommands(w, doc, launchers) ==
  LET b == doc.body
      ids == FreshIds(w, b)
      order == TaskOrder(b.tasks)
  IN SettingsCommand(w, doc)
     \o Each(DOMAIN b.roles, LAMBDA r : Command("role", ids.roles[r], b.roles[r]))
     \o Each(DOMAIN b.agents, LAMBDA a : AgentCommand(ids, b, launchers, a))
     \o FlattenSeq([i \in 1..Len(order) |-> TaskCommands(ids, b, order[i])])
     \o Each(DOMAIN b.handoffs, LAMBDA h : HandoffCommand(ids, b, h))
     \o Command("canvas", Visible(w), Together(Visible(w), CanvasDomain(ids, b.canvas)))

Import(w, doc, launchers) ==
  IF ~SelfContained(doc.body) \/ (\E t \in DOMAIN doc.body.tasks : Cardinality(SourceStates(doc.body, t)) > 1)
     \/ ~LaunchersResolved(w, doc.body, launchers)
     \/ (NoteCard \in Range(doc.body.canvas.nodes) /\ w.active \notin w.checkouts)
  THEN Refused ELSE ExecuteBatch(w, BuildCommands(w, doc, launchers))

-----------------------------------------------------------------------------
(* What happens to the workspace between an export and an import. *)
Becomes(w) == ws' = w /\ steps < MaxSteps /\ steps' = steps + 1 /\ UNCHANGED <<clip, saved, draft, imports>>

RemoveRole(r) == CanRemoveRole(ws, r) /\ Becomes(WithoutRole(ws, r))
RemovePreset(p) == CanRemovePreset(ws, p) /\ Becomes(WithoutPreset(ws, p))
AssignRole(a, r) == CanAssignRole(ws, a, r) /\ Becomes(WithAssigned(ws, a, r))
AddAgentNode(r, p) ==
  LET agent == [role |-> r, program |-> p] IN
  CanAddAgent(ws, NextId(ws.agents), agent) /\ Becomes(WithAgentNode(ws, NextId(ws.agents), agent))
MoveTask(t, to) == CanMoveTask(ws, t, to) /\ Becomes(WithMoved(ws, t, to))
RetryTask(t) ==
  LET retry == [assignee |-> ws.tasks[t].assignee, retry |-> t] IN
  CanAddTask(ws, NextId(ws.tasks), retry) /\ Becomes(WithTask(ws, NextId(ws.tasks), retry))
SwitchFloor(f) == f \in (ws.floors \cup {0}) \ {ws.active} /\ Becomes([ws EXCEPT !.active = f])
LoseCheckout == ws.active \in ws.checkouts /\ Becomes([ws EXCEPT !.checkouts = @ \ {ws.active}])

\* Edits of the canvas: delete a selection, group, connect.
EditCanvas(after) ==
  after # Visible(ws) /\ CanReplaceCanvas(ws, Visible(ws), after) /\ Becomes(WithCanvas(ws, Visible(ws), after))
DeleteCards(sel) == EditCanvas(Removed(Visible(ws), Expanded(Visible(ws), sel)))
ConnectCards(n, m) ==
  {n, m} \subseteq Shown(ws) /\ CanConnect(Visible(ws), n, m) /\ Linkable(ws.canvas.nodes[n], ws.canvas.nodes[m])
  /\ EditCanvas(Connected(Visible(ws), n, m, ws.canvas))

Edit ==
  \/ \E r \in DOMAIN ws.roles : RemoveRole(r)
  \/ \E p \in ws.presets : RemovePreset(p)
  \/ \E a \in DOMAIN ws.agents, r \in DOMAIN ws.roles \cup {0} : AssignRole(a, r)
  \/ \E r \in DOMAIN ws.roles : AddAgentNode(r, 0)
  \/ \E t \in DOMAIN ws.tasks, to \in {"failed", "delivered"} : MoveTask(t, to)
  \/ \E t \in DOMAIN ws.tasks : RetryTask(t)
  \/ \E f \in {0, 1} : SwitchFloor(f)
  \/ LoseCheckout
  \/ \E n \in Shown(ws) : DeleteCards({n})
  \/ \E n, m \in Joined : ConnectCards(n, m)

-----------------------------------------------------------------------------
(* The clipboard, the preview and the confirmation. *)
Step == steps < MaxSteps /\ steps' = steps + 1 /\ UNCHANGED <<ws, imports>>
Selected(sel) == DOMAIN TemplateLayout(ws, sel).nodes # {}
CopyTemplate(sel) == Selected(sel) /\ clip' = Template(ws, sel) /\ Step /\ UNCHANGED <<saved, draft>>
CopyArchive == clip' = Archive(ws) /\ Step /\ UNCHANGED <<saved, draft>>
SaveRoutine(sel) == saved = Nothing /\ Selected(sel) /\ saved' = Template(ws, sel) /\ Step /\ UNCHANGED <<clip, draft>>

Preview ==
  /\ clip # Nothing /\ imports < MaxImports
  /\ draft' = [doc |-> clip, floor |-> ws.active, launchers |-> <<>>]
  /\ UNCHANGED <<ws, clip, saved, steps, imports>>
MapLauncher(l, p) ==
  /\ draft # Nothing
  /\ l \in Launchers(draft.doc.body) /\ p \in ws.presets
  /\ draft' = [draft EXCEPT !.launchers = With(@, l, p)]
  /\ UNCHANGED <<ws, clip, saved, steps, imports>>

\* The plan of a draft in the workspace as it is now.
Planned(w, d) == IF d.floor # w.active THEN Refused ELSE Import(w, d.doc, d.launchers)

\* A refused import leaves the draft where it is and the workspace alone.
Confirm ==
  /\ draft # Nothing /\ imports < MaxImports
  /\ Planned(ws, draft) # Refused
  /\ ws' = Planned(ws, draft) /\ draft' = Nothing /\ imports' = imports + 1
  /\ UNCHANGED <<clip, saved, steps>>
\* A run that starts builds its arrangement on the floor that is active then.
StartRoutine ==
  /\ saved # Nothing /\ imports < MaxImports
  /\ Import(ws, saved, <<>>) # Refused
  /\ ws' = Import(ws, saved, <<>>) /\ imports' = imports + 1
  /\ UNCHANGED <<clip, saved, draft, steps>>
Cancel == draft # Nothing /\ draft' = Nothing /\ UNCHANGED <<ws, clip, saved, steps, imports>>

Init ==
  /\ ws = Start /\ clip = Nothing /\ saved = Nothing /\ draft = Nothing
  /\ steps = 0 /\ imports = 0
Next ==
  \/ Edit
  \/ \E sel \in Selections : CopyTemplate(sel) \/ SaveRoutine(sel)
  \/ CopyArchive
  \/ Preview
  \/ \E l, p \in Start.presets : MapLauncher(l, p)
  \/ Confirm
  \/ StartRoutine
  \/ Cancel
Spec == Init /\ [][Next]_vars

-----------------------------------------------------------------------------
\* Nothing in the workspace refers to what is no longer there, whatever was
\* removed, closed or imported; a closed agent still holds its role
\* (src/src/domain/workspace.rs, RoleRemoved and CommandPresetRemoved).
WorkspaceClosed == Closure(ws)

\* A document the program wrote is one it accepts, whatever became of the
\* workspace since, once every launcher of it is mapped to a preset and the
\* destination has its checkout (docs/portable.md).
Importable(doc) ==
  \A p \in ws.presets :
    \/ NoteCard \in Range(doc.body.canvas.nodes) /\ ws.active \notin ws.checkouts
    \/ Import(ws, doc, [l \in Launchers(doc.body) |-> p]) # Refused
ExportsImport == \A doc \in {clip, saved} \ {Nothing} : Importable(doc)

\* An import adds a copy of the document and changes nothing else: what was there
\* stays as it was, and the new part is the document up to its ids.
Rank(S, i) == IF i \in S THEN Cardinality({j \in S : j <= i}) ELSE 0
Ranked(f) == [k \in 1..Cardinality(DOMAIN f) |-> f[CHOOSE i \in DOMAIN f : Rank(DOMAIN f, i) = k]]
Canonical(b, launchers) ==
  LET agent(a) == Rank(DOMAIN b.agents, a)
      task(t) == Rank(DOMAIN b.tasks, t)
      node(n) == Rank(DOMAIN b.canvas.nodes, n)
      target(x) == CASE x[1] = "agent" -> Agent(agent(x[2])) [] x[1] = "task" -> Task(task(x[2]))
                     [] x[1] = "handoff" -> Handoff(Rank(DOMAIN b.handoffs, x[2])) [] x[1] = "note" -> x
      agents == [a \in DOMAIN b.agents |-> <<Rank(DOMAIN b.roles, b.agents[a].role), Of(launchers, b.agents[a].program)>>]
      tasks == [t \in DOMAIN b.tasks |-> <<agent(b.tasks[t].assignee), task(b.tasks[t].retry), b.tasks[t].source>>]
      handoffs == [h \in DOMAIN b.handoffs |-> <<agent(b.handoffs[h].from), agent(b.handoffs[h].to), task(b.handoffs[h].task)>>]
      nodes == [n \in DOMAIN b.canvas.nodes |-> target(b.canvas.nodes[n])]
      groups == [g \in DOMAIN b.canvas.groups |-> {node(n) : n \in b.canvas.groups[g]}]
      links == [e \in DOMAIN b.canvas.links |-> <<node(b.canvas.links[e][1]), node(b.canvas.links[e][2])>>]
  IN <<Ranked(b.roles), Ranked(agents), Ranked(tasks), Ranked(handoffs), Ranked(nodes), Ranked(groups), Ranked(links)>>

NewOf(f, old) == [i \in DOMAIN f \ DOMAIN old |-> f[i]]
Added(old, new) ==
  [roles |-> NewOf(new.roles, old.roles), agents |-> NewOf(new.agents, old.agents),
   tasks |-> [t \in DOMAIN NewOf(new.tasks, old.tasks) |-> TaskRecord(new, t)],
   handoffs |-> NewOf(new.handoffs, old.handoffs),
   canvas |-> [k \in DOMAIN new.canvas |-> NewOf(new.canvas[k], old.canvas[k])]]
Kept(f, old) == \A i \in DOMAIN old : i \in DOMAIN f /\ f[i] = old[i]
Unharmed(old, new) ==
  /\ \A k \in {"roles", "agents", "tasks", "handoffs", "at"} : Kept(new[k], old[k])
  /\ \A k \in DOMAIN old.canvas : Kept(new.canvas[k], old.canvas[k])
  /\ new.closed = old.closed /\ new.presets = old.presets /\ new.active = old.active
Imported == IF draft # draft' THEN <<draft.doc.body, draft.launchers>> ELSE <<saved.body, <<>>>>
CopyIsFaithful ==
  [][imports' # imports =>
       /\ Unharmed(ws, ws')
       /\ Canonical(Added(ws, ws'), [p \in ws.presets |-> p]) = Canonical(Imported[1], Imported[2])]_vars

\* A confirmed import lands on the floor its preview was made for, not on one the
\* user turned to meanwhile (src/src/workspaces.rs, validate_destination_floor).
LandsWherePreviewed ==
  [][imports' # imports /\ draft' # draft =>
       \A n \in DOMAIN ws'.canvas.nodes \ DOMAIN ws.canvas.nodes : FloorOf(ws', n) = draft.floor]_vars
=============================================================================
