------------------------------- MODULE Portals -------------------------------
(***************************************************************************)
(* One portal node of the canvas: its session in the desktop interface     *)
(* (src/src/app/portals.rs), the dispatcher shared with the agents         *)
(* (src/src/ipc/portal.rs), its policy (src/src/portal/policy.rs) and the  *)
(* durable journal of actions (src/src/ipc/portal/journal.rs).             *)
(*                                                                         *)
(* The interface thread starts blocking tasks and takes their results as   *)
(* messages, in any order.  Every call to the dispatcher holds one mutex;  *)
(* a dispatched action is several steps under it, so that the page can     *)
(* move and the application can stop between them.                         *)
(*                                                                         *)
(* Ages replace clock readings: a grant or an approval that is too old is  *)
(* dropped when time passes, which is when evaluate would first ignore it. *)
(* Each request gets its own approval, so an approval is named by the      *)
(* action that asked for it.  The portal is a browser, which offers every   *)
(* operation and asks for each; the journal's own writes do not fail.       *)
(***************************************************************************)
EXTENDS Integers, Sequences, FiniteSets

CONSTANTS
  Agents,
  Targets,      \* what a page can show
  Home,         \* the target of the portal's configuration
  Requests,     \* what agents may send: [id, agent, op, dest]
  MaxPortals,   \* bound: portal identifiers of one process
  MaxEvents     \* bound: changes of the canvas, workspace or page, inputs and restarts

Ids == {r.id : r \in Requests}

ASSUME PortalsAssumption ==
  /\ Home \in Targets /\ {MaxPortals, MaxEvents} \subseteq Nat
  /\ \A r \in Requests : r.agent \in Agents /\ r.op \in {"input", "navigate"} /\ r.dest \in Targets

VARIABLES
  shown,    \* the node: "here", "removed" from the canvas, or "away" in another workspace
  wired,    \* agents its connections join it to
  live,     \* the session of the node: phase, portal, busy and the queued inputs
  jobs,     \* blocking tasks and results not yet taken
  portals,  \* the dispatcher's entries, and the page each backend shows
  issued,   \* portal identifiers given out: next_portal_id
  grants,   \* PortalPolicy.grants
  asks,     \* PortalPolicy.pending, by action
  pending,  \* pending_actions: action and policy request
  journal,  \* portal_actions
  held,     \* the dispatch that holds the mutex, or none
  ran,      \* executions of each action on a backend
  happened  \* outside events so far

interface == <<shown, wired, live>>
policy == <<grants, asks, pending>>
vars == <<interface, jobs, portals, issued, policy, journal, held, ran, happened>>

None == [state |-> "none"]
NoSession == [phase |-> "none", portal |-> 0, busy |-> FALSE, queue |-> 0]
Pids == 1..MaxPortals

\* The agents connected to the node on the canvas.
Attached == IF shown = "removed" THEN {} ELSE wired

Init ==
  /\ shown = "here" /\ wired \in SUBSET Agents /\ live = NoSession /\ jobs = {}
  /\ portals = [p \in Pids |-> None] /\ issued = 0
  /\ grants = {} /\ asks = {} /\ pending = {}
  /\ journal = [i \in Ids |-> None] /\ held = None
  /\ ran = [i \in Ids |-> 0]
  /\ happened = 0

Free == held = None
\* An event from outside, of which an instance has a bounded number.
Event == happened < MaxEvents /\ happened' = happened + 1

-----------------------------------------------------------------------------
(* The dispatcher *)

\* authorize_entry: the agent may use the portal.
Authorized(a, p) == portals[p] # None /\ a \in portals[p].agents /\ portals[p].state = "connected"

\* The policy request of an action on a page: action_target and operation_for.
PolicyRequest(r, p, target) ==
  [agent |-> r.agent, portal |-> p, op |-> r.op, target |-> IF r.op = "navigate" THEN r.dest ELSE target]

GrantsOf(p) == {g \in grants : g.request.portal = p}
\* The grants left once the page of a portal was read: refresh_runtime_target.
GrantsAfterRefresh(p) == IF portals[p].page # portals[p].target THEN grants \ GrantsOf(p) ELSE grants
Refreshed(p) == [portals EXCEPT ![p].target = portals[p].page]

\* Pending actions that end without an approval: fail_pending_action.
EndPending(S) ==
  /\ pending' = pending \ S
  /\ journal' = [i \in Ids |-> IF \E x \in S : x.id = i THEN [journal[i] EXCEPT !.state = "failed"] ELSE journal[i]]

PendingOf(p, A) == {x \in pending : x.request.portal = p /\ x.request.agent \in A}
AsksLeft(S) == asks \ {x.id : x \in S}
\* The pending actions that end when agents are detached.
EndedByDetach(p, A) == PendingOf(p, A)

\* replace_agents.
ReplaceAgents(p, A) ==
  IF portals[p] = None THEN UNCHANGED <<portals, policy, journal>>
  ELSE LET removed == portals[p].agents \ A IN
    /\ portals' = [portals EXCEPT ![p].agents = A]
    /\ grants' = {g \in grants : ~(g.request.portal = p /\ g.request.agent \in removed)}
    /\ asks' = AsksLeft(PendingOf(p, removed))
    /\ EndPending(EndedByDetach(p, removed))

\* unregister, which closes the session first; a session that cannot be closed stays.
Unregister(p, ok) ==
  IF portals[p] = None THEN UNCHANGED <<portals, policy, journal>>
  ELSE IF portals[p].state # "disconnected" /\ ~ok
  THEN portals' = [portals EXCEPT ![p].state = "closing"] /\ UNCHANGED <<policy, journal>>
  ELSE /\ portals' = [portals EXCEPT ![p] = None]
       /\ grants' = grants \ GrantsOf(p) /\ asks' = AsksLeft(PendingOf(p, Agents))
       /\ EndPending(PendingOf(p, Agents))

\* The action is not in the journal; a duplicate or a conflict changes nothing.
NewAction(r) == journal[r.id] = None

\* A dispatch: what it may execute, and what the user approved for it.
Dispatch(i, q, approved) == held' = [state |-> "queued", id |-> i, request |-> q, approved |-> approved, ok |-> FALSE]

\* request_action of an agent that is allowed to use the portal.
RequestAction(r, p) ==
  /\ Free /\ Authorized(r.agent, p) /\ NewAction(r)
  /\ LET q == PolicyRequest(r, p, portals[p].page)
         left == GrantsAfterRefresh(p)
         row(state) == [journal EXCEPT ![r.id] = [state |-> state, portal |-> p, request |-> r]]
     IN /\ portals' = Refreshed(p) /\ grants' = left
        /\ IF \E g \in left : g.request = q
           THEN /\ journal' = row("queued") /\ Dispatch(r.id, q, {})
                /\ UNCHANGED <<asks, pending>>
           ELSE /\ journal' = row("awaiting")
                /\ asks' = asks \cup {r.id} /\ pending' = pending \cup {[id |-> r.id, request |-> q]}
                /\ UNCHANGED held
  /\ UNCHANGED <<interface, jobs, issued, ran, happened>>

\* Faulty variant: the binding is not checked again.
StillFirst(q, p) == TRUE
\* The request is still the one that was allowed.
StillBound(q, p) == PolicyRequest(journal[held.id].request, p, portals[p].page) = q

\* dispatch_action checks the target again; without an answer of the backend
\* the row stays queued.
CheckDispatch ==
  /\ held.state = "queued"
  /\ LET q == held.request
         p == q.portal
     IN \/ held' = None /\ UNCHANGED <<portals, grants, journal>>
        \/ /\ portals' = Refreshed(p) /\ grants' = GrantsAfterRefresh(p)
           /\ IF StillBound(q, p)
              THEN /\ held' = [held EXCEPT !.state = "dispatched"]
                   /\ journal' = [journal EXCEPT ![held.id].state = "dispatched"]
              ELSE /\ held' = None
                   /\ journal' = [journal EXCEPT ![held.id].state = "failed"]
  /\ UNCHANGED <<interface, jobs, issued, asks, pending, ran, happened>>

\* The backend executes the action, or fails to.
ExecuteDispatch ==
  /\ held.state = "dispatched"
  /\ \E ok \in BOOLEAN :
       LET r == journal[held.id].request IN
       /\ held' = [held EXCEPT !.state = "executed", !.ok = ok]
       /\ portals' = IF ok /\ r.op = "navigate" THEN [portals EXCEPT ![held.request.portal].page = r.dest] ELSE portals
  /\ ran' = [ran EXCEPT ![held.id] = @ + 1]
  /\ UNCHANGED <<interface, jobs, issued, policy, journal, happened>>

FinishDispatch ==
  /\ held.state = "executed"
  /\ journal' = [journal EXCEPT ![held.id].state = IF held.ok THEN "completed" ELSE "failed"]
  /\ held' = None
  /\ UNCHANGED <<interface, jobs, portals, issued, policy, ran, happened>>

\* approve_action, once the user's answer reached the dispatcher.  It changes
\* nothing when the action is no longer pending, the agent may not use the
\* portal or the backend does not tell its target.
Approve(job) ==
  \/ UNCHANGED <<portals, policy, journal, held>>
  \/ \E x \in pending :
       LET q == x.request
           p == q.portal
       IN /\ x.id = job.id /\ Authorized(q.agent, p)
          /\ portals' = Refreshed(p) /\ asks' = asks \ {x.id}
          /\ IF PolicyRequest(journal[x.id].request, p, portals[p].page) = q /\ x.id \in asks
             THEN /\ grants' = GrantsAfterRefresh(p) \cup {[request |-> q, once |-> job.once]}
                  /\ pending' = pending \ {x}
                  /\ journal' = [journal EXCEPT ![x.id].state = "queued"]
                  /\ Dispatch(x.id, q, {q})
             ELSE /\ grants' = GrantsAfterRefresh(p)
                  /\ EndPending({x})
                  /\ UNCHANGED held

\* reject_action.
Reject(job) ==
  /\ asks' = asks \ {x.id : x \in {y \in pending : y.id = job.id}}
  /\ EndPending({x \in pending : x.id = job.id})
  /\ UNCHANGED <<portals, grants, held>>

-----------------------------------------------------------------------------
(* Blocking tasks *)

\* A task after its next call of the dispatcher.
Job(job, next) == jobs' = (jobs \ {job}) \cup {next}
Done(job, ok) == Job(job, [job EXCEPT !.pc = "done", !.ok = ok])
Start(kind, p, A) == [kind |-> kind, pc |-> "start", portal |-> p, agents |-> A, ok |-> FALSE]

\* connect_backend: register, replace_agents and connect, each with the mutex.
ConnectTask(job) ==
  /\ job.kind = "connect" /\ Free
  /\ \/ /\ job.pc = "start" /\ Done(job, FALSE)
        /\ UNCHANGED <<portals, issued, policy, journal>>
     \/ /\ job.pc = "start" /\ issued < MaxPortals
        /\ issued' = issued + 1
        /\ portals' = [portals EXCEPT ![issued'] = [state |-> "disconnected", agents |-> {}, target |-> Home, page |-> Home]]
        /\ Job(job, [job EXCEPT !.pc = "attach", !.portal = issued'])
        /\ UNCHANGED <<policy, journal>>
     \/ /\ job.pc = "attach"
        /\ ReplaceAgents(job.portal, job.agents)
        /\ Job(job, [job EXCEPT !.pc = "connect"])
        /\ UNCHANGED issued
     \/ /\ job.pc = "connect"
        /\ portals' = [portals EXCEPT ![job.portal].state = "connected", ![job.portal].page = Home]
        /\ Done(job, TRUE)
        /\ UNCHANGED <<issued, policy, journal>>
     \/ /\ job.pc = "connect" /\ Job(job, [job EXCEPT !.pc = "drop"])
        /\ UNCHANGED <<portals, issued, policy, journal>>
     \/ /\ job.pc = "drop"
        /\ Unregister(job.portal, TRUE) /\ Done(job, FALSE)
        /\ UNCHANGED issued
  /\ UNCHANGED <<interface, held, ran, happened>>

\* capture: the agents read when the task was started are attached, then a
\* frame is taken.
CaptureTask(job) ==
  /\ job.kind = "capture" /\ Free
  /\ \/ /\ job.pc = "start"
        /\ ReplaceAgents(job.portal, job.agents)
        /\ IF portals[job.portal] = None THEN Done(job, FALSE) ELSE Job(job, [job EXCEPT !.pc = "frame"])
     \/ /\ job.pc = "frame"
        /\ \E ok \in BOOLEAN :
             /\ ok => portals[job.portal] # None /\ portals[job.portal].state = "connected"
             /\ Done(job, ok)
        /\ UNCHANGED <<portals, policy, journal>>
  /\ UNCHANGED <<interface, issued, held, ran, happened>>

\* execute_local.
InputTask(job) ==
  /\ job.kind = "input" /\ job.pc = "start" /\ Free
  /\ \E ok \in BOOLEAN :
       /\ ok => portals[job.portal] # None /\ portals[job.portal].state = "connected"
       /\ Done(job, ok)
  /\ UNCHANGED <<interface, portals, issued, policy, journal, held, ran, happened>>

CloseTask(job) ==
  /\ job.kind = "close" /\ job.pc = "start" /\ Free
  /\ \E ok \in BOOLEAN : Unregister(job.portal, ok) /\ Done(job, ok)
  /\ UNCHANGED <<interface, issued, held, ran, happened>>

AnswerTask(job) ==
  /\ job.kind = "answer" /\ job.pc = "start" /\ Free
  /\ IF job.approved THEN Approve(job) ELSE Reject(job)
  /\ jobs' = jobs \ {job}
  /\ UNCHANGED <<interface, issued, ran, happened>>

Tasks(job) == ConnectTask(job) \/ CaptureTask(job) \/ InputTask(job) \/ CloseTask(job) \/ AnswerTask(job)

-----------------------------------------------------------------------------
(* The interface: update, tick and sync_connections *)

Unmoved == UNCHANGED <<issued, held, ran>>
Connected == live.phase = "connected"

\* Click on "Connect portal".
Connect ==
  /\ shown = "here" /\ live.phase = "none"
  /\ live' = [NoSession EXCEPT !.phase = "connecting"]
  /\ jobs' = jobs \cup {Start("connect", 0, wired)}
  /\ Unmoved /\ UNCHANGED <<shown, wired, portals, policy, journal, happened>>

Closing == live' = [live EXCEPT !.phase = "disconnecting"]
CloseJob(p) == Start("close", p, {})
\* begin_disconnect: the user's click, or a tick that finds the node gone.
Disconnect ==
  /\ Connected
  /\ Closing /\ jobs' = jobs \cup {CloseJob(live.portal)}
  /\ Unmoved /\ UNCHANGED <<shown, wired, portals, policy, journal, happened>>

\* A tick takes a frame of the portal in view.
TickCapture ==
  /\ Connected /\ ~live.busy /\ shown = "here"
  /\ live' = [live EXCEPT !.busy = TRUE]
  /\ jobs' = jobs \cup {Start("capture", live.portal, Attached)}
  /\ Unmoved /\ UNCHANGED <<shown, wired, portals, policy, journal, happened>>

\* The user answers an approval: once, for five minutes, or no.  The panel may
\* be older than pending_actions; answering what is no longer pending does nothing,
\* so that one answer at a time is enough.
Answer(x) ==
  /\ ~ \E job \in jobs : job.kind = "answer" /\ job.id = x.id
  /\ \E approved, once \in BOOLEAN :
       jobs' = jobs \cup {[kind |-> "answer", pc |-> "start", id |-> x.id, approved |-> approved, once |-> approved /\ once]}
  /\ Unmoved /\ UNCHANGED <<shown, wired, live, portals, policy, journal, happened>>

\* Input on the portal's picture: sent, or queued while the portal is busy.
Input ==
  /\ Connected /\ shown = "here" /\ Event
  /\ IF live.busy
     THEN live' = [live EXCEPT !.queue = @ + 1] /\ UNCHANGED jobs
     ELSE live' = [live EXCEPT !.busy = TRUE] /\ jobs' = jobs \cup {Start("input", live.portal, {})}
  /\ Unmoved /\ UNCHANGED <<shown, wired, portals, policy, journal>>

\* Faulty variant: the result is dropped when the node is out of view.
ConnectedUnseen(job) ==
  /\ job.kind = "connect"
  /\ IF ~job.ok \/ shown # "here" THEN live' = NoSession /\ jobs' = jobs \ {job}
     ELSE live' = [live EXCEPT !.phase = "connected", !.portal = job.portal] /\ jobs' = jobs \ {job}
\* The result of a connection.  A node that is no longer in view is closed again.
ConnectedResult(job) ==
  /\ job.kind = "connect"
  /\ IF ~job.ok THEN live' = NoSession /\ jobs' = jobs \ {job}
     ELSE IF shown # "here" THEN live' = NoSession /\ jobs' = (jobs \ {job}) \cup {CloseJob(job.portal)}
     ELSE live' = [live EXCEPT !.phase = "connected", !.portal = job.portal] /\ jobs' = jobs \ {job}

\* The portal is free: the first queued input is sent.
SendQueued(job) ==
  IF live.queue > 0
  THEN live' = [live EXCEPT !.queue = @ - 1] /\ jobs' = (jobs \ {job}) \cup {Start("input", live.portal, {})}
  ELSE live' = [live EXCEPT !.busy = FALSE] /\ jobs' = jobs \ {job}

\* Results of a session that has ended are dropped.
Current(job) == Connected /\ live.portal = job.portal
FrameCaptured(job) ==
  /\ job.kind = "capture"
  /\ IF ~Current(job) THEN UNCHANGED live /\ jobs' = jobs \ {job}
     ELSE IF shown = "away" \/ ~job.ok THEN Closing /\ jobs' = (jobs \ {job}) \cup {CloseJob(live.portal)}
     ELSE SendQueued(job)
ActionCompleted(job) ==
  /\ job.kind = "input"
  /\ IF ~Current(job) THEN UNCHANGED live /\ jobs' = jobs \ {job}
     ELSE IF ~job.ok THEN live' = [live EXCEPT !.busy = FALSE, !.queue = 0] /\ jobs' = jobs \ {job}
     ELSE SendQueued(job)
Disconnected(job) ==
  /\ job.kind = "close" /\ jobs' = jobs \ {job}
  /\ live' = IF live.phase = "disconnecting" /\ live.portal = job.portal THEN NoSession ELSE live

Result(job) ==
  /\ job.pc = "done"
  /\ ConnectedResult(job) \/ FrameCaptured(job) \/ ActionCompleted(job) \/ Disconnected(job)
  /\ Unmoved /\ UNCHANGED <<shown, wired, portals, policy, journal, happened>>

-----------------------------------------------------------------------------
(* The canvas *)

\* sync_connections attaches what the canvas now shows to a connected portal.
SyncConnections(A) ==
  IF Connected THEN Free /\ ReplaceAgents(live.portal, A) ELSE UNCHANGED <<portals, policy, journal>>

\* A connection between the node and an agent is drawn or removed.
Rewire(a) ==
  /\ shown = "here" /\ Event
  /\ wired' = IF a \in wired THEN wired \ {a} ELSE wired \cup {a}
  /\ SyncConnections(wired')
  /\ Unmoved /\ UNCHANGED <<shown, live, jobs>>
\* The node is removed, or an undo brings it back with its connections.
RemoveOrRestore ==
  /\ shown # "away" /\ Event
  /\ shown' = IF shown = "here" THEN "removed" ELSE "here"
  /\ SyncConnections(IF shown' = "here" THEN wired ELSE {})
  /\ Unmoved /\ UNCHANGED <<wired, live, jobs>>
SwitchWorkspace ==
  /\ shown # "removed" /\ Event
  /\ shown' = IF shown = "here" THEN "away" ELSE "here"
  /\ Unmoved /\ UNCHANGED <<wired, live, jobs, portals, policy, journal>>

-----------------------------------------------------------------------------
(* Time, pages and restarts *)

\* Time passes: grants and approvals expire, each at a time of its own.
TimePasses ==
  /\ Free
  /\ \E expired \in SUBSET grants, late \in SUBSET asks : grants' = grants \ expired /\ asks' = asks \ late
  /\ UNCHANGED <<interface, jobs, portals, issued, pending, journal, held, ran, happened>>

\* A page moves on its own.
PageMoves(p) ==
  /\ portals[p] # None /\ portals[p].state = "connected" /\ Event
  /\ \E t \in Targets \ {portals[p].page} : portals' = [portals EXCEPT ![p].page = t]
  /\ UNCHANGED <<interface, jobs, issued, policy, journal, held, ran>>

\* Faulty variant: an interrupted action is sent again.
Replayed(row) == IF row # None /\ row.state = "dispatched" THEN None ELSE row
\* A row after a restart: PortalActionJournal::open.
Recovered(row) ==
  IF row = None THEN None
  ELSE IF row.state \in {"queued", "dispatched"} THEN [row EXCEPT !.state = "unknown"]
  ELSE IF row.state = "awaiting" THEN [row EXCEPT !.state = "failed"]
  ELSE row

Restart ==
  /\ Event
  /\ live' = NoSession /\ jobs' = {} /\ shown' = "here"
  /\ portals' = [p \in Pids |-> None] /\ issued' = 0
  /\ grants' = {} /\ asks' = {} /\ pending' = {} /\ held' = None
  /\ journal' = [i \in Ids |-> Recovered(journal[i])]
  /\ UNCHANGED <<wired, ran>>

Dispatcher == CheckDispatch \/ ExecuteDispatch \/ FinishDispatch
Next ==
  \/ Dispatcher \/ Connect \/ Disconnect \/ TickCapture \/ Input
  \/ RemoveOrRestore \/ SwitchWorkspace \/ TimePasses \/ Restart
  \/ \E r \in Requests, p \in Pids : RequestAction(r, p)
  \/ \E x \in pending : Answer(x)
  \/ \E job \in jobs : Tasks(job) \/ Result(job)
  \/ \E a \in Agents : Rewire(a)
  \/ \E p \in Pids : PageMoves(p)

Spec == Init /\ [][Next]_vars

-----------------------------------------------------------------------------
(* Properties *)

\* A recorded action reaches a backend at most once, whatever is retried,
\* approved twice or interrupted by a restart.
ExecutedAtMostOnce == \A i \in Ids : ran[i] <= 1

State(i) == IF journal[i] = None THEN "none" ELSE journal[i].state
\* An action is marked dispatched only for the agent, portal, operation and
\* target that the user approved or a grant in force covers, on the page as it
\* is at that moment.
ActsWithConsent ==
  [][\A i \in Ids : State(i)' = "dispatched" /\ State(i) # "dispatched" =>
       LET q == PolicyRequest(journal[i].request, held.request.portal, portals[held.request.portal].page)
       IN (\E g \in grants : g.request = q) \/ q \in held.approved]_vars

\* The actions that wait for an approval are those the user is asked about,
\* and each is of an agent still attached to its portal: none waits for an
\* answer that cannot come.
ApprovalsAnswerable ==
  /\ {i \in Ids : State(i) = "awaiting"} = {x.id : x \in pending}
  /\ asks \subseteq {x.id : x \in pending}
  /\ \A x \in pending :
       LET entry == portals[x.request.portal] IN entry # None /\ x.request.agent \in entry.agents

\* A grant belongs to an agent attached to an open portal, and a grant for
\* input to the page that portal was last seen on.
GrantsCurrent ==
  \A g \in grants :
    LET entry == portals[g.request.portal]
    IN /\ entry # None /\ g.request.agent \in entry.agents
       /\ g.request.op = "input" => g.request.target = entry.target

\* A portal the agents can use is one the user sees connected or one that a
\* task is about to close or to present.
NoOrphan ==
  \A p \in Pids : portals[p] # None /\ portals[p].state = "connected" =>
    \/ live.phase \in {"connected", "disconnecting"} /\ live.portal = p
    \/ \E job \in jobs : job.kind \in {"connect", "close"} /\ job.portal = p

\* Input queued behind a busy portal has a task whose result will send it.
QueueServed ==
  live.queue > 0 /\ live.phase = "connected" =>
    live.busy /\ \E job \in jobs : job.kind \in {"capture", "input"} /\ job.portal = live.portal

\* Every question a portal raises can still be answered, every grant names a
\* portal that is there, no portal outlives its node and queued inputs are not
\* forgotten.
PortalsKept == ApprovalsAnswerable /\ GrantsCurrent /\ NoOrphan /\ QueueServed

\* Documented (docs/ipc.md:136-137, "the agent's current canvas attachment on
\* every request"), and not kept: an action is recorded only for an agent that
\* is connected on the canvas.
RequestsFollowCanvas ==
  [][\A i \in Ids : journal[i] = None /\ journal'[i] # None => journal'[i].request.agent \in Attached]_vars
=============================================================================
