# OpenPodium: TLA+ models and proofs

OpenPodium is a desktop workspace for coding agents. One application process
owns a journalled *workspace* (agents, tasks, handoffs, routines, chat, canvas),
runs agents in terminals, receives messages from them over an authenticated
local IPC service, writes prompts to their terminals, runs multi-step routines
and fires them from triggers, drives browsers and devices for agents through
portals, keeps worktree floors in Git, and can be steered from a paired device.

This directory models the parts in which order, failure and restart matter.
Section 1 is the inventory, section 2 the modules, section 3 the model-checked
instances, section 4 where the code departs from what is said of it, section 5
the proofs, sections 6 and 7 what is left. Paths are relative to the
repository: `src/app.rs` is the application shell.

## 1. Inventory

### 1.1 Components

| Component | State | Operations | Correct when | Modelled |
|---|---|---|---|---|
| Handoff orchestration (`src/orchestration/`, `src/domain/orchestration.rs`, `lifecycle.rs`) | handoffs with attempts, progress, response, termination; tasks; mailboxes in memory | accept the four message types, prepare / finish a delivery, expire, recover, cancel / resume / retry, dispatch routine work | nothing accepted is lost, order per recipient, one end per conversation, tasks follow handoffs | yes |
| Routine scheduler (`src/routines/engine.rs`) | runs, steps, attempts, approvals, reservations | start, observe, dispatch, settle, approve, resolve, cancel, recover | reservations are exclusive, steps follow dependencies, gates and budgets, runs end | yes |
| Routine definitions and runs (`src/domain/routines.rs`) | versions, triggers, run records | validate, record, restore | an accepted version can run and be restored | partly |
| Routine triggers (`src/routines/triggers.rs`) | watcher in memory; schedule, last firings, runs in the journal | poll files, refs and schedule; count what was missed; start runs | an occurrence counts once, no change is lost, schedules go on | partly |
| Agent IPC service (`src/ipc/`) | directory, message store, leases, worker threads | authenticate, route, store, lease, acknowledge | an acknowledged message is stored once and processed | yes |
| Workspace aggregate (`src/domain/workspace.rs`, `events.rs`, `entities.rs`) | the event-sourced domain model | validate and apply commands | references stay valid | partly, with the component that issues the commands |
| Persistence journal (`src/persistence/storage.rs`, `src/workspaces.rs`) | events, snapshots, registry, open workspaces | commit, recover, open, close, switch | a start recovers what was committed | partly |
| Persistence codec (`src/persistence/codec.rs`) | snapshots as commands | write, read back | what was written can be read | partly |
| Templates and archives (`src/persistence/portable.rs`) | documents, previews | export, preview, import | an import is a copy and lands where it was previewed | yes |
| Remote sessions (`src/remote/`) | checkpoints, outbox, command ledger, grants | send, receive, commit, reconnect, handle, grant, revoke | reliable streams, commands run once | partly |
| Portals (`src/portal/`, `src/ipc/portal/`, `src/app/portals.rs`) | sessions, grants, approvals, action journal, observations | request, approve, execute, observe, recover | no action without consent or twice; references mean what was seen | partly |
| Runtime and terminals (`src/runtime/`, `src/terminal/`) | child process, threads, buffers, stored screens | start, write, stop, read, reap | a stop reaches its own process, the end comes last | partly |
| Floors and worktrees (`src/workspaces/floors.rs`, `src/app/floors/`), Git (`src/git/`) | recorded floors, checkouts, worker jobs, collision report | create, remove, refresh, integrate, scan | work is never deleted, reports are about their directory | partly |
| Canvas editor (`src/canvas/`) | layouts, selection, clipboard, history | edit, undo, redo, paste | agents and terminals follow their cards, undo keeps one line | partly |
| Chat (`src/chat.rs`, `src/domain/chat.rs`) | threads, drafts, attachments | edit, attach, submit, recover | no draft, file or prompt is lost | yes |
| Plugins (`src/plugins/`) | catalog, consent, one exchange | discover, grant, call | a plugin holds what was consented to, calls end | partly |
| User interface (`src/app/`) | note editor and its scans | load, type, save, refresh | no text is lost unseen | partly |
| Application shell (`src/app.rs`) | everything open | ticks, handlers, start-up | see the components | partly |
| Canvas rendering; environments and security; navigation and search; timeline and supervisor | views, values, projections | - | - | no: presentation or pure data |

### 1.2 How they interact

* **Threads.** `src/app.rs` owns the domain state on one thread. Its update
  loop alternates between user events and ticks; a tick accepts the IPC inbox,
  expires deadlines, delivers at most one prompt, polls the triggers and
  advances the scheduler. Handlers do not interleave with each other. The IPC
  server, the reader and waiter of each terminal, the Git workers, the portal
  tasks and the note and collision scans run on threads of their own and hand
  back results that may be late.
* **Two stores.** A message is durable in the IPC store before it is
  processed; its effect is durable in the workspace journal; then it is
  acknowledged. The three are separate transactions.
* **Routines.** A trigger starts a run in a transaction of its own. A
  dispatched step is journalled together with its handoff, registered with the
  IPC store and queued in a mailbox; the scheduler then reads what the
  orchestrator recorded.
* **Terminal.** Writing a prompt is not transactional: an attempt is recorded as
  started before and as finished after the write.
* **Canvas.** Removing the last card of an agent archives it, which stops its
  terminal, revokes its grants and takes it out of the IPC directory; undo
  brings it back.
* **Remote, plugins, portals.** The other end may repeat, delay, reorder or
  never answer; what was asked of it is journalled before and settled after.

### 1.3 What is hard to test

Most handlers make several transactions, and a storage error or a crash may
separate any two. Responses, cancellations and deadlines race. Recovery rebuilds
memory from records that include open attempts. Workers act on copies taken
before the user went on editing. A PID, a card id, a path or an observation may
mean something else by the time it is used. `PROJECT.json` lists each such
hazard at its line with the properties about it; the two without one are explained
there and in section 4.

## 2. Modules

| Module | Models | Instance |
|---|---|---|
| `Orchestration` | the orchestrator, handoff and task rules, the inbox as it uses it, the delivery loop | `MCHandoffs`, `MCMessages` |
| `HandoffSnapshot` | what a stored handoff is restored to | `MCHandoffs` |
| `RoutineScheduler`, `ReservationTable` (abstract) | the scheduler and the run state machine; exclusive claims taken and released as a whole | `MCRoutineScheduler`, `MCRoutineTriggers` |
| `RoutineChain` | constants of both: a chain with a gate and a second run that needs its checkout | - |
| `RoutineVersion`, `RoutineRecord` | validation of a version; a routine, its versions and one run, and their restoring | `MCPersistence` |
| `RoutineTriggers` | the watcher, the schedule and the starts of runs | `MCRoutineTriggers` |
| `IpcService` | connections, workers, directory, store, leases and the tick that drains them | `MCMessages` |
| `RemoteSession`, `ReliableStream` (abstract) | both ends of a session, the relay, registry and ledger; a stream committed in order | `MCPeers`, `MCMessages` |
| `Plugins` | catalog, consent and one session | `MCPeers` |
| `Portals` | one portal node from the interface to the action journal | `MCPortals` |
| `PortalView` | what an agent sees and what its references resolve to | `MCPortals` |
| `WorkspaceJournal`, `WorkspaceStore` (abstract) | transactions, snapshots, recovery, the manager; states that change by commits only | `MCPersistence` |
| `WorkspaceAggregate`, `ChatDomain`, `SnapshotCodec` | commands of the aggregate and of chat; a snapshot as the commands that rebuild it | `MCPersistence` |
| `Chat` | the chat handlers over the journal | `MCPersistence` |
| `Portable` | templates and archives | `MCPersistence` |
| `ProcessRuntime` | one terminal process with its threads and locks | `MCWorkbench` |
| `Floors` | worktree floors, their workers one Git command at a time, the user's own Git | `MCWorkbench` |
| `CollisionWatch` | the collision report and its scans | `MCWorkbench` |
| `CanvasEditor`, `CanvasTimeline` (abstract), `AgentWindows` | the edits; a line of layouts with a cursor; cards, agents, terminals and stored screens | `MCCanvas` |
| `NoteEditor` | note buffers, saves and background scans | `MCCanvas` |
| `*Proofs` | the theorems; `PeersProofs`, `PortalsProofs`, `WorkbenchProofs` and `CanvasProofs` are about every component of the composed run of that name | - |

How the state corresponds to the code:

* **Orchestration.** `db` is the journalled workspace. A handler is an operator
  that gives the sequence of databases it commits; `Commit` runs all of it or,
  with a fault, a proper prefix, and `Stop` says what is left in memory (nothing
  after a crash, everything after a storage error). `inbox` holds unprocessed
  messages, `boxes` the mailboxes, `inflight` the delivery between
  `prepare_next` and `finish_delivery`. Time is relative: messages age with
  `Tick` until `Window`. `pasted` is history: how often a root prompt reached a
  terminal.
* **RoutineScheduler.** `run`, `step`, `tries`, `approved` are the journal; each
  advance of a run is one transaction and one action. `phase` is where the
  application thread is. `conv` is what the orchestrator recorded about the last
  handoff of a step; `working`, `stray`, `straying` are history. Skips are the
  least closed set of waiting steps where the code iterates to a fixed point.
* **RoutineTriggers.** `watcher` is the in-memory `TriggerWatcher`; a hash is the
  tree it was made from. `Tick(faults)` is the whole of `run_routine_tick` up to
  the scheduler, `faults` the transactions of it that the storage refuses.
  `counted` and `joined` are history.
* **IpcService.** A request reads the directory three times under its own lock,
  and holds the lock of the store from lookup to insertion; each is an action of
  a worker. `rows` survives a restart, leases and tokens do not.
* **RemoteSession.** `ckpt` is the durable checkpoint of an end, `staged` the
  exposed delivery, `job` the delivery the application works on. The loop around
  the library is external; it follows `src/remote/coordinator.rs` and the comment
  on `commit_received`. `net` is the set of packets the relay holds; receiving
  removes none, so duplication and reordering are included.
* **Portals.** Blocking tasks are `jobs`, their results come in any order. A
  dispatched action is several steps under the dispatcher's mutex. Ages replace
  clock readings.
* **WorkspaceJournal, Chat, RoutineRecord, Portable.** A snapshot is read back by
  issuing the commands that would build the workspace, each with its checks, as
  `codec.rs` does. Recovery takes the newest snapshot that decodes.
* **ProcessRuntime.** Reader, waiter, worker and user interface are threads with
  one action per lock, system call or channel operation; a PID belongs to the
  child until `waitpid`.
* **Floors.** The worker has a copy of the workspace taken at submission. Each Git
  command that decides or changes something is an action (`CheckOwned`,
  `ReadRevision`, `CheckClean`, `CheckMerged`, `RemoveWorktree`; `AddWorktree`,
  `Claim`; `VerifyPreview`, `Merge`), and between any two of them the user may change
  worktrees, branches and files: no lock is held on a checkout. A checkout is the
  floor's own if it holds the ownership token that creating it wrote.
* **AgentWindows, NoteEditor.** Workers answer to the card or buffer they were
  started for, which may have changed or gone. `waits` are awaited events, `live` the
  processes a session has: a session that failed because a reply could not be written
  keeps its process, which is read on, until it ends or the terminal is started again.

## 3. Runs

A composed run explores several instances in one state graph: a variable chosen
initially (`world` or `part`) says which of them a behaviour is about, the others
stand still in one state. `workbench` and `floors` are two cfgs of one such module.

| Run | Instance | Question |
|---|---|---|
| `orchestration` | a task with a deadline, two crashes or storage errors, Cancel, Resume, Retry; and routine work with a question for the same agent, lost acknowledgements, a closed window | Do conversations end once, do task states follow handoffs, are mailboxes ordered, deliverable and independent, is routine work written once, can every handoff be read back? |
| `routine_safety` | a chain with a gate, a second run for the same checkout, moves, archives, a task cancelled or sent again in the timeline, two faults | Are reservations exclusive and cover the work, are dispatches justified, is `ReservationTable` implemented? |
| `routine_triggers` | three triggers, two trees and an oversized one, one ref, two occurrences, a restart, any refused transaction; the chain with a gate and a retry and the second run for its checkout, with a crash or with ended tasks sent again | Does an occurrence count once, does each get its turn, do runs finish? |
| `messages` | two agents, a routine, two workers, three calls, capacity two, two replacements of the directory, a restart; a task with progress, a deadline and a crash; routine work for an agent whose window closes | Is what is acknowledged stored once, is the inbox a reliable stream, is every message processed, is nothing lost, does every prompt settle, does every deadline end its wait? |
| `peers` | two commands up and one event down with one fault, grants, revocation; a plugin with two folders | Are both directions reliable streams, do commands run once, do plugins hold what was consented to, do calls end? |
| `portals` | one agent with three requests over two identifiers, one portal, two outside events, a restart; a screen of up to three records | Is an action executed once and with consent, are approvals, grants and queued inputs kept, do references reach what was seen? |
| `persistence` | two workspaces and directories with a crash, a failed transaction, unreadable snapshots; two conversations; a routine with one run; a template and an archive | Does a start recover, does every record restore, is `WorkspaceStore` implemented, do runs end, is an import a copy? |
| `workbench` | a process with five outputs and a buffer of two; two directories with a failing Git call | Does a stop reach its own process, does the end come last, is a report about its directory, does everything end? |
| `floors` | two floors on a path, two branches, two changes of the user in Git, a switch or restart | Is no work deleted, are cards kept, is what was shown merged, does every operation end? |
| `canvas` | two floors, two agents, two cards; two notes over three places | Do agents, terminals and screens follow their cards, is `CanvasTimeline` implemented, is no text lost? |
| `chat_reopens` | as `persistence` | a counterexample, see section 4 |
| `worktree_replaced` | as `floors` | a counterexample, see section 4 |

**Bounds.** Two agents are enough for two mailboxes that may block each other;
every rule about a handoff relates a sender and a recipient. Two messages for one
recipient give an order to break. One fault anywhere separates any two
transactions; `orchestration` and `routine_safety` have two, since a second fault
during recovery is a case of its own. In `orchestration` the user cancels the task, in
`messages` the client does: both end in the same transaction. `MaxShift`, `Window` and `Timeout` are small
counts in ticks: what matters is which of backoff, window and deadline passes
first. Three steps in two runs give a dependency, a shared claim and a run that
waits for another. Two workers over two identifiers give a lookup that meets an
insertion; capacity and queue are reached. Two commands are a gap, a reordering
and, with the same identifier, a resent command. Two requests under one
identifier are a retry and a conflict. A buffer of two against five outputs fills.
Two layouts beside the present one make undo, redo and a forgotten branch. A trigger
needs two trees to change and come back. One path is enough for one floor to
meet another's remains; that no two *paths* share a token is left to the theorem.
Every bound is a CONSTANT commented as one in its module.

Deadlock checking is off in every run: the system may rest when users, agents
and clients do nothing and the bounds are used up. What must not rest is the
subject of the liveness properties.

### 3.1 Fairness

* `Orchestration`, `RoutineScheduler`, `IpcService`: weak fairness of the ticks and
  of the restart after a crash (`src/app.rs` subscribes to a timer for as long as it
  lives) and of the IPC workers. Clients, users and faults owe nothing; faults
  are bounded, as a crash at every write can prevent progress for ever. Agents
  answering and users deciding are assumed with strong fairness in
  `RoutineScheduler` only: `RunsFinish` shows that nothing else is needed for a
  dependency, a gate, a contended checkout, a retry, a cancelled run, and a crash or
  repeated tasks. It leaves out storage errors and cancelling a task in the timeline,
  with which it does not hold (`CancellingNeverWaits`, section 4).
* `RoutineTriggers`: time passes and runs end (weak); a tick that is due again and
  again is not met by a storage fault every time (strong fairness of a tick
  without faults).
* `RemoteSession`: both ends reconnect while packets are outstanding and commit
  what they are given (weak); the relay does not withhold for ever a packet that
  is sent again and again (strong). `Plugins`: the answer or the timeout of a call
  comes, as the session waits with a deadline.
* `ProcessRuntime`, `Floors`, `CollisionWatch`: the threads run and the main thread
  handles what they send (weak). The child and the user owe nothing.
* `RoutineRecord`: a run that can settle or advance does, as the scheduler's tick
  takes every active run.

### 3.2 The properties

* `TasksSound`: response and termination exclude one another, only a delivered
  prompt is answered, one attempt is open at a time (`ConversationSound`); a
  finished or blocked task is explained by the record of its handoffs
  (`TaskJustified`); a deadline never meets a task that may not fail
  (`ExpiryApplies`). `MailboxesServe`: order, deliverable fronts, independent
  recipients. `RoutinePromptOnce`: a crash during a write does not repeat routine
  work. `RecordsRestore`: every handoff survives its own record. `NothingLost`:
  whatever still has to reach an agent is in a mailbox or in a message that will
  be processed again. `PromptSettles`, `DeadlineEnds`: liveness.
* `ReservationsExclusive`, `DispatchJustified` (dependencies, gate, budget),
  `WorkReserved` (an agent works on a current prompt only under its
  reservations), `TableSpec`, `RunsFinish`.
* `TriggersSound`: an occurrence starts one run at most, one of the schedule is
  run or counted once, none from before the session is replayed, and a change
  that was ticked off was answered. `DueTriggersRun`: settled files get their
  run; a schedule never stops.
* `InboxSound`: an acknowledged message is stored once and as sent, replies stay
  between the ends of their handoff, the table keeps its capacity.
  `InboxReliable`: the inbox implements `ReliableStream`. `EventuallyProcessed`.
* `SessionSound`: commands run once, nonces are fresh, outboxes are complete.
  `StreamsReliable`, `PeersServe`; `PluginsSafe`: a plugin holds what was
  consented to for its code, and each call gets its own answer.
* `ExecutedAtMostOnce`, `ActsWithConsent`, `PortalsKept`; `ViewsHold`: a
  reference reaches the record it was taken from.
* `StartsRecover`: a start recovers exactly what the application worked on,
  whichever snapshot decodes. `ChatsRecover`: the same of conversations, with
  files and prompts. `RoutinesRestore`: a routine and its run come back as they were,
  whatever versions were accepted, except that a routine one of whose versions claims
  a floor comes back from events only (section 4). `RunEnds`, `StoreImplemented`,
  `DocumentsImport`.
* `KillsOwn`: no signal reaches a process that took over the PID. `EndComesLast`.
* `WorkKept`: a deleted checkout has no active terminal and no uncommitted work the user did
  not discard, and its token is in no other checkout; it is the floor's own, and merged
  or discarded, unless the user worked in Git after the checks began, since Git
  rechecks none of that in the removal. Cards moved while Git runs stay. A merge is of
  the revision that was shown, and no less than the branch has unless the user
  committed after it was verified. `FloorsEnd`: every operation ends.
* `ReportOfDirectory`, `WorkEnds`.
* `WindowsHold` (cards keep their agents, every process a session has is read, also
  after a failed reply, and no window reads another's), `HistoryHolds` (implements
  `CanvasTimeline`), `NotesKept`.

Each property of a passing run has a faulty variant of one definition of the
model (`mutants` in `PROJECT.json`, commented "Faulty variant" in the modules) under
which its run reports it violated.

## 4. Where the code departs from what is said of it

Two runs end in a counterexample. `chat_reopens`: `docs/chat.md:12` promises that
reopening restores the same conversation. A snapshot checks every stored mention
against the present connections (`src/persistence/codec.rs:1245`), so once a
mentioned card is disconnected no later snapshot decodes; and it leaves out drafts
of blanks. When recovery falls back to a snapshot with such a draft, replaying the
next edit of it fails and the workspace does not open.

`worktree_replaced`: `docs/worktrees.md:52-54` says that a replaced checkout, a changed
branch or a lost marker revokes the authority to clean up. `remove` checks all three
(`src/git.rs:214-227`) and then runs `git worktree remove` on the path
(`git.rs:240`), which checks none: what the user does in Git between the two is
removed with it, though only if it is clean or work was to be discarded.

Without a run. The models follow the code in all of these; the names are
definitions of the modules that say what is documented, commented "not kept".

*Orchestration.*
* `DeliveredAnswerable`: prompts of Resume and Retry quote an identifier the IPC
  store does not know (`src/orchestration/prompt.rs:20-22`,
  `src/ipc/server.rs:946-1037`), so the answer they ask for is refused.
* `ExpiryFailsTask`: expiration records the timeout and fails the task in two
  transactions (`engine.rs:850`); after a fault between them nothing fails the task.
* `RequestsKept`: one archived recipient makes `recover` fail, and the application
  starts with empty mailboxes (`src/app.rs:225-230`).
* A storage error after a prompt was written leaves its attempt open;
  `prepare_next` fails on it in every tick and later mailboxes wait for a restart
  (`engine.rs:749`; `docs/orchestration.md:68-69`). The runs leave this fault out.
* Cancel is offered on a blocked task and then refused (`engine.rs:293`); a clock
  that goes backwards makes finishing an attempt fail (`domain/orchestration.rs:572`);
  a failed registration of routine work with the IPC store is not repeated
  before a restart (`src/app.rs:3079`). A redelivered blocking response blocks a
  resumed task again, and a second Resume may paste routine work twice.

*Routines.*
* `CancellingNeverWaits`: a step whose task the user cancelled keeps a run
  cancelling with a pending step (`routines/engine.rs:347-350`); so does a storage
  error in the middle of `cancel_run`. Such a run does not end.
* `AgentsIsolated`: the prompt of an abandoned attempt may be delivered after its
  reservations were released (`engine.rs:371`, `docs/routines.md:81`).
* `DispatchedEnds`: a step of an archived agent is dispatched and its prompt never
  queued (`engine.rs:504-524`).
* An unresolvable binding, an empty or an overlong prompt makes dispatching fail in
  every tick (`engine.rs:685-686`); a step
  that fails while its run is cancelled may stay pending.
* A version that claims a floor makes every later snapshot unreadable: routines are
  restored (`codec.rs:1159`) before floors (`codec.rs:1275`), and validation refuses a
  claim of a floor that is not there (`domain/workspace.rs:1558-1573`). The workspace is
  then rebuilt from events. The routine editor saves default claims only
  (`app.rs:2809`).
* Triggers: switching floors starts the filesystem run though no file changed; a Git
  report consumes the pending revisions of all refs; an occurrence of the schedule
  during an active run is refused, not coalesced; if counting commits and the start
  then fails, the due occurrence is neither run nor counted. `instantiate_template`
  maps no launchers (`workspaces.rs:305-334`, `docs/routines.md:50`) and commits before
  the run starts.

*IPC, portals.*
* `RegisteredDuringRequest`: replacing the directory during a request meets an
  `expect()` (`ipc/server.rs:884`) and ends the worker.
* `RequestsFollowCanvas`: a request is checked against the last attachment handed
  over, not the present canvas (`docs/ipc.md:136-137`). An action whose target
  query fails stays queued (`ipc/portal.rs:792`).
* Portal and revision numbers start again at one after a restart, so old tokens may
  be accepted (`ipc/portal.rs:208`, `portal.rs:628`). A screen that changes between
  reading the source, the lookup and the click lets another element be clicked
  (`appium.rs:128-163`). Scrolling without an element and navigation check no
  revision; a failed close leaves a portal closing.

*Terminals, floors, notes.*
* `StoppedStays`: a terminal stopped while it starts may run (`docs/terminal.md:12-13`).
  `OwnScreen`: a stored screen is shown on the next card with its id
  (`docs/terminal.md:20-25`). `WindowsHold` excepts redo after a template was
  instantiated meanwhile (`imported`), as a card id is then used again.
* A write to a child that does not read blocks the user interface. A session that
  failed while its process lives does not count as active, so its floor may be removed
  (`floors.rs:205`).
* `LaunchesWait`: terminals start during Git operations (`docs/worktrees.md:57-58`). Two
  floors may be recorded for one checkout (`floors.rs:180`).
* Notes: after a floor switch a scan may refresh the buffer from the other checkout;
  edits commit on save and not when focus leaves (`docs/context-nodes.md:92-93`);
  unsaved edits go with the selection; an undo may be overwritten by an editor left open.

*Chat, portable, plugins.*
* Drafts of blanks are not stored; an attachment whose second transaction fails is
  left in the store; a crash between rename and record makes the next attempt
  meet an existing file; a draft with a stale mention cannot be edited.
* `docs/portable.md` speaks of format version 1, `portable.rs:26` of 2; an import
  activates agents that were closed when exported.
* A large write to a plugin is not covered by the timeout (`protocol.rs:497`); disabling
  a plugin stops no session; a retained record of a folder that became invalid
  replaces a newly discovered one (`catalog.rs:277-287`).

## 5. Proofs

TLAPS checks the following for every value of the constants that satisfies the
ASSUMEs of the modules. The assumptions name what the code fixes (identifiers are
positive, windows and capacities are at least one, dependencies stay inside a run,
budgets are positive, "no value" is no value); TLC evaluates them in every run.

| Module | Theorem | Statement |
|---|---|---|
| `OrchestrationProofs` | `OrchestrationInductive` | `Spec => []OInv` |
| | `TasksAreSound` | `Spec => []TasksSound` |
| | `EndingsAreFinal` | `Spec => Finality` |
| | `MailboxesInductive` | `Spec => [](OInv /\ MInv)` while storage works |
| | `NothingIsLost` | `Spec => []NothingLost` while storage works and no window is closed |
| | `FrontsAreDeliverable` | `Spec => [](FrontDeliverable /\ RecipientsIndependent)` while storage works |
| | `MailboxesAreOrdered` | `Spec => []MailboxOrder` while storage works, no window is closed, no task resumed |
| | `RoutineWorkIsPastedOnce` | `Spec => []RoutinePromptOnce` while storage works, no task resumed |
| | `MessagesAreAcceptedOnce` | `Spec => []AcceptedOnce` |
| `RoutineSchedulerProofs` | `TypeCorrect`, `Exclusion`, `Justified`, `NoDoomedStep`, `WorkUnderReservation` | `Spec => []` of `TypeOK`, `ReservationsExclusive`, `DispatchJustified`, `WaitingCanRun`, `WorkReserved` |
| | `FinalityHolds`, `ImplementsTable` | `Spec => Finality`, `Spec => TableSpec` |
| `RoutineTriggersProofs` | `TriggersInductive`, `OccurrencesCountOnce` | `Spec => []TriggersInv`, `Spec => []TriggersSound` |
| `IpcServiceProofs` | `InboxInductive`, `InboxIsSound`, `RowsAreKept` | `Spec => []InboxInv`, `Spec => []InboxSound`, `Spec => [][RowsStay]_vars` |
| `PeersProofs` | `TypeCorrect`, `SessionIsSound` | `Spec => []TypeOK`, `Spec => []SessionSound` |
| | `SessionImplementsStreams`, `RevocationSilences` | `Spec => StreamsReliable`, `Spec => RevokedSilent` |
| | `PluginsAreSafe` | `PeersSpec => []PluginsSafe` |
| `PortalsProofs` | `PortalsInductive` | `Spec => [](Inv /\ SInv)` |
| | `ActsOnce`, `PortalsAreKept`, `ActionsHaveConsent` | `Spec => []ExecutedAtMostOnce`, `Spec => []PortalsKept`, `Spec => ActsWithConsent` |
| | `ViewsAreHeld` | `PortalsSpec => []ViewsHold` |
| `WorkbenchProofs` | `SignalsReachTheChild`, `EndIsLast` | `Spec => []KillsOwn`, `Spec => []EndComesLast` |
| | `FloorsInductive`, `WorkIsKept` | `F!Spec => []FloorsInv`, and `WorkbenchSpec => WorkKept` for finitely many `Paths` |
| | `ReportsAreOfDirectory` | `WorkbenchSpec => []ReportOfDirectory` |
| `CanvasProofs` | `NotesAreKept`, `WindowsAreHeld` | `CanvasSpec => NotesKept`, `CanvasSpec => []WindowsHold` |

The last four modules extend the module that composes a run. A theorem about the
specification of the composition (`PeersSpec`, `PortalsSpec`, `WorkbenchSpec`,
`CanvasSpec`) is about the component named by its property, for every value of the
constants, not only those of the cfg.

**Orchestration.** A handler commits a sequence of databases and may be stopped after
any prefix, so the argument is about databases: `Good(d)` is kept by each single
transaction (`After(d)` is the set of good databases that take back nothing), hence
by every prefix (`Committed`). `Good` strengthens `TasksSound` by what the rules need:
handoffs of one task form a chain in which only the last may be active and every one
after the first is the user's own, whose identifier cannot be answered (`Chained`),
each finished or blocked state has its reason in the last handoff (`Reasoned`), and an
exhausted prompt was never delivered (`RecordSound`). A message has one handoff at most
(`Rooted`, hence `MessagesAreAcceptedOnce`), so there are never more handoffs than messages
and user actions (`HandoffsCounted`). `InflightSound` is what a delivery
relies on between `prepare_next` and `finish_delivery`. `EndingsAreFinal` follows from
the same lemmas, as `After(d)` also says that answers, ends and finished tasks stay.

**Mailboxes.** `Serves(d, b)` says what the mailboxes `b` hold of the database `d`: each
waiting message exists in `d` and can still be delivered (`Fitting`), waits once (`Once`),
and every message of `d` that still has to reach an agent waits (`Kept`), or is routine work
that was attempted (`Tried`). `MInv` is `Serves(db, boxes)` while
the application runs and empty mailboxes while it does not; an open attempt belongs to the
delivery in flight (`OneOpen`), which is the front of its mailbox (`AtFront`). Each handler
keeps it: enqueueing adds one message (`EnqueueFacts`), `remove_pending` and the selection of
recovery keep the rest in order (`KeepFacts`), and a failed write waits at the front where it
was (`RetryFacts`). Recovery has to rebuild `Serves` from the
database alone, which is why it lists candidates in the order of identifiers. To reason about
filters without induction the model selects by the rank of a position (`Keep`) where the code
filters.

The hypotheses are those the code needs. *Storage works* (`"db" \notin FaultKinds`; crashes
and lost acknowledgements remain): a storage error stops a handler between two transactions,
so that until the message is handled again the mailboxes lag behind the database, and an error
after a prompt was written leaves its attempt open in front of its mailbox (`engine.rs:749`).
*No window is closed* (`Archivable = {}`): nothing is enqueued for an archived agent, and one
archived recipient makes recovery drop the mailboxes of all others (section 4). *No task is
resumed*: a resumed handoff is queued behind newer ones. `FrontsAreDeliverable` needs only the
first.

`Pasted` adds the history of writes: nothing but handoffs was written, and routine work that
was written was attempted and waits in no mailbox. A step keeps it because no handler puts
routine work back that was attempted before (`Unrepeated`): what `accept` enqueues is new or
not a routine's, recovery skips it, and a write takes it out of its mailbox or ends in a
crash that empties all. Resume does put it back, and is excluded.

**Routine scheduler.** `Inv` joins `TypeOK`, `ReservationsExclusive`, `FinishedReleases`,
`DispatchJustified`, `WaitingCanRun`, `WorkReserved`, `OneActiveRun` and `RecordsAgree`.
Exclusion needs `FinishedReleases`, since a dispatch looks for conflicts among active
runs only, as `held_reservations` does. `DispatchJustified` needs `WaitingCanRun` for the
budget, which needs `RecordsAgree` when a run starts. `SkipsWaitingOnly` and
`SkipsComplete` say what `PropagateSkips` does; one lemma per action reduces it to one
of four kinds of step.

**Routine triggers.** `TriggersSound` is not inductive: that an occurrence is not counted
twice rests on the schedule. `Ahead` says that from the stored next occurrence on nothing
was counted or run; `Dues` that a poll handles only occurrences from there on and that the
new next lies behind all of them, whichever of the two transactions moves it. `LastRan`
(a last firing is the occurrence of a run) lets `OccurrenceConsumed` be read off the runs
alone after the watcher's memory is gone. `FirstStarts` and `OneStart` establish that a
poll starts exactly the first report that meets no fault; a report ticked off is then
consumed, joined (`JoinedKind`) or started, so `FaultsLoseNothing` holds.

**IPC service.** Between the lookup of a worker and its insertion the store's lock keeps
every other writer out (`OneRouted`), so what the lookup found still holds (`Routed`); rows
are only appended and marked (`Extends`), so what holds of a row stays. `OrderInv` is the
part about the tick: it holds the oldest open row, and what it took is in row order.

**Remote session.** `PacketsGenuine`, `StagedNext` and `JobsGenuine` relate packets, staged
deliveries and jobs to what their sender recorded; `Counted` ties checkpoints to the
history of both streams; `LedgerSound` says that a command unknown to the ledger was not
carried out. Each direction then maps to `ReliableStream`.

**Plugins.** `PluginInv`: what a record of the catalog grants was consented to for its folder
and identity and is declared by its manifest, whatever replaced the folder since
(`Consented`); the numbers a plugin has read are below the next one and each names one
operation (`Numbered`), so a late answer is never taken for that of another call. Numbers of
folders are the positions of the sequence `Folders` (`FoldersAssumption`).

**Portals.** `Inv` is about the journal (a row that can still be dispatched has not run,
approvals are pending once), `SInv` about sessions: each connected portal has a session
or a task that will give or close it, so queued inputs are served.

**Portal view.** `ViewInv`: every observation of a portal gets a revision of its own, and tokens
and chunks are of earlier ones while one is taken (`Revisions`); the token of a page is the node
(`TokenIsNode`), that of a device an element of the rows the backend is bound to (`TokenBound`);
an input let in is for that revision, and until the screen changes it lands where the bound
element is (`InputFits`); chunks are of one frame, that of the recorded observation
(`ChunksOfFrame`). Objects have one text each (`SameTexts`), which is why matching by text
cannot reach another object unnoticed.

**Process runtime.** `LockInv`: between a look at the state and the signal, and between
reaping and the state that says so, a thread holds the lifecycle lock (`Locked`), so that
outside the lock the state tells whether the child was reaped (`Reaped`). `EndInv`: until the
receiver closes every chunk the child wrote is in the PTY, the reader, the queue, the event
or delivered (`Accounted`), and a reader that ended by itself drained the PTY (`Drained`).

**Floors.** `TokensOwn`: a token is written once, into a checkout just made, so one
checkout at most holds it; `JobSound` what the worker's copy still guarantees; a floor to be
removed has no terminal from submission on (`TerminalsSound`). The hypothesis that `Paths`
is finite is that of a file system; a refresh lists the checkouts it finds. The run
`floors` checks `WorkKept` with one path; that tokens are unique among paths is the
theorem's part.

**Collision watch.** `WatchInv` joins the types that matter, `ReportOfDirectory` and
`ScansReport` (a scan reports on the directory it was started for): results arrive in any
order and after the directory changed, and each is matched with the directory it names.

**Notes.** `NotesInv`: the user has seen what the buffer took from the file (`BufferSeen`); when
a plain save was checked the file was as observed, so it is now or was written since
(`SaveChecked`); a scan keeps the text of a buffer that was dirty when it was copied and takes
nothing for read that it does not show (`ScanKeeps`). A missing file is no text
(`NotesAssumption`).

**Agent windows.** `WindowsHold` says what closing and undoing preserve, which needs the whole
history: neighbouring layouts agree on the cards both show (`HistoryAgrees`), so that undo
restores the card that was closed; generations of terminals are given out once
(`WorkersDiffer`), so that a worker answers for its own card only; a live process belongs to a
session that runs or failed, and a running session has one (`SessionsShow`), and agents
are numbered without gaps (`Numbered`). That the next free number is the least follows from well-foundedness of the naturals.

**Only model-checked.** Liveness (`PromptSettles`, `DeadlineEnds`, `RunsFinish`,
`DueTriggersRun`, `EventuallyProcessed`, `PeersServe`, `RunEnds`, `WorkEnds`, `FloorsEnd`) is beyond the
prover. So are properties whose definitions fold or filter sequences, as they need
induction over data: `InboxReliable` (a stream obtained by filtering rows), `StartsRecover`,
`StoreImplemented`, `ChatsRecover`, `RoutinesRestore`, `RecordsRestore` and
`DocumentsImport` (replays). `TypeOK` of `Orchestration` types backoffs, which are
powers of two. The order of mailboxes where a
window closes is part of `MailboxesServe` in its instance only. `RoutinePromptOnce` does
not hold with the user's Resume (section 4). `HistoryHolds` is not proved: that edits map to
`CanvasTimeline` rests on the validity of groups and connections in every layout of the history.

## 6. Not modelled

Canvas rendering, geometry and pointer gestures; environments, redaction and value
validation; navigation and search; timeline, supervisor and notifications: presentation or
pure data. Within the modelled parts: prompt wording; SQL and schema migrations; the
JSON form, size limits and credential scan of documents; the terminal emulator and the
adapters that build command lines; errors of `try_wait`; glob matching and calendar
arithmetic of triggers; device discovery and the wire formats of portals; pairing, several
sessions and the cryptography of remote sessions, a packet that does not validate being one
failing operation; parsing of Git output; manifest syntax of plugins, which nothing in the
application calls yet. Of floors: building a preview is one step, and rebase and
cherry-pick, locked worktrees and the dirtiness of the merge target are left out; a merge
that conflicts leaves the branch as it was. A paste whose carriage return fails counts as
not written. Messages of agents in a chat have no producer outside of tests
(`app.rs:6452`). Of claims a routine's version makes, `RoutineRecord` has those of floors,
and `RoutineScheduler` compares all.

## 7. Plan

1. `HistoryHolds` for every workspace: validity of the groups and connections of each
   layout in the history as an inductive invariant of `CanvasEditor`.
2. Mailboxes under storage errors: what recovery after a restart restores of `Serves` when
   a handler stopped between two transactions.
3. `WorkspaceJournal`: `MemoryMatchesJournal` over an abstract replay function.
4. The scheduler composed with the orchestrator in place of `conv`.
