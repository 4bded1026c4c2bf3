---------------------------- MODULE Orchestration ----------------------------
(***************************************************************************)
(* Typed handoff orchestration (src/src/orchestration/engine.rs with the   *)
(* handoff and task rules of src/src/domain/): authenticated IPC messages  *)
(* become durable handoffs, every recipient has a FIFO mailbox, and each   *)
(* prompt write is recorded as a delivery attempt.                         *)
(*                                                                         *)
(* The application owns the domain state on one thread, so a handler runs  *)
(* without interleaving; what can separate two of its journal transactions *)
(* is a storage error or a crash.  A handler is therefore an action that   *)
(* lists the databases it commits in order, and Commit either runs all of  *)
(* them or stops after a proper prefix with a fault.                       *)
(*                                                                         *)
(* Time is relative: an age counts the clock ticks since a message was     *)
(* accepted and saturates at the delivery window, so runs are unbounded in *)
(* time and finite in state.                                               *)
(***************************************************************************)
EXTENDS Integers, Sequences, FiniteSets

CONSTANTS
  NumAgents,      \* agents of the workspace, ordered as the mailbox keys are
  Sends,          \* message IDs of the handoffs that clients may submit
  From, To,       \* originating agent (or Routine) and recipient of a send
  IsTask,         \* whether the send is a task (else a question)
  Timeout,        \* response timeout of the send in ticks, NoDeadline for none
  Posts,          \* the IPC messages that clients may post
  Window,         \* DELIVERY_WINDOW_MS in ticks
  MaxShift,       \* MAX_BACKOFF_SHIFT
  MaxUserHandoffs, \* bound: handoffs created by Resume and Retry
  Capacity,       \* MESSAGE_CAPACITY, unprocessed IPC messages
  FaultKinds,     \* subset of {"crash", "db", "ack"}
  MaxFaults,      \* bound: faults in a behaviour
  Archivable,     \* agents whose canvas window may be closed
  UserActions     \* recovery controls used: subset of {"cancel", "resume", "retry"}

Agents == 1..NumAgents
Routine == 0
None == "none"
NoDeadline == -1
NoRequest == [agent |-> 0, h |-> 0, msg |-> None]
Kinds == <<"root", "progress", "response", "cancel">>
KindSet == {"root", "progress", "response", "cancel"}
Statuses == {"completed", "failed", "blocked"}
Open == {"queued", "delivered", "running", "blocked"}
TaskStates == Open \cup {"completed", "failed", "cancelled"}
Terminations == {None, "agent", "user", "timeout"}
Outcomes == {"started", "delivered", "retryable", "exhausted"}

MaxHandoffs == Cardinality(Sends) + MaxUserHandoffs

ASSUME WindowAssumption == Window \in Nat \ {0}
ASSUME ShiftAssumption == MaxShift \in Nat
ASSUME SendAssumption ==
  /\ NumAgents \in Nat
  /\ From \in [Sends -> Agents \cup {Routine}]
  /\ To \in [Sends -> Agents]
  /\ \A s \in Sends : From[s] # To[s]
  /\ IsFiniteSet(Sends)
  /\ MaxUserHandoffs \in Nat
  /\ IsTask \in [Sends -> BOOLEAN]
  /\ Timeout \in [Sends -> {NoDeadline} \cup (Nat \ {0})]
  /\ Sends \subseteq Nat \ {0}
ASSUME PostAssumption ==
  \A p \in Posts :
    /\ p.root \in Sends /\ p.type \in {"send", "progress", "respond", "cancel"}
    /\ p.type = "respond" => p.status \in Statuses

VARIABLES
  db,         \* the journalled workspace: tasks and handoffs, by identifier
  store,      \* IPC message IDs with a durable receipt
  inbox,      \* unprocessed IPC messages in sequence order
  boxes,      \* mailboxes (memory): per recipient the pending deliveries
  inflight,   \* the delivery request between prepare_next and finish_delivery
  up,         \* the application runs
  archived,   \* agents without a canvas window
  faults,     \* faults so far
  pasted      \* how often the root prompt of a handoff was submitted to a terminal

vars == <<db, store, inbox, boxes, inflight, up, archived, faults, pasted>>
memory == <<boxes, inflight, up>>

-----------------------------------------------------------------------------
(* Handoffs: domain/orchestration.rs *)

HandoffIds(d) == DOMAIN d.handoff

Messages(h) ==
  {"root"} \cup (IF h.progress THEN {"progress"} ELSE {})
           \cup (IF h.response # None THEN {"response"} ELSE {})
           \cup (IF h.termination \in {"agent", "user"} THEN {"cancel"} ELSE {})

MessageDelivered(h, m) ==
  \E i \in DOMAIN h.attempts : h.attempts[i] = [msg |-> m, outcome |-> "delivered"]

DeliveryTerminal(h, m) ==
  \E i \in DOMAIN h.attempts :
    /\ h.attempts[i].msg = m
    /\ h.attempts[i].outcome \in {"delivered", "exhausted"}

Attempting(h) == \E i \in DOMAIN h.attempts : h.attempts[i].outcome = "started"

Active(h) == h.response = None /\ h.termination = None

MayBegin(h, m) ==
  /\ m \in Messages(h)
  /\ m = "root" => Active(h)
  /\ ~MessageDelivered(h, m)
  /\ ~Attempting(h)

RetryableFailures(h, m) ==
  Cardinality({i \in DOMAIN h.attempts :
                 h.attempts[i] = [msg |-> m, outcome |-> "retryable"]})

Tracked(root, source, recipient, task, deadline) ==
  [root |-> root, source |-> source, recipient |-> recipient, task |-> task,
   age |-> [m \in KindSet |-> 0], deadline |-> deadline, attempts |-> <<>>,
   progress |-> FALSE, response |-> None, termination |-> None]

\* The agent whose terminal receives a message: the recipient for the prompt
\* and its cancellation, the origin for progress and the response.
Addressee(h, m) == IF m \in {"root", "cancel"} THEN h.recipient ELSE h.source

-----------------------------------------------------------------------------
(* Journal transactions: each maps one workspace to the next *)

BeginAttempt(d, h, m) ==
  [d EXCEPT !.handoff[h].attempts = Append(@, [msg |-> m, outcome |-> "started"])]

FinishAttempt(d, h, outcome) ==
  [d EXCEPT !.handoff[h].attempts =
     [i \in DOMAIN @ |-> IF @[i].outcome = "started"
                         THEN [@[i] EXCEPT !.outcome = outcome] ELSE @[i]]]

RecordProgress(d, h) ==
  [d EXCEPT !.handoff[h].progress = TRUE]

RecordResponse(d, h, status) ==
  [d EXCEPT !.handoff[h].response = status, !.handoff[h].deadline = NoDeadline]

Terminate(d, h, reason) ==
  [d EXCEPT !.handoff[h].termination = reason, !.handoff[h].deadline = NoDeadline]

SetTask(d, t, state) == [d EXCEPT !.task[t] = state]

CancelTask(d, h, reason) == SetTask(Terminate(d, h, reason), d.handoff[h].task, "cancelled")

AddHandoff(d, h) == [d EXCEPT !.handoff = Append(@, h)]

AddTaskHandoff(d, h) == [AddHandoff(d, h) EXCEPT !.task = Append(@, "queued")]

ResumeTask(d, h) == SetTask(AddHandoff(d, h), h.task, "running")

\* The task states a transition helper writes, one transaction each.
ToDelivered(state) == IF state = "queued" THEN <<"delivered">> ELSE <<>>

ToRunning(state) ==
  ToDelivered(state) \o (IF state = "running" THEN <<>> ELSE <<"running">>)

ToResponse(state, status) ==
  CASE status \in {"completed", "blocked"} -> ToRunning(state) \o <<status>>
    [] status = "failed" /\ state = "failed" -> <<>>
    [] OTHER -> ToDelivered(state) \o <<"failed">>

ToFailed(state) == IF state \in Open THEN <<"failed">> ELSE <<>>

TaskWrites(d, t, path) == [i \in 1..Len(path) |-> SetTask(d, t, path[i])]

-----------------------------------------------------------------------------
(* Mailboxes: orchestration/engine.rs *)

Pending(b, h, m) == \E a \in Agents : \E i \in DOMAIN b[a] : b[a][i].h = h /\ b[a][i].msg = m

\* The elements of s at the positions in P, in order: what SelectSeq keeps,
\* by the rank of a position instead of recursion.
Rank(P, i) == Cardinality({n \in P : n <= i})
Keep(s, P) == [k \in 1..Cardinality(P) |-> s[CHOOSE i \in P : Rank(P, i) = k]]

RemovePending(b, h) ==
  [a \in Agents |-> Keep(b[a], {i \in DOMAIN b[a] : ~(b[a][i].h = h /\ b[a][i].msg = "root")})]

\* delivery_details and delivery_mechanism both succeed.
Enqueueable(d, h, m) ==
  LET r == d.handoff[h]
  IN  /\ m \in Messages(r)
      /\ m = "root" => r.termination = None \/ MessageDelivered(r, "root")
      /\ Addressee(r, m) \in Agents \ archived

NewPending(d, h, m) ==
  [h |-> h, msg |-> m, wait |-> 0, failures |-> RetryableFailures(d.handoff[h], m)]

Enqueue(b, d, h, m) ==
  IF \/ Pending(b, h, m)
     \/ DeliveryTerminal(d.handoff[h], m)
     \/ ~Enqueueable(d, h, m)
  THEN b
  ELSE [b EXCEPT ![Addressee(d.handoff[h], m)] = Append(@, NewPending(d, h, m))]

Shift(failures) == IF failures - 1 < MaxShift THEN failures - 1 ELSE MaxShift

\* INITIAL_RETRY_MS (one tick here) doubled for every failure up to the cap.
Backoff(failures) == 2 ^ Shift(failures)

\* Faulty variant: a prompt whose write failed is not attempted again.
ReadyOnce == {a \in Agents : boxes[a] # <<>> /\ boxes[a][1].failures = 0}

\* The first mailbox, in key order, whose front may be attempted now.
Ready == {a \in Agents : boxes[a] # <<>> /\ boxes[a][1].wait = 0}
NextBox == CHOOSE a \in Ready : \A b \in Ready : a <= b

-----------------------------------------------------------------------------
(* Faults *)

Idle == up /\ inflight = NoRequest

Stop(kind) ==
  /\ kind \in FaultKinds
  /\ faults < MaxFaults
  /\ faults' = faults + 1
  /\ IF kind = "crash"
     THEN boxes' = [a \in Agents |-> <<>>] /\ up' = FALSE /\ inflight' = NoRequest
     ELSE inflight' = NoRequest /\ UNCHANGED <<boxes, up>>

\* The handler commits the databases in writes and then does Done, or it stops
\* before one of them: a storage error returns early, a crash loses memory.
Commit(writes, Done) ==
  \/ /\ db' = IF writes = <<>> THEN db ELSE writes[Len(writes)]
     /\ Done
     /\ UNCHANGED faults
  \/ \E i \in 0..Len(writes) - 1, kind \in {"crash", "db"} :
       /\ db' = IF i = 0 THEN db ELSE writes[i]
       /\ Stop(kind)
       /\ UNCHANGED inbox

-----------------------------------------------------------------------------
(* The IPC service accepts a message: ipc/server.rs, ipc/store.rs *)

Sent(root) == \E p \in store : p.type = "send" /\ p.root = root

Post(p) ==
  /\ up
  /\ p \notin store
  /\ IF p.type = "send" THEN From[p.root] # Routine ELSE Sent(p.root)
  /\ p.type = "cancel" => From[p.root] # Routine
  /\ Len(inbox) < Capacity
  /\ store' = store \cup {p}
  /\ inbox' = Append(inbox, p)
  /\ UNCHANGED <<db, boxes, inflight, up, archived, faults, pasted>>

-----------------------------------------------------------------------------
(* Orchestrator::accept: what a message commits and which message it queues *)

Find(root) == {h \in HandoffIds(db) : db.handoff[h].root = root}

\* A handler's outcome: the databases it commits, the message it enqueues when
\* it succeeds, and whether it drops the pending root first.
Result(writes, h, m, drop) == [writes |-> writes, h |-> h, msg |-> m, drop |-> drop]
Rejected(writes) == Result(writes, 0, None, FALSE)

NewHandoff(s, t) == Tracked(s, From[s], To[s], t, Timeout[s])

AcceptHandoff(s) ==
  IF Find(s) # {} THEN Result(<<>>, CHOOSE h \in Find(s) : TRUE, "root", FALSE)
  ELSE IF To[s] \in archived THEN Rejected(<<>>)
  ELSE LET h == Len(db.handoff) + 1
           t == Len(db.task) + 1
       IN  Result(IF IsTask[s] THEN <<AddTaskHandoff(db, NewHandoff(s, t))>>
                               ELSE <<AddHandoff(db, NewHandoff(s, 0))>>, h, "root", FALSE)

\* Progress and responses need a delivered, active handoff unless this very
\* message is already recorded; then the task follows.
AcceptReport(s, m, recorded, record, legal, path) ==
  IF Find(s) = {} THEN Rejected(<<>>)
  ELSE LET h == CHOOSE h \in Find(s) : TRUE
           r == db.handoff[h]
           t == r.task
           after == IF recorded THEN db ELSE record
           first == IF recorded THEN <<>> ELSE <<record>>
       IN  IF ~recorded /\ ~(Active(r) /\ MessageDelivered(r, "root")) THEN Rejected(<<>>)
           ELSE IF t # 0 /\ ~legal THEN Rejected(first)
           ELSE Result(first \o (IF t = 0 THEN <<>> ELSE TaskWrites(after, t, path)),
                       h, IF r.source = Routine THEN None ELSE m, FALSE)

TaskOf(s) == LET h == CHOOSE h \in Find(s) : TRUE IN
  IF Find(s) = {} \/ db.handoff[h].task = 0 THEN None ELSE db.task[db.handoff[h].task]

AcceptProgress(s) ==
  LET h == CHOOSE h \in Find(s) : TRUE
  IN  AcceptReport(s, "progress", Find(s) # {} /\ db.handoff[h].progress,
                   RecordProgress(db, h), TaskOf(s) \in Open, ToRunning(TaskOf(s)))

AcceptResponse(s, status) ==
  LET h == CHOOSE h \in Find(s) : TRUE
  IN  AcceptReport(s, "response", Find(s) # {} /\ db.handoff[h].response = status,
                   RecordResponse(db, h, status),
                   TaskOf(s) \in Open \/ (status = "failed" /\ TaskOf(s) = "failed"),
                   ToResponse(TaskOf(s), status))

\* Only the agent's own cancellation is announced to the recipient.
Announced(r) == IF r.termination = "agent" THEN "cancel" ELSE None

AcceptCancellation(s) ==
  IF Find(s) = {} THEN Rejected(<<>>)
  ELSE LET h == CHOOSE h \in Find(s) : TRUE
           r == db.handoff[h]
           state == TaskOf(s)
       IN  IF r.termination = None
           THEN CASE r.response # None \/ (r.task # 0 /\ state \notin Open) -> Rejected(<<>>)
                  [] r.response = None /\ r.task # 0 /\ state \in Open ->
                       Result(<<CancelTask(db, h, "agent")>>, h, "cancel", TRUE)
                  [] r.response = None /\ r.task = 0 ->
                       Result(<<Terminate(db, h, "agent")>>, h, "cancel", TRUE)
           ELSE CASE r.task # 0 /\ state \in Open ->
                       Result(<<SetTask(db, r.task, "cancelled")>>, h, Announced(r), TRUE)
                  [] r.task # 0 /\ state \notin Open \cup {"cancelled"} -> Rejected(<<>>)
                  [] OTHER -> Result(<<>>, h, Announced(r), TRUE)

Handle(p) ==
  CASE p.type = "send"     -> AcceptHandoff(p.root)
    [] p.type = "progress" -> AcceptProgress(p.root)
    [] p.type = "respond"  -> AcceptResponse(p.root, p.status)
    [] p.type = "cancel"   -> AcceptCancellation(p.root)

\* Faulty variant: only delivered prompts expire.
DueDelivered(h) ==
  /\ Active(db.handoff[h]) /\ MessageDelivered(db.handoff[h], "root")
  /\ db.handoff[h].deadline = 0

\* A tick expires what is due before it accepts or delivers anything.
Due(h) == Active(db.handoff[h]) /\ db.handoff[h].deadline = 0
NothingDue == \A h \in HandoffIds(db) : ~Due(h)

\* One message of the tick: accept it, then mark it processed.  A failed
\* acknowledgement releases the lease and the message is accepted again.
Accept ==
  /\ Idle /\ NothingDue
  /\ inbox # <<>>
  /\ LET r == Handle(Head(inbox))
         d == IF r.writes = <<>> THEN db ELSE r.writes[Len(r.writes)]
         dropped == IF r.drop THEN RemovePending(boxes, r.h) ELSE boxes
     IN  \/ Commit(r.writes, /\ inbox' = Tail(inbox)
                             /\ boxes' = IF r.msg = None THEN dropped
                                         ELSE Enqueue(dropped, d, r.h, r.msg)
                             /\ UNCHANGED <<inflight, up>>)
         \/ /\ "ack" \in FaultKinds /\ faults < MaxFaults /\ faults' = faults + 1
            /\ db' = d
            /\ boxes' = IF r.msg = None THEN dropped ELSE Enqueue(dropped, d, r.h, r.msg)
            /\ UNCHANGED <<inbox, inflight, up>>
  /\ UNCHANGED <<store, archived, pasted>>

-----------------------------------------------------------------------------
(* Delivery: prepare_next, the terminal write, finish_delivery *)

Pop(b, a) == [b EXCEPT ![a] = Tail(@)]

\* A root whose handoff ended before it was delivered is dropped.
DropTerminated ==
  /\ Idle /\ NothingDue /\ Ready # {}
  /\ LET p == boxes[NextBox][1]
         r == db.handoff[p.h]
     IN  /\ p.msg = "root" /\ r.termination # None /\ ~MessageDelivered(r, "root")
         /\ boxes' = RemovePending(boxes, p.h)
  /\ UNCHANGED <<db, store, inbox, inflight, up, archived, faults, pasted>>

\* Faulty variant: the task moves before the attempt is recorded.
FinishWritesTaskFirst(d, p, outcome) ==
  LET t == d.handoff[p.h].task
      path == CASE p.msg = "root" /\ t # 0 /\ outcome = "delivered" -> ToDelivered(d.task[t])
                [] p.msg = "root" /\ t # 0 /\ outcome = "exhausted" -> ToFailed(d.task[t])
                [] OTHER                                           -> <<>>
      moved == IF path = <<>> THEN d ELSE SetTask(d, t, path[1])
  IN  <<moved, FinishAttempt(moved, p.h, outcome)>>

\* The databases finish_delivery commits for an attempt with this outcome.
FinishWrites(d, p, outcome) ==
  LET done == FinishAttempt(d, p.h, outcome)
      t == d.handoff[p.h].task
      path == CASE p.msg = "root" /\ t # 0 /\ outcome = "delivered" -> ToDelivered(d.task[t])
                [] p.msg = "root" /\ t # 0 /\ outcome = "exhausted" -> ToFailed(d.task[t])
                [] OTHER                                           -> <<>>
  IN  <<done>> \o TaskWrites(done, t, path)

\* begin_delivery is refused while the front cannot begin: prepare_next fails,
\* this tick and the next ones, whatever the other mailboxes hold.
PrepareNext ==
  /\ Idle /\ NothingDue /\ Ready # {}
  /\ LET a == NextBox
         p == boxes[a][1]
         begun == BeginAttempt(db, p.h, p.msg)
     IN  /\ p.h \in HandoffIds(db) /\ MayBegin(db.handoff[p.h], p.msg)
         /\ IF db.handoff[p.h].age[p.msg] < Window
            THEN Commit(<<begun>>, /\ inflight' = [agent |-> a, h |-> p.h, msg |-> p.msg]
                                   /\ UNCHANGED <<boxes, inbox, up>>)
            ELSE Commit(<<begun>> \o FinishWrites(begun, p, "exhausted"),
                        boxes' = Pop(boxes, a) /\ UNCHANGED <<inbox, inflight, up>>)
  /\ UNCHANGED <<store, archived, pasted>>

\* Faulty variant: a prompt that failed goes behind the ones accepted later.
RetryAtBack(b, a) == [b EXCEPT ![a] = Append(Tail(@), [Head(@) EXCEPT !.failures = @ + 1, !.wait = 1])]

RetryLater(b, a) ==
  [b EXCEPT ![a][1].failures = @ + 1, ![a][1].wait = Backoff(b[a][1].failures + 1)]

\* The tick reads the clock once, so a failed write always precedes the
\* deadline that prepare_next compared with: it is retryable.
\* A prompt is written when both the text and the carriage return were
\* (deliver_handoff); a text without its return is not submitted, and written
\* again by the retry.
FinishDelivery(written) ==
  /\ up /\ inflight # NoRequest
  /\ written => inflight.agent \notin archived
  /\ LET outcome == IF written THEN "delivered" ELSE "retryable"
     IN  Commit(FinishWrites(db, inflight, outcome),
                /\ boxes' = IF written THEN Pop(boxes, inflight.agent)
                            ELSE RetryLater(boxes, inflight.agent)
                /\ inflight' = NoRequest
                /\ UNCHANGED <<inbox, up>>)
  /\ pasted' = IF written /\ inflight.msg = "root"
               THEN [pasted EXCEPT ![inflight.h] = @ + 1] ELSE pasted
  /\ UNCHANGED <<store, archived>>

-----------------------------------------------------------------------------
(* Deadlines and the clock *)

\* A committed timeout and the failure of its task are two transactions.
ExpireDue(h) ==
  LET r == db.handoff[h]
      ended == Terminate(db, h, "timeout")
      path == IF r.task = 0 THEN <<>> ELSE ToFailed(db.task[r.task])
  IN  /\ Idle
      /\ Due(h)
      /\ r.task = 0 \/ db.task[r.task] \in Open \cup {"failed"}
      /\ Commit(<<ended>> \o TaskWrites(ended, r.task, path),
                boxes' = RemovePending(boxes, h) /\ UNCHANGED <<inbox, inflight, up>>)
      /\ UNCHANGED <<store, archived, pasted>>

Older(age) == IF age < Window THEN age + 1 ELSE age
Sooner(deadline) == IF deadline > 0 THEN deadline - 1 ELSE deadline

\* Only the age of a message still to be delivered matters.
Aged(r) ==
  [r EXCEPT !.age = [m \in KindSet |->
                       CASE m \notin Messages(r) \/ MessageDelivered(r, m) -> 0
                         [] m = "root" /\ r.termination # None -> 0
                         [] OTHER -> Older(@[m])],
            !.deadline = Sooner(@)]

Tick ==
  /\ inflight = NoRequest
  /\ db' = [db EXCEPT !.handoff = [h \in DOMAIN @ |-> Aged(@[h])]]
  /\ boxes' = [a \in Agents |-> [i \in DOMAIN boxes[a] |->
                 [boxes[a][i] EXCEPT !.wait = IF @ > 0 THEN @ - 1 ELSE 0]]]
  /\ UNCHANGED <<store, inbox, inflight, up, archived, faults, pasted>>

-----------------------------------------------------------------------------
(* Recovery controls of the timeline: cancel_task, resume_task, retry_task *)

Latest(t) == LET own == {h \in HandoffIds(db) : db.handoff[h].task = t}
             IN  CHOOSE h \in own : \A g \in own : g <= h

UserCancel(t) ==
  LET h == Latest(t)
      d == CancelTask(db, h, "user")
  IN  /\ "cancel" \in UserActions
      /\ Idle
      /\ Active(db.handoff[h])
      /\ db.task[t] \in Open
      /\ Commit(<<d>>, /\ boxes' = Enqueue(RemovePending(boxes, h), d, h, "cancel")
                       /\ UNCHANGED <<inbox, inflight, up>>)
      /\ UNCHANGED <<store, archived, pasted>>

\* ui-resume-... and ui-retry-... identifiers, distinct from every client ID.
UserRoot(h) == -h
UserRoom == Cardinality({h \in HandoffIds(db) : db.handoff[h].root < 0}) < MaxUserHandoffs

UserResume(t) ==
  LET h == Latest(t)
      r == db.handoff[h]
      n == Len(db.handoff) + 1
      resumed == SetTask(db, t, "running")
      continued == ResumeTask(db, Tracked(UserRoot(n), r.source, r.recipient, t, NoDeadline))
  IN  /\ "resume" \in UserActions
      /\ Idle
      /\ db.task[t] = "blocked"
      /\ IF Active(r)
         THEN Commit(<<resumed>>, /\ boxes' = Enqueue(boxes, resumed, h, "root")
                                  /\ UNCHANGED <<inbox, inflight, up>>)
         ELSE /\ UserRoom
              /\ r.recipient \notin archived
              /\ Commit(<<continued>>, /\ boxes' = Enqueue(boxes, continued, n, "root")
                                       /\ UNCHANGED <<inbox, inflight, up>>)
      /\ UNCHANGED <<store, archived, pasted>>

UserRetry(t) ==
  LET r == db.handoff[Latest(t)]
      n == Len(db.handoff) + 1
      d == AddTaskHandoff(db, Tracked(UserRoot(n), r.source, r.recipient,
                                      Len(db.task) + 1, NoDeadline))
  IN  /\ "retry" \in UserActions
      /\ Idle
      /\ db.task[t] \in {"failed", "cancelled"}
      /\ r.recipient \notin archived
      /\ UserRoom
      /\ Commit(<<d>>, /\ boxes' = Enqueue(boxes, d, n, "root")
                       /\ UNCHANGED <<inbox, inflight, up>>)
      /\ UNCHANGED <<store, archived, pasted>>

-----------------------------------------------------------------------------
(* Routine work: the scheduler's journalled dispatch, submit_routine_handoff *)
(* and the IPC registration that follows it in the same tick.              *)

\* A crash between the dispatch and its registration leaves it unregistered.
DispatchRoutine(s) ==
  LET n == Len(db.handoff) + 1
      d == AddTaskHandoff(db, NewHandoff(s, Len(db.task) + 1))
  IN  /\ Idle
      /\ From[s] = Routine /\ Find(s) = {}
      /\ To[s] \notin archived
      /\ \/ /\ Commit(<<d>>, /\ boxes' = Enqueue(boxes, d, n, "root")
                             /\ UNCHANGED <<inbox, inflight, up>>)
            /\ store' = IF db' = d THEN store \cup {[type |-> "send", root |-> s]} ELSE store
         \/ /\ db' = d /\ Stop("crash")
            /\ UNCHANGED <<store, inbox>>
      /\ UNCHANGED <<archived, pasted>>

\* RoutineScheduler::recover announces live routine handoffs again.
Reregister(s) ==
  /\ Idle
  /\ From[s] = Routine /\ Find(s) # {} /\ ~Sent(s)
  /\ store' = store \cup {[type |-> "send", root |-> s]}
  /\ UNCHANGED <<db, inbox, boxes, inflight, up, archived, faults, pasted>>

-----------------------------------------------------------------------------
(* Windows closed and reopened: the agent is archived and restored *)

Archive(a) ==
  /\ Idle /\ a \in Archivable \ archived
  /\ archived' = archived \cup {a}
  /\ UNCHANGED <<db, store, inbox, boxes, inflight, up, faults, pasted>>

Restore(a) ==
  /\ Idle /\ a \in archived
  /\ archived' = archived \ {a}
  /\ UNCHANGED <<db, store, inbox, boxes, inflight, up, faults, pasted>>

-----------------------------------------------------------------------------
(* Crash and Orchestrator::recover *)

\* A crash between two handlers or during a terminal write, whose prompt may
\* or may not have reached the terminal.
Crash ==
  /\ up /\ Stop("crash")
  /\ pasted' \in {pasted} \cup
       (IF inflight # NoRequest /\ inflight.msg = "root"
        THEN {[pasted EXCEPT ![inflight.h] = @ + 1]} ELSE {})
  /\ UNCHANGED <<db, store, inbox, archived>>

\* The unknown outcome of an interrupted attempt becomes a retryable failure.
RecoverAttempt(h) ==
  /\ ~up
  /\ Attempting(db.handoff[h])
  /\ db' = FinishAttempt(db, h, "retryable")
  /\ UNCHANGED <<store, inbox, boxes, inflight, up, archived, faults, pasted>>

\* Faulty variants: recovery treats all handoffs as it must treat routine
\* work, or none of them so.
RecoverableUntried(r, m) ==
  /\ m \in Messages(r)
  /\ m = "root" => r.termination = None
  /\ r.attempts = <<>>
RecoverableRoutine(r, m) ==
  /\ m \in Messages(r)
  /\ m = "root" => r.termination = None \/ MessageDelivered(r, "root")
  /\ m \in {"progress", "response"} => r.source # Routine
  /\ ~DeliveryTerminal(r, m)

\* recovery_message_ids, in handoff order.
Recoverable(r, m) ==
  /\ m \in Messages(r)
  /\ m = "root" => r.termination = None \/ MessageDelivered(r, "root")
  /\ m \in {"progress", "response"} => r.source # Routine
  /\ r.source = Routine => r.attempts = <<>>
  /\ ~DeliveryTerminal(r, m)

Candidates ==
  [i \in 1..4 * Len(db.handoff) |-> [h |-> ((i - 1) \div 4) + 1, msg |-> Kinds[((i - 1) % 4) + 1]]]

\* The candidates that recovery enqueues for a.
CandidatesFor(a) ==
  LET all == Candidates
      own == Keep(all, {i \in DOMAIN all : /\ Recoverable(db.handoff[all[i].h], all[i].msg)
                                           /\ Addressee(db.handoff[all[i].h], all[i].msg) = a})
  IN  [i \in DOMAIN own |-> NewPending(db, own[i].h, own[i].msg)]

\* One candidate that cannot be enqueued fails the whole recovery, and the
\* application continues with an orchestrator that has no mailboxes.
Recoverers ==
  {Addressee(db.handoff[c[1]], c[2]) :
     c \in {x \in HandoffIds(db) \X KindSet : Recoverable(db.handoff[x[1]], x[2])}}

Recover ==
  /\ ~up
  /\ \A h \in HandoffIds(db) : ~Attempting(db.handoff[h])
  /\ up' = TRUE
  /\ boxes' = IF Recoverers \cap archived = {}
              THEN [a \in Agents |-> CandidatesFor(a)]
              ELSE [a \in Agents |-> <<>>]
  /\ UNCHANGED <<db, store, inbox, inflight, archived, faults, pasted>>

\* A storage error in one of recovery's own writes has the same effect.
RecoverFails ==
  /\ ~up
  /\ \E h \in HandoffIds(db) : Attempting(db.handoff[h]) \/ Due(h)
  /\ "db" \in FaultKinds /\ faults < MaxFaults /\ faults' = faults + 1
  /\ up' = TRUE
  /\ UNCHANGED <<db, store, inbox, boxes, inflight, archived, pasted>>

-----------------------------------------------------------------------------
Init ==
  /\ db = [task |-> <<>>, handoff |-> <<>>]
  /\ store = {} /\ inbox = <<>>
  /\ boxes = [a \in Agents |-> <<>>]
  /\ inflight = NoRequest
  /\ up = TRUE
  /\ archived = {}
  /\ faults = 0
  /\ pasted = [h \in 1..MaxHandoffs |-> 0]

Deliver == DropTerminated \/ PrepareNext \/ \E written \in BOOLEAN : FinishDelivery(written)
Expire == \E h \in HandoffIds(db) : ExpireDue(h)
RecoverStep == Recover \/ RecoverFails \/ \E h \in HandoffIds(db) : RecoverAttempt(h)
User == \E t \in DOMAIN db.task : UserCancel(t) \/ UserResume(t) \/ UserRetry(t)
Windows == \E a \in Agents : Archive(a) \/ Restore(a)
Routines == \E s \in Sends : DispatchRoutine(s) \/ Reregister(s)

Next ==
  \/ \E p \in Posts : Post(p)
  \/ Accept
  \/ Deliver
  \/ Expire
  \/ Tick
  \/ User
  \/ Windows
  \/ Routines
  \/ Crash
  \/ RecoverStep

Spec == Init /\ [][Next]_vars

\* The application ticks for as long as it runs and is started again after a
\* crash; clients, users and faults are not obliged to do anything.
Fairness ==
  /\ WF_vars(Accept)
  /\ WF_vars(Deliver)
  /\ WF_vars(Expire)
  /\ WF_vars(Tick)
  /\ WF_vars(RecoverStep)

FairSpec == Spec /\ Fairness

-----------------------------------------------------------------------------
(* Properties *)

HandoffRecord ==
  [root : Int, source : Agents \cup {Routine}, recipient : Agents, task : Nat,
   age : [KindSet -> 0..Window], deadline : {NoDeadline} \cup Nat,
   attempts : Seq([msg : KindSet, outcome : Outcomes]), progress : BOOLEAN,
   response : {None} \cup Statuses, termination : Terminations]

PendingRecord == [h : Nat \ {0}, msg : KindSet, wait : Nat, failures : Nat]

\* The state is well formed, and every handoff names an existing task.
TypeOK ==
  /\ db.task \in Seq(TaskStates)
  /\ \A h \in HandoffIds(db) :
       /\ db.handoff[h] \in HandoffRecord
       /\ db.handoff[h].task \in 0..Len(db.task)
  /\ Len(db.handoff) <= MaxHandoffs
  /\ store \subseteq [type : {"send"}, root : Sends] \cup Posts
  /\ inbox \in Seq(Posts)
  /\ \A a \in Agents : boxes[a] \in Seq(PendingRecord)
  /\ inflight = NoRequest \/ inflight \in [agent : Agents, h : HandoffIds(db), msg : KindSet]
  /\ up \in BOOLEAN /\ archived \subseteq Agents /\ faults \in 0..MaxFaults
  /\ pasted \in [1..MaxHandoffs -> Nat]

\* A conversation ends once: a response or a termination, never both, and only
\* a delivered prompt is reported on or answered; one attempt is open at a time.
ConversationSound ==
  \A h \in HandoffIds(db) :
    LET r == db.handoff[h]
    IN  /\ r.response = None \/ r.termination = None
        /\ r.response # None \/ r.progress => MessageDelivered(r, "root")
        /\ Cardinality({i \in DOMAIN r.attempts : r.attempts[i].outcome = "started"}) <= 1
        /\ \A m \in KindSet : Cardinality({i \in DOMAIN r.attempts :
              r.attempts[i] = [msg |-> m, outcome |-> "delivered"]}) <= 1

\* Every finished or blocked task is justified by the durable record of its
\* handoffs, whatever storage errors and crashes separated the transactions.
TaskJustified ==
  \A t \in DOMAIN db.task :
    LET own == {db.handoff[h] : h \in {g \in HandoffIds(db) : db.handoff[g].task = t}}
        last == db.handoff[Latest(t)]
    IN  CASE db.task[t] = "completed" -> last.response = "completed"
          [] db.task[t] = "cancelled" -> last.termination # None
          [] db.task[t] = "failed" ->
               \/ last.response = "failed" \/ last.termination = "timeout"
               \/ DeliveryTerminal(last, "root") /\ ~MessageDelivered(last, "root")
          [] db.task[t] = "blocked" -> \E r \in own : r.response = "blocked"
          [] OTHER -> TRUE

\* Nothing accepted is lost: a message that still has to reach an agent is in
\* its mailbox or the IPC message that caused it is still unprocessed.
Unsettled(h) ==
  {m \in Messages(db.handoff[h]) :
     /\ ~DeliveryTerminal(db.handoff[h], m)
     /\ m = "root" => db.handoff[h].termination = None
     /\ m \in {"progress", "response"} => db.handoff[h].source # Routine}

CausedBy(p, h, m) ==
  /\ p.root = db.handoff[h].root
  /\ CASE m = "progress" -> p.type = "progress"
       [] m = "response" -> p.type = "respond" /\ p.status = db.handoff[h].response
       [] OTHER -> FALSE

NothingLost ==
  Idle =>
    \A h \in HandoffIds(db) : \A m \in Unsettled(h) :
      \/ Pending(boxes, h, m)
      \/ \E i \in DOMAIN inbox : CausedBy(inbox[i], h, m)
      \/ db.handoff[h].source = Routine /\ db.handoff[h].attempts # <<>>

\* Documented (docs/orchestration.md:61), and not kept: a request accepted for
\* an agent that still has a terminal waits in its mailbox until it is
\* delivered, exhausted or ended.
RequestsKept ==
  Idle =>
    \A h \in HandoffIds(db) :
      LET r == db.handoff[h]
      IN  \/ ~Active(r) \/ DeliveryTerminal(r, "root")
          \/ r.recipient \in archived \/ r.source = Routine
          \/ Pending(boxes, h, "root")

\* Documented (docs/orchestration.md:100-101), and not kept when the second of
\* two transactions fails: an expired handoff leaves no unfinished task behind.
ExpiryFailsTask ==
  Idle =>
    \A t \in DOMAIN db.task :
      db.handoff[Latest(t)].termination = "timeout" => db.task[t] \notin Open

\* What the prompt asks for (orchestration/prompt.rs:20-22), and not kept for
\* Resume and Retry: an agent that received a prompt can answer it, because the
\* identifier the prompt quotes is one that route_message resolves.
DeliveredAnswerable ==
  \A h \in HandoffIds(db) :
    MessageDelivered(db.handoff[h], "root") => Sent(db.handoff[h].root)

\* Recipients progress independently: a deliverable front is not held up by
\* another recipient's mailbox.
FrontWorks(a) ==
  LET p == boxes[a][1]
      r == db.handoff[p.h]
  IN  \/ MayBegin(r, p.msg)
      \/ p.msg = "root" /\ r.termination # None /\ ~MessageDelivered(r, "root")
RecipientsIndependent ==
  Idle => \A a \in Ready : FrontWorks(a) => FrontWorks(NextBox)

\* Prompts for one recipient wait in acceptance order, none of them twice.
MailboxOrder ==
  \A a \in Agents : \A i, j \in DOMAIN boxes[a] :
    /\ i < j /\ boxes[a][i].msg = "root" /\ boxes[a][j].msg = "root"
         => boxes[a][i].h < boxes[a][j].h
    /\ boxes[a][i].h = boxes[a][j].h /\ boxes[a][i].msg = boxes[a][j].msg => i = j

\* prepare_next never trips over a front it cannot begin.
FrontDeliverable ==
  Idle => \A a \in Agents : \A i \in DOMAIN boxes[a] :
    LET r == db.handoff[boxes[a][i].h]
    IN  /\ ~Attempting(r)
        /\ ~MessageDelivered(r, boxes[a][i].msg)
        /\ boxes[a][i].msg = "root" => r.response = None

\* expire_due never meets a task it may not fail, so no tick is abandoned.
ExpiryApplies ==
  \A h \in HandoffIds(db) :
    db.handoff[h].task # 0 /\ Active(db.handoff[h])
      => db.task[db.handoff[h].task] \notin {"completed", "cancelled"}

\* The prompt of routine work is written to a terminal at most once, restarts
\* included; a second paste would restart an agent that may be working.
RoutinePromptOnce ==
  \A h \in HandoffIds(db) : db.handoff[h].source = Routine => pasted[h] <= 1

\* An answer or an end, once recorded, is never changed or withdrawn, and a
\* finished task never leaves its state.
Finality ==
  [][/\ \A h \in HandoffIds(db) :
          /\ h \in HandoffIds(db)'
          /\ db.handoff[h].response # None => db'.handoff[h].response = db.handoff[h].response
          /\ db.handoff[h].termination # None
               => db'.handoff[h].termination = db.handoff[h].termination
     /\ \A t \in DOMAIN db.task :
          db.task[t] \in TaskStates \ Open => db'.task[t] = db.task[t]]_vars

\* Conversations end once, finished tasks have a reason in their handoffs and
\* a deadline never meets a task that may not fail.
TasksSound == ConversationSound /\ TaskJustified /\ ExpiryApplies

\* Every message to an agent, a prompt, a report, an answer or a cancellation,
\* is delivered, exhausted or dropped because its handoff ended: a handoff has
\* at most one of each kind, and comes to have none outstanding.
Outstanding(h) == h \in HandoffIds(db) /\ Unsettled(h) # {}
PromptSettles == \A h \in 1..MaxHandoffs : Outstanding(h) ~> ~Outstanding(h)

\* A response deadline always ends the wait for an answer.
Awaited(h) ==
  h \in HandoffIds(db) /\ db.handoff[h].deadline # NoDeadline /\ Active(db.handoff[h])
DeadlineEnds == \A h \in 1..MaxHandoffs : Awaited(h) ~> ~Awaited(h)
=============================================================================
