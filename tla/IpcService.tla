----------------------------- MODULE IpcService -----------------------------
(***************************************************************************)
(* The local IPC service of src/src/ipc/: agent processes call it over     *)
(* short TCP connections, worker threads authenticate, route and store     *)
(* what they send, and the application's tick hands the stored messages to *)
(* the orchestrator.                                                       *)
(*                                                                         *)
(* A request reads the agent directory three times under its own lock: to  *)
(* authenticate, to check that the recipient is visible and to compare     *)
(* capabilities; the application may replace the directory in between.     *)
(* The lock of the message store is held from the lookup of the message    *)
(* to its insertion.  Rows survive a restart; the directory, the session   *)
(* part of the tokens, the queue of connections and the leases do not.     *)
(*                                                                         *)
(* One workspace is modelled: every lookup is keyed by the workspace of    *)
(* the credentials.  Portal commands are in Portals.                       *)
(***************************************************************************)
EXTENDS Integers, Sequences, SequencesExt, FiniteSets

CONSTANTS
  AgentIds,           \* agents of the workspace
  Calls,              \* what client processes may send: [sender, offers, command]
  Directories,        \* what the application registers: capabilities of agents, or Absent
  Workers,            \* the worker threads
  Handoffs,           \* commands the routine scheduler registers: [id, to, ...]
  MessageCapacity,    \* MESSAGE_CAPACITY
  QueueCapacity,      \* CONNECTION_QUEUE_CAPACITY
  MaxCalls,           \* bound: connections in a behaviour
  MaxReplacements,    \* bound: directory replacements
  MaxSessions,        \* bound: starts of the service
  MaxRetries          \* bound: storage errors and retryable refusals

Routine == "routine"
Nobody == "nobody"
Absent == "absent"

ASSUME IpcAssumption ==
  /\ Directories \subseteq [AgentIds -> {"connected", "unavailable", Absent}]
  /\ MessageCapacity \in Nat \ {0} /\ QueueCapacity \in Nat \ {0}
  /\ {MaxCalls, MaxReplacements, MaxSessions, MaxRetries} \subseteq Nat

\* Only agents call; the scheduler registers tasks for agents.  Nobody stands
\* for a field that is left out, which an identifier never is.
ASSUME CallAssumption ==
  /\ AgentIds \cap {Routine, Nobody} = {}
  /\ \A call \in Calls :
       call.sender \in AgentIds /\ call.command.to \in AgentIds \cup {Nobody} /\ call.command.id # Nobody
  /\ \A c \in Handoffs : c.kind = "send_handoff" /\ c.to \in AgentIds /\ c.id # Nobody

\* A worker that waits for a connection.
Idle == [at |-> "idle"]

VARIABLES
  directory,  \* registered capabilities of each agent, or Absent
  session,    \* the session part of the capability tokens
  queue,      \* accepted connections no worker has taken
  worker,     \* what each worker thread works on
  rows,       \* the ipc_messages table, in the order of its sequence
  leased,     \* identifiers handed to the application and not released
  tick,       \* the message the application's tick holds, and whether it was accepted
  acks,       \* calls that were answered with an acknowledgement
  ingested,   \* identifiers in the order the orchestrator first took them
  calls, replacements, retries   \* bounds

bounds == <<calls, replacements, retries>>
service == <<directory, session>>
app == <<leased, tick, ingested>>
vars == <<service, queue, worker, rows, app, acks, bounds>>

NoTick == [id |-> Nobody, accepted |-> FALSE]

Init ==
  /\ directory = [a \in AgentIds |-> Absent]
  /\ session = 1
  /\ queue = <<>>
  /\ worker = [w \in Workers |-> Idle]
  /\ rows = <<>>
  /\ leased = {}
  /\ tick = NoTick
  /\ acks = {}
  /\ ingested = <<>>
  /\ calls = 0 /\ replacements = 0 /\ retries = 0

-----------------------------------------------------------------------------
(* protocol.rs *)

SupportedVersions == 1..4
Sends == {"send_task", "send_handoff"}
Reports == {"progress", "handoff_progress"}
Responses == {"respond", "respond_to_handoff"}
Replies == Reports \cup Responses

MinimumVersion(c) ==
  CASE c.kind \in {"send_task", "progress", "respond"} -> 1
    [] c.kind = "respond_to_handoff" /\ c.outputs -> 4
    [] OTHER -> 2

\* What validate() finds before a request is executed.
Valid(c) == c.wellFormed

-----------------------------------------------------------------------------
(* store.rs *)

Stored(id) == {i \in DOMAIN rows : rows[i].command.id = id}
Row(id) == rows[CHOOSE i \in Stored(id) : TRUE]
Pending == {i \in DOMAIN rows : ~rows[i].processed}
NewRow(origin, recipient, c, processed) ==
  [origin |-> origin, recipient |-> recipient, command |-> c, processed |-> processed]

\* Faulty variant: does not compare the sender of the stored message.
SamePayload(id, origin, c) == Row(id).command = c
\* The stored message is the one that is sent again.
SameMessage(id, origin, c) == Row(id).origin = origin /\ Row(id).command = c

HasCapacity == Cardinality(Pending) < MessageCapacity

\* Faulty variant: takes the newest message.
NewestPending ==
  LET open == {i \in Pending : rows[i].command.id \notin leased}
  IN {i \in open : \A j \in open : j <= i}
\* The oldest pending message that is not leased.
NextPending ==
  LET open == {i \in Pending : rows[i].command.id \notin leased}
  IN {i \in open : \A j \in open : i <= j}

Processed(id) ==
  [i \in DOMAIN rows |-> IF i \in Stored(id) THEN [rows[i] EXCEPT !.processed = TRUE] ELSE rows[i]]

-----------------------------------------------------------------------------
(* server.rs: routing *)

Handoff(id) == Stored(id) # {} /\ Row(id).command.kind \in Sends

\* The other end of a message: route_message.  Nobody is a refusal.
Route(sender, c) ==
  CASE c.kind \in Sends ->
         IF c.ref # Nobody /\ ~(Handoff(c.ref) /\ sender \in {Row(c.ref).origin, Row(c.ref).recipient})
         THEN Nobody ELSE c.to
    [] c.kind \in {"progress", "respond"} ->
         IF Handoff(c.ref) /\ Row(c.ref).recipient = sender /\ Row(c.ref).command.kind = "send_task"
         THEN Row(c.ref).origin ELSE Nobody
    [] c.kind \in Replies \ {"progress", "respond"} ->
         IF Handoff(c.ref) /\ Row(c.ref).recipient = sender THEN Row(c.ref).origin ELSE Nobody
    [] OTHER ->
         IF Handoff(c.ref) /\ Row(c.ref).origin = sender THEN Row(c.ref).recipient ELSE Nobody

Registered(a) == directory[a] # Absent

\* Whose capabilities a command asks for: validate_capabilities.
Capable(sender, recipient, c) ==
  directory[IF c.kind \in Replies THEN sender ELSE recipient] = "connected"

-----------------------------------------------------------------------------
(* client.rs, server.rs: connections *)

\* The response to a call; refusals leave nothing behind.
Answer(call, result) ==
  acks' = IF result \in {"accepted", "duplicate"} THEN acks \cup {call} ELSE acks

\* A client process, launched in this session or an earlier one, connects and
\* writes its request; a full queue is answered by the accept thread.
Send(call, token) ==
  /\ calls < MaxCalls /\ calls' = calls + 1
  /\ IF Len(queue) < QueueCapacity
     THEN queue' = Append(queue, [call |-> call, token |-> token]) /\ acks' = acks
     ELSE queue' = queue /\ Answer(call, "service_unavailable")
  /\ UNCHANGED <<service, worker, rows, app, replacements, retries>>

Authenticates(request) == request.token = session

\* Why a request is answered before it is executed: process_request.
Refusal(request) ==
  LET c == request.call.command
      selected == SelectSeq(request.call.offers, LAMBDA v : v \in SupportedVersions)
  IN  IF selected = <<>> THEN "incompatible_protocol"
      ELSE IF ~(Authenticates(request) /\ Registered(request.call.sender)) THEN "unauthorized"
      ELSE IF MinimumVersion(c) > Head(selected) THEN "incompatible_protocol"
      ELSE IF ~Valid(c) THEN "invalid_request" ELSE "none"

\* A worker takes a connection, reads the request and authenticates it.
Take(w) ==
  /\ worker[w] = Idle /\ queue # <<>>
  /\ queue' = Tail(queue)
  /\ LET request == Head(queue) IN
     IF Refusal(request) # "none"
     THEN Answer(request.call, Refusal(request)) /\ worker' = worker
     ELSE /\ worker' = [worker EXCEPT ![w] = [at |-> "authenticated", call |-> request.call]]
          /\ acks' = acks
  /\ UNCHANGED <<service, rows, app, bounds>>

\* A connection ends without a request: a read that fails, times out, is too
\* long or does not parse is answered and stores nothing.
TakeGarbled(w) ==
  /\ worker[w] = Idle /\ queue # <<>> /\ retries < MaxRetries
  /\ queue' = Tail(queue) /\ retries' = retries + 1
  /\ Answer(Head(queue).call, "malformed_request")
  /\ UNCHANGED <<service, worker, rows, app, calls, replacements>>

\* No worker holds the message store.
StoreFree == \A w \in Workers : worker[w].at # "routed"

Finished(w, result) == worker' = [worker EXCEPT ![w] = Idle] /\ Answer(worker[w].call, result)

\* The lookup, the routing and the visibility check, with the store locked.
Lookup(w) ==
  /\ worker[w].at = "authenticated" /\ StoreFree
  /\ LET call == worker[w].call
         c == call.command
         to == Route(call.sender, c)
         result ==
           IF Stored(c.id) # {}
           THEN IF SameMessage(c.id, call.sender, c) THEN "duplicate" ELSE "idempotency_conflict"
           ELSE IF to = Nobody \/ to = call.sender THEN "invalid_request"
           ELSE IF to \in AgentIds /\ ~Registered(to) THEN "agent_not_visible" ELSE "none"
     IN IF result # "none"
        THEN Finished(w, result)
        ELSE worker' = [worker EXCEPT ![w] = [at |-> "routed", call |-> call, to |-> to]] /\ acks' = acks
  /\ UNCHANGED <<service, queue, rows, app, bounds>>

\* The end of a request that reads the directory again for the capabilities
\* and inserts the message.  An agent that is gone by then is an expect() that
\* fails: the thread ends and its client is not answered.
Insert(w) ==
  /\ worker[w].at = "routed"
  /\ LET call == worker[w].call
         c == call.command
         to == worker[w].to
     IN IF to \in AgentIds /\ ~(Registered(call.sender) /\ Registered(to))
        THEN /\ worker' = [worker EXCEPT ![w] = [at |-> "panicked"]]
             /\ UNCHANGED <<rows, acks>>
        ELSE IF to \in AgentIds /\ ~Capable(call.sender, to, c)
        THEN Finished(w, "invalid_request") /\ rows' = rows
        ELSE IF ~HasCapacity
        THEN Finished(w, "service_unavailable") /\ rows' = rows
        ELSE /\ rows' = Append(rows, NewRow(call.sender, to, c, FALSE))
             /\ Finished(w, "accepted")
  /\ UNCHANGED <<service, queue, app, bounds>>

\* The store fails under a request, which changes nothing.
StoreError(w) ==
  /\ worker[w].at \in {"authenticated", "routed"} /\ retries < MaxRetries
  /\ retries' = retries + 1
  /\ Finished(w, "service_unavailable")
  /\ UNCHANGED <<service, queue, rows, app, calls, replacements>>

-----------------------------------------------------------------------------
(* server.rs: the side of the application *)

\* Replaces the agents of the workspace, or removes the workspace.
ReplaceAgents ==
  /\ replacements < MaxReplacements /\ replacements' = replacements + 1
  /\ directory' \in Directories \ {directory}
  /\ UNCHANGED <<session, queue, worker, rows, app, acks, calls, retries>>

\* Publishes a handoff the scheduler dispatched.  The same one again is a no-op.
RegisterRoutineHandoff(c) ==
  /\ StoreFree /\ Stored(c.id) = {}
  /\ rows' = Append(rows, NewRow(Routine, c.to, c, TRUE))
  /\ UNCHANGED <<service, queue, worker, app, acks, bounds>>

\* The tick leases the next message.
NextMessage ==
  /\ tick = NoTick /\ StoreFree
  /\ \E i \in NextPending :
       /\ tick' = [id |-> rows[i].command.id, accepted |-> FALSE]
       /\ leased' = leased \cup {rows[i].command.id}
  /\ UNCHANGED <<service, queue, worker, rows, ingested, acks, bounds>>

\* The orchestrator journals what the tick holds, or finds it journalled, or
\* rejects it for good.
Accept ==
  /\ tick # NoTick /\ ~tick.accepted
  /\ tick' = [tick EXCEPT !.accepted = TRUE]
  /\ ingested' = IF Contains(ingested, tick.id) THEN ingested ELSE Append(ingested, tick.id)
  /\ UNCHANGED <<service, queue, worker, rows, leased, acks, bounds>>

\* Faulty variant: the lease of a refused message stays.
ReleaseNothing(id) == leased
Release(id) == leased \ {id}

\* A retryable refusal releases the message.
Refuse ==
  /\ tick # NoTick /\ ~tick.accepted
  /\ retries < MaxRetries /\ retries' = retries + 1
  /\ leased' = Release(tick.id) /\ tick' = NoTick
  /\ UNCHANGED <<service, queue, worker, rows, ingested, acks, calls, replacements>>

\* The acknowledgement, and the release after one that fails.
MarkProcessed ==
  /\ tick # NoTick /\ tick.accepted /\ StoreFree
  /\ tick' = NoTick
  /\ leased' = Release(tick.id)
  /\ \/ rows' = Processed(tick.id) /\ retries' = retries
     \/ rows' = rows /\ retries < MaxRetries /\ retries' = retries + 1
  /\ UNCHANGED <<service, queue, worker, ingested, acks, calls, replacements>>

\* The application stops, at any point, and the service starts again.
Restart ==
  /\ session < MaxSessions /\ session' = session + 1
  /\ directory' = [a \in AgentIds |-> Absent]
  /\ queue' = <<>> /\ worker' = [w \in Workers |-> Idle]
  /\ leased' = {} /\ tick' = NoTick
  /\ UNCHANGED <<rows, acks, ingested, bounds>>

-----------------------------------------------------------------------------
TickStep == NextMessage \/ Accept \/ MarkProcessed
Work(w) == Take(w) \/ Lookup(w) \/ Insert(w)

Next ==
  \/ \E call \in Calls : \E token \in 1..session : Send(call, token)
  \/ \E w \in Workers : Take(w) \/ TakeGarbled(w) \/ Lookup(w) \/ Insert(w) \/ StoreError(w)
  \/ ReplaceAgents
  \/ \E c \in Handoffs : RegisterRoutineHandoff(c)
  \/ NextMessage \/ Accept \/ Refuse \/ MarkProcessed
  \/ Restart

Spec == Init /\ [][Next]_vars

\* The tick runs on a timer; the worker threads run.
FairSpec == Spec /\ WF_vars(TickStep) /\ \A w \in Workers : WF_vars(Work(w))

-----------------------------------------------------------------------------
(* Properties *)

\* An acknowledged message is stored as its sender sent it, through conflicting
\* uses of the identifier, retries, capacity refusals and restarts, and no two
\* rows share an identifier.
AcknowledgedStored ==
  /\ \A call \in acks : \E i \in Stored(call.command.id) :
       rows[i].origin = call.sender /\ rows[i].command = call.command
  /\ \A i, j \in DOMAIN rows : rows[i].command.id = rows[j].command.id => i = j

\* Progress and answers travel between the two ends of the handoff they name.
RepliesBelong ==
  \A i \in DOMAIN rows : rows[i].command.kind \in Replies =>
    /\ Handoff(rows[i].command.ref)
    /\ rows[i].origin = Row(rows[i].command.ref).recipient
    /\ rows[i].recipient = Row(rows[i].command.ref).origin

\* The table holds no more unprocessed messages than its capacity, leased ones
\* included.
PendingBounded == Cardinality(Pending) <= MessageCapacity

\* The orchestrator has taken every message that was stored before one it has
\* taken, and took them in the order of their rows.
Taken(i) == Contains(ingested, rows[i].command.id)
TakenInOrder ==
  /\ \A i, j \in DOMAIN rows : i < j /\ rows[i].origin # Routine /\ Taken(j) => Taken(i)
  /\ \A k, l \in DOMAIN ingested : k < l =>
       \E i, j \in DOMAIN rows :
         i < j /\ rows[i].command.id = ingested[k] /\ rows[j].command.id = ingested[l]

\* A command a worker was told was accepted is stored once and for its own
\* request, a reply is one to a message of its recipient, the inbox never
\* outgrows its limit and is taken in its order.
InboxSound == AcknowledgedStored /\ RepliesBelong /\ PendingBounded /\ TakenInOrder

\* The orchestrator takes the accepted messages in the order they were stored,
\* each once, through refusals, failed acknowledgements and restarts.
Submitted == SelectSeq(rows, LAMBDA r : r.origin # Routine)
Inbox == INSTANCE ReliableStream WITH
  Payloads <- {call.command.id : call \in Calls},
  sent <- [i \in DOMAIN Submitted |-> Submitted[i].command.id],
  got <- ingested
InboxReliable == Inbox!Spec

\* A stored message is processed.
EventuallyProcessed ==
  \A id \in {call.command.id : call \in Calls} :
    Stored(id) # {} ~> \A i \in Stored(id) : rows[i].processed

\* What the expect() messages of validate_capabilities say, "visible recipients
\* remain registered during a request", and not kept: the application replaces
\* the directory at any time.
RegisteredDuringRequest == \A w \in Workers : worker[w].at # "panicked"
=============================================================================
