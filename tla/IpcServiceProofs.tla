-------------------------- MODULE IpcServiceProofs --------------------------
(***************************************************************************)
(* Proofs about IpcService for any agents, calls, workers, capacities,     *)
(* directories, storage errors and restarts: an acknowledged message is    *)
(* stored once and as it was sent, replies stay between the two ends of    *)
(* their handoff, the inbox keeps its bound and is taken in its order.     *)
(*                                                                         *)
(* Between the lookup of a worker and its insertion the lock of the store  *)
(* keeps every other writer out, so what the lookup found still holds; and *)
(* rows are only appended and marked, so what holds of a row stays.        *)
(***************************************************************************)
EXTENDS IpcService, SequenceTheorems, FiniteSetTheorems, TLAPS

Names == AgentIds \cup {Routine, Nobody}
Commands == {call.command : call \in Calls} \cup Handoffs
Ids == {c.id : c \in Commands}
RowRecord == [origin : Names, recipient : Names, command : Commands, processed : BOOLEAN]
Request == [call : Calls, token : Nat]
WorkerState ==
  {Idle, [at |-> "panicked"]} \cup [at : {"authenticated"}, call : Calls]
    \cup [at : {"routed"}, call : Calls, to : Names]

IpcTypes ==
  /\ session \in Nat /\ queue \in Seq(Request) /\ worker \in [Workers -> WorkerState]
  /\ rows \in Seq(RowRecord) /\ ingested \in Seq(Ids)

\* t holds the rows of s, some of them marked, and perhaps more.
Extends(s, t) ==
  /\ DOMAIN s \subseteq DOMAIN t
  /\ \A i \in DOMAIN s : /\ t[i].origin = s[i].origin /\ t[i].recipient = s[i].recipient
                         /\ t[i].command = s[i].command

\* A reply from origin to recipient names a handoff that went the other way.
Replying(s, origin, recipient, c) ==
  \E j \in DOMAIN s : /\ s[j].command.id = c.ref /\ s[j].command.kind \in Sends
                      /\ origin = s[j].recipient /\ recipient = s[j].origin

OneRowEach(s) == \A i, j \in DOMAIN s : s[i].command.id = s[j].command.id => i = j
Belonging(s) ==
  \A i \in DOMAIN s : s[i].command.kind \in Replies => Replying(s, s[i].origin, s[i].recipient, s[i].command)
Kept(s, answered) == \A call \in answered : \E i \in DOMAIN s : s[i].origin = call.sender /\ s[i].command = call.command

\* What a worker that holds the store has found.
Routed(s, state) ==
  state.at = "routed" =>
    /\ \A i \in DOMAIN s : s[i].command.id # state.call.command.id
    /\ state.call.command.kind \in Replies => Replying(s, state.call.sender, state.to, state.call.command)
OneRouted(st) == \A v, w \in Workers : st[v].at = "routed" /\ st[w].at = "routed" => v = w

\* The store, without the order in which it is read.
StoreInv ==
  /\ IpcTypes
  /\ OneRowEach(rows) /\ Belonging(rows) /\ Kept(rows, acks) /\ PendingBounded
  /\ OneRouted(worker) /\ \A w \in Workers : Routed(rows, worker[w])

-----------------------------------------------------------------------------
LEMMA RowTypes ==
  ASSUME IpcTypes
  PROVE  /\ DOMAIN rows = 1..Len(rows) /\ Len(rows) \in Nat
         /\ \A i \in DOMAIN rows : rows[i] \in RowRecord /\ i \in Nat
  BY DEF IpcTypes

LEMMA ExtendsKeeps ==
  ASSUME NEW s, NEW t, Extends(s, t)
  PROVE  /\ \A o, r, c : Replying(s, o, r, c) => Replying(t, o, r, c)
         /\ \A answered : Kept(s, answered) => Kept(t, answered)
<1>1. ASSUME NEW o, NEW r, NEW c, Replying(s, o, r, c) PROVE Replying(t, o, r, c)
  <2>1. PICK j \in DOMAIN s : /\ s[j].command.id = c.ref /\ s[j].command.kind \in Sends
                              /\ o = s[j].recipient /\ r = s[j].origin
    BY <1>1 DEF Replying
  <2>2. j \in DOMAIN t /\ t[j].command = s[j].command /\ t[j].recipient = s[j].recipient /\ t[j].origin = s[j].origin
    BY DEF Extends
  <2> QED
    BY <2>1, <2>2 DEF Replying
<1>2. ASSUME NEW answered, Kept(s, answered) PROVE Kept(t, answered)
  BY <1>2 DEF Kept, Extends
<1> QED
  BY <1>1, <1>2

\* The rows that are still to be processed are finitely many.
LEMMA PendingFinite ==
  ASSUME IpcTypes
  PROVE  IsFiniteSet(Pending) /\ Cardinality(Pending) \in Nat
<1>1. Pending \subseteq 1..Len(rows) /\ Len(rows) \in Nat
  BY RowTypes DEF Pending
<1>2. IsFiniteSet(1..Len(rows))
  BY <1>1, FS_Interval
<1>3. IsFiniteSet(Pending)
  BY <1>1, <1>2, FS_Subset
<1> QED
  BY <1>3, FS_CardinalityType

-----------------------------------------------------------------------------
(* Steps that do not touch the rows *)

\* What the workers are left with after one of them moved on.
LEMMA WorkerStep ==
  ASSUME StoreInv, NEW w \in Workers, NEW state \in WorkerState, state.at # "routed",
         IpcTypes', rows' = rows, worker' = [worker EXCEPT ![w] = state],
         acks' = acks \/ (Kept(rows, acks) => Kept(rows, acks'))
  PROVE  StoreInv'
<1>1. \A v \in Workers : worker'[v] = worker[v] \/ worker'[v].at # "routed"
  BY DEF StoreInv, IpcTypes
<1>2. OneRouted(worker')
  BY <1>1 DEF StoreInv, OneRouted
<1>3. \A v \in Workers : Routed(rows, worker'[v])
  BY <1>1 DEF StoreInv, Routed
<1>4. Kept(rows, acks')
  BY DEF StoreInv
<1>5. PendingBounded'
  BY DEF StoreInv, PendingBounded, Pending
<1>6. OneRowEach(rows') /\ Belonging(rows') /\ Kept(rows', acks')
  BY <1>4 DEF StoreInv
<1>7. \A v \in Workers : Routed(rows', worker'[v])
  BY <1>3
<1> QED
  BY <1>2, <1>5, <1>6, <1>7 DEF StoreInv

\* Everything but the worker that moves and the rows stays as it is.
LEMMA TakeStep ==
  ASSUME StoreInv, NEW w \in Workers, Take(w)
  PROVE  StoreInv'
<1>1. queue \in Seq(Request) /\ queue # <<>> /\ worker \in [Workers -> WorkerState]
  BY DEF StoreInv, IpcTypes, Take
<1>2. Head(queue) \in Request /\ Tail(queue) \in Seq(Request)
  BY <1>1, HeadTailProperties
<1>3. PICK request : request = Head(queue)
  OBVIOUS
<1>4. request.call \in Calls
  BY <1>2, <1>3 DEF Request
<1>5. CASE Refusal(request) # "none"
  <2>1. acks' = acks
    <3>1. Refusal(request) \notin {"accepted", "duplicate"}
      BY DEF Refusal
    <3> QED
      BY <1>3, <1>5, <3>1 DEF Take, Answer
  <2>2. worker' = worker /\ rows' = rows
    BY <1>3, <1>5 DEF Take, service, app, bounds
  <2>3. IpcTypes'
    BY <1>2, <2>2 DEF StoreInv, IpcTypes, Take, service, app
  <2>4. worker' = [worker EXCEPT ![w] = worker[w]] /\ worker[w] \in WorkerState /\ worker[w].at # "routed"
    BY <1>1, <2>2 DEF Take, Idle
  <2> QED
    BY <2>1, <2>2, <2>3, <2>4, WorkerStep
<1>6. CASE Refusal(request) = "none"
  <2>1. PICK state : state = [at |-> "authenticated", call |-> request.call]
    OBVIOUS
  <2>2. state \in WorkerState /\ state.at # "routed"
    BY <1>4, <2>1 DEF WorkerState
  <2>3. worker' = [worker EXCEPT ![w] = state] /\ acks' = acks /\ rows' = rows
    BY <1>3, <1>6, <2>1 DEF Take, app
  <2>4. worker' \in [Workers -> WorkerState]
    BY <1>1, <2>2, <2>3
  <2>5. IpcTypes'
    BY <1>2, <2>3, <2>4 DEF StoreInv, IpcTypes, Take, service, app
  <2> QED
    BY <2>2, <2>3, <2>5, WorkerStep
<1> QED
  BY <1>5, <1>6

\* A step that leaves workers, rows and acknowledgements alone.
LEMMA QuietStep ==
  ASSUME StoreInv, IpcTypes', rows' = rows, worker' = worker, acks' = acks
  PROVE  StoreInv'
<1>1. OneRowEach(rows') /\ Belonging(rows') /\ Kept(rows', acks') /\ OneRouted(worker')
      /\ \A v \in Workers : Routed(rows', worker'[v])
  BY DEF StoreInv
<1>2. PendingBounded'
  BY DEF StoreInv, PendingBounded, Pending
<1> QED
  BY <1>1, <1>2 DEF StoreInv

LEMMA SendStep ==
  ASSUME StoreInv, NEW call \in Calls, NEW token \in 1..session, Send(call, token)
  PROVE  StoreInv'
<1>1. PICK request : request = [call |-> call, token |-> token]
  OBVIOUS
<1>2. request \in Request
  BY <1>1 DEF StoreInv, IpcTypes, Request
<1>3. (queue' = queue \/ queue' = Append(queue, request)) /\ acks' = acks
  <2>1. CASE Len(queue) < QueueCapacity
    BY <1>1, <2>1 DEF Send
  <2>2. CASE ~(Len(queue) < QueueCapacity)
    BY <2>2 DEF Send, Answer
  <2> QED
    BY <2>1, <2>2
<1>4. queue' \in Seq(Request)
  <2>1. queue \in Seq(Request)
    BY DEF StoreInv, IpcTypes
  <2>2. Append(queue, request) \in Seq(Request)
    BY <1>2, <2>1, AppendProperties
  <2> QED
    BY <1>3, <2>1, <2>2
<1>5. rows' = rows /\ worker' = worker /\ session' = session /\ ingested' = ingested
  BY DEF Send, service, app
<1> QED
  BY <1>3, <1>4, <1>5, QuietStep DEF StoreInv, IpcTypes

LEMMA TakeGarbledStep ==
  ASSUME StoreInv, NEW w \in Workers, TakeGarbled(w)
  PROVE  StoreInv'
<1>1. Tail(queue) \in Seq(Request)
  BY HeadTailProperties DEF StoreInv, IpcTypes, TakeGarbled
<1>2. rows' = rows /\ worker' = worker /\ session' = session /\ ingested' = ingested /\ acks' = acks /\ queue' = Tail(queue)
  BY DEF TakeGarbled, service, app, Answer
<1> QED
  BY <1>1, <1>2, QuietStep DEF StoreInv, IpcTypes

\* A worker answers its client and is free again.
LEMMA FinishedStep ==
  ASSUME StoreInv, NEW w \in Workers, NEW result, Finished(w, result),
         worker[w].at \in {"authenticated", "routed"}, rows' = rows, queue' = queue, session' = session,
         ingested' = ingested,
         result = "duplicate" => \E i \in DOMAIN rows :
           rows[i].origin = worker[w].call.sender /\ rows[i].command = worker[w].call.command,
         result # "accepted"
  PROVE  StoreInv'
<1>1. Idle \in WorkerState /\ Idle.at # "routed"
  BY DEF WorkerState, Idle
<1>2. worker' = [worker EXCEPT ![w] = Idle] /\ worker' \in [Workers -> WorkerState]
  BY <1>1 DEF Finished, StoreInv, IpcTypes
<1>3. IpcTypes'
  BY <1>2 DEF StoreInv, IpcTypes
<1>4. Kept(rows, acks) => Kept(rows, acks')
  BY DEF Finished, Answer, Kept
<1> QED
  BY <1>1, <1>2, <1>3, <1>4, WorkerStep

LEMMA StoreErrorStep ==
  ASSUME StoreInv, NEW w \in Workers, StoreError(w)
  PROVE  StoreInv'
  BY FinishedStep DEF StoreError, service, app

\* What the lookup finds, while the store is locked.
LEMMA RowOf ==
  ASSUME NEW id, Stored(id) # {}
  PROVE  \E i \in DOMAIN rows : rows[i].command.id = id /\ Row(id) = rows[i]
<1>1. PICK i : i = CHOOSE j \in Stored(id) : TRUE
  OBVIOUS
<1>2. i \in Stored(id)
  BY <1>1
<1> QED
  BY <1>1, <1>2 DEF Row, Stored

LEMMA RouteReplies ==
  ASSUME NEW sender, NEW c, c.kind \in Replies, Route(sender, c) # Nobody
  PROVE  Replying(rows, sender, Route(sender, c), c)
<1>1. c.kind \notin Sends /\ c.kind \in {"progress", "respond"} \cup (Replies \ {"progress", "respond"})
  BY DEF Replies, Reports, Responses, Sends
<1>2. Handoff(c.ref) /\ Row(c.ref).recipient = sender /\ Route(sender, c) = Row(c.ref).origin
  <2>1. CASE c.kind \in {"progress", "respond"}
    BY <1>1, <2>1 DEF Route
  <2>2. CASE c.kind \in Replies \ {"progress", "respond"}
    BY <1>1, <2>2 DEF Route
  <2> QED
    BY <1>1, <2>1, <2>2
<1>3. PICK i \in DOMAIN rows : rows[i].command.id = c.ref /\ Row(c.ref) = rows[i]
  BY <1>2, RowOf DEF Handoff
<1> QED
  BY <1>2, <1>3 DEF Handoff, Replying

\* The lookup, and what the worker that goes on knows.
LEMMA LookupStep ==
  ASSUME StoreInv, NEW w \in Workers, Lookup(w)
  PROVE  StoreInv'
<1>1. PICK call : call = worker[w].call
  OBVIOUS
<1>2. PICK c : c = call.command
  OBVIOUS
<1>3. PICK to : to = Route(call.sender, c)
  OBVIOUS
<1>4. PICK result :
        result = IF Stored(c.id) # {}
                 THEN IF SameMessage(c.id, call.sender, c) THEN "duplicate" ELSE "idempotency_conflict"
                 ELSE IF to = Nobody \/ to = call.sender THEN "invalid_request"
                 ELSE IF to \in AgentIds /\ ~Registered(to) THEN "agent_not_visible" ELSE "none"
  OBVIOUS
<1>5. /\ worker[w].at = "authenticated" /\ StoreFree
      /\ rows' = rows /\ queue' = queue /\ session' = session /\ ingested' = ingested
      /\ IF result # "none"
         THEN Finished(w, result)
         ELSE worker' = [worker EXCEPT ![w] = [at |-> "routed", call |-> call, to |-> to]] /\ acks' = acks
  BY <1>1, <1>2, <1>3, <1>4 DEF Lookup, service, app
<1>6. CASE result # "none"
  <2>1. result = "duplicate" => \E i \in DOMAIN rows : rows[i].origin = call.sender /\ rows[i].command = c
    <3> SUFFICES ASSUME Stored(c.id) # {} /\ SameMessage(c.id, call.sender, c)
                 PROVE  \E i \in DOMAIN rows : rows[i].origin = call.sender /\ rows[i].command = c
      BY <1>4
    <3> QED
      BY RowOf DEF SameMessage
  <2>2. result # "accepted"
    BY <1>4
  <2> QED
    BY <1>1, <1>2, <1>5, <1>6, <2>1, <2>2, FinishedStep
<1>7. CASE result = "none"
  <2>1. PICK state : state = [at |-> "routed", call |-> call, to |-> to]
    OBVIOUS
  <2>2. Stored(c.id) = {} /\ to # Nobody
    BY <1>4, <1>7
  <2>3. call \in Calls
    BY <1>1, <1>5 DEF StoreInv, IpcTypes, WorkerState, Idle
  <2>4. to \in Names
    <3>1. c.to \in Names
      BY <1>2, <2>3, CallAssumption DEF Names
    <3>2. \A id : Stored(id) # {} => Row(id).origin \in Names /\ Row(id).recipient \in Names
      BY RowOf, RowTypes DEF StoreInv, RowRecord
    <3> HIDE DEF Names
    <3> QED
      BY <1>3, <2>2, <3>1, <3>2 DEF Route, Handoff
  <2>5. state \in WorkerState
    BY <2>1, <2>3, <2>4 DEF WorkerState
  <2>6. worker' = [worker EXCEPT ![w] = state] /\ acks' = acks
    BY <1>5, <1>7, <2>1
  <2>7. worker' \in [Workers -> WorkerState] /\ worker'[w] = state
        /\ \A v \in Workers : v # w => worker'[v] = worker[v]
    BY <2>5, <2>6 DEF StoreInv, IpcTypes
  <2>8. OneRouted(worker')
    BY <1>5, <2>7 DEF StoreFree, OneRouted
  <2>9. Routed(rows, state)
    <3>1. \A i \in DOMAIN rows : rows[i].command.id # c.id
      BY <2>2 DEF Stored
    <3>2. c.kind \in Replies => Replying(rows, call.sender, to, c)
      BY <1>3, <2>2, RouteReplies
    <3>3. state.call = call /\ state.to = to
      BY <2>1
    <3> QED
      BY <1>2, <3>1, <3>2, <3>3 DEF Routed
  <2>10. \A v \in Workers : Routed(rows', worker'[v])
    BY <1>5, <2>7, <2>9 DEF StoreInv
  <2>11. IpcTypes'
    BY <1>5, <2>7 DEF StoreInv, IpcTypes
  <2>12. PendingBounded'
    BY <1>5 DEF StoreInv, PendingBounded, Pending
  <2>13. OneRowEach(rows') /\ Belonging(rows') /\ Kept(rows', acks')
    BY <1>5, <2>6 DEF StoreInv
  <2> QED
    BY <2>8, <2>10, <2>11, <2>12, <2>13 DEF StoreInv
<1> QED
  BY <1>6, <1>7

\* A row at the end of the table.
LEMMA AppendedRow ==
  ASSUME StoreInv, NEW row \in RowRecord, \A i \in DOMAIN rows : rows[i].command.id # row.command.id,
         row.command.kind \in Replies => Replying(rows, row.origin, row.recipient, row.command),
         rows' = Append(rows, row)
  PROVE  /\ rows' \in Seq(RowRecord) /\ DOMAIN rows' = 1..(Len(rows) + 1)
         /\ \A i \in DOMAIN rows : rows'[i] = rows[i]
         /\ rows'[Len(rows) + 1] = row
         /\ Extends(rows, rows') /\ OneRowEach(rows') /\ Belonging(rows')
<1>1. rows \in Seq(RowRecord) /\ DOMAIN rows = 1..Len(rows) /\ Len(rows) \in Nat
  BY RowTypes DEF StoreInv, IpcTypes
<1>2. rows' \in Seq(RowRecord) /\ DOMAIN rows' = 1..(Len(rows) + 1)
      /\ (\A i \in DOMAIN rows : rows'[i] = rows[i]) /\ rows'[Len(rows) + 1] = row
  BY <1>1, AppendProperties
<1>3. Extends(rows, rows')
  BY <1>1, <1>2 DEF Extends
<1>4. \A i \in DOMAIN rows' : i \in DOMAIN rows \/ i = Len(rows) + 1
  BY <1>1, <1>2
<1>5. OneRowEach(rows')
  BY <1>2, <1>4 DEF StoreInv, OneRowEach
<1>6. Belonging(rows')
  <2> SUFFICES ASSUME NEW i \in DOMAIN rows', rows'[i].command.kind \in Replies
               PROVE  Replying(rows', rows'[i].origin, rows'[i].recipient, rows'[i].command)
    BY DEF Belonging
  <2>1. CASE i \in DOMAIN rows
    <3>1. Replying(rows, rows[i].origin, rows[i].recipient, rows[i].command)
      BY <1>2, <2>1 DEF StoreInv, Belonging
    <3> QED
      BY <1>2, <1>3, <2>1, <3>1, ExtendsKeeps
  <2>2. CASE i = Len(rows) + 1
    BY <1>2, <1>3, <2>2, ExtendsKeeps
  <2> QED
    BY <1>4, <2>1, <2>2
<1> QED
  BY <1>2, <1>3, <1>5, <1>6

\* The insertion: what the lookup found still holds, and there is room.
LEMMA InsertStep ==
  ASSUME StoreInv, NEW w \in Workers, Insert(w)
  PROVE  StoreInv'
<1>1. PICK call : call = worker[w].call
  OBVIOUS
<1>2. PICK to : to = worker[w].to
  OBVIOUS
<1>3. PICK c : c = call.command
  OBVIOUS
<1>4. PICK row : row = NewRow(call.sender, to, c, FALSE)
  OBVIOUS
<1>5. /\ worker[w].at = "routed"
      /\ queue' = queue /\ session' = session /\ ingested' = ingested
      /\ \/ worker' = [worker EXCEPT ![w] = [at |-> "panicked"]] /\ rows' = rows /\ acks' = acks
         \/ Finished(w, "invalid_request") /\ rows' = rows
         \/ Finished(w, "service_unavailable") /\ rows' = rows
         \/ HasCapacity /\ rows' = Append(rows, row) /\ Finished(w, "accepted")
  BY <1>1, <1>2, <1>3, <1>4 DEF Insert, service, app
<1>6. CASE worker' = [worker EXCEPT ![w] = [at |-> "panicked"]] /\ rows' = rows /\ acks' = acks
  <2>1. PICK state : state = [at |-> "panicked"]
    OBVIOUS
  <2>2. state \in WorkerState /\ state.at # "routed"
    BY <2>1 DEF WorkerState
  <2>3. worker' \in [Workers -> WorkerState]
    BY <1>6, <2>1, <2>2 DEF StoreInv, IpcTypes
  <2>4. IpcTypes'
    BY <1>5, <1>6, <2>3 DEF StoreInv, IpcTypes
  <2> QED
    BY <1>6, <2>1, <2>2, <2>4, WorkerStep
<1>7. CASE Finished(w, "invalid_request") /\ rows' = rows
  BY <1>5, <1>7, FinishedStep
<1>8. CASE Finished(w, "service_unavailable") /\ rows' = rows
  BY <1>5, <1>8, FinishedStep
<1>9. CASE HasCapacity /\ rows' = Append(rows, row) /\ Finished(w, "accepted")
  <2>1. call \in Calls /\ to \in Names
    BY <1>1, <1>2, <1>5 DEF StoreInv, IpcTypes, WorkerState, Idle
  <2>2. row \in RowRecord /\ row.origin = call.sender /\ row.recipient = to /\ row.command = c /\ row.processed = FALSE
    BY <1>3, <1>4, <2>1, CallAssumption DEF RowRecord, Names, Commands, NewRow
  <2>3. Routed(rows, worker[w])
    BY DEF StoreInv
  <2>4. /\ \A i \in DOMAIN rows : rows[i].command.id # c.id
        /\ c.kind \in Replies => Replying(rows, call.sender, to, c)
    BY <1>1, <1>2, <1>3, <1>5, <2>3 DEF Routed
  <2>5. /\ rows' \in Seq(RowRecord) /\ DOMAIN rows' = 1..(Len(rows) + 1)
        /\ \A i \in DOMAIN rows : rows'[i] = rows[i]
        /\ rows'[Len(rows) + 1] = row
        /\ Extends(rows, rows') /\ OneRowEach(rows') /\ Belonging(rows')
    BY <1>9, <2>2, <2>4, AppendedRow
  <2>6. Idle \in WorkerState /\ Idle.at # "routed"
    BY DEF WorkerState, Idle
  <2>7. worker \in [Workers -> WorkerState] /\ worker' = [worker EXCEPT ![w] = Idle] /\ acks' = acks \cup {call}
    BY <1>1, <1>9 DEF StoreInv, IpcTypes, Finished, Answer
  <2>8. worker' \in [Workers -> WorkerState] /\ worker'[w] = Idle
        /\ \A v \in Workers : v # w => worker'[v] = worker[v]
    BY <2>6, <2>7
  <2>9. OneRouted(worker') /\ \A v \in Workers : Routed(rows', worker'[v])
    BY <1>5, <2>6, <2>8 DEF StoreInv, OneRouted, Routed
  <2>10. DOMAIN rows = 1..Len(rows) /\ Len(rows) \in Nat
    BY RowTypes DEF StoreInv
  <2>11. Kept(rows', acks')
    <3>1. Kept(rows', acks)
      BY <2>5, ExtendsKeeps DEF StoreInv
    <3>2. Len(rows) + 1 \in DOMAIN rows' /\ rows'[Len(rows) + 1].origin = call.sender /\ rows'[Len(rows) + 1].command = call.command
      BY <1>3, <2>2, <2>5, <2>10
    <3> QED
      BY <2>7, <3>1, <3>2 DEF Kept
  <2>12. PendingBounded'
    <3>1. PICK n : n = Len(rows) + 1
      OBVIOUS
    <3>2. Pending' = Pending \cup {n}
      BY <2>2, <2>5, <2>10, <3>1 DEF Pending
    <3>3. IsFiniteSet(Pending) /\ Cardinality(Pending) \in Nat
      BY PendingFinite DEF StoreInv
    <3>4. Cardinality(Pending') \in {Cardinality(Pending), Cardinality(Pending) + 1}
      BY <3>2, <3>3, FS_AddElement
    <3>5. Cardinality(Pending) < MessageCapacity
      BY <1>9 DEF HasCapacity
    <3>6. Cardinality(Pending') <= MessageCapacity
      BY <3>3, <3>4, <3>5, IpcAssumption
    <3> QED
      BY <3>6 DEF PendingBounded
  <2>13. IpcTypes'
    BY <1>5, <2>5, <2>8 DEF StoreInv, IpcTypes
  <2> QED
    BY <2>5, <2>9, <2>11, <2>12, <2>13 DEF StoreInv
<1> QED
  BY <1>5, <1>6, <1>7, <1>8, <1>9

\* The scheduler's registration finds the store free and the identifier unused.
LEMMA RegisterStep ==
  ASSUME StoreInv, NEW c \in Handoffs, RegisterRoutineHandoff(c)
  PROVE  StoreInv'
<1>1. PICK row : row = NewRow(Routine, c.to, c, TRUE)
  OBVIOUS
<1>2. /\ StoreFree /\ rows' = Append(rows, row) /\ Stored(c.id) = {}
      /\ queue' = queue /\ session' = session /\ ingested' = ingested /\ worker' = worker /\ acks' = acks
  BY <1>1 DEF RegisterRoutineHandoff, service, app
<1>3. row \in RowRecord /\ row.command = c /\ row.processed = TRUE
  BY <1>1, CallAssumption DEF RowRecord, Names, Commands, NewRow
<1>4. c.kind \notin Replies
  BY CallAssumption DEF Replies, Reports, Responses
<1>5. \A i \in DOMAIN rows : rows[i].command.id # c.id
  BY <1>2 DEF Stored
<1>6. /\ rows' \in Seq(RowRecord) /\ DOMAIN rows' = 1..(Len(rows) + 1)
      /\ \A i \in DOMAIN rows : rows'[i] = rows[i]
      /\ rows'[Len(rows) + 1] = row
      /\ Extends(rows, rows') /\ OneRowEach(rows') /\ Belonging(rows')
  BY <1>2, <1>3, <1>4, <1>5, AppendedRow
<1>7. DOMAIN rows = 1..Len(rows) /\ Len(rows) \in Nat
  BY RowTypes DEF StoreInv
<1>8. PendingBounded'
  <2>1. Pending' = Pending
    BY <1>3, <1>6, <1>7 DEF Pending
  <2> QED
    BY <2>1 DEF StoreInv, PendingBounded
<1>9. \A v \in Workers : Routed(rows', worker'[v])
  BY <1>2 DEF StoreFree, Routed
<1>10. OneRouted(worker') /\ Kept(rows', acks')
  BY <1>2, <1>6, ExtendsKeeps DEF StoreInv
<1>11. IpcTypes'
  BY <1>2, <1>6 DEF StoreInv, IpcTypes
<1> QED
  BY <1>6, <1>8, <1>9, <1>10, <1>11 DEF StoreInv

\* The acknowledgement marks a row and changes nothing else of it.
LEMMA MarkStep ==
  ASSUME StoreInv, MarkProcessed
  PROVE  StoreInv'
<1>1. CASE rows' = rows
  BY <1>1, QuietStep DEF StoreInv, IpcTypes, MarkProcessed, service
<1>2. CASE rows' = Processed(tick.id)
  <2>1. rows \in Seq(RowRecord) /\ DOMAIN rows = 1..Len(rows) /\ Len(rows) \in Nat
        /\ \A i \in DOMAIN rows : rows[i] \in RowRecord
    BY RowTypes DEF StoreInv, IpcTypes
  <2>2. DOMAIN rows' = DOMAIN rows
        /\ \A i \in DOMAIN rows : /\ rows'[i] \in RowRecord
                                  /\ rows'[i].origin = rows[i].origin /\ rows'[i].recipient = rows[i].recipient
                                  /\ rows'[i].command = rows[i].command
                                  /\ rows[i].processed => rows'[i].processed
    BY <1>2, <2>1 DEF Processed, RowRecord
  <2>3. rows' \in Seq(RowRecord)
    BY <1>2, <2>1, <2>2 DEF Processed
  <2>4. Extends(rows, rows') /\ Extends(rows', rows)
    BY <2>2 DEF Extends
  <2>5. OneRowEach(rows')
    BY <2>2 DEF StoreInv, OneRowEach
  <2>6. Belonging(rows')
    <3>1. \A o, r, c : Replying(rows, o, r, c) => Replying(rows', o, r, c)
      BY <2>4, ExtendsKeeps
    <3> QED
      BY <2>2, <3>1 DEF StoreInv, Belonging
  <2>7. worker' = worker /\ acks' = acks /\ queue' = queue /\ session' = session /\ ingested' = ingested /\ StoreFree
    BY DEF MarkProcessed, service
  <2>8. Kept(rows', acks') /\ OneRouted(worker')
    BY <2>4, <2>7, ExtendsKeeps DEF StoreInv
  <2>9. \A v \in Workers : Routed(rows', worker'[v])
    BY <2>7 DEF StoreFree, Routed
  <2>10. PendingBounded'
    <3>1. Pending' \in SUBSET Pending
      BY <2>2 DEF Pending
    <3>2. IsFiniteSet(Pending) /\ Cardinality(Pending) \in Nat
      BY PendingFinite DEF StoreInv
    <3>3. Cardinality(Pending') <= Cardinality(Pending) /\ Cardinality(Pending') \in Nat
      BY <3>1, <3>2, FS_Subset, FS_CardinalityType
    <3>4. Cardinality(Pending') <= MessageCapacity
      BY <3>2, <3>3, IpcAssumption DEF StoreInv, PendingBounded
    <3> QED
      BY <3>4 DEF PendingBounded
  <2>11. IpcTypes'
    BY <2>3, <2>7 DEF StoreInv, IpcTypes
  <2> QED
    BY <2>5, <2>6, <2>8, <2>9, <2>10, <2>11 DEF StoreInv
<1> QED
  BY <1>1, <1>2 DEF MarkProcessed

\* A restart forgets what the workers did.
LEMMA RestartStep ==
  ASSUME StoreInv, Restart
  PROVE  StoreInv'
<1>1. Idle \in WorkerState /\ Idle.at # "routed"
  BY DEF WorkerState, Idle
<1>2. worker' = [v \in Workers |-> Idle] /\ queue' = <<>> /\ session' = session + 1
      /\ rows' = rows /\ acks' = acks /\ ingested' = ingested
  BY DEF Restart
<1>3. IpcTypes'
  BY <1>1, <1>2 DEF StoreInv, IpcTypes
<1>4. OneRouted(worker') /\ \A v \in Workers : Routed(rows', worker'[v])
  BY <1>1, <1>2 DEF OneRouted, Routed
<1>5. OneRowEach(rows') /\ Belonging(rows') /\ Kept(rows', acks')
  BY <1>2 DEF StoreInv
<1>6. PendingBounded'
  BY <1>2 DEF StoreInv, PendingBounded, Pending
<1> QED
  BY <1>3, <1>4, <1>5, <1>6 DEF StoreInv

-----------------------------------------------------------------------------
(* The order in which the tick takes the rows *)

TickTypes == tick \in [id : Ids \cup {Nobody}, accepted : BOOLEAN]

\* The tick holds the oldest row that was not processed.
HoldsOldest(s, id) ==
  \E i \in DOMAIN s :
    /\ s[i].command.id = id /\ s[i].origin # Routine
    /\ \A j \in DOMAIN s : j < i => s[j].processed

\* The position of an identifier among those the orchestrator took.
Took(got, id) == \E k \in DOMAIN got : got[k] = id

OrderInv ==
  /\ TickTypes
  /\ tick # NoTick => HoldsOldest(rows, tick.id)
  /\ tick.accepted => Took(ingested, tick.id)
  /\ leased \subseteq {tick.id}
  /\ tick = NoTick => leased = {}
  /\ \A i \in DOMAIN rows : rows[i].origin = Routine => rows[i].processed
  /\ \A i \in DOMAIN rows : rows[i].processed /\ rows[i].origin # Routine => Took(ingested, rows[i].command.id)
  /\ \A k \in DOMAIN ingested : \E i \in DOMAIN rows : rows[i].command.id = ingested[k]
  /\ \A i, j \in DOMAIN rows :
       i < j /\ rows[i].origin # Routine /\ Took(ingested, rows[j].command.id) => Took(ingested, rows[i].command.id)
  /\ \A k, l \in DOMAIN ingested : k < l =>
       \E i, j \in DOMAIN rows : i < j /\ rows[i].command.id = ingested[k] /\ rows[j].command.id = ingested[l]

LEMMA TookIsContains ==
  ASSUME IpcTypes, NEW id
  PROVE  Took(ingested, id) <=> Contains(ingested, id)
  BY DEF IpcTypes, Took, Contains

\* A step that touches neither the rows nor the tick.
LEMMA OrderUntouched ==
  ASSUME OrderInv, rows' = rows, tick' = tick, leased' = leased, ingested' = ingested
  PROVE  OrderInv'
  BY DEF OrderInv, TickTypes, HoldsOldest

\* A new row at the end of the table that the orchestrator has not taken.
LEMMA OrderAppended ==
  ASSUME StoreInv, OrderInv, tick' = tick, leased' = leased, ingested' = ingested,
         NEW row \in RowRecord,
         DOMAIN rows' = 1..(Len(rows) + 1),
         \A i \in DOMAIN rows : rows'[i] = rows[i],
         rows'[Len(rows) + 1] = row,
         \A i \in DOMAIN rows : rows[i].command.id # row.command.id,
         row.origin = Routine <=> row.processed
  PROVE  OrderInv'
<1>1. DOMAIN rows = 1..Len(rows) /\ Len(rows) \in Nat
  BY RowTypes DEF StoreInv
<1>2. \A i \in DOMAIN rows' : (i \in DOMAIN rows /\ rows'[i] = rows[i]) \/ (i = Len(rows) + 1 /\ rows'[i] = row)
  BY <1>1
<1>3. DOMAIN rows \subseteq DOMAIN rows' /\ \A i \in DOMAIN rows : i < Len(rows) + 1
  BY <1>1
<1>4. ~Took(ingested, row.command.id)
  BY DEF OrderInv, Took
<1>5. TickTypes' /\ (tick'.accepted => Took(ingested', tick'.id)) /\ leased' \subseteq {tick'.id}
      /\ (tick' = NoTick => leased' = {})
  BY DEF OrderInv, TickTypes
<1>6. tick' # NoTick => HoldsOldest(rows', tick'.id)
  <2> SUFFICES ASSUME tick # NoTick
               PROVE  HoldsOldest(rows', tick'.id)
    OBVIOUS
  <2>1. PICK i \in DOMAIN rows : /\ rows[i].command.id = tick.id /\ rows[i].origin # Routine
                                 /\ \A j \in DOMAIN rows : j < i => rows[j].processed
    BY DEF OrderInv, HoldsOldest
  <2>2. \A j \in DOMAIN rows' : j < i => rows'[j].processed
    BY <1>1, <1>2, <2>1
  <2>3. i \in DOMAIN rows' /\ rows'[i].command.id = tick'.id /\ rows'[i].origin # Routine
    BY <1>3, <2>1
  <2> QED
    BY <2>2, <2>3 DEF HoldsOldest
<1>7. \A i \in DOMAIN rows' : rows'[i].origin = Routine => rows'[i].processed
  BY <1>2 DEF OrderInv
<1>8. \A i \in DOMAIN rows' :
        rows'[i].processed /\ rows'[i].origin # Routine => Took(ingested', rows'[i].command.id)
  BY <1>2 DEF OrderInv
<1>9. \A k \in DOMAIN ingested' : \E i \in DOMAIN rows' : rows'[i].command.id = ingested'[k]
  BY <1>2, <1>3 DEF OrderInv
<1>10. \A i, j \in DOMAIN rows' :
         i < j /\ rows'[i].origin # Routine /\ Took(ingested', rows'[j].command.id)
           => Took(ingested', rows'[i].command.id)
  <2> SUFFICES ASSUME NEW i \in DOMAIN rows', NEW j \in DOMAIN rows',
                      i < j, rows'[i].origin # Routine, Took(ingested, rows'[j].command.id)
               PROVE  Took(ingested, rows'[i].command.id)
    OBVIOUS
  <2>1. j \in DOMAIN rows /\ i \in DOMAIN rows
    BY <1>1, <1>2, <1>4
  <2> QED
    BY <2>1 DEF OrderInv
<1>11. \A k, l \in DOMAIN ingested' : k < l =>
         \E i, j \in DOMAIN rows' : i < j /\ rows'[i].command.id = ingested'[k] /\ rows'[j].command.id = ingested'[l]
  <2> SUFFICES ASSUME NEW k \in DOMAIN ingested, NEW l \in DOMAIN ingested, k < l
               PROVE  \E i, j \in DOMAIN rows' :
                        i < j /\ rows'[i].command.id = ingested[k] /\ rows'[j].command.id = ingested[l]
    OBVIOUS
  <2>1. PICK i \in DOMAIN rows, j \in DOMAIN rows :
          i < j /\ rows[i].command.id = ingested[k] /\ rows[j].command.id = ingested[l]
    BY DEF OrderInv
  <2> QED
    BY <1>3, <2>1
<1> QED
  BY <1>5, <1>6, <1>7, <1>8, <1>9, <1>10, <1>11 DEF OrderInv

\* The tick takes the oldest open row.
LEMMA OrderNext ==
  ASSUME StoreInv, OrderInv, NextMessage
  PROVE  OrderInv'
<1>1. DOMAIN rows = 1..Len(rows) /\ Len(rows) \in Nat /\ \A i \in DOMAIN rows : rows[i] \in RowRecord
  BY RowTypes DEF StoreInv
<1>2. tick = NoTick /\ leased = {} /\ rows' = rows /\ ingested' = ingested
  BY DEF NextMessage, OrderInv
<1>3. PICK i \in NextPending :
        /\ tick' = [id |-> rows[i].command.id, accepted |-> FALSE]
        /\ leased' = leased \cup {rows[i].command.id}
  BY DEF NextMessage
<1>4. i \in DOMAIN rows /\ ~rows[i].processed /\ \A j \in DOMAIN rows : ~rows[j].processed => i <= j
  BY <1>2, <1>3 DEF NextPending, Pending
<1>5. rows[i].origin # Routine
  BY <1>4 DEF OrderInv
<1>6. \A j \in DOMAIN rows : j < i => rows[j].processed
  BY <1>1, <1>4
<1>7. HoldsOldest(rows', tick'.id)
  BY <1>2, <1>3, <1>4, <1>5, <1>6 DEF HoldsOldest
<1>8. TickTypes' /\ ~tick'.accepted /\ leased' \subseteq {tick'.id}
  BY <1>1, <1>2, <1>3, <1>4 DEF TickTypes, RowRecord, Ids
<1>9. tick' # NoTick
  <2>1. rows[i].command.id # Nobody
    BY <1>1, <1>4, CallAssumption DEF RowRecord, Commands
  <2> QED
    BY <1>3, <2>1 DEF NoTick
<1> QED
  BY <1>2, <1>7, <1>8, <1>9 DEF OrderInv

\* What the orchestrator takes is the oldest row it has not taken.
LEMMA OrderAccept ==
  ASSUME StoreInv, OrderInv, Accept
  PROVE  OrderInv'
<1>1. rows' = rows /\ leased' = leased /\ tick # NoTick /\ ~tick.accepted
  BY DEF Accept
<1>2. tick' = [tick EXCEPT !.accepted = TRUE] /\ tick \in [id : Ids \cup {Nobody}, accepted : BOOLEAN]
  BY DEF Accept, OrderInv, TickTypes
<1>3. tick' \in [id : Ids \cup {Nobody}, accepted : BOOLEAN] /\ tick'.id = tick.id /\ tick'.accepted
  BY <1>2
<1>4. tick' # NoTick /\ HoldsOldest(rows, tick.id)
  BY <1>1, <1>3 DEF NoTick, OrderInv
<1>5. PICK o \in DOMAIN rows : /\ rows[o].command.id = tick.id /\ rows[o].origin # Routine
                               /\ \A j \in DOMAIN rows : j < o => rows[j].processed
  BY <1>4 DEF HoldsOldest
<1>6. HoldsOldest(rows', tick'.id)
  BY <1>1, <1>3, <1>4
<1>7. ingested \in Seq(Ids) /\ DOMAIN ingested = 1..Len(ingested) /\ Len(ingested) \in Nat
      /\ DOMAIN rows = 1..Len(rows) /\ Len(rows) \in Nat /\ \A i \in DOMAIN rows : rows[i] \in RowRecord
  BY RowTypes DEF StoreInv, IpcTypes
<1>8. TickTypes' /\ leased' \subseteq {tick'.id}
  BY <1>1, <1>3 DEF OrderInv, TickTypes
<1>9. CASE Took(ingested, tick.id)
  <2>1. ingested' = ingested
    BY <1>9, TookIsContains DEF Accept, StoreInv
  <2> QED
    BY <1>1, <1>3, <1>4, <1>6, <1>8, <1>9, <2>1 DEF OrderInv
<1>10. CASE ~Took(ingested, tick.id)
  <2>1. ingested' = Append(ingested, tick.id)
    BY <1>10, TookIsContains DEF Accept, StoreInv
  <2>2. tick.id \in Ids
    BY <1>5, <1>7 DEF RowRecord, Ids
  <2>3. DOMAIN ingested' = 1..(Len(ingested) + 1)
        /\ (\A k \in DOMAIN ingested : ingested'[k] = ingested[k])
        /\ ingested'[Len(ingested) + 1] = tick.id
    BY <1>7, <2>1, <2>2, AppendProperties
  <2>4. \A k \in DOMAIN ingested' : (k \in DOMAIN ingested /\ ingested'[k] = ingested[k])
                                    \/ (k = Len(ingested) + 1 /\ ingested'[k] = tick.id)
    BY <1>7, <2>3
  <2>5. DOMAIN ingested \subseteq DOMAIN ingested' /\ Len(ingested) + 1 \in DOMAIN ingested'
    BY <1>7, <2>3
  <2>6. \A id : Took(ingested', id) <=> Took(ingested, id) \/ id = tick.id
    BY <2>3, <2>4, <2>5 DEF Took
  <2>7. Took(ingested', tick'.id)
    BY <1>3, <2>6
  <2>8. \A k \in DOMAIN ingested' : \E i \in DOMAIN rows : rows[i].command.id = ingested'[k]
    BY <1>5, <2>4 DEF OrderInv
  <2>9. \A i, j \in DOMAIN rows :
          i < j /\ rows[i].origin # Routine /\ Took(ingested', rows[j].command.id)
            => Took(ingested', rows[i].command.id)
    <3> SUFFICES ASSUME NEW i \in DOMAIN rows, NEW j \in DOMAIN rows,
                        i < j, rows[i].origin # Routine, Took(ingested', rows[j].command.id)
                 PROVE  Took(ingested', rows[i].command.id)
      OBVIOUS
    <3>1. CASE Took(ingested, rows[j].command.id)
      BY <2>6, <3>1 DEF OrderInv
    <3>2. CASE rows[j].command.id = tick.id
      <4>1. j = o
        BY <1>5, <3>2 DEF StoreInv, OneRowEach
      <4>2. rows[i].processed
        BY <1>5, <4>1
      <4> QED
        BY <2>6, <4>2 DEF OrderInv
    <3> QED
      BY <2>6, <3>1, <3>2
  <2>10. \A k, l \in DOMAIN ingested' : k < l =>
           \E i, j \in DOMAIN rows : i < j /\ rows[i].command.id = ingested'[k] /\ rows[j].command.id = ingested'[l]
    <3> SUFFICES ASSUME NEW k \in DOMAIN ingested', NEW l \in DOMAIN ingested', k < l
                 PROVE  \E i, j \in DOMAIN rows :
                          i < j /\ rows[i].command.id = ingested'[k] /\ rows[j].command.id = ingested'[l]
      OBVIOUS
    <3>1. k \in DOMAIN ingested /\ ingested'[k] = ingested[k]
      BY <1>7, <2>3, <2>4
    <3>2. CASE l \in DOMAIN ingested /\ ingested'[l] = ingested[l]
      BY <3>1, <3>2 DEF OrderInv
    <3>3. CASE l = Len(ingested) + 1 /\ ingested'[l] = tick.id
      <4>1. PICK i \in DOMAIN rows : rows[i].command.id = ingested[k]
        BY <3>1 DEF OrderInv
      <4>2. Took(ingested, rows[i].command.id)
        BY <3>1, <4>1 DEF Took
      <4>3. i # o /\ ~(o < i)
        BY <1>5, <1>10, <4>2 DEF OrderInv
      <4>4. i < o
        BY <1>7, <4>3
      <4> QED
        BY <1>5, <3>1, <3>3, <4>1, <4>4
    <3> QED
      BY <2>4, <3>2, <3>3
  <2>11. \A i \in DOMAIN rows : rows[i].processed /\ rows[i].origin # Routine => Took(ingested', rows[i].command.id)
    BY <2>6 DEF OrderInv
  <2> QED
    BY <1>1, <1>4, <1>6, <1>8, <2>7, <2>8, <2>9, <2>10, <2>11 DEF OrderInv
<1> QED
  BY <1>9, <1>10

LEMMA OrderRefuse ==
  ASSUME OrderInv, Refuse
  PROVE  OrderInv'
<1>1. leased' = {} /\ tick' = NoTick /\ rows' = rows /\ ingested' = ingested
  BY DEF Refuse, Release, OrderInv
<1> QED
  BY <1>1 DEF OrderInv, TickTypes, NoTick

\* Only a row the orchestrator has taken is marked.
LEMMA OrderMark ==
  ASSUME StoreInv, OrderInv, MarkProcessed
  PROVE  OrderInv'
<1>1. leased' = {} /\ tick' = NoTick /\ ingested' = ingested /\ Took(ingested, tick.id)
  BY DEF MarkProcessed, Release, OrderInv
<1>2. TickTypes' /\ ~tick'.accepted
  BY <1>1 DEF TickTypes, NoTick
<1>3. CASE rows' = rows
  BY <1>1, <1>2, <1>3 DEF OrderInv
<1>4. CASE rows' = Processed(tick.id)
  <2>1. \A i \in DOMAIN rows : rows[i] \in RowRecord
    BY RowTypes DEF StoreInv
  <2>2. DOMAIN rows' = DOMAIN rows
        /\ \A i \in DOMAIN rows :
             /\ rows'[i].origin = rows[i].origin /\ rows'[i].command = rows[i].command
             /\ rows[i].processed => rows'[i].processed
             /\ rows'[i].processed => rows[i].processed \/ rows[i].command.id = tick.id
    BY <1>4, <2>1 DEF Processed, Stored, RowRecord
  <2>3. \A i \in DOMAIN rows' : rows'[i].origin = Routine => rows'[i].processed
    BY <2>2 DEF OrderInv
  <2>4. \A i \in DOMAIN rows' :
          rows'[i].processed /\ rows'[i].origin # Routine => Took(ingested, rows'[i].command.id)
    BY <1>1, <2>2 DEF OrderInv
  <2>5. \A k \in DOMAIN ingested : \E i \in DOMAIN rows' : rows'[i].command.id = ingested[k]
    BY <2>2 DEF OrderInv
  <2>6. \A i, j \in DOMAIN rows' :
          i < j /\ rows'[i].origin # Routine /\ Took(ingested, rows'[j].command.id)
            => Took(ingested, rows'[i].command.id)
    BY <2>2 DEF OrderInv
  <2>7. \A k, l \in DOMAIN ingested : k < l =>
          \E i, j \in DOMAIN rows' : i < j /\ rows'[i].command.id = ingested[k] /\ rows'[j].command.id = ingested[l]
    <3> SUFFICES ASSUME NEW k \in DOMAIN ingested, NEW l \in DOMAIN ingested, k < l
                 PROVE  \E i, j \in DOMAIN rows' :
                          i < j /\ rows'[i].command.id = ingested[k] /\ rows'[j].command.id = ingested[l]
      OBVIOUS
    <3>1. PICK i \in DOMAIN rows, j \in DOMAIN rows :
            i < j /\ rows[i].command.id = ingested[k] /\ rows[j].command.id = ingested[l]
      BY DEF OrderInv
    <3> QED
      BY <2>2, <3>1
  <2> QED
    BY <1>1, <1>2, <2>3, <2>4, <2>5, <2>6, <2>7 DEF OrderInv
<1> QED
  BY <1>3, <1>4 DEF MarkProcessed

LEMMA OrderRestart ==
  ASSUME OrderInv, Restart
  PROVE  OrderInv'
  BY DEF OrderInv, Restart, TickTypes, NoTick

\* The insertion appends what the lookup did not find.
LEMMA OrderInsert ==
  ASSUME StoreInv, OrderInv, NEW w \in Workers, Insert(w)
  PROVE  OrderInv'
<1>1. PICK call : call = worker[w].call
  OBVIOUS
<1>2. PICK to : to = worker[w].to
  OBVIOUS
<1>3. PICK c : c = call.command
  OBVIOUS
<1>4. PICK row : row = NewRow(call.sender, to, c, FALSE)
  OBVIOUS
<1>5. worker[w].at = "routed" /\ tick' = tick /\ leased' = leased /\ ingested' = ingested
      /\ (rows' = rows \/ rows' = Append(rows, row))
  BY <1>1, <1>2, <1>3, <1>4 DEF Insert, app
<1>6. CASE rows' = rows
  BY <1>5, <1>6, OrderUntouched
<1>7. CASE rows' = Append(rows, row)
  <2>1. call \in Calls /\ to \in Names
    BY <1>1, <1>2, <1>5 DEF StoreInv, IpcTypes, WorkerState, Idle
  <2>2. row \in RowRecord /\ row.origin = call.sender /\ row.recipient = to /\ row.command = c /\ row.processed = FALSE
    BY <1>3, <1>4, <2>1, CallAssumption DEF RowRecord, Names, Commands, NewRow
  <2>3. row.origin # Routine
    BY <2>1, <2>2, CallAssumption
  <2>4. Routed(rows, worker[w])
    BY DEF StoreInv
  <2>5. /\ \A i \in DOMAIN rows : rows[i].command.id # c.id
        /\ c.kind \in Replies => Replying(rows, call.sender, to, c)
    BY <1>1, <1>2, <1>3, <1>5, <2>4 DEF Routed
  <2>6. DOMAIN rows' = 1..(Len(rows) + 1) /\ (\A i \in DOMAIN rows : rows'[i] = rows[i])
        /\ rows'[Len(rows) + 1] = row
    BY <1>7, <2>2, <2>5, AppendedRow
  <2>7. row.origin = Routine <=> row.processed
    BY <2>2, <2>3
  <2>8. \A i \in DOMAIN rows : rows[i].command.id # row.command.id
    BY <2>2, <2>5
  <2> QED
    BY <1>5, <2>2, <2>6, <2>7, <2>8, OrderAppended
<1> QED
  BY <1>5, <1>6, <1>7

LEMMA OrderRegister ==
  ASSUME StoreInv, OrderInv, NEW c \in Handoffs, RegisterRoutineHandoff(c)
  PROVE  OrderInv'
<1>1. PICK row : row = NewRow(Routine, c.to, c, TRUE)
  OBVIOUS
<1>2. rows' = Append(rows, row) /\ Stored(c.id) = {} /\ tick' = tick /\ leased' = leased /\ ingested' = ingested
  BY <1>1 DEF RegisterRoutineHandoff, app
<1>3. row \in RowRecord /\ row.command = c /\ row.origin = Routine /\ row.processed = TRUE
  BY <1>1, CallAssumption DEF RowRecord, Names, Commands, NewRow
<1>4. row.command.kind \notin Replies
  BY <1>3, CallAssumption DEF Replies, Reports, Responses
<1>5. \A i \in DOMAIN rows : rows[i].command.id # row.command.id
  BY <1>2, <1>3 DEF Stored
<1>6. DOMAIN rows' = 1..(Len(rows) + 1) /\ (\A i \in DOMAIN rows : rows'[i] = rows[i])
      /\ rows'[Len(rows) + 1] = row
  BY <1>2, <1>3, <1>4, <1>5, AppendedRow
<1>7. row.origin = Routine <=> row.processed
  BY <1>3
<1> QED
  BY <1>2, <1>3, <1>5, <1>6, <1>7, OrderAppended

-----------------------------------------------------------------------------
(* The invariant and what follows from it *)

InboxInv == StoreInv /\ OrderInv

LEMMA InboxInit == Init => InboxInv
<1> SUFFICES ASSUME Init PROVE InboxInv
  OBVIOUS
<1>1. Idle \in WorkerState /\ Idle.at # "routed"
  BY DEF WorkerState, Idle
<1>2. IpcTypes
  BY <1>1 DEF Init, IpcTypes
<1>3. OneRowEach(rows) /\ Belonging(rows) /\ Kept(rows, acks)
  BY DEF Init, OneRowEach, Belonging, Kept
<1>4. OneRouted(worker) /\ \A w \in Workers : Routed(rows, worker[w])
  BY <1>1 DEF Init, OneRouted, Routed
<1>5. PendingBounded
  <2>1. Pending = {}
    BY DEF Init, Pending
  <2>2. Cardinality(Pending) = 0
    BY <2>1, FS_EmptySet
  <2> QED
    BY <2>2, IpcAssumption DEF PendingBounded
<1>6. OrderInv
  BY DEF Init, OrderInv, TickTypes, NoTick
<1> QED
  BY <1>2, <1>3, <1>4, <1>5, <1>6 DEF InboxInv, StoreInv

LEMMA InboxStep == InboxInv /\ [Next]_vars => InboxInv'
<1> SUFFICES ASSUME StoreInv, OrderInv, [Next]_vars PROVE StoreInv' /\ OrderInv'
  BY DEF InboxInv
<1>1. ASSUME NEW call \in Calls, NEW token \in 1..session, Send(call, token) PROVE StoreInv' /\ OrderInv'
  BY <1>1, SendStep, OrderUntouched DEF Send, app
<1>2. ASSUME NEW w \in Workers, Take(w) PROVE StoreInv' /\ OrderInv'
  BY <1>2, TakeStep, OrderUntouched DEF Take, app
<1>3. ASSUME NEW w \in Workers, TakeGarbled(w) PROVE StoreInv' /\ OrderInv'
  BY <1>3, TakeGarbledStep, OrderUntouched DEF TakeGarbled, app
<1>4. ASSUME NEW w \in Workers, Lookup(w) PROVE StoreInv' /\ OrderInv'
  BY <1>4, LookupStep, OrderUntouched DEF Lookup, app
<1>5. ASSUME NEW w \in Workers, Insert(w) PROVE StoreInv' /\ OrderInv'
  BY <1>5, InsertStep, OrderInsert
<1>6. ASSUME NEW w \in Workers, StoreError(w) PROVE StoreInv' /\ OrderInv'
  BY <1>6, StoreErrorStep, OrderUntouched DEF StoreError, app
<1>7. CASE ReplaceAgents
  <2>1. /\ session' = session /\ queue' = queue /\ worker' = worker /\ rows' = rows /\ acks' = acks
        /\ ingested' = ingested /\ tick' = tick /\ leased' = leased
    BY <1>7 DEF ReplaceAgents, app
  <2>2. IpcTypes'
    BY <2>1 DEF StoreInv, IpcTypes
  <2> QED
    BY <2>1, <2>2, QuietStep, OrderUntouched
<1>8. ASSUME NEW c \in Handoffs, RegisterRoutineHandoff(c) PROVE StoreInv' /\ OrderInv'
  BY <1>8, RegisterStep, OrderRegister
<1>9. CASE NextMessage
  <2>1. session' = session /\ queue' = queue /\ worker' = worker /\ rows' = rows /\ acks' = acks
        /\ ingested' = ingested
    BY <1>9 DEF NextMessage, service
  <2>2. IpcTypes'
    BY <2>1 DEF StoreInv, IpcTypes
  <2> QED
    BY <1>9, <2>1, <2>2, QuietStep, OrderNext
<1>10. CASE Accept
  <2>1. session' = session /\ queue' = queue /\ worker' = worker /\ rows' = rows /\ acks' = acks
    BY <1>10 DEF Accept, service
  <2>2. ingested' \in Seq(Ids)
    <3>1. ingested \in Seq(Ids) /\ \A i \in DOMAIN rows : rows[i] \in RowRecord
      BY RowTypes DEF StoreInv, IpcTypes
    <3>2. tick.id \in Ids
      BY <1>10, <3>1 DEF Accept, OrderInv, HoldsOldest, RowRecord, Ids
    <3>3. Append(ingested, tick.id) \in Seq(Ids)
      BY <3>1, <3>2, AppendProperties
    <3> QED
      BY <1>10, <3>1, <3>3 DEF Accept
  <2>3. IpcTypes'
    BY <2>1, <2>2 DEF StoreInv, IpcTypes
  <2> QED
    BY <1>10, <2>1, <2>3, QuietStep, OrderAccept
<1>11. CASE Refuse
  <2>1. session' = session /\ queue' = queue /\ worker' = worker /\ rows' = rows /\ acks' = acks
        /\ ingested' = ingested
    BY <1>11 DEF Refuse, service
  <2>2. IpcTypes'
    BY <2>1 DEF StoreInv, IpcTypes
  <2> QED
    BY <1>11, <2>1, <2>2, QuietStep, OrderRefuse
<1>12. CASE MarkProcessed
  BY <1>12, MarkStep, OrderMark
<1>13. CASE Restart
  BY <1>13, RestartStep, OrderRestart
<1>14. CASE UNCHANGED vars
  <2>1. /\ session' = session /\ queue' = queue /\ worker' = worker /\ rows' = rows /\ acks' = acks
        /\ ingested' = ingested /\ tick' = tick /\ leased' = leased
    BY <1>14 DEF vars, service, app
  <2>2. IpcTypes'
    BY <2>1 DEF StoreInv, IpcTypes
  <2> QED
    BY <2>1, <2>2, QuietStep, OrderUntouched
<1> QED
  BY <1>1, <1>2, <1>3, <1>4, <1>5, <1>6, <1>7, <1>8, <1>9, <1>10, <1>11, <1>12, <1>13, <1>14 DEF Next

\* The row of an identifier is the only one.
LEMMA InboxMeans == InboxInv => InboxSound
<1> SUFFICES ASSUME StoreInv, OrderInv PROVE InboxSound
  BY DEF InboxInv
<1>1. AcknowledgedStored
  BY DEF StoreInv, Kept, OneRowEach, AcknowledgedStored, Stored
<1>2. RepliesBelong
  <2> SUFFICES ASSUME NEW i \in DOMAIN rows, rows[i].command.kind \in Replies
               PROVE  /\ Handoff(rows[i].command.ref)
                      /\ rows[i].origin = Row(rows[i].command.ref).recipient
                      /\ rows[i].recipient = Row(rows[i].command.ref).origin
    BY DEF RepliesBelong
  <2>1. PICK ref : ref = rows[i].command.ref
    OBVIOUS
  <2>2. PICK j \in DOMAIN rows : /\ rows[j].command.id = ref /\ rows[j].command.kind \in Sends
                                 /\ rows[i].origin = rows[j].recipient /\ rows[i].recipient = rows[j].origin
    BY <2>1 DEF StoreInv, Belonging, Replying
  <2>3. Stored(ref) # {}
    BY <2>2 DEF Stored
  <2>4. PICK k \in DOMAIN rows : rows[k].command.id = ref /\ Row(ref) = rows[k]
    BY <2>3, RowOf
  <2>5. k = j
    BY <2>2, <2>4 DEF StoreInv, OneRowEach
  <2> QED
    BY <2>1, <2>2, <2>3, <2>4, <2>5 DEF Handoff
<1>3. TakenInOrder
  <2>1. \A i, j \in DOMAIN rows : i < j /\ rows[i].origin # Routine /\ Taken(j) => Taken(i)
    BY TookIsContains DEF StoreInv, OrderInv, Taken
  <2> QED
    BY <2>1 DEF OrderInv, TakenInOrder
<1> QED
  BY <1>1, <1>2, <1>3 DEF StoreInv, InboxSound

\* The inductive invariant of the service, through calls of any agents, worker
\* interleavings, replacements of the directory, storage errors and restarts.
THEOREM InboxInductive == Spec => []InboxInv
  BY InboxInit, InboxStep, PTL DEF Spec

\* What store.rs and server.rs promise of the inbox: an acknowledged message
\* is stored once and as it was sent, a reply goes to the other end of its
\* handoff, the table keeps its capacity, and the orchestrator takes the rows
\* in their order and none before an earlier one.
THEOREM InboxIsSound == Spec => []InboxSound
  BY InboxInductive, InboxMeans, PTL

-----------------------------------------------------------------------------
(* What a step may not do *)

\* A stored message is neither removed nor changed, and one that was processed
\* is not open again: mark_processed is the only update of the table.
RowsStay ==
  \A i \in DOMAIN rows :
    /\ i \in DOMAIN rows' /\ rows'[i].origin = rows[i].origin
    /\ rows'[i].recipient = rows[i].recipient /\ rows'[i].command = rows[i].command
    /\ rows[i].processed => rows'[i].processed

LEMMA AppendStays ==
  ASSUME IpcTypes, NEW row, rows' = Append(rows, row)
  PROVE  RowsStay
<1>1. \A i \in DOMAIN rows : i \in DOMAIN rows' /\ rows'[i] = rows[i]
  BY DEF IpcTypes
<1> QED
  BY <1>1 DEF RowsStay

LEMMA RowsStayStep == StoreInv /\ [Next]_vars => RowsStay
<1> SUFFICES ASSUME StoreInv, [Next]_vars PROVE RowsStay
  OBVIOUS
<1>1. ASSUME rows' = rows PROVE RowsStay
  BY <1>1 DEF RowsStay
<1>2. ASSUME NEW w \in Workers, Insert(w) PROVE RowsStay
  <2>1. rows' = rows \/ \E row : rows' = Append(rows, row)
    BY <1>2 DEF Insert
  <2> QED
    BY <1>1, <2>1, AppendStays DEF StoreInv
<1>3. ASSUME NEW c \in Handoffs, RegisterRoutineHandoff(c) PROVE RowsStay
  BY <1>3, AppendStays DEF RegisterRoutineHandoff, StoreInv
<1>4. CASE MarkProcessed
  <2>1. CASE rows' = Processed(tick.id)
    <3>1. \A i \in DOMAIN rows : rows[i] \in RowRecord
      BY RowTypes DEF StoreInv
    <3> QED
      BY <2>1, <3>1 DEF Processed, RowsStay, RowRecord
  <2> QED
    BY <1>1, <1>4, <2>1 DEF MarkProcessed
<1>5. ASSUME NEW w \in Workers, Take(w) \/ TakeGarbled(w) \/ Lookup(w) \/ StoreError(w) PROVE rows' = rows
  BY <1>5 DEF Take, TakeGarbled, Lookup, StoreError
<1>6. CASE ReplaceAgents \/ NextMessage \/ Accept \/ Refuse \/ Restart
  BY <1>1, <1>6 DEF ReplaceAgents, NextMessage, Accept, Refuse, Restart
<1>7. ASSUME NEW call \in Calls, NEW token \in 1..session, Send(call, token) PROVE rows' = rows
  BY <1>7 DEF Send
<1>8. CASE UNCHANGED vars
  BY <1>1, <1>8 DEF vars
<1> QED
  BY <1>1, <1>2, <1>3, <1>4, <1>5, <1>6, <1>7, <1>8 DEF Next

THEOREM RowsAreKept == Spec => [][RowsStay]_vars
<1>1. InboxInv => StoreInv
  BY DEF InboxInv
<1> QED
  BY <1>1, InboxInductive, RowsStayStep, PTL DEF Spec
=============================================================================
