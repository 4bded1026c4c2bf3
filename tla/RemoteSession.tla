---------------------------- MODULE RemoteSession ----------------------------
(***************************************************************************)
(* The encrypted remote session of src/src/remote/: a paired device and    *)
(* the host exchange sequenced payloads through a relay that may lose,     *)
(* duplicate, delay and reorder packets.  Both ends run the code of        *)
(* session.rs over the durable checkpoint of storage.rs; the host also     *)
(* keeps the command ledger of coordinator.rs.                             *)
(*                                                                         *)
(* Every operation persists the checkpoint before its packet or result is  *)
(* returned.  The staged delivery lives in memory, and an operation that   *)
(* fails rebuilds the session from the checkpoint, which forgets it.       *)
(* Encryption is left out: a packet that fails validation is one failing   *)
(* operation.  So is the highest control nonce, which only chooses the     *)
(* name of a result.                                                       *)
(***************************************************************************)
EXTENDS Integers, Sequences, FiniteSets

CONSTANTS
  Deltas,      \* what the host sends: "event" and "receipt"
  Commands,    \* command identifiers the device may use
  MaxOutbox,   \* MAX_OUTBOX_PACKETS
  MaxSent,     \* bound: payloads sent by an end
  MaxNonce,    \* bound: packets produced by an end
  FaultKinds,  \* subset of {"crash", "db", "garbled", "refused"}
  MaxFaults    \* bound: faults in a behaviour

ASSUME SessionAssumption ==
  /\ MaxOutbox \in Nat \ {0}
  /\ MaxSent \in [{"host", "device"} -> Nat]
  /\ MaxNonce \in [{"host", "device"} -> Nat]
  /\ MaxFaults \in Nat

Ends == {"host", "device"}
Peer(p) == IF p = "host" THEN "device" ELSE "host"
PayloadsOf(p) == IF p = "host" THEN Deltas ELSE Commands
NoDelivery == [seq |-> 0, payload |-> "none"]
Records == {"none", "pending", "completed"}
Grants == {"full", "reduced", "revoked"}

VARIABLES
  ckpt,       \* durable checkpoint of each end
  staged,     \* the delivery a session exposed and has not committed (memory)
  job,        \* the delivery the application of an end works on (memory)
  net,        \* packets the relay holds
  grant,      \* the host's registry entry of the device
  ledger,     \* the host's durable command records
  executed,   \* how often the host carried out a command
  sent, got,  \* payloads an end recorded for its peer and committed from it
  faults      \* faults so far

session == <<ckpt, staged>>
vars == <<ckpt, staged, job, net, grant, ledger, executed, sent, got, faults>>

-----------------------------------------------------------------------------
(* session.rs *)

Packet(p, seq, payload) ==
  [from |-> p, nonce |-> ckpt[p].nonce, seq |-> seq, ack |-> ckpt[p].committed, payload |-> payload]

\* ensure_active: the device never revokes the host.
PeerActive(p) == p = "host" => grant # "revoked"

\* A failed operation rebuilds the session from its previous checkpoint.
Rebuild(p) == staged' = [staged EXCEPT ![p] = NoDelivery]

Outstanding(outbox, acknowledged) == {k \in outbox : k.seq > acknowledged}

SendPayload(p, v) ==
  /\ PeerActive(p)
  /\ v = "event" => grant = "full"
  /\ Cardinality(ckpt[p].outbox) < MaxOutbox
  /\ Len(sent[p]) < MaxSent[p] /\ ckpt[p].nonce <= MaxNonce[p]
  /\ LET k == Packet(p, ckpt[p].next, v)
     IN  /\ ckpt' = [ckpt EXCEPT ![p].next = @ + 1, ![p].nonce = @ + 1, ![p].outbox = @ \cup {k}]
         /\ net' = net \cup {k}
  /\ sent' = [sent EXCEPT ![p] = Append(@, v)]
  /\ UNCHANGED <<staged, job, grant, ledger, executed, got, faults>>

Acknowledge(p) ==
  /\ PeerActive(p) /\ ckpt[p].nonce <= MaxNonce[p]
  /\ ckpt' = [ckpt EXCEPT ![p].nonce = @ + 1]
  /\ net' = net \cup {Packet(p, 0, "ack")}
  /\ UNCHANGED <<staged, job, grant, ledger, executed, sent, got, faults>>

\* Faulty variant: a gap is delivered.
ExpectedLater(p, k) ==
  k.seq > ckpt[p].committed /\ k.seq # staged[p].seq
Expected(p, k) == k.seq = ckpt[p].committed + 1 /\ k.seq # staged[p].seq

\* The next payload is exposed; duplicates, gaps and control packets (sequence
\* 0) only acknowledge.
Receive(p, k) ==
  /\ k.from = Peer(p) /\ PeerActive(p)
  /\ k.ack < ckpt[p].next
  /\ ckpt' = [ckpt EXCEPT ![p].outbox = Outstanding(@, k.ack)]
  /\ IF Expected(p, k)
     THEN /\ staged' = [staged EXCEPT ![p] = [seq |-> k.seq, payload |-> k.payload]]
          /\ job' = [job EXCEPT ![p] = [seq |-> k.seq, payload |-> k.payload, done |-> FALSE]]
     ELSE UNCHANGED <<staged, job>>
  /\ UNCHANGED <<net, grant, ledger, executed, sent, got, faults>>

NoJob == [seq |-> 0, payload |-> "none", done |-> TRUE]

\* commit_received: the staged delivery is committed, or the call fails.
CommitDelivery(p) ==
  /\ job[p] # NoJob /\ job[p].done
  /\ PeerActive(p)
  /\ job' = [job EXCEPT ![p] = NoJob]
  /\ IF staged[p].seq = job[p].seq
     THEN /\ ckpt' = [ckpt EXCEPT ![p].committed = staged[p].seq]
          /\ got' = [got EXCEPT ![p] = Append(@, staged[p].payload)]
          /\ staged' = [staged EXCEPT ![p] = NoDelivery]
     ELSE Rebuild(p) /\ UNCHANGED <<ckpt, got>>
  /\ UNCHANGED <<net, grant, ledger, executed, sent, faults>>

Reconnect(p) ==
  /\ PeerActive(p)
  /\ net' = net \cup ckpt[p].outbox
  /\ UNCHANGED <<session, job, grant, ledger, executed, sent, got, faults>>

-----------------------------------------------------------------------------
(* The application: events need no more than a durable record, commands go *)
(* through handle_command.                                                 *)

Working(p) == job[p] # NoJob /\ ~job[p].done
Finish(p) == job' = [job EXCEPT ![p].done = TRUE]

RecordDelta ==
  /\ Working("device")
  /\ Finish("device")
  /\ UNCHANGED <<session, net, grant, ledger, executed, sent, got, faults>>

\* Faulty variant: a pending command runs again.
MayRetry(c) == grant = "full" /\ ledger[c] # "completed"
\* The command is authorized and its identifier was never seen.
MayExecute(c) == grant = "full" /\ ledger[c] = "none"

\* A command that may not be executed, now or again, is answered as it is.
AnswerCommand ==
  /\ Working("host")
  /\ ~MayExecute(job["host"].payload)
  /\ Finish("host")
  /\ UNCHANGED <<session, net, grant, ledger, executed, sent, got, faults>>

\* begin_command, the side effect and complete_command.
ExecuteCommand ==
  /\ Working("host")
  /\ LET c == job["host"].payload
     IN  /\ MayExecute(c)
         /\ ledger' = [ledger EXCEPT ![c] = "completed"]
         /\ executed' = [executed EXCEPT ![c] = @ + 1]
  /\ Finish("host")
  /\ UNCHANGED <<session, net, grant, sent, got, faults>>

-----------------------------------------------------------------------------
(* Faults, the relay and the host's user *)

Fault(kind) == kind \in FaultKinds /\ faults < MaxFaults /\ faults' = faults + 1

\* handle_command stops after begin_command, before or after the side effect:
\* the process dies, or the completed receipt cannot be saved.
CommandStops(kind, done) ==
  /\ Working("host") /\ Fault(kind)
  /\ kind = "db" => done
  /\ LET c == job["host"].payload
     IN  /\ MayExecute(c)
         /\ ledger' = [ledger EXCEPT ![c] = "pending"]
         /\ executed' = IF done THEN [executed EXCEPT ![c] = @ + 1] ELSE executed
  /\ IF kind = "crash" THEN Rebuild("host") /\ job' = [job EXCEPT !["host"] = NoJob]
                       ELSE UNCHANGED <<staged, job>>
  /\ UNCHANGED <<ckpt, net, grant, sent, got>>

\* The outbox is full, or the registry forbids an event or any packet.
Refused(p) ==
  \/ PeerActive(p) /\ Cardinality(ckpt[p].outbox) >= MaxOutbox
  \/ p = "host" /\ grant # "full"

\* An operation of the session fails: it is refused, its packet does not
\* validate or its checkpoint cannot be saved.
OperationFails(p) ==
  /\ Fault("db") \/ Fault("garbled") \/ (Refused(p) /\ Fault("refused"))
  /\ Rebuild(p)
  /\ UNCHANGED <<ckpt, job, net, grant, ledger, executed, sent, got>>

\* A restart resumes the checkpointed session.
Crash(p) ==
  /\ Fault("crash")
  /\ Rebuild(p)
  /\ job' = [job EXCEPT ![p] = NoJob]
  /\ UNCHANGED <<ckpt, net, grant, ledger, executed, sent, got>>

Lose(k) ==
  /\ net' = net \ {k}
  /\ UNCHANGED <<session, job, grant, ledger, executed, sent, got, faults>>

\* update_grant and revoke_device; revocation also forgets the session.
SetGrant(g) ==
  /\ grant # "revoked" /\ g # grant
  /\ grant' = g
  /\ UNCHANGED <<session, job, net, ledger, executed, sent, got, faults>>

-----------------------------------------------------------------------------
Init ==
  /\ ckpt = [p \in Ends |-> [next |-> 1, nonce |-> 1, committed |-> 0, outbox |-> {}]]
  /\ staged = [p \in Ends |-> NoDelivery]
  /\ job = [p \in Ends |-> NoJob]
  /\ net = {}
  /\ grant = "full"
  /\ ledger = [c \in Commands |-> "none"]
  /\ executed = [c \in Commands |-> 0]
  /\ sent = [p \in Ends |-> <<>>] /\ got = [p \in Ends |-> <<>>]
  /\ faults = 0

Handle == RecordDelta \/ AnswerCommand \/ ExecuteCommand

Next ==
  \/ \E p \in Ends : \/ \E v \in PayloadsOf(p) : SendPayload(p, v)
                     \/ Acknowledge(p) \/ CommitDelivery(p) \/ Reconnect(p)
                     \/ OperationFails(p) \/ Crash(p)
                     \/ \E k \in net : Receive(p, k)
  \/ Handle
  \/ \E kind \in {"crash", "db"}, done \in BOOLEAN : CommandStops(kind, done)
  \/ \E k \in net : Lose(k)
  \/ \E g \in Grants : SetGrant(g)

Spec == Init /\ [][Next]_vars

\* The ends reconnect as long as packets are outstanding, the relay does not
\* lose a packet for ever that is sent again and again, and the applications
\* handle and commit what they are given.
Fairness ==
  /\ \A p \in Ends : /\ WF_vars(Reconnect(p)) /\ WF_vars(CommitDelivery(p))
                     /\ SF_vars(\E k \in net : k.seq = ckpt[p].committed + 1 /\ Receive(p, k))
  /\ WF_vars(Handle)

FairSpec == Spec /\ Fairness

-----------------------------------------------------------------------------
(* Properties *)

PacketRecord(p) ==
  [from : {p}, nonce : Nat, seq : Nat, ack : Nat, payload : PayloadsOf(p) \cup {"ack"}]

\* The state is well formed.
TypeOK ==
  /\ \A p \in Ends :
       /\ ckpt[p].next \in Nat /\ ckpt[p].nonce \in Nat /\ ckpt[p].committed \in Nat
       /\ ckpt[p].outbox \subseteq PacketRecord(p)
       /\ staged[p] \in [seq : Nat, payload : PayloadsOf(Peer(p)) \cup {"none"}]
       /\ job[p] \in [seq : Nat, payload : PayloadsOf(Peer(p)) \cup {"none"}, done : BOOLEAN]
       /\ sent[p] \in Seq(PayloadsOf(p)) /\ got[p] \in Seq(PayloadsOf(Peer(p)))
  /\ net \subseteq PacketRecord("host") \cup PacketRecord("device")
  /\ grant \in Grants
  /\ ledger \in [Commands -> Records] /\ executed \in [Commands -> Nat]
  /\ faults \in 0..MaxFaults

\* A command is carried out at most once, whatever is retransmitted, resent
\* or interrupted, and a completed record means that it was.
ExecutedOnce ==
  \A c \in Commands : executed[c] <= 1 /\ (ledger[c] = "completed" => executed[c] = 1)

\* Two packets of a sender with the same nonce are the same packet, restarts
\* included: the nonce of the cipher is never used twice.
Produced(p) == {k \in net \cup ckpt[p].outbox : k.from = p}
NonceFresh ==
  \A p \in Ends : \A k \in Produced(p) :
    k.nonce < ckpt[p].nonce /\ \A l \in Produced(p) : k.nonce = l.nonce => k = l

\* The outbox holds every payload that the peer has not committed, so nothing
\* acknowledged early is lost with a crash of the receiver.
OutboxComplete ==
  \A p \in Ends : \A n \in ckpt[Peer(p)].committed + 1..ckpt[p].next - 1 :
    \E k \in ckpt[p].outbox : k.seq = n

\* Commands, nonces and outboxes survive every fault of the relay, the store
\* and either end.
SessionSound == ExecutedOnce /\ NonceFresh /\ OutboxComplete

\* Revocation is immediate: the host sends, accepts and executes nothing more.
RevokedSilent ==
  [][grant = "revoked" => UNCHANGED <<sent["host"], got["host"], executed>>]_vars

\* Each direction of the session implements a reliable stream.
Down == INSTANCE ReliableStream WITH
  Payloads <- Deltas, sent <- sent["host"], got <- got["device"]
Up == INSTANCE ReliableStream WITH
  Payloads <- Commands, sent <- sent["device"], got <- got["host"]
StreamsReliable == Down!Spec /\ Up!Spec

\* Every payload an end records is committed by its peer, unless the device is
\* revoked.
Delivered(p, n) == Len(got[Peer(p)]) >= n \/ grant = "revoked"
EventuallyDelivered ==
  \A p \in Ends : \A n \in 1..MaxSent[p] : Len(sent[p]) >= n ~> Delivered(p, n)
=============================================================================
