----------------------------- MODULE PeersProofs -----------------------------
(***************************************************************************)
(* Proofs about the peers at the other end of a wire, through the module   *)
(* that puts them side by side (MCPeers).  First RemoteSession, for any    *)
(* payloads and commands, limits and faults of every kind: commands run    *)
(* once, nonces are fresh, outboxes are complete and both directions are   *)
(* reliable streams.  Then Plugins, for any folders, ids, capabilities and *)
(* limits: a plugin holds what was consented to, and calls get their own   *)
(* answers.                                                                *)
(***************************************************************************)
EXTENDS MCPeers, SequenceTheorems, WellFoundedInduction, TLAPS

Contents == Deltas \cup Commands
Packets == [from : Ends, nonce : Nat, seq : Nat, ack : Nat, payload : Contents \cup {"ack"}]
Checkpoints == [next : Nat, nonce : Nat, committed : Nat, outbox : SUBSET Packets]
Deliveries == [seq : Nat, payload : Contents \cup {"none"}]
Jobs == [seq : Nat, payload : Contents \cup {"none"}, done : BOOLEAN]

\* The state as functions over the two ends, which TypeOK leaves open.
Shape ==
  /\ ckpt \in [Ends -> Checkpoints]
  /\ staged \in [Ends -> Deliveries] /\ job \in [Ends -> Jobs]
  /\ net \subseteq Packets
  /\ grant \in Grants
  /\ ledger \in [Commands -> Records] /\ executed \in [Commands -> Nat]
  /\ sent \in [Ends -> Seq(Contents)] /\ got \in [Ends -> Seq(Contents)]
  /\ faults \in 0..MaxFaults

\* A packet carries what its sender recorded at its sequence number, or is a
\* control packet; it acknowledges nothing its sender has not committed.
Genuine(k) ==
  /\ k.seq = 0 => k.payload = "ack"
  /\ k.seq > 0 => k.seq <= Len(sent[k.from]) /\ k.payload = sent[k.from][k.seq]
  /\ k.ack <= ckpt[k.from].committed
  /\ k.nonce < ckpt[k.from].nonce

PacketsGenuine ==
  /\ \A k \in net : Genuine(k)
  /\ \A p \in Ends : \A k \in ckpt[p].outbox : Genuine(k) /\ k.from = p /\ k.seq > 0

\* A staged delivery is the next payload of the peer.
StagedNext ==
  \A p \in Ends : staged[p] # NoDelivery =>
    /\ staged[p].seq = ckpt[p].committed + 1
    /\ staged[p].seq <= Len(sent[Peer(p)])
    /\ staged[p].payload = sent[Peer(p)][staged[p].seq]

\* The application works on payloads of the peer.
JobsGenuine ==
  \A p \in Ends : job[p] # NoJob => job[p].seq > 0 /\ job[p].payload \in PayloadsOf(Peer(p))

\* Sequence numbers count what was recorded and committed, and what was
\* committed is what the peer recorded.
Counted ==
  \A p \in Ends :
    /\ sent[p] \in Seq(PayloadsOf(p))
    /\ ckpt[p].next = Len(sent[p]) + 1 /\ ckpt[p].committed = Len(got[p])
    /\ Len(got[p]) <= Len(sent[Peer(p)])
    /\ \A n \in 1..Len(got[p]) : got[p][n] = sent[Peer(p)][n]

\* The ledger knows every command that was begun.
LedgerSound == ExecutedOnce /\ \A c \in Commands : ledger[c] = "none" => executed[c] = 0

Inv ==
  /\ Shape /\ PacketsGenuine /\ NonceFresh /\ StagedNext /\ JobsGenuine /\ Counted
  /\ OutboxComplete /\ LedgerSound

LEMMA PeerFacts ==
  \A p \in Ends : Peer(p) \in Ends /\ Peer(Peer(p)) = p /\ Peer(p) # p /\ PayloadsOf(p) \subseteq Contents
  BY DEF Peer, Ends, PayloadsOf, Contents

LEMMA InitInv == Init => Inv
<1> SUFFICES ASSUME Init PROVE Inv
  OBVIOUS
<1>1. Shape
  BY SessionAssumption DEF Init, Shape, Checkpoints, Deliveries, Jobs, NoDelivery, NoJob, Grants, Records
<1>2. PacketsGenuine /\ NonceFresh /\ StagedNext /\ JobsGenuine /\ OutboxComplete /\ LedgerSound
  BY PeerFacts DEF Init, PacketsGenuine, NonceFresh, Produced, StagedNext, JobsGenuine, OutboxComplete,
     LedgerSound, ExecutedOnce, NoDelivery
<1>3. Counted
  BY PeerFacts DEF Init, Counted
<1> QED
  BY <1>1, <1>2, <1>3 DEF Inv

\* What appending does to a sequence.
LEMMA AppendFacts ==
  ASSUME NEW S, NEW s \in Seq(S), NEW e \in S
  PROVE  /\ Append(s, e) \in Seq(S) /\ Len(Append(s, e)) = Len(s) + 1 /\ Len(s) \in Nat
         /\ \A n \in 1..Len(s) : Append(s, e)[n] = s[n] /\ s[n] \in S
         /\ Append(s, e)[Len(s) + 1] = e
  OBVIOUS

\* Genuineness depends on what was sent, committed and counted, all of which
\* only grows.
LEMMA GenuineStays ==
  ASSUME Inv, NEW m \in Packets, Genuine(m), ckpt' \in [Ends -> Checkpoints],
         \A q \in Ends : /\ sent'[q] \in Seq(Contents) /\ Len(sent[q]) <= Len(sent'[q])
                         /\ \A n \in 1..Len(sent[q]) : sent'[q][n] = sent[q][n]
                         /\ ckpt[q].committed <= ckpt'[q].committed
                         /\ ckpt[q].nonce <= ckpt'[q].nonce
  PROVE  Genuine(m)'
<1> DEFINE q == m.from
<1>1. m.from \in Ends /\ m.seq \in Nat /\ m.ack \in Nat /\ m.nonce \in Nat
  BY DEF Packets
<1>2. /\ ckpt[q].nonce \in Nat /\ ckpt[q].committed \in Nat
      /\ ckpt'[q].nonce \in Nat /\ ckpt'[q].committed \in Nat
  BY <1>1 DEF Inv, Shape, Checkpoints
<1>3. Len(sent[q]) \in Nat /\ Len(sent'[q]) \in Nat
  BY <1>1 DEF Inv, Shape
<1>4. ckpt[q].committed <= ckpt'[q].committed /\ ckpt[q].nonce <= ckpt'[q].nonce /\ Len(sent[q]) <= Len(sent'[q])
  BY <1>1
<1>5. m.ack <= ckpt'[q].committed /\ m.nonce < ckpt'[q].nonce
  BY <1>1, <1>2, <1>4 DEF Genuine
<1>6. ASSUME m.seq > 0 PROVE m.seq <= Len(sent'[q]) /\ m.payload = sent'[q][m.seq]
  BY <1>1, <1>3, <1>4, <1>6 DEF Genuine
<1> QED
  BY <1>5, <1>6 DEF Genuine

\* A new packet keeps the packets genuine and the nonces fresh.
LEMMA NewPacket ==
  ASSUME Inv, NEW p \in Ends, NEW k \in Packets,
         k.from = p, k.nonce = ckpt[p].nonce, Genuine(k)', net' = net \cup {k},
         ckpt' \in [Ends -> Checkpoints], ckpt'[p].nonce = ckpt[p].nonce + 1,
         \/ ckpt'[p].outbox = ckpt[p].outbox
         \/ ckpt'[p].outbox = ckpt[p].outbox \cup {k} /\ k.seq > 0,
         \A q \in Ends : q # p => ckpt'[q].outbox = ckpt[q].outbox /\ ckpt'[q].nonce = ckpt[q].nonce,
         \A m \in Packets : Genuine(m) => Genuine(m)'
  PROVE  PacketsGenuine' /\ NonceFresh'
<1>1. \A q \in Ends : ckpt[q].nonce \in Nat /\ ckpt[q].outbox \subseteq Packets
  BY DEF Inv, Shape, Checkpoints
<1>2. \A m \in Packets : m.from \in Ends /\ m.nonce \in Nat
  BY DEF Packets
<1>3. net \subseteq Packets
  BY DEF Inv, Shape
<1>4. \A m \in net' : Genuine(m)'
  BY <1>3 DEF Inv, PacketsGenuine
<1>5. \A q \in Ends : \A m \in ckpt'[q].outbox : Genuine(m)' /\ m.from = q /\ m.seq > 0
  BY <1>1 DEF Inv, PacketsGenuine
<1>6. PacketsGenuine'
  BY <1>4, <1>5 DEF PacketsGenuine
<1>7. \A q \in Ends : \A m \in Produced(q) : m \in Packets /\ m.nonce < ckpt[q].nonce
  BY <1>1, <1>3 DEF Inv, NonceFresh, Produced
<1>8. \A q \in Ends : \A m \in Produced(q)' : m \in Produced(q) \/ (q = p /\ m = k)
  BY DEF Produced
<1>9. ASSUME NEW q \in Ends, NEW m \in Produced(q)', NEW l \in Produced(q)'
      PROVE  m.nonce < ckpt'[q].nonce /\ (m.nonce = l.nonce => m = l)
  BY <1>1, <1>2, <1>7, <1>8, <1>9 DEF Inv, NonceFresh
<1> QED
  BY <1>6, <1>9 DEF NonceFresh

\* What recording a payload does to the state.
LEMMA SendPayloadFacts ==
  ASSUME Inv, NEW p \in Ends, NEW v \in PayloadsOf(p), SendPayload(p, v),
         NEW k, k = Packet(p, ckpt[p].next, v)
  PROVE  /\ k \in Packets /\ k.from = p /\ k.seq = Len(sent[p]) + 1 /\ k.payload = v
         /\ k.nonce = ckpt[p].nonce /\ k.ack = ckpt[p].committed
         /\ ckpt' \in [Ends -> Checkpoints]
         /\ ckpt'[p].next = ckpt[p].next + 1 /\ ckpt'[p].nonce = ckpt[p].nonce + 1
         /\ ckpt'[p].committed = ckpt[p].committed /\ ckpt'[p].outbox = ckpt[p].outbox \cup {k}
         /\ sent' \in [Ends -> Seq(Contents)] /\ sent'[p] \in Seq(PayloadsOf(p))
         /\ Len(sent'[p]) = Len(sent[p]) + 1 /\ sent'[p][Len(sent[p]) + 1] = v
         /\ \A n \in 1..Len(sent[p]) : sent'[p][n] = sent[p][n]
         /\ \A q \in Ends : q # p => ckpt'[q] = ckpt[q] /\ sent'[q] = sent[q]
<1>1. /\ k \in Packets /\ k.from = p /\ k.seq = Len(sent[p]) + 1 /\ k.payload = v
      /\ k.nonce = ckpt[p].nonce /\ k.ack = ckpt[p].committed
  BY PeerFacts DEF Inv, Shape, Checkpoints, Packets, Packet, Counted
<1>2. /\ ckpt[p].next \in Nat /\ ckpt[p].nonce \in Nat /\ ckpt[p].committed \in Nat
      /\ ckpt[p].outbox \subseteq Packets
  BY DEF Inv, Shape, Checkpoints
<1> DEFINE r == [next |-> ckpt[p].next + 1, nonce |-> ckpt[p].nonce + 1,
                 committed |-> ckpt[p].committed, outbox |-> ckpt[p].outbox \cup {k}]
<1>3. r \in Checkpoints
  BY <1>1, <1>2 DEF Checkpoints
<1>4. ckpt \in [Ends -> Checkpoints]
  BY DEF Inv, Shape
<1>5. ckpt[p] = [next |-> ckpt[p].next, nonce |-> ckpt[p].nonce,
                 committed |-> ckpt[p].committed, outbox |-> ckpt[p].outbox]
  BY <1>4 DEF Checkpoints
<1>6. ckpt' = [ckpt EXCEPT ![p].next = @ + 1, ![p].nonce = @ + 1, ![p].outbox = @ \cup {k}]
  BY DEF SendPayload
<1>7. ckpt'[p] = r /\ (\A q \in Ends : q # p => ckpt'[q] = ckpt[q]) /\ DOMAIN ckpt' = Ends
  BY <1>4, <1>5, <1>6
<1>8. ckpt' \in [Ends -> Checkpoints]
  BY <1>3, <1>4, <1>6, <1>7
<1>9. sent' = [sent EXCEPT ![p] = Append(sent[p], v)] /\ sent \in [Ends -> Seq(Contents)]
  BY DEF Inv, Shape, SendPayload
<1>10. sent[p] \in Seq(PayloadsOf(p)) /\ sent[p] \in Seq(Contents) /\ v \in Contents
  BY PeerFacts DEF Inv, Shape, Counted
<1>11. sent'[p] = Append(sent[p], v) /\ \A q \in Ends : q # p => sent'[q] = sent[q]
  BY <1>9
<1>12. Append(sent[p], v) \in Seq(Contents) /\ Append(sent[p], v) \in Seq(PayloadsOf(p))
  BY <1>10, AppendFacts
<1>13. sent' \in [Ends -> Seq(Contents)]
  BY <1>9, <1>11, <1>12
<1>14. /\ Len(sent'[p]) = Len(sent[p]) + 1 /\ sent'[p][Len(sent[p]) + 1] = v
       /\ \A n \in 1..Len(sent[p]) : sent'[p][n] = sent[p][n]
  BY <1>10, <1>11, AppendFacts
<1> QED
  BY <1>1, <1>7, <1>8, <1>11, <1>12, <1>13, <1>14

\* Recording a payload.
LEMMA SendStep ==
  ASSUME Inv, NEW p \in Ends, NEW v \in PayloadsOf(p), SendPayload(p, v)
  PROVE  Inv'
<1>k. PICK k : k = Packet(p, ckpt[p].next, v)
  OBVIOUS
<1>1. /\ k \in Packets /\ k.from = p /\ k.seq = Len(sent[p]) + 1 /\ k.payload = v
      /\ k.nonce = ckpt[p].nonce /\ k.ack = ckpt[p].committed
  BY <1>k, SendPayloadFacts
<1>2. /\ ckpt' \in [Ends -> Checkpoints]
      /\ ckpt'[p].next = ckpt[p].next + 1 /\ ckpt'[p].nonce = ckpt[p].nonce + 1
      /\ ckpt'[p].committed = ckpt[p].committed /\ ckpt'[p].outbox = ckpt[p].outbox \cup {k}
  BY <1>k, SendPayloadFacts
<1>3. /\ sent' \in [Ends -> Seq(Contents)] /\ sent'[p] \in Seq(PayloadsOf(p))
      /\ Len(sent'[p]) = Len(sent[p]) + 1 /\ sent'[p][Len(sent[p]) + 1] = v
      /\ \A n \in 1..Len(sent[p]) : sent'[p][n] = sent[p][n]
      /\ \A q \in Ends : q # p => ckpt'[q] = ckpt[q] /\ sent'[q] = sent[q]
  BY <1>k, SendPayloadFacts
<1>4. /\ net' = net \cup {k}
      /\ UNCHANGED <<staged, job, grant, ledger, executed, got, faults>>
  BY <1>k DEF SendPayload
<1>5. \A q \in Ends : /\ Len(sent[q]) \in Nat /\ ckpt[q].committed \in Nat /\ ckpt[q].nonce \in Nat
                      /\ ckpt[q].next \in Nat /\ Len(got[q]) \in Nat
  BY DEF Inv, Shape, Checkpoints
<1>6. \A q \in Ends : /\ sent'[q] \in Seq(Contents) /\ Len(sent[q]) <= Len(sent'[q])
                      /\ \A n \in 1..Len(sent[q]) : sent'[q][n] = sent[q][n]
                      /\ ckpt[q].committed <= ckpt'[q].committed /\ ckpt[q].nonce <= ckpt'[q].nonce
                      /\ ckpt'[q].committed = ckpt[q].committed
  <2> SUFFICES ASSUME NEW q \in Ends
               PROVE  /\ sent'[q] \in Seq(Contents) /\ Len(sent[q]) <= Len(sent'[q])
                      /\ \A n \in 1..Len(sent[q]) : sent'[q][n] = sent[q][n]
                      /\ ckpt[q].committed <= ckpt'[q].committed /\ ckpt[q].nonce <= ckpt'[q].nonce
                      /\ ckpt'[q].committed = ckpt[q].committed
    OBVIOUS
  <2>1. CASE q = p
    BY <1>2, <1>3, <1>5, <2>1
  <2>2. CASE q # p
    <3>1. sent'[q] = sent[q] /\ ckpt'[q] = ckpt[q] /\ sent'[q] \in Seq(Contents)
      BY <1>3, <2>2
    <3> QED
      BY <1>5, <3>1
  <2> QED
    BY <2>1, <2>2
<1>7. Genuine(k)'
  BY <1>1, <1>2, <1>3, <1>5 DEF Genuine
<1>8. \A m \in Packets : Genuine(m) => Genuine(m)'
  BY <1>2, <1>5, <1>6, GenuineStays
<1>9. PacketsGenuine' /\ NonceFresh'
  <2>1. k.seq > 0 /\ net' = net \cup {k}
    BY <1>1, <1>4, <1>5
  <2>2. \A q \in Ends : q # p => ckpt'[q].outbox = ckpt[q].outbox /\ ckpt'[q].nonce = ckpt[q].nonce
    BY <1>3
  <2> QED
    BY <1>1, <1>2, <1>7, <1>8, <2>1, <2>2, NewPacket
<1>10. Shape'
  <2>1. net' \subseteq Packets
    BY <1>1, <1>4 DEF Inv, Shape
  <2> QED
    BY <1>2, <1>3, <1>4, <2>1 DEF Inv, Shape
<1>11. StagedNext' /\ JobsGenuine'
  <2>1. \A q \in Ends : staged[q].seq \in Nat
    BY DEF Inv, Shape, Deliveries
  <2>2. JobsGenuine'
    BY <1>4 DEF Inv, JobsGenuine
  <2> SUFFICES ASSUME NEW q \in Ends, staged[q] # NoDelivery
               PROVE  /\ staged[q].seq = ckpt'[q].committed + 1
                      /\ staged[q].seq <= Len(sent'[Peer(q)])
                      /\ staged[q].payload = sent'[Peer(q)][staged[q].seq]
    BY <1>4, <2>2 DEF StagedNext
  <2>3. /\ staged[q].seq = ckpt[q].committed + 1
        /\ staged[q].seq <= Len(sent[Peer(q)])
        /\ staged[q].payload = sent[Peer(q)][staged[q].seq]
    BY DEF Inv, StagedNext
  <2>4. Peer(q) \in Ends
    BY PeerFacts
  <2> QED
    BY <1>5, <1>6, <2>1, <2>3, <2>4
<1>12. Counted'
  <2>1. \A q \in Ends : /\ sent'[q] \in Seq(PayloadsOf(q)) /\ ckpt'[q].next = Len(sent'[q]) + 1
    BY <1>2, <1>3 DEF Inv, Counted
  <2>2. ASSUME NEW q \in Ends
        PROVE  /\ ckpt'[q].committed = Len(got[q]) /\ Len(got[q]) <= Len(sent'[Peer(q)])
               /\ \A n \in 1..Len(got[q]) : got[q][n] = sent'[Peer(q)][n]
    <3>1. Peer(q) \in Ends
      BY PeerFacts
    <3>2. /\ ckpt[q].committed = Len(got[q]) /\ Len(got[q]) <= Len(sent[Peer(q)])
          /\ \A n \in 1..Len(got[q]) : got[q][n] = sent[Peer(q)][n]
      BY DEF Inv, Counted
    <3>3. Len(got[q]) \in Nat /\ Len(sent[Peer(q)]) \in Nat /\ Len(sent'[Peer(q)]) \in Nat
      BY <1>5, <1>6, <3>1
    <3> QED
      BY <1>6, <3>1, <3>2, <3>3, SMTT(30)
  <2> QED
    BY <1>4, <2>1, <2>2 DEF Counted
<1>13. OutboxComplete'
  <2> SUFFICES ASSUME NEW q \in Ends, NEW n \in ckpt'[Peer(q)].committed + 1..ckpt'[q].next - 1
               PROVE  \E m \in ckpt'[q].outbox : m.seq = n
    BY DEF OutboxComplete
  <2>1. CASE q = p /\ n = ckpt[p].next
    BY <1>1, <1>2, <2>1 DEF Inv, Counted
  <2>2. CASE ~(q = p /\ n = ckpt[p].next)
    <3>1. n \in ckpt[Peer(q)].committed + 1..ckpt[q].next - 1
      BY <1>2, <1>3, <1>5, <1>6, <2>2, PeerFacts, SMTT(30)
    <3>2. PICK m \in ckpt[q].outbox : m.seq = n
      BY <3>1 DEF Inv, OutboxComplete
    <3>3. m \in ckpt'[q].outbox
      BY <1>2, <1>3
    <3> QED
      BY <3>2, <3>3
  <2> QED
    BY <2>1, <2>2
<1>14. LedgerSound'
  BY <1>4 DEF Inv, LedgerSound, ExecutedOnce
<1> QED
  BY <1>9, <1>10, <1>11, <1>12, <1>13, <1>14 DEF Inv

\* Sending a control packet.
LEMMA AcknowledgeStep ==
  ASSUME Inv, NEW p \in Ends, Acknowledge(p)
  PROVE  Inv'
<1>1. PICK k : k = Packet(p, 0, "ack")
  OBVIOUS
<1>2. /\ ckpt' = [ckpt EXCEPT ![p].nonce = @ + 1] /\ net' = net \cup {k}
      /\ UNCHANGED <<staged, job, grant, ledger, executed, sent, got, faults>>
  BY <1>1 DEF Acknowledge
<1>3. \A q \in Ends : /\ ckpt[q] \in Checkpoints /\ ckpt[q].nonce \in Nat /\ ckpt[q].committed \in Nat
                      /\ sent[q] \in Seq(Contents)
  BY DEF Inv, Shape, Checkpoints
<1>4. k \in Packets /\ k.from = p /\ k.nonce = ckpt[p].nonce /\ k.seq = 0 /\ k.payload = "ack" /\ k.ack = ckpt[p].committed
  BY <1>1, <1>3 DEF Packet, Packets
<1>5. /\ ckpt' \in [Ends -> Checkpoints] /\ ckpt'[p].nonce = ckpt[p].nonce + 1
      /\ \A q \in Ends : /\ q # p => ckpt'[q] = ckpt[q]
                         /\ ckpt'[q].next = ckpt[q].next /\ ckpt'[q].committed = ckpt[q].committed
                         /\ ckpt'[q].outbox = ckpt[q].outbox
  <2>1. [ckpt[p] EXCEPT !.nonce = @ + 1] \in Checkpoints
    BY <1>3 DEF Checkpoints
  <2>2. ckpt \in [Ends -> Checkpoints]
    BY DEF Inv, Shape
  <2>3. ckpt' = [ckpt EXCEPT ![p] = [ckpt[p] EXCEPT !.nonce = @ + 1]]
    BY <1>2, <2>2
  <2> QED
    BY <2>1, <2>2, <2>3 DEF Checkpoints
<1>6. \A q \in Ends : ckpt[q].nonce <= ckpt'[q].nonce
  BY <1>3, <1>5
<1>7. Genuine(k)'
  BY <1>2, <1>3, <1>4, <1>5 DEF Genuine
<1>8. \A m \in Packets : Genuine(m) => Genuine(m)'
  BY <1>2, <1>3, <1>5, <1>6, GenuineStays
<1>9. PacketsGenuine' /\ NonceFresh'
  BY <1>2, <1>4, <1>5, <1>7, <1>8, NewPacket
<1>10. Shape'
  BY <1>2, <1>4, <1>5 DEF Inv, Shape
<1>11. StagedNext' /\ JobsGenuine' /\ LedgerSound'
  BY <1>2, <1>5 DEF Inv, StagedNext, JobsGenuine, LedgerSound, ExecutedOnce
<1>12. Counted'
  BY <1>2, <1>5 DEF Inv, Counted
<1>13. OutboxComplete'
  BY <1>5, PeerFacts DEF Inv, OutboxComplete
<1> QED
  BY <1>9, <1>10, <1>11, <1>12, <1>13 DEF Inv

\* Steps that record, commit and acknowledge nothing.
LEMMA LocalStep ==
  ASSUME Inv, UNCHANGED <<ckpt, sent, got>>,
         staged' \in [Ends -> Deliveries], \A q \in Ends : staged'[q] \in {staged[q], NoDelivery},
         job' \in [Ends -> Jobs],
         \A q \in Ends : job'[q] = NoJob \/ (job[q] # NoJob /\ job'[q].seq = job[q].seq /\ job'[q].payload = job[q].payload),
         \A k \in net' : k \in net \/ \E q \in Ends : k \in ckpt[q].outbox,
         grant' \in Grants, ledger' \in [Commands -> Records], executed' \in [Commands -> Nat],
         faults' \in 0..MaxFaults, LedgerSound'
  PROVE  Inv'
<1>1. \A q \in Ends : ckpt[q].outbox \subseteq Packets
  BY DEF Inv, Shape, Checkpoints
<1>2. Shape'
  BY <1>1 DEF Inv, Shape
<1>3. PacketsGenuine'
  BY DEF Inv, PacketsGenuine, Genuine
<1>4. NonceFresh'
  <2>1. \A q \in Ends : Produced(q)' \subseteq Produced(q)
    BY DEF Inv, PacketsGenuine, Produced
  <2> QED
    BY <2>1 DEF Inv, NonceFresh
<1>5. StagedNext'
  BY DEF Inv, StagedNext, NoDelivery
<1>6. JobsGenuine'
  BY DEF Inv, JobsGenuine
<1>7. Counted' /\ OutboxComplete'
  BY DEF Inv, Counted, OutboxComplete
<1> QED
  BY <1>2, <1>3, <1>4, <1>5, <1>6, <1>7 DEF Inv

\* Rebuilding a session, and what an application finishes, keep their types.
LEMMA RebuildFacts ==
  ASSUME Inv, NEW p \in Ends
  PROVE  /\ Rebuild(p) => /\ staged' \in [Ends -> Deliveries]
                          /\ \A q \in Ends : staged'[q] \in {staged[q], NoDelivery}
         /\ job' = [job EXCEPT ![p] = NoJob] =>
              job' \in [Ends -> Jobs] /\ \A q \in Ends : job'[q] \in {job[q], NoJob}
         /\ Working(p) /\ Finish(p) =>
              /\ job' \in [Ends -> Jobs] /\ job[p] # NoJob
              /\ \A q \in Ends : q # p => job'[q] = job[q]
              /\ job'[p].seq = job[p].seq /\ job'[p].payload = job[p].payload
<1>1. NoDelivery \in Deliveries /\ NoJob \in Jobs
  BY DEF NoDelivery, NoJob, Deliveries, Jobs
<1>2. staged \in [Ends -> Deliveries] /\ job \in [Ends -> Jobs]
  BY DEF Inv, Shape
<1>3. job[p] \in Jobs
  BY <1>2
<1>4. [job[p] EXCEPT !.done = TRUE].seq = job[p].seq /\ [job[p] EXCEPT !.done = TRUE].payload = job[p].payload
  BY <1>3 DEF Jobs
<1>5. [job[p] EXCEPT !.done = TRUE] \in Jobs
  BY <1>3 DEF Jobs
<1>6. Rebuild(p) => staged' \in [Ends -> Deliveries] /\ \A q \in Ends : staged'[q] \in {staged[q], NoDelivery}
  BY <1>1, <1>2 DEF Rebuild
<1>7. job' = [job EXCEPT ![p] = NoJob] =>
        job' \in [Ends -> Jobs] /\ \A q \in Ends : job'[q] \in {job[q], NoJob}
  BY <1>1, <1>2
<1>8. ASSUME Working(p), Finish(p)
      PROVE  /\ job' \in [Ends -> Jobs] /\ job[p] # NoJob
             /\ \A q \in Ends : q # p => job'[q] = job[q]
             /\ job'[p].seq = job[p].seq /\ job'[p].payload = job[p].payload
  <2>1. job' = [job EXCEPT ![p] = [job[p] EXCEPT !.done = TRUE]]
    BY <1>2, <1>8 DEF Finish
  <2>2. job'[p] = [job[p] EXCEPT !.done = TRUE] /\ \A q \in Ends : q # p => job'[q] = job[q]
    BY <1>2, <2>1
  <2>3. job' \in [Ends -> Jobs]
    BY <1>2, <1>5, <2>1
  <2>4. job'[p].seq = job[p].seq /\ job'[p].payload = job[p].payload
    BY <1>4, <2>2
  <2> QED
    BY <1>8, <2>2, <2>3, <2>4 DEF Working
<1> QED
  BY <1>6, <1>7, <1>8

\* A device's application records what it was given.
LEMMA RecordDeltaStep == Inv /\ RecordDelta => Inv'
<1> SUFFICES ASSUME Inv, RecordDelta PROVE Inv'
  OBVIOUS
<1>1. /\ UNCHANGED <<ckpt, staged, net, grant, ledger, executed, sent, got, faults>>
      /\ Working("device") /\ Finish("device") /\ "device" \in Ends
  BY DEF RecordDelta, session, Ends
<1>2. \A q \in Ends : job'[q] = NoJob \/ (job[q] # NoJob /\ job'[q].seq = job[q].seq /\ job'[q].payload = job[q].payload)
  BY <1>1, RebuildFacts
<1>3. job' \in [Ends -> Jobs]
  BY <1>1, RebuildFacts
<1>4. LedgerSound'
  BY <1>1 DEF Inv, LedgerSound, ExecutedOnce
<1> QED
  BY <1>1, <1>2, <1>3, <1>4, LocalStep DEF Inv, Shape

\* The host answers a command it does not carry out.
LEMMA AnswerCommandStep == Inv /\ AnswerCommand => Inv'
<1> SUFFICES ASSUME Inv, AnswerCommand PROVE Inv'
  OBVIOUS
<1>1. /\ UNCHANGED <<ckpt, staged, net, grant, ledger, executed, sent, got, faults>>
      /\ Working("host") /\ Finish("host") /\ "host" \in Ends
  BY DEF AnswerCommand, session, Ends
<1>2. \A q \in Ends : job'[q] = NoJob \/ (job[q] # NoJob /\ job'[q].seq = job[q].seq /\ job'[q].payload = job[q].payload)
  BY <1>1, RebuildFacts
<1>3. job' \in [Ends -> Jobs]
  BY <1>1, RebuildFacts
<1>4. LedgerSound'
  BY <1>1 DEF Inv, LedgerSound, ExecutedOnce
<1> QED
  BY <1>1, <1>2, <1>3, <1>4, LocalStep DEF Inv, Shape

\* The command the host works on is one of the device's.
LEMMA HostCommand ==
  ASSUME Inv, Working("host")
  PROVE  job["host"].payload \in Commands
  BY PeerFacts DEF Inv, JobsGenuine, Working, Ends, Peer, PayloadsOf

\* The host carries out a command: its record rules out that it did before.
LEMMA ExecuteCommandStep == Inv /\ ExecuteCommand => Inv'
<1> SUFFICES ASSUME Inv, ExecuteCommand PROVE Inv'
  OBVIOUS
<1> DEFINE c == job["host"].payload
<1>1. /\ UNCHANGED <<ckpt, staged, net, grant, sent, got, faults>>
      /\ Working("host") /\ Finish("host") /\ "host" \in Ends
  BY DEF ExecuteCommand, session, Ends
<1>2. \A q \in Ends : job'[q] = NoJob \/ (job[q] # NoJob /\ job'[q].seq = job[q].seq /\ job'[q].payload = job[q].payload)
  BY <1>1, RebuildFacts
<1>3. job' \in [Ends -> Jobs]
  BY <1>1, RebuildFacts
<1>4. /\ c \in Commands /\ ledger[c] = "none"
      /\ ledger' = [ledger EXCEPT ![c] = "completed"] /\ executed' = [executed EXCEPT ![c] = @ + 1]
  BY <1>1, HostCommand DEF ExecuteCommand, MayExecute
<1>5. ledger \in [Commands -> Records] /\ executed \in [Commands -> Nat] /\ executed[c] = 0
  BY <1>4 DEF Inv, Shape, LedgerSound
<1>6. ledger' \in [Commands -> Records] /\ executed' \in [Commands -> Nat]
  BY <1>4, <1>5 DEF Records
<1>7. LedgerSound'
  BY <1>4, <1>5 DEF Inv, LedgerSound, ExecutedOnce
<1> QED
  BY <1>1, <1>2, <1>3, <1>6, <1>7, LocalStep DEF Inv, Shape

\* An interrupted command stays pending and is never carried out again.
LEMMA CommandStopsStep ==
  ASSUME Inv, NEW kind \in {"crash", "db"}, NEW done \in BOOLEAN, CommandStops(kind, done)
  PROVE  Inv'
<1> DEFINE c == job["host"].payload
<1>1. /\ UNCHANGED <<ckpt, net, grant, sent, got>>
      /\ Working("host") /\ "host" \in Ends /\ faults < MaxFaults /\ faults' = faults + 1
      /\ \/ Rebuild("host") /\ job' = [job EXCEPT !["host"] = NoJob]
         \/ UNCHANGED <<staged, job>>
  BY DEF CommandStops, Fault, Ends
<1>2. job' \in [Ends -> Jobs] /\ \A q \in Ends : job'[q] \in {job[q], NoJob}
  BY <1>1, RebuildFacts DEF Inv, Shape
<1>3. staged' \in [Ends -> Deliveries] /\ \A q \in Ends : staged'[q] \in {staged[q], NoDelivery}
  BY <1>1, RebuildFacts DEF Inv, Shape
<1>4. /\ c \in Commands /\ ledger[c] = "none"
      /\ ledger' = [ledger EXCEPT ![c] = "pending"]
      /\ executed' = [executed EXCEPT ![c] = @ + 1] \/ executed' = executed
  BY <1>1, HostCommand DEF CommandStops, MayExecute
<1>5. ledger \in [Commands -> Records] /\ executed \in [Commands -> Nat] /\ executed[c] = 0
  BY <1>4 DEF Inv, Shape, LedgerSound
<1>6. ledger' \in [Commands -> Records] /\ executed' \in [Commands -> Nat]
  BY <1>4, <1>5 DEF Records
<1>7. LedgerSound'
  BY <1>4, <1>5 DEF Inv, LedgerSound, ExecutedOnce
<1>8. faults' \in 0..MaxFaults
  BY <1>1, SessionAssumption DEF Inv, Shape
<1> QED
  BY <1>1, <1>2, <1>3, <1>6, <1>7, <1>8, LocalStep DEF Inv, Shape

\* Failed operations, restarts, the relay and the host's user.
LEMMA EnvironmentStep ==
  ASSUME Inv,
         \/ \E p \in Ends : Reconnect(p) \/ OperationFails(p) \/ Crash(p)
         \/ \E k \in net : Lose(k)
         \/ \E g \in Grants : SetGrant(g)
  PROVE  Inv'
<1>1. UNCHANGED <<ckpt, sent, got, ledger, executed>>
  BY DEF Reconnect, OperationFails, Crash, Lose, SetGrant, session
<1>2. LedgerSound'
  BY <1>1 DEF Inv, LedgerSound, ExecutedOnce
<1>3. staged' \in [Ends -> Deliveries] /\ \A q \in Ends : staged'[q] \in {staged[q], NoDelivery}
  BY RebuildFacts DEF Inv, Shape, Reconnect, OperationFails, Crash, Lose, SetGrant, session
<1>4. job' \in [Ends -> Jobs] /\ \A q \in Ends : job'[q] \in {job[q], NoJob}
  BY RebuildFacts DEF Inv, Shape, Reconnect, OperationFails, Crash, Lose, SetGrant, session
<1>5. \A k \in net' : k \in net \/ \E q \in Ends : k \in ckpt[q].outbox
  BY DEF Reconnect, OperationFails, Crash, Lose, SetGrant, session
<1>6. grant' \in Grants
  BY DEF Inv, Shape, Reconnect, OperationFails, Crash, Lose, SetGrant, session
<1>7. faults' \in 0..MaxFaults
  BY SessionAssumption DEF Inv, Shape, Reconnect, OperationFails, Crash, Lose, SetGrant, session, Fault
<1> QED
  BY <1>1, <1>2, <1>3, <1>4, <1>5, <1>6, <1>7, LocalStep DEF Inv, Shape

\* Receiving a packet exposes at most the next payload, and forgets only
\* packets that the peer has committed.
LEMMA ReceiveStep ==
  ASSUME Inv, NEW p \in Ends, NEW k \in net, Receive(p, k)
  PROVE  Inv'
<1>1. /\ k \in Packets /\ Genuine(k) /\ k.from = Peer(p) /\ k.seq \in Nat /\ k.ack \in Nat /\ k.nonce \in Nat
      /\ k.ack <= ckpt[Peer(p)].committed
  BY DEF Inv, Shape, PacketsGenuine, Packets, Receive, Genuine
<1>2. /\ Peer(p) \in Ends /\ Peer(p) # p /\ Peer(Peer(p)) = p
      /\ \A q \in Ends : q = p \/ q = Peer(p)
  BY PeerFacts DEF Ends, Peer
<1>3. \A q \in Ends : /\ ckpt[q].next \in Nat /\ ckpt[q].nonce \in Nat /\ ckpt[q].committed \in Nat
                      /\ ckpt[q].outbox \subseteq Packets /\ Len(sent[q]) \in Nat
  BY DEF Inv, Shape, Checkpoints
<1>4. UNCHANGED <<net, grant, ledger, executed, sent, got, faults>>
  BY DEF Receive
<1>5. /\ ckpt' \in [Ends -> Checkpoints]
      /\ \A q \in Ends : /\ q # p => ckpt'[q] = ckpt[q]
                         /\ ckpt'[q].next = ckpt[q].next /\ ckpt'[q].committed = ckpt[q].committed
                         /\ ckpt'[q].nonce = ckpt[q].nonce
      /\ ckpt'[p].outbox = {m \in ckpt[p].outbox : m.seq > k.ack}
  <2>1. ckpt \in [Ends -> Checkpoints]
    BY DEF Inv, Shape
  <2>2. ckpt' = [ckpt EXCEPT ![p] = [ckpt[p] EXCEPT !.outbox = Outstanding(ckpt[p].outbox, k.ack)]]
    BY <2>1 DEF Receive
  <2>3. ckpt[p] = [next |-> ckpt[p].next, nonce |-> ckpt[p].nonce,
                   committed |-> ckpt[p].committed, outbox |-> ckpt[p].outbox]
    BY <2>1 DEF Checkpoints
  <2> DEFINE r == [next |-> ckpt[p].next, nonce |-> ckpt[p].nonce, committed |-> ckpt[p].committed,
                   outbox |-> {m \in ckpt[p].outbox : m.seq > k.ack}]
  <2>4. r \in Checkpoints
    BY <1>3 DEF Checkpoints
  <2>5. [ckpt[p] EXCEPT !.outbox = Outstanding(ckpt[p].outbox, k.ack)] = r
    BY <2>3 DEF Outstanding
  <2>6. ckpt' = [ckpt EXCEPT ![p] = r]
    BY <2>2, <2>5
  <2> HIDE DEF r
  <2>7. ckpt' \in [Ends -> Checkpoints] /\ ckpt'[p] = r /\ \A q \in Ends : q # p => ckpt'[q] = ckpt[q]
    BY <2>1, <2>4, <2>6
  <2> QED
    BY <2>7 DEF r
<1>6. \A q \in Ends : ckpt'[q].outbox \subseteq ckpt[q].outbox
  BY <1>5
<1>7. /\ staged' \in [Ends -> Deliveries] /\ job' \in [Ends -> Jobs]
      /\ \A q \in Ends : q # p => staged'[q] = staged[q] /\ job'[q] = job[q]
      /\ \/ staged'[p] = staged[p] /\ job'[p] = job[p]
         \/ /\ Expected(p, k) /\ k.payload \in PayloadsOf(Peer(p))
            /\ staged'[p].seq = k.seq /\ staged'[p].payload = k.payload
            /\ job'[p].seq = k.seq /\ job'[p].payload = k.payload
  <2>1. staged \in [Ends -> Deliveries] /\ job \in [Ends -> Jobs]
    BY DEF Inv, Shape
  <2>2. CASE ~Expected(p, k)
    BY <2>1, <2>2 DEF Receive
  <2>3. CASE Expected(p, k)
    <3>1. k.seq > 0
      BY <1>1, <1>3, <2>3 DEF Expected
    <3>2. k.payload = sent[Peer(p)][k.seq] /\ k.seq \in 1..Len(sent[Peer(p)])
      BY <1>1, <1>2, <1>3, <3>1 DEF Genuine
    <3>3. sent[Peer(p)] \in Seq(PayloadsOf(Peer(p)))
      BY <1>2 DEF Inv, Counted
    <3>4. k.payload \in PayloadsOf(Peer(p)) /\ k.payload \in Contents
      BY <1>2, <3>2, <3>3, PeerFacts
    <3> DEFINE d == [seq |-> k.seq, payload |-> k.payload]
               j == [seq |-> k.seq, payload |-> k.payload, done |-> FALSE]
    <3>5. d \in Deliveries /\ j \in Jobs
      BY <1>1, <3>4 DEF Deliveries, Jobs
    <3>6. staged' = [staged EXCEPT ![p] = d] /\ job' = [job EXCEPT ![p] = j]
      BY <2>3 DEF Receive
    <3>7. d.seq = k.seq /\ d.payload = k.payload /\ j.seq = k.seq /\ j.payload = k.payload
      OBVIOUS
    <3> HIDE DEF d, j
    <3>8. staged'[p] = d /\ job'[p] = j /\ \A q \in Ends : q # p => staged'[q] = staged[q] /\ job'[q] = job[q]
      BY <2>1, <3>6
    <3>9. staged' \in [Ends -> Deliveries] /\ job' \in [Ends -> Jobs]
      BY <2>1, <3>5, <3>6
    <3> QED
      BY <2>3, <3>4, <3>7, <3>8, <3>9
  <2> QED
    BY <2>2, <2>3
<1>8. Shape'
  BY <1>4, <1>5, <1>7 DEF Inv, Shape
<1>9. PacketsGenuine'
  <2>1. \A m \in Packets : Genuine(m) => Genuine(m)'
    BY <1>4, <1>5 DEF Genuine, Packets
  <2> QED
    BY <1>3, <1>4, <1>6, <2>1 DEF Inv, Shape, PacketsGenuine
<1>10. NonceFresh'
  <2>1. \A q \in Ends : Produced(q)' \subseteq Produced(q)
    BY <1>4, <1>6 DEF Produced
  <2> QED
    BY <1>5, <2>1 DEF Inv, NonceFresh
<1>11. StagedNext'
  <2>1. CASE staged'[p] = staged[p]
    BY <1>4, <1>5, <1>7, <2>1 DEF Inv, StagedNext
  <2>2. CASE Expected(p, k) /\ staged'[p].seq = k.seq /\ staged'[p].payload = k.payload
    <3>1. /\ staged'[p].seq = ckpt'[p].committed + 1
          /\ staged'[p].seq <= Len(sent'[Peer(p)])
          /\ staged'[p].payload = sent'[Peer(p)][staged'[p].seq]
      BY <1>1, <1>3, <1>4, <1>5, <2>2 DEF Expected, Genuine
    <3> QED
      BY <1>4, <1>5, <1>7, <3>1 DEF Inv, StagedNext
  <2> QED
    BY <1>7, <2>1, <2>2
<1>12. JobsGenuine'
  BY <1>1, <1>3, <1>7 DEF Inv, JobsGenuine, Expected
<1>13. Counted' /\ LedgerSound'
  BY <1>4, <1>5 DEF Inv, Counted, LedgerSound, ExecutedOnce
<1>14. OutboxComplete'
  <2> SUFFICES ASSUME NEW q \in Ends, NEW n \in ckpt'[Peer(q)].committed + 1..ckpt'[q].next - 1
               PROVE  \E m \in ckpt'[q].outbox : m.seq = n
    BY DEF OutboxComplete
  <2>1. n \in ckpt[Peer(q)].committed + 1..ckpt[q].next - 1
    BY <1>5, PeerFacts
  <2>2. PICK m \in ckpt[q].outbox : m.seq = n
    BY <2>1 DEF Inv, OutboxComplete
  <2>3. CASE q = p
    BY <1>1, <1>2, <1>3, <1>5, <2>1, <2>2, <2>3
  <2>4. CASE q # p
    BY <1>5, <2>2, <2>4
  <2> QED
    BY <2>3, <2>4
<1> QED
  BY <1>8, <1>9, <1>10, <1>11, <1>12, <1>13, <1>14 DEF Inv

\* A commit appends the peer's next payload, or changes no stream at all.
LEMMA CommitFacts ==
  ASSUME Inv, NEW p \in Ends, CommitDelivery(p)
  PROVE  \/ /\ staged[p].seq = Len(got[p]) + 1 /\ staged[p].seq <= Len(sent[Peer(p)])
            /\ staged[p].payload = sent[Peer(p)][Len(got[p]) + 1]
            /\ staged[p].payload \in PayloadsOf(Peer(p)) /\ staged[p].payload \in Contents
            /\ ckpt' = [ckpt EXCEPT ![p].committed = staged[p].seq]
            /\ got' = [got EXCEPT ![p] = Append(got[p], staged[p].payload)]
         \/ UNCHANGED <<ckpt, got>>
<1>1. CASE staged[p].seq # job[p].seq
  BY <1>1 DEF CommitDelivery
<1>2. CASE staged[p].seq = job[p].seq
  <2>1. job[p].seq > 0 /\ NoDelivery.seq = 0
    BY DEF CommitDelivery, Inv, JobsGenuine, NoDelivery
  <2>2. /\ staged[p].seq = ckpt[p].committed + 1 /\ staged[p].seq <= Len(sent[Peer(p)])
        /\ staged[p].payload = sent[Peer(p)][staged[p].seq]
    BY <1>2, <2>1 DEF Inv, StagedNext
  <2>3. ckpt[p].committed = Len(got[p]) /\ Len(got[p]) \in Nat
    BY DEF Inv, Shape, Counted
  <2>4. sent[Peer(p)] \in Seq(PayloadsOf(Peer(p))) /\ PayloadsOf(Peer(p)) \subseteq Contents
    BY PeerFacts DEF Inv, Counted
  <2>5. staged[p].payload \in PayloadsOf(Peer(p))
    BY <2>2, <2>3, <2>4
  <2> QED
    BY <1>2, <2>2, <2>3, <2>4, <2>5 DEF CommitDelivery
<1> QED
  BY <1>1, <1>2

\* Committing a delivery.
LEMMA CommitStep ==
  ASSUME Inv, NEW p \in Ends, CommitDelivery(p)
  PROVE  Inv'
<1>1. UNCHANGED <<net, grant, ledger, executed, sent, faults>> /\ job' = [job EXCEPT ![p] = NoJob]
  BY DEF CommitDelivery
<1>2. staged' = [staged EXCEPT ![p] = NoDelivery]
  BY DEF CommitDelivery, Rebuild
<1>3. job' \in [Ends -> Jobs] /\ \A q \in Ends : job'[q] \in {job[q], NoJob}
  BY <1>1, RebuildFacts
<1>4. /\ staged' \in [Ends -> Deliveries] /\ staged'[p] = NoDelivery
      /\ \A q \in Ends : q # p => staged'[q] = staged[q]
  <2>1. staged \in [Ends -> Deliveries]
    BY DEF Inv, Shape
  <2> QED
    BY <1>2, <2>1, RebuildFacts DEF Rebuild
<1>5. CASE UNCHANGED <<ckpt, got>>
  <2>1. LedgerSound'
    BY <1>1 DEF Inv, LedgerSound, ExecutedOnce
  <2>2. \A q \in Ends : staged'[q] \in {staged[q], NoDelivery}
    BY <1>4
  <2>3. \A q \in Ends : job'[q] = NoJob \/ (job[q] # NoJob /\ job'[q].seq = job[q].seq /\ job'[q].payload = job[q].payload)
    BY <1>3
  <2> QED
    BY <1>1, <1>3, <1>4, <1>5, <2>1, <2>2, <2>3, LocalStep DEF Inv, Shape
<1>6. ASSUME staged[p].seq = Len(got[p]) + 1, staged[p].seq <= Len(sent[Peer(p)]),
             staged[p].payload = sent[Peer(p)][Len(got[p]) + 1],
             staged[p].payload \in PayloadsOf(Peer(p)), staged[p].payload \in Contents,
             ckpt' = [ckpt EXCEPT ![p].committed = staged[p].seq],
             got' = [got EXCEPT ![p] = Append(got[p], staged[p].payload)]
      PROVE  Inv'
  <2>1. \A q \in Ends : /\ ckpt[q] \in Checkpoints /\ ckpt[q].committed \in Nat /\ ckpt[q].nonce \in Nat
                        /\ ckpt[q].committed = Len(got[q]) /\ Len(got[q]) \in Nat /\ Len(sent[q]) \in Nat
                        /\ got[q] \in Seq(Contents) /\ sent[q] \in Seq(Contents)
    BY DEF Inv, Shape, Checkpoints, Counted
  <2>2. /\ ckpt' \in [Ends -> Checkpoints] /\ ckpt'[p].committed = Len(got[p]) + 1
        /\ \A q \in Ends : /\ q # p => ckpt'[q] = ckpt[q]
                           /\ ckpt'[q].next = ckpt[q].next /\ ckpt'[q].outbox = ckpt[q].outbox
                           /\ ckpt'[q].nonce = ckpt[q].nonce
    <3>1. ckpt \in [Ends -> Checkpoints]
      BY DEF Inv, Shape
    <3> DEFINE r == [ckpt[p] EXCEPT !.committed = Len(got[p]) + 1]
    <3>2. r \in Checkpoints
      BY <2>1 DEF Checkpoints
    <3>3. r.committed = Len(got[p]) + 1 /\ r.next = ckpt[p].next /\ r.outbox = ckpt[p].outbox /\ r.nonce = ckpt[p].nonce
      BY <2>1 DEF Checkpoints
    <3>4. ckpt' = [ckpt EXCEPT ![p] = r]
      BY <1>6, <3>1
    <3> HIDE DEF r
    <3>5. ckpt' \in [Ends -> Checkpoints] /\ ckpt'[p] = r /\ \A q \in Ends : q # p => ckpt'[q] = ckpt[q]
      BY <3>1, <3>2, <3>4
    <3> QED
      BY <3>3, <3>5
  <2>3. \A q \in Ends : ckpt[q].committed <= ckpt'[q].committed /\ ckpt[q].nonce <= ckpt'[q].nonce
    BY <2>1, <2>2
  <2>4. /\ got' \in [Ends -> Seq(Contents)] /\ got'[p] = Append(got[p], staged[p].payload)
        /\ \A q \in Ends : q # p => got'[q] = got[q]
    <3>1. got \in [Ends -> Seq(Contents)]
      BY DEF Inv, Shape
    <3>2. Append(got[p], staged[p].payload) \in Seq(Contents)
      BY <1>6, <2>1, AppendFacts
    <3> QED
      BY <1>6, <3>1, <3>2
  <2>5. /\ Len(got'[p]) = Len(got[p]) + 1 /\ got'[p][Len(got[p]) + 1] = staged[p].payload
        /\ \A n \in 1..Len(got[p]) : got'[p][n] = got[p][n]
    BY <1>6, <2>1, <2>4, AppendFacts
  <2>6. \A m \in Packets : Genuine(m) => Genuine(m)'
    BY <1>1, <2>1, <2>2, <2>3, GenuineStays
  <2>7. Shape'
    BY <1>1, <1>3, <1>4, <2>2, <2>4 DEF Inv, Shape
  <2>8. PacketsGenuine'
    <3>1. \A q \in Ends : ckpt[q].outbox \subseteq Packets
      BY DEF Inv, Shape, Checkpoints
    <3> QED
      BY <1>1, <2>2, <2>6, <3>1 DEF Inv, Shape, PacketsGenuine
  <2>9. NonceFresh'
    BY <1>1, <2>2 DEF Inv, NonceFresh, Produced
  <2>10. StagedNext'
    BY <1>1, <1>4, <2>2 DEF Inv, StagedNext, NoDelivery
  <2>11. JobsGenuine'
    BY <1>3 DEF Inv, JobsGenuine
  <2>12. Counted'
    <3> SUFFICES ASSUME NEW q \in Ends
                 PROVE  /\ ckpt'[q].committed = Len(got'[q]) /\ Len(got'[q]) <= Len(sent[Peer(q)])
                        /\ \A n \in 1..Len(got'[q]) : got'[q][n] = sent[Peer(q)][n]
      BY <1>1, <2>2 DEF Inv, Counted
    <3>1. CASE q = p
      <4>1. ckpt'[p].committed = Len(got'[p]) /\ Len(got'[p]) <= Len(sent[Peer(p)])
        BY <1>6, <2>2, <2>5
      <4>2. \A n \in 1..Len(got[p]) : got'[p][n] = sent[Peer(p)][n]
        BY <2>5 DEF Inv, Counted
      <4>3. got'[p][Len(got[p]) + 1] = sent[Peer(p)][Len(got[p]) + 1]
        BY <1>6, <2>5
      <4>4. \A n \in 1..Len(got'[p]) : n \in 1..Len(got[p]) \/ n = Len(got[p]) + 1
        BY <2>1, <2>5
      <4> QED
        BY <3>1, <4>1, <4>2, <4>3, <4>4
    <3>2. CASE q # p
      <4>1. got'[q] = got[q] /\ ckpt'[q].committed = ckpt[q].committed
        BY <2>2, <2>4, <3>2
      <4>2. /\ ckpt[q].committed = Len(got[q]) /\ Len(got[q]) <= Len(sent[Peer(q)])
            /\ \A n \in 1..Len(got[q]) : got[q][n] = sent[Peer(q)][n]
        BY DEF Inv, Counted
      <4> QED
        BY <4>1, <4>2
    <3> QED
      BY <3>1, <3>2
  <2>13. OutboxComplete'
    <3> SUFFICES ASSUME NEW q \in Ends, NEW n \in ckpt'[Peer(q)].committed + 1..ckpt'[q].next - 1
                 PROVE  \E m \in ckpt[q].outbox : m.seq = n
      BY <2>2 DEF OutboxComplete
    <3>1. Peer(q) \in Ends /\ ckpt[q].next \in Int
      BY PeerFacts DEF Inv, Shape, Checkpoints
    <3>2. ckpt'[Peer(q)].committed \in Nat
      BY <2>2, <3>1 DEF Checkpoints
    <3>3. n \in ckpt[Peer(q)].committed + 1..ckpt[q].next - 1
      BY <2>1, <2>2, <2>3, <3>1, <3>2
    <3> QED
      BY <3>3 DEF Inv, OutboxComplete
  <2>14. LedgerSound'
    BY <1>1 DEF Inv, LedgerSound, ExecutedOnce
  <2> QED
    BY <2>7, <2>8, <2>9, <2>10, <2>11, <2>12, <2>13, <2>14 DEF Inv
<1> QED
  BY <1>5, <1>6, CommitFacts

-----------------------------------------------------------------------------
LEMMA StepInv == Inv /\ [Next]_vars => Inv'
<1> SUFFICES ASSUME Inv, [Next]_vars PROVE Inv'
  OBVIOUS
<1>1. ASSUME NEW p \in Ends, NEW v \in PayloadsOf(p), SendPayload(p, v) PROVE Inv'
  BY <1>1, SendStep
<1>2. ASSUME NEW p \in Ends, Acknowledge(p) PROVE Inv'
  BY <1>2, AcknowledgeStep
<1>3. ASSUME NEW p \in Ends, CommitDelivery(p) PROVE Inv'
  BY <1>3, CommitStep
<1>4. ASSUME NEW p \in Ends, NEW k \in net, Receive(p, k) PROVE Inv'
  BY <1>4, ReceiveStep
<1>5. CASE Handle
  BY <1>5, RecordDeltaStep, AnswerCommandStep, ExecuteCommandStep DEF Handle
<1>6. ASSUME NEW kind \in {"crash", "db"}, NEW done \in BOOLEAN, CommandStops(kind, done) PROVE Inv'
  BY <1>6, CommandStopsStep
<1>7. CASE \/ \E p \in Ends : Reconnect(p) \/ OperationFails(p) \/ Crash(p)
           \/ \E k \in net : Lose(k)
           \/ \E g \in Grants : SetGrant(g)
  BY <1>7, EnvironmentStep
<1>8. CASE UNCHANGED vars
  <2>1. UNCHANGED <<ckpt, staged, job, net, grant, ledger, executed, sent, got, faults>>
    BY <1>8 DEF vars
  <2>2. LedgerSound'
    BY <2>1 DEF Inv, LedgerSound, ExecutedOnce
  <2>3. \A q \in Ends : job'[q] = NoJob \/ (job[q] # NoJob /\ job'[q].seq = job[q].seq /\ job'[q].payload = job[q].payload)
    BY <2>1
  <2> QED
    BY <2>1, <2>2, <2>3, LocalStep DEF Inv, Shape
<1> QED
  BY <1>1, <1>2, <1>3, <1>4, <1>5, <1>6, <1>7, <1>8 DEF Next

\* The state of both ends stays well formed.
LEMMA InvTypes == Inv => TypeOK
<1> SUFFICES ASSUME Inv PROVE TypeOK
  OBVIOUS
<1>1. \A p \in Ends : /\ ckpt[p].next \in Nat /\ ckpt[p].nonce \in Nat /\ ckpt[p].committed \in Nat
                      /\ ckpt[p].outbox \subseteq Packets
  BY DEF Inv, Shape, Checkpoints
<1>2. ASSUME NEW k \in Packets, Genuine(k)
      PROVE  k \in PacketRecord(k.from)
  <2>1. k.from \in Ends /\ k.seq \in Nat /\ k.nonce \in Nat /\ k.ack \in Nat
    BY DEF Packets
  <2>2. sent[k.from] \in Seq(PayloadsOf(k.from))
    BY <2>1 DEF Inv, Counted
  <2>3. k.payload \in PayloadsOf(k.from) \cup {"ack"}
    BY <1>2, <2>1, <2>2 DEF Genuine
  <2> QED
    BY <2>1, <2>3 DEF Packets, PacketRecord
<1>3. \A p \in Ends : ckpt[p].outbox \subseteq PacketRecord(p)
  BY <1>1, <1>2 DEF Inv, PacketsGenuine
<1>4. net \subseteq PacketRecord("host") \cup PacketRecord("device")
  <2>1. \A k \in net : k \in Packets /\ Genuine(k) /\ k.from \in {"host", "device"}
    BY DEF Inv, Shape, PacketsGenuine, Packets, Ends
  <2> QED
    BY <1>2, <2>1
<1>5. ASSUME NEW p \in Ends
      PROVE  /\ staged[p] \in [seq : Nat, payload : PayloadsOf(Peer(p)) \cup {"none"}]
             /\ job[p] \in [seq : Nat, payload : PayloadsOf(Peer(p)) \cup {"none"}, done : BOOLEAN]
             /\ sent[p] \in Seq(PayloadsOf(p)) /\ got[p] \in Seq(PayloadsOf(Peer(p)))
  <2>1. Peer(p) \in Ends /\ sent[Peer(p)] \in Seq(PayloadsOf(Peer(p))) /\ sent[p] \in Seq(PayloadsOf(p))
    BY PeerFacts DEF Inv, Counted
  <2>2. Len(got[p]) \in Nat /\ got[p] \in Seq(Contents) /\ ckpt[p].committed \in Nat /\ Len(sent[Peer(p)]) \in Nat
    BY <1>1, <2>1 DEF Inv, Shape
  <2>3. \A n \in 1..Len(got[p]) : got[p][n] \in PayloadsOf(Peer(p))
    BY <2>1, <2>2 DEF Inv, Counted
  <2>4. got[p] \in Seq(PayloadsOf(Peer(p)))
    BY <2>2, <2>3
  <2>5. staged[p] # NoDelivery => staged[p].payload \in PayloadsOf(Peer(p))
    BY <2>1, <2>2 DEF Inv, StagedNext
  <2>6. staged[p] \in [seq : Nat, payload : PayloadsOf(Peer(p)) \cup {"none"}]
    BY <2>5 DEF Inv, Shape, Deliveries, NoDelivery
  <2>7. job[p] \in Jobs /\ (job[p] # NoJob => job[p].payload \in PayloadsOf(Peer(p)))
    BY DEF Inv, Shape, JobsGenuine
  <2>8. job[p] \in [seq : Nat, payload : PayloadsOf(Peer(p)) \cup {"none"}, done : BOOLEAN]
    BY <2>7 DEF Jobs, NoJob
  <2> QED
    BY <2>1, <2>4, <2>6, <2>8
<1> QED
  BY <1>1, <1>3, <1>4, <1>5 DEF Inv, Shape, TypeOK

-----------------------------------------------------------------------------
LEMMA SpecInv == Spec => []Inv
  BY InitInv, StepInv, PTL DEF Spec

\* The state of both ends, of the relay and of the ledger stays well formed.
THEOREM TypeCorrect == Spec => []TypeOK
  BY SpecInv, InvTypes, PTL

\* Whatever the relay, the faults and the user do: a command is carried out at
\* most once (coordinator.rs, begin_command), the nonce of the cipher is fresh
\* (session.rs, take_nonce), and an outbox keeps what the peer has not
\* committed (session.rs, apply_acknowledgement).
THEOREM SessionIsSound == Spec => []SessionSound
<1>1. Inv => SessionSound
  BY DEF Inv, LedgerSound, SessionSound
<1> QED
  BY <1>1, SpecInv, PTL

\* Steps of an end as steps of the stream from it and of the stream to it.
LEMMA StreamSteps ==
  ASSUME Inv, Next, NEW p \in Ends
  PROVE  \/ \E v \in PayloadsOf(p) : sent'[p] = Append(sent[p], v) /\ got'[Peer(p)] = got[Peer(p)]
         \/ /\ Len(got[Peer(p)]) < Len(sent[p])
            /\ got'[Peer(p)] = Append(got[Peer(p)], sent[p][Len(got[Peer(p)]) + 1])
            /\ sent'[p] = sent[p]
         \/ UNCHANGED <<sent[p], got[Peer(p)]>>
<1>1. sent \in [Ends -> Seq(Contents)] /\ got \in [Ends -> Seq(Contents)]
  BY DEF Inv, Shape
<1>2. \A q \in Ends : Len(got[q]) \in Nat /\ Len(sent[q]) \in Nat
  BY <1>1
<1>3. ASSUME NEW q \in Ends, NEW v \in PayloadsOf(q), SendPayload(q, v)
      PROVE  \/ \E w \in PayloadsOf(p) : sent'[p] = Append(sent[p], w) /\ got'[Peer(p)] = got[Peer(p)]
             \/ UNCHANGED <<sent[p], got[Peer(p)]>>
  <2>1. sent' = [sent EXCEPT ![q] = Append(sent[q], v)] /\ got' = got
    BY <1>3 DEF SendPayload
  <2> QED
    BY <1>1, <2>1
<1>4. ASSUME NEW q \in Ends, CommitDelivery(q)
      PROVE  \/ /\ Len(got[Peer(p)]) < Len(sent[p])
                /\ got'[Peer(p)] = Append(got[Peer(p)], sent[p][Len(got[Peer(p)]) + 1])
                /\ sent'[p] = sent[p]
             \/ UNCHANGED <<sent[p], got[Peer(p)]>>
  <2>1. sent' = sent /\ Peer(p) \in Ends /\ Peer(Peer(p)) = p
    BY <1>4, PeerFacts DEF CommitDelivery
  <2>2. CASE UNCHANGED <<ckpt, got>>
    BY <2>1, <2>2
  <2>3. CASE /\ staged[q].seq = Len(got[q]) + 1 /\ staged[q].seq <= Len(sent[Peer(q)])
             /\ staged[q].payload = sent[Peer(q)][Len(got[q]) + 1]
             /\ got' = [got EXCEPT ![q] = Append(got[q], staged[q].payload)]
    <3>1. CASE q = Peer(p)
      BY <1>1, <1>2, <2>1, <2>3, <3>1
    <3>2. CASE q # Peer(p)
      BY <1>1, <2>1, <2>3, <3>2
    <3> QED
      BY <3>1, <3>2
  <2> QED
    BY <1>4, <2>2, <2>3, CommitFacts
<1>5. CASE \E q \in Ends : \/ Acknowledge(q) \/ Reconnect(q) \/ OperationFails(q) \/ Crash(q)
                           \/ \E k \in net : Receive(q, k)
  BY <1>5 DEF Acknowledge, Reconnect, OperationFails, Crash, Receive
<1>6. CASE Handle \/ (\E k \in net : Lose(k)) \/ (\E g \in Grants : SetGrant(g))
  BY <1>6 DEF Handle, RecordDelta, AnswerCommand, ExecuteCommand, Lose, SetGrant
<1>7. CASE \E kind \in {"crash", "db"}, done \in BOOLEAN : CommandStops(kind, done)
  BY <1>7 DEF CommandStops
<1> QED
  BY <1>3, <1>4, <1>5, <1>6, <1>7 DEF Next

\* Each direction of a session implements a reliable stream: what the peer
\* commits is what was recorded, in order and once (session.rs, receive and
\* commit_received).
THEOREM SessionImplementsStreams == Spec => StreamsReliable
<1>1. Init => Down!Init /\ Up!Init
  BY DEF Init, Ends, Down!Init, Up!Init
<1>2. Inv /\ [Next]_vars => [Down!Next]_<<sent["host"], got["device"]>>
  <2> SUFFICES ASSUME Inv, [Next]_vars PROVE [Down!Next]_<<sent["host"], got["device"]>>
    OBVIOUS
  <2>1. "host" \in Ends /\ Peer("host") = "device" /\ PayloadsOf("host") = Deltas
    BY DEF Ends, Peer, PayloadsOf
  <2>2. CASE Next
    BY <2>1, <2>2, StreamSteps DEF Down!Next, Down!Take, Down!Record
  <2>3. CASE UNCHANGED vars
    BY <2>3 DEF vars
  <2> QED
    BY <2>2, <2>3
<1>3. Inv /\ [Next]_vars => [Up!Next]_<<sent["device"], got["host"]>>
  <2> SUFFICES ASSUME Inv, [Next]_vars PROVE [Up!Next]_<<sent["device"], got["host"]>>
    OBVIOUS
  <2>1. "device" \in Ends /\ Peer("device") = "host" /\ PayloadsOf("device") = Commands
    BY DEF Ends, Peer, PayloadsOf
  <2>2. CASE Next
    BY <2>1, <2>2, StreamSteps DEF Up!Next, Up!Take, Up!Record
  <2>3. CASE UNCHANGED vars
    BY <2>3 DEF vars
  <2> QED
    BY <2>2, <2>3
<1> QED
  BY <1>1, <1>2, <1>3, SpecInv, PTL DEF Spec, StreamsReliable, Down!Spec, Up!Spec

\* After a revocation the host records, commits and carries out nothing more
\* (session.rs, ensure_active; coordinator.rs, handle_command).
THEOREM RevocationSilences == Spec => RevokedSilent
<1>1. Inv /\ [Next]_vars => [grant = "revoked" => UNCHANGED <<sent["host"], got["host"], executed>>]_vars
  <2> SUFFICES ASSUME Inv, Next, grant = "revoked"
               PROVE  UNCHANGED <<sent["host"], got["host"], executed>>
    OBVIOUS
  <2>1. /\ \A p \in Ends : PeerActive(p) => p # "host"
        /\ sent \in [Ends -> Seq(Contents)] /\ got \in [Ends -> Seq(Contents)] /\ "host" \in Ends
    BY DEF PeerActive, Inv, Shape, Ends
  <2>2. ASSUME NEW p \in Ends, NEW v \in PayloadsOf(p), SendPayload(p, v)
        PROVE  UNCHANGED <<sent["host"], got["host"], executed>>
    BY <2>1, <2>2 DEF SendPayload
  <2>3. ASSUME NEW p \in Ends, CommitDelivery(p)
        PROVE  UNCHANGED <<sent["host"], got["host"], executed>>
    BY <2>1, <2>3 DEF CommitDelivery
  <2>4. CASE \E q \in Ends : \/ Acknowledge(q) \/ Reconnect(q) \/ OperationFails(q) \/ Crash(q)
                             \/ \E k \in net : Receive(q, k)
    BY <2>4 DEF Acknowledge, Reconnect, OperationFails, Crash, Receive
  <2>5. CASE Handle \/ (\E k \in net : Lose(k)) \/ (\E g \in Grants : SetGrant(g))
    BY <2>5 DEF Handle, RecordDelta, AnswerCommand, ExecuteCommand, MayExecute, Lose, SetGrant
  <2>6. CASE \E kind \in {"crash", "db"}, done \in BOOLEAN : CommandStops(kind, done)
    BY <2>6 DEF CommandStops, MayExecute
  <2> QED
    BY <2>2, <2>3, <2>4, <2>5, <2>6 DEF Next
<1> QED
  BY <1>1, SpecInv, PTL DEF Spec, RevokedSilent
-----------------------------------------------------------------------------
(***************************************************************************)
(* Plugins.                                                                *)
(***************************************************************************)

CatalogRecords == [folder : Plugin!Positions, manifest : Plugin!Manifests, granted : SUBSET Capabilities,
                   state : {"enabled", "disabled", "incompatible"}]
Operations == Capabilities \cup {"hello"}
Calls == [id : Nat, op : Operations, writing : BOOLEAN]
Replies == [id : Nat, op : Operations, kind : Plugin!Lines, needs : Capabilities]
PluginSessions ==
  [granted : SUBSET Capabilities, next : Nat, quarantined : BOOLEAN, alive : BOOLEAN,
   call : Calls \cup {Nothing}, read : SUBSET [id : Nat, op : Operations], replies : Seq(Replies),
   outcome : [to : Calls, reply : Replies] \cup {Nothing}]

PluginTypes ==
  /\ disk \in [Plugin!Positions -> Plugin!Manifests \cup {Invalid, Nothing}]
  /\ records \in [Ids -> CatalogRecords \cup {Nothing}]
  /\ consented \in [Plugin!Positions \X Ids -> SUBSET Capabilities]
  /\ pluginSession \in PluginSessions \cup {Nothing}

\* What the plugin has read of the requests: numbers below the next one, each
\* with one operation.
Requested(r) == [id |-> r.id, op |-> r.op]
Numbered(s) ==
  /\ \A r \in s.read : r.id < s.next
  /\ s.call # Nothing => s.call.id < s.next /\ \A r \in s.read : r.id = s.call.id => r.op = s.call.op
  /\ \A i \in DOMAIN s.replies : Requested(s.replies[i]) \in s.read
  /\ s.outcome # Nothing => s.outcome.reply.id = s.outcome.to.id /\ s.outcome.reply.op = s.outcome.to.op

\* What holds of a record of the catalog.
Consented(id, record, consents) ==
  record # Nothing =>
    /\ record.granted \subseteq consents[<<record.folder, id>>] \cap record.manifest.declares
    /\ record.state = "enabled" => record.manifest.compatible

PluginInv ==
  /\ PluginTypes
  /\ \A id \in Ids : Consented(id, records[id], consented)
  /\ pluginSession # Nothing => Numbered(pluginSession)

LEMMA SessionStep ==
  ASSUME PluginInv, UNCHANGED <<disk, records, consented>>,
         pluginSession' \in PluginSessions \cup {Nothing},
         pluginSession' # Nothing => Numbered(pluginSession')
  PROVE  PluginInv'
  BY DEF PluginInv, PluginTypes, Consented

LEMMA StartStep ==
  ASSUME PluginInv, NEW id \in Ids, Plugin!Start(id)
  PROVE  PluginInv'
<1>1. records[id] \in CatalogRecords
  BY DEF PluginInv, PluginTypes, Plugin!Start
<1>2. PICK s : s = [granted |-> records[id].granted, next |-> 1, quarantined |-> FALSE, alive |-> TRUE,
                    call |-> [id |-> 0, op |-> "hello", writing |-> FALSE], read |-> {}, replies |-> <<>>,
                    outcome |-> Nothing]
  OBVIOUS
<1>3. s \in PluginSessions
  BY <1>1, <1>2 DEF PluginSessions, CatalogRecords, Calls, Operations
<1>4. Numbered(s)
  BY <1>2 DEF Numbered
<1>5. pluginSession' = s /\ UNCHANGED <<disk, records, consented>>
  BY <1>2 DEF Plugin!Start
<1> QED
  BY <1>3, <1>4, <1>5, SessionStep

LEMMA InvokeStep ==
  ASSUME PluginInv, NEW op \in Capabilities, Plugin!Invoke(op)
  PROVE  PluginInv'
<1>1. PICK s \in PluginSessions : s = pluginSession /\ s.call = Nothing /\ Numbered(s)
  BY DEF PluginInv, PluginTypes, Plugin!Invoke
<1>2. s.next \in Nat /\ s.next + 1 \in Nat /\ op \in Operations
  BY <1>1 DEF PluginSessions, Operations
<1>3. PICK t : t = [s EXCEPT !.next = s.next + 1, !.outcome = Nothing]
  OBVIOUS
<1>4. t \in PluginSessions /\ t.next = s.next + 1 /\ t.read = s.read /\ t.replies = s.replies
      /\ t.outcome = Nothing /\ t.call = Nothing
  BY <1>1, <1>2, <1>3 DEF PluginSessions
<1>5. \A r \in s.read : r.id \in Nat /\ r.id < s.next
  BY <1>1 DEF Numbered, PluginSessions
<1>6. Numbered(t)
  BY <1>1, <1>2, <1>4, <1>5 DEF Numbered
<1>7. ASSUME NEW large \in BOOLEAN, NEW u, u = [t EXCEPT !.call = [id |-> s.next, op |-> op, writing |-> large]]
      PROVE  u \in PluginSessions /\ Numbered(u)
  <2>1. PICK c : c = [id |-> s.next, op |-> op, writing |-> large]
    OBVIOUS
  <2>2. c \in Calls /\ c.id = s.next
    BY <1>2, <2>1 DEF Calls
  <2>3. u \in PluginSessions /\ u.next = t.next /\ u.read = t.read /\ u.replies = t.replies /\ u.outcome = t.outcome
        /\ u.call = c
    BY <1>4, <1>7, <2>1, <2>2 DEF PluginSessions
  <2>4. \A r \in u.read : r.id < u.next /\ r.id # c.id
    BY <1>2, <1>4, <1>5, <2>2, <2>3
  <2>5. c.id < u.next
    BY <1>2, <1>4, <2>2, <2>3
  <2> QED
    BY <1>4, <1>6, <2>3, <2>4, <2>5 DEF Numbered
<1>8. \/ pluginSession' = t
      \/ \E large \in BOOLEAN : pluginSession' = [t EXCEPT !.call = [id |-> s.next, op |-> op, writing |-> large]]
  <2>1. CASE pluginSession' = [pluginSession EXCEPT !.next = @ + 1, !.outcome = Nothing]
    BY <1>1, <1>3, <2>1
  <2>2. CASE \E large \in BOOLEAN :
               pluginSession' = [pluginSession EXCEPT !.next = @ + 1, !.outcome = Nothing,
                                   !.call = [id |-> pluginSession.next, op |-> op, writing |-> large]]
    BY <1>1, <1>3, <2>2
  <2> QED
    BY <2>1, <2>2 DEF Plugin!Invoke
<1>9. UNCHANGED <<disk, records, consented>>
  BY DEF Plugin!Invoke
<1> QED
  BY <1>4, <1>6, <1>7, <1>8, <1>9, SessionStep

LEMMA ReadsStep ==
  ASSUME PluginInv, Plugin!PluginReads
  PROVE  PluginInv'
<1>1. PICK s \in PluginSessions : s = pluginSession /\ s.call # Nothing /\ Numbered(s)
  BY DEF PluginInv, PluginTypes, Plugin!PluginReads
<1>2. PICK c \in Calls : c = s.call
  BY <1>1 DEF PluginSessions
<1>3. PICK d : d = [c EXCEPT !.writing = FALSE]
  OBVIOUS
<1>4. d \in Calls /\ d.id = c.id /\ d.op = c.op
  BY <1>3 DEF Calls
<1>5. PICK r : r = [id |-> c.id, op |-> c.op]
  OBVIOUS
<1>6. r \in [id : Nat, op : Operations] /\ r.id = c.id /\ r.op = c.op
  BY <1>5 DEF Calls
<1>7. PICK t : t = [s EXCEPT !.read = s.read \cup {r}, !.call = d]
  OBVIOUS
<1>8. t \in PluginSessions /\ t.next = s.next /\ t.read = s.read \cup {r} /\ t.replies = s.replies
      /\ t.outcome = s.outcome /\ t.call = d
  BY <1>1, <1>4, <1>6, <1>7 DEF PluginSessions
<1>9. Numbered(t)
  BY <1>1, <1>2, <1>4, <1>6, <1>8 DEF Numbered
<1>10. pluginSession' = t /\ UNCHANGED <<disk, records, consented>>
  BY <1>1, <1>2, <1>3, <1>5, <1>7 DEF Plugin!PluginReads
<1> QED
  BY <1>8, <1>9, <1>10, SessionStep

LEMMA WritesStep ==
  ASSUME PluginInv, Plugin!PluginWrites
  PROVE  PluginInv'
<1>1. PICK s \in PluginSessions : s = pluginSession /\ Numbered(s)
  BY DEF PluginInv, PluginTypes, Plugin!PluginWrites
<1>2. PICK request \in s.read, kind \in Plugin!Lines, needs \in Capabilities :
        pluginSession' = [s EXCEPT !.replies =
          Append(@, [id |-> request.id, op |-> request.op, kind |-> kind, needs |-> needs])]
  BY <1>1 DEF Plugin!PluginWrites
<1>3. request \in [id : Nat, op : Operations] /\ s.replies \in Seq(Replies)
  BY <1>1 DEF PluginSessions
<1>4. PICK r : r = [id |-> request.id, op |-> request.op, kind |-> kind, needs |-> needs]
  OBVIOUS
<1>5. r \in Replies /\ Requested(r) = request
  BY <1>3, <1>4 DEF Replies, Requested
<1>6. PICK t : t = [s EXCEPT !.replies = Append(s.replies, r)]
  OBVIOUS
<1>7. Append(s.replies, r) \in Seq(Replies)
  BY <1>3, <1>5
<1>8. t \in PluginSessions /\ t.next = s.next /\ t.read = s.read /\ t.replies = Append(s.replies, r)
      /\ t.outcome = s.outcome /\ t.call = s.call
  BY <1>1, <1>6, <1>7 DEF PluginSessions
<1>9. ASSUME NEW i \in DOMAIN t.replies PROVE Requested(t.replies[i]) \in t.read
  <2>1. i \in 1..Len(s.replies) + 1 /\ Len(s.replies) \in Nat
    BY <1>3, <1>5, <1>8, <1>9, AppendProperties, LenProperties
  <2>2. CASE i = Len(s.replies) + 1
    BY <1>3, <1>5, <1>8, <2>2, AppendProperties
  <2>3. CASE i # Len(s.replies) + 1
    <3>1. i \in DOMAIN s.replies /\ t.replies[i] = s.replies[i]
      BY <1>3, <1>5, <1>8, <2>1, <2>3, AppendProperties, LenProperties
    <3> QED
      BY <1>1, <1>8, <3>1 DEF Numbered
  <2> QED
    BY <2>2, <2>3
<1>10. Numbered(t)
  BY <1>1, <1>8, <1>9 DEF Numbered
<1>11. pluginSession' = t /\ UNCHANGED <<disk, records, consented>>
  BY <1>2, <1>4, <1>6 DEF Plugin!PluginWrites
<1> QED
  BY <1>8, <1>10, <1>11, SessionStep

\* A session that ends its call keeps what was asked.
LEMMA QuarantineSound ==
  ASSUME NEW s \in PluginSessions, Numbered(s)
  PROVE  Plugin!Quarantined(s) \in PluginSessions /\ Numbered(Plugin!Quarantined(s))
<1>1. PICK t : t = Plugin!Quarantined(s)
  OBVIOUS
<1>2. t \in PluginSessions /\ t.next = s.next /\ t.read = s.read /\ t.replies = s.replies
      /\ t.outcome = s.outcome /\ t.call = Nothing
  BY <1>1 DEF Plugin!Quarantined, PluginSessions
<1>3. Numbered(t)
  BY <1>2 DEF Numbered
<1> QED
  BY <1>1, <1>2, <1>3

LEMMA ExitsStep ==
  ASSUME PluginInv, Plugin!PluginExits
  PROVE  PluginInv'
<1>1. PICK s \in PluginSessions : s = pluginSession /\ Numbered(s)
  BY DEF PluginInv, PluginTypes, Plugin!PluginExits
<1>2. PICK t : t = [s EXCEPT !.alive = FALSE]
  OBVIOUS
<1>3. t \in PluginSessions /\ t.next = s.next /\ t.read = s.read /\ t.replies = s.replies
      /\ t.outcome = s.outcome /\ t.call = s.call
  BY <1>2 DEF PluginSessions
<1>4. Numbered(t)
  BY <1>1, <1>3 DEF Numbered
<1>5. pluginSession' = t /\ UNCHANGED <<disk, records, consented>>
  BY <1>1, <1>2 DEF Plugin!PluginExits
<1> QED
  BY <1>3, <1>4, <1>5, SessionStep

LEMMA AnswerStep ==
  ASSUME PluginInv, Plugin!Receive
  PROVE  PluginInv'
<1>1. PICK s \in PluginSessions : s = pluginSession /\ s.call # Nothing /\ s.replies # <<>> /\ Numbered(s)
  BY DEF PluginInv, PluginTypes, Plugin!Receive
<1>2. PICK reply : reply = Head(s.replies)
  OBVIOUS
<1>3. s.replies \in Seq(Replies) /\ s.call \in Calls
  BY <1>1 DEF PluginSessions
<1>4. /\ reply \in Replies /\ Requested(reply) \in s.read
      /\ Tail(s.replies) \in Seq(Replies)
      /\ \A i \in DOMAIN Tail(s.replies) : Requested(Tail(s.replies)[i]) \in s.read
  <2>1. 1 \in DOMAIN s.replies /\ reply = s.replies[1]
    BY <1>1, <1>2, <1>3, LenProperties
  <2>2. Requested(reply) \in s.read
    BY <1>1, <2>1 DEF Numbered
  <2>3. reply \in Replies /\ Tail(s.replies) \in Seq(Replies)
    BY <1>1, <1>2, <1>3
  <2>4. \A i \in DOMAIN Tail(s.replies) : i + 1 \in DOMAIN s.replies /\ Tail(s.replies)[i] = s.replies[i + 1]
    BY <1>1, <1>3
  <2> QED
    BY <1>1, <2>2, <2>3, <2>4 DEF Numbered
<1>5. CASE Plugin!Taken(s, reply) = Plugin!Quarantined(s)
  <2>1. pluginSession' \in {Nothing, Plugin!Quarantined(s)}
    BY <1>1, <1>2, <1>5 DEF Plugin!Receive, Plugin!Kept
  <2>2. UNCHANGED <<disk, records, consented>>
    BY DEF Plugin!Receive
  <2> QED
    BY <1>1, <2>1, <2>2, QuarantineSound, SessionStep
<1>6. CASE Plugin!Taken(s, reply) # Plugin!Quarantined(s)
  <2>1. PICK outcome : outcome = IF reply.kind = "error" THEN Nothing ELSE [to |-> s.call, reply |-> reply]
    OBVIOUS
  <2>2. reply.id = s.call.id
    BY <1>6 DEF Plugin!Taken
  <2>3. reply.op = s.call.op
    BY <1>1, <1>4, <2>2 DEF Numbered, Requested
  <2>4. outcome \in [to : Calls, reply : Replies] \cup {Nothing}
    BY <1>3, <1>4, <2>1
  <2>5. outcome # Nothing => outcome.reply.id = outcome.to.id /\ outcome.reply.op = outcome.to.op
    BY <2>1, <2>2, <2>3
  <2>6. PICK t : t = [s EXCEPT !.call = Nothing, !.replies = Tail(s.replies), !.outcome = outcome]
    OBVIOUS
  <2>7. t = Plugin!Taken(s, reply)
    BY <1>6, <2>1, <2>6 DEF Plugin!Taken
  <2>8. t \in PluginSessions /\ t.next = s.next /\ t.read = s.read /\ t.replies = Tail(s.replies)
        /\ t.outcome = outcome /\ t.call = Nothing
    BY <1>4, <2>4, <2>6 DEF PluginSessions
  <2>9. Numbered(t)
    BY <1>1, <1>4, <2>5, <2>8 DEF Numbered
  <2>10. pluginSession' \in {Nothing, t}
    BY <1>1, <1>2, <2>7 DEF Plugin!Receive, Plugin!Kept
  <2>11. UNCHANGED <<disk, records, consented>>
    BY DEF Plugin!Receive
  <2> QED
    BY <2>8, <2>9, <2>10, <2>11, SessionStep
<1> QED
  BY <1>5, <1>6

LEMMA TimesOutStep ==
  ASSUME PluginInv, Plugin!TimesOut
  PROVE  PluginInv'
<1>1. PICK s \in PluginSessions : s = pluginSession /\ Numbered(s)
  BY DEF PluginInv, PluginTypes, Plugin!TimesOut
<1>2. pluginSession' \in {Nothing, Plugin!Quarantined(s)}
  BY <1>1 DEF Plugin!TimesOut, Plugin!Kept
<1>3. UNCHANGED <<disk, records, consented>>
  BY DEF Plugin!TimesOut
<1> QED
  BY <1>1, <1>2, <1>3, QuarantineSound, SessionStep

LEMMA CatalogStep ==
  ASSUME PluginInv, UNCHANGED pluginSession,
         disk' \in [Plugin!Positions -> Plugin!Manifests \cup {Invalid, Nothing}],
         records' \in [Ids -> CatalogRecords \cup {Nothing}],
         consented' \in [Plugin!Positions \X Ids -> SUBSET Capabilities],
         \A id \in Ids : Consented(id, records'[id], consented')
  PROVE  PluginInv'
  BY DEF PluginInv, PluginTypes, Consented

LEMMA EditStep ==
  ASSUME PluginInv, Plugin!EditFolder
  PROVE  PluginInv'
<1>1. disk' \in [Plugin!Positions -> Plugin!Manifests \cup {Invalid, Nothing}]
  BY DEF PluginInv, PluginTypes, Plugin!EditFolder
<1>2. UNCHANGED <<records, consented, pluginSession>>
  BY DEF Plugin!EditFolder
<1> QED
  BY <1>1, <1>2, CatalogStep DEF PluginInv, PluginTypes, Consented

\* Of valid folders there is a first one.
Less == {pair \in Nat \X Nat : pair[1] < pair[2]}

LEMMA FirstFolder ==
  ASSUME NEW S \in SUBSET Plugin!Positions, S # {}
  PROVE  (CHOOSE at \in S : \A other \in S : at <= other) \in S
<1>1. S \subseteq Nat
  BY FoldersAssumption DEF Plugin!Positions
<1>2. Less = OpToRel(<, Nat)
  BY Zenon DEF OpToRel, Less
<1>3. IsWellFoundedOn(Less, Nat)
  BY <1>2, NatLessThanWellFounded, Zenon
<1>4. PICK at \in S : \A other \in S : ~(<<other, at>> \in Less)
  BY <1>1, <1>3, WFMin
<1>5. \A other \in S : at <= other
  <2> SUFFICES ASSUME NEW other \in S, other < at PROVE FALSE
    BY <1>1, <1>4
  <2>1. PICK pair : pair = <<other, at>>
    OBVIOUS
  <2>2. pair \in Nat \X Nat /\ pair[1] = other /\ pair[2] = at
    BY <1>1, <1>4, <2>1
  <2> QED
    BY <1>4, <2>1, <2>2 DEF Less
<1> QED
  BY <1>4, <1>5

\* What a refresh makes of a valid folder: nothing is granted that the user did
\* not grant to the code of that folder.
LEMMA CarriedSound ==
  ASSUME PluginInv, NEW id \in Ids, NEW at \in Plugin!Positions, disk[at] \in Plugin!Manifests
  PROVE  /\ Plugin!Carried(Plugin!Loaded(at), records[id]) \in CatalogRecords
         /\ Consented(id, Plugin!Carried(Plugin!Loaded(at), records[id]), consented)
<1>1. PICK new : new = Plugin!Loaded(at)
  OBVIOUS
<1>2. /\ new \in CatalogRecords /\ new.folder = at /\ new.granted = {} /\ new.state # "enabled"
      /\ new.manifest = disk[at] /\ new.manifest.compatible \in BOOLEAN
  BY <1>1 DEF Plugin!Loaded, CatalogRecords, Plugin!Manifests
<1>3. CASE records[id] = Nothing \/ records[id].folder # new.folder
  BY <1>1, <1>2, <1>3 DEF Plugin!Carried, Consented
<1>4. CASE records[id] # Nothing /\ records[id].folder = new.folder
  <2>1. PICK old \in CatalogRecords : old = records[id]
    BY <1>4 DEF PluginInv, PluginTypes
  <2>2. old.granted \subseteq consented[<<at, id>>] /\ old.folder = at
    BY <1>2, <1>4, <2>1 DEF PluginInv, Consented
  <2>3. PICK state \in {"enabled", "disabled", "incompatible"} :
          /\ state = IF old.state = "enabled" /\ new.manifest.compatible THEN "enabled" ELSE new.state
          /\ state = "enabled" => new.manifest.compatible
    BY <1>2, <2>1 DEF CatalogRecords
  <2>4. PICK granted : granted = old.granted \cap new.manifest.declares
    OBVIOUS
  <2>5. granted \in SUBSET Capabilities
    BY <2>1, <2>4 DEF CatalogRecords
  <2>6. PICK r : r = [new EXCEPT !.granted = granted, !.state = state]
    OBVIOUS
  <2>7. /\ r \in CatalogRecords /\ r.folder = at /\ r.manifest = new.manifest
        /\ r.granted = granted /\ r.state = state
    BY <1>2, <2>3, <2>5, <2>6 DEF CatalogRecords
  <2>8. Plugin!Carried(new, records[id]) = r
    BY <1>4, <2>1, <2>3, <2>4, <2>6 DEF Plugin!Carried
  <2>9. Consented(id, r, consented)
    BY <2>2, <2>3, <2>4, <2>7 DEF Consented
  <2> QED
    BY <1>1, <2>7, <2>8, <2>9
<1> QED
  BY <1>3, <1>4

LEMMA RefreshStep ==
  ASSUME PluginInv, Plugin!Refresh
  PROVE  PluginInv'
<1>1. ASSUME NEW id \in Ids
      PROVE  /\ Plugin!Refreshed(id) \in CatalogRecords \cup {Nothing}
             /\ Consented(id, Plugin!Refreshed(id), consented)
  <2>1. PICK valid : valid = {at \in Plugin!Positions : disk[at] \in Plugin!Manifests /\ disk[at].id = id}
    OBVIOUS
  <2>2. PICK first : first = CHOOSE at \in valid : \A other \in valid : at <= other
    OBVIOUS
  <2>3. Plugin!Refreshed(id) =
          IF Plugin!Retained(id) # {} THEN records[id]
          ELSE IF valid = {} THEN Nothing
          ELSE Plugin!Carried(Plugin!Loaded(first), records[id])
    BY <2>1, <2>2 DEF Plugin!Refreshed
  <2>4. CASE Plugin!Retained(id) # {}
    BY <2>3, <2>4 DEF PluginInv, PluginTypes
  <2>5. CASE Plugin!Retained(id) = {} /\ valid = {}
    BY <2>3, <2>5 DEF Consented
  <2>6. CASE Plugin!Retained(id) = {} /\ valid # {}
    <3>1. first \in valid
      BY <2>1, <2>2, <2>6, FirstFolder
    <3>2. first \in Plugin!Positions /\ disk[first] \in Plugin!Manifests
      BY <2>1, <3>1
    <3> QED
      BY <2>3, <2>6, <3>2, CarriedSound
  <2> QED
    BY <2>4, <2>5, <2>6
<1>2. /\ records' = [id \in Ids |-> Plugin!Refreshed(id)]
      /\ UNCHANGED <<disk, consented, pluginSession>>
  BY DEF Plugin!Refresh
<1>3. records' \in [Ids -> CatalogRecords \cup {Nothing}] /\ \A id \in Ids : Consented(id, records'[id], consented')
  BY <1>1, <1>2 DEF Consented
<1> QED
  BY <1>2, <1>3, CatalogStep DEF PluginInv, PluginTypes

\* The user's decision is recorded for the folder and the identifier at hand.
LEMMA DecisionStep ==
  ASSUME PluginInv, NEW id \in Ids, NEW record \in CatalogRecords, records[id] \in CatalogRecords,
         record.folder = records[id].folder, record.granted \subseteq record.manifest.declares,
         record.state = "enabled" => record.manifest.compatible,
         records' = [records EXCEPT ![id] = record],
         consented' = [consented EXCEPT ![<<records[id].folder, id>>] = record.granted],
         UNCHANGED <<disk, pluginSession>>
  PROVE  PluginInv'
<1>1. PICK pair : pair = <<records[id].folder, id>>
  OBVIOUS
<1>2. pair \in Plugin!Positions \X Ids /\ record.granted \in SUBSET Capabilities
  BY <1>1 DEF CatalogRecords
<1>3. /\ consented' \in [Plugin!Positions \X Ids -> SUBSET Capabilities] /\ consented'[pair] = record.granted
      /\ \A other \in Plugin!Positions \X Ids : other # pair => consented'[other] = consented[other]
  BY <1>1, <1>2 DEF PluginInv, PluginTypes
<1>4. /\ records' \in [Ids -> CatalogRecords \cup {Nothing}] /\ records'[id] = record
      /\ \A other \in Ids : other # id => records'[other] = records[other]
  BY DEF PluginInv, PluginTypes
<1>5. ASSUME NEW other \in Ids PROVE Consented(other, records'[other], consented')
  <2>1. CASE other = id
    BY <1>1, <1>3, <1>4, <2>1 DEF Consented
  <2>2. CASE other # id
    <3>1. records'[other] = records[other] /\ Consented(other, records[other], consented)
      BY <1>4, <2>2 DEF PluginInv
    <3>2. CASE records[other] # Nothing
      <4>1. PICK at \in Plugin!Positions : at = records[other].folder
        BY <3>2 DEF PluginInv, PluginTypes, CatalogRecords
      <4>2. <<at, other>> \in Plugin!Positions \X Ids /\ <<at, other>> # pair
        BY <1>1, <2>2
      <4>3. consented'[<<at, other>>] = consented[<<at, other>>]
        BY <1>3, <4>2
      <4> QED
        BY <3>1, <4>1, <4>3 DEF Consented
    <3> QED
      BY <3>1, <3>2 DEF Consented
  <2> QED
    BY <2>1, <2>2
<1> QED
  BY <1>3, <1>4, <1>5, CatalogStep DEF PluginInv, PluginTypes

LEMMA EnableStep ==
  ASSUME PluginInv, NEW id \in Ids, Plugin!Enable(id)
  PROVE  PluginInv'
<1>1. PICK old \in CatalogRecords : old = records[id] /\ old.manifest.compatible
  BY DEF PluginInv, PluginTypes, Plugin!Enable
<1>2. PICK admitted \in SUBSET old.manifest.declares :
        /\ records' = [records EXCEPT ![id].granted = admitted, ![id].state = "enabled"]
        /\ consented' = [consented EXCEPT ![<<old.folder, id>>] = admitted]
  BY <1>1 DEF Plugin!Enable
<1>3. admitted \in SUBSET Capabilities
  BY <1>1 DEF CatalogRecords, Plugin!Manifests
<1>4. PICK record : record = [old EXCEPT !.granted = admitted, !.state = "enabled"]
  OBVIOUS
<1>5. /\ record \in CatalogRecords /\ record.folder = old.folder /\ record.manifest = old.manifest
      /\ record.granted = admitted /\ record.state = "enabled"
  BY <1>3, <1>4 DEF CatalogRecords
<1>6. records' = [records EXCEPT ![id] = record]
  BY <1>1, <1>2, <1>4 DEF PluginInv, PluginTypes
<1>7. UNCHANGED <<disk, pluginSession>>
  BY DEF Plugin!Enable
<1> QED
  BY <1>1, <1>2, <1>5, <1>6, <1>7, DecisionStep

LEMMA DisableStep ==
  ASSUME PluginInv, NEW id \in Ids, Plugin!Disable(id)
  PROVE  PluginInv'
<1>1. PICK old \in CatalogRecords : old = records[id]
  BY DEF PluginInv, PluginTypes, Plugin!Disable
<1>2. PICK state \in {"disabled", "incompatible"} :
        state = IF old.manifest.compatible THEN "disabled" ELSE "incompatible"
  OBVIOUS
<1>3. PICK record : record = [old EXCEPT !.granted = {}, !.state = state]
  OBVIOUS
<1>4. /\ record \in CatalogRecords /\ record.folder = old.folder /\ record.manifest = old.manifest
      /\ record.granted = {} /\ record.state = state
  BY <1>2, <1>3 DEF CatalogRecords
<1>5. /\ records' = [records EXCEPT ![id].granted = {},
                       ![id].state = IF records[id].manifest.compatible THEN "disabled" ELSE "incompatible"]
      /\ consented' = [consented EXCEPT ![<<old.folder, id>>] = {}]
      /\ UNCHANGED <<disk, pluginSession>>
  BY <1>1 DEF Plugin!Disable
<1>6. records' = [records EXCEPT ![id] = record]
  BY <1>1, <1>2, <1>3, <1>5 DEF PluginInv, PluginTypes
<1> QED
  BY <1>1, <1>2, <1>4, <1>5, <1>6, DecisionStep

LEMMA InitPlugin == Plugin!Init => PluginInv
<1> SUFFICES ASSUME Plugin!Init PROVE PluginInv
  OBVIOUS
<1>1. PluginTypes
  BY DEF Plugin!Init, PluginTypes
<1>2. \A id \in Ids : records[id] = Nothing
  BY DEF Plugin!Init
<1> QED
  BY <1>1, <1>2 DEF PluginInv, Consented, Plugin!Init

LEMMA PluginStep == PluginInv /\ [Plugin!Next]_pluginVars => PluginInv'
<1> SUFFICES ASSUME PluginInv, [Plugin!Next]_pluginVars PROVE PluginInv'
  OBVIOUS
<1>1. CASE Plugin!Refresh \/ Plugin!EditFolder
  BY <1>1, RefreshStep, EditStep
<1>2. CASE \E id \in Ids : Plugin!Enable(id) \/ Plugin!Disable(id) \/ Plugin!Start(id)
  BY <1>2, EnableStep, DisableStep, StartStep
<1>3. CASE \E op \in Capabilities : Plugin!Invoke(op)
  BY <1>3, InvokeStep
<1>4. CASE Plugin!PluginReads \/ Plugin!PluginWrites \/ Plugin!PluginExits
  BY <1>4, ReadsStep, WritesStep, ExitsStep
<1>5. CASE Plugin!Receive \/ Plugin!TimesOut
  BY <1>5, AnswerStep, TimesOutStep
<1>6. CASE Plugin!Shutdown
  <2>1. pluginSession' = Nothing /\ UNCHANGED <<disk, records, consented>>
    BY <1>6 DEF Plugin!Shutdown
  <2> QED
    BY <2>1, SessionStep
<1>7. CASE UNCHANGED pluginVars
  BY <1>7 DEF pluginVars, PluginInv, PluginTypes, Consented, Numbered
<1> QED
  BY <1>1, <1>2, <1>3, <1>4, <1>5, <1>6, <1>7 DEF Plugin!Next

LEMMA PluginSafe == PluginInv => PluginsSafe
<1> SUFFICES ASSUME PluginInv PROVE PluginsSafe
  OBVIOUS
<1>1. Plugin!GrantsConsented
  BY DEF PluginInv, Consented, Plugin!GrantsConsented
<1>2. Plugin!AnswersBelong
  BY DEF PluginInv, Numbered, Plugin!AnswersBelong
<1> QED
  BY <1>1, <1>2 DEF PluginsSafe, Plugin!PluginsSafe

\* Whatever folders, identifiers and answers there are: code has at most the
\* grants the user gave it, and a caller gets the answer to its own call
\* (plugins/catalog.rs, refresh; plugins/protocol.rs, exchange).
THEOREM PluginsAreSafe == PeersSpec => []PluginsSafe
<1>1. PeersInit => PluginInv
  BY InitPlugin DEF PeersInit
<1>2. PluginInv /\ [PeersNext]_<<part, vars, pluginVars>> => PluginInv'
  <2> SUFFICES ASSUME PluginInv, [PeersNext]_<<part, vars, pluginVars>> PROVE PluginInv'
    OBVIOUS
  <2>1. Plugin!Next \/ UNCHANGED pluginVars
    BY DEF PeersNext
  <2> QED
    BY <2>1, PluginStep
<1> QED
  BY <1>1, <1>2, PluginSafe, PTL DEF PeersSpec
=============================================================================
