------------------------- MODULE OrchestrationProofs -------------------------
(***************************************************************************)
(* Proofs about Orchestration for any agents, messages, deadlines, clocks, *)
(* storage errors, crashes and uses of the recovery controls: a            *)
(* conversation ends once, and every finished or blocked task has its      *)
(* reason in the durable record of its handoffs.  While storage works, the *)
(* mailboxes lose nothing, keep their order and never block on a front     *)
(* that cannot be delivered, and routine work is written once.             *)
(*                                                                         *)
(* Every journal transaction maps one database to the next, so the proof   *)
(* is about databases first: Good(d) is kept by each transaction a handler *)
(* commits, alone, and therefore by every prefix of a handler.  The second *)
(* half is about mailboxes: Serves(d, b) says that the mailboxes b hold    *)
(* what d still has to deliver, and each handler keeps it.                 *)
(***************************************************************************)
EXTENDS Orchestration, SequenceTheorems, FiniteSetTheorems, TLAPS

Attempts == [msg : KindSet, outcome : Outcomes]
Databases == [task : Seq(TaskStates), handoff : Seq(HandoffRecord)]

\* A prompt that ran out of time.
Exhausted(r) == \E i \in DOMAIN r.attempts : r.attempts[i] = [msg |-> "root", outcome |-> "exhausted"]

\* One conversation.  Only a prompt at the end of its delivery window is
\* exhausted; the user's own handoffs have no identifier to answer to, and any
\* other belongs to the agent that submitted it.
RecordSound(r) ==
  /\ r.response = None \/ r.termination = None
  /\ r.response # None \/ r.progress => MessageDelivered(r, "root")
  /\ \A i, j \in DOMAIN r.attempts :
       r.attempts[i].outcome = "started" /\ r.attempts[j].outcome = "started" => i = j
  /\ \A i, j \in DOMAIN r.attempts :
       r.attempts[i].outcome = "delivered" /\ r.attempts[i] = r.attempts[j] => i = j
  /\ r.root < 0 => r.response = None
  /\ r.root \in Sends => r.source = From[r.root]
  /\ Exhausted(r) => ~MessageDelivered(r, "root") /\ (Active(r) => r.age["root"] = Window)

\* Handoffs that continue a task come from the user, after a blocking answer
\* and once the handoff before was over.
Continues(d, g, h) == g < h /\ d.handoff[g].task = d.handoff[h].task /\ d.handoff[g].task # 0
Chained(d) ==
  \A g, h \in DOMAIN d.handoff : Continues(d, g, h) =>
    /\ d.handoff[h].root < 0 /\ ~Active(d.handoff[g])
    /\ d.handoff[g].root > 0 => d.handoff[g].response = "blocked"

\* h is the last handoff of a task.
Last(d, t, h) ==
  /\ h \in DOMAIN d.handoff /\ d.handoff[h].task = t
  /\ \A g \in DOMAIN d.handoff : d.handoff[g].task = t => g <= h
LastExists(d) == \A t \in DOMAIN d.task : \E h \in DOMAIN d.handoff : Last(d, t, h)

\* The reason for a task state, in the last handoff of the task.
Reason(d, t, h, state) ==
  LET r == d.handoff[h]
  IN  /\ state = "completed" => r.response = "completed"
      /\ state = "cancelled" => r.termination # None
      /\ state = "failed" => r.response = "failed" \/ r.termination = "timeout" \/ Exhausted(r)
      /\ state = "blocked" => \E g \in DOMAIN d.handoff : d.handoff[g].task = t /\ d.handoff[g].response = "blocked"
Reasoned(d) == \A t \in DOMAIN d.task : \A h \in DOMAIN d.handoff : Last(d, t, h) => Reason(d, t, h, d.task[t])

Named(d) == \A h \in DOMAIN d.handoff : d.handoff[h].task \in 0..Len(d.task) /\ RecordSound(d.handoff[h])

\* Every message has one handoff at most, the other ones are the user's.
UserOwn(d) == {h \in DOMAIN d.handoff : d.handoff[h].root < 0}
Rooted(d) ==
  /\ \A h \in DOMAIN d.handoff : d.handoff[h].root \in Sends \/ d.handoff[h].root < 0
  /\ \A g, h \in DOMAIN d.handoff : d.handoff[g].root = d.handoff[h].root /\ d.handoff[g].root \in Sends => g = h
  /\ Cardinality(UserOwn(d)) <= MaxUserHandoffs
NewRoot(d, root) ==
  \/ root \in Sends /\ \A h \in DOMAIN d.handoff : d.handoff[h].root # root
  \/ root \in Int /\ root < 0 /\ Cardinality(UserOwn(d)) < MaxUserHandoffs

Good(d) == d \in Databases /\ Named(d) /\ Chained(d) /\ LastExists(d) /\ Reasoned(d) /\ Rooted(d)

\* An answer, an end or a finished task is never changed, and neither is what
\* a handoff is about and that it was attempted.
KeepsEnd(q, r) ==
  /\ r.root = q.root /\ r.source = q.source
  /\ q.attempts # <<>> => r.attempts # <<>>
  /\ q.response # None => r.response = q.response
  /\ q.termination # None => r.termination = q.termination
Keeps(d, e) ==
  /\ \A h \in DOMAIN d.handoff : h \in DOMAIN e.handoff /\ KeepsEnd(d.handoff[h], e.handoff[h])
  /\ \A t \in DOMAIN d.task : t \in DOMAIN e.task /\ (d.task[t] \notin Open => e.task[t] = d.task[t])

\* What a transaction may turn the database d into.
After(d) == {e \in Databases : Good(e) /\ Keeps(d, e)}

-----------------------------------------------------------------------------
(* What a transaction on one handoff or one task changes *)

LEMMA DatabaseTypes ==
  ASSUME NEW d \in Databases
  PROVE  /\ d.task \in Seq(TaskStates) /\ d.handoff \in Seq(HandoffRecord)
         /\ DOMAIN d.task = 1..Len(d.task) /\ DOMAIN d.handoff = 1..Len(d.handoff)
         /\ Len(d.task) \in Nat /\ Len(d.handoff) \in Nat
         /\ \A t \in DOMAIN d.task : d.task[t] \in TaskStates
         /\ \A h \in DOMAIN d.handoff : d.handoff[h] \in HandoffRecord
  BY DEF Databases

LEMMA HandoffChanged ==
  ASSUME NEW d \in Databases, NEW h \in DOMAIN d.handoff, NEW r \in HandoffRecord,
         NEW e, e = [d EXCEPT !.handoff = [d.handoff EXCEPT ![h] = r]]
  PROVE  /\ e \in Databases /\ e.task = d.task /\ DOMAIN e.handoff = DOMAIN d.handoff
         /\ e.handoff[h] = r /\ \A g \in DOMAIN d.handoff : g # h => e.handoff[g] = d.handoff[g]
<1>1. d.handoff \in Seq(HandoffRecord) /\ d.task \in Seq(TaskStates) /\ h \in 1..Len(d.handoff)
  BY DatabaseTypes
<1>2. PICK s : s = [d.handoff EXCEPT ![h] = r]
  OBVIOUS
<1>3. /\ s \in Seq(HandoffRecord) /\ Len(s) = Len(d.handoff)
      /\ \A j \in 1..Len(d.handoff) : s[j] = IF j = h THEN r ELSE d.handoff[j]
  BY <1>1, <1>2, ExceptSeq
<1>4. e = [d EXCEPT !.handoff = s]
  BY <1>2
<1>5. e \in Databases /\ e.task = d.task /\ e.handoff = s
  BY <1>1, <1>3, <1>4 DEF Databases
<1>6. DOMAIN s = DOMAIN d.handoff
  BY <1>1, <1>3
<1> QED
  BY <1>1, <1>3, <1>5, <1>6

LEMMA TaskChanged ==
  ASSUME NEW d \in Databases, NEW t \in DOMAIN d.task, NEW state \in TaskStates
  PROVE  /\ SetTask(d, t, state) \in Databases /\ SetTask(d, t, state).handoff = d.handoff
         /\ DOMAIN SetTask(d, t, state).task = DOMAIN d.task /\ Len(SetTask(d, t, state).task) = Len(d.task)
         /\ SetTask(d, t, state).task[t] = state
         /\ \A u \in DOMAIN d.task : u # t => SetTask(d, t, state).task[u] = d.task[u]
<1>1. d.handoff \in Seq(HandoffRecord) /\ d.task \in Seq(TaskStates) /\ t \in 1..Len(d.task)
  BY DatabaseTypes
<1>2. PICK s : s = [d.task EXCEPT ![t] = state]
  OBVIOUS
<1>3. /\ s \in Seq(TaskStates) /\ Len(s) = Len(d.task)
      /\ \A j \in 1..Len(d.task) : s[j] = IF j = t THEN state ELSE d.task[j]
  BY <1>1, <1>2, ExceptSeq
<1>4. PICK e : e = SetTask(d, t, state)
  OBVIOUS
<1>5. e = [d EXCEPT !.task = s]
  BY <1>2, <1>4 DEF SetTask
<1>6. e \in Databases /\ e.task = s /\ e.handoff = d.handoff
  BY <1>1, <1>3, <1>5 DEF Databases
<1>7. DOMAIN s = DOMAIN d.task
  BY <1>1, <1>3
<1> QED
  BY <1>1, <1>3, <1>4, <1>6, <1>7

LEMMA SameRoots ==
  ASSUME NEW d, NEW e, Rooted(d), DOMAIN e.handoff = DOMAIN d.handoff,
         \A h \in DOMAIN d.handoff : e.handoff[h].root = d.handoff[h].root
  PROVE  Rooted(e)
<1>1. UserOwn(e) = UserOwn(d)
  BY DEF UserOwn
<1> QED
  BY <1>1 DEF Rooted

LEMMA RootAdded ==
  ASSUME NEW d \in Databases, NEW e, Rooted(d), NEW n, n \notin DOMAIN d.handoff,
         DOMAIN e.handoff = DOMAIN d.handoff \cup {n}, NewRoot(d, e.handoff[n].root),
         \A h \in DOMAIN d.handoff : e.handoff[h] = d.handoff[h]
  PROVE  Rooted(e)
<1>1. IsFiniteSet(UserOwn(d)) /\ Cardinality(UserOwn(d)) \in Nat /\ n \notin UserOwn(d)
  <2>1. PICK k \in Nat : k = Len(d.handoff)
    BY DatabaseTypes
  <2>3. IsFiniteSet(1..k)
    BY FS_Interval
  <2>4. UserOwn(d) \subseteq 1..k
    BY <2>1, DatabaseTypes DEF UserOwn
  <2>2. IsFiniteSet(UserOwn(d))
    BY <2>3, <2>4, FS_Subset
  <2> QED
    BY <2>2, FS_CardinalityType DEF UserOwn
<1>2. Cardinality(UserOwn(e)) <= MaxUserHandoffs
  <2>1. CASE e.handoff[n].root \in Sends
    <3>2. \A x \in Sends : x \in Nat
      BY SendAssumption
    <3>3. e.handoff[n].root \in Nat
      BY <2>1, <3>2
    <3>0. ~(e.handoff[n].root < 0)
      BY <3>3
    <3>1. UserOwn(e) = UserOwn(d)
      BY <3>0 DEF UserOwn
    <3> QED
      BY <3>1 DEF Rooted
  <2>2. CASE e.handoff[n].root \notin Sends
    <3>1. UserOwn(e) = UserOwn(d) \cup {n}
      BY <2>2 DEF UserOwn, NewRoot
    <3>2. Cardinality(UserOwn(e)) = Cardinality(UserOwn(d)) + 1
      BY <1>1, <3>1, FS_AddElement
    <3> QED
      BY <1>1, <2>2, <3>2, SendAssumption DEF NewRoot
  <2> QED
    BY <2>1, <2>2
<1>3. \A h \in DOMAIN e.handoff : e.handoff[h].root \in Sends \/ e.handoff[h].root < 0
  BY DEF Rooted, NewRoot
<1>4. ASSUME NEW g \in DOMAIN e.handoff, NEW h \in DOMAIN e.handoff,
             e.handoff[g].root = e.handoff[h].root, e.handoff[g].root \in Sends
      PROVE  g = h
  <2>1. CASE g # n /\ h # n
    BY <1>4, <2>1 DEF Rooted
  <2>2. CASE e.handoff[n].root \in Sends /\ (g = n \/ h = n)
    <3>1. e.handoff[n].root \notin Int \/ ~(e.handoff[n].root < 0)
      BY <2>2, SendAssumption
    <3> QED
      BY <1>4, <2>2, <3>1 DEF NewRoot
  <2> QED
    BY <1>4, <2>1, <2>2
<1> QED
  BY <1>2, <1>3, <1>4 DEF Rooted

\* No database has more handoffs than messages and user actions can make.
LEMMA HandoffsCounted ==
  ASSUME NEW d, d \in Databases, Rooted(d)
  PROVE  Len(d.handoff) \in 0..MaxHandoffs
<1>1. DOMAIN d.handoff = 1..Len(d.handoff) /\ Len(d.handoff) \in Nat
  BY DatabaseTypes
<1>2. PICK U : U = UserOwn(d)
  OBVIOUS
<1>3. PICK S : S = DOMAIN d.handoff \ U
  OBVIOUS
<1>4. IsFiniteSet(U) /\ IsFiniteSet(S) /\ IsFiniteSet(DOMAIN d.handoff) /\ Cardinality(DOMAIN d.handoff) = Len(d.handoff)
  <2>2. PICK k \in Nat : k = Len(d.handoff)
    BY <1>1
  <2>3. IsFiniteSet(1..k) /\ Cardinality(1..k) = k
    BY FS_Interval
  <2>1. IsFiniteSet(DOMAIN d.handoff) /\ Cardinality(DOMAIN d.handoff) = Len(d.handoff)
    BY <1>1, <2>2, <2>3
  <2> QED
    BY <1>2, <1>3, <2>1, FS_Subset DEF UserOwn
<1>5. Cardinality(U) \in Nat /\ Cardinality(S) \in Nat /\ Cardinality(Sends) \in Nat
  BY <1>4, FS_CardinalityType, SendAssumption
<1>6. Cardinality(S) <= Cardinality(Sends)
  <2>1. PICK f : f = [h \in S |-> d.handoff[h].root]
    OBVIOUS
  <2>2. \A h \in S : d.handoff[h].root \in Sends
    BY <1>2, <1>3 DEF UserOwn, Rooted
  <2>3. f \in [S -> Sends]
    BY <2>1, <2>2
  <2>4. \A g, h \in S : f[g] = f[h] => g = h
    BY <1>3, <2>1, <2>2 DEF Rooted
  <2>5. f \in Injection(S, Sends)
    BY <2>3, <2>4 DEF Injection, IsInjective
  <2> QED
    BY <2>5, SendAssumption, FS_Injection
<1>7. Cardinality(DOMAIN d.handoff) = Cardinality(U) + Cardinality(S)
  <2>1. U \cup S = DOMAIN d.handoff /\ U \cap S = {}
    BY <1>2, <1>3 DEF UserOwn
  <2>2. Cardinality(U \cup S) = Cardinality(U) + Cardinality(S) - Cardinality(U \cap S)
    BY <1>4, FS_Union
  <2>3. Cardinality(U \cap S) = 0
    BY <2>1, FS_EmptySet
  <2>4. PICK i \in Nat, j \in Nat : i = Cardinality(U) /\ j = Cardinality(S)
    BY <1>5
  <2>5. Cardinality(DOMAIN d.handoff) = i + j - 0
    BY <2>1, <2>2, <2>3, <2>4
  <2> QED
    BY <2>4, <2>5
<1>8. Cardinality(U) <= MaxUserHandoffs
  BY <1>2 DEF Rooted
<1> QED
  BY <1>1, <1>4, <1>5, <1>6, <1>7, <1>8, SendAssumption DEF MaxHandoffs

\* A conversation may go on or end, as long as it stays sound.
LEMMA HandoffStep ==
  ASSUME NEW d, Good(d), NEW h \in DOMAIN d.handoff, NEW r \in HandoffRecord,
         NEW e, e = [d EXCEPT !.handoff = [d.handoff EXCEPT ![h] = r]],
         RecordSound(r), r.root = d.handoff[h].root, r.task = d.handoff[h].task,
         Active(r) => Active(d.handoff[h]),
         KeepsEnd(d.handoff[h], r),
         Exhausted(d.handoff[h]) => Exhausted(r)
  PROVE  /\ Good(e) /\ e.task = d.task /\ DOMAIN e.handoff = DOMAIN d.handoff /\ e.handoff[h] = r
         /\ \A g \in DOMAIN d.handoff : g # h => e.handoff[g] = d.handoff[g]
         /\ Keeps(d, e)
<1>1. d \in Databases
  BY DEF Good
<1>2. /\ e \in Databases /\ e.task = d.task /\ DOMAIN e.handoff = DOMAIN d.handoff
      /\ e.handoff[h] = r /\ \A g \in DOMAIN d.handoff : g # h => e.handoff[g] = d.handoff[g]
  BY <1>1, HandoffChanged
<1>3. Named(e)
  BY <1>2 DEF Good, Named
<1>4. \A g \in DOMAIN d.handoff : e.handoff[g].task = d.handoff[g].task /\ e.handoff[g].root = d.handoff[g].root
  BY <1>2
<1>5. Chained(e)
  <2> SUFFICES ASSUME NEW g \in DOMAIN d.handoff, NEW k \in DOMAIN d.handoff, Continues(e, g, k)
               PROVE  /\ e.handoff[k].root < 0 /\ ~Active(e.handoff[g])
                      /\ e.handoff[g].root > 0 => e.handoff[g].response = "blocked"
    BY <1>2 DEF Chained
  <2>1. Continues(d, g, k)
    BY <1>4 DEF Continues
  <2>2. /\ d.handoff[k].root < 0 /\ ~Active(d.handoff[g])
        /\ d.handoff[g].root > 0 => d.handoff[g].response = "blocked"
    BY <2>1 DEF Good, Chained
  <2>3. ~Active(e.handoff[g]) /\ (d.handoff[g].response = "blocked" => e.handoff[g].response = "blocked")
    BY <1>2, <2>2 DEF None, KeepsEnd
  <2> QED
    BY <1>4, <2>2, <2>3
<1>6. \A t, k : Last(e, t, k) <=> Last(d, t, k)
  BY <1>2, <1>4 DEF Last
<1>7. LastExists(e)
  BY <1>2, <1>6 DEF Good, LastExists
<1>8. Reasoned(e)
  <2> SUFFICES ASSUME NEW t \in DOMAIN d.task, NEW k \in DOMAIN d.handoff, Last(d, t, k)
               PROVE  Reason(e, t, k, d.task[t])
    BY <1>2, <1>6 DEF Reasoned
  <2>1. Reason(d, t, k, d.task[t])
    BY DEF Good, Reasoned
  <2>2. \A g \in DOMAIN d.handoff :
           /\ d.handoff[g].response # None => e.handoff[g].response = d.handoff[g].response
           /\ d.handoff[g].termination # None => e.handoff[g].termination = d.handoff[g].termination
           /\ Exhausted(d.handoff[g]) => Exhausted(e.handoff[g])
    BY <1>2 DEF KeepsEnd
  <2> QED
    BY <1>2, <1>4, <2>1, <2>2 DEF Reason, None
<1>9. Keeps(d, e)
  BY <1>2 DEF Keeps, KeepsEnd
<1>10. Rooted(e)
  <2>1. Rooted(d)
    BY DEF Good
  <2>2. /\ DOMAIN e.handoff = DOMAIN d.handoff
        /\ \A g \in DOMAIN d.handoff : e.handoff[g].root = d.handoff[g].root
    BY <1>2, <1>4
  <2> QED
    BY ONLY <2>1, <2>2, SameRoots, Zenon
<1> QED
  BY <1>2, <1>3, <1>5, <1>7, <1>8, <1>9, <1>10 DEF Good

\* A task may move to a state that has its reason.
LEMMA TaskStep ==
  ASSUME NEW d, Good(d), NEW t \in DOMAIN d.task, NEW state \in TaskStates,
         \A h \in DOMAIN d.handoff : Last(d, t, h) => Reason(d, t, h, state)
  PROVE  /\ Good(SetTask(d, t, state)) /\ SetTask(d, t, state).handoff = d.handoff
         /\ DOMAIN SetTask(d, t, state).task = DOMAIN d.task
         /\ d.task[t] \in Open => Keeps(d, SetTask(d, t, state))
<1>1. d \in Databases
  BY DEF Good
<1>2. PICK e : e = SetTask(d, t, state)
  OBVIOUS
<1>3. /\ e \in Databases /\ e.handoff = d.handoff /\ DOMAIN e.task = DOMAIN d.task /\ Len(e.task) = Len(d.task)
      /\ e.task[t] = state /\ \A u \in DOMAIN d.task : u # t => e.task[u] = d.task[u]
  BY <1>1, <1>2, TaskChanged
<1>4. Named(e) /\ Chained(e)
  BY <1>3 DEF Good, Named, Chained, Continues
<1>5. \A u, k : Last(e, u, k) <=> Last(d, u, k)
  BY <1>3 DEF Last
<1>6. LastExists(e)
  BY <1>3, <1>5 DEF Good, LastExists
<1>7. \A u, k, s : Reason(e, u, k, s) <=> Reason(d, u, k, s)
  BY <1>3 DEF Reason
<1>8. Reasoned(e)
  BY <1>3, <1>5, <1>7 DEF Good, Reasoned
<1>9. d.task[t] \in Open => Keeps(d, e)
  BY <1>3 DEF Keeps, KeepsEnd
<1>10. Rooted(e)
  BY <1>3, SameRoots DEF Good
<1> QED
  BY <1>2, <1>3, <1>4, <1>6, <1>8, <1>9, <1>10 DEF Good

-----------------------------------------------------------------------------
(* New handoffs *)

LEMMA TrackedFacts ==
  ASSUME NEW root \in Int, root # 0, NEW source \in Agents \cup {Routine}, NEW recipient \in Agents,
         NEW task \in Nat, NEW deadline \in {NoDeadline} \cup Nat, NEW r,
         r = Tracked(root, source, recipient, task, deadline), root \in Sends => source = From[root]
  PROVE  /\ r \in HandoffRecord /\ RecordSound(r) /\ r.root = root /\ r.task = task
         /\ r.response = None /\ r.termination = None /\ r.attempts = <<>>
<1>1. PICK ages : ages = [m \in KindSet |-> 0]
  OBVIOUS
<1>2. ages \in [KindSet -> 0..Window]
  BY <1>1, WindowAssumption
<1>3. r = [root |-> root, source |-> source, recipient |-> recipient, task |-> task, age |-> ages,
           deadline |-> deadline, attempts |-> <<>>, progress |-> FALSE, response |-> None, termination |-> None]
  BY <1>1 DEF Tracked
<1>4. <<>> \in Seq([msg : KindSet, outcome : Outcomes]) /\ DOMAIN <<>> = {}
  OBVIOUS
<1>5. r \in HandoffRecord
  BY <1>2, <1>3, <1>4 DEF HandoffRecord, Terminations
<1>6. /\ r.root = root /\ r.source = source /\ r.task = task
      /\ r.response = None /\ r.termination = None /\ r.attempts = <<>>
      /\ ~r.progress
  BY <1>3
<1>7. RecordSound(r)
  BY <1>4, <1>6 DEF RecordSound, Exhausted
<1> QED
  BY <1>5, <1>6, <1>7

LEMMA HandoffAdded ==
  ASSUME NEW d \in Databases, NEW r \in HandoffRecord, NEW e, e = AddHandoff(d, r)
  PROVE  /\ e \in Databases /\ e.task = d.task /\ Len(e.handoff) = Len(d.handoff) + 1
         /\ DOMAIN e.handoff = DOMAIN d.handoff \cup {Len(d.handoff) + 1}
         /\ Len(d.handoff) + 1 \notin DOMAIN d.handoff
         /\ e.handoff[Len(d.handoff) + 1] = r /\ \A g \in DOMAIN d.handoff : e.handoff[g] = d.handoff[g]
<1>1. d.handoff \in Seq(HandoffRecord) /\ d.task \in Seq(TaskStates)
  BY DatabaseTypes
<1>2. PICK s : s = Append(d.handoff, r)
  OBVIOUS
<1>3. /\ s \in Seq(HandoffRecord) /\ Len(s) = Len(d.handoff) + 1
      /\ \A i \in 1..Len(d.handoff) : s[i] = d.handoff[i]
      /\ s[Len(d.handoff) + 1] = r
  BY <1>1, <1>2, AppendProperties
<1>4. e = [d EXCEPT !.handoff = s]
  BY <1>2 DEF AddHandoff
<1>5. e \in Databases /\ e.task = d.task /\ e.handoff = s
  BY <1>1, <1>3, <1>4 DEF Databases
<1>6. DOMAIN s = 1..(Len(d.handoff) + 1) /\ DOMAIN d.handoff = 1..Len(d.handoff) /\ Len(d.handoff) \in Nat
  BY <1>1, <1>3
<1> QED
  BY <1>3, <1>5, <1>6

\* A question, or a handoff that continues a blocked task whose last handoff is over.
LEMMA AddStep ==
  ASSUME NEW d, Good(d), NEW r \in HandoffRecord, RecordSound(r), NewRoot(d, r.root),
         \/ r.task = 0
         \/ /\ r.task \in DOMAIN d.task /\ r.root < 0 /\ d.task[r.task] = "blocked"
            /\ \E h \in DOMAIN d.handoff : Last(d, r.task, h) /\ ~Active(d.handoff[h]),
         NEW e, e = AddHandoff(d, r)
  PROVE  Good(e) /\ e.task = d.task /\ e.handoff[Len(d.handoff) + 1] = r /\ Keeps(d, e)
<1> DEFINE n == Len(d.handoff) + 1
<1>1. d \in Databases
  BY DEF Good
<1>2. /\ e \in Databases /\ e.task = d.task /\ DOMAIN e.handoff = DOMAIN d.handoff \cup {n}
      /\ n \notin DOMAIN d.handoff
      /\ e.handoff[n] = r /\ \A g \in DOMAIN d.handoff : e.handoff[g] = d.handoff[g]
  BY <1>1, HandoffAdded
<1>3. /\ DOMAIN d.handoff = 1..Len(d.handoff) /\ Len(d.handoff) \in Nat
      /\ DOMAIN d.task = 1..Len(d.task) /\ Len(d.task) \in Nat
  BY <1>1, DatabaseTypes
<1>4. \A g \in DOMAIN d.handoff : g < n /\ g # n
  BY <1>3
<1> HIDE DEF n
<1>5. Named(e)
  <2>1. r.task \in 0..Len(d.task)
    BY <1>3
  <2> QED
    BY <1>2, <2>1 DEF Good, Named
<1>6. Chained(e)
  <2> SUFFICES ASSUME NEW g \in DOMAIN e.handoff, NEW k \in DOMAIN e.handoff, Continues(e, g, k)
               PROVE  /\ e.handoff[k].root < 0 /\ ~Active(e.handoff[g])
                      /\ e.handoff[g].root > 0 => e.handoff[g].response = "blocked"
    BY DEF Chained
  <2>1. CASE g \in DOMAIN d.handoff /\ k \in DOMAIN d.handoff
    BY <1>2, <2>1 DEF Good, Chained, Continues
  <2>2. CASE g = n
    <3>1. n \in Int /\ n < k
      BY <1>3, <2>2 DEF n, Continues
    <3>2. k \in DOMAIN d.handoff
      BY <1>2, <3>1
    <3> QED
      BY <1>3, <1>4, <3>1, <3>2
  <2>3. CASE g \in DOMAIN d.handoff /\ k = n
    <3>1. r.task # 0 /\ d.handoff[g].task = r.task
      BY <1>2, <2>3 DEF Continues
    <3>2. PICK h \in DOMAIN d.handoff : Last(d, r.task, h) /\ ~Active(d.handoff[h])
      BY <3>1
    <3>3. r.root < 0 /\ d.task[r.task] = "blocked" /\ r.task \in DOMAIN d.task
      BY <3>1
    <3>4. PICK b \in DOMAIN d.handoff : d.handoff[b].task = r.task /\ d.handoff[b].response = "blocked"
      BY <3>2, <3>3 DEF Good, Reasoned, Reason
    <3>5. g <= h /\ b <= h /\ g \in Int /\ h \in Int /\ b \in Int
      BY <1>3, <2>3, <3>1, <3>2, <3>4 DEF Last
    <3>6. d.handoff[h].task = r.task
      BY <3>2 DEF Last
    <3>7. CASE g = h
      <4>1. CASE b = h
        BY <1>2, <2>3, <3>2, <3>3, <3>4, <3>7, <4>1
      <4>2. CASE b # h
        <5>1. Continues(d, b, h)
          BY <3>1, <3>4, <3>5, <3>6, <4>2 DEF Continues
        <5>2. d.handoff[h].root < 0 /\ d.handoff[h] \in HandoffRecord
          BY <1>1, <5>1, DatabaseTypes DEF Good, Chained
        <5> QED
          BY <1>2, <2>3, <3>2, <3>3, <3>7, <5>2 DEF HandoffRecord
      <4> QED
        BY <4>1, <4>2
    <3>8. CASE g # h
      <4>1. Continues(d, g, h)
        BY <3>1, <3>5, <3>6, <3>8 DEF Continues
      <4> QED
        BY <1>2, <2>3, <3>3, <4>1 DEF Good, Chained
    <3> QED
      BY <3>7, <3>8
  <2> QED
    BY <1>2, <2>1, <2>2, <2>3
<1>7. \A t \in DOMAIN d.task : r.task # t => \A k : Last(e, t, k) <=> Last(d, t, k)
  BY <1>2 DEF Last
<1>8. r.task # 0 => \A k : Last(e, r.task, k) <=> k = n
  BY <1>2, <1>3, <1>4 DEF Last, n
<1>9. LastExists(e)
  BY <1>2, <1>7, <1>8, <1>3 DEF Good, LastExists
<1>10. Reasoned(e)
  <2> SUFFICES ASSUME NEW t \in DOMAIN d.task, NEW k \in DOMAIN e.handoff, Last(e, t, k)
               PROVE  Reason(e, t, k, d.task[t])
    BY <1>2 DEF Reasoned
  <2>1. CASE r.task # t
    <3>1. Last(d, t, k)
      BY <1>7, <2>1
    <3>2. k \in DOMAIN d.handoff /\ Reason(d, t, k, d.task[t])
      BY <3>1 DEF Last, Good, Reasoned
    <3> QED
      BY <1>2, <3>2 DEF Reason
  <2>2. CASE r.task = t
    <3>1. t # 0 /\ d.task[t] = "blocked"
      BY <1>3, <2>2
    <3>2. PICK b \in DOMAIN d.handoff : d.handoff[b].task = t /\ d.handoff[b].response = "blocked"
      BY <2>2, <3>1 DEF Good, Reasoned, Reason
    <3> QED
      BY <1>2, <3>1, <3>2 DEF Reason
  <2> QED
    BY <2>1, <2>2
<1>11. Keeps(d, e)
  BY <1>2 DEF Keeps, KeepsEnd
<1>12. Rooted(e)
  BY <1>1, <1>2, RootAdded DEF Good
<1> QED
  BY <1>2, <1>5, <1>6, <1>9, <1>10, <1>11, <1>12 DEF Good, n

\* A task and its first handoff.
LEMMA AddTaskStep ==
  ASSUME NEW d, Good(d), NEW r \in HandoffRecord, RecordSound(r), NewRoot(d, r.root), r.task = Len(d.task) + 1,
         NEW e, e = AddTaskHandoff(d, r)
  PROVE  Good(e) /\ Keeps(d, e)
<1> DEFINE n == Len(d.handoff) + 1
           u == Len(d.task) + 1
<1>1. d \in Databases
  BY DEF Good
<1>2. PICK f : f = AddHandoff(d, r)
  OBVIOUS
<1>3. /\ f \in Databases /\ f.task = d.task /\ DOMAIN f.handoff = DOMAIN d.handoff \cup {n}
      /\ n \notin DOMAIN d.handoff
      /\ f.handoff[n] = r /\ \A g \in DOMAIN d.handoff : f.handoff[g] = d.handoff[g]
  BY <1>1, <1>2, HandoffAdded
<1>4. /\ DOMAIN d.handoff = 1..Len(d.handoff) /\ Len(d.handoff) \in Nat
      /\ DOMAIN d.task = 1..Len(d.task) /\ Len(d.task) \in Nat /\ d.task \in Seq(TaskStates)
  BY <1>1, DatabaseTypes
<1>5. PICK s : s = Append(d.task, "queued")
  OBVIOUS
<1>6. "queued" \in TaskStates
  BY DEF TaskStates, Open
<1>7. /\ s \in Seq(TaskStates) /\ Len(s) = u /\ s[u] = "queued" /\ \A t \in 1..Len(d.task) : s[t] = d.task[t]
  BY <1>4, <1>5, <1>6, AppendProperties
<1>8. e = [f EXCEPT !.task = s]
  BY <1>2, <1>3, <1>5 DEF AddTaskHandoff
<1>9. e \in Databases /\ e.task = s /\ e.handoff = f.handoff
  BY <1>3, <1>7, <1>8 DEF Databases
<1>10. DOMAIN s = DOMAIN d.task \cup {u} /\ u \notin DOMAIN d.task /\ u # 0 /\ Len(s) = Len(d.task) + 1
  <2>1. DOMAIN s = 1..(Len(d.task) + 1)
    BY <1>7
  <2> QED
    BY <1>4, <1>7, <2>1
<1>11. \A g \in DOMAIN d.handoff : g < n /\ g # n /\ d.handoff[g].task # u
  BY <1>4 DEF Good, Named
<1>12. n \in Int /\ u \in Nat
  BY <1>4
<1> HIDE DEF n, u
<1>13. r.task = u
  BY DEF u
<1>14. Named(e)
  <2>1. \A t \in 0..Len(d.task) : t \in 0..Len(s)
    BY <1>4, <1>10
  <2>2. u \in 0..Len(s)
    BY <1>7, <1>12
  <2> QED
    BY <1>3, <1>9, <1>13, <2>1, <2>2 DEF Good, Named
<1>15. Chained(e)
  <2> SUFFICES ASSUME NEW g \in DOMAIN e.handoff, NEW k \in DOMAIN e.handoff, Continues(e, g, k)
               PROVE  /\ e.handoff[k].root < 0 /\ ~Active(e.handoff[g])
                      /\ e.handoff[g].root > 0 => e.handoff[g].response = "blocked"
    BY DEF Chained
  <2>1. CASE g \in DOMAIN d.handoff /\ k \in DOMAIN d.handoff
    BY <1>3, <1>9, <2>1 DEF Good, Chained, Continues
  <2>2. CASE g = n
    <3>1. n < k
      BY <2>2 DEF Continues
    <3>2. k \in DOMAIN d.handoff
      BY <1>3, <1>9, <1>12, <3>1
    <3> QED
      BY <1>4, <1>11, <1>12, <3>1, <3>2
  <2>3. CASE g \in DOMAIN d.handoff /\ k = n
    BY <1>3, <1>9, <1>11, <1>13, <2>3 DEF Continues
  <2> QED
    BY <1>3, <1>9, <2>1, <2>2, <2>3
<1>16. \A t \in DOMAIN d.task : \A k : Last(e, t, k) <=> Last(d, t, k)
  BY <1>3, <1>9, <1>10, <1>13 DEF Last
<1>17. \A k : Last(e, u, k) <=> k = n
  BY <1>3, <1>9, <1>11, <1>12, <1>13 DEF Last
<1>18. LastExists(e)
  BY <1>3, <1>9, <1>10, <1>16, <1>17 DEF Good, LastExists
<1>19. Reasoned(e)
  <2> SUFFICES ASSUME NEW t \in DOMAIN e.task, NEW k \in DOMAIN e.handoff, Last(e, t, k)
               PROVE  Reason(e, t, k, e.task[t])
    BY DEF Reasoned
  <2>1. CASE t \in DOMAIN d.task
    <3>1. Last(d, t, k) /\ e.task[t] = d.task[t]
      BY <1>4, <1>7, <1>9, <1>16, <2>1
    <3>2. k \in DOMAIN d.handoff /\ Reason(d, t, k, d.task[t])
      BY <2>1, <3>1 DEF Last, Good, Reasoned
    <3> QED
      BY <1>3, <1>9, <3>1, <3>2 DEF Reason
  <2>2. CASE t = u
    BY <1>7, <1>9, <2>2 DEF Reason
  <2> QED
    BY <1>9, <1>10, <2>1, <2>2
<1>20. Keeps(d, e)
  BY <1>3, <1>4, <1>7, <1>9, <1>10 DEF Keeps, KeepsEnd
<1>21. Rooted(e)
  BY <1>1, <1>3, <1>9, RootAdded DEF Good
<1> QED
  BY <1>9, <1>14, <1>15, <1>18, <1>19, <1>20, <1>21 DEF Good

-----------------------------------------------------------------------------
(* Attempts *)

LEMMA RecordTypes ==
  ASSUME NEW r \in HandoffRecord
  PROVE  /\ r.root \in Int /\ r.source \in Agents \cup {Routine} /\ r.recipient \in Agents /\ r.task \in Nat
         /\ r.age \in [KindSet -> 0..Window] /\ r.deadline \in {NoDeadline} \cup Nat
         /\ r.attempts \in Seq(Attempts) /\ DOMAIN r.attempts = 1..Len(r.attempts) /\ Len(r.attempts) \in Nat
         /\ \A i \in DOMAIN r.attempts : r.attempts[i] \in Attempts
         /\ r.response \in {None} \cup Statuses /\ r.termination \in Terminations
<1>1. r.attempts \in Seq(Attempts)
  BY DEF HandoffRecord, Attempts
<1>2. /\ DOMAIN r.attempts = 1..Len(r.attempts) /\ Len(r.attempts) \in Nat
      /\ \A i \in DOMAIN r.attempts : r.attempts[i] \in Attempts
  BY <1>1
<1> QED
  BY <1>1, <1>2 DEF HandoffRecord

LEMMA AttemptIs ==
  ASSUME NEW a \in Attempts, NEW m, NEW outcome, a.msg = m, a.outcome = outcome
  PROVE  a = [msg |-> m, outcome |-> outcome]
  BY DEF Attempts

\* A conversation with other attempts.
LEMMA AttemptsChanged ==
  ASSUME NEW r \in HandoffRecord, NEW s \in Seq(Attempts), NEW q, q = [r EXCEPT !.attempts = s]
  PROVE  /\ q \in HandoffRecord /\ q.attempts = s /\ q.root = r.root /\ q.task = r.task /\ q.age = r.age
         /\ q.response = r.response /\ q.termination = r.termination /\ (q.progress <=> r.progress)
         /\ q.recipient = r.recipient /\ q.source = r.source
  BY DEF HandoffRecord, Attempts

LEMMA BeginStep ==
  ASSUME NEW d, Good(d), NEW h \in DOMAIN d.handoff, NEW m \in KindSet, MayBegin(d.handoff[h], m),
         NEW e, e = BeginAttempt(d, h, m)
  PROVE  /\ Good(e) /\ e.task = d.task /\ DOMAIN e.handoff = DOMAIN d.handoff
         /\ e.handoff[h].age = d.handoff[h].age /\ e.handoff[h].task = d.handoff[h].task
         /\ (Active(e.handoff[h]) <=> Active(d.handoff[h])) /\ ~MessageDelivered(e.handoff[h], m)
         /\ \E i \in DOMAIN e.handoff[h].attempts : e.handoff[h].attempts[i] = [msg |-> m, outcome |-> "started"]
         /\ Exhausted(e.handoff[h]) => Exhausted(d.handoff[h])
         /\ Keeps(d, e)
<1>1. d \in Databases /\ d.handoff[h] \in HandoffRecord /\ RecordSound(d.handoff[h])
  BY DatabaseTypes DEF Good, Named
<1>2. PICK r : r = d.handoff[h]
  OBVIOUS
<1>3. PICK a : a = [msg |-> m, outcome |-> "started"]
  OBVIOUS
<1>4. a \in Attempts /\ a.outcome = "started" /\ a.msg = m
  BY <1>3 DEF Attempts, Outcomes
<1>5. r.attempts \in Seq(Attempts) /\ DOMAIN r.attempts = 1..Len(r.attempts) /\ Len(r.attempts) \in Nat
  BY <1>1, <1>2, RecordTypes
<1>6. PICK s : s = Append(r.attempts, a)
  OBVIOUS
<1>7. /\ s \in Seq(Attempts) /\ Len(s) = Len(r.attempts) + 1
      /\ \A i \in 1..Len(r.attempts) : s[i] = r.attempts[i]
      /\ s[Len(r.attempts) + 1] = a
  BY <1>4, <1>5, <1>6, AppendProperties
<1>8. PICK q : q = [r EXCEPT !.attempts = s]
  OBVIOUS
<1>9. /\ q \in HandoffRecord /\ q.attempts = s /\ q.root = r.root /\ q.source = r.source
      /\ q.task = r.task /\ q.age = r.age
      /\ q.response = r.response /\ q.termination = r.termination /\ (q.progress <=> r.progress)
  BY <1>1, <1>2, <1>7, <1>8, AttemptsChanged
<1>10. DOMAIN s = DOMAIN r.attempts \cup {Len(r.attempts) + 1} /\ Len(r.attempts) + 1 \notin DOMAIN r.attempts
  <2>1. DOMAIN s = 1..(Len(r.attempts) + 1)
    BY <1>7
  <2> QED
    BY <1>5, <2>1
<1>11. /\ \A x : MessageDelivered(q, x) <=> MessageDelivered(r, x)
       /\ Exhausted(q) <=> Exhausted(r)
  <2>1. /\ \A x : a # [msg |-> x, outcome |-> "delivered"]
        /\ a # [msg |-> "root", outcome |-> "exhausted"]
    BY <1>4
  <2>2. \A i \in DOMAIN r.attempts : s[i] = r.attempts[i]
    BY <1>5, <1>7
  <2>3. s[Len(r.attempts) + 1] = a
    BY <1>7
  <2> QED
    BY <1>9, <1>10, <2>1, <2>2, <2>3 DEF MessageDelivered, Exhausted
<1>12. RecordSound(q)
  <2>1. RecordSound(r) /\ ~Attempting(r)
    BY <1>1, <1>2 DEF MayBegin
  <2>2. \A i, j \in DOMAIN s : s[i].outcome = "started" /\ s[j].outcome = "started" => i = j
    BY <1>5, <1>7, <1>10, <2>1 DEF Attempting
  <2>3. \A i, j \in DOMAIN s : s[i].outcome = "delivered" /\ s[i] = s[j] => i = j
    BY <1>4, <1>5, <1>7, <1>10, <2>1 DEF RecordSound
  <2>4. Active(q) <=> Active(r)
    BY <1>9 DEF Active
  <2> QED
    BY <1>9, <1>11, <2>1, <2>2, <2>3, <2>4 DEF RecordSound
<1>13. e = [d EXCEPT !.handoff = [d.handoff EXCEPT ![h] = q]]
  BY <1>1, <1>2, <1>3, <1>6, <1>8, DatabaseTypes DEF BeginAttempt
<1>14. Active(q) <=> Active(r)
  BY <1>9 DEF Active
<1>18. KeepsEnd(r, q)
  <2>1. Len(s) # 0
    BY <1>5, <1>7
  <2>2. s # <<>>
    BY <2>1, EmptySeq
  <2> QED
    BY <1>9, <2>2 DEF KeepsEnd
<1>15. /\ Good(e) /\ e.task = d.task /\ DOMAIN e.handoff = DOMAIN d.handoff /\ e.handoff[h] = q
       /\ Keeps(d, e)
  BY <1>2, <1>9, <1>11, <1>12, <1>13, <1>14, <1>18, HandoffStep
<1>16. \E i \in DOMAIN q.attempts : q.attempts[i] = [msg |-> m, outcome |-> "started"]
  BY <1>3, <1>7, <1>9, <1>10
<1>17. ~MessageDelivered(q, m)
  BY <1>2, <1>11 DEF MayBegin
<1> QED
  BY <1>2, <1>9, <1>11, <1>14, <1>15, <1>16, <1>17

\* Finished(r, o) is the conversation after its open attempt ended.
Finished(r, outcome) ==
  [r EXCEPT !.attempts = [i \in DOMAIN r.attempts |->
     IF r.attempts[i].outcome = "started" THEN [r.attempts[i] EXCEPT !.outcome = outcome] ELSE r.attempts[i]]]

LEMMA FinishedFacts ==
  ASSUME NEW r \in HandoffRecord, NEW outcome \in {"delivered", "retryable", "exhausted"},
         NEW q, q = Finished(r, outcome)
  PROVE  /\ q \in HandoffRecord /\ q.root = r.root /\ q.source = r.source /\ q.task = r.task /\ q.age = r.age
         /\ q.response = r.response /\ q.termination = r.termination /\ (q.progress <=> r.progress)
         /\ DOMAIN q.attempts = DOMAIN r.attempts
         /\ \A i \in DOMAIN r.attempts :
              /\ q.attempts[i] \in Attempts /\ q.attempts[i].msg = r.attempts[i].msg
              /\ r.attempts[i].outcome = "started" => q.attempts[i].outcome = outcome
              /\ r.attempts[i].outcome # "started" => q.attempts[i] = r.attempts[i]
<1>1. /\ r.attempts \in Seq(Attempts) /\ \A i \in DOMAIN r.attempts : r.attempts[i] \in Attempts
      /\ DOMAIN r.attempts = 1..Len(r.attempts) /\ Len(r.attempts) \in Nat
  BY RecordTypes
<1>2. outcome \in Outcomes
  BY DEF Outcomes
<1>3. \A a \in Attempts : /\ [a EXCEPT !.outcome = outcome] \in Attempts
                          /\ [a EXCEPT !.outcome = outcome].msg = a.msg
                          /\ [a EXCEPT !.outcome = outcome].outcome = outcome
  BY <1>2 DEF Attempts
<1>4. PICK s : s = [i \in DOMAIN r.attempts |->
     IF r.attempts[i].outcome = "started" THEN [r.attempts[i] EXCEPT !.outcome = outcome] ELSE r.attempts[i]]
  OBVIOUS
<1>5. /\ DOMAIN s = DOMAIN r.attempts
      /\ \A i \in DOMAIN r.attempts :
           /\ s[i] \in Attempts /\ s[i].msg = r.attempts[i].msg
           /\ r.attempts[i].outcome = "started" => s[i].outcome = outcome
           /\ r.attempts[i].outcome # "started" => s[i] = r.attempts[i]
  BY <1>1, <1>3, <1>4
<1>6. s \in [1..Len(r.attempts) -> Attempts]
  BY <1>1, <1>4, <1>5
<1>7. s \in Seq(Attempts)
  BY <1>1, <1>6
<1>8. q = [r EXCEPT !.attempts = s]
  BY <1>4 DEF Finished
<1> QED
  BY <1>5, <1>7, <1>8, AttemptsChanged

LEMMA FinishStep ==
  ASSUME NEW d, Good(d), NEW h \in DOMAIN d.handoff, NEW m \in KindSet,
         NEW outcome \in {"delivered", "retryable", "exhausted"},
         \A i \in DOMAIN d.handoff[h].attempts :
           d.handoff[h].attempts[i].outcome = "started" => d.handoff[h].attempts[i].msg = m,
         outcome # "retryable" =>
           \E i \in DOMAIN d.handoff[h].attempts : d.handoff[h].attempts[i] = [msg |-> m, outcome |-> "started"],
         outcome = "delivered" => ~MessageDelivered(d.handoff[h], m) /\ (m = "root" => ~Exhausted(d.handoff[h])),
         outcome = "exhausted" /\ m = "root" =>
           ~MessageDelivered(d.handoff[h], m) /\ d.handoff[h].age["root"] = Window,
         NEW e, e = FinishAttempt(d, h, outcome)
  PROVE  /\ Good(e) /\ e.task = d.task /\ DOMAIN e.handoff = DOMAIN d.handoff
         /\ \A g \in DOMAIN d.handoff : e.handoff[g].task = d.handoff[g].task
         /\ outcome = "exhausted" /\ m = "root" => Exhausted(e.handoff[h])
         /\ Keeps(d, e)
<1>1. d \in Databases /\ d.handoff[h] \in HandoffRecord /\ RecordSound(d.handoff[h])
  BY DatabaseTypes DEF Good, Named
<1>2. PICK r : r = d.handoff[h]
  OBVIOUS
<1>3. PICK q : q = Finished(r, outcome)
  OBVIOUS
<1>4. /\ q \in HandoffRecord /\ q.root = r.root /\ q.source = r.source /\ q.task = r.task /\ q.age = r.age
      /\ q.response = r.response /\ q.termination = r.termination /\ (q.progress <=> r.progress)
      /\ DOMAIN q.attempts = DOMAIN r.attempts
      /\ \A i \in DOMAIN r.attempts :
           /\ q.attempts[i] \in Attempts /\ q.attempts[i].msg = r.attempts[i].msg
           /\ r.attempts[i].outcome = "started" => q.attempts[i].outcome = outcome
           /\ r.attempts[i].outcome # "started" => q.attempts[i] = r.attempts[i]
  BY <1>1, <1>2, <1>3, FinishedFacts
<1>5. \A i \in DOMAIN r.attempts : r.attempts[i] \in Attempts
  BY <1>1, <1>2, RecordTypes
<1>6. \A a \in Attempts : \A x, o : a = [msg |-> x, outcome |-> o] <=> a.msg = x /\ a.outcome = o
  BY DEF Attempts
<1>7. \A x : MessageDelivered(q, x) <=> MessageDelivered(r, x) \/ (outcome = "delivered" /\ x = m)
  <2>1. ASSUME NEW x, MessageDelivered(r, x) PROVE MessageDelivered(q, x)
    <3>1. PICK i \in DOMAIN r.attempts : r.attempts[i] = [msg |-> x, outcome |-> "delivered"]
      BY <2>1 DEF MessageDelivered
    <3>2. q.attempts[i] = r.attempts[i]
      BY <1>4, <3>1
    <3> QED
      BY <1>4, <3>1, <3>2 DEF MessageDelivered
  <2>2. ASSUME outcome = "delivered" PROVE MessageDelivered(q, m)
    <3>1. PICK i \in DOMAIN r.attempts : r.attempts[i] = [msg |-> m, outcome |-> "started"]
      BY <1>2, <2>2
    <3>2. q.attempts[i] \in Attempts /\ q.attempts[i].msg = m /\ q.attempts[i].outcome = "delivered"
      BY <1>4, <2>2, <3>1
    <3>3. q.attempts[i] = [msg |-> m, outcome |-> "delivered"]
      BY <3>2, AttemptIs
    <3> QED
      BY <1>4, <3>3 DEF MessageDelivered
  <2>3. ASSUME NEW x, MessageDelivered(q, x), ~MessageDelivered(r, x) PROVE outcome = "delivered" /\ x = m
    <3>1. PICK i \in DOMAIN r.attempts : q.attempts[i] = [msg |-> x, outcome |-> "delivered"]
      BY <1>4, <2>3 DEF MessageDelivered
    <3>2. r.attempts[i].outcome = "started"
      BY <1>4, <2>3, <3>1 DEF MessageDelivered
    <3>3. r.attempts[i].msg = m
      BY <1>2, <3>2
    <3>4. q.attempts[i].msg = m /\ q.attempts[i].outcome = outcome
      BY <1>4, <3>2, <3>3
    <3> QED
      BY <3>1, <3>4
  <2> QED
    BY <2>1, <2>2, <2>3
<1>8. Exhausted(q) <=> Exhausted(r) \/ (outcome = "exhausted" /\ m = "root")
  <2>1. ASSUME Exhausted(r) PROVE Exhausted(q)
    <3>1. PICK i \in DOMAIN r.attempts : r.attempts[i] = [msg |-> "root", outcome |-> "exhausted"]
      BY <2>1 DEF Exhausted
    <3>2. q.attempts[i] = r.attempts[i]
      BY <1>4, <3>1
    <3> QED
      BY <1>4, <3>1, <3>2 DEF Exhausted
  <2>2. ASSUME outcome = "exhausted", m = "root" PROVE Exhausted(q)
    <3>1. PICK i \in DOMAIN r.attempts : r.attempts[i] = [msg |-> m, outcome |-> "started"]
      BY <1>2, <2>2
    <3>2. q.attempts[i] \in Attempts /\ q.attempts[i].msg = "root" /\ q.attempts[i].outcome = "exhausted"
      BY <1>4, <2>2, <3>1
    <3>3. q.attempts[i] = [msg |-> "root", outcome |-> "exhausted"]
      BY <3>2, AttemptIs
    <3> QED
      BY <1>4, <3>3 DEF Exhausted
  <2>3. ASSUME Exhausted(q), ~Exhausted(r) PROVE outcome = "exhausted" /\ m = "root"
    <3>1. PICK i \in DOMAIN r.attempts : q.attempts[i] = [msg |-> "root", outcome |-> "exhausted"]
      BY <1>4, <2>3 DEF Exhausted
    <3>2. r.attempts[i].outcome = "started"
      BY <1>4, <2>3, <3>1 DEF Exhausted
    <3>3. r.attempts[i].msg = m
      BY <1>2, <3>2
    <3>4. q.attempts[i].msg = m /\ q.attempts[i].outcome = outcome
      BY <1>4, <3>2, <3>3
    <3> QED
      BY <3>1, <3>4
  <2> QED
    BY <2>1, <2>2, <2>3
<1>9. RecordSound(q)
  <2>1. RecordSound(r) /\ (Active(q) <=> Active(r))
    BY <1>1, <1>2, <1>4 DEF Active
  <2>2. \A i, j \in DOMAIN q.attempts : q.attempts[i].outcome = "started" /\ q.attempts[j].outcome = "started" => i = j
    BY <1>4, <2>1 DEF RecordSound
  <2>3. ASSUME NEW i \in DOMAIN r.attempts, NEW j \in DOMAIN r.attempts,
               q.attempts[i].outcome = "delivered", q.attempts[i] = q.attempts[j]
        PROVE  i = j
    <3>1. CASE r.attempts[i].outcome # "started" /\ r.attempts[j].outcome # "started"
      BY <1>4, <2>1, <2>3, <3>1 DEF RecordSound
    <3>2. CASE r.attempts[i].outcome = "started" /\ r.attempts[j].outcome = "started"
      BY <2>1, <3>2 DEF RecordSound
    <3>3. ASSUME NEW k \in DOMAIN r.attempts, NEW l \in DOMAIN r.attempts, q.attempts[k] = q.attempts[l],
                 q.attempts[k].outcome = "delivered",
                 r.attempts[k].outcome = "started", r.attempts[l].outcome # "started"
          PROVE  FALSE
      <4>1. r.attempts[k].msg = m /\ outcome = "delivered" /\ q.attempts[l] = r.attempts[l]
        BY <1>2, <1>4, <3>3
      <4>2. r.attempts[l].msg = m /\ r.attempts[l].outcome = "delivered"
        BY <1>4, <3>3, <4>1
      <4>3. r.attempts[l] = [msg |-> m, outcome |-> "delivered"]
        BY <1>5, <1>6, <4>2
      <4> QED
        BY <1>2, <4>1, <4>3 DEF MessageDelivered
    <3> QED
      BY <2>3, <3>1, <3>2, <3>3
  <2>4. Exhausted(q) => ~MessageDelivered(q, "root") /\ (Active(q) => q.age["root"] = Window)
    BY <1>2, <1>4, <1>7, <1>8, <2>1 DEF RecordSound
  <2>5. q.response # None \/ q.progress => MessageDelivered(q, "root")
    BY <1>4, <1>7, <2>1 DEF RecordSound
  <2> QED
    BY <1>4, <2>1, <2>2, <2>3, <2>4, <2>5 DEF RecordSound
<1>10. e = [d EXCEPT !.handoff = [d.handoff EXCEPT ![h] = q]]
  BY <1>1, <1>2, <1>3, DatabaseTypes DEF FinishAttempt, Finished
<1>11. Active(q) <=> Active(r)
  BY <1>4 DEF Active
<1>20. KeepsEnd(r, q)
  <2>1. r.attempts \in Seq(Attempts) /\ DOMAIN r.attempts = DOMAIN q.attempts
    BY <1>1, <1>2, <1>4, RecordTypes
  <2>2. q.attempts = <<>> => DOMAIN r.attempts = {}
    BY <2>1
  <2>3. DOMAIN r.attempts = {} => r.attempts = <<>>
    <3>1. DOMAIN r.attempts = 1..Len(r.attempts) /\ (r.attempts # <<>> => Len(r.attempts) \in Nat \ {0})
      BY <2>1, EmptySeq, LenProperties
    <3>2. r.attempts # <<>> => 1 \in DOMAIN r.attempts
      BY <3>1
    <3> QED
      BY <3>2
  <2> QED
    BY <1>4, <2>2, <2>3 DEF KeepsEnd
<1>12. /\ Good(e) /\ e.task = d.task /\ DOMAIN e.handoff = DOMAIN d.handoff /\ e.handoff[h] = q
       /\ \A g \in DOMAIN d.handoff : g # h => e.handoff[g] = d.handoff[g]
       /\ Keeps(d, e)
  BY <1>2, <1>4, <1>8, <1>9, <1>10, <1>11, <1>20, HandoffStep
<1> QED
  BY <1>2, <1>4, <1>8, <1>12
-----------------------------------------------------------------------------
(* Answers, ends and the clock *)

\* The handoff of a client that is active or has an answer that settles it is
\* the last one of its task.
LEMMA ActiveIsLast ==
  ASSUME NEW d, Good(d), NEW h \in DOMAIN d.handoff, d.handoff[h].task # 0, NEW k,
         Last(d, d.handoff[h].task, k),
         \/ Active(d.handoff[h])
         \/ d.handoff[h].root > 0 /\ d.handoff[h].response # "blocked"
  PROVE  k = h
<1>1. k \in DOMAIN d.handoff /\ h <= k /\ d.handoff[k].task = d.handoff[h].task
  BY DEF Last
<1>2. h \in Int /\ k \in Int
  BY <1>1, DatabaseTypes DEF Good
<1>3. ~Continues(d, h, k)
  BY <1>1 DEF Good, Chained
<1> QED
  BY <1>1, <1>2, <1>3 DEF Continues

LEMMA ProgressStep ==
  ASSUME NEW d, Good(d), NEW h \in DOMAIN d.handoff, MessageDelivered(d.handoff[h], "root"),
         NEW e, e = RecordProgress(d, h)
  PROVE  e \in After(d) /\ e.task = d.task
<1>1. d \in Databases /\ d.handoff[h] \in HandoffRecord /\ RecordSound(d.handoff[h])
  BY DatabaseTypes DEF Good, Named
<1>2. PICK r : r = d.handoff[h]
  OBVIOUS
<1>3. PICK q : q = [r EXCEPT !.progress = TRUE]
  OBVIOUS
<1>4. /\ q \in HandoffRecord /\ q.root = r.root /\ q.source = r.source /\ q.task = r.task
      /\ q.attempts = r.attempts /\ q.age = r.age
      /\ q.response = r.response /\ q.termination = r.termination
  BY <1>1, <1>2, <1>3 DEF HandoffRecord
<1>5. /\ \A x : MessageDelivered(q, x) <=> MessageDelivered(r, x)
      /\ Exhausted(q) <=> Exhausted(r)
      /\ Active(q) <=> Active(r)
  BY <1>4 DEF MessageDelivered, Exhausted, Active
<1>6. RecordSound(q)
  BY <1>1, <1>2, <1>4, <1>5 DEF RecordSound
<1>7. e = [d EXCEPT !.handoff = [d.handoff EXCEPT ![h] = q]]
  BY <1>1, <1>2, <1>3, DatabaseTypes DEF RecordProgress
<1> QED
  BY <1>2, <1>4, <1>5, <1>6, <1>7, HandoffStep DEF KeepsEnd, After, Good

\* An answer to an active client handoff whose prompt was delivered.
LEMMA ResponseStep ==
  ASSUME NEW d, Good(d), NEW h \in DOMAIN d.handoff, NEW status \in Statuses,
         Active(d.handoff[h]), MessageDelivered(d.handoff[h], "root"), d.handoff[h].root > 0,
         NEW e, e = RecordResponse(d, h, status)
  PROVE  /\ e \in After(d) /\ e.task = d.task /\ DOMAIN e.handoff = DOMAIN d.handoff
         /\ e.handoff[h].response = status /\ e.handoff[h].root = d.handoff[h].root
         /\ e.handoff[h].task = d.handoff[h].task
<1>1. d \in Databases /\ d.handoff[h] \in HandoffRecord /\ RecordSound(d.handoff[h])
  BY DatabaseTypes DEF Good, Named
<1>2. PICK r : r = d.handoff[h]
  OBVIOUS
<1>3. PICK q : q = [r EXCEPT !.response = status, !.deadline = NoDeadline]
  OBVIOUS
<1>4. /\ q \in HandoffRecord /\ q.root = r.root /\ q.source = r.source /\ q.task = r.task
      /\ q.attempts = r.attempts /\ q.age = r.age
      /\ q.response = status /\ q.termination = r.termination /\ (q.progress <=> r.progress)
  BY <1>1, <1>2, <1>3 DEF HandoffRecord
<1>5. status # None /\ r.response = None /\ r.termination = None /\ r.root \in Int
  BY <1>1, <1>2 DEF Statuses, None, Active, HandoffRecord
<1>6. /\ \A x : MessageDelivered(q, x) <=> MessageDelivered(r, x)
      /\ Exhausted(q) <=> Exhausted(r)
      /\ ~Active(q)
  BY <1>4, <1>5 DEF MessageDelivered, Exhausted, Active
<1>7. RecordSound(q)
  BY <1>1, <1>2, <1>4, <1>5, <1>6 DEF RecordSound
<1>8. e = [d EXCEPT !.handoff = [d.handoff EXCEPT ![h] = q]]
  BY <1>1, <1>2, <1>3, DatabaseTypes DEF RecordResponse
<1>9. KeepsEnd(r, q)
  BY <1>4, <1>5 DEF KeepsEnd
<1> QED
  BY <1>2, <1>4, <1>6, <1>7, <1>8, <1>9, HandoffStep DEF After, Good

LEMMA TerminateStep ==
  ASSUME NEW d, Good(d), NEW h \in DOMAIN d.handoff, NEW reason \in Terminations \ {None},
         Active(d.handoff[h]), NEW e, e = Terminate(d, h, reason)
  PROVE  /\ e \in After(d) /\ e.task = d.task /\ DOMAIN e.handoff = DOMAIN d.handoff
         /\ e.handoff[h].termination = reason
         /\ \A g \in DOMAIN d.handoff : e.handoff[g].task = d.handoff[g].task
<1>1. d \in Databases /\ d.handoff[h] \in HandoffRecord /\ RecordSound(d.handoff[h])
  BY DatabaseTypes DEF Good, Named
<1>2. PICK r : r = d.handoff[h]
  OBVIOUS
<1>3. PICK q : q = [r EXCEPT !.termination = reason, !.deadline = NoDeadline]
  OBVIOUS
<1>4. /\ q \in HandoffRecord /\ q.root = r.root /\ q.source = r.source /\ q.task = r.task
      /\ q.attempts = r.attempts /\ q.age = r.age
      /\ q.response = r.response /\ q.termination = reason /\ (q.progress <=> r.progress)
  BY <1>1, <1>2, <1>3 DEF HandoffRecord
<1>5. reason # None /\ r.response = None /\ r.termination = None
  BY <1>2 DEF Active
<1>6. /\ \A x : MessageDelivered(q, x) <=> MessageDelivered(r, x)
      /\ Exhausted(q) <=> Exhausted(r)
      /\ ~Active(q)
  BY <1>4, <1>5 DEF MessageDelivered, Exhausted, Active
<1>7. RecordSound(q)
  BY <1>1, <1>2, <1>4, <1>5, <1>6 DEF RecordSound
<1>8. e = [d EXCEPT !.handoff = [d.handoff EXCEPT ![h] = q]]
  BY <1>1, <1>2, <1>3, DatabaseTypes DEF Terminate
<1>9. KeepsEnd(r, q)
  BY <1>4, <1>5 DEF KeepsEnd
<1>10. /\ Good(e) /\ e.task = d.task /\ DOMAIN e.handoff = DOMAIN d.handoff /\ e.handoff[h] = q
       /\ \A g \in DOMAIN d.handoff : g # h => e.handoff[g] = d.handoff[g]
       /\ Keeps(d, e)
  BY <1>2, <1>4, <1>6, <1>7, <1>8, <1>9, HandoffStep
<1> QED
  BY <1>2, <1>4, <1>10 DEF After, Good
-----------------------------------------------------------------------------
(* The transactions of a handler: every one leads from the database the      *)
(* handler started with to a good one.                                       *)

LEMMA AfterSelf ==
  ASSUME NEW d, Good(d)
  PROVE  d \in After(d)
  BY DEF After, Good, Keeps, KeepsEnd

LEMMA AfterAfter ==
  ASSUME NEW c, NEW d \in After(c), NEW e \in After(d), c \in Databases
  PROVE  e \in After(c)
<1>1. /\ c.handoff \in Seq(HandoffRecord) /\ c.task \in Seq(TaskStates)
      /\ d.handoff \in Seq(HandoffRecord) /\ d.task \in Seq(TaskStates)
  BY DEF After, Databases
<1>2. \A h \in DOMAIN c.handoff : h \in DOMAIN e.handoff /\ KeepsEnd(c.handoff[h], e.handoff[h])
  BY DEF After, Keeps, KeepsEnd
<1>3. \A t \in DOMAIN c.task : t \in DOMAIN e.task /\ (c.task[t] \notin Open => e.task[t] = c.task[t])
  <2> SUFFICES ASSUME NEW t \in DOMAIN c.task
               PROVE  t \in DOMAIN e.task /\ (c.task[t] \notin Open => e.task[t] = c.task[t])
    OBVIOUS
  <2>1. t \in DOMAIN d.task /\ (c.task[t] \notin Open => d.task[t] = c.task[t])
    BY DEF After, Keeps
  <2> QED
    BY <2>1 DEF After, Keeps
<1> QED
  BY <1>2, <1>3 DEF After, Keeps

LEMMA AfterMore ==
  ASSUME NEW c, NEW d \in After(c), c \in Databases, NEW w \in Seq(After(d))
  PROVE  w \in Seq(After(c))
<1>1. After(d) \subseteq After(c)
  BY AfterAfter
<1>2. w \in [1..Len(w) -> After(d)] /\ Len(w) \in Nat
  OBVIOUS
<1>3. w \in [1..Len(w) -> After(c)]
  BY <1>1, <1>2
<1> QED
  BY <1>2, <1>3

LEMMA Paths ==
  ASSUME NEW state, NEW status \in Statuses
  PROVE  /\ ToDelivered(state) \in Seq({"delivered"})
         /\ ToRunning(state) \in Seq({"delivered", "running"})
         /\ ToResponse(state, status) \in Seq({"delivered", "running", status})
         /\ ToFailed(state) \in Seq({"failed"})
<1> DEFINE steps == {{"delivered"}, {"delivered", "running"}, {"delivered", "running", status}}
<1>0. \A S : <<>> \in Seq(S)
  OBVIOUS
<1>1. \A S \in steps : ToDelivered(state) \in Seq(S)
  <2>1. CASE state = "queued"
    <3>1. ToDelivered(state) = <<"delivered">>
      BY <2>1 DEF ToDelivered
    <3>2. \A S \in steps : "delivered" \in S
      OBVIOUS
    <3> HIDE DEF steps
    <3> QED
      BY <3>1, <3>2
  <2>2. CASE state # "queued"
    BY <1>0, <2>2 DEF ToDelivered
  <2> QED
    BY <2>1, <2>2
<1>2. PICK last : last = IF state = "running" THEN <<>> ELSE <<"running">>
  OBVIOUS
<1>3. last \in Seq({"delivered", "running"}) /\ last \in Seq({"delivered", "running", status})
  BY <1>2
<1>4. ToRunning(state) \in Seq({"delivered", "running"}) /\ ToRunning(state) \in Seq({"delivered", "running", status})
  BY <1>1, <1>2, <1>3, ConcatProperties DEF ToRunning
<1>5. ToResponse(state, status) \in Seq({"delivered", "running", status})
  <2>1. CASE status \in {"completed", "blocked"}
    <3>1. ToResponse(state, status) = ToRunning(state) \o <<status>>
      BY <2>1 DEF ToResponse
    <3>2. <<status>> \in Seq({"delivered", "running", status})
      OBVIOUS
    <3> QED
      BY <1>4, <3>1, <3>2, ConcatProperties
  <2>2. CASE status = "failed" /\ state = "failed"
    <3>1. ToResponse(state, status) = <<>>
      BY <2>2 DEF ToResponse
    <3> QED
      BY <3>1
  <2>3. CASE status = "failed" /\ state # "failed"
    <3>1. ToResponse(state, status) = ToDelivered(state) \o <<"failed">>
      BY <2>3 DEF ToResponse
    <3>2. <<"failed">> \in Seq({"delivered", "running", status})
      BY <2>3
    <3> QED
      BY <1>1, <3>1, <3>2, ConcatProperties
  <2> QED
    BY <2>1, <2>2, <2>3 DEF Statuses
<1>6. ToFailed(state) \in Seq({"failed"})
  <2>1. CASE state \in Open
    BY <2>1 DEF ToFailed
  <2>2. CASE state \notin Open
    BY <1>0, <2>2 DEF ToFailed
  <2> QED
    BY <2>1, <2>2
<1> QED
  BY <1>1, <1>4, <1>5, <1>6

\* A task that is still open moves along states that have their reason.
LEMMA PathStep ==
  ASSUME NEW d, Good(d), NEW t \in DOMAIN d.task, NEW S \in SUBSET TaskStates, NEW path \in Seq(S),
         d.task[t] \in Open \/ path = <<>>,
         \A s \in S : \A h \in DOMAIN d.handoff : Last(d, t, h) => Reason(d, t, h, s)
  PROVE  TaskWrites(d, t, path) \in Seq(After(d))
<1>1. Len(path) \in Nat /\ \A i \in 1..Len(path) : path[i] \in S
  OBVIOUS
<1>2. ASSUME NEW i \in 1..Len(path)
      PROVE  SetTask(d, t, path[i]) \in After(d)
  <2>1. path[i] \in TaskStates /\ d.task[t] \in Open
    BY <1>1
  <2>2. \A h \in DOMAIN d.handoff : Last(d, t, h) => Reason(d, t, h, path[i])
    BY <1>1
  <2>3. Good(SetTask(d, t, path[i])) /\ Keeps(d, SetTask(d, t, path[i]))
    BY <2>1, <2>2, TaskStep
  <2> QED
    BY <2>3 DEF After, Good
<1>3. TaskWrites(d, t, path) \in [1..Len(path) -> After(d)]
  BY <1>2 DEF TaskWrites
<1> QED
  BY <1>1, <1>3

LEMMA NoWrites ==
  ASSUME NEW d, NEW t, NEW S
  PROVE  TaskWrites(d, t, <<>>) \in Seq(S)
<1>1. TaskWrites(d, t, <<>>) \in [1..0 -> S]
  BY DEF TaskWrites
<1> QED
  BY <1>1

\* States without a reason to give.
LEMMA Unreasoned ==
  ASSUME NEW d, NEW t, NEW h, NEW s \in {"queued", "delivered", "running"}
  PROVE  Reason(d, t, h, s)
  BY DEF Reason

-----------------------------------------------------------------------------
(* Orchestrator::accept *)

\* The state the handlers start from.
InflightSound ==
  inflight # NoRequest =>
    /\ inflight.h \in HandoffIds(db) /\ inflight.msg \in KindSet
    /\ \E i \in DOMAIN db.handoff[inflight.h].attempts :
         db.handoff[inflight.h].attempts[i] = [msg |-> inflight.msg, outcome |-> "started"]
    /\ ~MessageDelivered(db.handoff[inflight.h], inflight.msg)
    /\ inflight.msg = "root" => ~Exhausted(db.handoff[inflight.h])

OInv ==
  /\ Good(db)
  /\ inbox \in Seq(Posts)
  /\ ~up => inflight = NoRequest
  /\ InflightSound

LEMMA SendFacts ==
  ASSUME NEW s \in Sends
  PROVE  /\ s \in Int /\ s # 0 /\ s > 0 /\ From[s] \in Agents \cup {Routine} /\ To[s] \in Agents
         /\ Timeout[s] \in {NoDeadline} \cup Nat
  BY SendAssumption

LEMMA NewHandoffFacts ==
  ASSUME NEW s \in Sends, NEW t \in Nat, NEW r, r = NewHandoff(s, t)
  PROVE  r \in HandoffRecord /\ RecordSound(r) /\ r.task = t /\ r.root = s
<1>1. PICK source : source = From[s]
  OBVIOUS
<1>2. PICK recipient : recipient = To[s]
  OBVIOUS
<1>3. PICK deadline : deadline = Timeout[s]
  OBVIOUS
<1>4. r = Tracked(s, source, recipient, t, deadline)
  BY <1>1, <1>2, <1>3 DEF NewHandoff
<1>5. /\ s \in Int /\ s # 0 /\ source \in Agents \cup {Routine} /\ recipient \in Agents
      /\ deadline \in {NoDeadline} \cup Nat
  BY <1>1, <1>2, <1>3, SendFacts
<1>6. s \in Sends => source = From[s]
  BY <1>1
<1> QED
  BY <1>4, <1>5, <1>6, TrackedFacts, SMTT(30)

LEMMA NewTaskAfter ==
  ASSUME NEW d, Good(d), NEW s \in Sends, \A h \in DOMAIN d.handoff : d.handoff[h].root # s,
         NEW e, e = AddTaskHandoff(d, NewHandoff(s, Len(d.task) + 1))
  PROVE  e \in After(d)
<1>0. PICK t : t = Len(d.task) + 1
  OBVIOUS
<1>1. t \in Nat
  BY <1>0, DatabaseTypes DEF Good
<1>2. PICK r : r = NewHandoff(s, t)
  OBVIOUS
<1>3. r \in HandoffRecord /\ RecordSound(r) /\ r.task = t /\ r.root = s
  BY <1>1, <1>2, NewHandoffFacts
<1>4. Good(e) /\ Keeps(d, e)
  <2>1. NewRoot(d, r.root)
    BY <1>3 DEF NewRoot
  <2> QED
    BY <1>0, <1>2, <1>3, <2>1, AddTaskStep
<1> QED
  BY <1>4 DEF After, Good

LEMMA AcceptHandoffAfter ==
  ASSUME Good(db), NEW s \in Sends
  PROVE  AcceptHandoff(s).writes \in Seq(After(db))
<1>1. CASE Find(s) # {} \/ To[s] \in archived
  BY <1>1 DEF AcceptHandoff, Result, Rejected
<1>2. CASE Find(s) = {} /\ To[s] \notin archived
  <2>0. \A h \in DOMAIN db.handoff : db.handoff[h].root # s
    BY <1>2 DEF Find, HandoffIds
  <2>1. CASE IsTask[s]
    <3>1. PICK e : e = AddTaskHandoff(db, NewHandoff(s, Len(db.task) + 1))
      OBVIOUS
    <3>2. AcceptHandoff(s).writes = <<e>>
      BY <1>2, <2>1, <3>1 DEF AcceptHandoff, Result
    <3>3. e \in After(db)
      BY <2>0, <3>1, NewTaskAfter
    <3> QED
      BY <3>2, <3>3
  <2>2. CASE ~IsTask[s]
    <3>1. PICK r : r = NewHandoff(s, 0)
      OBVIOUS
    <3>2. PICK e : e = AddHandoff(db, r)
      OBVIOUS
    <3>3. AcceptHandoff(s).writes = <<e>>
      BY <1>2, <2>2, <3>1, <3>2 DEF AcceptHandoff, Result
    <3>4. r \in HandoffRecord /\ RecordSound(r) /\ r.task = 0 /\ r.root = s
      <4>1. PICK task \in Nat : task = 0
        OBVIOUS
      <4> QED
        BY <3>1, <4>1, NewHandoffFacts
    <3>5. Good(e) /\ Keeps(db, e)
      <4>1. NewRoot(db, r.root)
        BY <2>0, <3>4 DEF NewRoot
      <4> QED
        BY <3>2, <3>4, <4>1, AddStep
    <3>6. e \in After(db)
      BY <3>5 DEF After, Good
    <3> QED
      BY <3>3, <3>6
  <2> QED
    BY <2>1, <2>2
<1> QED
  BY <1>1, <1>2

\* A report commits its record, unless it was recorded before, and then moves
\* the task of the handoff along a path.
LEMMA ReportAfter ==
  ASSUME Good(db), NEW s \in Sends, NEW m, NEW recorded \in BOOLEAN, NEW record, NEW legal \in BOOLEAN,
         NEW S \in SUBSET TaskStates, NEW path \in Seq(S), NEW h, h = CHOOSE x \in Find(s) : TRUE,
         Find(s) # {} /\ legal /\ db.handoff[h].task # 0 =>
            db.task[db.handoff[h].task] \in Open \/ path = <<>>,
         Find(s) # {} /\ ~recorded /\ Active(db.handoff[h]) /\ MessageDelivered(db.handoff[h], "root") =>
            record \in After(db) /\ record.task = db.task,
         \A d : Find(s) # {} /\ db.handoff[h].task # 0
                 /\ d = (IF recorded THEN db ELSE record)
                 /\ (recorded \/ (Active(db.handoff[h]) /\ MessageDelivered(db.handoff[h], "root")))
                 => \A x \in S : \A k \in DOMAIN d.handoff :
                      Last(d, db.handoff[h].task, k) => Reason(d, db.handoff[h].task, k, x)
  PROVE  AcceptReport(s, m, recorded, record, legal, path).writes \in Seq(After(db))
<1> DEFINE report == AcceptReport(s, m, recorded, record, legal, path)
           r == db.handoff[h]
           t == r.task
           after == IF recorded THEN db ELSE record
           first == IF recorded THEN <<>> ELSE <<record>>
<1>1. CASE Find(s) = {} \/ (~recorded /\ ~(Active(r) /\ MessageDelivered(r, "root")))
  BY <1>1 DEF AcceptReport, Result, Rejected
<1>2. CASE Find(s) # {} /\ (recorded \/ (Active(r) /\ MessageDelivered(r, "root")))
  <2>1. after \in After(db) /\ after.task = db.task
    BY <1>2, AfterSelf
  <2>2. first \in Seq(After(db))
    <3>1. CASE recorded
      BY <3>1
    <3>2. CASE ~recorded
      BY <2>1, <3>2
    <3> QED
      BY <3>1, <3>2
  <2>3. CASE t # 0 /\ ~legal
    <3>1. report.writes = first
      BY <1>2, <2>3 DEF AcceptReport, Result, Rejected
    <3> QED
      BY <2>2, <3>1
  <2>4. CASE t = 0
    <3>1. report.writes = first \o <<>>
      BY <1>2, <2>4 DEF AcceptReport, Result, Rejected
    <3>2. <<>> \in Seq(After(db))
      OBVIOUS
    <3> HIDE DEF report, first, after, t, r
    <3> QED
      BY <2>2, <3>1, <3>2, ConcatProperties DEF report
  <2>5. CASE t # 0 /\ legal
    <3>1. report.writes = first \o TaskWrites(after, t, path)
      BY <1>2, <2>5 DEF AcceptReport, Result, Rejected
    <3>2. h \in DOMAIN db.handoff /\ t \in DOMAIN db.task
      <4>1. h \in Find(s)
        BY <1>2
      <4>2. h \in DOMAIN db.handoff
        BY <4>1 DEF Find, HandoffIds
      <4>3. t \in 0..Len(db.task) /\ DOMAIN db.task = 1..Len(db.task) /\ Len(db.task) \in Nat
        BY <4>2, DatabaseTypes DEF Good, Named
      <4> QED
        BY <2>5, <4>2, <4>3
    <3>3. after.task[t] \in Open \/ path = <<>>
      BY <1>2, <2>1, <2>5
    <3>4. \A x \in S : \A k \in DOMAIN after.handoff : Last(after, t, k) => Reason(after, t, k, x)
      BY <1>2, <2>5
    <3>5. Good(after) /\ t \in DOMAIN after.task
      BY <2>1, <3>2 DEF After
    <3> HIDE DEF report, first, after, t
    <3>6. TaskWrites(after, t, path) \in Seq(After(after))
      BY <3>3, <3>4, <3>5, PathStep
    <3>7. TaskWrites(after, t, path) \in Seq(After(db))
      BY <2>1, <3>6, AfterMore DEF Good
    <3> QED
      BY <2>2, <3>1, <3>7, ConcatProperties DEF report
  <2> QED
    BY <2>3, <2>4, <2>5
<1> QED
  BY <1>1, <1>2

\* The handoff a message names.
LEMMA FindFacts ==
  ASSUME Good(db), NEW s \in Sends, Find(s) # {}, NEW h, h = CHOOSE x \in Find(s) : TRUE
  PROVE  /\ h \in DOMAIN db.handoff /\ db.handoff[h].root = s /\ db.handoff[h].root > 0
         /\ db.handoff[h].task # 0 => db.handoff[h].task \in DOMAIN db.task
         /\ TaskOf(s) = IF db.handoff[h].task = 0 THEN None ELSE db.task[db.handoff[h].task]
<1>1. h \in Find(s)
  OBVIOUS
<1>2. h \in DOMAIN db.handoff /\ db.handoff[h].root = s
  BY <1>1 DEF Find, HandoffIds
<1>3. db.handoff[h].task \in 0..Len(db.task) /\ DOMAIN db.task = 1..Len(db.task) /\ Len(db.task) \in Nat
  BY <1>2, DatabaseTypes DEF Good, Named
<1> QED
  BY <1>2, <1>3, SendFacts DEF TaskOf

LEMMA AcceptProgressAfter ==
  ASSUME Good(db), NEW s \in Sends
  PROVE  AcceptProgress(s).writes \in Seq(After(db))
<1>1. PICK h : h = CHOOSE x \in Find(s) : TRUE
  OBVIOUS
<1>2. PICK recorded \in BOOLEAN : recorded <=> Find(s) # {} /\ db.handoff[h].progress
  OBVIOUS
<1>3. PICK legal \in BOOLEAN : legal <=> TaskOf(s) \in Open
  OBVIOUS
<1>4. PICK record : record = RecordProgress(db, h)
  OBVIOUS
<1>5. PICK path : path = ToRunning(TaskOf(s))
  OBVIOUS
<1>6. PICK S : S = {"delivered", "running"}
  OBVIOUS
<1>7. S \subseteq TaskStates /\ path \in Seq(S)
  BY <1>5, <1>6, Paths DEF TaskStates, Open, Statuses
<1>8. Find(s) # {} /\ legal /\ db.handoff[h].task # 0 => db.task[db.handoff[h].task] \in Open
  BY <1>1, <1>3, FindFacts
<1>9. Find(s) # {} /\ MessageDelivered(db.handoff[h], "root") => record \in After(db) /\ record.task = db.task
  BY <1>1, <1>4, FindFacts, ProgressStep
<1>10. \A d, t, k : \A x \in S : Reason(d, t, k, x)
  BY <1>6, Unreasoned
<1>11. AcceptProgress(s) = AcceptReport(s, "progress", recorded, record, legal, path)
  BY <1>1, <1>2, <1>3, <1>4, <1>5 DEF AcceptProgress, AcceptReport
<1> QED
  BY <1>1, <1>7, <1>8, <1>9, <1>10, <1>11, ReportAfter

LEMMA AcceptResponseAfter ==
  ASSUME Good(db), NEW s \in Sends, NEW status \in Statuses
  PROVE  AcceptResponse(s, status).writes \in Seq(After(db))
<1>1. PICK h : h = CHOOSE x \in Find(s) : TRUE
  OBVIOUS
<1>2. PICK recorded \in BOOLEAN : recorded <=> Find(s) # {} /\ db.handoff[h].response = status
  OBVIOUS
<1>3. PICK legal \in BOOLEAN : legal <=> TaskOf(s) \in Open \/ (status = "failed" /\ TaskOf(s) = "failed")
  OBVIOUS
<1>4. PICK record : record = RecordResponse(db, h, status)
  OBVIOUS
<1>5. PICK path : path = ToResponse(TaskOf(s), status)
  OBVIOUS
<1>6. PICK S : S = {"delivered", "running", status}
  OBVIOUS
<1>7. S \subseteq TaskStates /\ path \in Seq(S)
  BY <1>5, <1>6, Paths DEF TaskStates, Open, Statuses
<1>8. Find(s) # {} /\ legal /\ db.handoff[h].task # 0 => db.task[db.handoff[h].task] \in Open \/ path = <<>>
  <2>1. status = "failed" /\ TaskOf(s) = "failed" => path = <<>>
    BY <1>5 DEF ToResponse
  <2> QED
    BY <1>1, <1>3, <2>1, FindFacts
<1>9. Find(s) # {} /\ Active(db.handoff[h]) /\ MessageDelivered(db.handoff[h], "root") =>
        /\ record \in After(db) /\ record.task = db.task /\ DOMAIN record.handoff = DOMAIN db.handoff
        /\ record.handoff[h].response = status /\ record.handoff[h].root = db.handoff[h].root
        /\ record.handoff[h].task = db.handoff[h].task
  BY <1>1, <1>4, FindFacts, ResponseStep
<1>10. ASSUME NEW d, Find(s) # {}, db.handoff[h].task # 0, d = (IF recorded THEN db ELSE record),
              recorded \/ (Active(db.handoff[h]) /\ MessageDelivered(db.handoff[h], "root")),
              NEW x \in S, NEW k \in DOMAIN d.handoff, Last(d, db.handoff[h].task, k)
       PROVE  Reason(d, db.handoff[h].task, k, x)
  <2> DEFINE t == db.handoff[h].task
  <2>1. /\ Good(d) /\ h \in DOMAIN d.handoff /\ d.handoff[h].response = status
        /\ d.handoff[h].task = t /\ d.handoff[h].root > 0
    <3>1. h \in DOMAIN db.handoff /\ db.handoff[h].root > 0
      BY <1>1, <1>10, FindFacts
    <3>2. CASE recorded
      BY <1>2, <1>10, <3>1, <3>2
    <3>3. CASE ~recorded
      BY <1>9, <1>10, <3>1, <3>3 DEF After
    <3> QED
      BY <3>2, <3>3
  <2>2. CASE x \in {"delivered", "running"}
    BY <2>2, Unreasoned
  <2>3. CASE x = "blocked" /\ status = "blocked"
    BY <2>1, <2>3 DEF Reason
  <2>4. CASE x \in {"completed", "failed"} /\ x = status
    <3>1. k = h
      BY <1>10, <2>1, <2>4, ActiveIsLast
    <3> QED
      BY <2>1, <2>4, <3>1 DEF Reason
  <2> QED
    BY <1>6, <2>2, <2>3, <2>4 DEF Statuses
<1>11. AcceptResponse(s, status) = AcceptReport(s, "response", recorded, record, legal, path)
  BY <1>1, <1>2, <1>3, <1>4, <1>5 DEF AcceptResponse, AcceptReport
<1>12. \A d : Find(s) # {} /\ db.handoff[h].task # 0
                 /\ d = (IF recorded THEN db ELSE record)
                 /\ (recorded \/ (Active(db.handoff[h]) /\ MessageDelivered(db.handoff[h], "root")))
                 => \A x \in S : \A k \in DOMAIN d.handoff :
                      Last(d, db.handoff[h].task, k) => Reason(d, db.handoff[h].task, k, x)
  BY <1>10
<1>13. Find(s) # {} /\ ~recorded /\ Active(db.handoff[h]) /\ MessageDelivered(db.handoff[h], "root") =>
            record \in After(db) /\ record.task = db.task
  BY <1>9
<1> QED
  BY <1>1, <1>7, <1>8, <1>11, <1>12, <1>13, ReportAfter

\* Ending a conversation that is the last of its task cancels the task with it.
LEMMA CancelTaskAfter ==
  ASSUME Good(db), NEW h \in DOMAIN db.handoff, Active(db.handoff[h]), NEW reason \in Terminations \ {None},
         db.handoff[h].task \in DOMAIN db.task, db.task[db.handoff[h].task] \in Open
  PROVE  CancelTask(db, h, reason) \in After(db)
<1>1. PICK e : e = Terminate(db, h, reason)
  OBVIOUS
<1>2. /\ e \in After(db) /\ e.task = db.task /\ DOMAIN e.handoff = DOMAIN db.handoff
      /\ e.handoff[h].termination = reason
      /\ \A g \in DOMAIN db.handoff : e.handoff[g].task = db.handoff[g].task
  BY <1>1, TerminateStep
<1>3. PICK t : t = db.handoff[h].task
  OBVIOUS
<1>4. t # 0
  BY <1>3, DatabaseTypes DEF Good
<1>5. ASSUME NEW k \in DOMAIN e.handoff, Last(e, t, k) PROVE Reason(e, t, k, "cancelled")
  <2>1. Last(db, t, k)
    BY <1>2, <1>5 DEF Last
  <2>2. k = h
    BY <1>3, <1>4, <2>1, ActiveIsLast
  <2> QED
    BY <1>2, <2>2 DEF Reason
<1>6. "cancelled" \in TaskStates
  BY DEF TaskStates
<1>7. Good(e) /\ t \in DOMAIN e.task /\ e.task[t] \in Open
  BY <1>2, <1>3 DEF After
<1>8. PICK f : f = SetTask(e, t, "cancelled")
  OBVIOUS
<1>9. Good(f) /\ Keeps(e, f)
  BY <1>5, <1>6, <1>7, <1>8, TaskStep
<1>10. f \in After(e)
  BY <1>9 DEF After, Good
<1>11. f \in After(db)
  BY <1>2, <1>10, AfterAfter DEF Good
<1>12. f = CancelTask(db, h, reason)
  BY <1>1, <1>3, <1>8 DEF CancelTask
<1> QED
  BY <1>11, <1>12

LEMMA AcceptCancellationAfter ==
  ASSUME Good(db), NEW s \in Sends
  PROVE  AcceptCancellation(s).writes \in Seq(After(db))
<1>1. CASE Find(s) = {}
  BY <1>1 DEF AcceptCancellation, Result, Rejected
<1>2. CASE Find(s) # {}
  <2>1. PICK h : h = CHOOSE x \in Find(s) : TRUE
    OBVIOUS
  <2>2. PICK r : r = db.handoff[h]
    OBVIOUS
  <2>3. PICK state : state = TaskOf(s)
    OBVIOUS
  <2>4. /\ h \in DOMAIN db.handoff /\ r.root > 0
        /\ r.task # 0 => r.task \in DOMAIN db.task
        /\ r.task # 0 => state = db.task[r.task]
    BY <1>2, <2>1, <2>2, <2>3, FindFacts
  <2> DEFINE result == AcceptCancellation(s)
  <2>5. result =
           IF r.termination = None
           THEN CASE r.response # None \/ (r.task # 0 /\ state \notin Open) -> Rejected(<<>>)
                  [] r.response = None /\ r.task # 0 /\ state \in Open ->
                       Result(<<CancelTask(db, h, "agent")>>, h, "cancel", TRUE)
                  [] r.response = None /\ r.task = 0 ->
                       Result(<<Terminate(db, h, "agent")>>, h, "cancel", TRUE)
           ELSE CASE r.task # 0 /\ state \in Open ->
                       Result(<<SetTask(db, r.task, "cancelled")>>, h, Announced(r), TRUE)
                  [] r.task # 0 /\ state \notin Open \cup {"cancelled"} -> Rejected(<<>>)
                  [] OTHER -> Result(<<>>, h, Announced(r), TRUE)
    BY <1>2, <2>1, <2>2, <2>3 DEF AcceptCancellation
  <2> HIDE DEF result
  <2>6. CASE r.termination = None /\ (r.response # None \/ (r.task # 0 /\ state \notin Open))
    <3>1. result = Rejected(<<>>)
      BY <2>5, <2>6
    <3> QED
      BY <3>1 DEF result, Rejected, Result
  <2>7. CASE r.termination = None /\ r.response = None /\ r.task # 0 /\ state \in Open
    <3>1. PICK e : e = CancelTask(db, h, "agent")
      OBVIOUS
    <3>2. result.writes = <<e>>
      <4>1. result = Result(<<e>>, h, "cancel", TRUE)
        BY <2>5, <2>7, <3>1
      <4> QED
        BY <4>1 DEF Result
    <3>3. Active(r) /\ "agent" \in Terminations \ {None}
      BY <2>7 DEF Active, Terminations, None
    <3>4. e \in After(db)
      BY <2>2, <2>4, <2>7, <3>1, <3>3, CancelTaskAfter
    <3> QED
      BY <3>2, <3>4 DEF result
  <2>8. CASE r.termination = None /\ r.response = None /\ r.task = 0
    <3>1. PICK e : e = Terminate(db, h, "agent")
      OBVIOUS
    <3>2. result.writes = <<e>>
      BY <2>5, <2>8, <3>1 DEF Result, Rejected
    <3>3. Active(r) /\ "agent" \in Terminations \ {None}
      BY <2>8 DEF Active, Terminations, None
    <3>4. e \in After(db)
      BY <2>2, <2>4, <3>1, <3>3, TerminateStep
    <3> QED
      BY <3>2, <3>4 DEF result
  <2>9. CASE r.termination # None /\ r.task # 0 /\ state \in Open
    <3>1. PICK e : e = SetTask(db, r.task, "cancelled")
      OBVIOUS
    <3>2. result.writes = <<e>>
      <4>1. result = Result(<<e>>, h, Announced(r), TRUE)
        BY <2>5, <2>9, <3>1
      <4> QED
        BY <4>1 DEF Result
    <3>3. r.response = None
      BY <2>2, <2>4, <2>9 DEF Good, Named, RecordSound
    <3>4. \A k \in DOMAIN db.handoff : Last(db, r.task, k) => Reason(db, r.task, k, "cancelled")
      <4>1. r.response # "blocked"
        BY <3>3 DEF None
      <4>2. \A k : Last(db, r.task, k) => k = h
        BY <2>2, <2>4, <2>9, <4>1, ActiveIsLast
      <4> QED
        BY <2>2, <2>9, <4>2 DEF Reason
    <3>5. "cancelled" \in TaskStates
      BY DEF TaskStates
    <3>6. Good(e) /\ Keeps(db, e)
      BY <2>4, <2>9, <3>1, <3>4, <3>5, TaskStep
    <3>7. e \in After(db)
      BY <3>6 DEF After, Good
    <3> QED
      BY <3>2, <3>7 DEF result
  <2>10. CASE r.termination # None /\ (r.task = 0 \/ state \notin Open)
    <3>1. result.writes = <<>>
      BY <2>5, <2>10 DEF Result, Rejected
    <3> QED
      BY <3>1 DEF result
  <2> HIDE DEF result
  <2> QED
    BY <2>6, <2>7, <2>8, <2>9, <2>10
<1> QED
  BY <1>1, <1>2

LEMMA HandleAfter ==
  ASSUME Good(db), NEW p \in Posts
  PROVE  Handle(p).writes \in Seq(After(db))
<1>1. /\ p.root \in Sends /\ p.type \in {"send", "progress", "respond", "cancel"}
      /\ p.type = "respond" => p.status \in Statuses
  BY PostAssumption
<1>2. CASE p.type = "send"
  BY <1>1, <1>2, AcceptHandoffAfter DEF Handle
<1>3. CASE p.type = "progress"
  BY <1>1, <1>3, AcceptProgressAfter DEF Handle
<1>4. CASE p.type = "respond"
  BY <1>1, <1>4, AcceptResponseAfter DEF Handle
<1>5. CASE p.type = "cancel"
  BY <1>1, <1>5, AcceptCancellationAfter DEF Handle
<1> QED
  BY <1>1, <1>2, <1>3, <1>4, <1>5

-----------------------------------------------------------------------------
(* Delivery, deadlines and the clock *)

\* The end of the open attempt, and the task transition that follows it.
LEMMA FinishWritesAfter ==
  ASSUME NEW d, Good(d), NEW p, NEW h, h = p.h, h \in DOMAIN d.handoff, NEW m \in KindSet, m = p.msg,
         NEW outcome \in {"delivered", "retryable", "exhausted"},
         \E i \in DOMAIN d.handoff[h].attempts : d.handoff[h].attempts[i] = [msg |-> m, outcome |-> "started"],
         ~MessageDelivered(d.handoff[h], m),
         outcome = "delivered" /\ m = "root" => ~Exhausted(d.handoff[h]),
         outcome = "exhausted" /\ m = "root" => Active(d.handoff[h]) /\ d.handoff[h].age["root"] = Window
  PROVE  FinishWrites(d, p, outcome) \in Seq(After(d))
<1>1. PICK e : e = FinishAttempt(d, h, outcome)
  OBVIOUS
<1>2. \A i \in DOMAIN d.handoff[h].attempts :
        d.handoff[h].attempts[i].outcome = "started" => d.handoff[h].attempts[i].msg = m
  <2>1. PICK j \in DOMAIN d.handoff[h].attempts : d.handoff[h].attempts[j] = [msg |-> m, outcome |-> "started"]
    OBVIOUS
  <2>2. d.handoff[h].attempts[j].outcome = "started" /\ d.handoff[h].attempts[j].msg = m
    BY <2>1
  <2>3. RecordSound(d.handoff[h])
    BY DEF Good, Named
  <2> QED
    BY <2>2, <2>3 DEF RecordSound
<1>3. /\ Good(e) /\ e.task = d.task /\ DOMAIN e.handoff = DOMAIN d.handoff
      /\ \A g \in DOMAIN d.handoff : e.handoff[g].task = d.handoff[g].task
      /\ outcome = "exhausted" /\ m = "root" => Exhausted(e.handoff[h])
      /\ Keeps(d, e)
  BY <1>1, <1>2, FinishStep, SMTT(30)
<1>4. e \in After(d)
  BY <1>3 DEF After, Good
<1>5. PICK t : t = d.handoff[h].task
  OBVIOUS
<1>6. t # 0 => t \in DOMAIN d.task
  BY <1>5, DatabaseTypes DEF Good, Named
<1>7. PICK path : path = CASE m = "root" /\ t # 0 /\ outcome = "delivered" -> ToDelivered(d.task[t])
                           [] m = "root" /\ t # 0 /\ outcome = "exhausted" -> ToFailed(d.task[t])
                           [] OTHER                                        -> <<>>
  OBVIOUS
<1>8. FinishWrites(d, p, outcome) = <<e>> \o TaskWrites(e, t, path)
  BY <1>1, <1>5, <1>7 DEF FinishWrites
<1>9. TaskWrites(e, t, path) \in Seq(After(e))
  <2>1. CASE m = "root" /\ t # 0 /\ outcome = "delivered"
    <3>1. PICK S : S = {"delivered"}
      OBVIOUS
    <3>2. path = ToDelivered(d.task[t])
      BY <1>7, <2>1
    <3>3. path \in Seq(S) /\ S \in SUBSET TaskStates
      BY <3>1, <3>2, Paths DEF TaskStates, Open, Statuses
    <3>4. e.task[t] \in Open \/ path = <<>>
      BY <1>3, <3>2 DEF ToDelivered, Open
    <3>5. \A s \in S : \A k \in DOMAIN e.handoff : Last(e, t, k) => Reason(e, t, k, s)
      BY <3>1, Unreasoned
    <3> QED
      BY <1>3, <1>6, <2>1, <3>3, <3>4, <3>5, PathStep
  <2>2. CASE m = "root" /\ t # 0 /\ outcome = "exhausted"
    <3>1. PICK S : S = {"failed"}
      OBVIOUS
    <3>2. path = ToFailed(d.task[t])
      BY <1>7, <2>2
    <3>3. path \in Seq(S) /\ S \in SUBSET TaskStates
      BY <3>1, <3>2, Paths DEF TaskStates, Statuses
    <3>4. e.task[t] \in Open \/ path = <<>>
      BY <1>3, <3>2 DEF ToFailed
    <3>5. \A s \in S : \A k \in DOMAIN e.handoff : Last(e, t, k) => Reason(e, t, k, s)
      <4> SUFFICES ASSUME NEW k \in DOMAIN e.handoff, Last(e, t, k) PROVE Reason(e, t, k, "failed")
        BY <3>1
      <4>1. Last(d, t, k)
        BY <1>3 DEF Last
      <4>2. k = h
        BY <1>5, <2>2, <4>1, ActiveIsLast
      <4> QED
        BY <1>3, <2>2, <4>2 DEF Reason
    <3> QED
      BY <1>3, <1>6, <2>2, <3>3, <3>4, <3>5, PathStep
  <2>3. CASE ~(m = "root" /\ t # 0 /\ outcome \in {"delivered", "exhausted"})
    <3>1. path = <<>>
      BY <1>7, <2>3
    <3> QED
      BY <3>1, NoWrites
  <2> QED
    BY <2>1, <2>2, <2>3
<1>10. TaskWrites(e, t, path) \in Seq(After(d))
  BY <1>4, <1>9, AfterMore DEF Good
<1>11. <<e>> \in Seq(After(d))
  BY <1>4
<1> QED
  BY <1>8, <1>10, <1>11, ConcatProperties

\* A deadline passes: the conversation ends and its task fails.
LEMMA ExpiryAfter ==
  ASSUME Good(db), NEW h \in DOMAIN db.handoff, Active(db.handoff[h]),
         NEW ended, ended = Terminate(db, h, "timeout"), NEW t, t = db.handoff[h].task,
         NEW path, path = IF t = 0 THEN <<>> ELSE ToFailed(db.task[t])
  PROVE  <<ended>> \o TaskWrites(ended, t, path) \in Seq(After(db))
<1>1. "timeout" \in Terminations \ {None}
  BY DEF Terminations, None
<1>2. /\ ended \in After(db) /\ ended.task = db.task /\ DOMAIN ended.handoff = DOMAIN db.handoff
      /\ ended.handoff[h].termination = "timeout"
      /\ \A g \in DOMAIN db.handoff : ended.handoff[g].task = db.handoff[g].task
  BY <1>1, TerminateStep
<1>3. TaskWrites(ended, t, path) \in Seq(After(ended))
  <2>1. CASE t = 0
    BY <2>1, NoWrites
  <2>2. CASE t # 0
    <3>1. PICK S : S = {"failed"}
      OBVIOUS
    <3>2. path \in Seq(S) /\ S \in SUBSET TaskStates
      BY <2>2, <3>1, Paths DEF TaskStates, Statuses
    <3>3. t \in DOMAIN ended.task
      BY <1>2, <2>2, DatabaseTypes DEF Good, Named
    <3>4. ended.task[t] \in Open \/ path = <<>>
      BY <1>2, <2>2 DEF ToFailed
    <3>5. \A s \in S : \A k \in DOMAIN ended.handoff : Last(ended, t, k) => Reason(ended, t, k, s)
      <4> SUFFICES ASSUME NEW k \in DOMAIN ended.handoff, Last(ended, t, k) PROVE Reason(ended, t, k, "failed")
        BY <3>1
      <4>1. Last(db, t, k)
        BY <1>2 DEF Last
      <4>2. k = h
        BY <2>2, <4>1, ActiveIsLast
      <4> QED
        BY <1>2, <4>2 DEF Reason
    <3>6. Good(ended)
      BY <1>2 DEF After
    <3> QED
      BY <3>2, <3>3, <3>4, <3>5, <3>6, PathStep
  <2> QED
    BY <2>1, <2>2
<1>4. TaskWrites(ended, t, path) \in Seq(After(db))
  BY <1>2, <1>3, AfterMore DEF Good
<1>5. <<ended>> \in Seq(After(db))
  BY <1>2
<1> QED
  BY <1>4, <1>5, ConcatProperties

\* The clock moves every conversation on.
LEMMA AgedFacts ==
  ASSUME NEW r \in HandoffRecord, RecordSound(r), NEW q, q = Aged(r)
  PROVE  /\ q \in HandoffRecord /\ RecordSound(q) /\ q.root = r.root /\ q.source = r.source /\ q.task = r.task
         /\ q.response = r.response /\ q.termination = r.termination /\ q.attempts = r.attempts
         /\ (Active(q) <=> Active(r)) /\ (Exhausted(q) <=> Exhausted(r))
<1>1. PICK ages : ages = [m \in KindSet |->
                       CASE m \notin Messages(r) \/ MessageDelivered(r, m) -> 0
                         [] m = "root" /\ r.termination # None -> 0
                         [] OTHER -> Older(r.age[m])]
  OBVIOUS
<1>2. PICK due : due = Sooner(r.deadline)
  OBVIOUS
<1>3. q = [r EXCEPT !.age = ages, !.deadline = due]
  BY <1>1, <1>2 DEF Aged
<1>4. Window \in Nat /\ r.age \in [KindSet -> 0..Window] /\ r.deadline \in {NoDeadline} \cup Nat
  BY WindowAssumption, RecordTypes
<1>5. \A m \in KindSet : ages[m] \in {0, Older(r.age[m])}
  BY <1>1
<1>6. \A m \in KindSet : Older(r.age[m]) \in 0..Window
  BY <1>4 DEF Older
<1>7. ages \in [KindSet -> 0..Window]
  <2>1. \A m \in KindSet : ages[m] \in 0..Window
    BY <1>4, <1>5, <1>6
  <2> QED
    BY <1>1, <2>1
<1>8. due \in {NoDeadline} \cup Nat
  BY <1>2, <1>4 DEF Sooner, NoDeadline
<1>9. /\ q \in HandoffRecord /\ q.root = r.root /\ q.source = r.source /\ q.task = r.task /\ q.attempts = r.attempts
      /\ q.response = r.response /\ q.termination = r.termination /\ (q.progress <=> r.progress)
      /\ q.age = ages
  BY <1>3, <1>7, <1>8 DEF HandoffRecord
<1>10. /\ \A x : MessageDelivered(q, x) <=> MessageDelivered(r, x)
       /\ Exhausted(q) <=> Exhausted(r)
       /\ Active(q) <=> Active(r)
  BY <1>9 DEF MessageDelivered, Exhausted, Active
<1>11. Exhausted(r) /\ Active(r) => ages["root"] = Window
  <2> SUFFICES ASSUME Exhausted(r), Active(r) PROVE ages["root"] = Window
    OBVIOUS
  <2>1. ~MessageDelivered(r, "root") /\ r.age["root"] = Window
    BY DEF RecordSound
  <2>2. "root" \in KindSet /\ "root" \in Messages(r) /\ r.termination = None
    BY DEF KindSet, Messages, Active
  <2>3. ages["root"] = Older(r.age["root"])
    BY <1>1, <2>1, <2>2
  <2> QED
    BY <1>4, <2>1, <2>3 DEF Older
<1>12. RecordSound(q)
  BY <1>9, <1>10, <1>11 DEF RecordSound
<1> QED
  BY <1>9, <1>10, <1>12

LEMMA TickAfter ==
  ASSUME Good(db), NEW e, e = [db EXCEPT !.handoff = [h \in DOMAIN db.handoff |-> Aged(db.handoff[h])]]
  PROVE  e \in After(db)
<1>1. db.handoff \in Seq(HandoffRecord) /\ db.task \in Seq(TaskStates) /\ DOMAIN db.handoff = 1..Len(db.handoff)
      /\ Len(db.handoff) \in Nat
  BY DatabaseTypes DEF Good
<1>2. PICK s : s = [h \in DOMAIN db.handoff |-> Aged(db.handoff[h])]
  OBVIOUS
<1>3. \A h \in DOMAIN db.handoff :
         /\ s[h] \in HandoffRecord /\ RecordSound(s[h]) /\ s[h].root = db.handoff[h].root
         /\ s[h].task = db.handoff[h].task
         /\ s[h].source = db.handoff[h].source /\ s[h].attempts = db.handoff[h].attempts
         /\ s[h].response = db.handoff[h].response /\ s[h].termination = db.handoff[h].termination
         /\ (Active(s[h]) <=> Active(db.handoff[h])) /\ (Exhausted(s[h]) <=> Exhausted(db.handoff[h]))
  <2> SUFFICES ASSUME NEW h \in DOMAIN db.handoff
               PROVE /\ s[h] \in HandoffRecord /\ RecordSound(s[h]) /\ s[h].root = db.handoff[h].root
                     /\ s[h].task = db.handoff[h].task
                     /\ s[h].source = db.handoff[h].source /\ s[h].attempts = db.handoff[h].attempts
                     /\ s[h].response = db.handoff[h].response /\ s[h].termination = db.handoff[h].termination
                     /\ (Active(s[h]) <=> Active(db.handoff[h])) /\ (Exhausted(s[h]) <=> Exhausted(db.handoff[h]))
    OBVIOUS
  <2>1. db.handoff[h] \in HandoffRecord /\ RecordSound(db.handoff[h]) /\ s[h] = Aged(db.handoff[h])
    BY <1>1, <1>2 DEF Good, Named
  <2> QED
    BY <2>1, AgedFacts
<1>4. s \in [1..Len(db.handoff) -> HandoffRecord]
  BY <1>1, <1>2, <1>3
<1>5. s \in Seq(HandoffRecord) /\ DOMAIN s = DOMAIN db.handoff
  BY <1>1, <1>4
<1>6. e = [db EXCEPT !.handoff = s]
  BY <1>2
<1>7. e \in Databases /\ e.task = db.task /\ e.handoff = s
  BY <1>1, <1>5, <1>6 DEF Databases, Good
<1>8. Named(e)
  <2>1. \A h \in DOMAIN db.handoff : db.handoff[h].task \in 0..Len(db.task)
    BY DEF Good, Named
  <2>2. \A h \in DOMAIN db.handoff : RecordSound(s[h]) /\ s[h].task = db.handoff[h].task
    BY <1>3
  <2> QED
    BY <1>5, <1>7, <2>1, <2>2 DEF Named
<1>9. Chained(e)
  BY <1>3, <1>5, <1>7 DEF Good, Chained, Continues
<1>10. \A t, k : Last(e, t, k) <=> Last(db, t, k)
  BY <1>3, <1>5, <1>7 DEF Last
<1>11. LastExists(e)
  BY <1>5, <1>7, <1>10 DEF Good, LastExists
<1>12. ASSUME NEW t, NEW k \in DOMAIN db.handoff, NEW x, Reason(db, t, k, x)
       PROVE  Reason(e, t, k, x)
  <2>1. /\ s[k].response = db.handoff[k].response /\ s[k].termination = db.handoff[k].termination
        /\ (Exhausted(s[k]) <=> Exhausted(db.handoff[k]))
    BY <1>3
  <2>2. x = "blocked" => \E g \in DOMAIN db.handoff : s[g].task = t /\ s[g].response = "blocked"
    BY <1>3, <1>12 DEF Reason
  <2> QED
    BY <1>5, <1>7, <1>12, <2>1, <2>2 DEF Reason
<1>13. Reasoned(e)
  BY <1>5, <1>7, <1>10, <1>12 DEF Good, Reasoned
<1>14. Keeps(db, e)
  BY <1>3, <1>5, <1>7 DEF Keeps, KeepsEnd
<1>15. Rooted(e)
  <2>1. Rooted(db)
    BY DEF Good
  <2>2. DOMAIN e.handoff = DOMAIN db.handoff /\ \A h \in DOMAIN db.handoff : e.handoff[h].root = db.handoff[h].root
    BY <1>3, <1>5, <1>7
  <2> QED
    BY <2>1, <2>2, SameRoots
<1> QED
  BY <1>7, <1>8, <1>9, <1>11, <1>13, <1>14, <1>15 DEF After, Good

-----------------------------------------------------------------------------
(* The handlers as steps of the system *)

\* Whatever a handler commits before it is done, stopped by a storage error or
\* interrupted by a crash is one of the databases it listed.
Committed(w) == db' = db \/ \E i \in 1..Len(w) : db' = w[i]

LEMMA CommittedIsAfter ==
  ASSUME Good(db), NEW w \in Seq(After(db)), Committed(w)
  PROVE  db' \in After(db)
<1>1. \A i \in 1..Len(w) : w[i] \in After(db)
  OBVIOUS
<1> QED
  BY <1>1, AfterSelf DEF Committed

\* What is left to show of a step: nothing else of the invariant depends on
\* more than the database and the delivery in progress.
Quiet == inflight' \in {inflight, NoRequest} /\ (db' # db => inflight' = NoRequest)

LEMMA QuietStep ==
  ASSUME OInv, db' \in After(db), inbox' \in Seq(Posts), ~up' => inflight' = NoRequest, Quiet
  PROVE  OInv' /\ Keeps(db, db')
<1>1. Good(db') /\ Keeps(db, db')
  BY DEF After
<1>2. InflightSound'
  <2>1. CASE inflight' = NoRequest
    BY <2>1 DEF InflightSound, NoRequest
  <2>2. CASE inflight' = inflight /\ inflight # NoRequest
    <3>1. db' = db
      BY <2>2 DEF Quiet
    <3> QED
      BY <2>2, <3>1 DEF OInv, InflightSound, HandoffIds
  <2> QED
    BY <2>1, <2>2 DEF Quiet
<1>3. Good(db)'
  BY <1>1 DEF Good, Named, Chained, Continues, LastExists, Reasoned, Last, Reason, Rooted, UserOwn
<1> QED
  BY <1>1, <1>2, <1>3 DEF OInv

\* A handler of an idle application.
LEMMA CommitStep ==
  ASSUME OInv, inflight = NoRequest, NEW w \in Seq(After(db)), Committed(w),
         inbox' \in Seq(Posts), inflight' = NoRequest
  PROVE  OInv' /\ Keeps(db, db')
  BY CommittedIsAfter, QuietStep DEF OInv, Quiet

LEMMA CommitDone ==
  ASSUME NEW w \in Seq(After(db)), db' = IF w = <<>> THEN db ELSE w[Len(w)]
  PROVE  Committed(w)
<1>1. w # <<>> => Len(w) \in 1..Len(w)
  OBVIOUS
<1> QED
  BY <1>1 DEF Committed

LEMMA CommitStopped ==
  ASSUME NEW w \in Seq(After(db)),
         \E i \in 0..Len(w) - 1, kind \in {"crash", "db"} :
           /\ db' = IF i = 0 THEN db ELSE w[i]
           /\ Stop(kind)
           /\ UNCHANGED inbox
  PROVE  Committed(w) /\ inflight' = NoRequest /\ inbox' = inbox
<1>1. PICK i \in 0..Len(w) - 1, kind \in {"crash", "db"} :
           (db' = IF i = 0 THEN db ELSE w[i]) /\ Stop(kind) /\ UNCHANGED inbox
  OBVIOUS
<1>2. Len(w) \in Nat
  OBVIOUS
<1>3. i # 0 => i \in 1..Len(w)
  BY <1>2
<1>4. inflight' = NoRequest
  BY <1>1 DEF Stop
<1> QED
  BY <1>1, <1>3, <1>4 DEF Committed

LEMMA LatestFacts ==
  ASSUME Good(db), NEW t \in DOMAIN db.task
  PROVE  /\ Last(db, t, Latest(t)) /\ Latest(t) \in DOMAIN db.handoff /\ db.handoff[Latest(t)].task = t
         /\ \A k : Last(db, t, k) => k = Latest(t)
<1>1. PICK own : own = {h \in HandoffIds(db) : db.handoff[h].task = t}
  OBVIOUS
<1>2. \E h \in own : \A g \in own : g <= h
  BY <1>1 DEF Good, LastExists, Last, HandoffIds
<1>3. Latest(t) \in own /\ \A g \in own : g <= Latest(t)
  BY <1>1, <1>2 DEF Latest
<1>4. \A h \in own : h \in Int
  BY <1>1, DatabaseTypes DEF Good, HandoffIds
<1>5. Last(db, t, Latest(t))
  BY <1>1, <1>3 DEF Last, HandoffIds
<1>6. \A k : Last(db, t, k) => k \in own /\ Latest(t) <= k
  BY <1>1, <1>3 DEF Last, HandoffIds
<1>7. \A k \in own : k <= Latest(t) /\ Latest(t) <= k => k = Latest(t)
  BY <1>3, <1>4
<1> QED
  BY <1>1, <1>3, <1>5, <1>6, <1>7 DEF HandoffIds

LEMMA PostStep ==
  ASSUME OInv, NEW p \in Posts, Post(p)
  PROVE  OInv' /\ Keeps(db, db')
<1>1. inbox' \in Seq(Posts) /\ db' = db /\ inflight' = inflight /\ up' = up
  BY DEF OInv, Post
<1> QED
  BY <1>1, AfterSelf, QuietStep DEF OInv, Quiet

LEMMA AcceptStep ==
  ASSUME OInv, Accept
  PROVE  OInv' /\ Keeps(db, db')
<1>1. inflight = NoRequest /\ inbox # <<>> /\ inbox \in Seq(Posts)
  BY DEF OInv, Accept, Idle
<1>2. Head(inbox) \in Posts /\ Tail(inbox) \in Seq(Posts)
  BY <1>1, HeadTailProperties
<1>3. PICK r : r = Handle(Head(inbox))
  OBVIOUS
<1>4. PICK w : w = r.writes
  OBVIOUS
<1>5. w \in Seq(After(db))
  BY <1>2, <1>3, <1>4, HandleAfter DEF OInv
<1>6. /\ \/ db' = IF w = <<>> THEN db ELSE w[Len(w)]
         \/ \E i \in 0..Len(w) - 1, kind \in {"crash", "db"} :
              /\ db' = IF i = 0 THEN db ELSE w[i]
              /\ Stop(kind)
              /\ UNCHANGED inbox
      /\ inflight' = NoRequest /\ inbox' \in {inbox, Tail(inbox)}
  BY <1>1, <1>3, <1>4 DEF Accept, Commit, Stop
<1>7. Committed(w)
  BY <1>5, <1>6, CommitDone, CommitStopped
<1>8. inbox' \in Seq(Posts)
  BY <1>1, <1>2, <1>6
<1> QED
  BY <1>1, <1>5, <1>6, <1>7, <1>8, CommitStep

\* A handler of the idle application that leaves the inbox alone.
LEMMA HandlerStep ==
  ASSUME OInv, inflight = NoRequest, NEW w \in Seq(After(db)), inbox' = inbox, inflight' = NoRequest,
         \/ db' = IF w = <<>> THEN db ELSE w[Len(w)]
         \/ \E i \in 0..Len(w) - 1, kind \in {"crash", "db"} :
              /\ db' = IF i = 0 THEN db ELSE w[i]
              /\ Stop(kind)
              /\ UNCHANGED inbox
  PROVE  OInv' /\ Keeps(db, db')
<1>1. Committed(w)
  BY CommitDone, CommitStopped
<1> QED
  BY <1>1, CommitStep DEF OInv

\* A prompt begins: it is now in flight, or it ran out of time.
LEMMA PrepareStep ==
  ASSUME OInv, PrepareNext
  PROVE  OInv' /\ Keeps(db, db')
<1>1. PICK a : a = NextBox
  OBVIOUS
<1>2. PICK p : p = boxes[a][1]
  OBVIOUS
<1>3. PICK h : h = p.h
  OBVIOUS
<1>4. PICK m : m = p.msg
  OBVIOUS
<1>5. PICK begun : begun = BeginAttempt(db, h, m)
  OBVIOUS
<1>6. /\ inflight = NoRequest /\ up /\ h \in DOMAIN db.handoff /\ MayBegin(db.handoff[h], m)
  BY <1>1, <1>2, <1>3, <1>4 DEF PrepareNext, Idle, HandoffIds
<1>7. m \in KindSet
  BY <1>6 DEF MayBegin, Messages, KindSet
<1>8. Good(db)
  BY DEF OInv
<1>9. /\ Good(begun) /\ begun.task = db.task /\ DOMAIN begun.handoff = DOMAIN db.handoff
      /\ begun.handoff[h].age = db.handoff[h].age /\ begun.handoff[h].task = db.handoff[h].task
      /\ (Active(begun.handoff[h]) <=> Active(db.handoff[h])) /\ ~MessageDelivered(begun.handoff[h], m)
      /\ \E i \in DOMAIN begun.handoff[h].attempts : begun.handoff[h].attempts[i] = [msg |-> m, outcome |-> "started"]
      /\ (Exhausted(begun.handoff[h]) => Exhausted(db.handoff[h]))
      /\ Keeps(db, begun)
  BY <1>5, <1>6, <1>7, <1>8, BeginStep
<1>10. begun \in After(db)
  BY <1>9 DEF After, Good
<1>11. <<begun>> \in Seq(After(db))
  BY <1>10
<1>12. m = "root" => Active(db.handoff[h])
  BY <1>6 DEF MayBegin
<1>13. db.handoff[h].age[m] \in 0..Window /\ Window \in Nat
  <2>1. db.handoff[h].age \in [KindSet -> 0..Window]
    BY <1>6, <1>8, DatabaseTypes, RecordTypes DEF Good
  <2> QED
    BY <1>7, <2>1, WindowAssumption
<1>14. CASE db.handoff[h].age[m] < Window
  <2>1. \/ db' = begun /\ inflight' = [agent |-> a, h |-> h, msg |-> m] /\ inbox' = inbox /\ up' = up
        \/ \E i \in 0..Len(<<begun>>) - 1, kind \in {"crash", "db"} :
             /\ db' = IF i = 0 THEN db ELSE <<begun>>[i]
             /\ Stop(kind)
             /\ UNCHANGED inbox
    BY <1>1, <1>2, <1>3, <1>4, <1>5, <1>14 DEF PrepareNext, Commit
  <2>2. CASE db' = begun /\ inflight' = [agent |-> a, h |-> h, msg |-> m] /\ inbox' = inbox /\ up' = up
    <3>1. m = "root" => ~Exhausted(begun.handoff[h])
      <4>1. m = "root" /\ Exhausted(db.handoff[h]) => db.handoff[h].age["root"] = Window
        BY <1>6, <1>8, <1>12 DEF Good, Named, RecordSound
      <4> QED
        BY <1>9, <1>13, <1>14, <4>1
    <3>2. inflight'.h = h /\ inflight'.msg = m
      BY <2>2
    <3>3. InflightSound'
      BY <1>6, <1>7, <1>9, <2>2, <3>1, <3>2 DEF InflightSound, HandoffIds
    <3>4. Good(db)'
      BY <1>9, <2>2 DEF Good, Named, Chained, Continues, LastExists, Reasoned, Last, Reason
    <3> QED
      BY <1>6, <1>9, <2>2, <3>3, <3>4 DEF OInv
  <2>3. CASE \E i \in 0..Len(<<begun>>) - 1, kind \in {"crash", "db"} :
             /\ db' = IF i = 0 THEN db ELSE <<begun>>[i]
             /\ Stop(kind)
             /\ UNCHANGED inbox
    <3>1. inflight' = NoRequest /\ inbox' = inbox
      BY <2>3 DEF Stop
    <3> QED
      BY <1>6, <1>11, <2>3, <3>1, HandlerStep
  <2> QED
    BY <2>1, <2>2, <2>3
<1>15. CASE ~(db.handoff[h].age[m] < Window)
  <2>1. PICK rest : rest = FinishWrites(begun, p, "exhausted")
    OBVIOUS
  <2>2. PICK w : w = <<begun>> \o rest
    OBVIOUS
  <2>3. m = "root" => Active(begun.handoff[h]) /\ begun.handoff[h].age["root"] = Window
    BY <1>9, <1>12, <1>13, <1>15
  <2>4. rest \in Seq(After(begun))
    BY <1>3, <1>4, <1>6, <1>7, <1>9, <2>1, <2>3, FinishWritesAfter
  <2>5. rest \in Seq(After(db))
    BY <1>8, <1>10, <2>4, AfterMore DEF Good
  <2>6. w \in Seq(After(db))
    BY <1>11, <2>2, <2>5, ConcatProperties
  <2>7. /\ \/ db' = IF w = <<>> THEN db ELSE w[Len(w)]
           \/ \E i \in 0..Len(w) - 1, kind \in {"crash", "db"} :
                /\ db' = IF i = 0 THEN db ELSE w[i]
                /\ Stop(kind)
                /\ UNCHANGED inbox
        /\ inflight' = NoRequest /\ inbox' = inbox
    BY <1>1, <1>2, <1>3, <1>4, <1>5, <1>6, <1>15, <2>1, <2>2, ZenonT(60) DEF PrepareNext, Commit, Stop
  <2> QED
    BY <1>6, <2>6, <2>7, HandlerStep
<1> QED
  BY <1>14, <1>15

LEMMA FinishDeliveryStep ==
  ASSUME OInv, NEW written \in BOOLEAN, FinishDelivery(written)
  PROVE  OInv' /\ Keeps(db, db')
<1>1. PICK outcome : outcome = IF written THEN "delivered" ELSE "retryable"
  OBVIOUS
<1>2. PICK h : h = inflight.h
  OBVIOUS
<1>3. PICK m : m = inflight.msg
  OBVIOUS
<1>4. /\ up /\ inflight # NoRequest
      /\ h \in DOMAIN db.handoff /\ m \in KindSet
      /\ \E i \in DOMAIN db.handoff[h].attempts : db.handoff[h].attempts[i] = [msg |-> m, outcome |-> "started"]
      /\ ~MessageDelivered(db.handoff[h], m)
      /\ m = "root" => ~Exhausted(db.handoff[h])
  BY <1>2, <1>3 DEF FinishDelivery, OInv, InflightSound, HandoffIds
<1>5. outcome \in {"delivered", "retryable", "exhausted"} /\ outcome # "exhausted"
  BY <1>1
<1>6. PICK w : w = FinishWrites(db, inflight, outcome)
  OBVIOUS
<1>7. Good(db)
  BY DEF OInv
<1>8. w \in Seq(After(db))
  BY <1>2, <1>3, <1>4, <1>5, <1>6, <1>7, FinishWritesAfter
<1>9. \/ /\ db' = IF w = <<>> THEN db ELSE w[Len(w)]
         /\ inflight' = NoRequest /\ inbox' = inbox /\ up' = up
      \/ \E i \in 0..Len(w) - 1, kind \in {"crash", "db"} :
           /\ db' = IF i = 0 THEN db ELSE w[i]
           /\ Stop(kind)
           /\ UNCHANGED inbox
  BY <1>1, <1>6 DEF FinishDelivery, Commit
<1>10. Committed(w) /\ inflight' = NoRequest /\ inbox' = inbox
  BY <1>8, <1>9, CommitDone, CommitStopped
<1>11. db' \in After(db)
  BY <1>7, <1>8, <1>10, CommittedIsAfter
<1> QED
  BY <1>10, <1>11, QuietStep DEF OInv, Quiet

LEMMA ExpireStep ==
  ASSUME OInv, NEW h \in HandoffIds(db), ExpireDue(h)
  PROVE  OInv' /\ Keeps(db, db')
<1>1. PICK t : t = db.handoff[h].task
  OBVIOUS
<1>2. PICK ended : ended = Terminate(db, h, "timeout")
  OBVIOUS
<1>3. PICK path : path = IF t = 0 THEN <<>> ELSE ToFailed(db.task[t])
  OBVIOUS
<1>4. PICK w : w = <<ended>> \o TaskWrites(ended, t, path)
  OBVIOUS
<1>5. Good(db) /\ h \in DOMAIN db.handoff /\ Active(db.handoff[h]) /\ inflight = NoRequest
  BY DEF OInv, HandoffIds, ExpireDue, Due, Idle
<1>6. w \in Seq(After(db))
  BY <1>1, <1>2, <1>3, <1>4, <1>5, ExpiryAfter
<1>7. /\ \/ db' = IF w = <<>> THEN db ELSE w[Len(w)]
         \/ \E i \in 0..Len(w) - 1, kind \in {"crash", "db"} :
              /\ db' = IF i = 0 THEN db ELSE w[i]
              /\ Stop(kind)
              /\ UNCHANGED inbox
      /\ inflight' = NoRequest /\ inbox' = inbox
  BY <1>1, <1>2, <1>3, <1>4, <1>5 DEF ExpireDue, Commit, Stop
<1> QED
  BY <1>5, <1>6, <1>7, HandlerStep

LEMMA TickStep ==
  ASSUME OInv, Tick
  PROVE  OInv' /\ Keeps(db, db')
<1>1. /\ db' = [db EXCEPT !.handoff = [h \in DOMAIN db.handoff |-> Aged(db.handoff[h])]]
      /\ inbox' = inbox /\ inflight' = NoRequest
  BY DEF Tick
<1>2. db' \in After(db)
  BY <1>1, TickAfter DEF OInv
<1> QED
  BY <1>1, <1>2, QuietStep DEF OInv, Quiet

\* One transaction of the recovery controls or of the routine scheduler.
LEMMA OneWriteStep ==
  ASSUME OInv, inflight = NoRequest, NEW d \in After(db), inbox' = inbox, inflight' = NoRequest,
         \/ db' = IF <<d>> = <<>> THEN db ELSE <<d>>[Len(<<d>>)]
         \/ \E i \in 0..Len(<<d>>) - 1, kind \in {"crash", "db"} :
              /\ db' = IF i = 0 THEN db ELSE <<d>>[i]
              /\ Stop(kind)
              /\ UNCHANGED inbox
  PROVE  OInv' /\ Keeps(db, db')
<1>1. PICK w : w = <<d>>
  OBVIOUS
<1>2. w \in Seq(After(db))
  BY <1>1
<1> QED
  BY <1>1, <1>2, HandlerStep

LEMMA UserCancelStep ==
  ASSUME OInv, NEW t \in DOMAIN db.task, UserCancel(t)
  PROVE  OInv' /\ Keeps(db, db')
<1>1. PICK h : h = Latest(t)
  OBVIOUS
<1>2. PICK d : d = CancelTask(db, h, "user")
  OBVIOUS
<1>3. /\ inflight = NoRequest /\ Active(db.handoff[h]) /\ db.task[t] \in Open
      /\ h \in DOMAIN db.handoff /\ db.handoff[h].task = t
  BY <1>1, LatestFacts DEF OInv, UserCancel, Idle
<1>4. "user" \in Terminations \ {None}
  BY DEF Terminations, None
<1>5. d \in After(db)
  BY <1>2, <1>3, <1>4, CancelTaskAfter DEF OInv
<1>6. /\ \/ db' = IF <<d>> = <<>> THEN db ELSE <<d>>[Len(<<d>>)]
         \/ \E i \in 0..Len(<<d>>) - 1, kind \in {"crash", "db"} :
              /\ db' = IF i = 0 THEN db ELSE <<d>>[i]
              /\ Stop(kind)
              /\ UNCHANGED inbox
      /\ inflight' = NoRequest /\ inbox' = inbox
  BY <1>1, <1>2, <1>3 DEF UserCancel, Commit, Stop
<1> QED
  BY <1>3, <1>5, <1>6, OneWriteStep

\* Handoffs of the user copy the agents of the one before.
LEMMA UserHandoff ==
  ASSUME NEW r \in HandoffRecord, NEW n \in Nat \ {0}, NEW task \in Nat, NEW q,
         q = Tracked(UserRoot(n), r.source, r.recipient, task, NoDeadline)
  PROVE  q \in HandoffRecord /\ RecordSound(q) /\ q.root < 0 /\ q.root \in Int /\ q.task = task
<1>1. PICK root : root = -n
  OBVIOUS
<1>2. root \in Int /\ root # 0 /\ root < 0 /\ root \notin Sends
  BY <1>1, SendAssumption
<1>3. r.source \in Agents \cup {Routine} /\ r.recipient \in Agents
  BY RecordTypes
<1>4. NoDeadline \in {NoDeadline} \cup Nat
  OBVIOUS
<1>5. PICK source \in Agents \cup {Routine}, recipient \in Agents, deadline \in {NoDeadline} \cup Nat :
        source = r.source /\ recipient = r.recipient /\ deadline = NoDeadline
  BY <1>3, <1>4
<1>6. q = Tracked(root, source, recipient, task, deadline)
  BY <1>1, <1>5 DEF UserRoot
<1>7. q \in HandoffRecord /\ RecordSound(q) /\ q.root = root /\ q.task = task
  BY <1>2, <1>6, TrackedFacts
<1> QED
  BY <1>2, <1>7

LEMMA UserResumeStep ==
  ASSUME OInv, NEW t \in DOMAIN db.task, UserResume(t)
  PROVE  OInv' /\ Keeps(db, db')
<1>1. PICK h : h = Latest(t)
  OBVIOUS
<1>2. PICK r : r = db.handoff[h]
  OBVIOUS
<1>3. PICK n : n = Len(db.handoff) + 1
  OBVIOUS
<1>4. /\ inflight = NoRequest /\ db.task[t] = "blocked"
      /\ h \in DOMAIN db.handoff /\ Last(db, t, h) /\ Good(db)
  BY <1>1, LatestFacts DEF OInv, UserResume, Idle
<1>5. n \in Nat \ {0} /\ t \in Nat /\ r \in HandoffRecord
  BY <1>2, <1>3, <1>4, DatabaseTypes DEF Good
<1>6. "running" \in TaskStates /\ "blocked" \in Open
  BY DEF TaskStates, Open
<1>7. CASE Active(r)
  <2>1. PICK d : d = SetTask(db, t, "running")
    OBVIOUS
  <2>2. Good(d) /\ Keeps(db, d)
    BY <1>4, <1>6, <2>1, Unreasoned, TaskStep
  <2>3. d \in After(db)
    BY <2>2 DEF After, Good
  <2>4. /\ \/ db' = IF <<d>> = <<>> THEN db ELSE <<d>>[Len(<<d>>)]
           \/ \E i \in 0..Len(<<d>>) - 1, kind \in {"crash", "db"} :
                /\ db' = IF i = 0 THEN db ELSE <<d>>[i]
                /\ Stop(kind)
                /\ UNCHANGED inbox
        /\ inflight' = NoRequest /\ inbox' = inbox
    BY <1>1, <1>2, <1>4, <1>7, <2>1 DEF UserResume, Commit, Stop
  <2> QED
    BY <1>4, <2>3, <2>4, OneWriteStep
<1>8. CASE ~Active(r)
  <2>1. PICK q : q = Tracked(UserRoot(n), r.source, r.recipient, t, NoDeadline)
    OBVIOUS
  <2>2. q \in HandoffRecord /\ RecordSound(q) /\ q.root < 0 /\ q.root \in Int /\ q.task = t
    BY <1>5, <2>1, UserHandoff
  <2>20. NewRoot(db, q.root)
    BY <1>1, <1>2, <1>8, <2>2 DEF UserResume, UserRoom, NewRoot, UserOwn, HandoffIds
  <2>3. PICK e : e = AddHandoff(db, q)
    OBVIOUS
  <2>4. Good(e) /\ e.task = db.task /\ Keeps(db, e)
    BY <1>2, <1>4, <1>8, <2>2, <2>3, <2>20, AddStep
  <2>5. PICK d : d = SetTask(e, t, "running")
    OBVIOUS
  <2>6. Good(d) /\ Keeps(e, d)
    BY <1>4, <1>6, <2>4, <2>5, Unreasoned, TaskStep
  <2>7. e \in After(db) /\ d \in After(e)
    BY <2>4, <2>6 DEF After, Good
  <2>8. d \in After(db)
    BY <1>4, <2>7, AfterAfter DEF Good
  <2>9. d = ResumeTask(db, q)
    BY <2>2, <2>3, <2>5 DEF ResumeTask
  <2>10. /\ \/ db' = IF <<d>> = <<>> THEN db ELSE <<d>>[Len(<<d>>)]
            \/ \E i \in 0..Len(<<d>>) - 1, kind \in {"crash", "db"} :
                 /\ db' = IF i = 0 THEN db ELSE <<d>>[i]
                 /\ Stop(kind)
                 /\ UNCHANGED inbox
         /\ inflight' = NoRequest /\ inbox' = inbox
    BY <1>1, <1>2, <1>3, <1>4, <1>8, <2>1, <2>9 DEF UserResume, Commit, Stop
  <2> QED
    BY <1>4, <2>8, <2>10, OneWriteStep
<1> QED
  BY <1>7, <1>8

LEMMA UserRetryStep ==
  ASSUME OInv, NEW t \in DOMAIN db.task, UserRetry(t)
  PROVE  OInv' /\ Keeps(db, db')
<1>1. PICK h : h = Latest(t)
  OBVIOUS
<1>2. PICK r : r = db.handoff[h]
  OBVIOUS
<1>3. PICK n : n = Len(db.handoff) + 1
  OBVIOUS
<1>4. PICK u : u = Len(db.task) + 1
  OBVIOUS
<1>5. inflight = NoRequest /\ h \in DOMAIN db.handoff /\ Good(db)
  BY <1>1, LatestFacts DEF OInv, UserRetry, Idle
<1>6. n \in Nat \ {0} /\ u \in Nat /\ r \in HandoffRecord
  BY <1>2, <1>3, <1>4, <1>5, DatabaseTypes DEF Good
<1>7. PICK q : q = Tracked(UserRoot(n), r.source, r.recipient, u, NoDeadline)
  OBVIOUS
<1>8. q \in HandoffRecord /\ RecordSound(q) /\ q.root < 0 /\ q.root \in Int /\ q.task = u
  BY <1>6, <1>7, UserHandoff
<1>20. NewRoot(db, q.root)
  BY <1>8 DEF UserRetry, UserRoom, NewRoot, UserOwn, HandoffIds
<1>9. PICK d : d = AddTaskHandoff(db, q)
  OBVIOUS
<1>10. Good(d) /\ Keeps(db, d)
  BY <1>4, <1>5, <1>8, <1>9, <1>20, AddTaskStep
<1>11. d \in After(db)
  BY <1>10 DEF After, Good
<1>12. /\ \/ db' = IF <<d>> = <<>> THEN db ELSE <<d>>[Len(<<d>>)]
          \/ \E i \in 0..Len(<<d>>) - 1, kind \in {"crash", "db"} :
               /\ db' = IF i = 0 THEN db ELSE <<d>>[i]
               /\ Stop(kind)
               /\ UNCHANGED inbox
       /\ inflight' = NoRequest /\ inbox' = inbox
  BY <1>1, <1>2, <1>3, <1>4, <1>5, <1>7, <1>9 DEF UserRetry, Commit, Stop
<1> QED
  BY <1>5, <1>11, <1>12, OneWriteStep

LEMMA DispatchStep ==
  ASSUME OInv, NEW s \in Sends, DispatchRoutine(s)
  PROVE  OInv' /\ Keeps(db, db')
<1>1. PICK d : d = AddTaskHandoff(db, NewHandoff(s, Len(db.task) + 1))
  OBVIOUS
<1>2. d \in After(db)
  BY <1>1, NewTaskAfter DEF OInv, DispatchRoutine, Find, HandoffIds
<1>3. inflight = NoRequest
  BY DEF DispatchRoutine, Idle
<1>4. /\ \/ db' = IF <<d>> = <<>> THEN db ELSE <<d>>[Len(<<d>>)]
         \/ \E i \in 0..Len(<<d>>) - 1, kind \in {"crash", "db"} :
              /\ db' = IF i = 0 THEN db ELSE <<d>>[i]
              /\ Stop(kind)
              /\ UNCHANGED inbox
         \/ db' = d
      /\ inflight' = NoRequest /\ inbox' = inbox
  BY <1>1, <1>3 DEF DispatchRoutine, Commit, Stop
<1>5. CASE db' = d
  BY <1>2, <1>4, <1>5, QuietStep DEF OInv, Quiet
<1> QED
  BY <1>2, <1>3, <1>4, <1>5, OneWriteStep

\* Recovery closes the attempt a crash left open.
LEMMA RecoverAttemptStep ==
  ASSUME OInv, NEW h \in HandoffIds(db), RecoverAttempt(h)
  PROVE  OInv' /\ Keeps(db, db')
<1>1. /\ Good(db) /\ h \in DOMAIN db.handoff /\ inflight = NoRequest /\ Attempting(db.handoff[h])
      /\ inbox' = inbox /\ inflight' = NoRequest
  BY DEF OInv, RecoverAttempt, HandoffIds
<1>2. PICK e : e = FinishAttempt(db, h, "retryable")
  OBVIOUS
<1>3. PICK i \in DOMAIN db.handoff[h].attempts : db.handoff[h].attempts[i].outcome = "started"
  BY <1>1 DEF Attempting
<1>4. PICK m : m = db.handoff[h].attempts[i].msg
  OBVIOUS
<1>5. m \in KindSet
  BY <1>1, <1>3, <1>4, DatabaseTypes, RecordTypes DEF Attempts, Good
<1>6. \A j \in DOMAIN db.handoff[h].attempts :
        db.handoff[h].attempts[j].outcome = "started" => db.handoff[h].attempts[j].msg = m
  BY <1>1, <1>3, <1>4 DEF Good, Named, RecordSound
<1>7. Good(e) /\ Keeps(db, e)
  BY <1>1, <1>2, <1>5, <1>6, FinishStep
<1>8. db' \in After(db)
  BY <1>2, <1>7 DEF RecoverAttempt, After, Good
<1> QED
  BY <1>1, <1>8, QuietStep DEF OInv, Quiet

\* Steps that leave the database alone.
LEMMA OtherStep ==
  ASSUME OInv, db' = db, inbox' = inbox, inflight' \in {inflight, NoRequest}, up' => up \/ inflight' = NoRequest,
         ~up' => inflight' = NoRequest
  PROVE  OInv' /\ Keeps(db, db')
  BY AfterSelf, QuietStep DEF OInv, Quiet

LEMMA StepLemma ==
  ASSUME OInv, [Next]_vars
  PROVE  OInv' /\ Keeps(db, db')
<1>1. CASE \E p \in Posts : Post(p)
  BY <1>1, PostStep
<1>2. CASE Accept
  BY <1>2, AcceptStep
<1>3. CASE DropTerminated
  BY <1>3, OtherStep DEF DropTerminated, OInv
<1>4. CASE PrepareNext
  BY <1>4, PrepareStep
<1>5. CASE \E written \in BOOLEAN : FinishDelivery(written)
  BY <1>5, FinishDeliveryStep
<1>6. CASE Expire
  BY <1>6, ExpireStep DEF Expire
<1>7. CASE Tick
  BY <1>7, TickStep
<1>8. CASE User
  BY <1>8, UserCancelStep, UserResumeStep, UserRetryStep DEF User
<1>9. CASE Windows
  BY <1>9, OtherStep DEF Windows, Archive, Restore, OInv
<1>10. CASE \E s \in Sends : DispatchRoutine(s)
  BY <1>10, DispatchStep
<1>11. CASE \E s \in Sends : Reregister(s)
  BY <1>11, OtherStep DEF Reregister, OInv
<1>12. CASE Crash
  BY <1>12, OtherStep DEF Crash, Stop, OInv
<1>13. CASE Recover
  BY <1>13, OtherStep DEF Recover, OInv
<1>14. CASE RecoverFails
  BY <1>14, OtherStep DEF RecoverFails, OInv
<1>15. CASE \E h \in HandoffIds(db) : RecoverAttempt(h)
  BY <1>15, RecoverAttemptStep
<1>16. CASE UNCHANGED vars
  BY <1>16, OtherStep DEF vars, OInv
<1> QED
  BY <1>1, <1>2, <1>3, <1>4, <1>5, <1>6, <1>7, <1>8, <1>9, <1>10, <1>11, <1>12, <1>13, <1>14, <1>15, <1>16
     DEF Next, Deliver, Routines, RecoverStep

LEMMA InitLemma ==
  ASSUME Init
  PROVE  OInv
<1>1. db.task = <<>> /\ db.handoff = <<>> /\ DOMAIN db.task = {} /\ DOMAIN db.handoff = {}
  BY DEF Init
<1>2. db \in Databases
  <2>1. <<>> \in Seq(TaskStates) /\ <<>> \in Seq(HandoffRecord)
    OBVIOUS
  <2> QED
    BY <2>1 DEF Init, Databases
<1>3. Good(db)
  <2>1. UserOwn(db) = {}
    BY <1>1 DEF UserOwn
  <2>2. Rooted(db)
    BY <1>1, <2>1, FS_EmptySet, SendAssumption DEF Rooted
  <2> QED
    BY <1>1, <1>2, <2>2 DEF Good, Named, Chained, LastExists, Reasoned
<1>4. inbox \in Seq(Posts) /\ inflight = NoRequest
  BY DEF Init
<1> QED
  BY <1>3, <1>4 DEF OInv, InflightSound

\* The durable record stays sound, whatever clients, agents, users, storage
\* errors and crashes do.
THEOREM OrchestrationInductive == Spec => []OInv
<1>1. OInv /\ [Next]_vars => OInv'
  BY StepLemma
<1> QED
  BY <1>1, InitLemma, PTL DEF Spec

-----------------------------------------------------------------------------
(* What the inductive invariant implies *)

LEMMA AtMostOne ==
  ASSUME NEW S, \A x, y \in S : x = y
  PROVE  Cardinality(S) <= 1
<1>1. CASE S = {}
  BY <1>1, FS_EmptySet
<1>2. CASE S # {}
  <2>1. PICK x : x \in S
    BY <1>2
  <2>2. S = {x}
    BY <2>1
  <2> QED
    BY <2>2, FS_Singleton
<1> QED
  BY <1>1, <1>2

LEMMA ConversationsSound ==
  ASSUME Good(db)
  PROVE  ConversationSound
<1> SUFFICES ASSUME NEW h \in DOMAIN db.handoff, NEW r, r = db.handoff[h]
    PROVE  /\ r.response = None \/ r.termination = None
           /\ r.response # None \/ r.progress => MessageDelivered(r, "root")
           /\ Cardinality({i \in DOMAIN r.attempts : r.attempts[i].outcome = "started"}) <= 1
           /\ \A m \in KindSet : Cardinality({i \in DOMAIN r.attempts :
                 r.attempts[i] = [msg |-> m, outcome |-> "delivered"]}) <= 1
  BY DEF ConversationSound, HandoffIds
<1>1. RecordSound(r)
  BY DEF Good, Named
<1>2. PICK S : S = {i \in DOMAIN r.attempts : r.attempts[i].outcome = "started"}
  OBVIOUS
<1>3. \A x, y \in S : x = y
  BY <1>1, <1>2 DEF RecordSound
<1>4. Cardinality(S) <= 1
  BY <1>3, AtMostOne
<1>5. ASSUME NEW m \in KindSet
      PROVE  Cardinality({i \in DOMAIN r.attempts : r.attempts[i] = [msg |-> m, outcome |-> "delivered"]}) <= 1
  <2>1. PICK D : D = {i \in DOMAIN r.attempts : r.attempts[i] = [msg |-> m, outcome |-> "delivered"]}
    OBVIOUS
  <2>2. \A x \in D : x \in DOMAIN r.attempts /\ r.attempts[x] = [msg |-> m, outcome |-> "delivered"]
    BY <2>1
  <2>3. \A x, y \in D : r.attempts[x].outcome = "delivered" /\ r.attempts[x] = r.attempts[y]
    BY <2>2
  <2>4. \A x, y \in D : x = y
    BY <1>1, <2>2, <2>3 DEF RecordSound
  <2>5. Cardinality(D) <= 1
    BY <2>4, AtMostOne
  <2> QED
    BY <2>1, <2>5
<1> QED
  BY <1>1, <1>2, <1>4, <1>5 DEF RecordSound

LEMMA TasksJustified ==
  ASSUME Good(db)
  PROVE  TaskJustified
<1> SUFFICES ASSUME NEW t \in DOMAIN db.task
    PROVE  LET own == {db.handoff[h] : h \in {g \in HandoffIds(db) : db.handoff[g].task = t}}
               last == db.handoff[Latest(t)]
           IN  CASE db.task[t] = "completed" -> last.response = "completed"
                 [] db.task[t] = "cancelled" -> last.termination # None
                 [] db.task[t] = "failed" ->
                      \/ last.response = "failed" \/ last.termination = "timeout"
                      \/ DeliveryTerminal(last, "root") /\ ~MessageDelivered(last, "root")
                 [] db.task[t] = "blocked" -> \E r \in own : r.response = "blocked"
                 [] OTHER -> TRUE
  BY DEF TaskJustified
<1>1. PICK h : h = Latest(t)
  OBVIOUS
<1>2. PICK r : r = db.handoff[h]
  OBVIOUS
<1>3. PICK state : state = db.task[t]
  OBVIOUS
<1>4. h \in DOMAIN db.handoff /\ Reason(db, t, h, state)
  BY <1>1, <1>3, LatestFacts DEF Good, Reasoned
<1>5. Exhausted(r) => DeliveryTerminal(r, "root") /\ ~MessageDelivered(r, "root")
  BY <1>2, <1>4 DEF Good, Named, RecordSound, Exhausted, DeliveryTerminal
<1>6. PICK own : own = {db.handoff[g] : g \in {g \in HandoffIds(db) : db.handoff[g].task = t}}
  OBVIOUS
<1>7. state = "blocked" => \E q \in own : q.response = "blocked"
  BY <1>4, <1>6 DEF Reason, HandoffIds
<1>8. /\ state = "completed" => r.response = "completed"
      /\ state = "cancelled" => r.termination # None
      /\ state = "failed" => \/ r.response = "failed" \/ r.termination = "timeout"
                             \/ DeliveryTerminal(r, "root") /\ ~MessageDelivered(r, "root")
  BY <1>2, <1>4, <1>5 DEF Reason
<1> QED
  BY <1>1, <1>2, <1>3, <1>6, <1>7, <1>8

LEMMA DeadlinesApply ==
  ASSUME Good(db)
  PROVE  ExpiryApplies
<1> SUFFICES ASSUME NEW h \in DOMAIN db.handoff, db.handoff[h].task # 0, Active(db.handoff[h])
             PROVE  db.task[db.handoff[h].task] \notin {"completed", "cancelled"}
  BY DEF ExpiryApplies, HandoffIds
<1>1. PICK t : t = db.handoff[h].task
  OBVIOUS
<1>2. t \in DOMAIN db.task
  BY <1>1, DatabaseTypes DEF Good, Named
<1>3. Latest(t) = h
  BY <1>1, <1>2, LatestFacts, ActiveIsLast
<1>4. Reason(db, t, h, db.task[t])
  BY <1>2, <1>3, LatestFacts DEF Good, Reasoned
<1> QED
  BY <1>1, <1>4 DEF Reason, Active, None

\* A conversation ends once and only after its prompt was delivered, a
\* finished or blocked task has its reason in the record of its handoffs, and
\* a deadline never meets a task that may not fail, after any crashes, storage
\* errors, repeated messages and uses of the recovery controls.
THEOREM TasksAreSound == Spec => []TasksSound
<1>1. OInv => TasksSound
  BY ConversationsSound, TasksJustified, DeadlinesApply DEF OInv, TasksSound
<1> QED
  BY <1>1, OrchestrationInductive, PTL

\* An answer or an end, once recorded, is never changed or withdrawn, and a
\* finished task never leaves its state: no handler that is retried or
\* interrupted between two transactions reopens what the one before it closed.
THEOREM EndingsAreFinal == Spec => Finality
<1>1. Good(db) /\ Keeps(db, db') =>
        /\ \A h \in HandoffIds(db) :
             /\ h \in HandoffIds(db)'
             /\ db.handoff[h].response # None => db'.handoff[h].response = db.handoff[h].response
             /\ db.handoff[h].termination # None
                  => db'.handoff[h].termination = db.handoff[h].termination
        /\ \A t \in DOMAIN db.task :
             db.task[t] \in TaskStates \ Open => db'.task[t] = db.task[t]
  BY DEF Keeps, KeepsEnd, HandoffIds
<1>2. OInv /\ [Next]_vars =>
        [/\ \A h \in HandoffIds(db) :
             /\ h \in HandoffIds(db)'
             /\ db.handoff[h].response # None => db'.handoff[h].response = db.handoff[h].response
             /\ db.handoff[h].termination # None
                  => db'.handoff[h].termination = db.handoff[h].termination
         /\ \A t \in DOMAIN db.task :
             db.task[t] \in TaskStates \ Open => db'.task[t] = db.task[t]]_vars
  BY <1>1, StepLemma DEF OInv
<1> QED
  BY <1>2, OrchestrationInductive, PTL DEF Spec, Finality

\* A message of a client or a routine becomes one handoff, however often it is
\* accepted again after a lost acknowledgement, a storage error or a crash, or
\* dispatched again by the scheduler (accept_handoff, submit_routine_handoff).
AcceptedOnce ==
  \A g, h \in HandoffIds(db) :
    db.handoff[g].root = db.handoff[h].root /\ db.handoff[g].root \in Sends => g = h
THEOREM MessagesAreAcceptedOnce == Spec => []AcceptedOnce
<1>1. OInv => AcceptedOnce
  BY DEF OInv, Good, Rooted, AcceptedOnce, HandoffIds
<1> QED
  BY <1>1, OrchestrationInductive, PTL

-----------------------------------------------------------------------------
(* Sequences without some of their elements *)

LEMMA RankFacts ==
  ASSUME NEW n \in Nat, NEW P \in SUBSET (1..n)
  PROVE  /\ IsFiniteSet(P) /\ Cardinality(P) \in Nat
         /\ \A i \in P : Rank(P, i) \in 1..Cardinality(P)
         /\ \A i, j \in P : i < j => Rank(P, i) < Rank(P, j)
         /\ \A k \in 1..Cardinality(P) : \E i \in P : Rank(P, i) = k
<1> DEFINE upto(i) == {m \in P : m <= i}
<1>1. IsFiniteSet(P) /\ Cardinality(P) \in Nat
  <2>1. IsFiniteSet(1..n)
    BY FS_Interval
  <2>2. IsFiniteSet(P)
    BY <2>1, FS_Subset
  <2> QED
    BY <2>2, FS_CardinalityType
<1>2. ASSUME NEW i \in P
      PROVE  /\ IsFiniteSet(upto(i)) /\ Cardinality(upto(i)) \in Nat /\ Rank(P, i) = Cardinality(upto(i))
             /\ Rank(P, i) \in 1..Cardinality(P)
  <2>1. upto(i) \in SUBSET P /\ i \in upto(i)
    OBVIOUS
  <2>2. IsFiniteSet(upto(i)) /\ Cardinality(upto(i)) \in Nat /\ Cardinality(upto(i)) <= Cardinality(P)
    BY <1>1, <2>1, FS_Subset, FS_CardinalityType
  <2>3. Cardinality(upto(i)) # 0
    BY <2>1, <2>2, FS_EmptySet
  <2> HIDE DEF upto
  <2>4. Rank(P, i) = Cardinality(upto(i))
    BY DEF Rank, upto
  <2> QED
    BY <1>1, <2>2, <2>3, <2>4
<1>3. ASSUME NEW i \in P, NEW j \in P, i < j
      PROVE  Rank(P, i) < Rank(P, j)
  <2>1. upto(i) \in SUBSET upto(j) /\ j \in upto(j) /\ j \notin upto(i)
    <3>1. i \in Int /\ j \in Int /\ \A m \in P : m \in Int
      OBVIOUS
    <3>2. \A m \in upto(i) : m \in upto(j)
      BY <1>3, <3>1
    <3>3. j \notin upto(i)
      BY <1>3, <3>1
    <3>4. j \in upto(j)
      BY <3>1
    <3> HIDE DEF upto
    <3> QED
      BY <3>2, <3>3, <3>4
  <2>2. Cardinality(upto(i)) <= Cardinality(upto(j)) /\ Cardinality(upto(i)) # Cardinality(upto(j))
    BY <1>2, <2>1, FS_Subset
  <2> QED
    BY <1>2, <2>2
<1>4. PICK f : f = [i \in P |-> Rank(P, i)]
  OBVIOUS
<1>5. f \in [P -> 1..Cardinality(P)] /\ \A i \in P : f[i] = Rank(P, i)
  BY <1>2, <1>4
<1>6. \A i, j \in P : f[i] = f[j] => i = j
  <2> SUFFICES ASSUME NEW i \in P, NEW j \in P, f[i] = f[j], i # j PROVE FALSE
    OBVIOUS
  <2>1. i < j \/ j < i
    OBVIOUS
  <2> QED
    BY <1>2, <1>3, <1>5, <2>1
<1>7. f \in Injection(P, 1..Cardinality(P))
  BY <1>5, <1>6 DEF Injection, IsInjective
<1>8. IsFiniteSet(1..Cardinality(P)) /\ Cardinality(1..Cardinality(P)) = Cardinality(P)
  BY <1>1, FS_Interval
<1>9. f \in Surjection(P, 1..Cardinality(P))
  BY <1>7, <1>8, FS_Injection
<1>10. \A k \in 1..Cardinality(P) : \E i \in P : f[i] = k
  BY <1>9 DEF Surjection
<1> QED
  BY <1>1, <1>2, <1>3, <1>5, <1>10

\* c has the elements of b at the increasing positions pos.
Picked(b, c, pos) ==
  /\ pos \in [DOMAIN c -> DOMAIN b]
  /\ \A k \in DOMAIN c : c[k] = b[pos[k]]
  /\ \A k, l \in DOMAIN c : k < l => pos[k] < pos[l]

LEMMA KeepFacts ==
  ASSUME NEW X, NEW s \in Seq(X), NEW P \in SUBSET (DOMAIN s)
  PROVE  /\ Keep(s, P) \in Seq(X)
         /\ \E pos : Picked(s, Keep(s, P), pos) /\ \A i \in P : \E k \in DOMAIN Keep(s, P) : pos[k] = i
         /\ \A k \in DOMAIN Keep(s, P) : \E i \in P : Keep(s, P)[k] = s[i]
         /\ \A i \in P : \E k \in DOMAIN Keep(s, P) : Keep(s, P)[k] = s[i]
<1>1. Len(s) \in Nat /\ DOMAIN s = 1..Len(s) /\ P \in SUBSET (1..Len(s)) /\ \A i \in P : s[i] \in X
  OBVIOUS
<1>2. PICK n : n = Cardinality(P)
  OBVIOUS
<1>3. /\ n \in Nat
      /\ \A i, j \in P : i < j => Rank(P, i) < Rank(P, j)
      /\ \A i \in P : Rank(P, i) \in 1..n
      /\ \A k \in 1..n : \E i \in P : Rank(P, i) = k
  BY <1>1, <1>2, RankFacts
<1>4. PICK pos : pos = [k \in 1..n |-> CHOOSE i \in P : Rank(P, i) = k]
  OBVIOUS
<1>5. \A k \in 1..n : pos[k] \in P /\ Rank(P, pos[k]) = k
  BY <1>3, <1>4
<1>6. Keep(s, P) = [k \in 1..n |-> s[pos[k]]]
  BY <1>2, <1>4 DEF Keep
<1>7. DOMAIN Keep(s, P) = 1..n /\ \A k \in 1..n : Keep(s, P)[k] = s[pos[k]]
  BY <1>6
<1>8. Keep(s, P) \in [1..n -> X]
  BY <1>1, <1>5, <1>6
<1>9. Keep(s, P) \in Seq(X)
  BY <1>3, <1>8
<1>10. \A k, l \in 1..n : k < l => pos[k] < pos[l]
  <2> SUFFICES ASSUME NEW k \in 1..n, NEW l \in 1..n, k < l, ~(pos[k] < pos[l]) PROVE FALSE
    OBVIOUS
  <2>1. pos[k] \in P /\ pos[l] \in P /\ pos[k] \in Int /\ pos[l] \in Int
    BY <1>1, <1>5
  <2>2. pos[l] < pos[k] \/ pos[l] = pos[k]
    BY <2>1
  <2>3. k \in Int /\ l \in Int /\ Rank(P, pos[k]) = k /\ Rank(P, pos[l]) = l
    BY <1>5
  <2> QED
    BY <1>3, <2>1, <2>2, <2>3
<1>11. \A i \in P : \E k \in 1..n : pos[k] = i
  <2> SUFFICES ASSUME NEW i \in P PROVE \E k \in 1..n : pos[k] = i
    OBVIOUS
  <2>1. Rank(P, i) \in 1..n
    BY <1>3
  <2>2. pos[Rank(P, i)] \in P /\ Rank(P, pos[Rank(P, i)]) = Rank(P, i)
    BY <1>5, <2>1
  <2>3. pos[Rank(P, i)] = i
    <3>1. ~(pos[Rank(P, i)] < i) /\ ~(i < pos[Rank(P, i)])
      BY <1>3, <2>1, <2>2
    <3> QED
      BY <1>1, <2>2, <3>1
  <2> QED
    BY <2>1, <2>3
<1>12. pos \in [1..n -> DOMAIN s]
  BY <1>1, <1>4, <1>5
<1>13. Picked(s, Keep(s, P), pos)
  BY <1>7, <1>10, <1>12 DEF Picked
<1> QED
  BY <1>5, <1>7, <1>9, <1>11, <1>13
-----------------------------------------------------------------------------
(* What the operations on mailboxes do to the messages that wait in them *)

Items(W) == [h : Nat, msg : KindSet, wait : W, failures : W]
Queues(b) == \E W : b \in [Agents -> Seq(Items(W))]
Same(p, q) == p.h = q.h /\ p.msg = q.msg

\* No message waits twice, and prompts wait in the order of their handoffs.
Once(b) ==
  \A a, c \in Agents : \A i \in DOMAIN b[a], j \in DOMAIN b[c] : Same(b[a][i], b[c][j]) => a = c /\ i = j
PromptsOrdered(b) ==
  \A a \in Agents : \A i, j \in DOMAIN b[a] :
    i < j /\ b[a][i].msg = "root" /\ b[a][j].msg = "root" => b[a][i].h < b[a][j].h

\* The mailboxes c have some of the messages of b, in the same order.
ThinsTo(q, r, pos) ==
  /\ pos \in [DOMAIN r -> DOMAIN q]
  /\ \A k \in DOMAIN r : Same(r[k], q[pos[k]])
  /\ \A k, l \in DOMAIN r : k < l => pos[k] < pos[l]
Thins(b, c) == \A a \in Agents : \E pos : ThinsTo(b[a], c[a], pos)

LEMMA QueueTypes ==
  ASSUME NEW W, NEW q \in Seq(Items(W))
  PROVE  /\ Len(q) \in Nat /\ DOMAIN q = 1..Len(q)
         /\ \A i \in DOMAIN q : i \in Nat /\ q[i] \in Items(W) /\ q[i].h \in Nat /\ q[i].msg \in KindSet
<1>1. Len(q) \in Nat /\ DOMAIN q = 1..Len(q) /\ \A i \in DOMAIN q : q[i] \in Items(W)
  OBVIOUS
<1> QED
  BY <1>1 DEF Items

LEMMA MoreItems ==
  ASSUME NEW W, NEW V, W \subseteq V, NEW q \in Seq(Items(W))
  PROVE  q \in Seq(Items(V))
<1>1. Items(W) \subseteq Items(V)
  BY DEF Items
<1>2. q \in [1..Len(q) -> Items(W)] /\ Len(q) \in Nat
  OBVIOUS
<1>3. q \in [1..Len(q) -> Items(V)]
  BY <1>1, <1>2
<1> QED
  BY <1>2, <1>3

LEMMA ThinsFacts ==
  ASSUME NEW b, NEW c, Queues(b), Queues(c), Thins(b, c)
  PROVE  /\ Once(b) => Once(c)
         /\ PromptsOrdered(b) => PromptsOrdered(c)
         /\ \A g, n : Pending(c, g, n) => Pending(b, g, n)
<1>1. PICK W : b \in [Agents -> Seq(Items(W))]
  BY DEF Queues
<1>2. PICK V : c \in [Agents -> Seq(Items(V))]
  BY DEF Queues
<1>3. ASSUME NEW a \in Agents
      PROVE  \E pos : /\ ThinsTo(b[a], c[a], pos)
                      /\ \A k, l \in DOMAIN c[a] : k \in Int /\ l \in Int /\ pos[k] \in DOMAIN b[a] /\ pos[k] \in Int
  <2>1. PICK pos : ThinsTo(b[a], c[a], pos)
    BY DEF Thins
  <2>2. \A i \in DOMAIN b[a] : i \in Int
    BY <1>1, QueueTypes
  <2>3. \A i \in DOMAIN c[a] : i \in Int
    BY <1>2, QueueTypes
  <2> QED
    BY <2>1, <2>2, <2>3 DEF ThinsTo
<1>4. ASSUME Once(b)
      PROVE  Once(c)
  <2> SUFFICES ASSUME NEW a \in Agents, NEW e \in Agents, NEW i \in DOMAIN c[a], NEW j \in DOMAIN c[e],
                      Same(c[a][i], c[e][j])
               PROVE  a = e /\ i = j
    BY DEF Once
  <2>1. PICK pos : /\ ThinsTo(b[a], c[a], pos)
                   /\ \A k, l \in DOMAIN c[a] : k \in Int /\ l \in Int /\ pos[k] \in DOMAIN b[a] /\ pos[k] \in Int
    BY <1>3
  <2>2. PICK qos : /\ ThinsTo(b[e], c[e], qos)
                   /\ \A k, l \in DOMAIN c[e] : k \in Int /\ l \in Int /\ qos[k] \in DOMAIN b[e] /\ qos[k] \in Int
    BY <1>3
  <2>3. Same(b[a][pos[i]], b[e][qos[j]])
    BY <2>1, <2>2 DEF ThinsTo, Same
  <2>4. a = e /\ pos[i] = qos[j]
    BY <1>4, <2>1, <2>2, <2>3 DEF Once
  <2>5. Same(b[a][pos[i]], b[a][pos[j]])
    BY <2>1, <2>3, <2>4 DEF ThinsTo, Same
  <2>6. pos[i] = pos[j]
    BY <1>4, <2>1, <2>4, <2>5 DEF Once
  <2>7. ~(i < j) /\ ~(j < i)
    BY <2>1, <2>4, <2>6 DEF ThinsTo
  <2> QED
    BY <2>1, <2>2, <2>4, <2>7
<1>5. ASSUME PromptsOrdered(b)
      PROVE  PromptsOrdered(c)
  <2> SUFFICES ASSUME NEW a \in Agents, NEW i \in DOMAIN c[a], NEW j \in DOMAIN c[a], i < j,
                      c[a][i].msg = "root", c[a][j].msg = "root"
               PROVE  c[a][i].h < c[a][j].h
    BY DEF PromptsOrdered
  <2>1. PICK pos : /\ ThinsTo(b[a], c[a], pos)
                   /\ \A k, l \in DOMAIN c[a] : k \in Int /\ l \in Int /\ pos[k] \in DOMAIN b[a] /\ pos[k] \in Int
    BY <1>3
  <2> QED
    BY <1>5, <2>1 DEF PromptsOrdered, ThinsTo, Same
<1>6. ASSUME NEW g, NEW n, Pending(c, g, n)
      PROVE  Pending(b, g, n)
  <2>1. PICK a \in Agents : \E i \in DOMAIN c[a] : c[a][i].h = g /\ c[a][i].msg = n
    BY <1>6 DEF Pending
  <2>2. PICK pos : /\ ThinsTo(b[a], c[a], pos)
                   /\ \A k, l \in DOMAIN c[a] : k \in Int /\ l \in Int /\ pos[k] \in DOMAIN b[a] /\ pos[k] \in Int
    BY <1>3
  <2> QED
    BY <2>1, <2>2 DEF Pending, ThinsTo, Same
<1> QED
  BY <1>4, <1>5, <1>6

\* remove_pending: the prompt of h is withdrawn, every other message stays.
LEMMA RemoveFacts ==
  ASSUME NEW b, Queues(b), NEW h, NEW c, c = RemovePending(b, h)
  PROVE  /\ Queues(c) /\ Thins(b, c)
         /\ \A g, n : Pending(c, g, n) <=> Pending(b, g, n) /\ ~(g = h /\ n = "root")
<1>1. PICK W : b \in [Agents -> Seq(Items(W))]
  BY DEF Queues
<1> DEFINE P(a) == {i \in DOMAIN b[a] : ~(b[a][i].h = h /\ b[a][i].msg = "root")}
<1>2. c = [a \in Agents |-> Keep(b[a], P(a))]
  BY DEF RemovePending
<1>3. ASSUME NEW a \in Agents
      PROVE  /\ c[a] = Keep(b[a], P(a)) /\ P(a) \in SUBSET (DOMAIN b[a]) /\ b[a] \in Seq(Items(W))
             /\ c[a] \in Seq(Items(W))
             /\ \E pos : Picked(b[a], c[a], pos)
             /\ \A k \in DOMAIN c[a] : \E i \in P(a) : c[a][k] = b[a][i]
             /\ \A i \in P(a) : \E k \in DOMAIN c[a] : c[a][k] = b[a][i]
  <2>1. c[a] = Keep(b[a], P(a)) /\ P(a) \in SUBSET (DOMAIN b[a]) /\ b[a] \in Seq(Items(W))
    BY <1>1, <1>2
  <2> HIDE DEF P
  <2> QED
    BY <2>1, KeepFacts
<1>4. Queues(c)
  <2>1. c \in [Agents -> Seq(Items(W))]
    BY <1>2, <1>3
  <2> QED
    BY <2>1 DEF Queues
<1>5. Thins(b, c)
  <2> SUFFICES ASSUME NEW a \in Agents PROVE \E pos : ThinsTo(b[a], c[a], pos)
    BY DEF Thins
  <2>1. PICK pos : Picked(b[a], c[a], pos)
    BY <1>3
  <2>2. ThinsTo(b[a], c[a], pos)
    BY <2>1 DEF ThinsTo, Picked, Same
  <2> QED
    BY <2>2
<1>6. ASSUME NEW g, NEW n, Pending(c, g, n)
      PROVE  Pending(b, g, n) /\ ~(g = h /\ n = "root")
  <2>1. PICK a \in Agents : \E k \in DOMAIN c[a] : c[a][k].h = g /\ c[a][k].msg = n
    BY <1>6 DEF Pending
  <2>2. PICK k \in DOMAIN c[a] : c[a][k].h = g /\ c[a][k].msg = n
    BY <2>1
  <2>3. PICK i \in P(a) : c[a][k] = b[a][i]
    BY <1>3
  <2> QED
    BY <2>2, <2>3 DEF Pending
<1>7. ASSUME NEW g, NEW n, Pending(b, g, n), ~(g = h /\ n = "root")
      PROVE  Pending(c, g, n)
  <2>0. PICK a \in Agents : \E i \in DOMAIN b[a] : b[a][i].h = g /\ b[a][i].msg = n
    BY <1>7 DEF Pending
  <2>1. PICK i \in DOMAIN b[a] : b[a][i].h = g /\ b[a][i].msg = n
    BY <2>0
  <2>2. i \in P(a)
    BY <1>7, <2>1
  <2>3. PICK k \in DOMAIN c[a] : c[a][k] = b[a][i]
    BY <1>3, <2>2
  <2> QED
    BY <2>1, <2>3 DEF Pending
<1> QED
  BY <1>4, <1>5, <1>6, <1>7

\* The front of a mailbox is delivered, or given up.
LEMMA PopFacts ==
  ASSUME NEW b, Queues(b), Once(b), NEW a \in Agents, b[a] # <<>>, NEW p, p = b[a][1], NEW c, c = Pop(b, a)
  PROVE  /\ Queues(c) /\ Thins(b, c) /\ p.h \in Nat /\ p.msg \in KindSet
         /\ \A g, n : Pending(c, g, n) <=> Pending(b, g, n) /\ ~(g = p.h /\ n = p.msg)
<1>1. PICK W : b \in [Agents -> Seq(Items(W))]
  BY DEF Queues
<1>2. PICK r : r = Tail(b[a])
  OBVIOUS
<1>3. /\ b[a] \in Seq(Items(W)) /\ r \in Seq(Items(W)) /\ Len(b[a]) \in Nat /\ Len(b[a]) > 0
      /\ Len(r) = Len(b[a]) - 1 /\ \A i \in 1..Len(r) : r[i] = b[a][i + 1]
      /\ DOMAIN r = 1..Len(r) /\ DOMAIN b[a] = 1..Len(b[a])
  BY <1>1, <1>2
<1>4. c \in [Agents -> Seq(Items(W))] /\ c[a] = r /\ \A e \in Agents : e # a => c[e] = b[e]
  BY <1>1, <1>2, <1>3 DEF Pop
<1>5. Queues(c)
  BY <1>4 DEF Queues
<1>6. ASSUME NEW e \in Agents
      PROVE  \E pos : ThinsTo(b[e], c[e], pos)
  <2>1. CASE e = a
    <3>1. PICK pos : pos = [i \in 1..Len(r) |-> i + 1]
      OBVIOUS
    <3>2. /\ pos \in [DOMAIN r -> DOMAIN b[a]] /\ \A k \in DOMAIN r : r[k] = b[a][pos[k]]
          /\ \A k, l \in DOMAIN r : k < l => pos[k] < pos[l]
      BY <1>3, <3>1
    <3>3. ThinsTo(b[a], r, pos)
      BY <3>2 DEF ThinsTo, Same
    <3> QED
      BY <1>4, <2>1, <3>3
  <2>2. CASE e # a
    <3>1. PICK pos : pos = [i \in DOMAIN b[e] |-> i]
      OBVIOUS
    <3>2. ThinsTo(b[e], b[e], pos)
      BY <3>1 DEF ThinsTo, Same
    <3> QED
      BY <1>4, <2>2, <3>2
  <2> QED
    BY <2>1, <2>2
<1>7. Thins(b, c)
  BY <1>6 DEF Thins
<1>8. 1 \in DOMAIN b[a] /\ p.h \in Nat /\ p.msg \in KindSet
  BY <1>3, QueueTypes
<1>9. ASSUME NEW g, NEW n, Pending(b, g, n), ~(g = p.h /\ n = p.msg)
      PROVE  Pending(c, g, n)
  <2>1. PICK e \in Agents : \E i \in DOMAIN b[e] : b[e][i].h = g /\ b[e][i].msg = n
    BY <1>9 DEF Pending
  <2>2. PICK i \in DOMAIN b[e] : b[e][i].h = g /\ b[e][i].msg = n
    BY <2>1
  <2>3. CASE e # a
    BY <1>4, <2>2, <2>3 DEF Pending
  <2>4. CASE e = a
    <3>1. i # 1 /\ i \in 1..Len(b[a])
      BY <1>3, <1>9, <2>2, <2>4
    <3>2. i - 1 \in DOMAIN r /\ r[i - 1] = b[a][i]
      BY <1>3, <3>1
    <3> QED
      BY <1>4, <2>2, <2>4, <3>2 DEF Pending
  <2> QED
    BY <2>3, <2>4
<1>10. ~Pending(c, p.h, p.msg)
  <2> SUFFICES ASSUME Pending(c, p.h, p.msg) PROVE FALSE
    OBVIOUS
  <2>1. PICK e \in Agents : \E i \in DOMAIN c[e] : c[e][i].h = p.h /\ c[e][i].msg = p.msg
    BY DEF Pending
  <2>2. PICK i \in DOMAIN c[e] : c[e][i].h = p.h /\ c[e][i].msg = p.msg
    BY <2>1
  <2>3. CASE e # a
    <3>1. i \in DOMAIN b[e] /\ Same(b[e][i], b[a][1])
      BY <1>4, <2>2, <2>3 DEF Same
    <3> QED
      BY <1>8, <2>3, <3>1 DEF Once
  <2>4. CASE e = a
    <3>1. i \in 1..Len(r) /\ i + 1 \in DOMAIN b[a] /\ b[a][i + 1] = c[a][i] /\ i + 1 # 1
      BY <1>3, <1>4, <2>2, <2>4
    <3> QED
      BY <1>8, <2>2, <2>4, <3>1 DEF Once, Same
  <2> QED
    BY <2>3, <2>4
<1> QED
  BY <1>5, <1>7, <1>8, <1>9, <1>10, ThinsFacts

\* Waiting longer or shorter changes no message and no place.
LEMMA WaitFacts ==
  ASSUME NEW b, Queues(b), NEW c, Queues(c),
         \A a \in Agents : DOMAIN c[a] = DOMAIN b[a] /\ \A i \in DOMAIN b[a] : Same(c[a][i], b[a][i])
  PROVE  Thins(b, c) /\ \A g, n : Pending(c, g, n) <=> Pending(b, g, n)
<1>1. ASSUME NEW a \in Agents
      PROVE  \E pos : ThinsTo(b[a], c[a], pos)
  <2>1. PICK pos : pos = [i \in DOMAIN b[a] |-> i]
    OBVIOUS
  <2>2. ThinsTo(b[a], c[a], pos)
    BY <2>1 DEF ThinsTo
  <2> QED
    BY <2>2
<1>2. \A g, n : Pending(c, g, n) <=> Pending(b, g, n)
  BY DEF Pending, Same
<1> QED
  BY <1>1, <1>2 DEF Thins

LEMMA RetryFacts ==
  ASSUME NEW b, Queues(b), NEW a \in Agents, b[a] # <<>>, NEW c, c = RetryLater(b, a)
  PROVE  Queues(c) /\ Thins(b, c) /\ \A g, n : Pending(c, g, n) <=> Pending(b, g, n)
<1>1. PICK W : b \in [Agents -> Seq(Items(W))]
  BY DEF Queues
<1>2. PICK f, w : f = b[a][1].failures + 1 /\ w = Backoff(b[a][1].failures + 1)
  OBVIOUS
<1>3. PICK p : p = [b[a][1] EXCEPT !.failures = f, !.wait = w]
  OBVIOUS
<1>4. PICK V : V = W \cup {f, w}
  OBVIOUS
<1>5. b[a] \in Seq(Items(W)) /\ Len(b[a]) \in Nat /\ 1 \in 1..Len(b[a]) /\ b[a][1] \in Items(W)
  BY <1>1
<1>6. p \in Items(V) /\ Same(p, b[a][1])
  BY <1>3, <1>4, <1>5 DEF Items, Same
<1>7. PICK s : s = [b[a] EXCEPT ![1] = p]
  OBVIOUS
<1>8. b[a] \in Seq(Items(V)) /\ \A e \in Agents : b[e] \in Seq(Items(V))
  BY <1>1, <1>4, MoreItems
<1>9. s \in Seq(Items(V)) /\ DOMAIN s = DOMAIN b[a] /\ s[1] = p /\ \A i \in DOMAIN b[a] : i # 1 => s[i] = b[a][i]
  BY <1>5, <1>6, <1>7, <1>8, ExceptSeq
<1>10. c = [b EXCEPT ![a] = s]
  BY <1>2, <1>3, <1>7 DEF RetryLater
<1>11. /\ c \in [Agents -> Seq(Items(V))] /\ c[a] = s /\ \A e \in Agents : e # a => c[e] = b[e]
  BY <1>1, <1>8, <1>9, <1>10
<1>12. \A e \in Agents : DOMAIN c[e] = DOMAIN b[e] /\ \A i \in DOMAIN b[e] : Same(c[e][i], b[e][i])
  BY <1>6, <1>9, <1>11 DEF Same
<1>13. Queues(c)
  BY <1>11 DEF Queues
<1> QED
  BY <1>12, <1>13, WaitFacts

LEMMA FunctionIsSeq ==
  ASSUME NEW S, NEW n \in Nat, NEW q \in [1..n -> S]
  PROVE  q \in Seq(S) /\ Len(q) = n /\ DOMAIN q = 1..n
  OBVIOUS

LEMMA AgedBoxes ==
  ASSUME NEW b, Queues(b), NEW c,
         c = [a \in Agents |-> [i \in DOMAIN b[a] |-> [b[a][i] EXCEPT !.wait = IF @ > 0 THEN @ - 1 ELSE 0]]]
  PROVE  Queues(c) /\ Thins(b, c) /\ \A g, n : Pending(c, g, n) <=> Pending(b, g, n)
<1>1. PICK W : b \in [Agents -> Seq(Items(W))]
  BY DEF Queues
<1>2. PICK V : V = W \cup {0} \cup {w - 1 : w \in W}
  OBVIOUS
<1>3. ASSUME NEW p \in Items(W), NEW q, q = [p EXCEPT !.wait = IF @ > 0 THEN @ - 1 ELSE 0]
      PROVE  q \in Items(V) /\ Same(q, p)
  <2>1. PICK w : w = IF p.wait > 0 THEN p.wait - 1 ELSE 0
    OBVIOUS
  <2>2. w \in V
    BY <1>2, <2>1 DEF Items
  <2>3. q = [p EXCEPT !.wait = w]
    BY <1>3, <2>1
  <2> QED
    BY <1>2, <2>2, <2>3 DEF Items, Same
<1>4. ASSUME NEW a \in Agents
      PROVE  /\ c[a] \in Seq(Items(V)) /\ DOMAIN c[a] = DOMAIN b[a]
             /\ \A i \in DOMAIN b[a] : Same(c[a][i], b[a][i])
  <2>1. Len(b[a]) \in Nat /\ DOMAIN b[a] = 1..Len(b[a]) /\ \A i \in DOMAIN b[a] : b[a][i] \in Items(W)
    BY <1>1
  <2>2. c[a] = [i \in DOMAIN b[a] |-> [b[a][i] EXCEPT !.wait = IF @ > 0 THEN @ - 1 ELSE 0]]
    OBVIOUS
  <2>3. \A i \in DOMAIN b[a] : c[a][i] \in Items(V) /\ Same(c[a][i], b[a][i])
    BY <1>3, <2>1, <2>2
  <2>4. c[a] \in [1..Len(b[a]) -> Items(V)]
    BY <2>1, <2>2, <2>3
  <2> QED
    <3>1. c[a] \in Seq(Items(V))
      BY <2>1, <2>4, FunctionIsSeq
    <3>2. DOMAIN c[a] = DOMAIN b[a]
      BY <2>2
    <3> QED
      BY <2>3, <3>1, <3>2
<1>5. c \in [Agents -> Seq(Items(V))]
  BY <1>4
<1>6. Queues(c)
  BY <1>5 DEF Queues
<1> QED
  BY <1>4, <1>6, WaitFacts

\* enqueue: a message is appended to the mailbox of its addressee unless it
\* waits there, or cannot or need not be delivered.
Adds(b, d, h, m) == ~Pending(b, h, m) /\ ~DeliveryTerminal(d.handoff[h], m) /\ Enqueueable(d, h, m)

LEMMA EnqueueFacts ==
  ASSUME NEW b, Queues(b), NEW d \in Databases, NEW h \in DOMAIN d.handoff, NEW m \in KindSet,
         NEW c, c = Enqueue(b, d, h, m)
  PROVE  /\ Queues(c)
         /\ \A g, n : Pending(c, g, n) <=> Pending(b, g, n) \/ (g = h /\ n = m /\ Adds(b, d, h, m))
         /\ Once(b) => Once(c)
         /\ PromptsOrdered(b) /\ (Adds(b, d, h, m) /\ m = "root" => \A g : Pending(b, g, "root") => g < h)
              => PromptsOrdered(c)
         /\ ~Adds(b, d, h, m) => c = b
<1>1. PICK W : b \in [Agents -> Seq(Items(W))]
  BY DEF Queues
<1>2. CASE ~Adds(b, d, h, m)
  <2>1. c = b
    BY <1>2 DEF Adds, Enqueue
  <2> QED
    BY <1>2, <2>1
<1>3. CASE Adds(b, d, h, m)
  <2>1. PICK a : a = Addressee(d.handoff[h], m)
    OBVIOUS
  <2>2. PICK p : p = NewPending(d, h, m)
    OBVIOUS
  <2>3. a \in Agents /\ c = [b EXCEPT ![a] = Append(b[a], p)]
    BY <1>3, <2>1, <2>2 DEF Adds, Enqueue, Enqueueable
  <2>4. PICK V : V = W \cup {p.wait, p.failures}
    OBVIOUS
  <2>5. h \in Nat
    BY DatabaseTypes
  <2>6. p \in Items(V) /\ p.h = h /\ p.msg = m
    BY <2>2, <2>4, <2>5 DEF NewPending, Items
  <2>7. \A e \in Agents : b[e] \in Seq(Items(V))
    BY <1>1, <2>4, MoreItems
  <2>8. PICK s : s = Append(b[a], p)
    OBVIOUS
  <2>9. /\ s \in Seq(Items(V)) /\ DOMAIN b[a] = 1..Len(b[a]) /\ Len(b[a]) \in Nat
        /\ DOMAIN s = 1..(Len(b[a]) + 1) /\ s[Len(b[a]) + 1] = p /\ \A i \in DOMAIN b[a] : s[i] = b[a][i]
    BY <2>3, <2>6, <2>7, <2>8
  <2>10. c \in [Agents -> Seq(Items(V))] /\ c[a] = s /\ \A e \in Agents : e # a => c[e] = b[e]
    BY <1>1, <2>3, <2>7, <2>8, <2>9
  <2>11. Queues(c)
    BY <2>10 DEF Queues
  <2>12. \A e \in Agents : \A i \in DOMAIN c[e] :
           \/ i \in DOMAIN b[e] /\ c[e][i] = b[e][i]
           \/ e = a /\ i = Len(b[a]) + 1 /\ c[e][i] = p
    BY <2>9, <2>10
  <2>13. ASSUME NEW e \in Agents, NEW i \in DOMAIN b[e]
         PROVE  i \in DOMAIN c[e] /\ c[e][i] = b[e][i]
    <3>1. CASE e = a
      <4>1. i \in 1..Len(b[a]) /\ s[i] = b[a][i]
        BY <2>9, <3>1
      <4>2. i \in DOMAIN s
        BY <2>9, <4>1
      <4> QED
        BY <2>10, <3>1, <4>1, <4>2
    <3>2. CASE e # a
      BY <2>10, <3>2
    <3> QED
      BY <3>1, <3>2
  <2>14. Len(b[a]) + 1 \in DOMAIN c[a] /\ c[a][Len(b[a]) + 1] = p
    BY <2>9, <2>10
  <2>15. ASSUME NEW g, NEW n
         PROVE  Pending(c, g, n) <=> Pending(b, g, n) \/ (g = h /\ n = m)
    <3>1. Pending(c, g, n) => Pending(b, g, n) \/ (g = h /\ n = m)
      BY <2>6, <2>12 DEF Pending
    <3>2. Pending(b, g, n) => Pending(c, g, n)
      BY <2>13 DEF Pending
    <3>3. Pending(c, h, m)
      BY <2>3, <2>6, <2>14 DEF Pending
    <3> QED
      BY <3>1, <3>2, <3>3
  <2>16. ~Pending(b, h, m)
    BY <1>3 DEF Adds
  <2>17. ASSUME Once(b)
         PROVE  Once(c)
    <3> SUFFICES ASSUME NEW e \in Agents, NEW f \in Agents, NEW i \in DOMAIN c[e], NEW j \in DOMAIN c[f],
                        Same(c[e][i], c[f][j])
                 PROVE  e = f /\ i = j
      BY DEF Once
    <3>1. CASE i \in DOMAIN b[e] /\ c[e][i] = b[e][i] /\ j \in DOMAIN b[f] /\ c[f][j] = b[f][j]
      BY <2>17, <3>1 DEF Once
    <3>2. CASE i \in DOMAIN b[e] /\ c[e][i] = b[e][i] /\ c[f][j] = p
      BY <2>6, <2>16, <3>2 DEF Pending, Same
    <3>3. CASE j \in DOMAIN b[f] /\ c[f][j] = b[f][j] /\ c[e][i] = p
      BY <2>6, <2>16, <3>3 DEF Pending, Same
    <3> QED
      BY <2>12, <3>1, <3>2, <3>3
  <2>18. ASSUME PromptsOrdered(b), m = "root" => \A g : Pending(b, g, "root") => g < h
         PROVE  PromptsOrdered(c)
    <3> SUFFICES ASSUME NEW e \in Agents, NEW i \in DOMAIN c[e], NEW j \in DOMAIN c[e], i < j,
                        c[e][i].msg = "root", c[e][j].msg = "root"
                 PROVE  c[e][i].h < c[e][j].h
      BY DEF PromptsOrdered
    <3>1. CASE i \in DOMAIN b[e] /\ c[e][i] = b[e][i] /\ j \in DOMAIN b[e] /\ c[e][j] = b[e][j]
      BY <2>18, <3>1 DEF PromptsOrdered
    <3>2. CASE i \in DOMAIN b[e] /\ c[e][i] = b[e][i] /\ c[e][j] = p
      <4>1. Pending(b, c[e][i].h, "root")
        BY <3>2 DEF Pending
      <4> QED
        BY <2>6, <2>18, <3>2, <4>1
    <3>3. ~(e = a /\ i = Len(b[a]) + 1)
      BY <2>9, <2>10
    <3> QED
      BY <2>12, <3>1, <3>2, <3>3
  <2> QED
    BY <1>3, <2>11, <2>15, <2>17, <2>18
<1> QED
  BY <1>2, <1>3

LEMMA KindFacts ==
  /\ \A k \in 1..4 : Kinds[k] \in KindSet
  /\ \A m \in KindSet : \E k \in 1..4 : Kinds[k] = m
  /\ \A k, l \in 1..4 : Kinds[k] = Kinds[l] => k = l
  BY DEF Kinds, KindSet

\* The candidates of recovery: every message of every handoff once, and those
\* of one kind in the order of the handoffs.
Names == [h : Nat, msg : KindSet]
Lists(all, handoffs) ==
  /\ all \in Seq(Names)
  /\ \A i \in DOMAIN all : i \in Nat /\ all[i].h \in handoffs /\ all[i].msg \in KindSet
  /\ \A h \in handoffs, m \in KindSet : \E i \in DOMAIN all : all[i].h = h /\ all[i].msg = m
  /\ \A i, j \in DOMAIN all : i < j /\ all[i].msg = all[j].msg => all[i].h < all[j].h

LEMMA CandidateFacts ==
  ASSUME Good(db)
  PROVE  Lists(Candidates, DOMAIN db.handoff)
<1>0. PICK all : all = Candidates
  OBVIOUS
<1>1. PICK n : n = Len(db.handoff)
  OBVIOUS
<1>2. n \in Nat /\ DOMAIN db.handoff = 1..n
  BY <1>1, DatabaseTypes DEF Good
<1>3. all = [i \in 1..4 * n |-> [h |-> ((i - 1) \div 4) + 1, msg |-> Kinds[((i - 1) % 4) + 1]]]
  BY <1>0, <1>1 DEF Candidates
<1>4. DOMAIN all = 1..4 * n /\ 4 * n \in Nat
  BY <1>2, <1>3
<1>5. ASSUME NEW i \in 1..4 * n
      PROVE  /\ i \in Nat /\ (i - 1) \div 4 \in Nat /\ ((i - 1) \div 4) + 1 \in 1..n
             /\ ((i - 1) % 4) + 1 \in 1..4 /\ i = 4 * ((i - 1) \div 4) + ((i - 1) % 4) + 1
             /\ all[i].h = ((i - 1) \div 4) + 1 /\ all[i].msg = Kinds[((i - 1) % 4) + 1]
             /\ all[i] \in Names /\ all[i].h \in 1..n /\ all[i].msg \in KindSet
  <2>1. i \in Nat /\ i # 0 /\ i <= 4 * n
    BY <1>2
  <2>2. /\ ((i - 1) \div 4) + 1 \in 1..n
        /\ ((i - 1) % 4) + 1 \in 1..4
    BY <1>2, <2>1
  <2>3. i = 4 * ((i - 1) \div 4) + ((i - 1) % 4) + 1
    BY <1>2, <2>1
  <2>4. all[i] = [h |-> ((i - 1) \div 4) + 1, msg |-> Kinds[((i - 1) % 4) + 1]]
    BY <1>3
  <2>5. Kinds[((i - 1) % 4) + 1] \in KindSet
    BY <2>2, KindFacts
  <2>6. (i - 1) \div 4 \in Nat
    BY <2>1
  <2> QED
    BY <1>2, <2>1, <2>2, <2>3, <2>4, <2>5, <2>6 DEF Names
<1>6. all \in [1..4 * n -> Names]
  BY <1>3, <1>4, <1>5
<1>7. all \in Seq(Names)
  BY <1>4, <1>6, FunctionIsSeq
<1>8. ASSUME NEW h \in 1..n, NEW m \in KindSet
      PROVE  \E i \in 1..4 * n : all[i].h = h /\ all[i].msg = m
  <2>1. PICK k \in 1..4 : Kinds[k] = m
    BY KindFacts
  <2>2. PICK i : i = 4 * (h - 1) + k
    OBVIOUS
  <2>3. i \in 1..4 * n /\ ((i - 1) \div 4) + 1 = h /\ ((i - 1) % 4) + 1 = k
    BY <1>2, <2>2
  <2> QED
    BY <1>5, <2>1, <2>3
<1>9. ASSUME NEW i \in 1..4 * n, NEW j \in 1..4 * n, i < j, all[i].msg = all[j].msg
      PROVE  all[i].h < all[j].h
  <2>1. PICK x, y, u, v : x = (i - 1) \div 4 /\ y = (j - 1) \div 4 /\ u = (i - 1) % 4 /\ v = (j - 1) % 4
    OBVIOUS
  <2>2. /\ x \in Nat /\ y \in Nat /\ u + 1 \in 1..4 /\ v + 1 \in 1..4 /\ i = 4 * x + u + 1 /\ j = 4 * y + v + 1
        /\ all[i].h = x + 1 /\ all[j].h = y + 1 /\ Kinds[u + 1] = Kinds[v + 1]
    BY <1>5, <1>9, <2>1
  <2>3. u + 1 = v + 1
    BY <2>2, KindFacts
  <2>4. i \in Int /\ j \in Int /\ u \in Int /\ v \in Int
    BY <2>1
  <2>5. u = v
    BY <2>3, <2>4
  <2> QED
    BY <1>9, <2>2, <2>4, <2>5
<1> QED
  <2>1. \A i \in DOMAIN all : i \in Nat /\ all[i].h \in DOMAIN db.handoff /\ all[i].msg \in KindSet
    BY <1>2, <1>4, <1>5
  <2>2. \A h \in DOMAIN db.handoff, m \in KindSet : \E i \in DOMAIN all : all[i].h = h /\ all[i].msg = m
    BY <1>2, <1>4, <1>8
  <2>3. \A i, j \in DOMAIN all : i < j /\ all[i].msg = all[j].msg => all[i].h < all[j].h
    BY <1>4, <1>9
  <2> QED
    BY <1>0, <1>7, <2>1, <2>2, <2>3 DEF Lists

\* The candidates that a mailbox receives.
Receives(a, h, m) == Recoverable(db.handoff[h], m) /\ Addressee(db.handoff[h], m) = a
Positions(all, a) == {i \in DOMAIN all : Receives(a, all[i].h, all[i].msg)}

\* Recovery refills the mailboxes with all that can still be delivered.
LEMMA RecoverFacts ==
  ASSUME Good(db), NEW c, c = [a \in Agents |-> CandidatesFor(a)]
  PROVE  /\ Queues(c) /\ Once(c) /\ PromptsOrdered(c)
         /\ \A h, m : Pending(c, h, m) =>
              h \in DOMAIN db.handoff /\ m \in KindSet /\ Recoverable(db.handoff[h], m)
         /\ \A h \in DOMAIN db.handoff, m \in KindSet :
              Recoverable(db.handoff[h], m) /\ Addressee(db.handoff[h], m) \in Agents => Pending(c, h, m)
<1>1. PICK all : all = Candidates
  OBVIOUS
<1>0. Lists(all, DOMAIN db.handoff)
  BY <1>1, CandidateFacts
<1>2. /\ all \in Seq(Names)
      /\ \A i \in DOMAIN all : i \in Nat /\ all[i].h \in DOMAIN db.handoff /\ all[i].msg \in KindSet
      /\ \A h \in DOMAIN db.handoff, m \in KindSet : \E i \in DOMAIN all : all[i].h = h /\ all[i].msg = m
      /\ \A i, j \in DOMAIN all : i < j /\ all[i].msg = all[j].msg => all[i].h < all[j].h
  BY <1>0 DEF Lists
<1>20. PICK own : own = [a \in Agents |-> Keep(all, Positions(all, a))]
  OBVIOUS
<1>21. PICK W : W = {0} \cup {RetryableFailures(db.handoff[x[1]], x[2]) : x \in (DOMAIN db.handoff) \X KindSet}
  OBVIOUS
<1>3. ASSUME NEW a \in Agents
      PROVE  c[a] = [i \in DOMAIN own[a] |-> NewPending(db, own[a][i].h, own[a][i].msg)]
  BY <1>1, <1>20 DEF CandidatesFor, Positions, Receives
<1>4. ASSUME NEW a \in Agents
      PROVE  /\ own[a] \in Seq(Names)
             /\ \E pos : Picked(all, own[a], pos)
             /\ \A k \in DOMAIN own[a] : \E i \in Positions(all, a) : own[a][k] = all[i]
             /\ \A i \in Positions(all, a) : \E k \in DOMAIN own[a] : own[a][k] = all[i]
  <2>1. PICK S : S = Positions(all, a)
    OBVIOUS
  <2>2. S \in SUBSET (DOMAIN all)
    BY <2>1 DEF Positions
  <2>3. PICK q : q = Keep(all, S)
    OBVIOUS
  <2>4. /\ q \in Seq(Names) /\ \E pos : Picked(all, q, pos)
        /\ \A k \in DOMAIN q : \E i \in S : q[k] = all[i]
        /\ \A i \in S : \E k \in DOMAIN q : q[k] = all[i]
    BY <1>2, <2>2, <2>3, KeepFacts
  <2>5. own[a] = q
    BY <1>20, <2>1, <2>3
  <2> QED
    BY <2>1, <2>4, <2>5
<1>5. ASSUME NEW a \in Agents
      PROVE  /\ DOMAIN c[a] = DOMAIN own[a] /\ c[a] \in Seq(Items(W))
             /\ \A i \in DOMAIN own[a] :
                  /\ i \in Int /\ c[a][i].h = own[a][i].h /\ c[a][i].msg = own[a][i].msg
                  /\ own[a][i].h \in DOMAIN db.handoff /\ own[a][i].msg \in KindSet
                  /\ Receives(a, own[a][i].h, own[a][i].msg)
  <2>1. PICK q : q = own[a]
    OBVIOUS
  <2>2. q \in Seq(Names) /\ Len(q) \in Nat /\ DOMAIN q = 1..Len(q)
    BY <1>4, <2>1
  <2>3. ASSUME NEW i \in DOMAIN q
        PROVE  /\ q[i].h \in DOMAIN db.handoff /\ q[i].msg \in KindSet /\ Receives(a, q[i].h, q[i].msg)
               /\ q[i].h \in Nat /\ i \in Int
    <3>1. PICK k \in Positions(all, a) : q[i] = all[k]
      BY <1>4, <2>1
    <3>2. k \in DOMAIN all /\ Receives(a, all[k].h, all[k].msg)
      BY DEF Positions
    <3>3. q[i].h = all[k].h /\ q[i].msg = all[k].msg
      BY <3>1
    <3>4. Receives(a, q[i].h, q[i].msg)
      BY <3>2, <3>3
    <3>5. q[i].h \in DOMAIN db.handoff /\ q[i].msg \in KindSet
      BY <1>2, <3>2, <3>3
    <3>6. i \in Int /\ q[i] \in Names
      BY <2>2
    <3>7. q[i].h \in Nat
      BY <3>6 DEF Names
    <3> QED
      BY <3>4, <3>5, <3>6, <3>7
  <2>4. c[a] = [i \in DOMAIN q |-> NewPending(db, q[i].h, q[i].msg)]
    BY <1>3, <2>1
  <2>5. ASSUME NEW i \in DOMAIN q
        PROVE  c[a][i] \in Items(W) /\ c[a][i].h = q[i].h /\ c[a][i].msg = q[i].msg
    <3>1. RetryableFailures(db.handoff[q[i].h], q[i].msg) \in W /\ 0 \in W
      <4>1. <<q[i].h, q[i].msg>> \in (DOMAIN db.handoff) \X KindSet
        BY <2>3
      <4> QED
        BY <1>21, <4>1
    <3>2. c[a][i] = NewPending(db, q[i].h, q[i].msg)
      BY <2>4
    <3> QED
      BY <2>3, <3>1, <3>2 DEF NewPending, Items
  <2>6. c[a] \in [1..Len(q) -> Items(W)]
    BY <2>2, <2>4, <2>5
  <2>7. c[a] \in Seq(Items(W)) /\ DOMAIN c[a] = DOMAIN q
    BY <2>2, <2>6, FunctionIsSeq
  <2> QED
    BY <2>1, <2>3, <2>5, <2>7
<1>6. c \in [Agents -> Seq(Items(W))]
  BY <1>5
<1>7. Queues(c)
  BY <1>6 DEF Queues
<1>8. ASSUME NEW a \in Agents, NEW i \in DOMAIN c[a], NEW j \in DOMAIN c[a], i < j, c[a][i].msg = c[a][j].msg
      PROVE  c[a][i].h < c[a][j].h
  <2>1. PICK q : q = own[a]
    OBVIOUS
  <2>2. /\ i \in DOMAIN q /\ j \in DOMAIN q /\ c[a][i].h = q[i].h /\ c[a][i].msg = q[i].msg
        /\ c[a][j].h = q[j].h /\ c[a][j].msg = q[j].msg
    BY <1>5, <2>1
  <2>3. PICK pos : Picked(all, q, pos)
    BY <1>4, <2>1
  <2>4. pos[i] \in DOMAIN all /\ pos[j] \in DOMAIN all /\ pos[i] < pos[j] /\ q[i] = all[pos[i]] /\ q[j] = all[pos[j]]
    BY <1>8, <2>2, <2>3 DEF Picked
  <2> QED
    BY <1>2, <1>8, <2>2, <2>4
<1>9. Once(c)
  <2> SUFFICES ASSUME NEW a \in Agents, NEW e \in Agents, NEW i \in DOMAIN c[a], NEW j \in DOMAIN c[e],
                      Same(c[a][i], c[e][j])
               PROVE  a = e /\ i = j
    BY DEF Once
  <2>1. c[a][i].h = c[e][j].h /\ c[a][i].msg = c[e][j].msg
    BY DEF Same
  <2>2. a = e
    <3>1. Receives(a, c[a][i].h, c[a][i].msg) /\ Receives(e, c[e][j].h, c[e][j].msg)
      BY <1>5
    <3> QED
      BY <2>1, <3>1 DEF Receives
  <2>3. i \in Int /\ j \in Int /\ c[a][i].h \in Int
    <3>1. \A k \in DOMAIN db.handoff : k \in Int
      BY DatabaseTypes DEF Good
    <3> QED
      BY <1>5, <3>1
  <2>4. ~(i < j) /\ ~(j < i)
    BY <1>8, <2>1, <2>2, <2>3
  <2> QED
    BY <2>2, <2>3, <2>4
<1>10. PromptsOrdered(c)
  BY <1>8 DEF PromptsOrdered
<1>11. ASSUME NEW h, NEW m, Pending(c, h, m)
       PROVE  h \in DOMAIN db.handoff /\ m \in KindSet /\ Recoverable(db.handoff[h], m)
  <2>1. PICK a \in Agents : \E i \in DOMAIN c[a] : c[a][i].h = h /\ c[a][i].msg = m
    BY <1>11 DEF Pending
  <2>2. PICK i \in DOMAIN c[a] : c[a][i].h = h /\ c[a][i].msg = m
    BY <2>1
  <2>3. h \in DOMAIN db.handoff /\ m \in KindSet /\ Receives(a, h, m)
    <3> QED
      BY <1>5, <2>2
  <2> QED
    BY <2>3 DEF Receives
<1>12. ASSUME NEW h \in DOMAIN db.handoff, NEW m \in KindSet, Recoverable(db.handoff[h], m),
              Addressee(db.handoff[h], m) \in Agents
       PROVE  Pending(c, h, m)
  <2>1. PICK a \in Agents : a = Addressee(db.handoff[h], m)
    BY <1>12
  <2>2. PICK i \in DOMAIN all : all[i].h = h /\ all[i].msg = m
    BY <1>2
  <2>3. i \in Positions(all, a)
    BY <1>12, <2>1, <2>2 DEF Positions, Receives
  <2>4. PICK k \in DOMAIN own[a] : own[a][k] = all[i]
    BY <1>4, <2>3
  <2>5. k \in DOMAIN c[a] /\ c[a][k].h = h /\ c[a][k].msg = m
    <3> QED
      BY <1>5, <2>2, <2>4
  <2> QED
    BY <2>5 DEF Pending
<1> QED
  BY <1>7, <1>9, <1>10, <1>11, <1>12

-----------------------------------------------------------------------------
(* What a change of a conversation means for its messages *)

\* A message that must reach an agent, and one that may wait in a mailbox.
Waits(r, m) ==
  /\ m \in Messages(r) /\ ~DeliveryTerminal(r, m)
  /\ m = "root" => r.termination = None
  /\ m \in {"progress", "response"} => r.source # Routine
Fits(r, m) == m \in Messages(r) /\ ~DeliveryTerminal(r, m) /\ (m = "root" => r.response = None)

\* Routine work that was attempted is left to the scheduler.
Tried(r) == r.source = Routine /\ r.attempts # <<>>

\* r is the conversation q with the message m to deliver and without x.
Follows(q, r, m, x) ==
  /\ r.source = q.source /\ (Tried(q) => Tried(r))
  /\ \A n \in KindSet : /\ Waits(r, n) => n = m \/ (Waits(q, n) /\ n # x)
                        /\ Fits(q, n) /\ n # x => Fits(r, n)

\* Only the conversation h differs.
Changes(d, e, h) ==
  /\ DOMAIN e.handoff = DOMAIN d.handoff
  /\ \A g \in DOMAIN d.handoff : g # h => e.handoff[g] = d.handoff[g]

LEMMA SameAttempts ==
  ASSUME NEW q, NEW r, r.attempts = q.attempts
  PROVE  /\ \A n : DeliveryTerminal(r, n) <=> DeliveryTerminal(q, n)
         /\ \A n : MessageDelivered(r, n) <=> MessageDelivered(q, n)
         /\ Attempting(r) <=> Attempting(q)
  BY DEF DeliveryTerminal, MessageDelivered, Attempting

LEMMA DeliveredIsTerminal ==
  ASSUME NEW r, NEW n, MessageDelivered(r, n)
  PROVE  DeliveryTerminal(r, n)
  BY DEF DeliveryTerminal, MessageDelivered

LEMMA ProgressChange ==
  ASSUME NEW d, Good(d), NEW h \in DOMAIN d.handoff, NEW e, e = RecordProgress(d, h), NEW x, x \notin KindSet
  PROVE  /\ Changes(d, e, h) /\ Follows(d.handoff[h], e.handoff[h], "progress", x)
         /\ e.handoff[h].attempts = d.handoff[h].attempts
<1>1. PICK q : q = d.handoff[h]
  OBVIOUS
<1>2. d \in Databases /\ q \in HandoffRecord
  BY <1>1, DatabaseTypes DEF Good
<1>3. PICK r : r = [q EXCEPT !.progress = TRUE]
  OBVIOUS
<1>4. /\ r \in HandoffRecord /\ r.root = q.root /\ r.source = q.source /\ r.attempts = q.attempts
      /\ r.response = q.response /\ r.termination = q.termination
  BY <1>2, <1>3 DEF HandoffRecord
<1>5. e = [d EXCEPT !.handoff = [d.handoff EXCEPT ![h] = r]]
  BY <1>1, <1>2, <1>3, DatabaseTypes DEF RecordProgress
<1>6. Changes(d, e, h) /\ e.handoff[h] = r
  BY <1>2, <1>4, <1>5, HandoffChanged DEF Changes
<1>7. \A n : /\ n \in Messages(r) => n \in Messages(q) \/ n = "progress"
             /\ n \in Messages(q) => n \in Messages(r)
  BY <1>3, <1>4 DEF Messages
<1>8. Follows(q, r, "progress", x)
  BY <1>4, <1>7, SameAttempts DEF Follows, Waits, Fits, Tried
<1> QED
  BY <1>1, <1>4, <1>6, <1>8

LEMMA ResponseChange ==
  ASSUME NEW d, Good(d), NEW h \in DOMAIN d.handoff, NEW status \in Statuses,
         MessageDelivered(d.handoff[h], "root"), d.handoff[h].response = None,
         NEW e, e = RecordResponse(d, h, status), NEW x, x \notin KindSet
  PROVE  /\ Changes(d, e, h) /\ Follows(d.handoff[h], e.handoff[h], "response", x)
         /\ e.handoff[h].attempts = d.handoff[h].attempts
<1>1. PICK q : q = d.handoff[h]
  OBVIOUS
<1>2. d \in Databases /\ q \in HandoffRecord
  BY <1>1, DatabaseTypes DEF Good
<1>3. PICK r : r = [q EXCEPT !.response = status, !.deadline = NoDeadline]
  OBVIOUS
<1>4. /\ r \in HandoffRecord /\ r.root = q.root /\ r.source = q.source /\ r.attempts = q.attempts
      /\ r.response = status /\ r.termination = q.termination /\ (r.progress <=> q.progress)
  BY <1>2, <1>3 DEF HandoffRecord
<1>5. e = [d EXCEPT !.handoff = [d.handoff EXCEPT ![h] = r]]
  BY <1>1, <1>2, <1>3, DatabaseTypes DEF RecordResponse
<1>6. Changes(d, e, h) /\ e.handoff[h] = r
  BY <1>2, <1>4, <1>5, HandoffChanged DEF Changes
<1>7. status # None /\ q.response = None
  BY <1>1 DEF Statuses, None
<1>8. \A n : /\ n \in Messages(r) => n \in Messages(q) \/ n = "response"
             /\ n \in Messages(q) => n \in Messages(r)
  BY <1>4, <1>7 DEF Messages
<1>9. DeliveryTerminal(q, "root")
  BY <1>1, DeliveredIsTerminal
<1>10. Follows(q, r, "response", x)
  BY <1>4, <1>8, <1>9, SameAttempts DEF Follows, Waits, Fits, Tried
<1> QED
  BY <1>1, <1>4, <1>6, <1>10

LEMMA TerminateChange ==
  ASSUME NEW d, Good(d), NEW h \in DOMAIN d.handoff, NEW reason \in Terminations \ {None},
         d.handoff[h].termination = None, NEW e, e = Terminate(d, h, reason), NEW m,
         reason # "timeout" => m = "cancel"
  PROVE  /\ Changes(d, e, h) /\ Follows(d.handoff[h], e.handoff[h], m, "root")
         /\ e.handoff[h].attempts = d.handoff[h].attempts
<1>1. PICK q : q = d.handoff[h]
  OBVIOUS
<1>2. d \in Databases /\ q \in HandoffRecord
  BY <1>1, DatabaseTypes DEF Good
<1>3. PICK r : r = [q EXCEPT !.termination = reason, !.deadline = NoDeadline]
  OBVIOUS
<1>4. /\ r \in HandoffRecord /\ r.root = q.root /\ r.source = q.source /\ r.attempts = q.attempts
      /\ r.response = q.response /\ r.termination = reason /\ (r.progress <=> q.progress)
  BY <1>2, <1>3 DEF HandoffRecord
<1>5. e = [d EXCEPT !.handoff = [d.handoff EXCEPT ![h] = r]]
  BY <1>1, <1>2, <1>3, DatabaseTypes DEF Terminate
<1>6. Changes(d, e, h) /\ e.handoff[h] = r
  BY <1>2, <1>4, <1>5, HandoffChanged DEF Changes
<1>7. q.termination = None /\ reason # None /\ (reason \in {"agent", "user"} => m = "cancel")
  BY <1>1
<1>8. \A n : /\ n \in Messages(r) => n \in Messages(q) \/ n = m
             /\ n \in Messages(q) => n \in Messages(r)
  BY <1>4, <1>7 DEF Messages, None
<1>9. Follows(q, r, m, "root")
  BY <1>4, <1>7, <1>8, SameAttempts DEF Follows, Waits, Fits, Tried
<1> QED
  BY <1>1, <1>4, <1>6, <1>9

LEMMA SameFollows ==
  ASSUME NEW q, NEW m, NEW x, x \notin KindSet \/ (x = "root" /\ q.termination # None)
  PROVE  Follows(q, q, m, x)
  BY DEF Follows, Waits, KindSet

LEMMA BeginChange ==
  ASSUME NEW d, Good(d), NEW h \in DOMAIN d.handoff, NEW m \in KindSet, MayBegin(d.handoff[h], m),
         NEW e, e = BeginAttempt(d, h, m), NEW x, x \notin KindSet, NEW n
  PROVE  /\ Changes(d, e, h) /\ Follows(d.handoff[h], e.handoff[h], n, x)
         /\ e.handoff[h].attempts # <<>>
<1>1. PICK q : q = d.handoff[h]
  OBVIOUS
<1>2. d \in Databases /\ q \in HandoffRecord
  BY <1>1, DatabaseTypes DEF Good
<1>3. PICK a : a = [msg |-> m, outcome |-> "started"]
  OBVIOUS
<1>4. a \in Attempts /\ a.outcome = "started"
  BY <1>3 DEF Attempts, Outcomes
<1>5. q.attempts \in Seq(Attempts) /\ DOMAIN q.attempts = 1..Len(q.attempts) /\ Len(q.attempts) \in Nat
  BY <1>2, RecordTypes
<1>6. PICK s : s = Append(q.attempts, a)
  OBVIOUS
<1>7. /\ s \in Seq(Attempts) /\ Len(s) = Len(q.attempts) + 1
      /\ \A i \in 1..Len(q.attempts) : s[i] = q.attempts[i]
      /\ s[Len(q.attempts) + 1] = a
  BY <1>4, <1>5, <1>6, AppendProperties
<1>8. DOMAIN s = DOMAIN q.attempts \cup {Len(q.attempts) + 1} /\ s # <<>>
  <2>1. DOMAIN s = 1..(Len(q.attempts) + 1)
    BY <1>7
  <2> QED
    BY <1>5, <1>7, <2>1
<1>9. PICK r : r = [q EXCEPT !.attempts = s]
  OBVIOUS
<1>10. /\ r \in HandoffRecord /\ r.root = q.root /\ r.source = q.source /\ r.attempts = s
       /\ r.response = q.response /\ r.termination = q.termination /\ (r.progress <=> q.progress)
  BY <1>2, <1>7, <1>9, AttemptsChanged
<1>11. e = [d EXCEPT !.handoff = [d.handoff EXCEPT ![h] = r]]
  BY <1>1, <1>2, <1>3, <1>6, <1>9, DatabaseTypes DEF BeginAttempt
<1>12. Changes(d, e, h) /\ e.handoff[h] = r
  BY <1>2, <1>10, <1>11, HandoffChanged DEF Changes
<1>13. Messages(r) = Messages(q)
  BY <1>10 DEF Messages
<1>14. \A k : DeliveryTerminal(r, k) <=> DeliveryTerminal(q, k)
  <2>1. \A i \in DOMAIN q.attempts : s[i] = q.attempts[i]
    BY <1>5, <1>7
  <2> QED
    BY <1>4, <1>7, <1>8, <1>10, <2>1 DEF DeliveryTerminal
<1>15. Follows(q, r, n, x)
  BY <1>8, <1>10, <1>13, <1>14 DEF Follows, Waits, Fits, Tried
<1> QED
  BY <1>1, <1>8, <1>10, <1>12, <1>15

\* The open attempt was for m: a retry is still to come, any other outcome
\* settles the message.
LEMMA FinishChange ==
  ASSUME NEW d, Good(d), NEW h \in DOMAIN d.handoff, NEW m,
         NEW outcome \in {"delivered", "retryable", "exhausted"},
         \E i \in DOMAIN d.handoff[h].attempts : d.handoff[h].attempts[i] = [msg |-> m, outcome |-> "started"],
         NEW e, e = FinishAttempt(d, h, outcome),
         NEW x, x = (IF outcome = "retryable" THEN None ELSE m), NEW n
  PROVE  /\ Changes(d, e, h) /\ Follows(d.handoff[h], e.handoff[h], n, x)
         /\ e.handoff[h].attempts # <<>> /\ ~Attempting(e.handoff[h])
<1>1. PICK q : q = d.handoff[h]
  OBVIOUS
<1>2. d \in Databases /\ q \in HandoffRecord /\ RecordSound(q)
  BY <1>1, DatabaseTypes DEF Good, Named
<1>3. PICK r : r = Finished(q, outcome)
  OBVIOUS
<1>4. /\ r \in HandoffRecord /\ r.root = q.root
      /\ r.response = q.response /\ r.termination = q.termination /\ (r.progress <=> q.progress)
      /\ DOMAIN r.attempts = DOMAIN q.attempts
      /\ \A i \in DOMAIN q.attempts :
           /\ r.attempts[i] \in Attempts /\ r.attempts[i].msg = q.attempts[i].msg
           /\ q.attempts[i].outcome = "started" => r.attempts[i].outcome = outcome
           /\ q.attempts[i].outcome # "started" => r.attempts[i] = q.attempts[i]
  BY <1>2, <1>3, FinishedFacts
<1>5. r.source = q.source
  BY <1>2, <1>3 DEF Finished, HandoffRecord
<1>6. e = [d EXCEPT !.handoff = [d.handoff EXCEPT ![h] = r]]
  BY <1>1, <1>2, <1>3, DatabaseTypes DEF FinishAttempt, Finished
<1>7. Changes(d, e, h) /\ e.handoff[h] = r
  BY <1>2, <1>4, <1>6, HandoffChanged DEF Changes
<1>8. PICK i \in DOMAIN q.attempts : q.attempts[i].msg = m /\ q.attempts[i].outcome = "started"
  BY <1>1
<1>9. \A j \in DOMAIN q.attempts : q.attempts[j].outcome = "started" => j = i
  BY <1>2, <1>8 DEF RecordSound
<1>10. r.attempts # <<>> /\ q.attempts # <<>>
  BY <1>4, <1>8
<1>11. ~Attempting(r)
  BY <1>4 DEF Attempting
<1>12. Messages(r) = Messages(q)
  BY <1>4 DEF Messages
<1>13. \A k : DeliveryTerminal(r, k) <=> DeliveryTerminal(q, k) \/ (outcome # "retryable" /\ k = m)
  <2>1. \A k : DeliveryTerminal(q, k) => DeliveryTerminal(r, k)
    BY <1>4 DEF DeliveryTerminal
  <2>2. outcome # "retryable" => DeliveryTerminal(r, m)
    BY <1>4, <1>8 DEF DeliveryTerminal
  <2>3. ASSUME NEW k, DeliveryTerminal(r, k), ~DeliveryTerminal(q, k)
        PROVE  outcome # "retryable" /\ k = m
    <3>1. PICK j \in DOMAIN q.attempts : r.attempts[j].msg = k /\ r.attempts[j].outcome \in {"delivered", "exhausted"}
      BY <1>4, <2>3 DEF DeliveryTerminal
    <3>2. q.attempts[j].outcome = "started"
      BY <1>4, <2>3, <3>1 DEF DeliveryTerminal
    <3> QED
      BY <1>4, <1>8, <1>9, <3>1, <3>2
  <2> QED
    BY <2>1, <2>2, <2>3
<1>14. \A k \in KindSet : k # None
  BY DEF KindSet, None
<1>15. Follows(q, r, n, x)
  BY <1>4, <1>5, <1>10, <1>12, <1>13, <1>14 DEF Follows, Waits, Fits, Tried
<1> QED
  BY <1>1, <1>7, <1>10, <1>11, <1>15

-----------------------------------------------------------------------------
(* The mailboxes serve the database *)

\* Every message that must reach an agent waits in a mailbox.
Kept(d, b) ==
  \A h \in DOMAIN d.handoff, m \in KindSet :
    Waits(d.handoff[h], m) => Pending(b, h, m) \/ Tried(d.handoff[h])

\* Every message that waits can still be delivered.
Fitting(d, b) == \A h, m : Pending(b, h, m) => h \in DOMAIN d.handoff /\ m \in KindSet /\ Fits(d.handoff[h], m)

\* No window is closed, and no task is resumed.
Opened == Archivable = {}
Unresumed == Archivable = {} /\ "resume" \notin UserActions

Serves(d, b) ==
  /\ Queues(b) /\ Once(b) /\ Fitting(d, b)
  /\ Opened => Kept(d, b)
  /\ Unresumed => PromptsOrdered(b)

\* A new conversation.
Fresh(r, m) == \A n \in KindSet : Waits(r, n) => n = m

\* Without the message x of the conversation h.
Without(b, c, h, x) ==
  /\ Queues(c) /\ Thins(b, c)
  /\ \A g, n : Pending(c, g, n) <=> Pending(b, g, n) /\ ~(g = h /\ n = x)

LEMMA EnqueueNone ==
  ASSUME NEW b, NEW d, NEW h, NEW m, m \notin KindSet
  PROVE  Enqueue(b, d, h, m) = b
<1>1. ~Enqueueable(d, h, m)
  BY DEF Enqueueable, Messages, KindSet
<1> QED
  BY <1>1 DEF Enqueue

LEMMA EnqueueKeeps ==
  ASSUME NEW b, NEW d \in Databases, NEW h \in DOMAIN d.handoff, NEW m \in KindSet, archived = {},
         Waits(d.handoff[h], m), ~Pending(b, h, m)
  PROVE  Adds(b, d, h, m)
<1>1. PICK r : r = d.handoff[h]
  OBVIOUS
<1>2. r.recipient \in Agents /\ r.source \in Agents \cup {Routine}
  BY <1>1, DatabaseTypes DEF HandoffRecord
<1>3. Addressee(r, m) \in Agents
  BY <1>1, <1>2 DEF Addressee, KindSet, Waits
<1> QED
  BY <1>1, <1>3 DEF Adds, Enqueueable, Waits

LEMMA AddsFits ==
  ASSUME NEW b, NEW d, Good(d), NEW h \in DOMAIN d.handoff, NEW m \in KindSet, Adds(b, d, h, m)
  PROVE  Fits(d.handoff[h], m)
<1>1. RecordSound(d.handoff[h])
  BY DEF Good, Named
<1> QED
  BY <1>1, DeliveredIsTerminal DEF Adds, Enqueueable, Fits, RecordSound

\* One conversation changes or begins, its message x leaves the mailboxes
\* and its message m is enqueued.
LEMMA MailStep ==
  ASSUME NEW d, Good(d), NEW e, Good(e), NEW b, Serves(d, b), Opened => archived = {},
         NEW h \in DOMAIN e.handoff, NEW x, NEW m, NEW k, Without(b, k, h, x),
         NEW c, c = Enqueue(k, e, h, m),
         \/ h \in DOMAIN d.handoff /\ Changes(d, e, h) /\ Follows(d.handoff[h], e.handoff[h], m, x)
         \/ /\ h \notin DOMAIN d.handoff /\ DOMAIN e.handoff = DOMAIN d.handoff \cup {h}
            /\ \A g \in DOMAIN d.handoff : e.handoff[g] = d.handoff[g]
            /\ Fresh(e.handoff[h], m),
         m = "root" /\ h \in DOMAIN d.handoff /\ Unresumed =>
           k = b /\ e.handoff = d.handoff /\ d.handoff[h].source # Routine
  PROVE  Serves(e, c)
<1>1. d \in Databases /\ e \in Databases
  BY DEF Good
<1>2. Queues(b) /\ Queues(k) /\ Thins(b, k)
  BY DEF Serves, Without
<1>3. Once(k) /\ (Unresumed => PromptsOrdered(k))
  BY <1>2, ThinsFacts DEF Serves
<1>4. /\ Queues(c) /\ Once(c)
      /\ \A g, n : Pending(c, g, n) => Pending(k, g, n) \/ (g = h /\ n = m /\ m \in KindSet /\ Adds(k, e, h, m))
      /\ \A g, n : Pending(k, g, n) => Pending(c, g, n)
      /\ m \in KindSet /\ Adds(k, e, h, m) => Pending(c, h, m)
  <2>1. CASE m \in KindSet
    BY <1>1, <1>2, <1>3, <2>1, EnqueueFacts
  <2>2. CASE m \notin KindSet
    BY <1>2, <1>3, <2>2, EnqueueNone
  <2> QED
    BY <2>1, <2>2
<1>5. \A g \in DOMAIN e.handoff : g # h => g \in DOMAIN d.handoff /\ e.handoff[g] = d.handoff[g]
  BY DEF Changes
<1>6. Fitting(e, c)
  <2> SUFFICES ASSUME NEW g, NEW n, Pending(c, g, n)
               PROVE  g \in DOMAIN e.handoff /\ n \in KindSet /\ Fits(e.handoff[g], n)
    BY DEF Fitting
  <2>1. CASE g = h /\ n = m /\ m \in KindSet /\ Adds(k, e, h, m)
    BY <2>1, AddsFits
  <2>2. CASE Pending(k, g, n)
    <3>1. Pending(b, g, n) /\ ~(g = h /\ n = x)
      BY <2>2 DEF Without
    <3>2. g \in DOMAIN d.handoff /\ n \in KindSet /\ Fits(d.handoff[g], n)
      BY <3>1 DEF Serves, Fitting
    <3>3. CASE g = h
      BY <3>1, <3>2, <3>3 DEF Follows
    <3>4. CASE g # h
      <4>1. g \in DOMAIN e.handoff /\ e.handoff[g] = d.handoff[g]
        BY <3>2, <3>4 DEF Changes
      <4> QED
        BY <3>2, <4>1
    <3> QED
      BY <3>3, <3>4
  <2> QED
    BY <1>4, <2>1, <2>2
<1>8. ASSUME Opened
      PROVE  Kept(e, c)
  <2> SUFFICES ASSUME NEW g \in DOMAIN e.handoff, NEW n \in KindSet, Waits(e.handoff[g], n),
                      ~Pending(c, g, n)
               PROVE  Tried(e.handoff[g])
    BY DEF Kept
  <2>0. ~Pending(k, g, n)
    BY <1>4
  <2>1. ~(g = h /\ n = m)
    BY <1>1, <1>4, <1>8, <2>0, EnqueueKeeps
  <2>2. CASE g # h
    <3>1. g \in DOMAIN d.handoff /\ e.handoff[g] = d.handoff[g]
      BY <1>5, <2>2
    <3>2. ~Pending(b, g, n)
      BY <2>0, <2>2 DEF Without
    <3> QED
      BY <1>8, <3>1, <3>2 DEF Serves, Kept
  <2>3. CASE g = h
    <3>1. h \in DOMAIN d.handoff /\ Waits(d.handoff[h], n) /\ n # x /\ (Tried(d.handoff[h]) => Tried(e.handoff[h]))
      BY <2>1, <2>3 DEF Fresh, Follows
    <3>2. ~Pending(b, g, n)
      BY <2>0, <3>1 DEF Without
    <3> QED
      BY <1>8, <2>3, <3>1, <3>2 DEF Serves, Kept
  <2> QED
    BY <2>2, <2>3
<1>9. ASSUME Unresumed
      PROVE  PromptsOrdered(c)
  <2>1. CASE m \notin KindSet
    BY <1>3, <1>9, <2>1, EnqueueNone
  <2>2. CASE m \in KindSet
    <3>1. ASSUME Adds(k, e, h, m), m = "root"
          PROVE  \A g : Pending(k, g, "root") => g < h
      <4>1. h \notin DOMAIN d.handoff
        <5> SUFFICES ASSUME h \in DOMAIN d.handoff PROVE FALSE
          OBVIOUS
        <5>1. k = b /\ e.handoff = d.handoff /\ d.handoff[h].source # Routine
          BY <1>9, <3>1
        <5>2. Waits(d.handoff[h], "root") /\ ~Pending(b, h, "root")
          BY <3>1, <5>1, DeliveredIsTerminal DEF Adds, Enqueueable, Waits
        <5>3. Opened
          BY <1>9 DEF Opened, Unresumed
        <5> QED
          BY <5>1, <5>2, <5>3 DEF Serves, Kept, Tried, KindSet
      <4>2. \A g \in DOMAIN d.handoff : g < h
        <5>1. /\ DOMAIN d.handoff = 1..Len(d.handoff) /\ DOMAIN e.handoff = 1..Len(e.handoff)
              /\ Len(d.handoff) \in Nat /\ Len(e.handoff) \in Nat
          BY <1>1, DatabaseTypes
        <5>2. h \in Nat /\ h > Len(d.handoff)
          BY <4>1, <5>1
        <5> QED
          BY <5>1, <5>2
      <4>3. \A g : Pending(k, g, "root") => g \in DOMAIN d.handoff
        BY DEF Without, Serves, Fitting
      <4> QED
        BY <4>2, <4>3
    <3> QED
      BY <1>1, <1>2, <1>3, <1>9, <2>2, <3>1, EnqueueFacts
  <2> QED
    BY <2>1, <2>2
<1> QED
  BY <1>4, <1>6, <1>8, <1>9 DEF Serves

\* No attempt begins or ends.
Calm(d, e) ==
  \A h \in DOMAIN e.handoff :
    IF h \in DOMAIN d.handoff THEN e.handoff[h].attempts = d.handoff[h].attempts
                              ELSE e.handoff[h].attempts = <<>>

Final(d, w) == IF w = <<>> THEN d ELSE w[Len(w)]

\* What the handlers are given.
Given == Good(db) /\ Serves(db, boxes) /\ (Opened => archived = {})

LEMMA FinalAfter ==
  ASSUME NEW d, Good(d), NEW w \in Seq(After(d))
  PROVE  Final(d, w) \in After(d) /\ Good(Final(d, w))
<1>1. Len(w) \in Nat /\ (w # <<>> => Len(w) \in 1..Len(w)) /\ \A i \in 1..Len(w) : w[i] \in After(d)
  OBVIOUS
<1>2. Final(d, w) \in After(d)
  BY <1>1, AfterSelf DEF Final
<1> QED
  BY <1>2 DEF After

LEMMA Joined ==
  ASSUME NEW S, NEW q \in Seq(S), NEW r \in Seq(S), NEW w, w = q \o r
  PROVE  /\ w \in Seq(S) /\ Len(w) = Len(q) + Len(r)
         /\ \A i \in 1..Len(w) : w[i] = IF i <= Len(q) THEN q[i] ELSE r[i - Len(q)]
<1>1. w \in Seq(S) /\ Len(w) = Len(q) + Len(r)
  BY ConcatProperties
<1>2. \A i \in 1..Len(w) : w[i] = IF i <= Len(q) THEN q[i] ELSE r[i - Len(q)]
  BY <1>1
<1> QED
  BY <1>1, <1>2

LEMMA FinalTask ==
  ASSUME NEW d, Good(d), NEW t \in DOMAIN d.task, NEW S \in SUBSET TaskStates, NEW path \in Seq(S),
         NEW c, NEW first, (first = <<>> /\ c = d) \/ first = <<d>>
  PROVE  Final(c, first \o TaskWrites(d, t, path)).handoff = d.handoff
<1>1. PICK rest : rest = TaskWrites(d, t, path)
  OBVIOUS
<1>2. Len(path) \in Nat /\ rest = [i \in 1..Len(path) |-> SetTask(d, t, path[i])]
  BY <1>1 DEF TaskWrites
<1>3. \A i \in 1..Len(path) : SetTask(d, t, path[i]) \in Databases /\ SetTask(d, t, path[i]).handoff = d.handoff
  <2>1. \A i \in 1..Len(path) : path[i] \in TaskStates
    OBVIOUS
  <2> QED
    BY <2>1, TaskChanged DEF Good
<1>4. rest \in Seq(Databases) /\ Len(rest) = Len(path)
  <2>1. rest \in [1..Len(path) -> Databases]
    BY <1>2, <1>3
  <2> QED
    BY <1>2, <2>1, FunctionIsSeq
<1>5. first \in Seq(Databases)
  <2>1. <<d>> \in Seq(Databases) /\ <<>> \in Seq(Databases)
    BY DEF Good
  <2> QED
    BY <2>1
<1>6. PICK w : w = first \o rest
  OBVIOUS
<1>7. /\ w \in Seq(Databases) /\ Len(w) = Len(first) + Len(rest)
      /\ \A i \in 1..Len(w) : w[i] = IF i <= Len(first) THEN first[i] ELSE rest[i - Len(first)]
  <2>1. PICK D : D = Databases
    OBVIOUS
  <2>2. first \in Seq(D) /\ rest \in Seq(D)
    BY <1>4, <1>5, <2>1
  <2>3. /\ w \in Seq(D) /\ Len(w) = Len(first) + Len(rest)
        /\ \A i \in 1..Len(w) : w[i] = IF i <= Len(first) THEN first[i] ELSE rest[i - Len(first)]
    BY <1>6, <2>2, Joined
  <2> QED
    BY <2>1, <2>3
<1>8. Len(first) \in {0, 1} /\ (first = <<>> <=> Len(first) = 0) /\ (first # <<>> => first[1] = d)
  OBVIOUS
<1>9. CASE Len(path) = 0
  <2>1. CASE first = <<>>
    <3>1. w = <<>>
      BY <1>4, <1>7, <1>8, <1>9, <2>1
    <3> QED
      BY <1>1, <1>6, <2>1, <3>1 DEF Final
  <2>2. CASE first = <<d>>
    <3>1. Len(w) = 1 /\ w[1] = d /\ w # <<>>
      BY <1>4, <1>7, <1>8, <1>9, <2>2
    <3> QED
      BY <1>1, <1>6, <3>1 DEF Final
  <2> QED
    BY <2>1, <2>2
<1>10. CASE Len(path) # 0
  <2>1. Len(w) \in 1..Len(w) /\ Len(w) - Len(first) = Len(path) /\ Len(w) > Len(first) /\ w # <<>>
    BY <1>2, <1>4, <1>7, <1>8, <1>10
  <2>2. w[Len(w)] = rest[Len(path)]
    BY <1>7, <1>8, <2>1
  <2>3. rest[Len(path)].handoff = d.handoff
    BY <1>2, <1>3, <1>10
  <2> QED
    BY <1>1, <1>6, <2>1, <2>2, <2>3 DEF Final
<1> QED
  BY <1>9, <1>10

\* Nothing leaves the mailboxes.
LEMMA WithoutNothing ==
  ASSUME NEW d, NEW b, Serves(d, b), NEW h, NEW x, x \notin KindSet
  PROVE  Without(b, b, h, x)
<1>1. Queues(b) /\ \A g, n : Pending(b, g, n) => n \in KindSet
  BY DEF Serves, Fitting
<1>2. Thins(b, b)
  BY <1>1, WaitFacts DEF Same
<1> QED
  BY <1>1, <1>2 DEF Without

LEMMA WithoutRoot ==
  ASSUME NEW d, NEW b, Serves(d, b), NEW h
  PROVE  Without(b, RemovePending(b, h), h, "root")
  BY RemoveFacts DEF Serves, Without

LEMMA FollowsNone ==
  ASSUME NEW q, NEW r, NEW m, NEW x, Follows(q, r, m, x), ~Waits(r, m), NEW n
  PROVE  Follows(q, r, n, x)
  BY DEF Follows

\* A conversation begins and its prompt is enqueued.
LEMMA NewServes ==
  ASSUME Given, NEW e, Good(e), NEW root, NEW source, NEW recipient, NEW task, NEW deadline,
         NEW r, r = Tracked(root, source, recipient, task, deadline), r \in HandoffRecord,
         e.handoff = AddHandoff(db, r).handoff, NEW h, h = Len(db.handoff) + 1
  PROVE  Serves(e, Enqueue(boxes, e, h, "root")) /\ Calm(db, e)
<1>1. db \in Databases
  BY DEF Given, Good
<1>2. /\ DOMAIN e.handoff = DOMAIN db.handoff \cup {h} /\ h \notin DOMAIN db.handoff
      /\ e.handoff[h] = r /\ \A g \in DOMAIN db.handoff : e.handoff[g] = db.handoff[g]
  BY <1>1, HandoffAdded
<1>3. /\ r.root = root /\ r.source = source /\ r.attempts = <<>> /\ ~r.progress /\ r.response = None
      /\ r.termination = None
  BY DEF Tracked
<1>4. Fresh(r, "root")
  BY <1>3 DEF Fresh, Waits, Messages, None
<1>5. Without(boxes, boxes, h, None)
  BY WithoutNothing DEF Given, KindSet, None
<1>6. Serves(e, Enqueue(boxes, e, h, "root"))
  BY <1>2, <1>4, <1>5, MailStep DEF Given
<1> QED
  BY <1>2, <1>3, <1>6 DEF Calm

\* What a handler commits and enqueues keeps the mailboxes as they should be.
Settles(result) ==
  LET e == Final(db, result.writes)
      k == IF result.drop THEN RemovePending(boxes, result.h) ELSE boxes
  IN  Serves(e, Enqueue(k, e, result.h, result.msg)) /\ Calm(db, e)

LEMMA SettlesNothing ==
  ASSUME Given
  PROVE  Settles(Rejected(<<>>))
<1>1. None \notin KindSet
  BY DEF None, KindSet
<1>2. Calm(db, db)
  BY DEF Calm
<1> QED
  BY <1>1, <1>2, EnqueueNone DEF Given, Settles, Rejected, Result, Final

LEMMA SettlesChange ==
  ASSUME Given, NEW w, NEW e, e = Final(db, w), Good(e), NEW h \in DOMAIN db.handoff, NEW m, NEW x,
         Changes(db, e, h), Follows(db.handoff[h], e.handoff[h], m, x),
         e.handoff[h].attempts = db.handoff[h].attempts,
         NEW drop \in BOOLEAN, IF drop THEN x = "root" ELSE x \notin KindSet,
         m = "root" /\ Unresumed => ~drop /\ e.handoff = db.handoff /\ db.handoff[h].source # Routine
  PROVE  Settles(Result(w, h, m, drop))
<1>1. PICK k : k = IF drop THEN RemovePending(boxes, h) ELSE boxes
  OBVIOUS
<1>2. Without(boxes, k, h, x)
  BY <1>1, WithoutRoot, WithoutNothing DEF Given
<1>3. h \in DOMAIN e.handoff
  BY DEF Changes
<1>4. Serves(e, Enqueue(k, e, h, m))
  BY <1>1, <1>2, <1>3, MailStep DEF Given
<1>5. Calm(db, e)
  BY DEF Calm, Changes
<1> QED
  BY <1>1, <1>4, <1>5 DEF Settles, Result

LEMMA HandoffSettles ==
  ASSUME Given, NEW s \in Sends, From[s] # Routine
  PROVE  Settles(AcceptHandoff(s))
<1>0. Good(db) /\ None \notin KindSet
  BY DEF Given, None, KindSet
<1>1. CASE Find(s) # {}
  <2>1. PICK h : h = CHOOSE x \in Find(s) : TRUE
    OBVIOUS
  <2>2. AcceptHandoff(s) = Result(<<>>, h, "root", FALSE)
    BY <1>1, <2>1 DEF AcceptHandoff
  <2>3. h \in DOMAIN db.handoff /\ db.handoff[h].root = s
    BY <1>0, <1>1, <2>1, FindFacts
  <2>4. db.handoff[h].source # Routine
    BY <1>0, <2>3 DEF Good, Named, RecordSound
  <2>5. Changes(db, db, h) /\ Follows(db.handoff[h], db.handoff[h], "root", None) /\ db = Final(db, <<>>)
    BY <1>0, SameFollows DEF Changes, Final
  <2> QED
    BY <1>0, <2>2, <2>3, <2>4, <2>5, SettlesChange
<1>2. CASE Find(s) = {} /\ To[s] \in archived
  <2>1. AcceptHandoff(s) = Rejected(<<>>)
    BY <1>2 DEF AcceptHandoff
  <2> QED
    BY <2>1, SettlesNothing
<1>3. CASE Find(s) = {} /\ To[s] \notin archived
  <2>1. PICK task : task = IF IsTask[s] THEN Len(db.task) + 1 ELSE 0
    OBVIOUS
  <2>2. PICK r : r = NewHandoff(s, task)
    OBVIOUS
  <2>3. PICK e : e = IF IsTask[s] THEN AddTaskHandoff(db, r) ELSE AddHandoff(db, r)
    OBVIOUS
  <2>4. PICK h : h = Len(db.handoff) + 1
    OBVIOUS
  <2>5. AcceptHandoff(s) = Result(<<e>>, h, "root", FALSE)
    BY <1>3, <2>1, <2>2, <2>3, <2>4 DEF AcceptHandoff
  <2>6. e = Final(db, <<e>>) /\ Good(e)
    <3>1. <<e>> \in Seq(After(db))
      BY <1>0, <2>5, AcceptHandoffAfter DEF Result
    <3>2. Final(db, <<e>>) = e
      BY DEF Final
    <3> QED
      BY <1>0, <3>1, <3>2, FinalAfter
  <2>7. e.handoff = AddHandoff(db, r).handoff
    BY <1>0, <2>3 DEF AddTaskHandoff, AddHandoff, Good, Databases
  <2>8. r = Tracked(s, From[s], To[s], task, Timeout[s]) /\ r \in HandoffRecord
    <3>1. task \in Nat
      BY <1>0, <2>1, DatabaseTypes DEF Good
    <3>2. r = Tracked(s, From[s], To[s], task, Timeout[s])
      BY <2>2 DEF NewHandoff
    <3> QED
      <4>1. PICK source : source = From[s]
        OBVIOUS
      <4>2. r = Tracked(s, source, To[s], task, Timeout[s])
        BY <3>2, <4>1
      <4> QED
        BY <3>1, <3>2, <4>1, <4>2, SendFacts, TrackedFacts
  <2>9. Serves(e, Enqueue(boxes, e, h, "root")) /\ Calm(db, e)
    BY <2>4, <2>6, <2>7, <2>8, NewServes
  <2> QED
    BY <2>5, <2>6, <2>9 DEF Settles, Result
<1> QED
  BY <1>1, <1>2, <1>3

\* The task of a conversation that goes on is open.
LEMMA ActiveTaskOpen ==
  ASSUME Good(db), NEW h \in DOMAIN db.handoff, Active(db.handoff[h]), MessageDelivered(db.handoff[h], "root"),
         db.handoff[h].task # 0
  PROVE  db.task[db.handoff[h].task] \in Open
<1>1. PICK t : t = db.handoff[h].task
  OBVIOUS
<1>2. t \in DOMAIN db.task
  <2>1. t \in 0..Len(db.task) /\ DOMAIN db.task = 1..Len(db.task) /\ Len(db.task) \in Nat
    BY <1>1, DatabaseTypes DEF Good, Named
  <2> QED
    BY <1>1, <2>1
<1>3. PICK k \in DOMAIN db.handoff : Last(db, t, k)
  BY <1>2 DEF Good, LastExists
<1>4. k = h
  BY <1>1, <1>3, ActiveIsLast
<1>5. Reason(db, t, h, db.task[t])
  BY <1>2, <1>3, <1>4 DEF Good, Reasoned
<1>6. RecordSound(db.handoff[h])
  BY DEF Good, Named
<1>7. /\ db.handoff[h].response = "none" /\ db.handoff[h].termination = "none"
      /\ ~Exhausted(db.handoff[h])
  BY <1>6 DEF Active, None, RecordSound
<1>8. db.task[t] \notin {"completed", "failed", "cancelled"}
  BY <1>5, <1>7 DEF Reason, None
<1> QED
  BY <1>1, <1>2, <1>8, DatabaseTypes DEF Good, TaskStates

LEMMA ReportSettles ==
  ASSUME Given, NEW s \in Sends, NEW m, NEW recorded \in BOOLEAN, NEW record, NEW legal \in BOOLEAN,
         m \in {"progress", "response"},
         NEW S \in SUBSET TaskStates, NEW path \in Seq(S), NEW h, h = CHOOSE x \in Find(s) : TRUE,
         NEW result, result = AcceptReport(s, m, recorded, record, legal, path),
         result.writes \in Seq(After(db)),
         Find(s) # {} /\ ~recorded /\ Active(db.handoff[h]) /\ MessageDelivered(db.handoff[h], "root") =>
            /\ Good(record) /\ record.task = db.task /\ (db.handoff[h].task # 0 => legal)
            /\ Changes(db, record, h) /\ Follows(db.handoff[h], record.handoff[h], m, None)
            /\ record.handoff[h].attempts = db.handoff[h].attempts
  PROVE  Settles(result)
<1>a. PICK r : r = db.handoff[h]
  OBVIOUS
<1>b. PICK t : t = r.task
  OBVIOUS
<1>c. PICK after : after = IF recorded THEN db ELSE record
  OBVIOUS
<1>d. PICK first : first = IF recorded THEN <<>> ELSE <<record>>
  OBVIOUS
<1>0. Good(db) /\ None \notin KindSet /\ m \notin {None, "root"}
  BY DEF Given, None, KindSet
<1>1. CASE Find(s) = {} \/ (~recorded /\ ~(Active(r) /\ MessageDelivered(r, "root")))
  <2>1. result = Rejected(<<>>)
    BY <1>1, <1>a DEF AcceptReport
  <2> QED
    BY <2>1, SettlesNothing
<1>2. CASE Find(s) # {} /\ (recorded \/ (Active(r) /\ MessageDelivered(r, "root")))
  <2>1. h \in DOMAIN db.handoff /\ (t # 0 => t \in DOMAIN db.task)
    BY <1>a, <1>b, <1>0, <1>2, FindFacts
  <2>2. /\ Good(after) /\ after.task = db.task /\ Changes(db, after, h)
        /\ Follows(r, after.handoff[h], m, None) /\ after.handoff[h].attempts = r.attempts
    <3>1. CASE recorded
      BY <1>0, <1>a, <1>c, <3>1, SameFollows DEF Changes
    <3>2. CASE ~recorded
      BY <1>2, <1>a, <1>c, <3>2
    <3> QED
      BY <3>1, <3>2
  <2>3. CASE t # 0 /\ ~legal
    <3>1. recorded
      BY <1>2, <1>a, <1>b, <2>3
    <3>2. result = Rejected(<<>>)
      BY <1>2, <1>a, <1>b, <2>3, <3>1 DEF AcceptReport
    <3> QED
      BY <3>2, SettlesNothing
  <2>4. CASE t = 0 \/ legal
    <3>0. PICK rest : rest = IF t = 0 THEN <<>> ELSE TaskWrites(after, t, path)
      OBVIOUS
    <3>1. PICK w : w = first \o rest
      OBVIOUS
    <3>2. PICK n : n = IF r.source = Routine THEN None ELSE m
      OBVIOUS
    <3>3. result = Result(w, h, n, FALSE)
      BY <1>2, <1>a, <1>b, <1>c, <1>d, <2>4, <3>0, <3>1, <3>2 DEF AcceptReport
    <3>4. PICK e : e = Final(db, w)
      OBVIOUS
    <3>5. Good(e)
      <4>1. w \in Seq(After(db))
        BY <3>3 DEF Result
      <4> QED
        BY <1>0, <3>4, <4>1, FinalAfter
    <3>6. e.handoff = after.handoff
      <4>1. CASE t = 0
        <5>1. CASE recorded
          <6>1. w = <<>>
            BY <1>d, <3>0, <3>1, <4>1, <5>1
          <6> QED
            BY <1>c, <3>4, <5>1, <6>1 DEF Final
        <5>2. CASE ~recorded
          <6>1. w = <<record>>
            BY <1>d, <3>0, <3>1, <4>1, <5>2
          <6> QED
            BY <1>c, <3>4, <5>2, <6>1 DEF Final
        <5> QED
          BY <5>1, <5>2
      <4>2. CASE t # 0
        <5>1. w = first \o TaskWrites(after, t, path)
          BY <3>0, <3>1, <4>2
        <5>2. (first = <<>> /\ db = after) \/ first = <<after>>
          BY <1>c, <1>d
        <5>3. t \in DOMAIN after.task
          BY <2>1, <2>2, <4>2
        <5>4. Good(after) /\ path \in Seq(S) /\ S \in SUBSET TaskStates
          BY <2>2
        <5>5. Final(db, first \o TaskWrites(after, t, path)).handoff = after.handoff
          BY <5>2, <5>3, <5>4, FinalTask
        <5> QED
          BY <3>4, <5>1, <5>5
      <4> QED
        BY <4>1, <4>2
    <3>7. Changes(db, e, h) /\ e.handoff[h].attempts = r.attempts /\ Follows(r, e.handoff[h], m, None)
      BY <2>2, <3>6 DEF Changes
    <3>8. Follows(r, e.handoff[h], n, None)
      <4>1. CASE r.source # Routine
        BY <3>2, <3>7, <4>1
      <4>2. CASE r.source = Routine
        <5>1. ~Waits(e.handoff[h], m)
          BY <3>7, <4>2 DEF Follows, Waits
        <5> QED
          BY <3>7, <5>1, FollowsNone
      <4> QED
        BY <4>1, <4>2
    <3>9. n # "root"
      BY <1>0, <3>2 DEF None
    <3> QED
      BY <1>0, <2>1, <3>3, <3>4, <3>5, <3>7, <3>8, <3>9, <1>a, SettlesChange
  <2> QED
    BY <2>3, <2>4
<1> QED
  BY <1>1, <1>2

LEMMA ProgressSettles ==
  ASSUME Given, NEW s \in Sends
  PROVE  Settles(AcceptProgress(s))
<1>0. Good(db) /\ None \notin KindSet
  BY DEF Given, None, KindSet
<1>1. PICK h : h = CHOOSE x \in Find(s) : TRUE
  OBVIOUS
<1>2. PICK recorded \in BOOLEAN : recorded <=> Find(s) # {} /\ db.handoff[h].progress
  OBVIOUS
<1>3. PICK legal \in BOOLEAN : legal <=> TaskOf(s) \in Open
  OBVIOUS
<1>4. PICK record : record = RecordProgress(db, h)
  OBVIOUS
<1>5. PICK path : path = ToRunning(TaskOf(s))
  OBVIOUS
<1>6. PICK S : S = {"delivered", "running"}
  OBVIOUS
<1>7. S \subseteq TaskStates /\ path \in Seq(S)
  BY <1>5, <1>6, Paths DEF TaskStates, Open, Statuses
<1>8. PICK result : result = AcceptProgress(s)
  OBVIOUS
<1>9. result = AcceptReport(s, "progress", recorded, record, legal, path)
  BY <1>1, <1>2, <1>3, <1>4, <1>5, <1>8 DEF AcceptProgress, AcceptReport
<1>10. result.writes \in Seq(After(db))
  BY <1>0, <1>8, AcceptProgressAfter
<1>11. ASSUME Find(s) # {}, Active(db.handoff[h]), MessageDelivered(db.handoff[h], "root")
       PROVE  /\ Good(record) /\ record.task = db.task /\ (db.handoff[h].task # 0 => legal)
              /\ Changes(db, record, h) /\ Follows(db.handoff[h], record.handoff[h], "progress", None)
              /\ record.handoff[h].attempts = db.handoff[h].attempts
  <2>1. /\ h \in DOMAIN db.handoff
        /\ TaskOf(s) = IF db.handoff[h].task = 0 THEN None ELSE db.task[db.handoff[h].task]
    BY <1>0, <1>1, <1>11, FindFacts
  <2>2. record \in After(db) /\ record.task = db.task
    BY <1>0, <1>4, <1>11, <2>1, ProgressStep
  <2>3. db.handoff[h].task # 0 => legal
    BY <1>0, <1>3, <1>11, <2>1, ActiveTaskOpen
  <2> QED
    BY <1>0, <1>4, <2>1, <2>2, <2>3, ProgressChange DEF After
<1> QED
  BY <1>1, <1>7, <1>8, <1>9, <1>10, <1>11, ReportSettles

LEMMA ResponseSettles ==
  ASSUME Given, NEW s \in Sends, NEW status \in Statuses
  PROVE  Settles(AcceptResponse(s, status))
<1>0. Good(db) /\ None \notin KindSet
  BY DEF Given, None, KindSet
<1>1. PICK h : h = CHOOSE x \in Find(s) : TRUE
  OBVIOUS
<1>2. PICK recorded \in BOOLEAN : recorded <=> Find(s) # {} /\ db.handoff[h].response = status
  OBVIOUS
<1>3. PICK legal \in BOOLEAN : legal <=> TaskOf(s) \in Open \/ (status = "failed" /\ TaskOf(s) = "failed")
  OBVIOUS
<1>4. PICK record : record = RecordResponse(db, h, status)
  OBVIOUS
<1>5. PICK path : path = ToResponse(TaskOf(s), status)
  OBVIOUS
<1>6. PICK S : S = {"delivered", "running", status}
  OBVIOUS
<1>7. S \subseteq TaskStates /\ path \in Seq(S)
  BY <1>5, <1>6, Paths DEF TaskStates, Open, Statuses
<1>8. PICK result : result = AcceptResponse(s, status)
  OBVIOUS
<1>9. result = AcceptReport(s, "response", recorded, record, legal, path)
  BY <1>1, <1>2, <1>3, <1>4, <1>5, <1>8 DEF AcceptResponse, AcceptReport
<1>10. result.writes \in Seq(After(db))
  BY <1>0, <1>8, AcceptResponseAfter
<1>11. ASSUME Find(s) # {}, Active(db.handoff[h]), MessageDelivered(db.handoff[h], "root")
       PROVE  /\ Good(record) /\ record.task = db.task /\ (db.handoff[h].task # 0 => legal)
              /\ Changes(db, record, h) /\ Follows(db.handoff[h], record.handoff[h], "response", None)
              /\ record.handoff[h].attempts = db.handoff[h].attempts
  <2>1. /\ h \in DOMAIN db.handoff /\ db.handoff[h].root > 0
        /\ TaskOf(s) = IF db.handoff[h].task = 0 THEN None ELSE db.task[db.handoff[h].task]
    BY <1>0, <1>1, <1>11, FindFacts
  <2>2. record \in After(db) /\ record.task = db.task
    BY <1>0, <1>4, <1>11, <2>1, ResponseStep
  <2>3. db.handoff[h].task # 0 => legal
    BY <1>0, <1>3, <1>11, <2>1, ActiveTaskOpen
  <2>4. db.handoff[h].response = None
    BY <1>11 DEF Active
  <2> QED
    BY <1>0, <1>4, <1>11, <2>1, <2>2, <2>3, <2>4, ResponseChange DEF After
<1> QED
  BY <1>1, <1>7, <1>8, <1>9, <1>10, <1>11, ReportSettles

LEMMA CancellationSettles ==
  ASSUME Given, NEW s \in Sends
  PROVE  Settles(AcceptCancellation(s))
<1>0. Good(db) /\ None \notin KindSet /\ "agent" \in Terminations \ {None} /\ "cancel" # "root" /\ None # "root"
  BY DEF Given, None, KindSet, Terminations
<1>1. CASE Find(s) = {}
  <2>1. AcceptCancellation(s) = Rejected(<<>>)
    BY <1>1 DEF AcceptCancellation
  <2> QED
    BY <2>1, SettlesNothing
<1>2. CASE Find(s) # {}
  <2>1. PICK h : h = CHOOSE x \in Find(s) : TRUE
    OBVIOUS
  <2>2. PICK r : r = db.handoff[h]
    OBVIOUS
  <2>3. PICK state : state = TaskOf(s)
    OBVIOUS
  <2>4. h \in DOMAIN db.handoff /\ (r.task # 0 => r.task \in DOMAIN db.task /\ state = db.task[r.task])
    BY <1>0, <1>2, <2>1, <2>2, <2>3, FindFacts
  <2>5. PICK result : result = AcceptCancellation(s)
    OBVIOUS
  <2>6. result =
           IF r.termination = None
           THEN CASE r.response # None \/ (r.task # 0 /\ state \notin Open) -> Rejected(<<>>)
                  [] r.response = None /\ r.task # 0 /\ state \in Open ->
                       Result(<<CancelTask(db, h, "agent")>>, h, "cancel", TRUE)
                  [] r.response = None /\ r.task = 0 ->
                       Result(<<Terminate(db, h, "agent")>>, h, "cancel", TRUE)
           ELSE CASE r.task # 0 /\ state \in Open ->
                       Result(<<SetTask(db, r.task, "cancelled")>>, h, Announced(r), TRUE)
                  [] r.task # 0 /\ state \notin Open \cup {"cancelled"} -> Rejected(<<>>)
                  [] OTHER -> Result(<<>>, h, Announced(r), TRUE)
    BY <1>2, <2>1, <2>2, <2>3, <2>5 DEF AcceptCancellation
  <2>7. result.writes \in Seq(After(db))
    BY <1>0, <2>5, AcceptCancellationAfter
  <2>8. Announced(r) # "root"
    BY <1>0 DEF Announced
  <2>9. CASE result = Rejected(<<>>)
    BY <2>5, <2>9, SettlesNothing
  <2>10. ASSUME r.termination = None, NEW e, result = Result(<<e>>, h, "cancel", TRUE),
                e.handoff = Terminate(db, h, "agent").handoff
         PROVE  Settles(result)
    <3>1. PICK w : w = <<e>>
      OBVIOUS
    <3>2. Final(db, w) = e /\ w \in Seq(After(db))
      BY <2>7, <2>10, <3>1 DEF Final, Result
    <3>3. Good(e)
      BY <1>0, <3>2, FinalAfter
    <3>4. PICK d : d = Terminate(db, h, "agent")
      OBVIOUS
    <3>5. /\ Changes(db, d, h) /\ Follows(db.handoff[h], d.handoff[h], "cancel", "root")
          /\ d.handoff[h].attempts = db.handoff[h].attempts
      BY <1>0, <2>2, <2>4, <2>10, <3>4, TerminateChange
    <3>6. /\ Changes(db, e, h) /\ Follows(db.handoff[h], e.handoff[h], "cancel", "root")
          /\ e.handoff[h].attempts = db.handoff[h].attempts
      BY <2>10, <3>4, <3>5 DEF Changes
    <3> QED
      BY <1>0, <2>4, <2>10, <3>1, <3>2, <3>3, <3>6, SettlesChange
  <2>11. ASSUME r.termination # None, NEW w, NEW e, e = Final(db, w), e.handoff = db.handoff,
                result = Result(w, h, Announced(r), TRUE)
         PROVE  Settles(result)
    <3>1. Good(e)
      BY <1>0, <2>7, <2>11, FinalAfter DEF Result
    <3>2. PICK m : m = Announced(r)
      OBVIOUS
    <3>3. Changes(db, e, h) /\ Follows(db.handoff[h], e.handoff[h], m, "root")
      BY <2>2, <2>11, SameFollows DEF Changes
    <3> QED
      BY <2>4, <2>8, <2>11, <3>1, <3>2, <3>3, SettlesChange
  <2>12. CASE r.termination = None /\ r.response = None /\ r.task # 0 /\ state \in Open
    <3>1. PICK e : e = CancelTask(db, h, "agent")
      OBVIOUS
    <3>2. result = Result(<<e>>, h, "cancel", TRUE)
      BY <2>6, <2>12, <3>1
    <3>3. PICK d : d = Terminate(db, h, "agent")
      OBVIOUS
    <3>4. e = SetTask(d, r.task, "cancelled")
      BY <2>2, <3>1, <3>3 DEF CancelTask
    <3>5. e.handoff = d.handoff
      <4>1. d \in After(db) /\ d.task = db.task
        BY <1>0, <2>2, <2>4, <2>12, <3>3, TerminateStep DEF Active
      <4>2. d \in Databases /\ r.task \in DOMAIN d.task /\ "cancelled" \in TaskStates
        BY <2>4, <2>12, <4>1 DEF After, TaskStates
      <4> QED
        BY <3>4, <4>2, TaskChanged
    <3> QED
      BY <2>5, <2>10, <2>12, <3>2, <3>3, <3>5
  <2>13. CASE r.termination = None /\ r.response = None /\ r.task = 0
    <3>1. PICK e : e = Terminate(db, h, "agent")
      OBVIOUS
    <3>2. result = Result(<<e>>, h, "cancel", TRUE)
      BY <2>6, <2>13, <3>1
    <3> QED
      BY <2>5, <2>10, <2>13, <3>1, <3>2
  <2>14. CASE r.termination # None /\ r.task # 0 /\ state \in Open
    <3>1. PICK e : e = SetTask(db, r.task, "cancelled")
      OBVIOUS
    <3>2. PICK w : w = <<e>>
      OBVIOUS
    <3>3. result = Result(w, h, Announced(r), TRUE)
      BY <2>6, <2>14, <3>1, <3>2
    <3>4. e.handoff = db.handoff
      <4>1. db \in Databases /\ r.task \in DOMAIN db.task /\ "cancelled" \in TaskStates
        BY <1>0, <2>4, <2>14 DEF Good, TaskStates
      <4> QED
        BY <3>1, <4>1, TaskChanged
    <3>5. e = Final(db, w)
      BY <3>2 DEF Final
    <3> QED
      BY <2>5, <2>11, <2>14, <3>3, <3>4, <3>5
  <2>15. CASE r.termination # None /\ (r.task = 0 \/ (state = "cancelled" /\ state \notin Open))
    <3>1. PICK w : w = <<>>
      OBVIOUS
    <3>2. result = Result(w, h, Announced(r), TRUE)
      BY <2>6, <2>15, <3>1
    <3>3. db = Final(db, w)
      BY <3>1 DEF Final
    <3> QED
      BY <2>5, <2>11, <2>15, <3>2, <3>3
  <2>16. CASE r.termination = None /\ (r.response # None \/ (r.task # 0 /\ state \notin Open))
    <3>1. result = Rejected(<<>>)
      BY <2>6, <2>16
    <3> QED
      BY <2>9, <3>1
  <2>17. CASE r.termination # None /\ r.task # 0 /\ state \notin Open \cup {"cancelled"}
    <3>1. result = Rejected(<<>>)
      BY <2>6, <2>17
    <3> QED
      BY <2>9, <3>1
  <2>18. \/ r.termination = None /\ r.response = None /\ r.task # 0 /\ state \in Open
         \/ r.termination = None /\ r.response = None /\ r.task = 0
         \/ r.termination # None /\ r.task # 0 /\ state \in Open
         \/ r.termination # None /\ (r.task = 0 \/ (state = "cancelled" /\ state \notin Open))
         \/ r.termination = None /\ (r.response # None \/ (r.task # 0 /\ state \notin Open))
         \/ r.termination # None /\ r.task # 0 /\ state \notin Open \cup {"cancelled"}
    OBVIOUS
  <2> QED
    BY <2>12, <2>13, <2>14, <2>15, <2>16, <2>17, <2>18, Zenon
<1> QED
  BY <1>1, <1>2

LEMMA HandleSettles ==
  ASSUME Given, NEW p \in Posts, p.type = "send" => From[p.root] # Routine
  PROVE  Settles(Handle(p))
<1>1. /\ p.root \in Sends /\ p.type \in {"send", "progress", "respond", "cancel"}
      /\ p.type = "respond" => p.status \in Statuses
  BY PostAssumption
<1>2. CASE p.type = "send"
  BY <1>1, <1>2, HandoffSettles DEF Handle
<1>3. CASE p.type = "progress"
  BY <1>1, <1>3, ProgressSettles DEF Handle
<1>4. CASE p.type = "respond"
  BY <1>1, <1>4, ResponseSettles DEF Handle
<1>5. CASE p.type = "cancel"
  BY <1>1, <1>5, CancellationSettles DEF Handle
<1> QED
  BY <1>1, <1>2, <1>3, <1>4, <1>5

-----------------------------------------------------------------------------
(* The mailboxes of the running application *)

Empty == [a \in Agents |-> <<>>]

\* Only the delivery in progress has an open attempt, and it is the front of
\* its mailbox.
OneOpen == \A h \in HandoffIds(db) : Attempting(db.handoff[h]) => inflight # NoRequest /\ inflight.h = h
AtFront ==
  inflight # NoRequest =>
    LET a == inflight.agent
    IN  a \in Agents /\ boxes[a] # <<>> /\ boxes[a][1].h = inflight.h /\ boxes[a][1].msg = inflight.msg

\* Clients do not submit the work of routines.
Asked(q) == \A i \in DOMAIN q : q[i].type = "send" => From[q[i].root] # Routine

MInv ==
  /\ IF up THEN Serves(db, boxes) /\ OneOpen ELSE boxes = Empty
  /\ AtFront /\ Asked(inbox)
  /\ Opened => archived = {}

LEMMA NextFacts ==
  ASSUME Ready # {}
  PROVE  NextBox \in Ready /\ NextBox \in Agents /\ boxes[NextBox] # <<>>
<1>1. NumAgents \in Nat /\ Ready \in SUBSET (1..NumAgents)
  BY SendAssumption DEF Ready, Agents
<1>2. /\ IsFiniteSet(Ready) /\ Cardinality(Ready) \in Nat
      /\ \A i \in Ready : Rank(Ready, i) \in 1..Cardinality(Ready)
      /\ \A i, j \in Ready : i < j => Rank(Ready, i) < Rank(Ready, j)
      /\ \A k \in 1..Cardinality(Ready) : \E i \in Ready : Rank(Ready, i) = k
  BY <1>1, RankFacts
<1>3. 1 \in 1..Cardinality(Ready)
  BY <1>2
<1>4. PICK a \in Ready : Rank(Ready, a) = 1
  BY <1>2, <1>3
<1>5. \A b \in Ready : a <= b
  <2> SUFFICES ASSUME NEW b \in Ready, ~(a <= b) PROVE FALSE
    OBVIOUS
  <2>1. b < a
    BY <1>1
  <2>2. Rank(Ready, b) < 1 /\ Rank(Ready, b) \in 1..Cardinality(Ready)
    BY <1>2, <1>4, <2>1
  <2> QED
    BY <1>2, <2>2
<1>6. NextBox \in Ready
  BY <1>5 DEF NextBox
<1> QED
  BY <1>1, <1>6 DEF Ready, Agents

LEMMA EmptyFacts == Queues(Empty) /\ Once(Empty) /\ PromptsOrdered(Empty) /\ \A h, m : ~Pending(Empty, h, m)
<1>1. \A a \in Agents : Empty[a] = <<>> /\ DOMAIN Empty[a] = {}
  BY DEF Empty
<1>2. Queues(Empty)
  <2>1. \A W : <<>> \in Seq(Items(W))
    OBVIOUS
  <2> QED
    BY <2>1 DEF Queues, Empty
<1> QED
  BY <1>1, <1>2 DEF Once, PromptsOrdered, Pending

LEMMA EmptyServes ==
  ASSUME NEW d, ~Opened
  PROVE  Serves(d, Empty)
<1>1. ~Unresumed
  BY DEF Opened, Unresumed
<1> QED
  BY <1>1, EmptyFacts DEF Serves, Fitting

LEMMA NothingServes ==
  ASSUME NEW d, d.handoff = <<>>
  PROVE  Serves(d, Empty)
<1>1. DOMAIN d.handoff = {}
  OBVIOUS
<1> QED
  BY <1>1, EmptyFacts DEF Serves, Fitting, Kept

-----------------------------------------------------------------------------
(* What is left to show of a step *)

LEMMA DownStep ==
  ASSUME MInv, ~up', boxes' = Empty, inflight' = NoRequest, inbox' = inbox, archived' = archived
  PROVE  MInv'
<1>1. AtFront'
  BY DEF AtFront
<1>2. Asked(inbox)'
  BY DEF MInv, Asked
<1>3. (boxes = Empty)'
  BY DEF Empty
<1> QED
  BY <1>1, <1>2, <1>3 DEF MInv, Opened

LEMMA ServesNext ==
  ASSUME Serves(db', boxes')
  PROVE  Serves(db, boxes)'
  BY DEF Serves, Queues, Items, Once, Same, Fitting, Fits, Kept, Waits, Tried, PromptsOrdered, Pending, Opened,
         Unresumed, Messages, DeliveryTerminal, Agents, KindSet

LEMMA UpStep ==
  ASSUME MInv, up', Serves(db', boxes'), Asked(inbox'), Opened => archived' = {},
         \A h \in DOMAIN db'.handoff : Attempting(db'.handoff[h]) => inflight' # NoRequest /\ inflight'.h = h,
         inflight' # NoRequest =>
           /\ inflight'.agent \in Agents /\ boxes'[inflight'.agent] # <<>>
           /\ boxes'[inflight'.agent][1].h = inflight'.h /\ boxes'[inflight'.agent][1].msg = inflight'.msg
  PROVE  MInv'
<1>1. Serves(db, boxes)'
  BY ServesNext
<1>2. OneOpen'
  BY DEF OneOpen, HandoffIds, Attempting
<1>3. AtFront'
  BY DEF AtFront
<1>4. Asked(inbox)'
  BY DEF Asked
<1> QED
  BY <1>1, <1>2, <1>3, <1>4 DEF MInv, Opened

LEMMA Stopped ==
  ASSUME "db" \notin FaultKinds, NEW kind \in {"crash", "db"}, Stop(kind)
  PROVE  ~up' /\ boxes' = Empty /\ inflight' = NoRequest
  BY DEF Stop, Empty

\* What Commit leaves: all the transactions of a handler, or a stop.
Commits(w, c) ==
  \/ db' = Final(db, w) /\ boxes' = c /\ inflight' = NoRequest /\ up' /\ inbox' = inbox
  \/ \E kind \in {"crash", "db"} : Stop(kind) /\ inbox' = inbox

\* No attempt is open.
Closed(d) == \A h \in DOMAIN d.handoff : ~Attempting(d.handoff[h])

LEMMA IdleClosed ==
  ASSUME MInv, Idle
  PROVE  Closed(db) /\ Serves(db, boxes) /\ (Opened => archived = {}) /\ Asked(inbox)
  BY DEF MInv, Idle, OneOpen, Closed, HandoffIds

LEMMA CalmClosed ==
  ASSUME NEW d, NEW e, Closed(d), Calm(d, e)
  PROVE  Closed(e)
<1>1. \A h \in DOMAIN e.handoff : e.handoff[h].attempts = <<>> => ~Attempting(e.handoff[h])
  BY DEF Attempting
<1>2. \A h \in DOMAIN e.handoff : h \in DOMAIN d.handoff /\ e.handoff[h].attempts = d.handoff[h].attempts
        => (Attempting(e.handoff[h]) <=> Attempting(d.handoff[h]))
  BY SameAttempts
<1> QED
  BY <1>1, <1>2 DEF Calm, Closed

LEMMA IdleStep ==
  ASSUME MInv, "db" \notin FaultKinds, archived' = archived, NEW w, NEW c,
         Serves(Final(db, w), c), Closed(Final(db, w)), Commits(w, c)
  PROVE  MInv'
<1>1. CASE db' = Final(db, w) /\ boxes' = c /\ inflight' = NoRequest /\ up' /\ inbox' = inbox
  <2>1. Serves(db', boxes') /\ Asked(inbox') /\ (Opened => archived' = {})
    BY <1>1 DEF MInv
  <2>2. \A h \in DOMAIN db'.handoff : ~Attempting(db'.handoff[h])
    BY <1>1 DEF Closed
  <2> QED
    BY <1>1, <2>1, <2>2, UpStep
<1>2. CASE \E kind \in {"crash", "db"} : Stop(kind) /\ inbox' = inbox
  BY <1>2, Stopped, DownStep
<1> QED
  BY <1>1, <1>2 DEF Commits

\* A handler whose outcome settles its messages.
LEMMA SettledStep ==
  ASSUME OInv, MInv, "db" \notin FaultKinds, Idle, archived' = archived, NEW w, NEW h, NEW m, NEW drop \in BOOLEAN,
         Settles(Result(w, h, m, drop)),
         Commits(w, Enqueue(IF drop THEN RemovePending(boxes, h) ELSE boxes, Final(db, w), h, m))
  PROVE  MInv'
<1>1. PICK c : c = Enqueue(IF drop THEN RemovePending(boxes, h) ELSE boxes, Final(db, w), h, m)
  OBVIOUS
<1>2. Serves(Final(db, w), c) /\ Calm(db, Final(db, w))
  BY <1>1 DEF Settles, Result
<1>3. Closed(Final(db, w))
  BY <1>2, IdleClosed, CalmClosed
<1> QED
  BY <1>1, <1>2, <1>3, IdleStep

LEMMA Single ==
  ASSUME NEW e, NEW w, w = <<e>>
  PROVE  Len(w) = 1 /\ w[1] = e /\ w # <<>>
  OBVIOUS

LEMMA FinalWrites ==
  ASSUME NEW d, NEW e, Good(e), NEW t, NEW S \in SUBSET TaskStates, NEW path \in Seq(S),
         t \in DOMAIN e.task \/ path = <<>>, NEW first, first = <<e>>
  PROVE  Final(d, first \o TaskWrites(e, t, path)).handoff = e.handoff
<1>1. CASE t \in DOMAIN e.task
  BY <1>1, FinalTask
<1>2. CASE path = <<>>
  <2>1. TaskWrites(e, t, path) = <<>>
    BY <1>2, NoWrites DEF TaskWrites
  <2>2. PICK w : w = first \o TaskWrites(e, t, path)
    OBVIOUS
  <2>3. w = <<e>>
    BY <2>1, <2>2
  <2>4. Len(w) = 1 /\ w[1] = e /\ w # <<>>
    BY <2>3, Single
  <2> QED
    BY <2>2, <2>4 DEF Final
<1> QED
  BY <1>1, <1>2

-----------------------------------------------------------------------------
(* The steps *)

LEMMA PostMail ==
  ASSUME OInv, MInv, NEW p \in Posts, Post(p)
  PROVE  MInv'
<1>1. Asked(inbox')
  <2>1. inbox \in Seq(Posts) /\ inbox' = Append(inbox, p) /\ (p.type = "send" => From[p.root] # Routine)
    BY DEF OInv, Post
  <2>2. \A i \in DOMAIN inbox' : inbox'[i] = p \/ (i \in DOMAIN inbox /\ inbox'[i] = inbox[i])
    BY <2>1
  <2>3. Asked(inbox)
    BY DEF MInv
  <2> QED
    BY <2>1, <2>2, <2>3 DEF Asked
<1>2. /\ up' /\ db' = db /\ boxes' = boxes /\ inflight' = inflight /\ archived' = archived /\ up
  BY DEF Post
<1> QED
  BY <1>1, <1>2, UpStep DEF MInv, OneOpen, AtFront, HandoffIds

LEMMA AcceptMail ==
  ASSUME OInv, MInv, "db" \notin FaultKinds, Accept
  PROVE  MInv'
<1>1. PICK p : p = Head(inbox)
  OBVIOUS
<1>2. /\ inbox # <<>> /\ inbox \in Seq(Posts) /\ p \in Posts /\ Idle /\ archived' = archived
      /\ Tail(inbox) \in Seq(Posts) /\ Asked(inbox) /\ (p.type = "send" => From[p.root] # Routine)
      /\ Asked(Tail(inbox))
  <2>1. inbox # <<>> /\ inbox \in Seq(Posts) /\ Idle /\ archived' = archived /\ Asked(inbox)
    BY DEF OInv, MInv, Accept
  <2>2. p = inbox[1] /\ 1 \in DOMAIN inbox
    BY <1>1, <2>1
  <2>3. /\ Tail(inbox) \in Seq(Posts)
        /\ \A i \in DOMAIN Tail(inbox) : i + 1 \in DOMAIN inbox /\ Tail(inbox)[i] = inbox[i + 1]
    BY <2>1
  <2> QED
    BY <2>1, <2>2, <2>3 DEF Asked
<1>3. PICK r : r = Handle(p)
  OBVIOUS
<1>4. Given /\ Closed(db)
  BY <1>2, IdleClosed DEF OInv, Given
<1>5. Settles(r)
  BY <1>2, <1>3, <1>4, HandleSettles
<1>6. PICK e : e = Final(db, r.writes)
  OBVIOUS
<1>7. PICK k : k = IF r.drop THEN RemovePending(boxes, r.h) ELSE boxes
  OBVIOUS
<1>8. PICK c : c = Enqueue(k, e, r.h, r.msg)
  OBVIOUS
<1>9. Serves(e, c) /\ Calm(db, e)
  BY <1>5, <1>6, <1>7, <1>8 DEF Settles
<1>10. Closed(e)
  BY <1>4, <1>9, CalmClosed
<1>11. c = IF r.msg = None THEN k ELSE Enqueue(k, e, r.h, r.msg)
  <2>1. None \notin KindSet
    BY DEF None, KindSet
  <2> QED
    BY <1>8, <2>1, EnqueueNone
<1>12. \/ db' = e /\ boxes' = c /\ inflight' = inflight /\ up' = up /\ inbox' \in {inbox, Tail(inbox)}
       \/ \E kind \in {"crash", "db"} : Stop(kind) /\ inbox' = inbox
  BY <1>1, <1>3, <1>6, <1>7, <1>11 DEF Accept, Commit, Final
<1>13. CASE db' = e /\ boxes' = c /\ inflight' = inflight /\ up' = up /\ inbox' \in {inbox, Tail(inbox)}
  <2>1. up' /\ inflight' = NoRequest /\ Serves(db', boxes') /\ Asked(inbox') /\ (Opened => archived' = {})
    BY <1>2, <1>9, <1>13 DEF MInv, Idle
  <2>2. \A h \in DOMAIN db'.handoff : ~Attempting(db'.handoff[h])
    BY <1>10, <1>13 DEF Closed
  <2> QED
    BY <2>1, <2>2, UpStep
<1>14. CASE \E kind \in {"crash", "db"} : Stop(kind) /\ inbox' = inbox
  BY <1>2, <1>14, Stopped, DownStep
<1> QED
  BY <1>12, <1>13, <1>14

LEMMA DropMail ==
  ASSUME OInv, MInv, DropTerminated
  PROVE  MInv'
<1>1. PICK h : h = boxes[NextBox][1].h
  OBVIOUS
<1>2. /\ Idle /\ Ready # {} /\ boxes[NextBox][1].msg = "root" /\ db.handoff[h].termination # None
      /\ boxes' = RemovePending(boxes, h) /\ archived' = archived /\ inbox' = inbox /\ db' = db /\ up' = up
      /\ inflight' = inflight
  BY <1>1 DEF DropTerminated
<1>3. /\ Good(db) /\ Closed(db) /\ Serves(db, boxes) /\ (Opened => archived = {}) /\ None \notin KindSet
      /\ Asked(inbox) /\ None # "root"
  BY <1>2, IdleClosed DEF OInv, None, KindSet
<1>4. h \in DOMAIN db.handoff
  <2>1. NextBox \in Agents /\ boxes[NextBox] # <<>>
    BY <1>2, NextFacts
  <2>2. 1 \in DOMAIN boxes[NextBox]
    BY <1>3, <2>1 DEF Serves, Queues
  <2>3. Pending(boxes, h, "root")
    BY <1>1, <1>2, <2>1, <2>2 DEF Pending
  <2> QED
    BY <1>3, <2>3 DEF Serves, Fitting
<1>5. PICK k : k = RemovePending(boxes, h)
  OBVIOUS
<1>6. Without(boxes, k, h, "root")
  BY <1>3, <1>5, WithoutRoot
<1>7. Changes(db, db, h) /\ Follows(db.handoff[h], db.handoff[h], None, "root")
  BY <1>2, SameFollows DEF Changes
<1>8. k = Enqueue(k, db, h, None)
  BY <1>3, EnqueueNone
<1>9. Serves(db, k)
  BY <1>3, <1>4, <1>6, <1>7, <1>8, MailStep
<1> QED
  BY <1>2, <1>3, <1>5, <1>9, UpStep DEF Closed, Idle

\* The end of an attempt: what the database and its mailbox become.
LEMMA EndServes ==
  ASSUME NEW d, Good(d), NEW b, Serves(d, b), Opened => archived = {},
         NEW a \in Agents, b[a] # <<>>, NEW h \in DOMAIN d.handoff, h = b[a][1].h, NEW m, m = b[a][1].msg,
         \E i \in DOMAIN d.handoff[h].attempts : d.handoff[h].attempts[i] = [msg |-> m, outcome |-> "started"],
         \A g \in DOMAIN d.handoff : g # h => ~Attempting(d.handoff[g]),
         NEW outcome \in {"delivered", "retryable", "exhausted"},
         NEW e, Good(e), e.handoff = FinishAttempt(d, h, outcome).handoff,
         NEW c, c = IF outcome = "retryable" THEN RetryLater(b, a) ELSE Pop(b, a)
  PROVE  Serves(e, c) /\ Closed(e)
<1>1. PICK f : f = FinishAttempt(d, h, outcome)
  OBVIOUS
<1>2. PICK x : x = IF outcome = "retryable" THEN None ELSE m
  OBVIOUS
<1>3. /\ Changes(d, f, h) /\ Follows(d.handoff[h], f.handoff[h], None, x)
      /\ ~Attempting(f.handoff[h])
  BY <1>1, <1>2, FinishChange
<1>4. Changes(d, e, h) /\ Follows(d.handoff[h], e.handoff[h], None, x) /\ ~Attempting(e.handoff[h])
  BY <1>1, <1>3 DEF Changes
<1>5. Closed(e)
  BY <1>4 DEF Closed, Changes
<1>6. None \notin KindSet /\ None # "root"
  BY DEF None, KindSet
<1>7. Without(b, c, h, x)
  <2>1. CASE outcome = "retryable"
    <3>1. Queues(c) /\ Thins(b, c) /\ \A g, n : Pending(c, g, n) <=> Pending(b, g, n)
      BY <2>1, RetryFacts DEF Serves
    <3> QED
      BY <1>2, <1>6, <2>1, <3>1 DEF Without, Serves, Fitting
  <2>2. CASE outcome # "retryable"
    BY <1>2, <2>2, PopFacts DEF Without, Serves
  <2> QED
    BY <2>1, <2>2
<1>8. c = Enqueue(c, e, h, None)
  BY <1>6, EnqueueNone
<1>9. h \in DOMAIN e.handoff
  BY <1>4 DEF Changes
<1>10. Serves(e, c)
  BY <1>4, <1>6, <1>7, <1>8, <1>9, MailStep
<1> QED
  BY <1>5, <1>10

\* The transactions of finish_delivery change only the attempt of the handoff.
LEMMA FinishWritesFinal ==
  ASSUME NEW d, NEW p, NEW h, h = p.h, h \in DOMAIN d.handoff, NEW outcome, Good(d),
         NEW f, f = FinishAttempt(d, h, outcome), Good(f), f.task = d.task, NEW c
  PROVE  Final(c, FinishWrites(d, p, outcome)).handoff = f.handoff /\ FinishWrites(d, p, outcome) # <<>>
<1>1. PICK t : t = d.handoff[h].task
  OBVIOUS
<1>2. t # 0 => t \in DOMAIN d.task
  BY <1>1, DatabaseTypes DEF Good, Named
<1>3. PICK path : path = CASE p.msg = "root" /\ t # 0 /\ outcome = "delivered" -> ToDelivered(d.task[t])
                           [] p.msg = "root" /\ t # 0 /\ outcome = "exhausted" -> ToFailed(d.task[t])
                           [] OTHER                                            -> <<>>
  OBVIOUS
<1>4. FinishWrites(d, p, outcome) = <<f>> \o TaskWrites(f, t, path)
  BY <1>1, <1>3 DEF FinishWrites
<1>5. PICK S : S = {"delivered", "failed"}
  OBVIOUS
<1>6. S \in SUBSET TaskStates
  BY <1>5 DEF TaskStates, Open
<1>7. path \in Seq(S) /\ (t = 0 => path = <<>>)
  <2>1. path \in {<<>>, <<"delivered">>, <<"failed">>}
    BY <1>3, Zenon DEF ToDelivered, ToFailed
  <2>2. <<>> \in Seq(S) /\ <<"delivered">> \in Seq(S) /\ <<"failed">> \in Seq(S)
    BY <1>5
  <2>3. t = 0 => path = <<>>
    BY <1>3, Zenon
  <2> QED
    BY <2>1, <2>2, <2>3
<1>8. PICK first : first = <<f>>
  OBVIOUS
<1>9. (t \in DOMAIN f.task \/ path = <<>>) /\ S \in SUBSET TaskStates /\ path \in Seq(S) /\ Good(f)
  BY <1>2, <1>6, <1>7
<1>10. Final(c, first \o TaskWrites(f, t, path)).handoff = f.handoff
  BY <1>8, <1>9, FinalWrites
<1>11. first \o TaskWrites(f, t, path) # <<>>
  <2>1. PICK rest : rest = TaskWrites(f, t, path)
    OBVIOUS
  <2>2. PICK X : X = {f} \cup {SetTask(f, t, path[i]) : i \in 1..Len(path)}
    OBVIOUS
  <2>3. rest \in [1..Len(path) -> X] /\ Len(path) \in Nat
    BY <1>7, <2>1, <2>2 DEF TaskWrites
  <2>4. rest \in Seq(X) /\ Len(rest) \in Nat /\ f \in X
    BY <2>2, <2>3, FunctionIsSeq
  <2>5. first \in Seq(X) /\ Len(first) = 1
    BY <1>8, <2>4
  <2>6. PICK w : w = first \o rest
    OBVIOUS
  <2>7. Len(w) = Len(first) + Len(rest)
    BY <2>4, <2>5, <2>6, Joined
  <2>8. Len(w) # 0
    BY <2>4, <2>5, <2>7
  <2> QED
    BY <2>1, <2>6, <2>8
<1> QED
  BY <1>4, <1>8, <1>10, <1>11

\* The last of the transactions of a handler that first does one of its own.
LEMMA FinalLonger ==
  ASSUME NEW S, NEW q \in Seq(S), NEW r \in Seq(S), r # <<>>, NEW c, NEW d
  PROVE  Final(c, q \o r) = Final(d, r)
<1>1. PICK w : w = q \o r
  OBVIOUS
<1>2. /\ w \in Seq(S) /\ Len(w) = Len(q) + Len(r)
      /\ \A i \in 1..Len(w) : w[i] = IF i <= Len(q) THEN q[i] ELSE r[i - Len(q)]
  BY <1>1, Joined
<1>3. Len(q) \in Nat /\ Len(r) \in Nat /\ Len(r) # 0
  OBVIOUS
<1>4. Len(w) \in 1..Len(w) /\ ~(Len(w) <= Len(q)) /\ Len(w) - Len(q) = Len(r) /\ w # <<>>
  BY <1>2, <1>3
<1>5. w[Len(w)] = r[Len(r)]
  BY <1>2, <1>4
<1> QED
  BY <1>1, <1>4, <1>5 DEF Final

LEMMA PrepareMail ==
  ASSUME OInv, MInv, "db" \notin FaultKinds, PrepareNext
  PROVE  MInv'
<1>1. PICK a : a = NextBox
  OBVIOUS
<1>2. PICK p : p = boxes[a][1]
  OBVIOUS
<1>3. PICK h : h = p.h
  OBVIOUS
<1>4. PICK m : m = p.msg
  OBVIOUS
<1>5. PICK begun : begun = BeginAttempt(db, h, m)
  OBVIOUS
<1>6. /\ Idle /\ Ready # {} /\ h \in DOMAIN db.handoff /\ MayBegin(db.handoff[h], m) /\ archived' = archived
  BY <1>1, <1>2, <1>3, <1>4 DEF PrepareNext, HandoffIds
<1>7. a \in Agents /\ boxes[a] # <<>> /\ m \in KindSet
  BY <1>1, <1>6, NextFacts DEF MayBegin, Messages, KindSet
<1>8. Good(db) /\ Closed(db) /\ Serves(db, boxes) /\ (Opened => archived = {}) /\ Asked(inbox) /\ None \notin KindSet
      /\ None # "root"
  BY <1>6, IdleClosed DEF OInv, None, KindSet
<1>9. /\ Good(begun) /\ begun.task = db.task /\ DOMAIN begun.handoff = DOMAIN db.handoff
      /\ begun.handoff[h].age = db.handoff[h].age
      /\ (Active(begun.handoff[h]) <=> Active(db.handoff[h])) /\ ~MessageDelivered(begun.handoff[h], m)
      /\ \E i \in DOMAIN begun.handoff[h].attempts : begun.handoff[h].attempts[i] = [msg |-> m, outcome |-> "started"]
      /\ Keeps(db, begun)
  BY <1>5, <1>6, <1>7, <1>8, BeginStep
<1>10. begun \in After(db)
  BY <1>9 DEF After, Good
<1>11. Changes(db, begun, h) /\ Follows(db.handoff[h], begun.handoff[h], None, None)
  BY <1>5, <1>6, <1>7, <1>8, BeginChange
<1>12. \A g \in DOMAIN begun.handoff : g # h => ~Attempting(begun.handoff[g])
  BY <1>8, <1>11 DEF Closed, Changes
<1>13. Serves(begun, boxes)
  <2>1. Without(boxes, boxes, h, None)
    BY <1>8, WithoutNothing
  <2>2. boxes = Enqueue(boxes, begun, h, None)
    BY <1>8, EnqueueNone
  <2>3. h \in DOMAIN begun.handoff
    BY <1>6, <1>9
  <2> QED
    BY <1>6, <1>8, <1>9, <1>11, <2>1, <2>2, <2>3, MailStep
<1>14. CASE db.handoff[h].age[m] < Window
  <2>1. \/ /\ db' = begun /\ inflight' = [agent |-> a, h |-> h, msg |-> m] /\ inbox' = inbox /\ up' = up
           /\ boxes' = boxes
        \/ \E kind \in {"crash", "db"} : Stop(kind) /\ inbox' = inbox
    BY <1>1, <1>2, <1>3, <1>4, <1>5, <1>14, Single DEF PrepareNext, Commit
  <2>2. CASE db' = begun /\ inflight' = [agent |-> a, h |-> h, msg |-> m] /\ inbox' = inbox /\ up' = up
           /\ boxes' = boxes
    <3>1. inflight'.agent = a /\ inflight'.h = h /\ inflight'.msg = m
      BY <2>2
    <3>2. inflight' # NoRequest
      BY <1>7, <3>1, SendAssumption DEF NoRequest, Agents
    <3>3. up' /\ Serves(db', boxes') /\ Asked(inbox') /\ (Opened => archived' = {})
      BY <1>6, <1>8, <1>13, <2>2 DEF Idle
    <3>4. \A g \in DOMAIN db'.handoff : Attempting(db'.handoff[g]) => inflight'.h = g
      BY <1>12, <2>2, <3>1
    <3>5. /\ inflight'.agent \in Agents /\ boxes'[inflight'.agent] # <<>>
          /\ boxes'[inflight'.agent][1].h = inflight'.h /\ boxes'[inflight'.agent][1].msg = inflight'.msg
      BY <1>2, <1>3, <1>4, <1>7, <2>2, <3>1
    <3> QED
      BY <3>2, <3>3, <3>4, <3>5, UpStep
  <2>3. CASE \E kind \in {"crash", "db"} : Stop(kind) /\ inbox' = inbox
    BY <1>6, <2>3, Stopped, DownStep
  <2> QED
    BY <2>1, <2>2, <2>3
<1>15. CASE ~(db.handoff[h].age[m] < Window)
  <2>1. PICK rest : rest = FinishWrites(begun, p, "exhausted")
    OBVIOUS
  <2>2. PICK first : first = <<begun>>
    OBVIOUS
  <2>3. PICK w : w = first \o rest
    OBVIOUS
  <2>4. PICK f : f = FinishAttempt(begun, h, "exhausted")
    OBVIOUS
  <2>5. db.handoff[h].age[m] = Window
    <3>1. db.handoff[h].age \in [KindSet -> 0..Window]
      BY <1>6, <1>8, DatabaseTypes, RecordTypes DEF Good
    <3> QED
      BY <1>7, <1>15, <3>1, WindowAssumption
  <2>6. m = "root" => Active(begun.handoff[h]) /\ begun.handoff[h].age["root"] = Window
    BY <1>6, <1>9, <2>5 DEF MayBegin
  <2>7. rest \in Seq(After(begun))
    BY <1>3, <1>4, <1>6, <1>7, <1>9, <2>1, <2>6, FinishWritesAfter
  <2>8. Good(f) /\ f.task = begun.task
    <3>1. \A i \in DOMAIN begun.handoff[h].attempts :
            begun.handoff[h].attempts[i].outcome = "started" => begun.handoff[h].attempts[i].msg = m
      <4>1. RecordSound(begun.handoff[h])
        BY <1>6, <1>9 DEF Good, Named
      <4> QED
        BY <1>9, <4>1 DEF RecordSound
    <3> QED
      BY <1>6, <1>7, <1>9, <2>4, <2>6, <3>1, FinishStep, SMTT(30)
  <2>9. PICK e : e = Final(begun, rest)
    OBVIOUS
  <2>10. Good(e)
    BY <1>9, <2>7, <2>9, FinalAfter
  <2>11. e.handoff = f.handoff
    BY <1>3, <1>6, <1>9, <2>1, <2>4, <2>8, <2>9, FinishWritesFinal
  <2>12. Final(db, w) = e
    <3>1. rest \in Seq(Databases) /\ first \in Seq(Databases)
      BY <1>9, <2>2, <2>7 DEF Good, After
    <3>2. rest # <<>>
      BY <1>3, <1>6, <1>9, <2>1, <2>4, <2>8, FinishWritesFinal
    <3> QED
      BY <2>3, <2>9, <3>1, <3>2, FinalLonger
  <2>13. PICK c : c = Pop(boxes, a)
    OBVIOUS
  <2>14. Serves(e, c) /\ Closed(e)
    BY <1>2, <1>3, <1>4, <1>6, <1>7, <1>8, <1>9, <1>12, <1>13, <2>4, <2>10, <2>11, <2>13, EndServes
  <2>15. Commits(w, c)
    BY <1>1, <1>2, <1>3, <1>4, <1>5, <1>6, <1>15, <2>1, <2>2, <2>3, <2>13, ZenonT(60)
       DEF PrepareNext, Commit, Commits, Final, Idle
  <2> QED
    BY <1>6, <2>12, <2>14, <2>15, IdleStep
<1> QED
  BY <1>14, <1>15

LEMMA FinishMail ==
  ASSUME OInv, MInv, "db" \notin FaultKinds, NEW written \in BOOLEAN, FinishDelivery(written)
  PROVE  MInv'
<1>1. PICK outcome \in {"delivered", "retryable"} : outcome = IF written THEN "delivered" ELSE "retryable"
  OBVIOUS
<1>2. PICK h : h = inflight.h
  OBVIOUS
<1>3. PICK m : m = inflight.msg
  OBVIOUS
<1>4. PICK a : a = inflight.agent
  OBVIOUS
<1>5. /\ up /\ inflight # NoRequest /\ Good(db) /\ archived' = archived
      /\ h \in DOMAIN db.handoff /\ m \in KindSet
      /\ \E i \in DOMAIN db.handoff[h].attempts : db.handoff[h].attempts[i] = [msg |-> m, outcome |-> "started"]
      /\ ~MessageDelivered(db.handoff[h], m)
      /\ m = "root" => ~Exhausted(db.handoff[h])
  BY <1>2, <1>3 DEF FinishDelivery, OInv, InflightSound, HandoffIds
<1>6. /\ Serves(db, boxes) /\ (Opened => archived = {})
      /\ a \in Agents /\ boxes[a] # <<>> /\ boxes[a][1].h = h /\ boxes[a][1].msg = m
      /\ \A g \in DOMAIN db.handoff : g # h => ~Attempting(db.handoff[g])
  BY <1>2, <1>3, <1>4, <1>5 DEF MInv, AtFront, OneOpen, HandoffIds
<1>7. PICK w : w = FinishWrites(db, inflight, outcome)
  OBVIOUS
<1>8. PICK f : f = FinishAttempt(db, h, outcome)
  OBVIOUS
<1>9. w \in Seq(After(db))
  BY <1>1, <1>2, <1>3, <1>5, <1>7, FinishWritesAfter
<1>10. Good(f) /\ f.task = db.task
  <2>1. \A i \in DOMAIN db.handoff[h].attempts :
          db.handoff[h].attempts[i].outcome = "started" => db.handoff[h].attempts[i].msg = m
    <3>1. RecordSound(db.handoff[h])
      BY <1>5 DEF Good, Named
    <3> QED
      BY <1>5, <3>1 DEF RecordSound
  <2> QED
    BY <1>1, <1>5, <1>8, <2>1, FinishStep, SMTT(30)
<1>11. PICK e : e = Final(db, w)
  OBVIOUS
<1>12. Good(e) /\ e.handoff = f.handoff
  BY <1>2, <1>5, <1>7, <1>8, <1>9, <1>10, <1>11, FinalAfter, FinishWritesFinal
<1>13. PICK c : c = IF outcome = "retryable" THEN RetryLater(boxes, a) ELSE Pop(boxes, a)
  OBVIOUS
<1>14. Serves(e, c) /\ Closed(e)
  BY <1>1, <1>5, <1>6, <1>8, <1>12, <1>13, EndServes
<1>15. c = IF written THEN Pop(boxes, a) ELSE RetryLater(boxes, a)
  BY <1>1, <1>13
<1>16. Commits(w, c)
  BY <1>1, <1>4, <1>5, <1>7, <1>15, ZenonT(60) DEF FinishDelivery, Commit, Commits, Final
<1> QED
  BY <1>5, <1>11, <1>14, <1>16, IdleStep

LEMMA ExpireMail ==
  ASSUME OInv, MInv, "db" \notin FaultKinds, NEW h \in HandoffIds(db), ExpireDue(h)
  PROVE  MInv'
<1>1. PICK t : t = db.handoff[h].task
  OBVIOUS
<1>2. PICK ended : ended = Terminate(db, h, "timeout")
  OBVIOUS
<1>3. PICK path : path = IF t = 0 THEN <<>> ELSE ToFailed(db.task[t])
  OBVIOUS
<1>4. PICK first : first = <<ended>>
  OBVIOUS
<1>5. PICK w : w = first \o TaskWrites(ended, t, path)
  OBVIOUS
<1>6. /\ Good(db) /\ h \in DOMAIN db.handoff /\ Active(db.handoff[h]) /\ Idle /\ archived' = archived
      /\ "timeout" \in Terminations \ {None} /\ None \notin KindSet /\ None # "root"
  BY DEF OInv, HandoffIds, ExpireDue, Due, Terminations, None, KindSet
<1>7. w \in Seq(After(db))
  BY <1>1, <1>2, <1>3, <1>4, <1>5, <1>6, ExpiryAfter
<1>8. ended \in After(db) /\ ended.task = db.task
  BY <1>2, <1>6, TerminateStep
<1>9. PICK e : e = Final(db, w)
  OBVIOUS
<1>10. Good(e)
  BY <1>6, <1>7, <1>9, FinalAfter
<1>11. e.handoff = ended.handoff
  <2>1. PICK S : S = {"failed"}
    OBVIOUS
  <2>2. path \in Seq(S) /\ S \in SUBSET TaskStates
    BY <1>3, <2>1, Paths DEF TaskStates, Statuses
  <2>3. t \in DOMAIN ended.task \/ path = <<>>
    BY <1>1, <1>3, <1>6, <1>8, DatabaseTypes DEF Good, Named
  <2>4. Good(ended)
    BY <1>8 DEF After
  <2> QED
    BY <1>4, <1>5, <1>9, <2>2, <2>3, <2>4, FinalWrites
<1>12. /\ Changes(db, ended, h) /\ Follows(db.handoff[h], ended.handoff[h], None, "root")
       /\ ended.handoff[h].attempts = db.handoff[h].attempts
  BY <1>2, <1>6, TerminateChange DEF Active
<1>13. /\ Changes(db, e, h) /\ Follows(db.handoff[h], e.handoff[h], None, "root")
       /\ e.handoff[h].attempts = db.handoff[h].attempts
  BY <1>11, <1>12 DEF Changes
<1>14. Given
  BY <1>6, IdleClosed DEF Given
<1>15. Settles(Result(w, h, None, TRUE))
  BY <1>6, <1>9, <1>10, <1>13, <1>14, SettlesChange
<1>16. Commits(w, RemovePending(boxes, h))
  BY <1>1, <1>2, <1>3, <1>4, <1>5, ZenonT(60) DEF ExpireDue, Idle, Commit, Commits, Final
<1>17. RemovePending(boxes, h) = Enqueue(RemovePending(boxes, h), Final(db, w), h, None)
  BY <1>6, EnqueueNone
<1> QED
  BY <1>6, <1>15, <1>16, <1>17, SettledStep

\* The clock changes what is due, and no message.
LEMMA TickMail ==
  ASSUME OInv, MInv, Tick
  PROVE  MInv'
<1>1. /\ db' = [db EXCEPT !.handoff = [h \in DOMAIN db.handoff |-> Aged(db.handoff[h])]]
      /\ boxes' = [a \in Agents |-> [i \in DOMAIN boxes[a] |->
                 [boxes[a][i] EXCEPT !.wait = IF @ > 0 THEN @ - 1 ELSE 0]]]
      /\ inbox' = inbox /\ inflight' = NoRequest /\ inflight = NoRequest /\ up' = up /\ archived' = archived
  BY DEF Tick
<1>2. CASE ~up
  <2>1. boxes = Empty
    BY <1>2 DEF MInv
  <2>2. boxes' = Empty
    <3>1. \A a \in Agents : boxes[a] = <<>> /\ DOMAIN boxes[a] = {}
      BY <2>1 DEF Empty
    <3>2. \A a \in Agents : boxes'[a] = <<>>
      BY <1>1, <3>1
    <3> QED
      BY <1>1, <3>2 DEF Empty
  <2> QED
    BY <1>1, <1>2, <2>2, DownStep
<1>3. CASE up
  <2>1. Idle /\ Good(db)
    BY <1>1, <1>3 DEF Idle, OInv
  <2>2. Closed(db) /\ Serves(db, boxes) /\ (Opened => archived = {}) /\ Asked(inbox)
    BY <2>1, IdleClosed
  <2>3. PICK c : c = boxes'
    OBVIOUS
  <2>4. Queues(c) /\ Thins(boxes, c) /\ \A g, n : Pending(c, g, n) <=> Pending(boxes, g, n)
    BY <1>1, <2>2, <2>3, AgedBoxes DEF Serves
  <2>5. PICK e : e = db'
    OBVIOUS
  <2>6. DOMAIN e.handoff = DOMAIN db.handoff /\ \A h \in DOMAIN db.handoff : e.handoff[h] = Aged(db.handoff[h])
    BY <1>1, <2>1, <2>5 DEF Good, Databases
  <2>7. \A h \in DOMAIN db.handoff :
          /\ e.handoff[h].attempts = db.handoff[h].attempts /\ e.handoff[h].source = db.handoff[h].source
          /\ e.handoff[h].response = db.handoff[h].response
          /\ e.handoff[h].termination = db.handoff[h].termination
          /\ Messages(e.handoff[h]) = Messages(db.handoff[h])
    <3> SUFFICES ASSUME NEW h \in DOMAIN db.handoff, NEW r, r = db.handoff[h], NEW q, q = Aged(r)
                 PROVE  /\ q.attempts = r.attempts /\ q.source = r.source /\ q.response = r.response
                        /\ q.termination = r.termination /\ Messages(q) = Messages(r)
      BY <2>6
    <3>1. r \in HandoffRecord
      BY <2>1, DatabaseTypes DEF Good
    <3>2. /\ q.attempts = r.attempts /\ q.source = r.source /\ q.response = r.response
          /\ q.termination = r.termination /\ (q.progress <=> r.progress)
      BY <3>1 DEF Aged, HandoffRecord
    <3> QED
      BY <3>2 DEF Messages
  <2>8. \A h \in DOMAIN db.handoff : /\ \A n : DeliveryTerminal(e.handoff[h], n) <=> DeliveryTerminal(db.handoff[h], n)
                                     /\ Attempting(e.handoff[h]) <=> Attempting(db.handoff[h])
    BY <2>7, SameAttempts
  <2>9. \A h \in DOMAIN db.handoff :
          /\ \A n : Waits(e.handoff[h], n) <=> Waits(db.handoff[h], n)
          /\ \A n : Fits(e.handoff[h], n) <=> Fits(db.handoff[h], n)
          /\ Tried(e.handoff[h]) <=> Tried(db.handoff[h])
    BY <2>7, <2>8 DEF Waits, Fits, Tried
  <2>10. Fitting(e, c) /\ (Opened => Kept(e, c))
    BY <2>2, <2>4, <2>6, <2>9 DEF Serves, Fitting, Kept
  <2>11. Once(c) /\ (Unresumed => PromptsOrdered(c))
    BY <2>2, <2>4, ThinsFacts DEF Serves
  <2>12. Serves(e, c)
    BY <2>4, <2>10, <2>11 DEF Serves
  <2>13. Closed(e)
    BY <2>2, <2>6, <2>8 DEF Closed
  <2> QED
    BY <1>1, <1>3, <2>2, <2>3, <2>5, <2>12, <2>13, UpStep DEF Closed
<1> QED
  BY <1>2, <1>3

LEMMA CancelMail ==
  ASSUME OInv, MInv, "db" \notin FaultKinds, NEW t \in DOMAIN db.task, UserCancel(t)
  PROVE  MInv'
<1>1. PICK h : h = Latest(t)
  OBVIOUS
<1>2. PICK d : d = CancelTask(db, h, "user")
  OBVIOUS
<1>3. PICK w : w = <<d>>
  OBVIOUS
<1>4. /\ Idle /\ Active(db.handoff[h]) /\ db.task[t] \in Open /\ Good(db) /\ archived' = archived
      /\ h \in DOMAIN db.handoff /\ db.handoff[h].task = t
      /\ "user" \in Terminations \ {None} /\ "cancelled" \in TaskStates /\ "cancel" # "root"
  BY <1>1, LatestFacts DEF OInv, UserCancel, Terminations, None, TaskStates
<1>5. d \in After(db)
  BY <1>2, <1>4, CancelTaskAfter
<1>6. PICK ended : ended = Terminate(db, h, "user")
  OBVIOUS
<1>7. ended \in After(db) /\ ended.task = db.task
  BY <1>4, <1>6, TerminateStep
<1>8. d.handoff = ended.handoff
  BY <1>2, <1>4, <1>6, <1>7, TaskChanged DEF CancelTask, After
<1>9. Final(db, w) = d /\ Good(d)
  BY <1>3, <1>5, Single DEF Final, After
<1>10. /\ Changes(db, ended, h) /\ Follows(db.handoff[h], ended.handoff[h], "cancel", "root")
       /\ ended.handoff[h].attempts = db.handoff[h].attempts
  BY <1>4, <1>6, TerminateChange DEF Active
<1>11. /\ Changes(db, d, h) /\ Follows(db.handoff[h], d.handoff[h], "cancel", "root")
       /\ d.handoff[h].attempts = db.handoff[h].attempts
  BY <1>8, <1>10 DEF Changes
<1>12. Given
  BY <1>4, IdleClosed DEF Given
<1>13. Settles(Result(w, h, "cancel", TRUE))
  BY <1>4, <1>9, <1>11, <1>12, SettlesChange
<1>14. Commits(w, Enqueue(RemovePending(boxes, h), d, h, "cancel"))
  BY <1>1, <1>2, <1>3, ZenonT(60) DEF UserCancel, Idle, Commit, Commits, Final
<1> QED
  BY <1>4, <1>9, <1>13, <1>14, SettledStep

\* A new handoff of the user or of a routine.
LEMMA NewMail ==
  ASSUME OInv, MInv, "db" \notin FaultKinds, Idle, archived' = archived, NEW e \in After(db),
         NEW root, NEW source, NEW recipient, NEW task, NEW deadline,
         NEW r, r = Tracked(root, source, recipient, task, deadline), r \in HandoffRecord,
         e.handoff = AddHandoff(db, r).handoff, NEW h, h = Len(db.handoff) + 1,
         NEW w, w = <<e>>, Commits(w, Enqueue(boxes, e, h, "root"))
  PROVE  MInv'
<1>1. Given /\ Closed(db)
  BY IdleClosed DEF Given, OInv
<1>2. Final(db, w) = e /\ Good(e)
  BY Single DEF Final, After
<1>3. Serves(e, Enqueue(boxes, e, h, "root")) /\ Calm(db, e)
  BY <1>1, <1>2, NewServes
<1>4. Closed(e)
  BY <1>1, <1>3, CalmClosed
<1> QED
  BY <1>2, <1>3, <1>4, IdleStep

LEMMA ResumeMail ==
  ASSUME OInv, MInv, "db" \notin FaultKinds, NEW t \in DOMAIN db.task, UserResume(t)
  PROVE  MInv'
<1>1. PICK h : h = Latest(t)
  OBVIOUS
<1>2. PICK r : r = db.handoff[h]
  OBVIOUS
<1>3. PICK n : n = Len(db.handoff) + 1
  OBVIOUS
<1>4. /\ Idle /\ archived' = archived /\ db.task[t] = "blocked" /\ "resume" \in UserActions
      /\ h \in DOMAIN db.handoff /\ Last(db, t, h) /\ Good(db)
  BY <1>1, LatestFacts DEF OInv, UserResume
<1>5. n \in Nat \ {0} /\ t \in Nat /\ r \in HandoffRecord
  BY <1>2, <1>3, <1>4, DatabaseTypes DEF Good
<1>6. "running" \in TaskStates /\ "blocked" \in Open /\ None \notin KindSet
  BY DEF TaskStates, Open, None, KindSet
<1>7. CASE Active(r)
  <2>1. PICK d : d = SetTask(db, t, "running")
    OBVIOUS
  <2>2. Good(d) /\ d.handoff = db.handoff
    <3>1. Good(d)
      BY <1>4, <1>6, <2>1, Unreasoned, TaskStep
    <3> QED
      BY <1>4, <1>6, <2>1, <3>1, TaskChanged DEF Good
  <2>3. PICK w : w = <<d>>
    OBVIOUS
  <2>4. Final(db, w) = d
    BY <2>3, Single DEF Final
  <2>5. Given
    BY <1>4, IdleClosed DEF Given
  <2>6. Changes(db, d, h) /\ Follows(db.handoff[h], d.handoff[h], "root", None)
    BY <1>6, <2>2, SameFollows DEF Changes
  <2>7. ~Unresumed
    BY <1>4 DEF Unresumed
  <2>8. Settles(Result(w, h, "root", FALSE))
    BY <1>4, <1>6, <2>2, <2>4, <2>5, <2>6, <2>7, SettlesChange
  <2>9. Commits(w, Enqueue(boxes, d, h, "root"))
    BY <1>1, <1>2, <1>7, <2>1, <2>3, ZenonT(60) DEF UserResume, Idle, Commit, Commits, Final
  <2> QED
    BY <1>4, <2>4, <2>8, <2>9, SettledStep
<1>8. CASE ~Active(r)
  <2>1. PICK q : q = Tracked(UserRoot(n), r.source, r.recipient, t, NoDeadline)
    OBVIOUS
  <2>2. q \in HandoffRecord /\ RecordSound(q) /\ q.root < 0 /\ q.root \in Int /\ q.task = t
    BY <1>5, <2>1, UserHandoff
  <2>20. NewRoot(db, q.root)
    BY <1>1, <1>2, <1>8, <2>2 DEF UserResume, UserRoom, NewRoot, UserOwn, HandoffIds
  <2>3. PICK e : e = AddHandoff(db, q)
    OBVIOUS
  <2>4. Good(e) /\ e.task = db.task /\ Keeps(db, e)
    BY <1>2, <1>4, <1>8, <2>2, <2>3, <2>20, AddStep
  <2>5. PICK d : d = SetTask(e, t, "running")
    OBVIOUS
  <2>6. Good(d) /\ Keeps(e, d)
    BY <1>4, <1>6, <2>4, <2>5, Unreasoned, TaskStep
  <2>7. e \in After(db) /\ d \in After(e)
    BY <2>4, <2>6 DEF After, Good
  <2>8. d \in After(db)
    BY <1>4, <2>7, AfterAfter DEF Good
  <2>9. d = ResumeTask(db, q)
    BY <2>2, <2>3, <2>5 DEF ResumeTask
  <2>10. d.handoff = AddHandoff(db, q).handoff
    BY <1>6, <2>3, <2>4, <2>5, TaskChanged DEF Good
  <2>11. PICK w : w = <<d>>
    OBVIOUS
  <2>12. Commits(w, Enqueue(boxes, d, n, "root"))
    BY <1>1, <1>2, <1>3, <1>8, <2>1, <2>9, <2>11, ZenonT(60) DEF UserResume, Idle, Commit, Commits, Final
  <2> QED
    BY <1>3, <1>4, <2>1, <2>2, <2>8, <2>10, <2>11, <2>12, NewMail
<1> QED
  BY <1>7, <1>8

LEMMA RetryMail ==
  ASSUME OInv, MInv, "db" \notin FaultKinds, NEW t \in DOMAIN db.task, UserRetry(t)
  PROVE  MInv'
<1>1. PICK h : h = Latest(t)
  OBVIOUS
<1>2. PICK r : r = db.handoff[h]
  OBVIOUS
<1>3. PICK n : n = Len(db.handoff) + 1
  OBVIOUS
<1>4. PICK u : u = Len(db.task) + 1
  OBVIOUS
<1>5. Idle /\ archived' = archived /\ h \in DOMAIN db.handoff /\ Good(db)
  BY <1>1, LatestFacts DEF OInv, UserRetry
<1>6. n \in Nat \ {0} /\ u \in Nat /\ r \in HandoffRecord
  BY <1>2, <1>3, <1>4, <1>5, DatabaseTypes DEF Good
<1>7. PICK q : q = Tracked(UserRoot(n), r.source, r.recipient, u, NoDeadline)
  OBVIOUS
<1>8. q \in HandoffRecord /\ RecordSound(q) /\ q.root < 0 /\ q.root \in Int /\ q.task = u
  BY <1>6, <1>7, UserHandoff
<1>20. NewRoot(db, q.root)
  BY <1>8 DEF UserRetry, UserRoom, NewRoot, UserOwn, HandoffIds
<1>9. PICK d : d = AddTaskHandoff(db, q)
  OBVIOUS
<1>10. Good(d) /\ Keeps(db, d)
  BY <1>4, <1>5, <1>8, <1>9, <1>20, AddTaskStep
<1>11. d \in After(db) /\ d.handoff = AddHandoff(db, q).handoff
  BY <1>5, <1>9, <1>10 DEF After, AddTaskHandoff, AddHandoff, Good, Databases
<1>12. PICK w : w = <<d>>
  OBVIOUS
<1>13. Commits(w, Enqueue(boxes, d, n, "root"))
  BY <1>1, <1>2, <1>3, <1>4, <1>7, <1>9, <1>12, ZenonT(60) DEF UserRetry, Idle, Commit, Commits, Final
<1> QED
  BY <1>3, <1>5, <1>7, <1>8, <1>11, <1>12, <1>13, NewMail

LEMMA DispatchMail ==
  ASSUME OInv, MInv, "db" \notin FaultKinds, NEW s \in Sends, DispatchRoutine(s)
  PROVE  MInv'
<1>1. PICK u : u = Len(db.task) + 1
  OBVIOUS
<1>2. PICK q : q = Tracked(s, From[s], To[s], u, Timeout[s])
  OBVIOUS
<1>3. PICK d : d = AddTaskHandoff(db, q)
  OBVIOUS
<1>4. PICK n : n = Len(db.handoff) + 1
  OBVIOUS
<1>5. Idle /\ archived' = archived /\ Good(db)
  BY DEF OInv, DispatchRoutine
<1>6. d \in After(db)
  BY <1>1, <1>2, <1>3, <1>5, NewTaskAfter DEF NewHandoff, DispatchRoutine, Find, HandoffIds
<1>7. q \in HandoffRecord
  <2>1. u \in Nat
    BY <1>1, <1>5, DatabaseTypes DEF Good
  <2>2. PICK source : source = From[s]
    OBVIOUS
  <2>3. q = Tracked(s, source, To[s], u, Timeout[s])
    BY <1>2, <2>2
  <2> QED
    BY <2>1, <2>2, <2>3, SendFacts, TrackedFacts
<1>8. d.handoff = AddHandoff(db, q).handoff
  BY <1>3, <1>5, <1>6 DEF After, AddTaskHandoff, AddHandoff, Good, Databases
<1>9. PICK w : w = <<d>>
  OBVIOUS
<1>10. Commits(w, Enqueue(boxes, d, n, "root"))
  BY <1>1, <1>2, <1>3, <1>4, <1>9, ZenonT(60) DEF DispatchRoutine, NewHandoff, Idle, Commit, Commits, Final
<1> QED
  BY <1>2, <1>4, <1>5, <1>6, <1>7, <1>8, <1>9, <1>10, NewMail

\* Closed and reopened windows, and steps that do not touch the mailboxes.
LEMMA OtherMail ==
  ASSUME MInv, db' = db, boxes' = boxes, inflight' = inflight, up' = up, inbox' = inbox,
         Opened => archived' = {}
  PROVE  MInv'
<1>1. CASE up
  <2>1. /\ Serves(db', boxes') /\ Asked(inbox')
        /\ \A h \in DOMAIN db'.handoff : Attempting(db'.handoff[h]) => inflight' # NoRequest /\ inflight'.h = h
    BY <1>1 DEF MInv, OneOpen, HandoffIds
  <2>2. inflight' # NoRequest =>
           /\ inflight'.agent \in Agents /\ boxes'[inflight'.agent] # <<>>
           /\ boxes'[inflight'.agent][1].h = inflight'.h /\ boxes'[inflight'.agent][1].msg = inflight'.msg
    BY DEF MInv, AtFront
  <2> QED
    BY <1>1, <2>1, <2>2, UpStep
<1>2. CASE ~up
  <2>1. AtFront'
    BY DEF MInv, AtFront
  <2>2. Asked(inbox)' /\ (boxes = Empty)'
    BY <1>2 DEF MInv, Asked, Empty
  <2> QED
    BY <1>2, <2>1, <2>2 DEF MInv, Opened
<1> QED
  BY <1>1, <1>2

LEMMA RecoverAttemptMail ==
  ASSUME OInv, MInv, NEW h \in HandoffIds(db), RecoverAttempt(h)
  PROVE  MInv'
<1>1. /\ ~up' /\ ~up /\ boxes' = boxes /\ inflight' = inflight /\ inbox' = inbox /\ archived' = archived
  BY DEF RecoverAttempt
<1>2. boxes = Empty /\ inflight = NoRequest
  BY <1>1 DEF MInv, OInv
<1> QED
  BY <1>1, <1>2, DownStep

LEMMA RecoverMail ==
  ASSUME OInv, MInv, Recover
  PROVE  MInv'
<1>1. /\ ~up /\ up' /\ inflight' = inflight /\ inbox' = inbox /\ archived' = archived /\ db' = db
      /\ \A h \in DOMAIN db.handoff : ~Attempting(db.handoff[h])
      /\ inflight = NoRequest /\ Asked(inbox) /\ (Opened => archived = {}) /\ Good(db)
  BY DEF Recover, OInv, MInv, HandoffIds
<1>2. PICK c : c = [a \in Agents |-> CandidatesFor(a)]
  OBVIOUS
<1>3. boxes' = c \/ (boxes' = Empty /\ archived # {})
  BY <1>2 DEF Recover, Empty
<1>4. Serves(db, c)
  <2>1. /\ Queues(c) /\ Once(c) /\ PromptsOrdered(c)
        /\ \A h, m : Pending(c, h, m) =>
             h \in DOMAIN db.handoff /\ m \in KindSet /\ Recoverable(db.handoff[h], m)
        /\ \A h \in DOMAIN db.handoff, m \in KindSet :
             Recoverable(db.handoff[h], m) /\ Addressee(db.handoff[h], m) \in Agents => Pending(c, h, m)
    BY <1>1, <1>2, RecoverFacts
  <2>2. ASSUME NEW h \in DOMAIN db.handoff, NEW m, Recoverable(db.handoff[h], m)
        PROVE  Fits(db.handoff[h], m)
    <3>1. RecordSound(db.handoff[h])
      BY <1>1 DEF Good, Named
    <3> QED
      BY <2>2, <3>1, DeliveredIsTerminal DEF Recoverable, Fits, RecordSound
  <2>3. ASSUME NEW h \in DOMAIN db.handoff, NEW m \in KindSet, Waits(db.handoff[h], m), ~Tried(db.handoff[h])
        PROVE  Recoverable(db.handoff[h], m) /\ Addressee(db.handoff[h], m) \in Agents
    <3>1. db.handoff[h].recipient \in Agents /\ db.handoff[h].source \in Agents \cup {Routine}
      BY <1>1, DatabaseTypes DEF Good, HandoffRecord
    <3> QED
      BY <2>3, <3>1 DEF Recoverable, Waits, Tried, Addressee, KindSet
  <2>4. Fitting(db, c)
    BY <2>1, <2>2 DEF Fitting
  <2>5. Kept(db, c)
    BY <2>1, <2>3 DEF Kept
  <2> QED
    BY <2>1, <2>4, <2>5 DEF Serves
<1>5. Serves(db', boxes')
  <2>1. CASE boxes' = c
    BY <1>1, <1>4, <2>1
  <2>2. CASE boxes' = Empty /\ archived # {}
    BY <1>1, <2>2, EmptyServes
  <2> QED
    BY <1>3, <2>1, <2>2
<1> QED
  BY <1>1, <1>5, UpStep

LEMMA MailStepLemma ==
  ASSUME OInv, MInv, "db" \notin FaultKinds, [Next]_vars
  PROVE  MInv'
<1>0. MInv => (Opened => archived = {})
  BY DEF MInv
<1>1. CASE \E p \in Posts : Post(p)
  BY <1>1, PostMail
<1>2. CASE Accept
  BY <1>2, AcceptMail
<1>3. CASE DropTerminated
  BY <1>3, DropMail
<1>4. CASE PrepareNext
  BY <1>4, PrepareMail
<1>5. CASE \E written \in BOOLEAN : FinishDelivery(written)
  BY <1>5, FinishMail
<1>6. CASE Expire
  BY <1>6, ExpireMail DEF Expire
<1>7. CASE Tick
  BY <1>7, TickMail
<1>8. CASE User
  BY <1>8, CancelMail, ResumeMail, RetryMail DEF User
<1>9. CASE Windows
  BY <1>0, <1>9, OtherMail DEF Windows, Archive, Restore, Opened
<1>10. CASE \E s \in Sends : DispatchRoutine(s)
  BY <1>10, DispatchMail
<1>11. CASE \E s \in Sends : Reregister(s)
  BY <1>0, <1>11, OtherMail DEF Reregister
<1>12. CASE Crash
  <2>1. Stop("crash") /\ inbox' = inbox /\ archived' = archived
    BY <1>12 DEF Crash
  <2> QED
    BY <2>1, Stopped, DownStep
<1>13. CASE Recover
  BY <1>13, RecoverMail
<1>14. CASE RecoverFails
  BY <1>14 DEF RecoverFails
<1>15. CASE \E h \in HandoffIds(db) : RecoverAttempt(h)
  BY <1>15, RecoverAttemptMail
<1>16. CASE UNCHANGED vars
  BY <1>0, <1>16, OtherMail DEF vars
<1> QED
  BY <1>1, <1>2, <1>3, <1>4, <1>5, <1>6, <1>7, <1>8, <1>9, <1>10, <1>11, <1>12, <1>13, <1>14, <1>15, <1>16
     DEF Next, Deliver, Routines, RecoverStep

LEMMA MailInit ==
  ASSUME Init
  PROVE  MInv
<1>1. /\ db.handoff = <<>> /\ inbox = <<>> /\ boxes = Empty /\ inflight = NoRequest /\ up /\ archived = {}
  BY DEF Init, Empty
<1>2. DOMAIN db.handoff = {} /\ DOMAIN inbox = {}
  BY <1>1
<1>3. OneOpen /\ AtFront /\ Asked(inbox)
  BY <1>1, <1>2 DEF OneOpen, AtFront, Asked, HandoffIds
<1>4. Serves(db, boxes)
  BY <1>1, NothingServes
<1> QED
  BY <1>1, <1>3, <1>4 DEF MInv

\* While storage works, the mailboxes of the running application hold what the
\* database says is to be delivered, whatever clients, agents, users, windows,
\* lost acknowledgements and crashes do.
THEOREM MailboxesInductive ==
  ASSUME "db" \notin FaultKinds
  PROVE  Spec => [](OInv /\ MInv)
<1>1. OInv /\ MInv /\ [Next]_vars => OInv' /\ MInv'
  BY StepLemma, MailStepLemma
<1>2. Init => OInv /\ MInv
  BY InitLemma, MailInit
<1> QED
  BY <1>1, <1>2, PTL DEF Spec

-----------------------------------------------------------------------------
(* What it implies *)

LEMMA KeptIsNothingLost ==
  ASSUME MInv, Opened
  PROVE  NothingLost
<1> SUFFICES ASSUME Idle, NEW h \in HandoffIds(db), NEW m \in Unsettled(h)
             PROVE  Pending(boxes, h, m) \/ (db.handoff[h].source = Routine /\ db.handoff[h].attempts # <<>>)
  BY DEF NothingLost
<1>1. m \in KindSet /\ Waits(db.handoff[h], m) /\ h \in DOMAIN db.handoff
  BY DEF Unsettled, Waits, Messages, KindSet, HandoffIds
<1>2. Kept(db, boxes)
  BY DEF MInv, Idle, Serves
<1> QED
  BY <1>1, <1>2 DEF Kept, Tried

\* As long as no window is closed and no transaction fails, every accepted
\* message that still has to reach an agent waits in its mailbox, or is routine
\* work that was attempted: the handlers enqueue what they record, recovery
\* rebuilds what a crash cost, and nothing is dropped but what ended.
THEOREM NothingIsLost ==
  ASSUME Archivable = {}, "db" \notin FaultKinds
  PROVE  Spec => []NothingLost
<1>1. Opened
  BY DEF Opened
<1>2. OInv /\ MInv => NothingLost
  BY <1>1, KeptIsNothingLost
<1> QED
  BY <1>2, MailboxesInductive, PTL

LEMMA FittingIsDeliverable ==
  ASSUME MInv
  PROVE  FrontDeliverable
<1> SUFFICES ASSUME Idle, NEW a \in Agents, NEW i \in DOMAIN boxes[a], NEW h, h = boxes[a][i].h,
                    NEW m, m = boxes[a][i].msg
             PROVE  /\ ~Attempting(db.handoff[h]) /\ ~MessageDelivered(db.handoff[h], m)
                    /\ m = "root" => db.handoff[h].response = None
  BY DEF FrontDeliverable
<1>1. Pending(boxes, h, m)
  BY DEF Pending
<1>2. Closed(db) /\ Fitting(db, boxes)
  BY IdleClosed DEF Serves
<1> QED
  BY <1>1, <1>2, DeliveredIsTerminal DEF Fitting, Fits, Closed

LEMMA FittingIsIndependent ==
  ASSUME MInv
  PROVE  RecipientsIndependent
<1> SUFFICES ASSUME Idle, Ready # {}
             PROVE  FrontWorks(NextBox)
  BY DEF RecipientsIndependent
<1>1. PICK a : a = NextBox
  OBVIOUS
<1>2. PICK h : h = boxes[a][1].h
  OBVIOUS
<1>3. PICK m : m = boxes[a][1].msg
  OBVIOUS
<1>4. Closed(db) /\ Fitting(db, boxes) /\ Queues(boxes)
  BY IdleClosed DEF Serves
<1>5. a \in Agents /\ boxes[a] # <<>>
  BY <1>1, NextFacts
<1>6. 1 \in DOMAIN boxes[a]
  BY <1>4, <1>5 DEF Queues
<1>7. Pending(boxes, h, m)
  BY <1>2, <1>3, <1>5, <1>6 DEF Pending
<1>8. ~Attempting(db.handoff[h]) /\ Fits(db.handoff[h], m) /\ ~MessageDelivered(db.handoff[h], m)
  BY <1>4, <1>7, DeliveredIsTerminal DEF Closed, Fitting, Fits
<1> QED
  BY <1>1, <1>2, <1>3, <1>8 DEF FrontWorks, MayBegin, Active, Fits

\* While no transaction fails, prepare_next can begin whatever is at the front
\* of a mailbox or drops it, so no recipient is held up by another one.
THEOREM FrontsAreDeliverable ==
  ASSUME "db" \notin FaultKinds
  PROVE  Spec => [](FrontDeliverable /\ RecipientsIndependent)
<1>1. OInv /\ MInv => FrontDeliverable /\ RecipientsIndependent
  BY FittingIsDeliverable, FittingIsIndependent
<1> QED
  BY <1>1, MailboxesInductive, PTL

LEMMA OrderedIsOrder ==
  ASSUME MInv, Unresumed
  PROVE  MailboxOrder
<1>1. Once(boxes) /\ PromptsOrdered(boxes)
  BY EmptyFacts DEF MInv, Serves
<1> QED
  BY <1>1 DEF MailboxOrder, Once, PromptsOrdered, Same

\* Prompts for one recipient wait in the order they were accepted, and no
\* message waits twice, however often it is accepted, recovered or resent, as
\* long as no window is closed, no task resumed and no transaction fails.
THEOREM MailboxesAreOrdered ==
  ASSUME Archivable = {}, "resume" \notin UserActions, "db" \notin FaultKinds
  PROVE  Spec => []MailboxOrder
<1>1. Unresumed
  BY DEF Unresumed
<1>2. OInv /\ MInv => MailboxOrder
  BY <1>1, OrderedIsOrder
<1> QED
  BY <1>2, MailboxesInductive, PTL

-----------------------------------------------------------------------------
(* Work of routines is written to a terminal once *)

\* The history of writes: nothing but handoffs is written, and routine work
\* that was written was attempted and waits no longer.
Pasted ==
  /\ pasted \in [1..MaxHandoffs -> Nat]
  /\ \A h \in (1..MaxHandoffs) \ DOMAIN db.handoff : pasted[h] = 0
  /\ \A h \in DOMAIN db.handoff : db.handoff[h].source = Routine =>
       /\ pasted[h] <= 1
       /\ pasted[h] # 0 => db.handoff[h].attempts # <<>> /\ ~Pending(boxes, h, "root")

\* A step puts no routine work back that was attempted before.
Unrepeated ==
  \A h \in DOMAIN db.handoff :
    db.handoff[h].source = Routine /\ db.handoff[h].attempts # <<>> /\ Pending(boxes', h, "root")
      => Pending(boxes, h, "root")

LEMMA HandoffRange ==
  ASSUME NEW d, Good(d)
  PROVE  DOMAIN d.handoff \subseteq 1..MaxHandoffs
<1>1. PICK k : k = Len(d.handoff)
  OBVIOUS
<1>2. k \in 0..MaxHandoffs /\ DOMAIN d.handoff = 1..k
  BY <1>1, HandoffsCounted, DatabaseTypes DEF Good
<1>3. MaxHandoffs \in Int
  BY SendAssumption, FS_CardinalityType DEF MaxHandoffs
<1> QED
  BY <1>2, <1>3

LEMMA UnpastedStep ==
  ASSUME OInv', Keeps(db, db'), Pasted, pasted' = pasted, Unrepeated
  PROVE  Pasted'
<1>1. PICK e : e = db'
  OBVIOUS
<1>2. PICK c : c = boxes'
  OBVIOUS
<1>3. /\ \A h \in DOMAIN db.handoff :
           /\ h \in DOMAIN e.handoff /\ e.handoff[h].source = db.handoff[h].source
           /\ db.handoff[h].attempts # <<>> => e.handoff[h].attempts # <<>>
  BY <1>1 DEF Keeps, KeepsEnd
<1>4. ASSUME NEW h \in DOMAIN e.handoff, e.handoff[h].source = Routine, h \in 1..MaxHandoffs
      PROVE  /\ pasted[h] <= 1
             /\ pasted[h] # 0 => e.handoff[h].attempts # <<>> /\ ~Pending(c, h, "root")
  <2>1. CASE h \in DOMAIN db.handoff
    BY <1>2, <1>3, <1>4, <2>1 DEF Pasted, Unrepeated
  <2>2. CASE h \notin DOMAIN db.handoff
    BY <1>4, <2>2 DEF Pasted
  <2> QED
    BY <2>1, <2>2
<1>5. DOMAIN e.handoff \subseteq 1..MaxHandoffs
  <2>1. Good(db')
    BY DEF OInv
  <2> QED
    BY <1>1, <2>1, HandoffRange
<1>6. \A h \in (1..MaxHandoffs) \ DOMAIN e.handoff : pasted[h] = 0
  BY <1>3 DEF Pasted
<1>7. pasted \in [1..MaxHandoffs -> Nat]
  BY DEF Pasted
<1> QED
  BY <1>1, <1>2, <1>4, <1>5, <1>6, <1>7 DEF Pasted

\* A prompt reaches a terminal.
LEMMA PastedStep ==
  ASSUME OInv, OInv', MInv, Keeps(db, db'), Pasted, Unrepeated, inflight # NoRequest, inflight.msg = "root",
         pasted' = [pasted EXCEPT ![inflight.h] = @ + 1], ~Pending(boxes', inflight.h, "root")
  PROVE  Pasted'
<1>1. PICK e : e = db'
  OBVIOUS
<1>2. PICK c : c = boxes'
  OBVIOUS
<1>3. PICK k : k = inflight.h
  OBVIOUS
<1>4. /\ k \in DOMAIN db.handoff /\ k \in 1..MaxHandoffs /\ db.handoff[k].attempts # <<>>
  <2>1. /\ k \in DOMAIN db.handoff
        /\ \E i \in DOMAIN db.handoff[k].attempts :
             db.handoff[k].attempts[i] = [msg |-> inflight.msg, outcome |-> "started"]
    BY <1>3 DEF OInv, InflightSound, HandoffIds
  <2> QED
    BY <2>1, HandoffRange DEF OInv
<1>5. Pending(boxes, k, "root")
  <2>1. /\ inflight.agent \in Agents /\ boxes[inflight.agent] # <<>>
        /\ boxes[inflight.agent][1].h = k /\ boxes[inflight.agent][1].msg = "root"
    BY <1>3 DEF MInv, AtFront
  <2>2. 1 \in DOMAIN boxes[inflight.agent]
    <3>1. up
      BY DEF OInv
    <3> QED
      BY <2>1, <3>1 DEF MInv, Serves, Queues
  <2> QED
    BY <2>1, <2>2 DEF Pending
<1>6. \A h \in DOMAIN db.handoff :
        /\ h \in DOMAIN e.handoff /\ e.handoff[h].source = db.handoff[h].source
        /\ db.handoff[h].attempts # <<>> => e.handoff[h].attempts # <<>>
  BY <1>1 DEF Keeps, KeepsEnd
<1>7. PICK f : f = pasted'
  OBVIOUS
<1>8. /\ pasted \in [1..MaxHandoffs -> Nat] /\ f = [pasted EXCEPT ![k] = @ + 1]
      /\ f \in [1..MaxHandoffs -> Nat] /\ f[k] = pasted[k] + 1
      /\ \A h \in 1..MaxHandoffs : h # k => f[h] = pasted[h]
  <2>1. pasted \in [1..MaxHandoffs -> Nat] /\ f = [pasted EXCEPT ![k] = @ + 1]
    BY <1>3, <1>7 DEF Pasted
  <2> QED
    BY <1>4, <2>1
<1>9. ASSUME NEW h \in DOMAIN e.handoff, e.handoff[h].source = Routine, h \in 1..MaxHandoffs
      PROVE  /\ f[h] <= 1
             /\ f[h] # 0 => e.handoff[h].attempts # <<>> /\ ~Pending(c, h, "root")
  <2>1. CASE h = k
    <3>1. pasted[h] = 0
      BY <1>4, <1>5, <1>6, <1>9, <2>1 DEF Pasted
    <3> QED
      BY <1>2, <1>3, <1>4, <1>6, <1>8, <2>1, <3>1
  <2>2. CASE h # k /\ h \in DOMAIN db.handoff
    BY <1>2, <1>6, <1>8, <1>9, <2>2 DEF Pasted, Unrepeated
  <2>3. CASE h # k /\ h \notin DOMAIN db.handoff
    BY <1>8, <1>9, <2>3 DEF Pasted
  <2> QED
    BY <2>1, <2>2, <2>3
<1>10. \A h \in (1..MaxHandoffs) \ DOMAIN e.handoff : f[h] = 0
  BY <1>4, <1>6, <1>8 DEF Pasted
<1>11. DOMAIN e.handoff \subseteq 1..MaxHandoffs
  <2>1. Good(db')
    BY DEF OInv
  <2> QED
    BY <1>1, <2>1, HandoffRange
<1> QED
  BY <1>1, <1>2, <1>7, <1>8, <1>9, <1>10, <1>11 DEF Pasted

-----------------------------------------------------------------------------
(* No handler puts routine work back that was attempted *)

LEMMA StillUnrepeated ==
  ASSUME boxes' = boxes \/ boxes' = Empty
  PROVE  Unrepeated
<1>1. \A h, m : ~Pending(Empty, h, m)
  BY EmptyFacts
<1>2. CASE boxes' = boxes
  BY <1>2 DEF Unrepeated, Pending
<1>3. CASE boxes' = Empty
  BY <1>1, <1>3 DEF Unrepeated
<1> QED
  BY <1>2, <1>3

LEMMA FewerUnrepeated ==
  ASSUME NEW c, c = boxes', \A g, n : Pending(c, g, n) => Pending(boxes, g, n)
  PROVE  Unrepeated
  BY DEF Unrepeated

LEMMA EnqueueOnly ==
  ASSUME NEW b, Queues(b), NEW d, NEW h, NEW m, NEW c, c = Enqueue(b, d, h, m), NEW g, NEW n, Pending(c, g, n)
  PROVE  Pending(b, g, n) \/ (g = h /\ n = m)
<1>1. CASE c = b
  BY <1>1
<1>2. CASE c # b
  <2>1. PICK p : p = NewPending(d, h, m)
    OBVIOUS
  <2>2. PICK x : x = Addressee(d.handoff[h], m)
    OBVIOUS
  <2>3. x \in Agents /\ c = [b EXCEPT ![x] = Append(b[x], p)]
    BY <1>2, <2>1, <2>2 DEF Enqueue, Enqueueable
  <2>4. p.h = h /\ p.msg = m
    BY <2>1 DEF NewPending
  <2>5. PICK a \in Agents : \E i \in DOMAIN c[a] : c[a][i].h = g /\ c[a][i].msg = n
    BY DEF Pending
  <2>9. PICK i \in DOMAIN c[a] : c[a][i].h = g /\ c[a][i].msg = n
    BY <2>5
  <2>6. PICK W : b \in [Agents -> Seq(Items(W))]
    BY DEF Queues
  <2>7. CASE a = x
    <3>1. PICK q \in Seq(Items(W)) : q = b[a]
      BY <2>6
    <3>2. c[a] = Append(q, p)
      BY <2>3, <2>6, <2>7, <3>1
    <3>3. (i \in DOMAIN q /\ c[a][i] = q[i]) \/ c[a][i] = p
      BY <2>9, <3>1, <3>2
    <3> QED
      BY <2>4, <2>9, <3>1, <3>3 DEF Pending
  <2>8. CASE a # x
    <3>1. c[a] = b[a]
      BY <2>3, <2>6, <2>8
    <3> QED
      BY <2>9, <3>1 DEF Pending
  <2> QED
    BY <2>7, <2>8
<1> QED
  BY <1>1, <1>2

\* A handler that enqueues a prompt does it for a new conversation or one
\* that is not a routine's.
LEMMA EnqueueUnrepeated ==
  ASSUME MInv, up, NEW x, NEW drop \in BOOLEAN,
         NEW k, k = (IF drop THEN RemovePending(boxes, x) ELSE boxes), NEW d, NEW h, NEW m,
         m = "root" /\ h \in DOMAIN db.handoff => db.handoff[h].source # Routine,
         boxes' = Enqueue(k, d, h, m)
  PROVE  Unrepeated
<1>1. Queues(boxes)
  BY DEF MInv, Serves
<1>2. Queues(k) /\ \A g, n : Pending(k, g, n) => Pending(boxes, g, n)
  <2>1. CASE drop
    BY <1>1, <2>1, RemoveFacts
  <2>2. CASE ~drop
    BY <1>1, <2>2
  <2> QED
    BY <2>1, <2>2
<1>3. PICK c : c = boxes'
  OBVIOUS
<1>4. \A g, n : Pending(c, g, n) => Pending(boxes, g, n) \/ (g = h /\ n = m)
  BY <1>2, <1>3, EnqueueOnly
<1> QED
  BY <1>3, <1>4 DEF Unrepeated

LEMMA StopUnrepeated ==
  ASSUME "db" \notin FaultKinds, NEW kind \in {"crash", "db"}, Stop(kind)
  PROVE  Unrepeated
  BY Stopped, StillUnrepeated

LEMMA CommitsUnrepeated ==
  ASSUME MInv, up, "db" \notin FaultKinds, NEW w, NEW x, NEW drop \in BOOLEAN,
         NEW k, k = (IF drop THEN RemovePending(boxes, x) ELSE boxes), NEW d, NEW h, NEW m,
         m = "root" /\ h \in DOMAIN db.handoff => db.handoff[h].source # Routine,
         Commits(w, Enqueue(k, d, h, m))
  PROVE  Unrepeated
<1>1. CASE boxes' = Enqueue(k, d, h, m)
  BY <1>1, EnqueueUnrepeated
<1>2. CASE \E kind \in {"crash", "db"} : Stop(kind)
  BY <1>2, StopUnrepeated
<1> QED
  BY <1>1, <1>2 DEF Commits

LEMMA HandlePrompts ==
  ASSUME Good(db), NEW p \in Posts, p.type = "send" => From[p.root] # Routine, NEW r, r = Handle(p),
         r.msg = "root", r.h \in DOMAIN db.handoff
  PROVE  db.handoff[r.h].source # Routine
<1>1. PICK s \in Sends : s = p.root
  BY PostAssumption
<1>2. CASE p.type = "send"
  <2>1. r = AcceptHandoff(s)
    BY <1>1, <1>2 DEF Handle
  <2>2. CASE Find(s) # {}
    <3>1. PICK h : h = CHOOSE z \in Find(s) : TRUE
      OBVIOUS
    <3>2. r.h = h
      BY <2>1, <2>2, <3>1 DEF AcceptHandoff, Result
    <3>3. h \in DOMAIN db.handoff /\ db.handoff[h].root = s
      BY <2>2, <3>1, FindFacts
    <3> QED
      BY <1>1, <1>2, <3>2, <3>3 DEF Good, Named, RecordSound
  <2>3. CASE Find(s) = {}
    <3>1. r.h = Len(db.handoff) + 1
      BY <2>1, <2>3 DEF AcceptHandoff, Result, Rejected, None
    <3> QED
      BY <3>1, DatabaseTypes DEF Good
  <2> QED
    BY <2>2, <2>3
<1>3. \A m, recorded, record, legal, path : m # "root" => AcceptReport(s, m, recorded, record, legal, path).msg # "root"
  BY DEF AcceptReport, Result, Rejected, None
<1>4. CASE p.type = "progress"
  BY <1>1, <1>3, <1>4 DEF Handle, AcceptProgress
<1>5. CASE p.type = "respond"
  BY <1>1, <1>3, <1>5 DEF Handle, AcceptResponse
<1>6. CASE p.type = "cancel"
  <2>1. r = AcceptCancellation(s)
    BY <1>1, <1>6 DEF Handle
  <2>2. AcceptCancellation(s).msg # "root"
    BY DEF AcceptCancellation, Result, Rejected, Announced, None
  <2> QED
    BY <2>1, <2>2
<1> QED
  BY <1>2, <1>4, <1>5, <1>6, PostAssumption

LEMMA AcceptUnrepeated ==
  ASSUME OInv, MInv, "db" \notin FaultKinds, Accept
  PROVE  Unrepeated
<1>1. PICK p : p = Head(inbox)
  OBVIOUS
<1>2. p \in Posts /\ Idle /\ (p.type = "send" => From[p.root] # Routine) /\ Good(db)
  <2>1. inbox # <<>> /\ inbox \in Seq(Posts) /\ Idle /\ Asked(inbox) /\ Good(db)
    BY DEF OInv, MInv, Accept
  <2>2. p = inbox[1] /\ 1 \in DOMAIN inbox
    BY <1>1, <2>1
  <2> QED
    BY <2>1, <2>2 DEF Asked
<1>3. PICK r : r = Handle(p)
  OBVIOUS
<1>4. PICK e : e = Final(db, r.writes)
  OBVIOUS
<1>5. PICK k : k = IF r.drop THEN RemovePending(boxes, r.h) ELSE boxes
  OBVIOUS
<1>6. PICK c : c = Enqueue(k, e, r.h, r.msg)
  OBVIOUS
<1>7. c = IF r.msg = None THEN k ELSE Enqueue(k, e, r.h, r.msg)
  <2>1. None \notin KindSet
    BY DEF None, KindSet
  <2> QED
    BY <1>6, <2>1, EnqueueNone
<1>8. boxes' = c \/ \E kind \in {"crash", "db"} : Stop(kind)
  BY <1>1, <1>3, <1>4, <1>5, <1>7 DEF Accept, Commit, Final
<1>9. CASE boxes' = c
  <2>1. r.msg = "root" /\ r.h \in DOMAIN db.handoff => db.handoff[r.h].source # Routine
    BY <1>2, <1>3, HandlePrompts
  <2>2. PICK drop \in BOOLEAN : k = IF drop THEN RemovePending(boxes, r.h) ELSE boxes
    BY <1>5
  <2>3. up
    BY <1>2 DEF Idle
  <2> QED
    BY <1>6, <1>9, <2>1, <2>2, <2>3, EnqueueUnrepeated
<1>10. CASE \E kind \in {"crash", "db"} : Stop(kind)
  BY <1>10, StopUnrepeated
<1> QED
  BY <1>8, <1>9, <1>10

LEMMA DropUnrepeated ==
  ASSUME MInv, DropTerminated
  PROVE  Unrepeated
<1>1. PICK h : h = boxes[NextBox][1].h
  OBVIOUS
<1>2. PICK c : c = boxes'
  OBVIOUS
<1>3. up /\ c = RemovePending(boxes, h)
  BY <1>1, <1>2 DEF DropTerminated, Idle
<1>4. Queues(boxes)
  BY <1>3 DEF MInv, Serves
<1> QED
  BY <1>2, <1>3, <1>4, RemoveFacts, FewerUnrepeated

LEMMA PopUnrepeated ==
  ASSUME MInv, up, NEW a \in Agents, boxes[a] # <<>>, boxes' = Pop(boxes, a)
  PROVE  Unrepeated /\ ~Pending(boxes', boxes[a][1].h, boxes[a][1].msg)
<1>1. PICK c : c = boxes'
  OBVIOUS
<1>2. Queues(boxes) /\ Once(boxes)
  BY DEF MInv, Serves
<1> QED
  BY <1>1, <1>2, PopFacts, FewerUnrepeated

LEMMA PrepareUnrepeated ==
  ASSUME MInv, "db" \notin FaultKinds, PrepareNext
  PROVE  Unrepeated
<1>1. up /\ Ready # {}
  BY DEF PrepareNext, Idle
<1>2. PICK a : a = NextBox
  OBVIOUS
<1>3. a \in Agents /\ boxes[a] # <<>>
  BY <1>1, <1>2, NextFacts
<1>4. boxes' = boxes \/ boxes' = Pop(boxes, a) \/ \E kind \in {"crash", "db"} : Stop(kind)
  BY <1>2, ZenonT(60) DEF PrepareNext, Commit
<1> QED
  BY <1>1, <1>3, <1>4, StillUnrepeated, PopUnrepeated, StopUnrepeated

LEMMA FinishUnrepeated ==
  ASSUME OInv, MInv, "db" \notin FaultKinds, NEW written \in BOOLEAN, FinishDelivery(written)
  PROVE  /\ Unrepeated
         /\ written => ~Pending(boxes', inflight.h, inflight.msg)
<1>1. PICK a : a = inflight.agent
  OBVIOUS
<1>2. /\ up /\ a \in Agents /\ boxes[a] # <<>>
      /\ boxes[a][1].h = inflight.h /\ boxes[a][1].msg = inflight.msg
  BY <1>1 DEF FinishDelivery, MInv, AtFront
<1>3. \/ boxes' = IF written THEN Pop(boxes, a) ELSE RetryLater(boxes, a)
      \/ \E kind \in {"crash", "db"} : Stop(kind)
  BY <1>1, ZenonT(60) DEF FinishDelivery, Commit
<1>4. CASE written /\ boxes' = Pop(boxes, a)
  BY <1>2, <1>4, PopUnrepeated
<1>5. CASE ~written /\ boxes' = RetryLater(boxes, a)
  <2>1. PICK c : c = boxes'
    OBVIOUS
  <2>2. Queues(boxes)
    BY <1>2 DEF MInv, Serves
  <2> QED
    BY <1>2, <1>5, <2>1, <2>2, RetryFacts, FewerUnrepeated
<1>6. CASE \E kind \in {"crash", "db"} : Stop(kind)
  <2>1. boxes' = Empty
    BY <1>6, Stopped
  <2> QED
    BY <2>1, EmptyFacts, StillUnrepeated
<1> QED
  BY <1>3, <1>4, <1>5, <1>6

LEMMA ExpireUnrepeated ==
  ASSUME MInv, "db" \notin FaultKinds, NEW h, ExpireDue(h)
  PROVE  Unrepeated
<1>1. PICK c : c = boxes'
  OBVIOUS
<1>2. up
  BY DEF ExpireDue, Idle
<1>3. Queues(boxes)
  BY <1>2 DEF MInv, Serves
<1>4. boxes' = RemovePending(boxes, h) \/ \E kind \in {"crash", "db"} : Stop(kind)
  BY ZenonT(60) DEF ExpireDue, Commit
<1>5. CASE boxes' = RemovePending(boxes, h)
  BY <1>1, <1>3, <1>5, RemoveFacts, FewerUnrepeated
<1> QED
  BY <1>4, <1>5, StopUnrepeated

LEMMA TickUnrepeated ==
  ASSUME MInv, Tick
  PROVE  Unrepeated
<1>1. PICK c : c = boxes'
  OBVIOUS
<1>2. c = [a \in Agents |-> [i \in DOMAIN boxes[a] |->
             [boxes[a][i] EXCEPT !.wait = IF @ > 0 THEN @ - 1 ELSE 0]]]
  BY <1>1 DEF Tick
<1>3. Queues(boxes)
  BY EmptyFacts DEF MInv, Serves
<1> QED
  BY <1>1, <1>2, <1>3, AgedBoxes, FewerUnrepeated

LEMMA CancelUnrepeated ==
  ASSUME MInv, "db" \notin FaultKinds, NEW t, UserCancel(t)
  PROVE  Unrepeated
<1>1. PICK h : h = Latest(t)
  OBVIOUS
<1>2. PICK d : d = CancelTask(db, h, "user")
  OBVIOUS
<1>3. PICK k : k = RemovePending(boxes, h)
  OBVIOUS
<1>4. up
  BY DEF UserCancel, Idle
<1>5. boxes' = Enqueue(k, d, h, "cancel") \/ \E kind \in {"crash", "db"} : Stop(kind)
  BY <1>1, <1>2, <1>3, ZenonT(60) DEF UserCancel, Commit
<1>6. CASE boxes' = Enqueue(k, d, h, "cancel")
  <2>1. PICK drop \in BOOLEAN : drop
    OBVIOUS
  <2>2. k = IF drop THEN RemovePending(boxes, h) ELSE boxes
    BY <1>3, <2>1
  <2>3. "cancel" # "root"
    OBVIOUS
  <2> QED
    BY <1>4, <1>6, <2>2, <2>3, EnqueueUnrepeated
<1> QED
  BY <1>5, <1>6, StopUnrepeated

\* The prompt of a new conversation.
LEMMA NewUnrepeated ==
  ASSUME OInv, MInv, "db" \notin FaultKinds, up, NEW d, NEW n, n = Len(db.handoff) + 1,
         boxes' = Enqueue(boxes, d, n, "root") \/ \E kind \in {"crash", "db"} : Stop(kind)
  PROVE  Unrepeated
<1>1. n \notin DOMAIN db.handoff
  <2>1. DOMAIN db.handoff = 1..Len(db.handoff) /\ Len(db.handoff) \in Nat
    BY DatabaseTypes DEF OInv, Good
  <2> QED
    BY <2>1
<1>2. CASE boxes' = Enqueue(boxes, d, n, "root")
  <2>1. PICK drop \in BOOLEAN : ~drop
    OBVIOUS
  <2>2. boxes = IF drop THEN RemovePending(boxes, n) ELSE boxes
    BY <2>1
  <2> QED
    BY <1>1, <1>2, <2>2, EnqueueUnrepeated
<1> QED
  BY <1>2, StopUnrepeated

LEMMA RetryUnrepeated ==
  ASSUME OInv, MInv, "db" \notin FaultKinds, NEW t, UserRetry(t)
  PROVE  Unrepeated
<1>1. PICK n : n = Len(db.handoff) + 1
  OBVIOUS
<1>2. PICK d : d = AddTaskHandoff(db, Tracked(UserRoot(n), db.handoff[Latest(t)].source,
                     db.handoff[Latest(t)].recipient, Len(db.task) + 1, NoDeadline))
  OBVIOUS
<1>3. up
  BY DEF UserRetry, Idle
<1>4. boxes' = Enqueue(boxes, d, n, "root") \/ \E kind \in {"crash", "db"} : Stop(kind)
  BY <1>1, <1>2, ZenonT(60) DEF UserRetry, Commit
<1> QED
  BY <1>1, <1>3, <1>4, NewUnrepeated

LEMMA DispatchUnrepeated ==
  ASSUME OInv, MInv, "db" \notin FaultKinds, NEW s, DispatchRoutine(s)
  PROVE  Unrepeated
<1>1. PICK n : n = Len(db.handoff) + 1
  OBVIOUS
<1>2. PICK d : d = AddTaskHandoff(db, NewHandoff(s, Len(db.task) + 1))
  OBVIOUS
<1>3. up
  BY DEF DispatchRoutine, Idle
<1>4. boxes' = Enqueue(boxes, d, n, "root") \/ \E kind \in {"crash", "db"} : Stop(kind)
  BY <1>1, <1>2, ZenonT(60) DEF DispatchRoutine, Commit
<1> QED
  BY <1>1, <1>3, <1>4, NewUnrepeated

\* Recovery leaves routine work that was attempted to the scheduler.
LEMMA RecoverUnrepeated ==
  ASSUME OInv, Recover
  PROVE  Unrepeated
<1>1. PICK c : c = [a \in Agents |-> CandidatesFor(a)]
  OBVIOUS
<1>2. boxes' = c \/ boxes' = Empty
  BY <1>1 DEF Recover, Empty
<1>3. Good(db)
  BY DEF OInv
<1>4. CASE boxes' = c
  <2>1. \A h, m : Pending(c, h, m) => Recoverable(db.handoff[h], m)
    BY <1>1, <1>3, RecoverFacts
  <2> QED
    BY <1>4, <2>1 DEF Unrepeated, Recoverable
<1> QED
  BY <1>2, <1>4, StillUnrepeated

LEMMA UnrepeatedStep ==
  ASSUME OInv, MInv, "db" \notin FaultKinds, "resume" \notin UserActions, [Next]_vars
  PROVE  Unrepeated
<1>1. CASE \E p \in Posts : Post(p)
  BY <1>1, StillUnrepeated DEF Post
<1>2. CASE Accept
  BY <1>2, AcceptUnrepeated
<1>3. CASE Deliver
  BY <1>3, DropUnrepeated, PrepareUnrepeated, FinishUnrepeated DEF Deliver
<1>4. CASE Expire
  BY <1>4, ExpireUnrepeated DEF Expire
<1>5. CASE Tick
  BY <1>5, TickUnrepeated
<1>6. CASE User
  BY <1>6, CancelUnrepeated, RetryUnrepeated DEF User, UserResume
<1>7. CASE Windows
  BY <1>7, StillUnrepeated DEF Windows, Archive, Restore
<1>8. CASE Routines
  BY <1>8, DispatchUnrepeated, StillUnrepeated DEF Routines, Reregister
<1>9. CASE Crash
  BY <1>9, StopUnrepeated DEF Crash
<1>10. CASE RecoverStep
  BY <1>10, RecoverUnrepeated, StillUnrepeated DEF RecoverStep, RecoverFails, RecoverAttempt
<1>11. CASE UNCHANGED vars
  BY <1>11, StillUnrepeated DEF vars
<1> QED
  BY <1>1, <1>2, <1>3, <1>4, <1>5, <1>6, <1>7, <1>8, <1>9, <1>10, <1>11 DEF Next

\* The writes of a step: none, or the prompt in flight, which then leaves the
\* mailboxes.
LEMMA WritesStep ==
  ASSUME OInv, MInv, "db" \notin FaultKinds, [Next]_vars
  PROVE  \/ pasted' = pasted
         \/ /\ inflight # NoRequest /\ inflight.msg = "root"
            /\ pasted' = [pasted EXCEPT ![inflight.h] = @ + 1]
            /\ ~Pending(boxes', inflight.h, "root")
<1>1. CASE \E written \in BOOLEAN : FinishDelivery(written)
  <2>1. PICK written \in BOOLEAN : FinishDelivery(written)
    BY <1>1
  <2>2. /\ inflight # NoRequest
        /\ pasted' = IF written /\ inflight.msg = "root"
                     THEN [pasted EXCEPT ![inflight.h] = @ + 1] ELSE pasted
    BY <2>1 DEF FinishDelivery
  <2> QED
    BY <2>1, <2>2, FinishUnrepeated
<1>2. CASE Crash
  <2>1. boxes' = Empty
    BY <1>2, Stopped DEF Crash
  <2>2. ~Pending(boxes', inflight.h, "root")
    BY <2>1, EmptyFacts
  <2> QED
    BY <1>2, <2>2 DEF Crash
<1>3. CASE (\E p \in Posts : Post(p)) \/ Accept \/ DropTerminated \/ PrepareNext
  <2>1. CASE \E p \in Posts : Post(p)
    BY <2>1 DEF Post
  <2>2. CASE Accept
    BY <2>2 DEF Accept
  <2>3. CASE DropTerminated
    BY <2>3 DEF DropTerminated
  <2>4. CASE PrepareNext
    BY <2>4 DEF PrepareNext
  <2> QED
    BY <1>3, <2>1, <2>2, <2>3, <2>4
<1>6. CASE Expire \/ Tick \/ UNCHANGED vars
  BY <1>6 DEF Expire, ExpireDue, Tick, vars
<1>7. CASE Windows \/ RecoverStep
  BY <1>7 DEF Windows, Archive, Restore, RecoverStep, Recover, RecoverFails, RecoverAttempt
<1>4. CASE User
  BY <1>4 DEF User, UserCancel, UserResume, UserRetry
<1>5. CASE Routines
  BY <1>5 DEF Routines, DispatchRoutine, Reregister
<1> QED
  BY <1>1, <1>2, <1>3, <1>4, <1>5, <1>6, <1>7 DEF Next, Deliver

LEMMA PastedInit ==
  ASSUME Init
  PROVE  Pasted
<1>1. db.handoff = <<>> /\ DOMAIN db.handoff = {}
  BY DEF Init
<1>2. pasted = [h \in 1..MaxHandoffs |-> 0]
  BY DEF Init
<1> QED
  BY <1>1, <1>2 DEF Pasted

LEMMA PastedOnce ==
  ASSUME Pasted
  PROVE  RoutinePromptOnce
  BY DEF Pasted, RoutinePromptOnce, HandoffIds

\* The prompt of routine work is written to a terminal at most once, whatever
\* crashes interrupt the write, lose its acknowledgement or repeat its
\* recovery, as long as no task is resumed, which enqueues its prompt again,
\* and no transaction fails.
THEOREM RoutineWorkIsPastedOnce ==
  ASSUME "db" \notin FaultKinds, "resume" \notin UserActions
  PROVE  Spec => []RoutinePromptOnce
<1>1. OInv /\ MInv /\ Pasted /\ [Next]_vars => OInv' /\ MInv' /\ Pasted'
  <2> SUFFICES ASSUME OInv, MInv, Pasted, [Next]_vars
               PROVE  OInv' /\ MInv' /\ Pasted'
    OBVIOUS
  <2>1. OInv' /\ MInv' /\ Keeps(db, db') /\ Unrepeated
    BY StepLemma, MailStepLemma, UnrepeatedStep
  <2> QED
    BY <2>1, WritesStep, UnpastedStep, PastedStep
<1>2. Init => OInv /\ MInv /\ Pasted
  BY InitLemma, MailInit, PastedInit
<1>3. Pasted => RoutinePromptOnce
  BY PastedOnce
<1> QED
  BY <1>1, <1>2, <1>3, PTL DEF Spec
=============================================================================
