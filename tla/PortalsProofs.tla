---------------------------- MODULE PortalsProofs ----------------------------
(***************************************************************************)
(* Proofs about Portals, through the module that puts actions and views    *)
(* side by side (MCPortals).  Portals, for any agents, targets and         *)
(* requests and any number of portals and outside events: an action is     *)
(* executed at most once and only with consent, and approvals, grants,     *)
(* sessions and queued inputs are kept.  PortalView, for any texts and     *)
(* changes of a screen: what an agent names is what its input reaches.     *)
(***************************************************************************)
EXTENDS MCPortals, FiniteSetTheorems, TLAPS

Ops == {"input", "navigate"}
PolicyRequests == [agent : Agents, portal : Pids, op : Ops, target : Targets]
Entries == [state : {"disconnected", "connected", "closing"}, agents : SUBSET Agents, target : Targets, page : Targets]
Rows == [state : {"awaiting", "queued", "dispatched", "completed", "failed", "unknown"},
         portal : Pids, request : Requests]
Dispatches == [state : {"queued", "dispatched", "executed"}, id : Ids, request : PolicyRequests,
               approved : SUBSET PolicyRequests, ok : BOOLEAN]

\* The types of what the dispatcher keeps.
Types ==
  /\ portals \in [Pids -> Entries \cup {None}] /\ issued \in 0..MaxPortals
  /\ \A g \in grants : g.request \in PolicyRequests
  /\ asks \subseteq Ids /\ pending \subseteq [id : Ids, request : PolicyRequests]
  /\ journal \in [Ids -> Rows \cup {None}] /\ held \in Dispatches \cup {None}
  /\ ran \in [Ids -> Nat]

\* An action that did not reach a backend yet was never executed.
Fresh(i) ==
  \/ State(i) \in {"none", "awaiting", "queued"}
  \/ held # None /\ held.state = "dispatched" /\ held.id = i
RanOnce == \A i \in Ids : ran[i] <= 1 /\ (Fresh(i) => ran[i] = 0)

\* The dispatch that holds the mutex has its row, its portal and its consent.
HeldRow ==
  held # None =>
    /\ journal[held.id] # None /\ portals[held.request.portal] # None
    /\ journal[held.id].state = IF held.state = "queued" THEN "queued" ELSE "dispatched"
    /\ held.state = "queued" => (\E g \in grants : g.request = held.request) \/ held.request \in held.approved

\* An action waits for one approval, and portals in use have been issued.
PendingOnce == \A x, y \in pending : x.id = y.id => x = y
Issued == \A p \in Pids : portals[p] # None => p <= issued

Inv == Types /\ RanOnce /\ HeldRow /\ PendingOnce /\ Issued /\ ApprovalsAnswerable /\ GrantsCurrent

LEMMA EntryNotNone ==
  /\ \A e \in Entries : e # None /\ e.state # "none" /\ e.agents \subseteq Agents /\ e.target \in Targets /\ e.page \in Targets
  /\ \A r \in Rows : r # None /\ r.state # "none" /\ r.request \in Requests /\ r.portal \in Pids
  /\ \A d \in Dispatches : d # None /\ d.state # "none" /\ d.id \in Ids /\ d.request \in PolicyRequests
  BY DEF Entries, Rows, Dispatches, None

LEMMA RequestTypes ==
  ASSUME NEW r \in Requests, NEW p \in Pids, NEW t \in Targets
  PROVE  /\ r.id \in Ids /\ r.agent \in Agents /\ r.op \in Ops /\ r.dest \in Targets
         /\ PolicyRequest(r, p, t) \in PolicyRequests
         /\ PolicyRequest(r, p, t).agent = r.agent /\ PolicyRequest(r, p, t).portal = p /\ PolicyRequest(r, p, t).op = r.op
         /\ r.op # "navigate" => PolicyRequest(r, p, t).target = t
  BY PortalsAssumption DEF Ids, Ops, PolicyRequest, PolicyRequests

LEMMA InitInv == Init => Inv
<1> SUFFICES ASSUME Init PROVE Inv
  OBVIOUS
<1> USE DEF Init, None
<1>1. Types
  BY PortalsAssumption DEF Types
<1>2. RanOnce /\ HeldRow /\ PendingOnce /\ Issued
  BY DEF RanOnce, Fresh, HeldRow, PendingOnce, Issued
<1>3. ApprovalsAnswerable /\ GrantsCurrent
  BY DEF ApprovalsAnswerable, GrantsCurrent, State
<1> QED
  BY <1>1, <1>2, <1>3 DEF Inv

\* What ending pending actions does to the journal and to pending.
LEMMA EndPendingFacts ==
  ASSUME Inv, NEW S \in SUBSET pending, EndPending(S)
  PROVE  /\ journal' \in [Ids -> Rows \cup {None}] /\ pending' = pending \ S
         /\ \A i \in Ids : \/ journal'[i] = journal[i] /\ \A x \in S : x.id # i
                           \/ /\ journal[i] # None /\ journal[i].state = "awaiting" /\ journal'[i] # None
                              /\ journal'[i].state = "failed" /\ \E x \in S : x.id = i
<1>1. journal \in [Ids -> Rows \cup {None}] /\ \A x \in pending : x.id \in Ids
  BY DEF Inv, Types
<1>2. \A x \in S : x.id \in Ids /\ journal[x.id] # None /\ journal[x.id].state = "awaiting" /\ journal[x.id] \in Rows
  <2> SUFFICES ASSUME NEW x \in S
               PROVE  x.id \in Ids /\ journal[x.id] # None /\ journal[x.id].state = "awaiting" /\ journal[x.id] \in Rows
    OBVIOUS
  <2>1. x.id \in {i \in Ids : State(i) = "awaiting"}
    BY DEF Inv, ApprovalsAnswerable
  <2> QED
    BY <1>1, <2>1 DEF State
<1>3. \A r \in Rows : /\ [r EXCEPT !.state = "failed"] \in Rows
                      /\ [r EXCEPT !.state = "failed"].state = "failed" /\ [r EXCEPT !.state = "failed"] # None
  <2> SUFFICES ASSUME NEW r \in Rows
               PROVE  [r EXCEPT !.state = "failed"] \in Rows /\ [r EXCEPT !.state = "failed"].state = "failed"
    BY EntryNotNone
  <2> QED
    BY DEF Rows
<1>4. journal' = [i \in Ids |-> IF \E x \in S : x.id = i THEN [journal[i] EXCEPT !.state = "failed"] ELSE journal[i]]
  BY DEF EndPending
<1>5. ASSUME NEW i \in Ids
      PROVE  /\ journal'[i] \in Rows \cup {None}
             /\ \/ journal'[i] = journal[i] /\ \A x \in S : x.id # i
                \/ /\ journal[i] # None /\ journal[i].state = "awaiting" /\ journal'[i] # None
                   /\ journal'[i].state = "failed" /\ \E x \in S : x.id = i
  <2>1. CASE \E x \in S : x.id = i
    BY <1>2, <1>3, <1>4, <2>1
  <2>2. CASE ~ \E x \in S : x.id = i
    BY <1>1, <1>4, <2>2
  <2> QED
    BY <2>1, <2>2
<1> QED
  BY <1>4, <1>5 DEF EndPending

\* Steps that end pending actions, take grants back or change entries while
\* nothing is being dispatched.
LEMMA ReleaseStep ==
  ASSUME Inv, NEW S \in SUBSET pending,
         EndPending(S) \/ (S = {} /\ UNCHANGED <<pending, journal>>),
         Free, UNCHANGED <<held, ran>>,
         portals' \in [Pids -> Entries \cup {None}], issued' \in 0..MaxPortals, Issued',
         grants' \subseteq grants, asks' \subseteq asks, asks' \cap {x.id : x \in S} = {},
         \A x \in pending \ S :
           portals'[x.request.portal] # None /\ x.request.agent \in portals'[x.request.portal].agents,
         GrantsCurrent'
  PROVE  Inv'
<1>1. /\ journal' \in [Ids -> Rows \cup {None}] /\ pending' = pending \ S
      /\ \A i \in Ids : \/ journal'[i] = journal[i] /\ \A x \in S : x.id # i
                        \/ /\ journal[i] # None /\ journal[i].state = "awaiting" /\ journal'[i] # None
                           /\ journal'[i].state = "failed" /\ \E x \in S : x.id = i
  <2>1. CASE EndPending(S)
    BY <2>1, EndPendingFacts
  <2>2. CASE S = {} /\ UNCHANGED <<pending, journal>>
    BY <2>2 DEF Inv, Types
  <2> QED
    BY <2>1, <2>2
<1>2. Types'
  BY <1>1 DEF Inv, Types
<1>3. \A i \in Ids : Fresh(i)' => Fresh(i)
  BY <1>1 DEF Fresh, State, Free
<1>4. RanOnce' /\ HeldRow'
  BY <1>3 DEF Inv, RanOnce, HeldRow, Free
<1>5. PendingOnce'
  BY <1>1 DEF Inv, PendingOnce
<1>6. ApprovalsAnswerable'
  <2>1. \A x \in pending : x.id \in Ids
    BY DEF Inv, Types
  <2>2. ASSUME NEW i \in Ids PROVE State(i)' = "awaiting" <=> \E x \in pending' : x.id = i
    <3>1. State(i) = "awaiting" <=> \E x \in pending : x.id = i
      BY <2>1, <2>2 DEF Inv, ApprovalsAnswerable
    <3>2. CASE journal'[i] = journal[i] /\ \A x \in S : x.id # i
      BY <1>1, <3>1, <3>2 DEF State
    <3>3. CASE /\ journal'[i] # None /\ journal'[i].state = "failed" /\ \E x \in S : x.id = i
      BY <1>1, <3>3 DEF State, Inv, PendingOnce
    <3> QED
      BY <1>1, <3>2, <3>3
  <2>3. {i \in Ids : State(i)' = "awaiting"} = {x.id : x \in pending'}
    BY <1>1, <2>1, <2>2
  <2>4. asks' \subseteq {x.id : x \in pending'}
    BY <1>1 DEF Inv, ApprovalsAnswerable
  <2>5. \A x \in pending' : portals'[x.request.portal] # None /\ x.request.agent \in portals'[x.request.portal].agents
    BY <1>1
  <2> QED
    BY <2>3, <2>4, <2>5 DEF ApprovalsAnswerable
<1> QED
  BY <1>2, <1>4, <1>5, <1>6 DEF Inv

\* Steps of the interface and the canvas, which leave the dispatcher alone.
LEMMA QuietStep ==
  ASSUME Inv, UNCHANGED <<portals, issued, grants, asks, pending, journal, held, ran>>
  PROVE  Inv'
  BY DEF Inv, Types, RanOnce, Fresh, State, HeldRow, PendingOnce, Issued, ApprovalsAnswerable, GrantsCurrent

\* Attaching the agents of a portal anew.
LEMMA ReplaceStep ==
  ASSUME Inv, NEW p \in Pids, NEW A \in SUBSET Agents, ReplaceAgents(p, A), Free, UNCHANGED <<held, ran, issued>>
  PROVE  /\ Inv' /\ \A q \in Pids : portals'[q] = None <=> portals[q] = None
         /\ \A q \in Pids : portals[q] # None => portals'[q].state = portals[q].state
<1>1. CASE portals[p] = None
  <2>1. UNCHANGED <<portals, policy, journal>>
    BY <1>1 DEF ReplaceAgents
  <2> QED
    BY <2>1, QuietStep DEF policy
<1>2. CASE portals[p] # None
  <2> DEFINE removed == portals[p].agents \ A
             S == PendingOf(p, removed)
  <2>1. /\ portals' = [portals EXCEPT ![p].agents = A]
        /\ grants' = {g \in grants : ~(g.request.portal = p /\ g.request.agent \in removed)}
        /\ asks' = asks \ {x.id : x \in S} /\ EndPending(S)
    BY <1>2 DEF ReplaceAgents, AsksLeft, EndedByDetach
  <2>2. S \in SUBSET pending /\ \A x \in pending \ S : x.request.portal = p => x.request.agent \notin removed
    BY DEF PendingOf
  <2>3. portals \in [Pids -> Entries \cup {None}] /\ portals[p] \in Entries
    BY <1>2 DEF Inv, Types
  <2>4. PICK e : e = [portals[p] EXCEPT !.agents = A]
    OBVIOUS
  <2>5. e \in Entries /\ e.agents = A /\ e.state = portals[p].state /\ e.target = portals[p].target
    BY <2>3, <2>4 DEF Entries
  <2>6. portals' = [portals EXCEPT ![p] = e]
    BY <2>1, <2>3, <2>4
  <2>7. /\ portals' \in [Pids -> Entries \cup {None}] /\ portals'[p] = e /\ e # None
        /\ \A q \in Pids : q # p => portals'[q] = portals[q]
    BY <2>3, <2>5, <2>6, EntryNotNone
  <2>8. \A x \in pending : x.request.portal \in Pids
    BY DEF Inv, Types, PolicyRequests
  <2>9. \A x \in pending \ S :
           portals'[x.request.portal] # None /\ x.request.agent \in portals'[x.request.portal].agents
    BY <2>2, <2>5, <2>7, <2>8 DEF Inv, ApprovalsAnswerable
  <2>10. GrantsCurrent'
    <3>1. \A g \in grants : g.request.portal \in Pids
      BY DEF Inv, Types, PolicyRequests
    <3> QED
      BY <2>1, <2>5, <2>7, <3>1 DEF Inv, GrantsCurrent
  <2>11. Issued'
    BY <1>2, <2>7 DEF Inv, Issued
  <2>12. Inv'
    <3> HIDE DEF S, removed
    <3> QED
      BY <2>1, <2>2, <2>7, <2>9, <2>10, <2>11, ReleaseStep DEF Inv, Types
  <2> QED
    BY <1>2, <2>5, <2>7, <2>12
<1> QED
  BY <1>1, <1>2

\* Closing and dropping a portal.
LEMMA UnregisterStep ==
  ASSUME Inv, NEW p \in Pids, NEW ok \in BOOLEAN, Unregister(p, ok), Free, UNCHANGED <<held, ran, issued>>
  PROVE  /\ Inv' /\ \A q \in Pids : q # p => portals'[q] = portals[q]
         /\ portals'[p] = None \/ portals'[p].state = "closing"
         /\ ok => portals'[p] = None
<1>1. CASE portals[p] = None
  <2>1. UNCHANGED <<portals, policy, journal>>
    BY <1>1 DEF Unregister
  <2> QED
    BY <1>1, <2>1, QuietStep DEF policy
<1>2. CASE portals[p] # None /\ portals[p].state # "disconnected" /\ ~ok
  <2>1. portals' = [portals EXCEPT ![p].state = "closing"] /\ UNCHANGED <<policy, journal>>
    BY <1>2 DEF Unregister
  <2>3. portals \in [Pids -> Entries \cup {None}] /\ portals[p] \in Entries
    BY <1>2 DEF Inv, Types
  <2>4. PICK e : e = [portals[p] EXCEPT !.state = "closing"]
    OBVIOUS
  <2>5. e \in Entries /\ e.agents = portals[p].agents /\ e.state = "closing" /\ e.target = portals[p].target
    BY <2>3, <2>4 DEF Entries
  <2>6. portals' = [portals EXCEPT ![p] = e]
    BY <2>1, <2>3, <2>4
  <2>7. /\ portals' \in [Pids -> Entries \cup {None}] /\ portals'[p] = e /\ e # None
        /\ \A q \in Pids : q # p => portals'[q] = portals[q]
    BY <2>3, <2>5, <2>6, EntryNotNone
  <2>8. /\ \A x \in pending : x.request.portal \in Pids
        /\ \A g \in grants : g.request.portal \in Pids
    BY DEF Inv, Types, PolicyRequests
  <2>9. /\ \A x \in pending : portals'[x.request.portal] # None /\ x.request.agent \in portals'[x.request.portal].agents
        /\ GrantsCurrent' /\ Issued'
    BY <1>2, <2>1, <2>5, <2>7, <2>8 DEF Inv, ApprovalsAnswerable, GrantsCurrent, Issued, policy
  <2>10. Inv'
    <3>1. {} \in SUBSET pending /\ asks' \cap {x.id : x \in {}} = {} /\ \A x \in pending \ {} : x \in pending
      OBVIOUS
    <3>2. UNCHANGED <<grants, asks, pending, journal>> /\ issued' \in 0..MaxPortals
      BY <2>1 DEF Inv, Types, policy
    <3> QED
      BY <2>7, <2>9, <3>1, <3>2, ReleaseStep
  <2> QED
    BY <1>2, <2>5, <2>7, <2>10
<1>3. CASE portals[p] # None /\ ~(portals[p].state # "disconnected" /\ ~ok)
  <2>1. /\ portals' = [portals EXCEPT ![p] = None]
        /\ grants' = grants \ GrantsOf(p) /\ asks' = asks \ {x.id : x \in PendingOf(p, Agents)}
        /\ EndPending(PendingOf(p, Agents))
    BY <1>3 DEF Unregister, AsksLeft
  <2>2. portals \in [Pids -> Entries \cup {None}]
    BY DEF Inv, Types
  <2>3. /\ portals' \in [Pids -> Entries \cup {None}] /\ portals'[p] = None
        /\ \A q \in Pids : q # p => portals'[q] = portals[q]
    BY <2>1, <2>2
  <2>4. /\ \A x \in pending : x.request.portal \in Pids /\ x.request.agent \in Agents
        /\ \A g \in grants : g.request.portal \in Pids
    BY DEF Inv, Types, PolicyRequests
  <2>5. /\ \A x \in pending \ PendingOf(p, Agents) :
             portals'[x.request.portal] # None /\ x.request.agent \in portals'[x.request.portal].agents
        /\ GrantsCurrent' /\ Issued'
    BY <2>1, <2>3, <2>4 DEF Inv, ApprovalsAnswerable, GrantsCurrent, GrantsOf, Issued, PendingOf
  <2>6. PendingOf(p, Agents) \in SUBSET pending
    BY DEF PendingOf
  <2>7. Inv'
    BY <2>1, <2>3, <2>5, <2>6, ReleaseStep DEF Inv, Types
  <2> QED
    BY <2>3, <2>7
<1> QED
  BY <1>1, <1>2, <1>3

\* Reading the page of a portal brings its target and the grants up to date.
LEMMA RefreshFacts ==
  ASSUME Inv, NEW p \in Pids, portals[p] # None, portals' = Refreshed(p)
  PROVE  /\ portals' \in [Pids -> Entries \cup {None}]
         /\ portals[p].page \in Targets /\ portals'[p].target = portals[p].page
         /\ \A q \in Pids : /\ portals'[q] = None <=> portals[q] = None
                            /\ portals[q] # None => /\ portals'[q].agents = portals[q].agents
                                                    /\ portals'[q].state = portals[q].state
                            /\ q # p => portals'[q] = portals[q]
         /\ GrantsAfterRefresh(p) \subseteq grants
         /\ \A g \in GrantsAfterRefresh(p) :
              /\ portals'[g.request.portal] # None /\ g.request.agent \in portals'[g.request.portal].agents
              /\ g.request.op = "input" => g.request.target = portals'[g.request.portal].target
         /\ \A x \in pending : portals'[x.request.portal] # None /\ x.request.agent \in portals'[x.request.portal].agents
<1>1. portals \in [Pids -> Entries \cup {None}] /\ portals[p] \in Entries
  BY DEF Inv, Types
<1>2. PICK e : e = [portals[p] EXCEPT !.target = portals[p].page]
  OBVIOUS
<1>3. e \in Entries /\ e.agents = portals[p].agents /\ e.state = portals[p].state /\ e.target = portals[p].page
  BY <1>1, <1>2 DEF Entries
<1>4. portals' = [portals EXCEPT ![p] = e]
  BY <1>1, <1>2 DEF Refreshed
<1>5. /\ portals' \in [Pids -> Entries \cup {None}] /\ portals'[p] = e /\ e # None
      /\ \A q \in Pids : q # p => portals'[q] = portals[q]
  BY <1>1, <1>3, <1>4, EntryNotNone
<1>6. portals[p].page \in Targets
  BY <1>1, EntryNotNone
<1>8. \A x \in pending : portals'[x.request.portal] # None /\ x.request.agent \in portals'[x.request.portal].agents
  <2>1. \A x \in pending : x.request.portal \in Pids
    BY DEF Inv, Types, PolicyRequests
  <2> QED
    BY <1>3, <1>5, <2>1 DEF Inv, ApprovalsAnswerable
<1>9. ASSUME NEW g \in GrantsAfterRefresh(p)
      PROVE  /\ g \in grants
             /\ portals'[g.request.portal] # None /\ g.request.agent \in portals'[g.request.portal].agents
             /\ g.request.op = "input" => g.request.target = portals'[g.request.portal].target
  <2>1. g \in grants /\ (g.request.portal = p => portals[p].page = portals[p].target)
    BY DEF GrantsAfterRefresh, GrantsOf
  <2>2. g.request.portal \in Pids
    BY <2>1 DEF Inv, Types, PolicyRequests
  <2> QED
    BY <1>3, <1>5, <2>1, <2>2 DEF Inv, GrantsCurrent
<1> QED
  BY <1>3, <1>5, <1>6, <1>8, <1>9

\* An agent asks for an action: a grant covers it, or it waits for the user.
LEMMA RequestStep ==
  ASSUME Inv, NEW r \in Requests, NEW p \in Pids, RequestAction(r, p)
  PROVE  /\ Inv' /\ UNCHANGED <<interface, jobs, issued>>
         /\ \A q \in Pids : /\ portals'[q] = None <=> portals[q] = None
                            /\ portals[q] # None => portals'[q].state = portals[q].state
<1>1. /\ portals[p] # None /\ r.agent \in portals[p].agents /\ journal[r.id] = None /\ held = None
      /\ portals' = Refreshed(p) /\ grants' = GrantsAfterRefresh(p)
      /\ UNCHANGED <<interface, jobs, issued, ran>>
  BY DEF RequestAction, Authorized, NewAction, Free
<1> SUFFICES Inv'
  BY <1>1, RefreshFacts
<1>2. PICK q : q = PolicyRequest(r, p, portals[p].page)
  OBVIOUS
<1>3. /\ q \in PolicyRequests /\ r.id \in Ids /\ q.portal = p /\ q.agent = r.agent
  BY <1>1, <1>2, RefreshFacts, RequestTypes
<1>4. /\ portals' \in [Pids -> Entries \cup {None}] /\ Issued' /\ GrantsCurrent'
      /\ grants' \subseteq grants
      /\ \A x \in pending : portals'[x.request.portal] # None /\ x.request.agent \in portals'[x.request.portal].agents
      /\ portals'[p] # None /\ r.agent \in portals'[p].agents
  BY <1>1, RefreshFacts DEF GrantsCurrent, Inv, Issued
<1>5. /\ journal \in [Ids -> Rows \cup {None}] /\ ran \in [Ids -> Nat] /\ issued' \in 0..MaxPortals
      /\ \A g \in grants : g.request \in PolicyRequests
      /\ asks \subseteq Ids /\ pending \subseteq [id : Ids, request : PolicyRequests]
  BY <1>1 DEF Inv, Types
<1>6. State(r.id) = "none" /\ ran[r.id] = 0
  BY <1>1, <1>3 DEF Inv, RanOnce, Fresh, State
<1>7. \A x \in pending : x.id # r.id
  BY <1>3, <1>6 DEF Inv, ApprovalsAnswerable
<1>8. ASSUME NEW state \in {"queued", "awaiting"},
             journal' = [journal EXCEPT ![r.id] = [state |-> state, portal |-> p, request |-> r]]
      PROVE  /\ journal' \in [Ids -> Rows \cup {None}] /\ journal'[r.id] # None /\ journal'[r.id].state = state
             /\ \A i \in Ids : i # r.id => journal'[i] = journal[i]
  <2>1. PICK w : w = [state |-> state, portal |-> p, request |-> r]
    OBVIOUS
  <2>2. w \in Rows /\ w # None /\ w.state = state
    BY <2>1, EntryNotNone DEF Rows
  <2> QED
    BY <1>3, <1>5, <1>8, <2>1, <2>2
<1>9. CASE \E g \in grants' : g.request = q
  <2>1. /\ journal' = [journal EXCEPT ![r.id] = [state |-> "queued", portal |-> p, request |-> r]]
        /\ held' = [state |-> "queued", id |-> r.id, request |-> q, approved |-> {}, ok |-> FALSE]
        /\ UNCHANGED <<asks, pending>>
    BY <1>1, <1>2, <1>9 DEF RequestAction, Dispatch
  <2>2. /\ held' \in Dispatches /\ held' # None /\ held'.state = "queued" /\ held'.id = r.id /\ held'.request = q
    BY <1>3, <2>1, EntryNotNone DEF Dispatches
  <2>3. /\ journal' \in [Ids -> Rows \cup {None}] /\ journal'[r.id] # None /\ journal'[r.id].state = "queued"
        /\ \A i \in Ids : i # r.id => journal'[i] = journal[i]
    BY <1>8, <2>1
  <2>4. Types'
    BY <1>1, <1>4, <1>5, <2>1, <2>2, <2>3 DEF Types
  <2>5. RanOnce'
    BY <1>1, <1>6, <2>2, <2>3 DEF Inv, RanOnce, Fresh, State
  <2>6. HeldRow'
    BY <1>3, <1>4, <1>9, <2>2, <2>3 DEF HeldRow
  <2>7. PendingOnce'
    BY <2>1 DEF Inv, PendingOnce
  <2>8. ApprovalsAnswerable'
    <3>1. \A i \in Ids : State(i)' = "awaiting" <=> State(i) = "awaiting"
      BY <1>6, <2>3 DEF State
    <3> QED
      BY <1>4, <2>1, <3>1 DEF Inv, ApprovalsAnswerable
  <2> QED
    BY <1>4, <2>4, <2>5, <2>6, <2>7, <2>8 DEF Inv
<1>10. CASE ~ \E g \in grants' : g.request = q
  <2>1. /\ journal' = [journal EXCEPT ![r.id] = [state |-> "awaiting", portal |-> p, request |-> r]]
        /\ asks' = asks \cup {r.id} /\ pending' = pending \cup {[id |-> r.id, request |-> q]}
        /\ UNCHANGED held
    BY <1>1, <1>2, <1>10 DEF RequestAction
  <2>2. /\ journal' \in [Ids -> Rows \cup {None}] /\ journal'[r.id] # None /\ journal'[r.id].state = "awaiting"
        /\ \A i \in Ids : i # r.id => journal'[i] = journal[i]
    BY <1>8, <2>1
  <2>3. PICK y : y = [id |-> r.id, request |-> q]
    OBVIOUS
  <2>4. y.id = r.id /\ y.request = q /\ pending' = pending \cup {y} /\ y \in [id : Ids, request : PolicyRequests]
    BY <1>3, <2>1, <2>3
  <2>5. Types'
    BY <1>1, <1>3, <1>4, <1>5, <2>1, <2>2, <2>4 DEF Types
  <2>6. RanOnce' /\ HeldRow'
    BY <1>1, <1>6, <2>1, <2>2 DEF Inv, RanOnce, Fresh, State, HeldRow
  <2>7. PendingOnce'
    BY <1>7, <2>4 DEF Inv, PendingOnce
  <2>8. ApprovalsAnswerable'
    <3>1. \A i \in Ids : State(i)' = "awaiting" <=> State(i) = "awaiting" \/ i = r.id
      BY <2>2 DEF State
    <3>2. {i \in Ids : State(i)' = "awaiting"} = {x.id : x \in pending'}
      BY <1>3, <2>4, <3>1 DEF Inv, ApprovalsAnswerable
    <3>3. asks' \subseteq {x.id : x \in pending'}
      BY <2>1, <2>4 DEF Inv, ApprovalsAnswerable
    <3>4. \A x \in pending' : portals'[x.request.portal] # None /\ x.request.agent \in portals'[x.request.portal].agents
      BY <1>3, <1>4, <2>4
    <3> QED
      BY <3>2, <3>3, <3>4 DEF ApprovalsAnswerable
  <2> QED
    BY <1>4, <2>5, <2>6, <2>7, <2>8 DEF Inv
<1> QED
  BY <1>9, <1>10

\* The user's answer reaches the dispatcher: an approved action is dispatched
\* if it is still the one that was approved, and ends otherwise.
LEMMA ApproveStep ==
  ASSUME Inv, NEW job, Approve(job), Free, UNCHANGED <<issued, ran>>
  PROVE  /\ Inv'
         /\ \A q \in Pids : /\ portals'[q] = None <=> portals[q] = None
                            /\ portals[q] # None => portals'[q].state = portals[q].state
<1>1. CASE UNCHANGED <<portals, policy, journal, held>>
  BY <1>1, QuietStep DEF policy
<1>2. ASSUME NEW x \in pending, x.id = job.id, Authorized(x.request.agent, x.request.portal),
             portals' = Refreshed(x.request.portal), asks' = asks \ {x.id},
             \/ /\ PolicyRequest(journal[x.id].request, x.request.portal, portals[x.request.portal].page) = x.request
                /\ x.id \in asks
                /\ grants' = GrantsAfterRefresh(x.request.portal) \cup {[request |-> x.request, once |-> job.once]}
                /\ pending' = pending \ {x}
                /\ journal' = [journal EXCEPT ![x.id].state = "queued"]
                /\ Dispatch(x.id, x.request, {x.request})
             \/ /\ grants' = GrantsAfterRefresh(x.request.portal)
                /\ EndPending({x})
                /\ UNCHANGED held
      PROVE  /\ Inv'
             /\ \A q \in Pids : /\ portals'[q] = None <=> portals[q] = None
                                /\ portals[q] # None => portals'[q].state = portals[q].state
  <2> DEFINE q == x.request
             p == x.request.portal
  <2>1. /\ q \in PolicyRequests /\ p \in Pids /\ q.agent \in Agents /\ q.portal = p /\ x.id \in Ids
        /\ portals[p] # None /\ q.agent \in portals[p].agents
    BY <1>2 DEF Inv, Types, PolicyRequests, Authorized
  <2>2. /\ portals' \in [Pids -> Entries \cup {None}] /\ Issued'
        /\ portals'[p].target = portals[p].page /\ portals[p].page \in Targets
        /\ \A o \in Pids : /\ portals'[o] = None <=> portals[o] = None
                           /\ portals[o] # None => /\ portals'[o].agents = portals[o].agents
                                                   /\ portals'[o].state = portals[o].state
        /\ GrantsAfterRefresh(p) \subseteq grants
        /\ \A g \in GrantsAfterRefresh(p) :
             /\ portals'[g.request.portal] # None /\ g.request.agent \in portals'[g.request.portal].agents
             /\ g.request.op = "input" => g.request.target = portals'[g.request.portal].target
        /\ \A y \in pending : portals'[y.request.portal] # None /\ y.request.agent \in portals'[y.request.portal].agents
    <3>1. portals' = Refreshed(p)
      BY <1>2
    <3>2. \A o \in Pids : portals'[o] = None <=> portals[o] = None
      BY <2>1, <3>1, RefreshFacts
    <3>3. Issued'
      BY <3>2 DEF Inv, Issued
    <3> QED
      BY <2>1, <3>1, <3>3, RefreshFacts
  <2> SUFFICES Inv'
    BY <2>2
  <2>3. State(x.id) = "awaiting" /\ journal[x.id] \in Rows /\ journal[x.id] # None
    <3>1. x.id \in {i \in Ids : State(i) = "awaiting"}
      BY DEF Inv, ApprovalsAnswerable
    <3> QED
      BY <2>1, <3>1 DEF State, Inv, Types
  <2>4. CASE grants' = GrantsAfterRefresh(p) /\ EndPending({x}) /\ UNCHANGED held
    <3>1. {x} \in SUBSET pending /\ asks' \cap {y.id : y \in {x}} = {} /\ asks' \subseteq asks
      BY <1>2
    <3>2. GrantsCurrent' /\ issued' \in 0..MaxPortals /\ grants' \subseteq grants
      BY <2>2, <2>4 DEF GrantsCurrent, Inv, Types
    <3> QED
      BY <2>2, <2>4, <3>1, <3>2, ReleaseStep
  <2>5. CASE /\ PolicyRequest(journal[x.id].request, p, portals[p].page) = q
             /\ grants' = GrantsAfterRefresh(p) \cup {[request |-> q, once |-> job.once]}
             /\ pending' = pending \ {x}
             /\ journal' = [journal EXCEPT ![x.id].state = "queued"]
             /\ Dispatch(x.id, q, {q})
    <3>1. /\ journal' \in [Ids -> Rows \cup {None}] /\ journal'[x.id] # None /\ journal'[x.id].state = "queued"
          /\ \A i \in Ids : i # x.id => journal'[i] = journal[i]
      <4>1. PICK w : w = [journal[x.id] EXCEPT !.state = "queued"]
        OBVIOUS
      <4>2. w \in Rows /\ w.state = "queued"
        BY <2>3, <4>1 DEF Rows
      <4>3. journal \in [Ids -> Rows \cup {None}]
        BY DEF Inv, Types
      <4>4. journal' = [journal EXCEPT ![x.id] = w]
        BY <2>5, <4>1, <4>3
      <4> QED
        BY <2>1, <4>2, <4>3, <4>4, EntryNotNone
    <3>2. held' \in Dispatches /\ held' # None /\ held'.state = "queued" /\ held'.id = x.id /\ held'.request = q /\ held'.approved = {q}
      <4>1. held' = [state |-> "queued", id |-> x.id, request |-> q, approved |-> {q}, ok |-> FALSE]
        BY <2>5 DEF Dispatch
      <4> QED
        BY <2>1, <4>1, EntryNotNone DEF Dispatches
    <3>3. PICK h : h = [request |-> q, once |-> job.once]
      OBVIOUS
    <3>4. grants' = GrantsAfterRefresh(p) \cup {h} /\ h.request = q
      BY <2>5, <3>3
    <3>5. q.op = "input" => q.target = portals[p].page
      <4>1. journal[x.id].request \in Requests
        BY <2>3, EntryNotNone
      <4> QED
        BY <2>1, <2>2, <2>5, <4>1, RequestTypes
    <3>6. GrantsCurrent'
      BY <2>1, <2>2, <3>4, <3>5 DEF GrantsCurrent
    <3>7. Types'
      BY <1>2, <2>1, <2>2, <2>5, <3>1, <3>2, <3>4 DEF Inv, Types
    <3>8. RanOnce'
      BY <2>1, <2>3, <3>1, <3>2 DEF Inv, RanOnce, Fresh, State, Free
    <3>9. HeldRow'
      BY <2>1, <2>2, <3>1, <3>2 DEF HeldRow
    <3>10. PendingOnce'
      BY <2>5 DEF Inv, PendingOnce
    <3>11. ApprovalsAnswerable'
      <4>1. \A i \in Ids : State(i)' = "awaiting" <=> State(i) = "awaiting" /\ i # x.id
        BY <3>1 DEF State
      <4>2. \A y \in pending : y \in pending' <=> y.id # x.id
        BY <2>5 DEF Inv, PendingOnce
      <4>3. {i \in Ids : State(i)' = "awaiting"} = {y.id : y \in pending'}
        BY <2>5, <4>1, <4>2 DEF Inv, ApprovalsAnswerable
      <4>4. asks' \subseteq {y.id : y \in pending'}
        BY <1>2, <2>5, <4>2 DEF Inv, ApprovalsAnswerable
      <4> QED
        BY <2>2, <2>5, <4>3, <4>4 DEF ApprovalsAnswerable
    <3> QED
      BY <2>2, <3>6, <3>7, <3>8, <3>9, <3>10, <3>11 DEF Inv
  <2> QED
    BY <1>2, <2>4, <2>5
<1> QED
  <2>1. CASE \E x \in pending :
               LET q == x.request
                   p == q.portal
               IN /\ x.id = job.id /\ Authorized(q.agent, p)
                  /\ portals' = Refreshed(p) /\ asks' = asks \ {x.id}
                  /\ IF PolicyRequest(journal[x.id].request, p, portals[p].page) = q /\ x.id \in asks
                     THEN /\ grants' = GrantsAfterRefresh(p) \cup {[request |-> q, once |-> job.once]}
                          /\ pending' = pending \ {x}
                          /\ journal' = [journal EXCEPT ![x.id].state = "queued"]
                          /\ Dispatch(x.id, q, {q})
                     ELSE /\ grants' = GrantsAfterRefresh(p)
                          /\ EndPending({x})
                          /\ UNCHANGED held
    BY <1>2, <2>1
  <2> QED
    BY <1>1, <2>1 DEF Approve

LEMMA RejectStep ==
  ASSUME Inv, NEW job, Reject(job), Free, UNCHANGED <<issued, ran>>
  PROVE  Inv' /\ UNCHANGED portals
<1> DEFINE S == {x \in pending : x.id = job.id}
<1>1. UNCHANGED <<portals, grants, held>> /\ EndPending(S) /\ asks' = asks \ {x.id : x \in S}
  BY DEF Reject
<1>2. S \in SUBSET pending /\ asks' \subseteq asks /\ asks' \cap {x.id : x \in S} = {}
  BY <1>1
<1> HIDE DEF S
<1>3. /\ portals' \in [Pids -> Entries \cup {None}] /\ issued' \in 0..MaxPortals /\ Issued' /\ GrantsCurrent'
      /\ \A x \in pending \ S : portals'[x.request.portal] # None /\ x.request.agent \in portals'[x.request.portal].agents
  BY <1>1 DEF Inv, Types, Issued, GrantsCurrent, ApprovalsAnswerable
<1> QED
  BY <1>1, <1>2, <1>3, ReleaseStep

\* A row of the journal in another state.
LEMMA RowFacts ==
  ASSUME Inv, NEW i \in Ids, journal[i] # None,
         NEW state \in {"awaiting", "queued", "dispatched", "completed", "failed", "unknown"},
         journal' = [journal EXCEPT ![i].state = state]
  PROVE  /\ journal' \in [Ids -> Rows \cup {None}] /\ journal'[i] # None /\ journal'[i].state = state
         /\ \A j \in Ids : j # i => journal'[j] = journal[j]
<1>1. journal \in [Ids -> Rows \cup {None}] /\ journal[i] \in Rows
  BY DEF Inv, Types
<1>2. PICK w : w = [journal[i] EXCEPT !.state = state]
  OBVIOUS
<1>3. w \in Rows /\ w.state = state
  BY <1>1, <1>2 DEF Rows
<1>4. journal' = [journal EXCEPT ![i] = w]
  BY <1>1, <1>2
<1> QED
  BY <1>1, <1>3, <1>4, EntryNotNone

\* A step of the dispatch that holds the mutex.
LEMMA DispatcherStep ==
  ASSUME Inv, Dispatcher
  PROVE  /\ Inv' /\ UNCHANGED <<interface, jobs, issued>>
         /\ \A q \in Pids : /\ portals'[q] = None <=> portals[q] = None
                            /\ portals[q] # None => portals'[q].state = portals[q].state
<1>1. /\ held # None /\ held \in Dispatches /\ held.id \in Ids /\ held.request \in PolicyRequests
      /\ held.request.portal \in Pids /\ journal[held.id] # None /\ portals[held.request.portal] # None
      /\ held.state = "queued" => journal[held.id].state = "queued"
      /\ held.state # "queued" => journal[held.id].state = "dispatched"
  <2>0. held.state \in {"queued", "dispatched", "executed"}
    BY DEF Dispatcher, CheckDispatch, ExecuteDispatch, FinishDispatch
  <2>1. held # None
    BY <2>0 DEF None
  <2>2. held \in Dispatches
    BY <2>1 DEF Inv, Types
  <2>3. held.id \in Ids /\ held.request \in PolicyRequests /\ held.request.portal \in Pids
    BY <2>2, EntryNotNone DEF PolicyRequests
  <2> QED
    BY <2>1, <2>2, <2>3 DEF Inv, HeldRow
<1> DEFINE p == held.request.portal
<1>2. portals \in [Pids -> Entries \cup {None}] /\ journal[held.id] \in Rows /\ ran \in [Ids -> Nat]
  BY <1>1 DEF Inv, Types
\* What a step that keeps the set of awaiting actions has to show.
<1>3. ASSUME UNCHANGED <<asks, pending, issued>>, grants' \subseteq grants,
             portals' \in [Pids -> Entries \cup {None}], \A q \in Pids : portals'[q] = None <=> portals[q] = None,
             \A q \in Pids : portals[q] # None => portals'[q].agents = portals[q].agents,
             \A i \in Ids : State(i)' = "awaiting" <=> State(i) = "awaiting"
      PROVE  Issued' /\ PendingOnce' /\ ApprovalsAnswerable'
  <2>1. \A x \in pending : x.request.portal \in Pids
    BY DEF Inv, Types, PolicyRequests
  <2> QED
    BY <1>3, <2>1 DEF Inv, Issued, PendingOnce, ApprovalsAnswerable
<1>4. CASE CheckDispatch
  <2>1. held.state = "queued" /\ UNCHANGED <<interface, jobs, issued, asks, pending, ran>>
    BY <1>4 DEF CheckDispatch
  <2>2. ran[held.id] = 0
    BY <1>1, <2>1 DEF Inv, RanOnce, Fresh, State
  <2>3. CASE held' = None /\ UNCHANGED <<portals, grants, journal>>
    <3>1. Types' /\ RanOnce' /\ HeldRow' /\ PendingOnce' /\ Issued' /\ ApprovalsAnswerable' /\ GrantsCurrent'
      BY <2>1, <2>3 DEF Inv, Types, RanOnce, Fresh, State, HeldRow, PendingOnce, Issued, ApprovalsAnswerable, GrantsCurrent
    <3> QED
      BY <2>1, <2>3, <3>1 DEF Inv
  <2>4. ASSUME portals' = Refreshed(p), grants' = GrantsAfterRefresh(p),
               NEW state \in {"dispatched", "failed"}, journal' = [journal EXCEPT ![held.id].state = state],
               \/ state = "dispatched" /\ held' = [held EXCEPT !.state = "dispatched"]
               \/ state = "failed" /\ held' = None
        PROVE  /\ Inv'
               /\ \A q \in Pids : /\ portals'[q] = None <=> portals[q] = None
                                  /\ portals[q] # None => portals'[q].state = portals[q].state
    <3>1. /\ journal' \in [Ids -> Rows \cup {None}] /\ journal'[held.id] # None /\ journal'[held.id].state = state
          /\ \A j \in Ids : j # held.id => journal'[j] = journal[j]
      BY <1>1, <2>4, RowFacts
    <3>2. /\ portals' \in [Pids -> Entries \cup {None}] /\ grants' \subseteq grants /\ GrantsCurrent'
          /\ \A q \in Pids : /\ portals'[q] = None <=> portals[q] = None
                             /\ portals[q] # None => /\ portals'[q].state = portals[q].state
                                                     /\ portals'[q].agents = portals[q].agents
      BY <1>1, <2>4, RefreshFacts DEF GrantsCurrent
    <3>3. \/ state = "failed" /\ held' = None
          \/ /\ state = "dispatched" /\ held' \in Dispatches /\ held' # None /\ held'.state = "dispatched"
             /\ held'.id = held.id /\ held'.request = held.request
      BY <1>1, <2>4, EntryNotNone DEF Dispatches
    <3>4. \A i \in Ids : State(i)' = "awaiting" <=> State(i) = "awaiting"
      BY <1>1, <2>1, <3>1 DEF State
    <3>5. Issued' /\ PendingOnce' /\ ApprovalsAnswerable'
      BY <1>3, <2>1, <3>2, <3>4
    <3>6. Types'
      BY <2>1, <3>1, <3>2, <3>3 DEF Inv, Types
    <3>7. RanOnce'
      BY <1>1, <2>1, <2>2, <3>1, <3>3 DEF Inv, RanOnce, Fresh, State
    <3>8. HeldRow'
      BY <1>1, <3>1, <3>2, <3>3 DEF HeldRow
    <3> QED
      BY <3>2, <3>5, <3>6, <3>7, <3>8 DEF Inv
  <2>5. \/ held' = None /\ UNCHANGED <<portals, grants, journal>>
        \/ /\ portals' = Refreshed(p) /\ grants' = GrantsAfterRefresh(p)
           /\ \/ held' = [held EXCEPT !.state = "dispatched"] /\ journal' = [journal EXCEPT ![held.id].state = "dispatched"]
              \/ held' = None /\ journal' = [journal EXCEPT ![held.id].state = "failed"]
    BY <1>4 DEF CheckDispatch
  <2> QED
    BY <2>1, <2>3, <2>4, <2>5
<1>5. CASE ExecuteDispatch
  <2>1. PICK ok \in BOOLEAN :
          /\ held' = [held EXCEPT !.state = "executed", !.ok = ok]
          /\ portals' = IF ok /\ journal[held.id].request.op = "navigate"
                        THEN [portals EXCEPT ![p].page = journal[held.id].request.dest] ELSE portals
    BY <1>5 DEF ExecuteDispatch
  <2>2. /\ held.state = "dispatched" /\ ran' = [ran EXCEPT ![held.id] = @ + 1]
        /\ UNCHANGED <<interface, jobs, issued, grants, asks, pending, journal>>
    BY <1>5 DEF ExecuteDispatch, policy
  <2>3. held' \in Dispatches /\ held' # None /\ held'.state = "executed" /\ held'.id = held.id /\ held'.request = held.request
    <3>1. PICK h : h = [held EXCEPT !.state = "executed"]
      OBVIOUS
    <3>2. h \in Dispatches /\ h.state = "executed" /\ h.id = held.id /\ h.request = held.request
      BY <1>1, <3>1 DEF Dispatches
    <3>3. PICK d : d = [h EXCEPT !.ok = ok]
      OBVIOUS
    <3>4. d \in Dispatches /\ d.state = "executed" /\ d.id = held.id /\ d.request = held.request
      BY <3>2, <3>3 DEF Dispatches
    <3>5. held' = d
      BY <1>1, <2>1, <3>1, <3>3 DEF Dispatches
    <3> QED
      BY <3>4, <3>5, EntryNotNone
  <2>4. /\ portals' \in [Pids -> Entries \cup {None}]
        /\ \A q \in Pids : /\ portals'[q] = None <=> portals[q] = None
                           /\ portals[q] # None => /\ portals'[q].state = portals[q].state
                                                   /\ portals'[q].agents = portals[q].agents
                                                   /\ portals'[q].target = portals[q].target
    <3>1. CASE portals' = portals
      BY <1>2, <3>1
    <3>2. CASE portals' = [portals EXCEPT ![p].page = journal[held.id].request.dest]
      <4>1. journal[held.id].request.dest \in Targets
        BY <1>2, EntryNotNone, RequestTypes, PortalsAssumption
      <4>2. PICK e : e = [portals[p] EXCEPT !.page = journal[held.id].request.dest]
        OBVIOUS
      <4>3. portals[p] \in Entries
        BY <1>1, <1>2
      <4>4. e \in Entries /\ e.state = portals[p].state /\ e.agents = portals[p].agents /\ e.target = portals[p].target
        BY <4>1, <4>2, <4>3 DEF Entries
      <4>5. portals' = [portals EXCEPT ![p] = e]
        BY <1>2, <3>2, <4>2
      <4>6. /\ portals' \in [Pids -> Entries \cup {None}] /\ portals'[p] = e /\ e # None
            /\ \A q \in Pids : q # p => portals'[q] = portals[q]
        BY <1>1, <1>2, <4>4, <4>5, EntryNotNone
      <4> QED
        BY <1>1, <4>4, <4>6
    <3> QED
      BY <2>1, <3>1, <3>2
  <2>5. ran[held.id] = 0
    BY <1>1, <2>2 DEF Inv, RanOnce, Fresh
  <2>6. \A i \in Ids : State(i)' = State(i)
    BY <2>2 DEF State
  <2>7. Issued' /\ PendingOnce' /\ ApprovalsAnswerable'
    BY <1>3, <2>2, <2>4, <2>6
  <2>8. Types'
    BY <1>1, <1>2, <2>2, <2>3, <2>4 DEF Inv, Types
  <2>9. GrantsCurrent'
    <3>1. \A g \in grants : g.request.portal \in Pids
      BY DEF Inv, Types, PolicyRequests
    <3> QED
      BY <2>2, <2>4, <3>1 DEF Inv, GrantsCurrent
  <2>10. RanOnce'
    BY <1>1, <1>2, <2>2, <2>3, <2>5, <2>6 DEF Inv, RanOnce, Fresh, State
  <2>11. HeldRow'
    BY <1>1, <2>2, <2>3, <2>4 DEF HeldRow
  <2> QED
    BY <2>2, <2>4, <2>7, <2>8, <2>9, <2>10, <2>11 DEF Inv
<1>6. CASE FinishDispatch
  <2>1. PICK state \in {"completed", "failed"} : journal' = [journal EXCEPT ![held.id].state = state]
    BY <1>6 DEF FinishDispatch
  <2>2. /\ held.state = "executed" /\ held' = None
        /\ UNCHANGED <<interface, jobs, portals, issued, grants, asks, pending, ran>>
    BY <1>6 DEF FinishDispatch, policy
  <2>3. /\ journal' \in [Ids -> Rows \cup {None}] /\ journal'[held.id] # None /\ journal'[held.id].state = state
        /\ \A j \in Ids : j # held.id => journal'[j] = journal[j]
    BY <1>1, <2>1, RowFacts
  <2>4. \A i \in Ids : State(i)' = "awaiting" <=> State(i) = "awaiting"
    BY <1>1, <2>2, <2>3 DEF State
  <2>5. Issued' /\ PendingOnce' /\ ApprovalsAnswerable'
    BY <1>2, <1>3, <2>2, <2>4
  <2>6. Types' /\ GrantsCurrent' /\ HeldRow'
    BY <2>2, <2>3 DEF Inv, Types, GrantsCurrent, HeldRow
  <2>7. RanOnce'
    BY <1>1, <2>2, <2>3 DEF Inv, RanOnce, Fresh, State
  <2> QED
    BY <2>2, <2>5, <2>6, <2>7 DEF Inv
<1> QED
  BY <1>4, <1>5, <1>6 DEF Dispatcher

\* Time, a moving page and a restart.
LEMMA WorldStep ==
  ASSUME Inv, TimePasses \/ Restart \/ \E p \in Pids : PageMoves(p)
  PROVE  Inv'
<1>1. CASE TimePasses
  <2>1. /\ Free /\ grants' \subseteq grants /\ asks' \subseteq asks
        /\ UNCHANGED <<portals, issued, pending, journal, held, ran>>
    BY <1>1 DEF TimePasses
  <2>2. {} \in SUBSET pending /\ asks' \cap {x.id : x \in {}} = {} /\ \A x \in pending \ {} : x \in pending
    OBVIOUS
  <2>3. /\ portals' \in [Pids -> Entries \cup {None}] /\ issued' \in 0..MaxPortals /\ Issued' /\ GrantsCurrent'
        /\ \A x \in pending : portals'[x.request.portal] # None /\ x.request.agent \in portals'[x.request.portal].agents
    BY <2>1 DEF Inv, Types, Issued, GrantsCurrent, ApprovalsAnswerable
  <2> QED
    BY <2>1, <2>2, <2>3, ReleaseStep
<1>2. CASE Restart
  <2>1. /\ portals' = [p \in Pids |-> None] /\ issued' = 0
        /\ grants' = {} /\ asks' = {} /\ pending' = {} /\ held' = None
        /\ journal' = [i \in Ids |-> Recovered(journal[i])] /\ UNCHANGED ran
    BY <1>2 DEF Restart
  <2>2. journal \in [Ids -> Rows \cup {None}]
    BY DEF Inv, Types
  <2>3. ASSUME NEW i \in Ids
        PROVE  /\ journal'[i] \in Rows \cup {None} /\ State(i)' \notin {"awaiting", "queued"}
               /\ State(i)' = "none" => State(i) = "none"
    <3>1. CASE journal[i] = None
      BY <2>1, <2>2, <3>1 DEF Recovered, State
    <3>2. CASE journal[i] # None
      <4>1. journal[i] \in Rows
        BY <2>2, <3>2
      <4>2. /\ \A s \in {"unknown", "failed"} : /\ [journal[i] EXCEPT !.state = s] \in Rows
                                                /\ [journal[i] EXCEPT !.state = s].state = s
        BY <4>1 DEF Rows
      <4> QED
        BY <2>1, <3>2, <4>1, <4>2, EntryNotNone DEF Recovered, State
    <3> QED
      BY <3>1, <3>2
  <2>4. Types'
    BY <2>1, <2>3, PortalsAssumption DEF Inv, Types
  <2>5. RanOnce'
    BY <2>1, <2>3 DEF Inv, RanOnce, Fresh
  <2>6. HeldRow' /\ PendingOnce' /\ Issued' /\ GrantsCurrent'
    BY <2>1 DEF HeldRow, PendingOnce, Issued, GrantsCurrent
  <2>7. ApprovalsAnswerable'
    BY <2>1, <2>3 DEF ApprovalsAnswerable
  <2> QED
    BY <2>4, <2>5, <2>6, <2>7 DEF Inv
<1>3. ASSUME NEW p \in Pids, PageMoves(p) PROVE Inv'
  <2>1. PICK t \in Targets : portals' = [portals EXCEPT ![p].page = t]
    BY <1>3 DEF PageMoves
  <2>2. portals[p] # None /\ UNCHANGED <<issued, grants, asks, pending, journal, held, ran>>
    BY <1>3 DEF PageMoves, policy
  <2>3. portals \in [Pids -> Entries \cup {None}] /\ portals[p] \in Entries
    BY <2>2 DEF Inv, Types
  <2>4. PICK e : e = [portals[p] EXCEPT !.page = t]
    OBVIOUS
  <2>5. e \in Entries /\ e.agents = portals[p].agents /\ e.target = portals[p].target
    BY <2>3, <2>4 DEF Entries
  <2>6. portals' = [portals EXCEPT ![p] = e]
    BY <2>1, <2>3, <2>4
  <2>7. /\ portals' \in [Pids -> Entries \cup {None}]
        /\ \A q \in Pids : /\ portals'[q] = None <=> portals[q] = None
                           /\ portals[q] # None => /\ portals'[q].agents = portals[q].agents
                                                   /\ portals'[q].target = portals[q].target
    BY <2>2, <2>3, <2>5, <2>6, EntryNotNone
  <2>8. /\ \A x \in pending : x.request.portal \in Pids
        /\ \A g \in grants : g.request.portal \in Pids
        /\ held # None => held.request.portal \in Pids
    BY EntryNotNone DEF Inv, Types, PolicyRequests
  <2>9. Types' /\ PendingOnce' /\ Issued'
    BY <2>2, <2>7 DEF Inv, Types, PendingOnce, Issued
  <2>10. RanOnce'
    BY <2>2 DEF Inv, RanOnce, Fresh, State
  <2>11. HeldRow'
    BY <2>2, <2>7, <2>8 DEF Inv, HeldRow
  <2>12. ApprovalsAnswerable'
    BY <2>2, <2>7, <2>8 DEF Inv, ApprovalsAnswerable, State
  <2>13. GrantsCurrent'
    BY <2>2, <2>7, <2>8 DEF Inv, GrantsCurrent
  <2> QED
    BY <2>9, <2>10, <2>11, <2>12, <2>13 DEF Inv
<1> QED
  BY <1>1, <1>2, <1>3

\* A connection registers a new portal ...
LEMMA RegisterStep ==
  ASSUME Inv, Free, issued < MaxPortals, issued' = issued + 1, UNCHANGED <<policy, journal, held, ran>>,
         portals' = [portals EXCEPT ![issued'] = [state |-> "disconnected", agents |-> {}, target |-> Home, page |-> Home]]
  PROVE  /\ Inv' /\ issued' \in Pids /\ portals[issued'] = None
         /\ portals'[issued'] # None /\ portals'[issued'].state = "disconnected"
         /\ \A q \in Pids : q # issued' => portals'[q] = portals[q]
<1>1. issued \in 0..MaxPortals /\ portals \in [Pids -> Entries \cup {None}] /\ MaxPortals \in Nat
  BY PortalsAssumption DEF Inv, Types
<1>2. issued' \in Pids /\ portals[issued'] = None /\ issued' \in 0..MaxPortals
  BY <1>1 DEF Inv, Issued, Pids
<1>3. PICK e : e = [state |-> "disconnected", agents |-> {}, target |-> Home, page |-> Home]
  OBVIOUS
<1>4. e \in Entries /\ e.state = "disconnected"
  BY <1>3, PortalsAssumption DEF Entries
<1>5. /\ portals' \in [Pids -> Entries \cup {None}] /\ portals'[issued'] = e /\ e # None
      /\ \A q \in Pids : q # issued' => portals'[q] = portals[q]
  BY <1>1, <1>2, <1>3, <1>4, EntryNotNone
<1>6. /\ \A x \in pending : x.request.portal \in Pids
      /\ \A g \in grants : g.request.portal \in Pids
  BY DEF Inv, Types, PolicyRequests
<1>7. \A x \in pending : portals'[x.request.portal] # None /\ x.request.agent \in portals'[x.request.portal].agents
  BY <1>2, <1>5, <1>6 DEF Inv, ApprovalsAnswerable
<1>8. GrantsCurrent' /\ UNCHANGED <<grants, asks, pending, journal>>
  BY <1>2, <1>5, <1>6 DEF Inv, GrantsCurrent, policy
<1>9. Issued'
  BY <1>1, <1>2, <1>5 DEF Inv, Issued, Pids
<1>10. {} \in SUBSET pending /\ asks' \cap {x.id : x \in {}} = {} /\ \A x \in pending \ {} : x \in pending
  OBVIOUS
<1>11. Inv'
  BY <1>2, <1>5, <1>7, <1>8, <1>9, <1>10, ReleaseStep
<1> QED
  BY <1>2, <1>4, <1>5, <1>11

\* ... and connects it.
LEMMA ConnectStep ==
  ASSUME Inv, Free, NEW p \in Pids, portals[p] # None, UNCHANGED <<issued, policy, journal, held, ran>>,
         portals' = [portals EXCEPT ![p].state = "connected", ![p].page = Home]
  PROVE  Inv' /\ portals'[p] # None /\ \A q \in Pids : q # p => portals'[q] = portals[q]
<1>1. portals \in [Pids -> Entries \cup {None}] /\ portals[p] \in Entries
  BY DEF Inv, Types
<1>2. PICK d : d = [portals[p] EXCEPT !.state = "connected"]
  OBVIOUS
<1>3. d \in Entries /\ d.agents = portals[p].agents /\ d.target = portals[p].target
  BY <1>1, <1>2 DEF Entries
<1>4. PICK e : e = [d EXCEPT !.page = Home]
  OBVIOUS
<1>5. e \in Entries /\ e.agents = portals[p].agents /\ e.target = portals[p].target
  BY <1>3, <1>4, PortalsAssumption DEF Entries
<1>6. portals' = [portals EXCEPT ![p] = e]
  BY <1>1, <1>2, <1>4 DEF Entries
<1>7. /\ portals' \in [Pids -> Entries \cup {None}] /\ portals'[p] = e /\ e # None
      /\ \A q \in Pids : q # p => portals'[q] = portals[q]
  BY <1>1, <1>5, <1>6, EntryNotNone
<1>8. /\ \A x \in pending : x.request.portal \in Pids
      /\ \A g \in grants : g.request.portal \in Pids
  BY DEF Inv, Types, PolicyRequests
<1>9. \A x \in pending : portals'[x.request.portal] # None /\ x.request.agent \in portals'[x.request.portal].agents
  BY <1>5, <1>7, <1>8 DEF Inv, ApprovalsAnswerable
<1>10. GrantsCurrent' /\ Issued' /\ UNCHANGED <<grants, asks, pending, journal>> /\ issued' \in 0..MaxPortals
  <2>1. GrantsCurrent'
    <3>1. grants' = grants
      BY DEF policy
    <3>2. ASSUME NEW g \in grants
          PROVE  /\ portals'[g.request.portal] # None /\ g.request.agent \in portals'[g.request.portal].agents
                 /\ g.request.op = "input" => g.request.target = portals'[g.request.portal].target
      <4>1. g.request.portal \in Pids
        BY <1>8
      <4>2. /\ portals[g.request.portal] # None /\ g.request.agent \in portals[g.request.portal].agents
            /\ g.request.op = "input" => g.request.target = portals[g.request.portal].target
        BY DEF Inv, GrantsCurrent
      <4> QED
        BY <1>5, <1>7, <4>1, <4>2
    <3> QED
      BY <3>1, <3>2 DEF GrantsCurrent
  <2>2. Issued'
    BY <1>7 DEF Inv, Issued
  <2>3. UNCHANGED <<grants, asks, pending, journal>> /\ issued' \in 0..MaxPortals
    BY DEF Inv, Types, policy
  <2> QED
    BY <2>1, <2>2, <2>3
<1>11. {} \in SUBSET pending /\ asks' \cap {x.id : x \in {}} = {} /\ \A x \in pending \ {} : x \in pending
  OBVIOUS
<1> QED
  BY <1>7, <1>9, <1>10, <1>11, ReleaseStep

-----------------------------------------------------------------------------
(* Sessions and blocking tasks *)

TaskRecords ==
  [kind : {"connect", "capture", "input", "close"}, pc : {"start", "attach", "connect", "drop", "frame", "done"},
   portal : 0..MaxPortals, agents : SUBSET Agents, ok : BOOLEAN]
TasksOf(kinds) == {job \in jobs : job.kind \in kinds}

Sessions(s) ==
  s \in [phase : {"none", "connecting", "connected", "disconnecting"}, portal : 0..MaxPortals,
              busy : BOOLEAN, queue : Nat]

SessionTypes ==
  /\ wired \subseteq Agents
  /\ Sessions(live)
  /\ \A job \in jobs : job.kind # "answer" => job \in TaskRecords

Opened(p) == p \in Pids /\ p <= issued
\* A session, and a task that serves one, has an issued portal.
InUse ==
  /\ live.phase \in {"connected", "disconnecting"} => Opened(live.portal)
  /\ \A job \in TasksOf({"capture", "input", "close"}) : Opened(job.portal)

\* One connection is under way at a time; it has a portal from its
\* registration on, and has none when it failed.
Connecting ==
  \A job \in TasksOf({"connect"}) :
    /\ live.phase = "connecting" /\ \A other \in TasksOf({"connect"}) : other = job
    /\ job.pc # "start" => job.portal = 0 \/ Opened(job.portal)
    /\ job.pc \in {"attach", "connect", "drop"} => job.portal # 0 /\ portals[job.portal] # None
    /\ job.pc = "done" => IF job.ok THEN job.portal # 0 ELSE job.portal = 0 \/ portals[job.portal] = None
    /\ job.pc = "start" => job.portal = 0
    /\ \A other \in TasksOf({"close"}) : other.portal # job.portal

\* A portal that was closed is not connected any more.
ClosedPortals ==
  \A job \in TasksOf({"close"}) : job.pc = "done" =>
    portals[job.portal] = None \/ portals[job.portal].state # "connected"

\* A session starts without inputs, and a busy one has a task.
Served ==
  /\ live.phase = "connecting" => ~live.busy /\ live.queue = 0
  /\ live.phase = "connected" =>
       /\ live.queue > 0 => live.busy
       /\ live.busy => \E job \in TasksOf({"capture", "input"}) : job.portal = live.portal

SInv == SessionTypes /\ InUse /\ Connecting /\ ClosedPortals /\ NoOrphan /\ Served

LEMMA TaskTypes ==
  ASSUME NEW j \in TaskRecords, NEW pc \in {"attach", "connect", "drop", "frame", "done"}, NEW ok \in BOOLEAN
  PROVE  /\ j.kind \in {"connect", "capture", "input", "close"} /\ j.portal \in 0..MaxPortals /\ j.agents \subseteq Agents
         /\ [j EXCEPT !.pc = pc] \in TaskRecords
         /\ [j EXCEPT !.pc = pc].kind = j.kind /\ [j EXCEPT !.pc = pc].pc = pc
         /\ [j EXCEPT !.pc = pc].portal = j.portal
         /\ [j EXCEPT !.pc = "done", !.ok = ok] \in TaskRecords
         /\ [j EXCEPT !.pc = "done", !.ok = ok].kind = j.kind /\ [j EXCEPT !.pc = "done", !.ok = ok].pc = "done"
         /\ [j EXCEPT !.pc = "done", !.ok = ok].portal = j.portal /\ [j EXCEPT !.pc = "done", !.ok = ok].ok = ok
<1>1. j.kind \in {"connect", "capture", "input", "close"} /\ j.portal \in 0..MaxPortals /\ j.agents \subseteq Agents
  BY DEF TaskRecords
<1>2. /\ [j EXCEPT !.pc = pc] \in TaskRecords
      /\ [j EXCEPT !.pc = pc].kind = j.kind /\ [j EXCEPT !.pc = pc].pc = pc
      /\ [j EXCEPT !.pc = pc].portal = j.portal
  BY DEF TaskRecords
<1>3. /\ [j EXCEPT !.pc = "done", !.ok = ok] \in TaskRecords
      /\ [j EXCEPT !.pc = "done", !.ok = ok].kind = j.kind /\ [j EXCEPT !.pc = "done", !.ok = ok].pc = "done"
      /\ [j EXCEPT !.pc = "done", !.ok = ok].portal = j.portal /\ [j EXCEPT !.pc = "done", !.ok = ok].ok = ok
  BY DEF TaskRecords
<1> QED
  BY <1>1, <1>2, <1>3

LEMMA InitSessions == Init => SInv
<1> SUFFICES ASSUME Init PROVE SInv
  OBVIOUS
<1>1. jobs = {} /\ wired \subseteq Agents /\ live = NoSession /\ portals = [p \in Pids |-> None]
  BY DEF Init
<1>2. SessionTypes
  BY <1>1, PortalsAssumption DEF SessionTypes, Sessions, NoSession
<1>3. InUse /\ Connecting /\ ClosedPortals /\ Served
  BY <1>1 DEF InUse, Connecting, ClosedPortals, Served, NoSession, TasksOf
<1>4. NoOrphan
  BY <1>1 DEF NoOrphan, None
<1> QED
  BY <1>2, <1>3, <1>4 DEF SInv

\* Steps of agents, the user's answers, the canvas, pages and time leave
\* sessions and their tasks alone.
LEMMA OutsideStep ==
  ASSUME SInv, UNCHANGED <<live, issued>>, wired' \subseteq Agents,
         \A job : job.kind # "answer" => (job \in jobs' <=> job \in jobs),
         \A q \in Pids : /\ portals'[q] = None <=> portals[q] = None
                         /\ portals[q] # None => portals'[q].state = portals[q].state
  PROVE  SInv'
<1>1. \A kinds : "answer" \notin kinds => TasksOf(kinds)' = TasksOf(kinds)
  BY DEF TasksOf
<1>2. /\ TasksOf({"connect"})' = TasksOf({"connect"}) /\ TasksOf({"close"})' = TasksOf({"close"})
      /\ TasksOf({"capture", "input"})' = TasksOf({"capture", "input"})
      /\ TasksOf({"capture", "input", "close"})' = TasksOf({"capture", "input", "close"})
      /\ TasksOf({"connect", "close"})' = TasksOf({"connect", "close"})
  BY <1>1
<1>3. SessionTypes'
  BY DEF SInv, SessionTypes, Sessions
<1>4. InUse' /\ Served'
  BY <1>2 DEF SInv, InUse, Served, Opened
<1>5. Connecting'
  BY <1>2 DEF SInv, InUse, Connecting, Opened, TasksOf, Pids
<1>6. ClosedPortals'
  BY <1>2 DEF SInv, InUse, ClosedPortals, Opened, TasksOf
<1>7. NoOrphan'
  BY <1>2 DEF SInv, NoOrphan, TasksOf
<1> QED
  BY <1>3, <1>4, <1>5, <1>6, <1>7 DEF SInv

\* A task that serves a session makes its next call.
LEMMA TaskStep ==
  ASSUME SInv, NEW job \in TasksOf({"capture", "input", "close"}), NEW next \in TaskRecords,
         next.kind = job.kind, next.portal = job.portal, jobs' = (jobs \ {job}) \cup {next},
         UNCHANGED <<live, wired, issued>>,
         \A q \in Pids : /\ portals[q] = None => portals'[q] = None
                         /\ portals'[q] # None /\ portals'[q].state = "connected"
                              => portals[q] # None /\ portals[q].state = "connected"
                         /\ portals[q] # None /\ (job.kind # "close" \/ q # job.portal) => portals'[q] # None,
         job.kind = "close" /\ next.pc = "done"
           => portals'[job.portal] = None \/ portals'[job.portal].state # "connected"
  PROVE  SInv'
<1>1. \A k : k \in jobs' <=> (k \in jobs /\ k # job) \/ k = next
  OBVIOUS
<1>2. job \in jobs /\ job.kind \in {"capture", "input", "close"} /\ Opened(job.portal)
  BY DEF TasksOf, SInv, InUse
<1>3. SessionTypes'
  BY <1>1 DEF SInv, SessionTypes, Sessions
<1>4. InUse'
  BY <1>1, <1>2 DEF SInv, InUse, TasksOf, Opened
<1>5. Connecting'
  <2> SUFFICES ASSUME NEW c \in TasksOf({"connect"})'
               PROVE  /\ live.phase = "connecting" /\ \A other \in TasksOf({"connect"})' : other = c
                      /\ c.pc # "start" => c.portal = 0 \/ Opened(c.portal)
                      /\ c.pc \in {"attach", "connect", "drop"} => c.portal # 0 /\ portals'[c.portal] # None
                      /\ c.pc = "done" => IF c.ok THEN c.portal # 0 ELSE c.portal = 0 \/ portals'[c.portal] = None
                      /\ c.pc = "start" => c.portal = 0
                      /\ \A other \in TasksOf({"close"})' : other.portal # c.portal
    BY DEF Connecting, Opened
  <2>1. c \in TasksOf({"connect"}) /\ \A other \in TasksOf({"connect"})' : other \in TasksOf({"connect"})
    BY <1>1, <1>2 DEF TasksOf
  <2>2. \A other \in TasksOf({"close"})' : \E o \in TasksOf({"close"}) : o.portal = other.portal
    BY <1>1, <1>2 DEF TasksOf
  <2>3. job.kind = "close" => job \in TasksOf({"close"})
    BY <1>2 DEF TasksOf
  <2>4. c.pc # "start" => c.portal = 0 \/ c.portal \in Pids
    BY <2>1 DEF SInv, Connecting, Opened
  <2> QED
    BY <2>1, <2>2, <2>3, <2>4 DEF SInv, Connecting
<1>6. ClosedPortals'
  <2> SUFFICES ASSUME NEW k \in TasksOf({"close"})', k.pc = "done"
               PROVE  portals'[k.portal] = None \/ portals'[k.portal].state # "connected"
    BY DEF ClosedPortals
  <2>1. CASE k = next
    BY <1>1, <1>2, <2>1 DEF TasksOf
  <2>2. CASE k \in TasksOf({"close"})
    BY <2>2 DEF SInv, ClosedPortals, InUse, Opened, TasksOf
  <2> QED
    BY <1>1, <2>1, <2>2 DEF TasksOf
<1>7. NoOrphan'
  BY <1>1 DEF SInv, NoOrphan
<1>8. Served'
  BY <1>1, <1>2 DEF SInv, Served, TasksOf
<1> QED
  BY <1>3, <1>4, <1>5, <1>6, <1>7, <1>8 DEF SInv

\* The connection that is under way makes its next call.
LEMMA ConnectionStep ==
  ASSUME SInv, NEW job \in TasksOf({"connect"}), NEW next \in TaskRecords,
         next.kind = "connect", next.portal = job.portal \/ job.portal = 0, next.pc # "start",
         jobs' = (jobs \ {job}) \cup {next}, UNCHANGED <<live, wired>>, issued' \in Nat, issued' >= issued, issued \in Nat,
         next.portal = 0 \/ (next.portal \in Pids /\ next.portal <= issued'),
         next.pc \in {"attach", "connect", "drop"} => next.portal # 0 /\ portals'[next.portal] # None,
         next.pc = "done" => IF next.ok THEN next.portal # 0 ELSE next.portal = 0 \/ portals'[next.portal] = None,
         \A other \in TasksOf({"close"}) : other.portal # next.portal,
         \A q \in Pids : q # next.portal => portals'[q] = portals[q]
  PROVE  SInv'
<1>1. \A k : k \in jobs' <=> (k \in jobs /\ k # job) \/ k = next
  OBVIOUS
<1>2. job \in jobs /\ job.kind = "connect" /\ live.phase = "connecting"
  BY DEF TasksOf, SInv, Connecting
<1>3. \A p : Opened(p) => Opened(p)'
  BY DEF Opened, Pids
<1>4. SessionTypes'
  BY <1>1 DEF SInv, SessionTypes, Sessions
<1>5. InUse'
  BY <1>1, <1>2, <1>3 DEF SInv, InUse, TasksOf
<1>6. /\ \A k \in TasksOf({"connect"})' : k = next
      /\ TasksOf({"close"})' = TasksOf({"close"})
      /\ TasksOf({"capture", "input"})' = TasksOf({"capture", "input"})
  BY <1>1, <1>2 DEF TasksOf, SInv, Connecting
<1>7. Connecting'
  BY <1>2, <1>6 DEF Connecting, Opened
<1>8. ClosedPortals'
  BY <1>6 DEF SInv, ClosedPortals, InUse, Opened, TasksOf
<1>9. NoOrphan'
  BY <1>1, <1>2 DEF SInv, NoOrphan, Pids
<1>10. Served'
  BY <1>6 DEF SInv, Served
<1> QED
  BY <1>4, <1>5, <1>7, <1>8, <1>9, <1>10 DEF SInv

LEMMA ConnectTaskStep ==
  ASSUME Inv, SInv, NEW job \in jobs, ConnectTask(job)
  PROVE  Inv' /\ SInv'
<1>1. /\ job.kind = "connect" /\ job \in TaskRecords /\ Free /\ UNCHANGED <<live, wired, held, ran>>
      /\ issued \in 0..MaxPortals /\ MaxPortals \in Nat /\ job \in TasksOf({"connect"})
  BY PortalsAssumption DEF ConnectTask, interface, SInv, SessionTypes, Sessions, Inv, Types, TasksOf
<1>2. /\ job.pc # "start" => job.portal = 0 \/ (job.portal \in Pids /\ job.portal <= issued)
      /\ job.pc \in {"attach", "connect", "drop"} => job.portal # 0 /\ portals[job.portal] # None
      /\ job.pc = "start" => job.portal = 0
      /\ \A other \in TasksOf({"close"}) : other.portal # job.portal /\ other.portal \in Pids /\ other.portal <= issued
  BY <1>1 DEF SInv, Connecting, InUse, Opened, TasksOf
<1>3. CASE job.pc = "start" /\ Done(job, FALSE) /\ UNCHANGED <<portals, issued, policy, journal>>
  <2>1. PICK next \in TaskRecords : /\ jobs' = (jobs \ {job}) \cup {next} /\ next.kind = "connect"
                                    /\ next.portal = job.portal /\ next.pc = "done" /\ ~next.ok
    BY <1>1, <1>3, TaskTypes DEF Done, Job
  <2>2. SInv'
    BY <1>1, <1>2, <1>3, <2>1, ConnectionStep
  <2> QED
    BY <1>1, <1>3, <2>2, QuietStep DEF policy
<1>4. CASE /\ job.pc = "start" /\ issued < MaxPortals
           /\ issued' = issued + 1
           /\ portals' = [portals EXCEPT ![issued'] = [state |-> "disconnected", agents |-> {}, target |-> Home, page |-> Home]]
           /\ Job(job, [job EXCEPT !.pc = "attach", !.portal = issued'])
           /\ UNCHANGED <<policy, journal>>
  <2>1. /\ Inv' /\ issued' \in Pids /\ portals'[issued'] # None
        /\ \A q \in Pids : q # issued' => portals'[q] = portals[q]
    BY <1>1, <1>4, RegisterStep
  <2>2. issued' \in Nat /\ issued' >= issued /\ issued' \in 0..MaxPortals /\ issued \in Nat
    BY <1>1, <1>4
  <2>3. PICK next : next = [job EXCEPT !.pc = "attach", !.portal = issued']
    OBVIOUS
  <2>4. next \in TaskRecords /\ next.kind = "connect" /\ next.pc = "attach" /\ next.portal = issued'
    BY <1>1, <2>2, <2>3 DEF TaskRecords
  <2>5. jobs' = (jobs \ {job}) \cup {next}
    BY <1>4, <2>3 DEF Job
  <2>6. \A other \in TasksOf({"close"}) : other.portal # next.portal
    BY <1>1, <1>2, <1>4, <2>4 DEF Pids
  <2>7. next.portal \in Pids /\ next.portal <= issued' /\ next.portal # 0
    BY <2>1, <2>2, <2>4 DEF Pids
  <2>8. /\ next.portal = job.portal \/ job.portal = 0
        /\ next.pc \in {"attach", "connect", "drop"} => next.portal # 0 /\ portals'[next.portal] # None
        /\ next.pc = "done" => IF next.ok THEN next.portal # 0 ELSE next.portal = 0 \/ portals'[next.portal] = None
        /\ next.pc # "start" /\ \A q \in Pids : q # next.portal => portals'[q] = portals[q]
    BY <1>2, <1>4, <2>1, <2>4, <2>7
  <2>9. SInv'
    BY <1>1, <2>2, <2>4, <2>5, <2>6, <2>7, <2>8, ConnectionStep
  <2> QED
    BY <2>1, <2>9
<1>5. CASE /\ job.pc = "attach" /\ ReplaceAgents(job.portal, job.agents)
           /\ Job(job, [job EXCEPT !.pc = "connect"]) /\ UNCHANGED issued
  <2>1. job.portal \in Pids /\ job.agents \in SUBSET Agents /\ job.portal <= issued /\ job.portal # 0
    BY <1>1, <1>2, <1>5 DEF TaskRecords
  <2>2. /\ Inv' /\ \A q \in Pids : portals'[q] = None <=> portals[q] = None
        /\ \A q \in Pids : portals[q] # None => portals'[q].state = portals[q].state
    BY <1>1, <1>5, <2>1, ReplaceStep
  <2>3. PICK next \in TaskRecords : /\ jobs' = (jobs \ {job}) \cup {next} /\ next.kind = "connect"
                                    /\ next.portal = job.portal /\ next.pc = "connect"
    <3>1. [job EXCEPT !.pc = "connect"] \in TaskRecords
      BY <1>1, TaskTypes
    <3> QED
      BY <1>1, <1>5, <3>1 DEF Job, TaskRecords
  <2>4. \A k : k \in jobs' <=> (k \in jobs /\ k # job) \/ k = next
    BY <2>3
  <2>5. SInv'
    <3>1. /\ \A k \in TasksOf({"connect"})' : k = next
          /\ TasksOf({"close"})' = TasksOf({"close"})
          /\ TasksOf({"capture", "input"})' = TasksOf({"capture", "input"})
          /\ TasksOf({"capture", "input", "close"})' = TasksOf({"capture", "input", "close"})
      BY <1>1, <2>3, <2>4 DEF TasksOf, SInv, Connecting
    <3>2. SessionTypes'
      BY <1>1, <2>4 DEF SInv, SessionTypes, Sessions
    <3>3. InUse' /\ Served'
      BY <1>1, <1>5, <3>1 DEF SInv, InUse, Served, Opened
    <3>4. Connecting'
      BY <1>1, <1>2, <1>5, <2>1, <2>2, <2>3, <3>1 DEF SInv, Connecting, Opened
    <3>5. ClosedPortals'
      BY <1>2, <2>2, <3>1 DEF SInv, ClosedPortals
    <3>6. NoOrphan'
      BY <1>1, <2>2, <2>3, <2>4 DEF SInv, NoOrphan
    <3> QED
      BY <3>2, <3>3, <3>4, <3>5, <3>6 DEF SInv
  <2> QED
    BY <2>2, <2>5
<1>6. CASE /\ job.pc = "connect"
           /\ portals' = [portals EXCEPT ![job.portal].state = "connected", ![job.portal].page = Home]
           /\ Done(job, TRUE) /\ UNCHANGED <<issued, policy, journal>>
  <2>1. job.portal \in Pids /\ job.portal <= issued /\ job.portal # 0
    BY <1>1, <1>2, <1>6
  <2>2. Inv' /\ portals'[job.portal] # None /\ \A q \in Pids : q # job.portal => portals'[q] = portals[q]
    BY <1>1, <1>2, <1>6, <2>1, ConnectStep
  <2>3. PICK next \in TaskRecords : /\ jobs' = (jobs \ {job}) \cup {next} /\ next.kind = "connect"
                                    /\ next.portal = job.portal /\ next.pc = "done" /\ next.ok
    <3>1. [job EXCEPT !.pc = "done", !.ok = TRUE] \in TaskRecords
      BY <1>1, TaskTypes
    <3> QED
      BY <1>1, <1>6, <3>1 DEF Done, Job, TaskRecords
  <2>4. /\ issued' \in Nat /\ issued' >= issued /\ issued \in Nat /\ job \in TasksOf({"connect"})
        /\ \A other \in TasksOf({"close"}) : other.portal # next.portal
        /\ next.portal \in Pids /\ next.portal <= issued' /\ next.portal # 0
        /\ UNCHANGED <<live, wired>>
    BY <1>1, <1>2, <1>6, <2>1, <2>3
  <2>5. SInv'
    BY <2>2, <2>3, <2>4, ConnectionStep
  <2> QED
    BY <2>2, <2>5
<1>7. CASE /\ job.pc = "connect" /\ Job(job, [job EXCEPT !.pc = "drop"])
           /\ UNCHANGED <<portals, issued, policy, journal>>
  <2>1. PICK next \in TaskRecords : /\ jobs' = (jobs \ {job}) \cup {next} /\ next.kind = "connect"
                                    /\ next.portal = job.portal /\ next.pc = "drop"
    <3>1. /\ [job EXCEPT !.pc = "drop"] \in TaskRecords /\ [job EXCEPT !.pc = "drop"].kind = job.kind
          /\ [job EXCEPT !.pc = "drop"].portal = job.portal /\ [job EXCEPT !.pc = "drop"].pc = "drop"
      BY <1>1, TaskTypes
    <3>2. jobs' = (jobs \ {job}) \cup {[job EXCEPT !.pc = "drop"]} /\ job.kind = "connect"
      BY <1>1, <1>7, Zenon DEF Job
    <3> QED
      BY <3>1, <3>2, Zenon
  <2>2. SInv'
    BY <1>1, <1>2, <1>7, <2>1, ConnectionStep
  <2> QED
    BY <1>1, <1>7, <2>2, QuietStep DEF policy
<1>8. CASE job.pc = "drop" /\ Unregister(job.portal, TRUE) /\ Done(job, FALSE) /\ UNCHANGED issued
  <2>1. job.portal \in Pids /\ job.portal <= issued
    BY <1>1, <1>2, <1>8
  <2>2. Inv' /\ portals'[job.portal] = None /\ \A q \in Pids : q # job.portal => portals'[q] = portals[q]
    BY <1>1, <1>8, <2>1, UnregisterStep
  <2>3. PICK next \in TaskRecords : /\ jobs' = (jobs \ {job}) \cup {next} /\ next.kind = "connect"
                                    /\ next.portal = job.portal /\ next.pc = "done" /\ ~next.ok
    BY <1>1, <1>8, TaskTypes DEF Done, Job
  <2>4. SInv'
    BY <1>1, <1>2, <1>8, <2>1, <2>2, <2>3, ConnectionStep
  <2> QED
    BY <2>2, <2>4
<1> QED
  BY <1>3, <1>4, <1>5, <1>6, <1>7, <1>8 DEF ConnectTask

\* A task of a session names an issued portal and moves to one of its next calls.
LEMMA ServingFacts ==
  ASSUME SInv, NEW job \in jobs, job.kind \in {"capture", "input", "close"}
  PROVE  /\ job \in TaskRecords /\ job \in TasksOf({"capture", "input", "close"})
         /\ job.portal \in Pids /\ job.agents \in SUBSET Agents
<1>1. job \in TaskRecords /\ job \in TasksOf({"capture", "input", "close"})
  BY DEF SInv, SessionTypes, Sessions, TasksOf
<1> QED
  BY <1>1 DEF SInv, InUse, Opened, TaskRecords

LEMMA CaptureTaskStep ==
  ASSUME Inv, SInv, NEW job \in jobs, CaptureTask(job)
  PROVE  Inv' /\ SInv'
<1>1. /\ job.kind = "capture" /\ Free /\ UNCHANGED <<live, wired, issued, held, ran>>
  BY DEF CaptureTask, interface
<1>2. /\ job \in TaskRecords /\ job \in TasksOf({"capture", "input", "close"})
      /\ job.portal \in Pids /\ job.agents \in SUBSET Agents
  BY <1>1, ServingFacts
<1>3. CASE /\ job.pc = "start" /\ ReplaceAgents(job.portal, job.agents)
           /\ IF portals[job.portal] = None THEN Done(job, FALSE) ELSE Job(job, [job EXCEPT !.pc = "frame"])
  <2>1. /\ Inv' /\ \A q \in Pids : portals'[q] = None <=> portals[q] = None
        /\ \A q \in Pids : portals[q] # None => portals'[q].state = portals[q].state
    BY <1>1, <1>2, <1>3, ReplaceStep
  <2>2. [job EXCEPT !.pc = "done", !.ok = FALSE] \in TaskRecords /\ [job EXCEPT !.pc = "frame"] \in TaskRecords
    BY <1>2, TaskTypes
  <2>3. PICK next \in TaskRecords : /\ jobs' = (jobs \ {job}) \cup {next}
                                    /\ next.kind = job.kind /\ next.portal = job.portal
    BY <1>2, <1>3, <2>2 DEF Done, Job, TaskRecords
  <2>4. SInv'
    BY <1>1, <1>2, <2>1, <2>3, TaskStep
  <2> QED
    BY <2>1, <2>4
<1>4. CASE job.pc = "frame" /\ (\E ok \in BOOLEAN : Done(job, ok)) /\ UNCHANGED <<portals, policy, journal>>
  <2>1. PICK ok \in BOOLEAN : Done(job, ok)
    BY <1>4
  <2>2. [job EXCEPT !.pc = "done", !.ok = ok] \in TaskRecords
    BY <1>2, TaskTypes
  <2>3. PICK next \in TaskRecords : /\ jobs' = (jobs \ {job}) \cup {next}
                                    /\ next.kind = job.kind /\ next.portal = job.portal
    BY <1>2, <2>1, <2>2 DEF Done, Job, TaskRecords
  <2>4. SInv'
    BY <1>1, <1>2, <1>4, <2>3, TaskStep
  <2> QED
    BY <1>1, <1>4, <2>4, QuietStep DEF policy
<1> QED
  BY <1>3, <1>4 DEF CaptureTask

LEMMA InputTaskStep ==
  ASSUME Inv, SInv, NEW job \in jobs, InputTask(job)
  PROVE  Inv' /\ SInv'
<1>1. /\ job.kind = "input" /\ UNCHANGED <<live, wired, portals, issued, policy, journal, held, ran>>
  BY DEF InputTask, interface
<1>2. job \in TaskRecords /\ job \in TasksOf({"capture", "input", "close"})
  BY <1>1, ServingFacts
<1>3. PICK ok \in BOOLEAN : Done(job, ok)
  BY DEF InputTask
<1>4. [job EXCEPT !.pc = "done", !.ok = ok] \in TaskRecords
  BY <1>2, TaskTypes
<1>5. PICK next \in TaskRecords : /\ jobs' = (jobs \ {job}) \cup {next}
                                  /\ next.kind = job.kind /\ next.portal = job.portal
  BY <1>2, <1>3, <1>4 DEF Done, Job, TaskRecords
<1>6. SInv'
  BY <1>1, <1>2, <1>5, TaskStep
<1> QED
  BY <1>1, <1>6, QuietStep DEF policy

LEMMA CloseTaskStep ==
  ASSUME Inv, SInv, NEW job \in jobs, CloseTask(job)
  PROVE  Inv' /\ SInv'
<1>1. /\ job.kind = "close" /\ Free /\ UNCHANGED <<live, wired, issued, held, ran>>
  BY DEF CloseTask, interface
<1>2. job \in TaskRecords /\ job \in TasksOf({"capture", "input", "close"}) /\ job.portal \in Pids
  BY <1>1, ServingFacts
<1>3. PICK ok \in BOOLEAN : Unregister(job.portal, ok) /\ Done(job, ok)
  BY DEF CloseTask
<1>4. /\ Inv' /\ \A q \in Pids : q # job.portal => portals'[q] = portals[q]
      /\ portals'[job.portal] = None \/ portals'[job.portal].state = "closing"
  BY <1>1, <1>2, <1>3, UnregisterStep
<1>5. [job EXCEPT !.pc = "done", !.ok = ok] \in TaskRecords
  BY <1>2, TaskTypes
<1>6. PICK next \in TaskRecords : /\ jobs' = (jobs \ {job}) \cup {next}
                                  /\ next.kind = job.kind /\ next.portal = job.portal
  BY <1>2, <1>3, <1>5 DEF Done, Job, TaskRecords
<1>7. portals[job.portal] = None => portals'[job.portal] = None
  BY <1>3 DEF Unregister
<1>8. SInv'
  BY <1>1, <1>2, <1>4, <1>6, <1>7, TaskStep
<1> QED
  BY <1>4, <1>8

LEMMA AnswerTaskStep ==
  ASSUME Inv, SInv, NEW job \in jobs, AnswerTask(job)
  PROVE  Inv' /\ SInv'
<1>1. /\ job.kind = "answer" /\ Free /\ UNCHANGED <<live, wired, issued, ran>> /\ jobs' = jobs \ {job}
      /\ Approve(job) \/ Reject(job)
  BY DEF AnswerTask, interface
<1>2. /\ Inv'
      /\ \A q \in Pids : /\ portals'[q] = None <=> portals[q] = None
                         /\ portals[q] # None => portals'[q].state = portals[q].state
  BY <1>1, ApproveStep, RejectStep
<1>3. (\A k : k.kind # "answer" => (k \in jobs' <=> k \in jobs)) /\ wired' \subseteq Agents
  BY <1>1 DEF SInv, SessionTypes, Sessions
<1>4. SInv'
  BY <1>1, <1>2, <1>3, OutsideStep
<1> QED
  BY <1>2, <1>4

LEMMA StartTypes ==
  ASSUME NEW k \in {"connect", "capture", "input", "close"}, NEW p \in 0..MaxPortals, NEW A \in SUBSET Agents
  PROVE  /\ Start(k, p, A) \in TaskRecords
         /\ Start(k, p, A).kind = k /\ Start(k, p, A).portal = p /\ Start(k, p, A).pc = "start"
  BY DEF Start, TaskRecords

\* What a session is after it was connected, used or closed.
LEMMA SessionFacts ==
  ASSUME SInv
  PROVE  /\ live.phase \in {"none", "connecting", "connected", "disconnecting"} /\ live.portal \in 0..MaxPortals
         /\ live.busy \in BOOLEAN /\ live.queue \in Nat
         /\ live.phase \in {"connected", "disconnecting"} => live.portal \in Pids /\ live.portal <= issued
         /\ live.phase # "connecting" => TasksOf({"connect"}) = {}
         /\ Attached \in SUBSET Agents /\ wired \in SUBSET Agents
  BY DEF SInv, SessionTypes, Sessions, InUse, Opened, Connecting, Attached

LEMMA ConnectClick ==
  ASSUME SInv, Connect
  PROVE  SInv'
<1>1. PICK next : next = Start("connect", 0, wired)
  OBVIOUS
<1>2. 0 \in 0..MaxPortals /\ wired \in SUBSET Agents /\ MaxPortals \in Nat
  BY SessionFacts, PortalsAssumption
<1>3. next \in TaskRecords /\ next.kind = "connect" /\ next.portal = 0 /\ next.pc = "start"
  BY <1>1, <1>2, StartTypes
<1>4. /\ live.phase = "none" /\ live' = [NoSession EXCEPT !.phase = "connecting"] /\ jobs' = jobs \cup {next}
      /\ UNCHANGED <<wired, portals, issued>>
  BY <1>1 DEF Connect, Unmoved
<1>5. live'.phase = "connecting" /\ live'.portal = 0 /\ live'.busy = FALSE /\ live'.queue = 0
  BY <1>4 DEF NoSession
<1>6. \A k : k \in jobs' <=> k \in jobs \/ k = next
  BY <1>4
<1>7. TasksOf({"connect"}) = {}
  BY <1>4, SessionFacts
<1>8. SessionTypes'
  BY <1>2, <1>3, <1>4, <1>6 DEF SInv, SessionTypes, Sessions, NoSession
<1>9. InUse' /\ ClosedPortals' /\ Served'
  BY <1>3, <1>4, <1>5, <1>6 DEF SInv, InUse, ClosedPortals, Served, Opened, TasksOf
<1>10. Connecting'
  <2>1. /\ \A k \in TasksOf({"connect"})' : k = next
        /\ \A k \in TasksOf({"close"})' : k \in TasksOf({"close"})
    BY <1>3, <1>6, <1>7 DEF TasksOf
  <2>2. \A k \in TasksOf({"close"}) : k.portal # 0
    BY DEF SInv, InUse, Opened, TasksOf, Pids
  <2> QED
    BY <1>3, <1>5, <2>1, <2>2 DEF Connecting
<1>11. NoOrphan'
  BY <1>4, <1>6 DEF SInv, NoOrphan
<1> QED
  BY <1>8, <1>9, <1>10, <1>11 DEF SInv

\* Closing adds a task and gives the session up, whatever task ended with it.
LEMMA ClosingStep ==
  ASSUME SInv, Connected, Closing, UNCHANGED <<wired, portals, issued>>, NEW gone \in SUBSET jobs,
         jobs' = (jobs \ gone) \cup {CloseJob(live.portal)}, \A k \in gone : k.kind \in {"capture", "input"}
  PROVE  SInv'
<1>1. PICK next : next = CloseJob(live.portal)
  OBVIOUS
<1>2. live.portal \in Pids /\ live.portal <= issued /\ live.portal \in 0..MaxPortals /\ TasksOf({"connect"}) = {}
  BY SessionFacts DEF Connected
<1>3. next \in TaskRecords /\ next.kind = "close" /\ next.portal = live.portal /\ next.pc = "start"
  BY <1>1, <1>2, StartTypes DEF CloseJob
<1>4. \A k : k \in jobs' <=> (k \in jobs /\ k \notin gone) \/ k = next
  BY <1>1
<1>5. live'.phase = "disconnecting" /\ live'.portal = live.portal
  BY DEF Closing, SInv, SessionTypes, Sessions
<1>6. SessionTypes'
  BY <1>3, <1>4 DEF SInv, SessionTypes, Sessions, Closing
<1>7. InUse' /\ ClosedPortals' /\ Served'
  BY <1>2, <1>3, <1>4, <1>5 DEF SInv, InUse, ClosedPortals, Served, Opened, TasksOf
<1>8. Connecting'
  BY <1>2, <1>3, <1>4 DEF Connecting, TasksOf
<1>9. NoOrphan'
  <2>1. \A k \in jobs : k.kind \in {"connect", "close"} => k \in jobs'
    BY <1>4
  <2> QED
    BY <1>5, <2>1 DEF SInv, NoOrphan
<1> QED
  BY <1>6, <1>7, <1>8, <1>9 DEF SInv

\* A session in use takes results of its tasks and starts others.
LEMMA UseStep ==
  ASSUME SInv, Connected, UNCHANGED <<wired, portals, issued>>,
         NEW gone \in SUBSET jobs, NEW added \in SUBSET TaskRecords, jobs' = (jobs \ gone) \cup added,
         \A k \in gone : k.kind \in {"capture", "input"},
         \A k \in added : k.kind \in {"capture", "input"} /\ k.portal = live.portal,
         Sessions(live'), live'.phase = "connected", live'.portal = live.portal,
         live'.queue > 0 => live'.busy,
         live'.busy => added # {} \/ (live.busy /\ \A k \in gone : k.portal # live.portal)
  PROVE  SInv'
<1>1. live.portal \in Pids /\ live.portal <= issued /\ TasksOf({"connect"}) = {} /\ live.phase = "connected"
  BY SessionFacts DEF Connected
<1>2. \A k : k \in jobs' <=> (k \in jobs /\ k \notin gone) \/ k \in added
  OBVIOUS
<1>4. SessionTypes'
  BY <1>2 DEF SInv, SessionTypes, Sessions
<1>5. InUse' /\ ClosedPortals'
  BY <1>1, <1>2 DEF SInv, InUse, ClosedPortals, Opened, TasksOf
<1>6. Connecting'
  BY <1>1, <1>2 DEF Connecting, TasksOf
<1>7. NoOrphan'
  <2>1. \A k \in jobs : k.kind \in {"connect", "close"} => k \in jobs'
    BY <1>2
  <2> QED
    BY <1>1, <2>1 DEF SInv, NoOrphan
<1>8. Served'
  <2>1. ASSUME live'.busy PROVE \E k \in TasksOf({"capture", "input"})' : k.portal = live.portal
    <3>1. CASE added # {}
      BY <1>2, <3>1 DEF TasksOf
    <3>2. CASE live.busy /\ \A k \in gone : k.portal # live.portal
      <4>1. PICK k \in TasksOf({"capture", "input"}) : k.portal = live.portal
        BY <1>1, <3>2 DEF SInv, Served
      <4> QED
        BY <1>2, <3>2, <4>1 DEF TasksOf
    <3> QED
      BY <2>1, <3>1, <3>2
  <2> QED
    BY <2>1 DEF Served
<1> QED
  BY <1>4, <1>5, <1>6, <1>7, <1>8 DEF SInv

\* A click, a frame and an input on a connected portal.
LEMMA SessionStep ==
  ASSUME SInv, Disconnect \/ TickCapture \/ Input
  PROVE  SInv'
<1>1. Connected /\ UNCHANGED <<wired, portals, issued>>
  BY DEF Disconnect, TickCapture, Input, Unmoved
<1>2. /\ live.portal \in 0..MaxPortals /\ live.busy \in BOOLEAN /\ live.queue \in Nat
      /\ Attached \in SUBSET Agents /\ {} \in SUBSET jobs /\ {} \in SUBSET TaskRecords
      /\ live.queue > 0 => live.busy
      /\ live \in [phase : {"none", "connecting", "connected", "disconnecting"}, portal : 0..MaxPortals,
                   busy : BOOLEAN, queue : Nat]
  BY <1>1, SessionFacts DEF SInv, Served, Connected, SessionTypes, Sessions
<1>3. CASE Disconnect
  <2>1. Closing /\ jobs' = (jobs \ {}) \cup {CloseJob(live.portal)} /\ \A k \in {} : k.kind \in {"capture", "input"}
    BY <1>3 DEF Disconnect
  <2> QED
    BY <1>1, <1>2, <2>1, ClosingStep
<1>4. CASE TickCapture
  <2>1. PICK next : next = Start("capture", live.portal, Attached)
    OBVIOUS
  <2>2. next \in TaskRecords /\ next.kind = "capture" /\ next.portal = live.portal
    BY <1>2, <2>1, StartTypes
  <2>3. live' = [live EXCEPT !.busy = TRUE] /\ jobs' = (jobs \ {}) \cup {next}
    BY <1>4, <2>1 DEF TickCapture
  <2>4. {next} \in SUBSET TaskRecords /\ {next} # {}
    BY <2>2
  <2>5. Sessions(live') /\ live'.phase = live.phase /\ live'.portal = live.portal /\ live'.busy
    BY <1>2, <2>3 DEF Sessions
  <2> QED
    BY <1>1, <1>2, <2>2, <2>3, <2>4, <2>5, UseStep DEF Connected
<1>5. CASE Input /\ live.busy
  <2>1. live' = [live EXCEPT !.queue = live.queue + 1] /\ jobs' = (jobs \ {}) \cup {}
    BY <1>5 DEF Input
  <2>2. /\ Sessions(live') /\ live'.phase = live.phase /\ live'.portal = live.portal /\ live'.busy
        /\ \A k \in {} : k.portal # live.portal
    BY <1>2, <1>5, <2>1 DEF Sessions
  <2> QED
    BY <1>1, <1>2, <1>5, <2>1, <2>2, UseStep DEF Connected
<1>6. CASE Input /\ ~live.busy
  <2>1. PICK next : next = Start("input", live.portal, {})
    OBVIOUS
  <2>2. next \in TaskRecords /\ next.kind = "input" /\ next.portal = live.portal
    BY <1>2, <2>1, StartTypes
  <2>3. live' = [live EXCEPT !.busy = TRUE] /\ jobs' = (jobs \ {}) \cup {next}
    BY <1>6, <2>1 DEF Input
  <2>4. {next} \in SUBSET TaskRecords /\ {next} # {}
    BY <2>2
  <2>5. Sessions(live') /\ live'.phase = live.phase /\ live'.portal = live.portal /\ live'.busy
    BY <1>2, <2>3 DEF Sessions
  <2> QED
    BY <1>1, <1>2, <2>2, <2>3, <2>4, <2>5, UseStep DEF Connected
<1> QED
  BY <1>3, <1>4, <1>5, <1>6

\* The result of a connection presents the portal, closes it or finds none.
LEMMA ConnectedStep ==
  ASSUME SInv, NEW job \in jobs, job.pc = "done", ConnectedResult(job), UNCHANGED <<wired, portals, issued>>
  PROVE  SInv'
<1>1. /\ job.kind = "connect" /\ job \in TasksOf({"connect"}) /\ live.phase = "connecting"
      /\ ~live.busy /\ live.queue = 0
  BY DEF ConnectedResult, TasksOf, SInv, Connecting, Served
<1>2. /\ \A other \in TasksOf({"connect"}) : other = job
      /\ job.ok => job.portal \in Pids /\ job.portal <= issued
      /\ ~job.ok => job.portal = 0 \/ portals[job.portal] = None
      /\ \A other \in TasksOf({"close"}) : other.portal # job.portal
  BY <1>1 DEF SInv, Connecting, Opened
<1>3. job.portal \in 0..MaxPortals
  BY <1>1 DEF SInv, SessionTypes, Sessions, TaskRecords
<1>4. CASE ~job.ok
  <2>1. live' = NoSession /\ jobs' = jobs \ {job}
    BY <1>4 DEF ConnectedResult
  <2>2. live'.phase = "none"
    BY <2>1 DEF NoSession
  <2>3. SessionTypes'
    BY <2>1, PortalsAssumption DEF SInv, SessionTypes, Sessions, NoSession
  <2>4. InUse' /\ ClosedPortals' /\ Served' /\ Connecting'
    BY <1>2, <2>1, <2>2 DEF SInv, InUse, ClosedPortals, Served, Connecting, Opened, TasksOf
  <2>5. NoOrphan'
    BY <1>1, <1>2, <1>4, <2>1 DEF SInv, NoOrphan, Pids
  <2> QED
    BY <2>3, <2>4, <2>5 DEF SInv
<1>5. CASE job.ok /\ shown # "here"
  <2>1. PICK next : next = CloseJob(job.portal)
    OBVIOUS
  <2>2. next \in TaskRecords /\ next.kind = "close" /\ next.portal = job.portal /\ next.pc = "start"
    BY <1>3, <2>1, StartTypes DEF CloseJob
  <2>3. live' = NoSession /\ jobs' = (jobs \ {job}) \cup {next}
    BY <1>5, <2>1 DEF ConnectedResult
  <2>4. live'.phase = "none" /\ \A k : k \in jobs' <=> (k \in jobs /\ k # job) \/ k = next
    BY <2>3 DEF NoSession
  <2>5. SessionTypes'
    BY <2>2, <2>3, <2>4, PortalsAssumption DEF SInv, SessionTypes, Sessions, NoSession
  <2>6. InUse' /\ ClosedPortals' /\ Served'
    BY <1>2, <1>5, <2>2, <2>4 DEF SInv, InUse, ClosedPortals, Served, Opened, TasksOf
  <2>7. Connecting'
    BY <1>2, <2>2, <2>4 DEF Connecting, TasksOf
  <2>8. NoOrphan'
    BY <1>1, <2>2, <2>4 DEF SInv, NoOrphan
  <2> QED
    BY <2>5, <2>6, <2>7, <2>8 DEF SInv
<1>6. CASE job.ok /\ shown = "here"
  <2>1. live' = [live EXCEPT !.phase = "connected", !.portal = job.portal] /\ jobs' = jobs \ {job}
    BY <1>6 DEF ConnectedResult
  <2>2. live'.phase = "connected" /\ live'.portal = job.portal /\ live'.busy = live.busy /\ live'.queue = live.queue
    BY <2>1 DEF SInv, SessionTypes, Sessions
  <2>3. SessionTypes'
    BY <1>3, <2>1 DEF SInv, SessionTypes, Sessions
  <2>4. InUse' /\ ClosedPortals' /\ Served' /\ Connecting'
    BY <1>1, <1>2, <1>6, <2>1, <2>2 DEF SInv, InUse, ClosedPortals, Served, Connecting, Opened, TasksOf
  <2>5. NoOrphan'
    BY <1>1, <2>1, <2>2 DEF SInv, NoOrphan
  <2> QED
    BY <2>3, <2>4, <2>5 DEF SInv
<1> QED
  BY <1>4, <1>5, <1>6

\* A portal that becomes free sends its first queued input.
LEMMA QueuedStep ==
  ASSUME SInv, NEW job \in jobs, job.kind \in {"capture", "input"}, Connected, SendQueued(job),
         UNCHANGED <<wired, portals, issued>>
  PROVE  SInv'
<1>1. /\ live.portal \in 0..MaxPortals /\ live.busy \in BOOLEAN /\ live.queue \in Nat
      /\ live.queue > 0 => live.busy
      /\ live \in [phase : {"none", "connecting", "connected", "disconnecting"}, portal : 0..MaxPortals,
                   busy : BOOLEAN, queue : Nat]
  BY SessionFacts DEF SInv, Served, Connected, SessionTypes, Sessions
<1>2. PICK gone \in SUBSET jobs : gone = {job}
  OBVIOUS
<1>3. \A k \in gone : k.kind \in {"capture", "input"}
  BY <1>2
<1>4. CASE live.queue > 0
  <2>1. PICK next : next = Start("input", live.portal, {})
    OBVIOUS
  <2>2. next \in TaskRecords /\ next.kind = "input" /\ next.portal = live.portal
    BY <1>1, <2>1, StartTypes
  <2>3. PICK added \in SUBSET TaskRecords : added = {next}
    BY <2>2
  <2>4. added # {} /\ \A k \in added : k.kind \in {"capture", "input"} /\ k.portal = live.portal
    BY <2>2, <2>3
  <2>5. live.busy /\ live.queue - 1 \in Nat
    BY <1>1, <1>4
  <2>6. live' = [live EXCEPT !.queue = live.queue - 1] /\ jobs' = (jobs \ gone) \cup added
    BY <1>2, <1>4, <2>1, <2>3 DEF SendQueued
  <2>7. Sessions(live') /\ live'.phase = live.phase /\ live'.portal = live.portal /\ live'.busy
    BY <1>1, <2>5, <2>6 DEF Sessions
  <2> QED
    BY <1>3, <2>4, <2>6, <2>7, UseStep DEF Connected
<1>5. CASE ~(live.queue > 0)
  <2>1. live.queue = 0
    BY <1>1, <1>5
  <2>2. PICK added \in SUBSET TaskRecords : added = {}
    OBVIOUS
  <2>3. live' = [live EXCEPT !.busy = FALSE]
    BY <1>5 DEF SendQueued
  <2>4. /\ Sessions(live') /\ live'.phase = live.phase /\ live'.portal = live.portal
        /\ ~live'.busy /\ live'.queue = 0
    BY <1>1, <2>1, <2>3 DEF Sessions
  <2>5. \A k \in added : k.kind \in {"capture", "input"} /\ k.portal = live.portal
    BY <2>2
  <2>6. jobs' = (jobs \ gone) \cup added /\ ~(live'.queue > 0)
    BY <1>2, <1>5, <2>2, <2>4 DEF SendQueued
  <2> QED
    BY <1>3, <2>4, <2>5, <2>6, UseStep DEF Connected
<1> QED
  BY <1>4, <1>5

\* A task leaves whose result the session does not take.
LEMMA DroppedStep ==
  ASSUME SInv, NEW job \in jobs, job.kind \in {"capture", "input"}, ~(Connected /\ live.portal = job.portal),
         jobs' = jobs \ {job}, UNCHANGED <<live, wired, portals, issued>>
  PROVE  SInv'
<1>1. SessionTypes' /\ InUse' /\ ClosedPortals' /\ Connecting'
  BY DEF SInv, SessionTypes, Sessions, InUse, ClosedPortals, Connecting, Opened, TasksOf
<1>2. NoOrphan'
  <2>1. \A k \in jobs : k.kind \in {"connect", "close"} => k \in jobs'
    OBVIOUS
  <2> QED
    BY <2>1 DEF SInv, NoOrphan
<1>3. Served'
  BY DEF SInv, Served, TasksOf, Connected
<1> QED
  BY <1>1, <1>2, <1>3 DEF SInv

\* The result of a close ends the session it belongs to.
LEMMA DisconnectedStep ==
  ASSUME SInv, NEW job \in jobs, job.pc = "done", Disconnected(job), UNCHANGED <<wired, portals, issued>>
  PROVE  SInv'
<1>1. /\ job.kind = "close" /\ job \in TasksOf({"close"}) /\ jobs' = jobs \ {job}
      /\ portals[job.portal] = None \/ portals[job.portal].state # "connected"
  BY DEF Disconnected, TasksOf, SInv, ClosedPortals
<1>2. NoSession \in [phase : {"none", "connecting", "connected", "disconnecting"}, portal : 0..MaxPortals,
                     busy : BOOLEAN, queue : Nat]
      /\ NoSession.phase = "none"
  BY PortalsAssumption DEF NoSession
<1>3. live' = live \/ (live.phase = "disconnecting" /\ live.portal = job.portal /\ live' = NoSession)
  BY DEF Disconnected
<1>4. SessionTypes'
  BY <1>1, <1>2, <1>3 DEF SInv, SessionTypes, Sessions
<1>5. InUse' /\ ClosedPortals' /\ Served'
  BY <1>1, <1>2, <1>3 DEF SInv, InUse, ClosedPortals, Served, Opened, TasksOf
<1>6. Connecting'
  BY <1>1, <1>3 DEF SInv, Connecting, Opened, TasksOf
<1>7. NoOrphan'
  BY <1>1, <1>3 DEF SInv, NoOrphan
<1> QED
  BY <1>4, <1>5, <1>6, <1>7 DEF SInv

LEMMA ResultStep ==
  ASSUME SInv, NEW job \in jobs, Result(job)
  PROVE  SInv'
<1>1. job.pc = "done" /\ UNCHANGED <<wired, portals, issued>>
  BY DEF Result, Unmoved
<1>2. CASE ConnectedResult(job)
  BY <1>1, <1>2, ConnectedStep
<1>3. CASE Disconnected(job)
  BY <1>1, <1>3, DisconnectedStep
<1>4. CASE FrameCaptured(job) \/ ActionCompleted(job)
  <2>1. job.kind \in {"capture", "input"}
    BY <1>4 DEF FrameCaptured, ActionCompleted
  <2>2. CASE ~Current(job)
    BY <1>1, <1>4, <2>1, <2>2, DroppedStep DEF FrameCaptured, ActionCompleted, Current
  <2>3. CASE Current(job) /\ SendQueued(job)
    BY <1>1, <2>1, <2>3, QueuedStep DEF Current
  <2>4. CASE Current(job) /\ Closing /\ jobs' = (jobs \ {job}) \cup {CloseJob(live.portal)}
    <3>1. {job} \in SUBSET jobs /\ \A k \in {job} : k.kind \in {"capture", "input"}
      BY <2>1
    <3> QED
      BY <1>1, <2>4, <3>1, ClosingStep DEF Current
  <2>5. CASE Current(job) /\ live' = [live EXCEPT !.busy = FALSE, !.queue = 0] /\ jobs' = jobs \ {job}
    <3>1. PICK gone \in SUBSET jobs, added \in SUBSET TaskRecords : gone = {job} /\ added = {}
      OBVIOUS
    <3>2. /\ \A k \in gone : k.kind \in {"capture", "input"}
          /\ \A k \in added : k.kind \in {"capture", "input"} /\ k.portal = live.portal
          /\ jobs' = (jobs \ gone) \cup added
      BY <2>1, <2>5, <3>1
    <3>3. /\ Sessions(live') /\ live'.phase = live.phase /\ live'.portal = live.portal
          /\ ~live'.busy /\ live'.queue = 0
      BY <2>5 DEF SInv, SessionTypes, Sessions
    <3> QED
      BY <1>1, <2>5, <3>2, <3>3, UseStep DEF Current, Connected
  <2> QED
    BY <1>4, <2>2, <2>3, <2>4, <2>5 DEF FrameCaptured, ActionCompleted
<1> QED
  BY <1>2, <1>3, <1>4 DEF Result

\* What the canvas shows is attached to a connected portal.
LEMMA CanvasStep ==
  ASSUME Inv, SInv, (\E a \in Agents : Rewire(a)) \/ RemoveOrRestore \/ SwitchWorkspace
  PROVE  Inv' /\ SInv'
<1>1. /\ UNCHANGED <<live, jobs, issued, held, ran>> /\ wired' \subseteq Agents
      /\ \/ UNCHANGED <<portals, policy, journal>>
         \/ \E A \in SUBSET Agents : Connected /\ Free /\ ReplaceAgents(live.portal, A)
  <2>1. wired \subseteq Agents
    BY SessionFacts
  <2>2. CASE \E a \in Agents : Rewire(a)
    <3>1. wired' \in SUBSET Agents /\ SyncConnections(wired') /\ UNCHANGED <<live, jobs, issued, held, ran>>
      BY <2>1, <2>2 DEF Rewire, Unmoved
    <3> QED
      BY <3>1 DEF SyncConnections
  <2>3. CASE RemoveOrRestore
    <3>1. PICK A \in SUBSET Agents : SyncConnections(A)
      BY <2>1, <2>3 DEF RemoveOrRestore
    <3> QED
      BY <2>1, <2>3, <3>1 DEF SyncConnections, RemoveOrRestore, Unmoved
  <2>4. CASE SwitchWorkspace
    BY <2>1, <2>4 DEF SwitchWorkspace, Unmoved
  <2> QED
    BY <2>2, <2>3, <2>4
<1>2. CASE UNCHANGED <<portals, policy, journal>>
  <2>1. Inv'
    BY <1>1, <1>2, QuietStep DEF policy
  <2>2. SInv'
    BY <1>1, <1>2, OutsideStep
  <2> QED
    BY <2>1, <2>2
<1>3. ASSUME NEW A \in SUBSET Agents, Connected, Free, ReplaceAgents(live.portal, A) PROVE Inv' /\ SInv'
  <2>1. live.portal \in Pids
    BY <1>3, SessionFacts DEF Connected
  <2>2. /\ Inv' /\ \A q \in Pids : portals'[q] = None <=> portals[q] = None
        /\ \A q \in Pids : portals[q] # None => portals'[q].state = portals[q].state
    BY <1>1, <1>3, <2>1, ReplaceStep
  <2>3. SInv'
    BY <1>1, <2>2, OutsideStep
  <2> QED
    BY <2>2, <2>3
<1> QED
  BY <1>1, <1>2, <1>3

LEMMA RestartSessions ==
  ASSUME SInv, Restart
  PROVE  SInv'
<1>1. jobs' = {} /\ wired' \subseteq Agents /\ live' = NoSession /\ portals' = [p \in Pids |-> None]
  BY DEF Restart, SInv, SessionTypes
<1>2. SessionTypes'
  BY <1>1, PortalsAssumption DEF SessionTypes, Sessions, NoSession
<1>3. InUse' /\ Connecting' /\ ClosedPortals' /\ Served'
  BY <1>1 DEF InUse, Connecting, ClosedPortals, Served, NoSession, TasksOf
<1>4. NoOrphan'
  BY <1>1 DEF NoOrphan, None
<1> QED
  BY <1>2, <1>3, <1>4 DEF SInv

LEMMA MovingSessions ==
  ASSUME Inv, SInv, NEW p \in Pids, PageMoves(p)
  PROVE  SInv'
<1>1. PICK t \in Targets : portals' = [portals EXCEPT ![p].page = t]
  BY DEF PageMoves
<1>2. portals \in [Pids -> Entries \cup {None}] /\ portals[p] \in Entries
  BY DEF PageMoves, Inv, Types
<1>3. PICK e : e = [portals[p] EXCEPT !.page = t]
  OBVIOUS
<1>4. e \in Entries /\ e.state = portals[p].state /\ portals' = [portals EXCEPT ![p] = e]
  BY <1>1, <1>2, <1>3 DEF Entries
<1>5. \A q \in Pids : /\ portals'[q] = None <=> portals[q] = None
                      /\ portals[q] # None => portals'[q].state = portals[q].state
  BY <1>2, <1>4, EntryNotNone
<1>6. UNCHANGED <<live, jobs, issued>> /\ wired' \subseteq Agents
  BY SessionFacts DEF PageMoves, interface
<1> QED
  BY <1>5, <1>6, OutsideStep

THEOREM PortalsInductive == Spec => [](Inv /\ SInv)
<1>1. Init => Inv /\ SInv
  BY InitInv, InitSessions
<1>2. Inv /\ SInv /\ [Next]_vars => Inv' /\ SInv'
  <2> SUFFICES ASSUME Inv, SInv, [Next]_vars PROVE Inv' /\ SInv'
    OBVIOUS
  <2>1. CASE Dispatcher \/ (\E r \in Requests, p \in Pids : RequestAction(r, p))
    <3>1. /\ Inv' /\ UNCHANGED <<interface, jobs, issued>>
          /\ \A q \in Pids : /\ portals'[q] = None <=> portals[q] = None
                             /\ portals[q] # None => portals'[q].state = portals[q].state
      BY <2>1, DispatcherStep, RequestStep
    <3>2. UNCHANGED <<live, jobs, issued>> /\ wired' \subseteq Agents
      BY <3>1, SessionFacts DEF interface
    <3> QED
      BY <3>1, <3>2, OutsideStep
  <2>2. CASE Connect \/ Disconnect \/ TickCapture \/ Input \/ (\E job \in jobs : Result(job))
    <3>1. UNCHANGED <<portals, issued, grants, asks, pending, journal, held, ran>>
      BY <2>2 DEF Connect, Disconnect, TickCapture, Input, Result, Unmoved, policy
    <3>2. SInv'
      BY <2>2, ConnectClick, SessionStep, ResultStep
    <3> QED
      BY <3>1, <3>2, QuietStep
  <2>3. CASE \E x \in pending : Answer(x)
    <3>1. UNCHANGED <<portals, issued, grants, asks, pending, journal, held, ran, live, wired>>
      BY <2>3 DEF Answer, Unmoved, policy
    <3>2. \A job : job.kind # "answer" => (job \in jobs' <=> job \in jobs)
      BY <2>3 DEF Answer
    <3>3. wired' \subseteq Agents
      BY <3>1, SessionFacts
    <3> QED
      BY <3>1, <3>2, <3>3, QuietStep, OutsideStep
  <2>4. CASE \E job \in jobs : Tasks(job)
    BY <2>4, ConnectTaskStep, CaptureTaskStep, InputTaskStep, CloseTaskStep, AnswerTaskStep DEF Tasks
  <2>5. CASE (\E a \in Agents : Rewire(a)) \/ RemoveOrRestore \/ SwitchWorkspace
    BY <2>5, CanvasStep
  <2>6. CASE TimePasses
    <3>1. UNCHANGED <<portals, live, jobs, issued>> /\ wired' \subseteq Agents
      BY <2>6, SessionFacts DEF TimePasses, interface
    <3>2. SInv'
      BY <3>1, OutsideStep
    <3> QED
      BY <2>6, <3>2, WorldStep
  <2>7. CASE Restart
    BY <2>7, WorldStep, RestartSessions
  <2>8. CASE \E p \in Pids : PageMoves(p)
    BY <2>8, WorldStep, MovingSessions
  <2>9. CASE UNCHANGED vars
    <3>1. UNCHANGED <<portals, issued, grants, asks, pending, journal, held, ran, live, wired, jobs>>
      BY <2>9 DEF vars, policy, interface
    <3>2. wired' \subseteq Agents
      BY <3>1, SessionFacts
    <3> QED
      BY <3>1, <3>2, QuietStep, OutsideStep
  <2> QED
    BY <2>1, <2>2, <2>3, <2>4, <2>5, <2>6, <2>7, <2>8, <2>9 DEF Next
<1> QED
  BY <1>1, <1>2, PTL DEF Spec

\* Whatever is retried, approved twice or interrupted, an action reaches a
\* backend once at most (journal.rs, request_action, approve_action).
THEOREM ActsOnce == Spec => []ExecutedAtMostOnce
<1>1. Inv /\ SInv => ExecutedAtMostOnce
  BY DEF Inv, RanOnce, ExecutedAtMostOnce
<1> QED
  BY <1>1, PortalsInductive, PTL

\* Approvals can be answered, grants are of agents attached to open portals,
\* connected portals have a session or a task, and queued inputs are sent.
THEOREM PortalsAreKept == Spec => []PortalsKept
<1>1. Inv /\ SInv => PortalsKept
  <2> SUFFICES ASSUME Inv, SInv PROVE PortalsKept
    OBVIOUS
  <2>1. QueueServed
    BY DEF SInv, Served, QueueServed, TasksOf
  <2> QED
    BY <2>1 DEF Inv, SInv, PortalsKept
<1> QED
  BY <1>1, PortalsInductive, PTL

\* Only CheckDispatch marks an action dispatched.
Undispatched == \A i \in Ids : State(i)' = "dispatched" => State(i) = "dispatched"

LEMMA EndingDispatchesNothing ==
  ASSUME Inv, NEW S \in SUBSET pending, EndPending(S)
  PROVE  Undispatched
  BY EndPendingFacts DEF Undispatched, State

LEMMA TasksDispatchNothing ==
  ASSUME Inv, SInv, (\E job \in jobs : Tasks(job)) \/ (\E a \in Agents : Rewire(a)) \/ RemoveOrRestore
  PROVE  Undispatched
<1>1. CASE UNCHANGED journal
  BY <1>1 DEF Undispatched, State
<1>2. ASSUME NEW p, NEW A, ReplaceAgents(p, A) PROVE Undispatched
  <2>1. PendingOf(p, portals[p].agents \ A) \in SUBSET pending
    BY DEF PendingOf
  <2> QED
    BY <1>1, <1>2, <2>1, EndingDispatchesNothing DEF ReplaceAgents, EndedByDetach
<1>3. ASSUME NEW p, NEW ok, Unregister(p, ok) PROVE Undispatched
  <2>1. PendingOf(p, Agents) \in SUBSET pending
    BY DEF PendingOf
  <2> QED
    BY <1>1, <1>3, <2>1, EndingDispatchesNothing DEF Unregister
<1>4. ASSUME NEW job, Approve(job) PROVE Undispatched
  <2>1. CASE UNCHANGED journal
    BY <2>1, <1>1
  <2>2. ASSUME NEW x \in pending, journal' = [journal EXCEPT ![x.id].state = "queued"] PROVE Undispatched
    <3>1. x.id \in Ids /\ x.id \in {i \in Ids : State(i) = "awaiting"}
      BY DEF Inv, Types, ApprovalsAnswerable
    <3>2. journal[x.id] # None
      BY <3>1 DEF State
    <3>3. /\ journal'[x.id] # None /\ journal'[x.id].state = "queued"
          /\ \A j \in Ids : j # x.id => journal'[j] = journal[j]
      BY <2>2, <3>1, <3>2, RowFacts
    <3> QED
      BY <3>3 DEF Undispatched, State
  <2>3. ASSUME NEW x \in pending, EndPending({x}) PROVE Undispatched
    BY <2>3, EndingDispatchesNothing
  <2> QED
    BY <1>4, <2>1, <2>2, <2>3 DEF Approve
<1>5. ASSUME NEW job, Reject(job) PROVE Undispatched
  <2>1. {x \in pending : x.id = job.id} \in SUBSET pending
    OBVIOUS
  <2> QED
    BY <1>5, <2>1, EndingDispatchesNothing DEF Reject
<1>6. ASSUME NEW job \in jobs, Tasks(job) PROVE Undispatched
  BY <1>1, <1>2, <1>3, <1>4, <1>5, <1>6 DEF Tasks, ConnectTask, CaptureTask, InputTask, CloseTask, AnswerTask
<1>7. ASSUME NEW A, SyncConnections(A) PROVE Undispatched
  BY <1>1, <1>2, <1>7 DEF SyncConnections
<1>8. CASE \E a \in Agents : Rewire(a)
  BY <1>7, <1>8 DEF Rewire
<1>9. CASE RemoveOrRestore
  BY <1>7, <1>9 DEF RemoveOrRestore
<1> QED
  BY <1>6, <1>8, <1>9

\* The user or a grant allows what the dispatched action of a row does now.
Consented(i) ==
  LET q == PolicyRequest(journal[i].request, held.request.portal, portals[held.request.portal].page)
  IN (\E g \in grants : g.request = q) \/ q \in held.approved

\* An action is marked dispatched only with the user's consent for exactly
\* what it does now (dispatch_action).
THEOREM ActionsHaveConsent == Spec => ActsWithConsent
<1>1. Inv /\ SInv /\ [Next]_vars
      => \A i \in Ids : State(i)' = "dispatched" /\ State(i) # "dispatched" => Consented(i)
  <2> SUFFICES ASSUME Inv, SInv, [Next]_vars
               PROVE  \A i \in Ids : State(i)' = "dispatched" /\ State(i) # "dispatched" => Consented(i)
    OBVIOUS
  <2>1. CASE Undispatched
    BY <2>1 DEF Undispatched
  <2>2. CASE CheckDispatch
    <3> SUFFICES ASSUME NEW i \in Ids, State(i)' = "dispatched", State(i) # "dispatched" PROVE Consented(i)
      OBVIOUS
    <3>1. /\ held # None /\ held \in Dispatches /\ held.id \in Ids /\ journal[held.id] # None
          /\ held.state = "queued"
          /\ (\E g \in grants : g.request = held.request) \/ held.request \in held.approved
      BY <2>2, EntryNotNone DEF CheckDispatch, Inv, Types, HeldRow, None
    <3>2. CASE StillBound(held.request, held.request.portal)
      <4>1. PolicyRequest(journal[held.id].request, held.request.portal, portals[held.request.portal].page) = held.request
        BY <3>2 DEF StillBound
      <4>2. CASE UNCHANGED journal
        BY <4>2 DEF State
      <4>3. CASE journal' = [journal EXCEPT ![held.id].state = "dispatched"]
        <5>1. \A j \in Ids : j # held.id => journal'[j] = journal[j]
          BY <3>1, <4>3, RowFacts
        <5>2. i = held.id
          BY <5>1 DEF State
        <5> QED
          BY <3>1, <4>1, <5>2 DEF Consented
      <4> QED
        BY <2>2, <3>2, <4>2, <4>3 DEF CheckDispatch
    <3>3. CASE ~StillBound(held.request, held.request.portal)
      <4>1. CASE UNCHANGED journal
        BY <4>1 DEF State
      <4>2. CASE journal' = [journal EXCEPT ![held.id].state = "failed"]
        <5>1. /\ journal'[held.id] # None /\ journal'[held.id].state = "failed"
              /\ \A j \in Ids : j # held.id => journal'[j] = journal[j]
          BY <3>1, <4>2, RowFacts
        <5> QED
          BY <5>1 DEF State
      <4> QED
        BY <2>2, <3>3, <4>1, <4>2 DEF CheckDispatch
    <3> QED
      BY <3>2, <3>3
  <2>3. CASE UNCHANGED journal
    BY <2>1, <2>3 DEF Undispatched, State
  <2>4. CASE FinishDispatch
    <3>1. /\ held # None /\ held.id \in Ids /\ journal[held.id] # None
      BY <2>4, EntryNotNone DEF FinishDispatch, Inv, Types, HeldRow, None
    <3>2. PICK state \in {"completed", "failed"} : journal' = [journal EXCEPT ![held.id].state = state]
      BY <2>4 DEF FinishDispatch
    <3>3. /\ journal'[held.id] # None /\ journal'[held.id].state = state
          /\ \A j \in Ids : j # held.id => journal'[j] = journal[j]
      BY <3>1, <3>2, RowFacts
    <3> QED
      BY <2>1, <3>3 DEF Undispatched, State
  <2>5. ASSUME NEW r \in Requests, NEW p \in Pids, RequestAction(r, p) PROVE Undispatched
    <3>1. PICK state \in {"queued", "awaiting"} : journal' = [journal EXCEPT ![r.id] = [state |-> state, portal |-> p, request |-> r]]
      BY <2>5 DEF RequestAction
    <3>2. r.id \in Ids /\ journal \in [Ids -> Rows \cup {None}]
      BY DEF Ids, Inv, Types
    <3>3. PICK row : row = [state |-> state, portal |-> p, request |-> r]
      OBVIOUS
    <3>4. journal' = [journal EXCEPT ![r.id] = row] /\ row.state = state /\ row # None
      BY <3>1, <3>3 DEF None
    <3>5. journal'[r.id] = row /\ \A j \in Ids : j # r.id => journal'[j] = journal[j]
      BY <3>2, <3>4
    <3> QED
      BY <3>4, <3>5 DEF Undispatched, State
  <2>6. CASE Restart
    <3>1. journal' = [i \in Ids |-> Recovered(journal[i])] /\ journal \in [Ids -> Rows \cup {None}]
      BY <2>6 DEF Restart, Inv, Types
    <3>2. ASSUME NEW i \in Ids PROVE State(i)' = "dispatched" => State(i) = "dispatched"
      <4>1. CASE journal[i] = None
        BY <3>1, <4>1 DEF Recovered, State
      <4>2. CASE journal[i] # None
        <5>1. journal[i] \in Rows /\ \A s \in {"unknown", "failed"} : [journal[i] EXCEPT !.state = s].state = s
          BY <3>1, <4>2 DEF Rows
        <5> QED
          BY <3>1, <4>2, <5>1, EntryNotNone DEF Recovered, State
      <4> QED
        BY <4>1, <4>2
    <3> QED
      BY <2>1, <3>2 DEF Undispatched
  <2>7. CASE (\E job \in jobs : Tasks(job)) \/ (\E a \in Agents : Rewire(a)) \/ RemoveOrRestore
    BY <2>1, <2>7, TasksDispatchNothing
  <2>8. CASE UNCHANGED vars
    BY <2>3, <2>8 DEF vars
  <2>9. CASE ExecuteDispatch \/ Connect \/ Disconnect \/ TickCapture \/ Input \/ SwitchWorkspace \/ TimePasses
             \/ (\E x \in pending : Answer(x)) \/ (\E job \in jobs : Result(job)) \/ (\E p \in Pids : PageMoves(p))
    BY <2>3, <2>9 DEF ExecuteDispatch, Connect, Disconnect, TickCapture, Input, SwitchWorkspace, TimePasses,
                      Answer, Result, PageMoves
  <2> QED
    BY <2>1, <2>2, <2>4, <2>5, <2>6, <2>7, <2>8, <2>9 DEF Next, Dispatcher
<1>2. Inv /\ SInv /\ [Next]_vars
      => [\A i \in Ids : State(i)' = "dispatched" /\ State(i) # "dispatched" =>
            LET q == PolicyRequest(journal[i].request, held.request.portal, portals[held.request.portal].page)
            IN (\E g \in grants : g.request = q) \/ q \in held.approved]_vars
  BY <1>1 DEF Consented
<1> QED
  BY <1>2, PortalsInductive, PTL DEF Spec, ActsWithConsent

-----------------------------------------------------------------------------
(***************************************************************************)
(* PortalView.                                                             *)
(***************************************************************************)

ViewRows == [object : Nat, text : Texts]
Seen(rows) == {rows[i] : i \in DOMAIN rows}

\* What the argument needs to know of the types.
ViewSessions == [state : {"disconnected", "connected", "closing"}, revision : Nat,
                 latest : [revision : Nat, frame : Nat] \cup {Nothing}]
Tokens == [portal : Nat, revision : Nat, element : Nat, object : Nat, shown : SUBSET Nat]
Observing == [op : {"observe"}, frame : Nat, moved : BOOLEAN]
Inputting == [op : {"input"}, place : Nat, target : Nat \cup {Nothing}, moved : BOOLEAN]
Chunks == [portal : Nat, revision : Nat, frames : SUBSET Nat]
ViewTypes ==
  /\ screen \in Seq(ViewRows) /\ born \in Nat /\ shots \in Nat
  /\ portal \in Nat /\ nextPortal \in Nat \ {0}
  /\ session \in ViewSessions
  /\ DOMAIN backend = {"open", "revision", "bindings"}
  /\ token \in Tokens \cup {Nothing}
  /\ call \in Observing \cup Inputting \cup {Nothing}
  /\ chunks \in Chunks \cup {Nothing}

\* Records are objects with one text each, numbered as they are created.
SameTexts(known) ==
  /\ \A x \in known : x.object <= born
  /\ \A x \in known, y \in Seen(screen) : x.object = y.object => x.text = y.text

\* An observation gets a revision no other of the portal has: while it is taken,
\* tokens and chunks are of earlier ones.
Older(portalOf, revision) ==
  /\ portalOf \in 1..(nextPortal - 1) /\ revision \in Nat
  /\ portalOf = portal =>
       /\ revision <= session.revision
       /\ call # Nothing /\ call.op = "observe" => revision < session.revision
Revisions ==
  /\ portal < nextPortal /\ (call # Nothing => portal # 0)
  /\ token # Nothing => Older(token.portal, token.revision)
  /\ chunks # Nothing => Older(chunks.portal, chunks.revision)
  /\ session.latest # Nothing =>
       session.latest.revision = session.revision /\ ~(call # Nothing /\ call.op = "observe")

\* The token of a device is an element of the observation the bindings are of.
OfBindings(rows) ==
  /\ rows \in Seq(ViewRows) /\ backend.bindings = View!Bindings(rows)
  /\ token.element \in DOMAIN rows /\ token.object = rows[token.element].object
  /\ token.shown = View!Objects(rows)
  /\ SameTexts(Seen(rows))
TokenBound ==
  token # Nothing /\ token.portal = portal /\ kind = "device" /\ token.revision = backend.revision =>
    \E rows : OfBindings(rows)
\* The token of a page is the node itself.
TokenIsNode == token # Nothing /\ kind = "page" => token.element = token.object

\* An input that was let in is for the revision of its token, and until the
\* screen changes it is at a place that matches what the token was bound to.
InputFits ==
  call # Nothing /\ call.op = "input" =>
    /\ View!Usable /\ View!Accepted
    /\ ~call.moved => /\ call.place \in View!Candidates
                      /\ call.target # Nothing => call.target = screen[call.place].object

\* The chunks of the recorded observation are of its frame.
ChunksOfFrame ==
  chunks # Nothing =>
    /\ \E f : chunks.frames = {f}
    /\ chunks.portal = portal /\ session.latest # Nothing /\ chunks.revision = session.latest.revision =>
         chunks.frames = {session.latest.frame}

ViewInv ==
  /\ ViewTypes /\ SameTexts(Seen(screen)) /\ Revisions
  /\ TokenBound /\ TokenIsNode /\ InputFits /\ ChunksOfFrame
  /\ View!ReachesTheNamed /\ View!InputIsCurrent

-----------------------------------------------------------------------------
\* The instance counts with its own copy of Cardinality.
LEMMA One ==
  ASSUME NEW n \in Nat, NEW S \in SUBSET (1..n), View!Cardinality(S) = 1
  PROVE  \E i \in 1..n : S = {i}
<1>1. View!Cardinality(S) = Cardinality(S)
  BY Zenon DEF View!Cardinality, Cardinality
<1>2. IsFiniteSet(S)
  <2>1. IsFiniteSet(1..n)
    BY FS_Interval
  <2> QED
    BY <2>1, FS_Subset
<1>3. \E i : S = {i}
  BY <1>1, <1>2, FS_Singleton
<1> QED
  BY <1>3

LEMMA OneFrame == \A f : View!Cardinality({f}) = 1
<1>1. TAKE f
<1>2. View!Cardinality({f}) = Cardinality({f})
  BY Zenon DEF View!Cardinality, Cardinality
<1> QED
  BY <1>2, FS_Singleton

LEMMA RowsTyped ==
  ASSUME NEW rows \in Seq(ViewRows)
  PROVE  /\ Len(rows) \in Nat /\ DOMAIN rows = 1..Len(rows)
         /\ \A i \in DOMAIN rows : rows[i] \in ViewRows /\ rows[i].object \in Nat /\ rows[i] \in Seen(rows)
         /\ View!Objects(rows) \in SUBSET Nat
<1>1. Len(rows) \in Nat /\ DOMAIN rows = 1..Len(rows) /\ \A i \in DOMAIN rows : rows[i] \in ViewRows
  OBVIOUS
<1>2. \A i \in DOMAIN rows : rows[i].object \in Nat /\ rows[i] \in Seen(rows)
  BY <1>1 DEF ViewRows, Seen
<1> QED
  BY <1>1, <1>2 DEF View!Objects

\* A row that has the identity of another one has its text; rows of one
\* observation with one text have one identity.
LEMMA IdentityIsText ==
  ASSUME NEW rows, NEW others, NEW i, NEW j
  PROVE  /\ View!Identity(rows, i) = View!Identity(others, j) => rows[i].text = others[j].text
         /\ rows[i].text = rows[j].text => View!Identity(rows, i) = View!Identity(rows, j)
<1>1. \A t : View!Identity(t, i).record = t[i].text
  BY DEF View!Identity
<1>2. \A t : View!Identity(t, j).record = t[j].text
  BY DEF View!Identity
<1> QED
  BY <1>1, <1>2 DEF View!Identity

\* What a device's identity leads to was shown as the element or not at all.
LEMMA ReachesElement ==
  ASSUME NEW rows, OfBindings(rows), screen \in Seq(ViewRows),
         View!Unambiguous(backend.bindings, token.element),
         NEW i \in View!LiveMatches
  PROVE  screen[i].object = token.object \/ screen[i].object \notin token.shown
<1> SUFFICES ASSUME NEW j \in DOMAIN rows, rows[j].object = screen[i].object
             PROVE  rows[j].object = token.object
  BY DEF OfBindings, View!Objects
<1>1. PICK e : e = token.element
  OBVIOUS
<1>2. /\ rows \in Seq(ViewRows) /\ e \in DOMAIN rows /\ token.object = rows[e].object
      /\ DOMAIN backend.bindings = DOMAIN rows
      /\ \A k \in DOMAIN rows : backend.bindings[k] = View!Identity(rows, k)
  BY <1>1 DEF OfBindings, View!Bindings
<1>3. i \in DOMAIN screen /\ View!Identity(screen, i) = View!Identity(rows, e)
  BY <1>1, <1>2 DEF View!LiveMatches
<1>4. screen[i].text = rows[e].text
  <2>1. View!Identity(screen, i).record = screen[i].text
    BY DEF View!Identity
  <2>2. View!Identity(rows, e).record = rows[e].text
    BY DEF View!Identity
  <2> QED
    BY <1>3, <2>1, <2>2
<1>5. rows[j].text = screen[i].text
  <2>1. rows[j] \in Seen(rows) /\ screen[i] \in Seen(screen)
    BY <1>3 DEF Seen
  <2> QED
    BY <2>1 DEF OfBindings, SameTexts
<1>6. View!Identity(rows, j) = View!Identity(rows, e)
  BY <1>4, <1>5, IdentityIsText
<1>7. PICK S : S = {k \in DOMAIN rows : backend.bindings[k] = backend.bindings[e]}
  OBVIOUS
<1>8. j \in S /\ e \in S
  BY <1>2, <1>6, <1>7
<1>9. View!Cardinality(S) = 1
  BY <1>1, <1>2, <1>7 DEF View!Unambiguous
<1>10. \E k : S = {k}
  <2>1. PICK n : n = Len(rows)
    OBVIOUS
  <2>2. n \in Nat /\ S \in SUBSET (1..n)
    BY <1>2, <1>7, <2>1, RowsTyped
  <2> QED
    BY <1>9, <2>2, One
<1>11. j = e
  BY <1>8, <1>10
<1> QED
  BY <1>2, <1>11

-----------------------------------------------------------------------------
\* How a screen changes: rows stay as they are, or are of one new object.
NewScreen ==
  /\ screen' \in Seq(ViewRows) /\ born' \in {born, born + 1}
  /\ \E row : row.object = born + 1 /\ \A k \in DOMAIN screen' :
       screen'[k] \in Seen(screen) \/ (born' = born + 1 /\ screen'[k] = row)

LEMMA SameTextsStep ==
  ASSUME ViewInv, NewScreen, NEW known, \A x \in known : x.object \in Nat, SameTexts(known)
  PROVE  SameTexts(known)'
<1>0. born \in Nat
  BY DEF ViewInv, ViewTypes
<1>1. PICK row : row.object = born + 1 /\ \A k \in DOMAIN screen' :
        screen'[k] \in Seen(screen) \/ (born' = born + 1 /\ screen'[k] = row)
  BY DEF NewScreen
<1>2. \A y \in Seen(screen)' : y \in Seen(screen) \/ y = row
  BY <1>1 DEF Seen
<1>3. \A x \in known : x.object <= born' /\ x.object # born + 1
  BY <1>0 DEF SameTexts, NewScreen
<1> QED
  BY <1>1, <1>2, <1>3 DEF SameTexts

LEMMA NewScreenTexts ==
  ASSUME ViewInv, NewScreen
  PROVE  SameTexts(Seen(screen))'
<1>0. born \in Nat /\ SameTexts(Seen(screen)) /\ \A x \in Seen(screen) : x.object \in Nat
  BY RowsTyped DEF ViewInv, ViewTypes, Seen
<1>1. PICK row : row.object = born + 1 /\ \A k \in DOMAIN screen' :
        screen'[k] \in Seen(screen) \/ (born' = born + 1 /\ screen'[k] = row)
  BY DEF NewScreen
<1>2. \A y \in Seen(screen)' : y \in Seen(screen) \/ (born' = born + 1 /\ y = row)
  BY <1>1 DEF Seen
<1>3. \A x \in Seen(screen) : x.object <= born' /\ x.object # born + 1
  BY <1>0 DEF SameTexts, NewScreen
<1>4. \A x \in Seen(screen)' : x.object <= born'
  BY <1>0, <1>1, <1>2, <1>3
<1>5. ASSUME NEW x \in Seen(screen)', NEW y \in Seen(screen)', x.object = y.object PROVE x.text = y.text
  <2>1. CASE x \in Seen(screen) /\ y \in Seen(screen)
    BY <1>0, <1>5, <2>1 DEF SameTexts
  <2>2. CASE x = row /\ y = row
    BY <2>2
  <2> QED
    BY <1>1, <1>2, <1>3, <1>5, <2>1, <2>2
<1> QED
  BY <1>4, <1>5 DEF SameTexts

\* A token keeps what binds it when the screen changes.
LEMMA BoundStep ==
  ASSUME ViewInv, NewScreen, UNCHANGED <<kind, nested, portal, backend, token>>
  PROVE  TokenBound'
<1> SUFFICES ASSUME token # Nothing, token.portal = portal, kind = "device", token.revision = backend.revision
             PROVE  \E rows : OfBindings(rows)'
  BY DEF TokenBound
<1>1. PICK rows : OfBindings(rows)
  BY DEF ViewInv, TokenBound
<1>2. SameTexts(Seen(rows))'
  <2>1. \A x \in Seen(rows) : x.object \in Nat
    BY <1>1, RowsTyped DEF OfBindings, Seen
  <2>2. SameTexts(Seen(rows))
    BY <1>1 DEF OfBindings
  <2>3. PICK known : known = Seen(rows)
    OBVIOUS
  <2>4. SameTexts(known)'
    BY <2>1, <2>2, <2>3, SameTextsStep
  <2> QED
    BY <2>3, <2>4 DEF SameTexts
<1>3. View!Bindings(rows)' = View!Bindings(rows)
  BY DEF View!Bindings, View!Identity, View!Contents
<1> QED
  BY <1>1, <1>2, <1>3 DEF OfBindings

LEMMA ScreenIsNew ==
  ASSUME ViewInv, View!ScreenChanges \/ View!Navigate
  PROVE  NewScreen
<1>0. screen \in Seq(ViewRows) /\ born \in Nat /\ Len(screen) \in Nat /\ DOMAIN screen = 1..Len(screen)
      /\ \A k \in DOMAIN screen : screen[k] \in ViewRows /\ screen[k] \in Seen(screen)
  BY RowsTyped DEF ViewInv, ViewTypes
<1>1. ASSUME screen' \in Seq(ViewRows), born' = born, \A k \in DOMAIN screen' : screen'[k] \in Seen(screen)
      PROVE  NewScreen
  <2>1. PICK row : row = [object |-> born + 1]
    OBVIOUS
  <2> QED
    BY <1>1, <2>1 DEF NewScreen
<1>2. ASSUME NEW i \in DOMAIN screen, NEW j \in DOMAIN screen, screen' = View!Swapped(screen, i, j), born' = born
      PROVE  NewScreen
  <2>1. screen' = [screen EXCEPT ![i] = screen[j], ![j] = screen[i]]
    BY <1>2 DEF View!Swapped
  <2>2. screen' \in Seq(ViewRows) /\ DOMAIN screen' = DOMAIN screen
    BY <1>0, <2>1
  <2>3. \A k \in DOMAIN screen' : screen'[k] \in {screen[i], screen[j], screen[k]}
    BY <1>0, <2>1
  <2> QED
    BY <1>0, <1>1, <1>2, <2>2, <2>3
<1>3. ASSUME NEW i \in DOMAIN screen, screen' = View!Without(screen, i), born' = born
      PROVE  NewScreen
  <2>1. PICK a, b : a = SubSeq(screen, 1, i - 1) /\ b = SubSeq(screen, i + 1, Len(screen))
    OBVIOUS
  <2>2. screen' = a \o b
    BY <1>3, <2>1 DEF View!Without
  <2>s. PICK S : S = Seen(screen)
    OBVIOUS
  <2>3. S \subseteq ViewRows /\ \A k \in DOMAIN screen : screen[k] \in S
    BY <1>0, <2>s DEF Seen
  <2>t. screen \in Seq(S)
    BY <1>0, <2>3
  <2>4. a \in Seq(S) /\ b \in Seq(S)
    BY <1>0, <2>1, <2>t
  <2>5. screen' \in Seq(S)
    BY <2>2, <2>4
  <2>6. screen' \in Seq(ViewRows) /\ \A k \in DOMAIN screen' : screen'[k] \in Seen(screen)
    BY <2>s, <2>3, <2>5
  <2> QED
    BY <1>1, <1>3, <2>6
<1>4. ASSUME NEW t \in Texts, NEW first \in BOOLEAN, born' = born + 1,
             screen' = IF first THEN <<[object |-> born + 1, text |-> t]>> \o screen
                       ELSE screen \o <<[object |-> born + 1, text |-> t]>>
      PROVE  NewScreen
  <2>1. PICK row : row = [object |-> born + 1, text |-> t]
    OBVIOUS
  <2>2. row \in ViewRows /\ row.object = born + 1 /\ <<row>> \in Seq(ViewRows)
    BY <1>0, <2>1 DEF ViewRows
  <2>3. screen' = <<row>> \o screen \/ screen' = screen \o <<row>>
    BY <1>4, <2>1
  <2>s. PICK S : S = Seen(screen) \cup {row}
    OBVIOUS
  <2>t. screen \in Seq(S) /\ <<row>> \in Seq(S) /\ S \subseteq ViewRows
    BY <1>0, <2>2, <2>s DEF Seen
  <2>u. screen' \in Seq(S)
    <3>1. PICK one : one = <<row>>
      OBVIOUS
    <3>2. one \in Seq(S)
      BY <2>t, <3>1
    <3>3. one \o screen \in Seq(S) /\ screen \o one \in Seq(S)
      BY <2>t, <3>2
    <3> QED
      BY <2>3, <3>1, <3>3
  <2>4. screen' \in Seq(ViewRows) /\ \A k \in DOMAIN screen' : screen'[k] \in Seen(screen) \/ screen'[k] = row
    BY <2>s, <2>t, <2>u
  <2> QED
    BY <1>4, <2>2, <2>4 DEF NewScreen
<1>5. ASSUME NEW t \in Texts, born' = born + 1, screen' = <<[object |-> born + 1, text |-> t]>>
      PROVE  NewScreen
  <2>1. PICK row : row = [object |-> born + 1, text |-> t]
    OBVIOUS
  <2>2. row \in ViewRows /\ row.object = born + 1 /\ screen' = <<row>>
    BY <1>0, <1>5, <2>1 DEF ViewRows
  <2> QED
    BY <1>5, <2>2 DEF NewScreen
<1> QED
  BY <1>2, <1>3, <1>4, <1>5 DEF View!ScreenChanges, View!Navigate

LEMMA ScreenChangesStep ==
  ASSUME ViewInv, View!ScreenChanges
  PROVE  ViewInv'
<1>1. NewScreen
  BY ScreenIsNew
<1>2. /\ call' = IF call = Nothing THEN call ELSE [call EXCEPT !.moved = TRUE]
      /\ hit' = Nothing /\ UNCHANGED <<kind, nested, portal, nextPortal, session, backend, shots, token, chunks>>
  BY DEF View!ScreenChanges, View!registry
<1>3. SameTexts(Seen(screen))' /\ TokenBound'
  BY <1>1, <1>2, NewScreenTexts, BoundStep
<1>4. PICK moved : moved = [call EXCEPT !.moved = TRUE]
  OBVIOUS
<1>5. call # Nothing => /\ moved \in Observing \cup Inputting /\ moved.op = call.op /\ moved.moved
                        /\ call.op = "input" => call \in Inputting
  BY <1>4 DEF ViewInv, ViewTypes, Observing, Inputting
<1>6. \/ call = Nothing /\ call' = call
      \/ call # Nothing /\ call' = moved
  BY <1>2, <1>4
<1>7. call' # Nothing => call # Nothing /\ call'.op = call.op /\ call'.moved
  BY <1>5, <1>6
<1>8. ViewTypes'
  <2>1. screen' \in Seq(ViewRows) /\ born' \in Nat
    BY <1>1 DEF ViewInv, ViewTypes, NewScreen
  <2> QED
    BY <1>2, <1>5, <1>6, <2>1 DEF ViewInv, ViewTypes
<1>9. Revisions' /\ TokenIsNode' /\ ChunksOfFrame'
  BY <1>2, <1>7 DEF ViewInv, Revisions, Older, TokenIsNode, ChunksOfFrame
<1>10. InputFits'
  BY <1>2, <1>7 DEF ViewInv, InputFits, View!Usable, View!Accepted, View!AcceptsRevision, View!Unambiguous
<1> QED
  BY <1>2, <1>3, <1>8, <1>9, <1>10 DEF ViewInv, View!ReachesTheNamed, View!InputIsCurrent

LEMMA NavigateStep ==
  ASSUME ViewInv, View!Navigate
  PROVE  ViewInv'
<1>1. NewScreen
  BY ScreenIsNew
<1>2. call = Nothing /\ hit' = Nothing
      /\ UNCHANGED <<kind, nested, portal, nextPortal, session, backend, shots, token, chunks, call>>
  BY DEF View!Navigate, View!Idle, View!registry
<1>3. SameTexts(Seen(screen))' /\ TokenBound'
  BY <1>1, <1>2, NewScreenTexts, BoundStep
<1>4. screen' \in Seq(ViewRows) /\ born' \in Nat
  BY <1>1 DEF ViewInv, ViewTypes, NewScreen
<1>5. ViewTypes' /\ Revisions'
  BY <1>2, <1>4 DEF ViewInv, ViewTypes, Revisions, Older
<1>6. TokenIsNode' /\ ChunksOfFrame' /\ InputFits'
  BY <1>2 DEF ViewInv, TokenIsNode, ChunksOfFrame, InputFits
<1> QED
  BY <1>2, <1>3, <1>5, <1>6 DEF ViewInv, View!ReachesTheNamed, View!InputIsCurrent

-----------------------------------------------------------------------------
(* Steps that leave the screen alone *)

Still == UNCHANGED <<kind, nested, screen, born>>

\* What binds a token stays while the screen and the bindings do.
LEMMA BoundStays ==
  ASSUME ViewInv, Still, UNCHANGED <<portal, token, backend>>
  PROVE  TokenBound' /\ TokenIsNode' /\ SameTexts(Seen(screen))'
<1>1. ASSUME NEW known, SameTexts(known) PROVE SameTexts(known)'
  BY <1>1 DEF SameTexts, Seen, Still
<1>2. SameTexts(Seen(screen))'
  BY DEF ViewInv, SameTexts, Seen, Still
<1>3. TokenIsNode'
  BY DEF ViewInv, TokenIsNode, Still
<1>4. ASSUME NEW rows, OfBindings(rows) PROVE OfBindings(rows)'
  <2>1. View!Bindings(rows)' = View!Bindings(rows) /\ View!Objects(rows)' = View!Objects(rows)
    BY DEF View!Bindings, View!Identity, View!Contents, View!Objects, Still
  <2>2. SameTexts(Seen(rows))'
    BY <1>4 DEF OfBindings, SameTexts, Seen, Still
  <2> QED
    BY <1>4, <2>1, <2>2 DEF OfBindings, Still
<1>5. TokenBound'
  BY <1>4 DEF ViewInv, TokenBound, Still
<1> QED
  BY <1>2, <1>3, <1>5

\* A portal that comes or goes: no token and no chunk is of the new one.
LEMMA PortalStep ==
  ASSUME ViewInv, Still, UNCHANGED <<shots, call, token, chunks>>, call = Nothing, hit' = Nothing,
         session' \in ViewSessions, session'.latest = Nothing,
         DOMAIN backend' = {"open", "revision", "bindings"},
         \/ portal' = 0 /\ nextPortal' = nextPortal
         \/ portal' = nextPortal /\ nextPortal' = nextPortal + 1
  PROVE  ViewInv'
<1> USE DEF Still
<1>1. /\ nextPortal' \in Nat \ {0} /\ portal' \in Nat /\ portal' < nextPortal' /\ nextPortal' >= nextPortal
      /\ token # Nothing => token.portal \in 1..(nextPortal - 1) /\ token.revision \in Nat
      /\ chunks # Nothing => chunks.portal \in 1..(nextPortal - 1) /\ chunks.revision \in Nat
  BY DEF ViewInv, ViewTypes, Revisions, Older
<1>2. /\ token # Nothing => token.portal \in 1..(nextPortal' - 1) /\ token.portal # portal'
      /\ chunks # Nothing => chunks.portal \in 1..(nextPortal' - 1) /\ chunks.portal # portal'
  BY <1>1 DEF ViewInv, ViewTypes
<1>3. ViewTypes'
  BY <1>1 DEF ViewInv, ViewTypes
<1>4. Revisions' /\ TokenBound' /\ TokenIsNode' /\ ChunksOfFrame'
  BY <1>1, <1>2 DEF ViewInv, Revisions, Older, TokenBound, TokenIsNode, ChunksOfFrame
<1>5. InputFits' /\ SameTexts(Seen(screen))' /\ View!ReachesTheNamed' /\ View!InputIsCurrent'
  BY DEF ViewInv, InputFits, SameTexts, Seen, View!ReachesTheNamed, View!InputIsCurrent
<1> QED
  BY <1>3, <1>4, <1>5 DEF ViewInv

LEMMA RegisterViewStep ==
  ASSUME ViewInv, NEW opened \in BOOLEAN, View!Register(opened)
  PROVE  ViewInv'
<1>1. /\ Still /\ UNCHANGED <<shots, call, token, chunks>> /\ call = Nothing /\ hit' = Nothing
      /\ nextPortal' = nextPortal + 1 /\ portal = 0
  BY DEF View!Register, View!Idle, View!world, Still
<1>2. CASE opened
  <2>1. PICK s : s = [View!NewSession EXCEPT !.state = "connected"]
    OBVIOUS
  <2>2. s \in ViewSessions /\ s.latest = Nothing
    BY <2>1 DEF View!NewSession, ViewSessions
  <2>3. DOMAIN [View!NewBackend EXCEPT !.open = TRUE] = {"open", "revision", "bindings"}
    BY DEF View!NewBackend
  <2>4. portal' = nextPortal /\ session' = s /\ backend' = [View!NewBackend EXCEPT !.open = TRUE]
    BY <1>2, <2>1 DEF View!Register
  <2> QED
    BY <1>1, <2>2, <2>3, <2>4, PortalStep
<1>3. CASE ~opened
  <2>1. UNCHANGED <<portal, session, backend>>
    BY <1>3 DEF View!Register
  <2>2. nextPortal' \in Nat \ {0} /\ portal < nextPortal'
        /\ \A p : p \in 1..(nextPortal - 1) => p \in 1..(nextPortal' - 1)
    BY <1>1, <2>1 DEF ViewInv, ViewTypes
  <2>3. ViewTypes' /\ Revisions'
    BY <1>1, <2>1, <2>2 DEF ViewInv, ViewTypes, Revisions, Older, Still
  <2>4. ChunksOfFrame' /\ InputFits'
    BY <1>1, <2>1 DEF ViewInv, ChunksOfFrame, InputFits
  <2> QED
    BY <1>1, <2>1, <2>3, <2>4, BoundStays DEF ViewInv, View!ReachesTheNamed, View!InputIsCurrent
<1> QED
  BY <1>2, <1>3

LEMMA UnregisterViewStep ==
  ASSUME ViewInv, View!Unregister
  PROVE  ViewInv'
<1>1. View!NewSession \in ViewSessions /\ View!NewSession.latest = Nothing
  BY DEF View!NewSession, ViewSessions
<1>2. DOMAIN View!NewBackend = {"open", "revision", "bindings"}
  BY DEF View!NewBackend
<1> QED
  BY <1>1, <1>2, PortalStep DEF View!Unregister, View!Idle, View!world, Still

LEMMA CloseFailsStep ==
  ASSUME ViewInv, View!CloseFails
  PROVE  ViewInv'
<1>1. /\ Still /\ UNCHANGED <<portal, nextPortal, backend, shots, call, token, chunks>> /\ call = Nothing /\ hit' = Nothing
      /\ session' = [session EXCEPT !.state = "closing"]
  BY DEF View!CloseFails, View!Idle, View!world, View!registry, Still
<1>2. PICK s : s = [session EXCEPT !.state = "closing"]
  OBVIOUS
<1>3. s \in ViewSessions /\ s.latest = session.latest /\ s.revision = session.revision
  BY <1>2 DEF ViewInv, ViewTypes, ViewSessions
<1>4. ViewTypes' /\ Revisions' /\ ChunksOfFrame' /\ InputFits'
  BY <1>1, <1>2, <1>3 DEF ViewInv, ViewTypes, Revisions, Older, ChunksOfFrame, InputFits, Still
<1> QED
  BY <1>1, <1>4, BoundStays DEF ViewInv, View!ReachesTheNamed, View!InputIsCurrent

\* The revision moves on: every token and every chunk is of an earlier one.
LEMMA ObserveViewStep ==
  ASSUME ViewInv, View!Observe
  PROVE  ViewInv'
<1>1. /\ Still /\ UNCHANGED <<portal, nextPortal, backend, token, chunks>> /\ call = Nothing /\ hit' = Nothing
      /\ shots' = shots + 1
  BY DEF View!Observe, View!Idle, View!world, View!registry, Still
<1>2. PICK s, c : /\ s = [session EXCEPT !.revision = session.revision + 1, !.latest = Nothing]
                  /\ c = [op |-> "observe", frame |-> shots + 1, moved |-> FALSE]
  OBVIOUS
<1>3. session' = s /\ call' = c
  BY <1>2 DEF View!Observe, View!Observed
<1>a. session \in ViewSessions /\ session.revision \in Nat /\ shots \in Nat
  BY DEF ViewInv, ViewTypes, ViewSessions
<1>b. s \in ViewSessions /\ s.latest = Nothing /\ s.revision = session.revision + 1
  <2>1. PICK n : n = session.revision + 1
    OBVIOUS
  <2>2. s = [session EXCEPT !.revision = n, !.latest = Nothing] /\ n \in Nat
    BY <1>2, <1>a, <2>1
  <2> QED
    BY <1>a, <2>1, <2>2 DEF ViewSessions
<1>c. c \in Observing /\ c.op = "observe" /\ shots' \in Nat
  BY <1>1, <1>2, <1>a DEF Observing
<1>4. /\ s \in ViewSessions /\ s.latest = Nothing /\ s.revision = session.revision + 1
      /\ session.revision \in Nat /\ c \in Observing /\ c.op = "observe" /\ shots' \in Nat
  BY <1>a, <1>b, <1>c
<1>6. ViewTypes'
  BY <1>1, <1>3, <1>4 DEF ViewInv, ViewTypes, Still
<1>7. Revisions'
  <2>1. portal # 0
    BY DEF View!Observe
  <2>2. portal < nextPortal
    BY DEF ViewInv, Revisions
  <2>3. token # Nothing => Older(token.portal, token.revision)'
    BY <1>1, <1>3, <1>4 DEF ViewInv, Revisions, Older
  <2>4. chunks # Nothing => Older(chunks.portal, chunks.revision)'
    BY <1>1, <1>3, <1>4 DEF ViewInv, Revisions, Older
  <2> QED
    BY <1>1, <1>3, <1>4, <2>1, <2>2, <2>3, <2>4 DEF Revisions
<1>8. ChunksOfFrame' /\ InputFits'
  BY <1>1, <1>3, <1>4 DEF ViewInv, ChunksOfFrame, InputFits
<1> QED
  BY <1>1, <1>6, <1>7, <1>8, BoundStays DEF ViewInv, View!ReachesTheNamed, View!InputIsCurrent

\* An observation is recorded: its revision is new to tokens and chunks, and a
\* token that is taken is of its rows.
LEMMA RecordingStep ==
  ASSUME ViewInv, NEW elements, View!Recording(elements), UNCHANGED kind,
         kind = "device" => /\ elements = [i \in DOMAIN screen |-> i]
                            /\ backend' = [backend EXCEPT !.revision = session.revision, !.bindings = View!Bindings(screen)],
         kind = "page" => elements = [i \in DOMAIN screen |-> screen[i].object] /\ UNCHANGED backend,
         kind \in {"device", "page"}
  PROVE  ViewInv'
<1>1. /\ Still /\ UNCHANGED <<portal, nextPortal, shots, chunks>> /\ call' = Nothing /\ hit' = Nothing
      /\ call # Nothing /\ call.op = "observe"
  BY DEF View!Recording, View!world, View!registry, Still
<1>2. PICK l, s : l = [revision |-> session.revision, frame |-> call.frame] /\ s = [session EXCEPT !.latest = l]
  OBVIOUS
<1>3. session' = s
  BY <1>2 DEF View!Recording, View!Recorded
<1>4. /\ s \in ViewSessions /\ s.latest = l /\ s.revision = session.revision /\ l.revision = session.revision
      /\ session.revision \in Nat
  <2>1. call \in Observing
    BY <1>1 DEF ViewInv, ViewTypes, Inputting
  <2> QED
    BY <1>2, <2>1 DEF ViewInv, ViewTypes, ViewSessions, Observing
<1>5. \/ token' = token
      \/ \E i \in DOMAIN screen :
           token' = [portal |-> portal, revision |-> session.revision, element |-> elements[i],
                     object |-> screen[i].object, shown |-> View!Objects(screen)]
  BY DEF View!Recording
<1>6. screen \in Seq(ViewRows) /\ born \in Nat /\ portal \in Nat /\ SameTexts(Seen(screen))
  BY DEF ViewInv, ViewTypes
<1>7. /\ DOMAIN backend' = {"open", "revision", "bindings"}
      /\ kind = "device" => backend'.revision = session.revision /\ backend'.bindings = View!Bindings(screen)
  BY DEF ViewInv, ViewTypes
<1>8. SameTexts(Seen(screen))'
  BY <1>1, <1>6 DEF SameTexts, Seen, Still
<1>9. ASSUME NEW p, NEW r, Older(p, r) PROVE Older(p, r)' /\ (p = portal => r < session.revision)
  BY <1>1, <1>3, <1>4, <1>9 DEF Older
<1>10. ChunksOfFrame' /\ InputFits'
  <2>1. chunks # Nothing /\ chunks.portal = portal => chunks.revision < session.revision /\ chunks.revision \in Nat
    BY <1>9 DEF ViewInv, Revisions, Older
  <2>2. chunks # Nothing /\ chunks.portal = portal => chunks.revision # l.revision
    BY <1>4, <2>1
  <2>3. ChunksOfFrame'
    BY <1>1, <1>3, <1>4, <2>2 DEF ViewInv, ChunksOfFrame
  <2>4. InputFits'
    BY <1>1 DEF InputFits
  <2> QED
    BY <2>3, <2>4
<1>11. CASE token' = token
  <2>1. ViewTypes'
    BY <1>1, <1>3, <1>4, <1>7, <1>11 DEF ViewInv, ViewTypes, Still
  <2>2. Revisions'
    BY <1>1, <1>3, <1>4, <1>9, <1>11 DEF ViewInv, Revisions
  <2>3. TokenBound'
    <3>1. token # Nothing /\ token.portal = portal => token.revision < session.revision /\ token.revision \in Nat
      BY <1>9 DEF ViewInv, Revisions, Older
    <3> SUFFICES ASSUME token # Nothing, token.portal = portal, kind = "device", token.revision = backend'.revision
                 PROVE  FALSE
      BY <1>1, <1>11 DEF TokenBound, Still
    <3> QED
      BY <1>4, <1>7, <3>1
  <2>4. TokenIsNode'
    BY <1>1, <1>11 DEF ViewInv, TokenIsNode, Still
  <2> QED
    BY <1>1, <1>8, <1>10, <2>1, <2>2, <2>3, <2>4 DEF ViewInv, View!ReachesTheNamed, View!InputIsCurrent
<1>12. ASSUME NEW i \in DOMAIN screen,
              token' = [portal |-> portal, revision |-> session.revision, element |-> elements[i],
                        object |-> screen[i].object, shown |-> View!Objects(screen)],
              portal # 0
       PROVE  ViewInv'
  <2>1. /\ i \in Nat /\ screen[i].object \in Nat /\ View!Objects(screen) \in SUBSET Nat
        /\ kind = "device" => elements[i] = i
        /\ kind = "page" => elements[i] = screen[i].object
    BY <1>6, RowsTyped
  <2>2. /\ token' \in Tokens /\ token'.portal = portal /\ token'.revision = session.revision
        /\ token'.element = elements[i] /\ token'.object = screen[i].object /\ token'.shown = View!Objects(screen)
    BY <1>4, <1>6, <1>12, <2>1 DEF Tokens
  <2>3. ViewTypes'
    BY <1>1, <1>3, <1>4, <1>7, <2>2 DEF ViewInv, ViewTypes, Still
  <2>4. Older(portal, session.revision)'
    BY <1>1, <1>3, <1>4, <1>6, <1>12 DEF Older, ViewInv, Revisions, ViewTypes
  <2>5. Revisions'
    BY <1>1, <1>3, <1>4, <1>9, <2>2, <2>4 DEF ViewInv, Revisions, Older
  <2>6. kind = "device" => \E rows : OfBindings(rows)'
    <3>1. PICK rows : rows = screen
      OBVIOUS
    <3>2. View!Bindings(rows)' = View!Bindings(rows) /\ View!Objects(rows)' = View!Objects(rows)
      BY <1>1 DEF View!Bindings, View!Identity, View!Contents, View!Objects, Still
    <3>3. SameTexts(Seen(rows))'
      BY <1>1, <1>6, <3>1 DEF SameTexts, Seen, Still
    <3>4. kind = "device" => OfBindings(rows)'
      BY <1>6, <1>7, <1>12, <2>1, <2>2, <3>1, <3>2, <3>3 DEF OfBindings
    <3> QED
      BY <3>4
  <2>7. TokenBound' /\ TokenIsNode'
    BY <1>1, <2>1, <2>2, <2>6 DEF TokenBound, TokenIsNode, Still
  <2> QED
    BY <1>1, <1>8, <1>10, <2>3, <2>5, <2>7 DEF ViewInv, View!ReachesTheNamed, View!InputIsCurrent
<1>13. portal # 0
  BY <1>1 DEF ViewInv, Revisions
<1> QED
  BY <1>5, <1>11, <1>12, <1>13

\* Steps that change nothing but the call and what was hit.
LEMMA CallStep ==
  ASSUME ViewInv, Still, UNCHANGED <<portal, nextPortal, session, backend, shots, token, chunks>>,
         call' \in Observing \cup Inputting \cup {Nothing},
         call' # Nothing => portal # 0 /\ call'.op # "observe",
         InputFits', View!ReachesTheNamed', View!InputIsCurrent'
  PROVE  ViewInv'
<1>1. ViewTypes' /\ Revisions' /\ ChunksOfFrame'
  BY DEF ViewInv, ViewTypes, Revisions, Older, ChunksOfFrame, Still
<1> QED
  BY <1>1, BoundStays DEF ViewInv

LEMMA RequestFailsStep ==
  ASSUME ViewInv, View!RequestFails
  PROVE  ViewInv'
  BY CallStep DEF View!RequestFails, View!world, View!registry, Still, InputFits, View!ReachesTheNamed, View!InputIsCurrent

LEMMA FrameChunkStep ==
  ASSUME ViewInv, NEW r \in Nat, View!FrameChunk(r)
  PROVE  ViewInv'
<1>1. /\ Still /\ UNCHANGED <<portal, nextPortal, session, backend, shots, call, token>> /\ hit' = Nothing
      /\ portal # 0 /\ session.latest # Nothing /\ session.latest.revision = r /\ call = Nothing
  BY DEF View!FrameChunk, View!Idle, View!world, View!registry, Still
<1>2. PICK f : f = session.latest.frame
  OBVIOUS
<1>3. f \in Nat /\ session.revision = r
  BY <1>1, <1>2 DEF ViewInv, ViewTypes, ViewSessions, Revisions
<1>4. \E c \in Chunks : chunks' = c /\ c.portal = portal /\ c.revision = r /\ c.frames = {f}
  <2>1. CASE chunks # Nothing /\ chunks.portal = portal /\ chunks.revision = r
    <3>1. chunks \in Chunks /\ chunks.frames = {f}
      BY <1>1, <1>2, <2>1 DEF ViewInv, ViewTypes, ChunksOfFrame
    <3>2. PICK c : c = [chunks EXCEPT !.frames = chunks.frames \cup {f}]
      OBVIOUS
    <3>3. c \in Chunks /\ c.portal = portal /\ c.revision = r /\ c.frames = {f}
      BY <1>3, <2>1, <3>1, <3>2 DEF Chunks
    <3> QED
      BY <1>2, <2>1, <3>2, <3>3 DEF View!FrameChunk
  <2>2. CASE ~(chunks # Nothing /\ chunks.portal = portal /\ chunks.revision = r)
    <3>1. PICK c : c = [portal |-> portal, revision |-> r, frames |-> {f}]
      OBVIOUS
    <3>2. c \in Chunks /\ c.portal = portal /\ c.revision = r /\ c.frames = {f}
      BY <1>3, <3>1 DEF Chunks, ViewInv, ViewTypes
    <3> QED
      BY <1>2, <2>2, <3>1, <3>2 DEF View!FrameChunk
  <2> QED
    BY <2>1, <2>2
<1>5. ViewTypes'
  BY <1>1, <1>4 DEF ViewInv, ViewTypes, Still
<1>6. Older(portal, r)'
  BY <1>1, <1>3 DEF Older, ViewInv, ViewTypes, Revisions
<1>7. Revisions'
  BY <1>1, <1>4, <1>6 DEF ViewInv, Revisions, Older
<1>8. ChunksOfFrame' /\ InputFits'
  BY <1>1, <1>2, <1>4 DEF ViewInv, ChunksOfFrame, InputFits
<1> QED
  BY <1>1, <1>5, <1>7, <1>8, BoundStays DEF ViewInv, View!ReachesTheNamed, View!InputIsCurrent

-----------------------------------------------------------------------------
(* Input *)

LEMMA ResolveStep ==
  ASSUME ViewInv, View!Resolve
  PROVE  ViewInv'
<1>1. /\ Still /\ UNCHANGED <<portal, nextPortal, session, backend, shots, token, chunks>> /\ hit' = Nothing
      /\ View!Usable /\ View!Accepted /\ portal # 0
  BY DEF View!Resolve, View!world, View!registry, Still, View!Usable
<1>2. PICK place : place = CHOOSE i \in View!Candidates : TRUE
  OBVIOUS
<1>3. PICK c : c = [op |-> "input", place |-> place, target |-> Nothing, moved |-> FALSE]
  OBVIOUS
<1>4. call' = c
  BY <1>2, <1>3 DEF View!Resolve
<1>5. place \in View!Candidates /\ place \in Nat
  <2>1. screen \in Seq(ViewRows) /\ Len(screen) \in Nat /\ DOMAIN screen = 1..Len(screen)
    BY DEF ViewInv, ViewTypes
  <2>2. View!Candidates \in SUBSET (1..Len(screen))
    BY <2>1 DEF View!Candidates, View!LiveMatches, View!NodePlaces
  <2>3. View!Cardinality(View!Candidates) = 1
    BY DEF View!Resolve
  <2>4. \E i \in 1..Len(screen) : View!Candidates = {i}
    BY <2>1, <2>2, <2>3, One
  <2>5. place \in View!Candidates
    BY <1>2, <2>4
  <2> QED
    BY <2>1, <2>2, <2>5
<1>6. c \in Inputting /\ c.op = "input" /\ c.target = Nothing /\ c.place = place
  BY <1>3, <1>5 DEF Inputting
<1>7. View!Candidates' = View!Candidates /\ View!Usable' /\ View!Accepted'
  BY <1>1 DEF Still, View!Candidates, View!LiveMatches, View!NodePlaces, View!Identity, View!Contents, View!Usable,
              View!Accepted, View!AcceptsRevision, View!Unambiguous
<1>8. InputFits'
  BY <1>4, <1>5, <1>6, <1>7 DEF InputFits
<1> QED
  BY <1>1, <1>4, <1>6, <1>8, CallStep DEF View!ReachesTheNamed, View!InputIsCurrent

LEMMA LookupStep ==
  ASSUME ViewInv, View!Lookup
  PROVE  ViewInv'
<1>1. /\ Still /\ UNCHANGED <<portal, nextPortal, session, backend, shots, token, chunks>> /\ hit' = Nothing
      /\ call # Nothing /\ call.op = "input" /\ portal # 0 /\ InputFits
  BY DEF View!Lookup, View!world, View!registry, Still, ViewInv, Revisions
<1>2. call \in Inputting
  BY <1>1 DEF ViewInv, ViewTypes, Observing
<1>3. PICK c : c = [call EXCEPT !.target = screen[call.place].object]
  OBVIOUS
<1>4. CASE call.place \in DOMAIN screen
  <2>1. screen[call.place].object \in Nat
    BY <1>4, RowsTyped DEF ViewInv, ViewTypes
  <2>2. /\ c \in Inputting /\ c.op = "input" /\ c.place = call.place /\ c.moved = call.moved
        /\ c.target = screen[c.place].object
    BY <1>1, <1>2, <1>3, <2>1 DEF Inputting
  <2>3. call' = c
    BY <1>3, <1>4 DEF View!Lookup
  <2>4. View!Candidates' = View!Candidates /\ (View!Usable /\ View!Accepted => View!Usable' /\ View!Accepted')
    BY <1>1 DEF Still, View!Candidates, View!LiveMatches, View!NodePlaces, View!Identity, View!Contents, View!Usable,
                View!Accepted, View!AcceptsRevision, View!Unambiguous
  <2>5. View!Usable /\ View!Accepted /\ (~call.moved => call.place \in View!Candidates)
    BY <1>1 DEF InputFits
  <2>6. screen' = screen
    BY <1>1 DEF Still
  <2>7. InputFits'
    BY <2>2, <2>3, <2>4, <2>5, <2>6 DEF InputFits
  <2> QED
    BY <1>1, <2>2, <2>3, <2>7, CallStep DEF View!ReachesTheNamed, View!InputIsCurrent
<1>5. CASE call.place \notin DOMAIN screen
  <2>1. call' = Nothing
    BY <1>5 DEF View!Lookup
  <2> QED
    BY <1>1, <2>1, CallStep DEF InputFits, View!ReachesTheNamed, View!InputIsCurrent
<1> QED
  BY <1>4, <1>5

\* An input that arrives where it was let in hits what its token names.
LEMMA ReachStep ==
  ASSUME ViewInv, NEW object, NEW precise, View!Reach(object, precise), UNCHANGED token,
         View!Usable, token.revision = session.revision,
         precise => object = token.object \/ object \notin token.shown
  PROVE  View!ReachesTheNamed' /\ View!InputIsCurrent'
<1>1. PICK h : h = [object |-> object, token |-> token, precise |-> precise, portal |-> portal,
                    revision |-> session.revision]
  OBVIOUS
<1>2. hit' = h /\ h.object = object /\ h.token = token /\ h.precise = precise /\ h.portal = portal
      /\ h.revision = session.revision
  BY <1>1 DEF View!Reach
<1> QED
  BY <1>2 DEF View!ReachesTheNamed, View!InputIsCurrent, View!Usable

LEMMA DeliverToDeviceStep ==
  ASSUME ViewInv, View!DeliverToDevice
  PROVE  ViewInv'
<1>1. /\ Still /\ UNCHANGED <<portal, nextPortal, session, backend, shots, token, chunks>> /\ call' = Nothing
      /\ call # Nothing /\ call.op = "input" /\ kind = "device" /\ call.target # Nothing /\ InputFits
  BY DEF View!DeliverToDevice, View!world, View!registry, Still, ViewInv
<1>2. /\ View!Usable /\ View!Accepted
      /\ ~call.moved => call.place \in View!Candidates /\ call.target = screen[call.place].object
  BY <1>1 DEF InputFits
<1>3. /\ token # Nothing /\ token.portal = portal /\ token.revision = session.revision
      /\ token.revision = backend.revision /\ View!Unambiguous(backend.bindings, token.element)
  BY <1>1, <1>2 DEF View!Usable, View!Accepted, View!AcceptsRevision
<1>4. PICK rows : OfBindings(rows)
  BY <1>1, <1>3 DEF ViewInv, TokenBound
<1>5. screen \in Seq(ViewRows)
  BY DEF ViewInv, ViewTypes
<1>6. ~call.moved => call.target = token.object \/ call.target \notin token.shown
  <2>1. ~call.moved => call.place \in View!LiveMatches
    BY <1>1, <1>2 DEF View!Candidates
  <2> QED
    BY <1>2, <1>3, <1>4, <1>5, <2>1, ReachesElement
<1>7. View!Reach(call.target, ~call.moved) \/ hit' = Nothing
  BY DEF View!DeliverToDevice
<1>8. View!ReachesTheNamed' /\ View!InputIsCurrent'
  <2>1. CASE View!Reach(call.target, ~call.moved)
    BY <1>1, <1>2, <1>3, <1>6, <2>1, ReachStep
  <2>2. CASE hit' = Nothing
    BY <2>2 DEF View!ReachesTheNamed, View!InputIsCurrent
  <2> QED
    BY <1>7, <2>1, <2>2
<1> QED
  BY <1>1, <1>8, CallStep DEF InputFits

LEMMA DeliverToPageStep ==
  ASSUME ViewInv, View!DeliverToPage
  PROVE  ViewInv'
<1>1. /\ Still /\ UNCHANGED <<portal, nextPortal, session, backend, shots, token, chunks>> /\ call' = Nothing
      /\ call # Nothing /\ call.op = "input" /\ kind = "page" /\ InputFits
  BY DEF View!DeliverToPage, View!world, View!registry, Still, ViewInv
<1>2. View!Usable /\ View!Accepted /\ (~call.moved => call.place \in View!Candidates)
  BY <1>1 DEF InputFits
<1>3. token # Nothing /\ token.revision = session.revision /\ token.element = token.object
  BY <1>1, <1>2 DEF View!Usable, View!Accepted, View!AcceptsRevision, ViewInv, TokenIsNode
<1>4. ~call.moved => screen[call.place].object = token.object
  BY <1>1, <1>2, <1>3 DEF View!Candidates, View!NodePlaces
<1>5. View!Reach(screen[call.place].object, ~call.moved) \/ hit' = Nothing
  BY DEF View!DeliverToPage
<1>6. View!ReachesTheNamed' /\ View!InputIsCurrent'
  <2>1. CASE View!Reach(screen[call.place].object, ~call.moved)
    BY <1>1, <1>2, <1>3, <1>4, <2>1, ReachStep
  <2>2. CASE hit' = Nothing
    BY <2>2 DEF View!ReachesTheNamed, View!InputIsCurrent
  <2> QED
    BY <1>5, <2>1, <2>2
<1> QED
  BY <1>1, <1>6, CallStep DEF InputFits

LEMMA CoordinateInputStep ==
  ASSUME ViewInv, View!CoordinateInput
  PROVE  ViewInv'
<1>1. /\ Still /\ UNCHANGED <<portal, nextPortal, session, backend, shots, call, token, chunks>> /\ call = Nothing
      /\ View!Usable /\ token.revision = session.revision
  BY DEF View!CoordinateInput, View!Idle, View!world, View!registry, Still, View!AcceptsRevision
<1>2. PICK i \in DOMAIN screen : View!Reach(screen[i].object, FALSE)
  BY DEF View!CoordinateInput
<1>3. View!ReachesTheNamed' /\ View!InputIsCurrent'
  BY <1>1, <1>2, ReachStep
<1> QED
  BY <1>1, <1>3, CallStep DEF InputFits

-----------------------------------------------------------------------------
LEMMA ViewStutters ==
  ASSUME ViewInv, UNCHANGED viewVars
  PROVE  ViewInv'
<1>1. Still /\ UNCHANGED <<portal, nextPortal, session, backend, shots, call, token, chunks, hit>>
  BY DEF viewVars, Still
<1>2. ViewTypes' /\ Revisions' /\ ChunksOfFrame'
  BY <1>1 DEF ViewInv, ViewTypes, Revisions, Older, ChunksOfFrame, Still
<1>3. InputFits'
  BY <1>1 DEF ViewInv, InputFits, Still, View!Candidates, View!LiveMatches, View!NodePlaces, View!Identity,
              View!Contents, View!Usable, View!Accepted, View!AcceptsRevision, View!Unambiguous
<1> QED
  BY <1>1, <1>2, <1>3, BoundStays DEF ViewInv, View!ReachesTheNamed, View!InputIsCurrent

LEMMA ViewStep ==
  ASSUME ViewInv, View!Next, MaxObservations \in Nat
  PROVE  ViewInv'
<1>1. CASE View!ConnectDevice \/ View!ConnectPage
  BY <1>1, RegisterViewStep DEF View!ConnectDevice, View!ConnectPage
<1>2. CASE View!ObserveDevice
  <2>1. PICK elements : elements = [i \in DOMAIN screen |-> i] /\ View!Recording(elements)
    BY <1>2 DEF View!ObserveDevice
  <2>2. UNCHANGED kind
    BY <2>1 DEF View!Recording, View!world
  <2> QED
    BY <1>2, <2>1, <2>2, RecordingStep DEF View!ObserveDevice
<1>3. CASE View!ObservePage
  <2>1. PICK elements : elements = [i \in DOMAIN screen |-> screen[i].object] /\ View!Recording(elements)
    BY <1>3 DEF View!ObservePage
  <2>2. UNCHANGED kind
    BY <2>1 DEF View!Recording, View!world
  <2> QED
    BY <1>3, <2>1, <2>2, RecordingStep DEF View!ObservePage
<1>4. ASSUME NEW r \in 1..MaxObservations, View!FrameChunk(r) PROVE ViewInv'
  BY <1>4, FrameChunkStep
<1> QED
  BY <1>1, <1>2, <1>3, <1>4, ScreenChangesStep, UnregisterViewStep, CloseFailsStep, ObserveViewStep, RequestFailsStep,
     ResolveStep, LookupStep, DeliverToDeviceStep, DeliverToPageStep, CoordinateInputStep, NavigateStep DEF View!Next

LEMMA ViewInit == View!Init => ViewInv
<1> SUFFICES ASSUME View!Init PROVE ViewInv
  OBVIOUS
<1>1. PICK a \in Texts, b \in Texts : screen = <<[object |-> 1, text |-> a], [object |-> 2, text |-> b]>>
  BY DEF View!Init
<1>2. PICK x, y : x = [object |-> 1, text |-> a] /\ y = [object |-> 2, text |-> b]
  OBVIOUS
<1>3. x \in ViewRows /\ y \in ViewRows /\ x.object = 1 /\ y.object = 2 /\ screen = <<x, y>>
  BY <1>1, <1>2 DEF ViewRows
<1>4. screen \in Seq(ViewRows) /\ Seen(screen) = {x, y}
  BY <1>3 DEF Seen
<1>5. SameTexts(Seen(screen))
  BY <1>3, <1>4 DEF SameTexts, View!Init
<1>6. View!NewSession \in ViewSessions /\ DOMAIN View!NewBackend = {"open", "revision", "bindings"}
      /\ View!NewSession.latest = Nothing
  BY DEF View!NewSession, ViewSessions, View!NewBackend
<1>7. ViewTypes
  BY <1>4, <1>6 DEF View!Init, ViewTypes
<1> QED
  BY <1>5, <1>6, <1>7 DEF View!Init, ViewInv, Revisions, TokenBound, TokenIsNode, InputFits, ChunksOfFrame,
     View!ReachesTheNamed, View!InputIsCurrent

\* What an agent names is what its input reaches: an element of an observation
\* stands for the object it was shown as, or for one that came later and looks
\* the same, input is given up once there is a newer observation or another
\* session, and the chunks of a revision are of one frame (portal.rs;
\* portal/appium.rs, resolve_element; portal/browser.rs; ipc/portal.rs).
THEOREM ViewsAreHeld == PortalsSpec => []ViewsHold
<1>1. PortalsInit => ViewInv
  BY ViewInit DEF PortalsInit
<1>2. ViewInv /\ [PortalsNext]_<<part, vars, viewVars>> => ViewInv'
  BY ViewStep, ViewStutters, ViewAssumption DEF PortalsNext
<1>3. ViewInv => ViewsHold
  <2>1. ViewInv => View!FramesAreWhole
    BY OneFrame DEF ViewInv, ChunksOfFrame, View!FramesAreWhole
  <2> QED
    BY <2>1 DEF ViewInv, ViewsHold, View!TokensHold
<1> QED
  BY <1>1, <1>2, <1>3, PTL DEF PortalsSpec
=============================================================================
