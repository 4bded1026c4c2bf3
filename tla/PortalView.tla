------------------------------ MODULE PortalView ------------------------------
(***************************************************************************)
(* What an agent sees of a portal and what its input reaches: PortalSession*)
(* (portal.rs), the two backends (portal/appium.rs, portal/browser.rs) and *)
(* the part of the dispatcher that observes, reads frames and executes     *)
(* (ipc/portal.rs).  Portals.tla has the policy and the journal in front.  *)
(*                                                                         *)
(* The screen is a list of records, each with the same control, that a     *)
(* running application reorders, removes and adds whenever it likes.  The  *)
(* dispatcher is locked during a call, but a call is several requests to   *)
(* the device or the page, and the screen changes between them.            *)
(***************************************************************************)
EXTENDS Integers, Sequences, FiniteSets

CONSTANTS
  Texts,         \* contents a record shows
  Nothing,       \* no call, token, observation, target
  MaxRecords, MaxChanges, MaxObservations, MaxPortals   \* bounds

VARIABLES
  kind,      \* the backend: "device" (Appium) or "page" (browser)
  nested,    \* a record keeps its control in a cell of its own
  screen,    \* the records on screen, as [object, text]
  born,      \* objects created so far
  portal,    \* the registered portal, 0 when there is none
  nextPortal,   \* next_portal_id
  session,   \* PortalSession
  backend,   \* its automation session, element_revision and element_bindings
  shots,     \* frames taken so far
  call,      \* the call that holds the dispatcher
  token,     \* what an agent keeps of an observation: one element
  hit,       \* the last input that reached the application
  chunks,    \* the frame chunks an agent puts together, Nothing before the first
  changes

vars == <<kind, nested, screen, born, portal, nextPortal, session, backend, shots, call,
          token, hit, chunks, changes>>
world == <<kind, nested, screen, born, changes>>
registry == <<portal, nextPortal>>

Objects(rows) == {rows[i].object : i \in DOMAIN rows}

-----------------------------------------------------------------------------
(* PortalSession *)

NewSession == [state |-> "disconnected", revision |-> 0, latest |-> Nothing]
Observed(s) == [s EXCEPT !.revision = @ + 1, !.latest = Nothing]
Recorded(s, frame) == [s EXCEPT !.latest = [revision |-> s.revision, frame |-> frame]]
AcceptsRevision(s, revision) == s.state = "connected" /\ revision = s.revision

-----------------------------------------------------------------------------
(* Elements of a device's source *)

\* subtree_content of the container: how often each content occurs, in no order.
Contents(rows) == [t \in Texts |-> Cardinality({i \in DOMAIN rows : rows[i].text = t})]

\* contextual_identities: the contents of the two closest ancestors of the
\* control belong to its identity; with a cell in between, the list is a third.
Identity(rows, i) ==
  IF nested THEN [record |-> rows[i].text] ELSE [record |-> rows[i].text, list |-> Contents(rows)]

\* appium_elements: the token is the position in the observation.
Bindings(rows) == [i \in DOMAIN rows |-> Identity(rows, i)]

\* Faulty variant: that two elements of the observation looked alike is forgotten.
Unique(bindings, i) == TRUE

\* identity_count: nothing else of the observation has the element's identity.
Unambiguous(bindings, i) == Cardinality({j \in DOMAIN bindings : bindings[j] = bindings[i]}) = 1

-----------------------------------------------------------------------------
(* The application behind the portal *)

Without(rows, i) == SubSeq(rows, 1, i - 1) \o SubSeq(rows, i + 1, Len(rows))
Swapped(rows, i, j) == [rows EXCEPT ![i] = rows[j], ![j] = rows[i]]

\* The records are reordered, one goes, or one comes.
ScreenChanges ==
  /\ changes < MaxChanges /\ changes' = changes + 1
  /\ \/ /\ \E i, j \in DOMAIN screen : i < j /\ screen' = Swapped(screen, i, j)
        /\ UNCHANGED born
     \/ \E i \in DOMAIN screen : screen' = Without(screen, i) /\ UNCHANGED born
     \/ /\ Len(screen) < MaxRecords /\ born' = born + 1
        /\ \E t \in Texts, first \in BOOLEAN :
             LET row == <<[object |-> born + 1, text |-> t]>> IN
             screen' = IF first THEN row \o screen ELSE screen \o row
  /\ call' = IF call = Nothing THEN call ELSE [call EXCEPT !.moved = TRUE]
  /\ hit' = Nothing
  /\ UNCHANGED <<kind, nested, registry, session, backend, shots, token, chunks>>

-----------------------------------------------------------------------------
(* Connecting and closing *)

Idle == call = Nothing
NewBackend == [open |-> FALSE, revision |-> 0, bindings |-> <<>>]

\* register_auto gives the portal a number no other has; the session starts,
\* or the connection fails and connect_backend drops the portal again.
Register(opened) ==
  /\ Idle /\ portal = 0 /\ nextPortal <= MaxPortals
  /\ nextPortal' = nextPortal + 1
  /\ IF opened
     THEN /\ portal' = nextPortal
          /\ session' = [NewSession EXCEPT !.state = "connected"]
          /\ backend' = [NewBackend EXCEPT !.open = TRUE]
     ELSE UNCHANGED <<portal, session, backend>>
  /\ hit' = Nothing
  /\ UNCHANGED <<world, shots, call, token, chunks>>

\* An automation session is created on the device, or a browser is launched,
\* found by its port file, and told to load the page; any step may fail, and a
\* browser that was launched is ended then.
ConnectDevice == kind = "device" /\ \E opened \in BOOLEAN : Register(opened)
ConnectPage == kind = "page" /\ \E opened \in BOOLEAN : Register(opened)

\* unregister closes the session and drops the portal.
Unregister ==
  /\ Idle /\ portal # 0
  /\ portal' = 0 /\ session' = NewSession /\ backend' = NewBackend
  /\ hit' = Nothing
  /\ UNCHANGED <<world, nextPortal, shots, call, token, chunks>>

\* close failed at the device: the session is closing and accepts nothing,
\* the portal stays until it is unregistered again.
CloseFails ==
  /\ Idle /\ portal # 0 /\ kind = "device" /\ session.state = "connected"
  /\ session' = [session EXCEPT !.state = "closing"]
  /\ hit' = Nothing
  /\ UNCHANGED <<world, registry, backend, shots, call, token, chunks>>

-----------------------------------------------------------------------------
(* Observations and frames *)

\* observe, first request: the revision moves on and the screen is captured.
Observe ==
  /\ Idle /\ portal # 0 /\ session.state = "connected"
  /\ shots < MaxObservations
  /\ session' = Observed(session) /\ shots' = shots + 1
  /\ call' = [op |-> "observe", frame |-> shots + 1, moved |-> FALSE]
  /\ hit' = Nothing
  /\ UNCHANGED <<world, registry, backend, token, chunks>>

\* observe, last request: the elements are read and the observation recorded.
\* The agent keeps an element of it or goes on with the one it had.
Recording(elements) ==
  /\ call # Nothing /\ call.op = "observe"
  /\ session' = Recorded(session, call.frame)
  /\ \/ UNCHANGED token
     \/ \E i \in DOMAIN screen :
          token' = [portal |-> portal, revision |-> session.revision, element |-> elements[i],
                    object |-> screen[i].object, shown |-> Objects(screen)]
  /\ call' = Nothing /\ hit' = Nothing
  /\ UNCHANGED <<world, registry, shots, chunks>>

\* A device's elements are numbered by position, and bound to their identities.
ObserveDevice ==
  /\ kind = "device" /\ Recording([i \in DOMAIN screen |-> i])
  /\ backend' = [backend EXCEPT !.revision = session.revision, !.bindings = Bindings(screen)]

\* A page's accessibility tree has the identities of its nodes.
ObservePage ==
  /\ kind = "page" /\ Recording([i \in DOMAIN screen |-> screen[i].object])
  /\ UNCHANGED backend

\* A request of a call fails: the error is returned and nothing else happens,
\* so the bindings of an earlier observation stay in place.
RequestFails ==
  /\ call # Nothing /\ call' = Nothing
  /\ hit' = Nothing
  /\ UNCHANGED <<world, registry, session, backend, shots, token, chunks>>

\* frame_chunk: a chunk of the recorded observation, for its own revision only.
FrameChunk(revision) ==
  /\ Idle /\ portal # 0 /\ session.state = "connected"
  /\ session.latest # Nothing /\ session.latest.revision = revision
  /\ chunks' = IF chunks # Nothing /\ chunks.portal = portal /\ chunks.revision = revision
               THEN [chunks EXCEPT !.frames = @ \cup {session.latest.frame}]
               ELSE [portal |-> portal, revision |-> revision, frames |-> {session.latest.frame}]
  /\ hit' = Nothing
  /\ UNCHANGED <<world, registry, session, backend, shots, call, token>>

-----------------------------------------------------------------------------
(* Input *)

Usable == token # Nothing /\ token.portal = portal /\ portal # 0

\* A semantic click or text: the revision is the session's and, on a device,
\* that of the bindings, and the element was the only one of its kind.
Accepted ==
  /\ AcceptsRevision(session, token.revision)
  /\ kind = "device" =>
       /\ token.revision = backend.revision
       /\ token.element \in DOMAIN backend.bindings
       /\ Unambiguous(backend.bindings, token.element)

\* resolve_element: the elements of the live tree with the identity observed.
LiveMatches == {i \in DOMAIN screen : Identity(screen, i) = backend.bindings[token.element]}
\* getBoxModel: the node, where it is now.
NodePlaces == {i \in DOMAIN screen : screen[i].object = token.element}
Candidates == IF kind = "device" THEN LiveMatches ELSE NodePlaces

\* The live tree or the node is read; the target is a path or a point.
Resolve ==
  /\ Idle /\ Usable /\ Accepted
  /\ Cardinality(Candidates) = 1
  /\ call' = [op |-> "input", place |-> CHOOSE i \in Candidates : TRUE, target |-> Nothing, moved |-> FALSE]
  /\ hit' = Nothing
  /\ UNCHANGED <<world, registry, session, backend, shots, token, chunks>>

\* A device finds the object at the path it resolved.
Lookup ==
  /\ call # Nothing /\ call.op = "input" /\ call.target = Nothing /\ kind = "device"
  /\ call' = IF call.place \in DOMAIN screen
             THEN [call EXCEPT !.target = screen[call.place].object] ELSE Nothing
  /\ hit' = Nothing
  /\ UNCHANGED <<world, registry, session, backend, shots, token, chunks>>

Reach(object, precise) ==
  hit' = [object |-> object, token |-> token, precise |-> precise, portal |-> portal,
          revision |-> session.revision]

\* The click or the text arrives on a device: at the object, if it is still there.
DeliverToDevice ==
  /\ call # Nothing /\ call.op = "input" /\ kind = "device" /\ call.target # Nothing
  /\ IF call.target \in Objects(screen) THEN Reach(call.target, ~call.moved) ELSE hit' = Nothing
  /\ call' = Nothing
  /\ UNCHANGED <<world, registry, session, backend, shots, token, chunks>>

\* On a page it arrives at whatever is at the point where the node was.
DeliverToPage ==
  /\ call # Nothing /\ call.op = "input" /\ kind = "page"
  /\ IF call.place \in DOMAIN screen
     THEN Reach(screen[call.place].object, ~call.moved) ELSE hit' = Nothing
  /\ call' = Nothing
  /\ UNCHANGED <<world, registry, session, backend, shots, token, chunks>>

\* Input by coordinate or key names a revision and reaches what is there.
CoordinateInput ==
  /\ Idle /\ Usable /\ AcceptsRevision(session, token.revision)
  /\ \E i \in DOMAIN screen : Reach(screen[i].object, FALSE)
  /\ UNCHANGED <<world, registry, session, backend, shots, call, token, chunks>>

\* Navigate checks no revision: every node of a page is replaced.
Navigate ==
  /\ Idle /\ portal # 0 /\ session.state = "connected" /\ kind = "page"
  /\ changes < MaxChanges /\ changes' = changes + 1
  /\ born' = born + 1
  /\ \E t \in Texts : screen' = <<[object |-> born + 1, text |-> t]>>
  /\ hit' = Nothing
  /\ UNCHANGED <<kind, nested, registry, session, backend, shots, call, token, chunks>>

Init ==
  /\ kind \in {"device", "page"} /\ nested \in BOOLEAN /\ (kind = "page" => nested = FALSE)
  /\ \E a, b \in Texts : screen = <<[object |-> 1, text |-> a], [object |-> 2, text |-> b]>>
  /\ born = 2 /\ portal = 0 /\ nextPortal = 1
  /\ session = NewSession /\ backend = NewBackend /\ shots = 0
  /\ call = Nothing /\ token = Nothing /\ hit = Nothing /\ chunks = Nothing /\ changes = 0

Next ==
  \/ ScreenChanges \/ ConnectDevice \/ ConnectPage \/ Unregister \/ CloseFails
  \/ Observe \/ ObserveDevice \/ ObservePage \/ RequestFails \/ (\E r \in 1..MaxObservations : FrameChunk(r))
  \/ Resolve \/ Lookup \/ DeliverToDevice \/ DeliverToPage \/ CoordinateInput \/ Navigate

-----------------------------------------------------------------------------
(* Properties *)

\* An input with an element reaches the object the agent was shown under that
\* element, or one that came later and looks the same, never another one that
\* was on the screen beside it: records may be reordered, removed and added in
\* the meantime (appium.rs, resolve_element).  The exception is a screen that
\* changes within the call.
ReachesTheNamed ==
  hit # Nothing /\ hit.precise =>
    hit.object = hit.token.object \/ hit.object \notin hit.token.shown

\* Input is given up once there is a newer observation, or another session.
InputIsCurrent ==
  hit # Nothing => hit.token.revision = hit.revision /\ hit.token.portal = hit.portal

\* The chunks an agent puts together for one revision are of one frame
\* (docs/ipc.md, "revision-bound chunks").
FramesAreWhole == chunks # Nothing => Cardinality(chunks.frames) = 1

TokensHold == ReachesTheNamed /\ InputIsCurrent /\ FramesAreWhole
=============================================================================
