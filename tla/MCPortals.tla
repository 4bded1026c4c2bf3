------------------------------ MODULE MCPortals ------------------------------
(***************************************************************************)
(* Portals, two small instances explored in one run: the actions of agents *)
(* with their consent, intents and sessions (Portals), and the views on    *)
(* which agents base them (PortalView).  "part" says which of the two a    *)
(* behaviour is about; the other one stands still.                         *)
(***************************************************************************)
EXTENDS Portals

CONSTANTS Texts, Nothing, MaxRecords, MaxChanges, MaxObservations, MaxViews   \* PortalView

ASSUME ViewAssumption == MaxObservations \in Nat

VARIABLES
  part,
  kind, nested, screen, born, portal, nextPortal, session, backend, shots, call, token, hit,
  chunks, changes

View == INSTANCE PortalView WITH MaxPortals <- MaxViews

viewVars == <<kind, nested, screen, born, portal, nextPortal, session, backend, shots, call,
              token, hit, chunks, changes>>

\* Two inputs of one agent, and a navigation that reuses an identifier.
MixedRequests ==
  {[id |-> 1, agent |-> "a", op |-> "input", dest |-> "u"],
   [id |-> 2, agent |-> "a", op |-> "input", dest |-> "u"],
   [id |-> 2, agent |-> "a", op |-> "navigate", dest |-> "v"]}

\* A part that stands still does so in one state.
PortalsInit ==
  /\ part \in {"actions", "view"}
  /\ Init /\ View!Init
  /\ part = "view" => wired = {}
  /\ part = "actions" => kind = "page" /\ \A i \in DOMAIN screen : screen[i].text = "a"

PortalsNext ==
  /\ UNCHANGED part
  /\ \/ part = "actions" /\ Next /\ UNCHANGED viewVars
     \/ part = "view" /\ View!Next /\ UNCHANGED vars

PortalsSpec == PortalsInit /\ [][PortalsNext]_<<part, vars, viewVars>>

\* What an agent names of an observation is what its input reaches, and frames
\* are put together whole (portal.rs, appium.rs, browser.rs).
ViewsHold == part = "view" => View!TokensHold
=============================================================================
