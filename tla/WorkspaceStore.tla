---------------------------- MODULE WorkspaceStore ----------------------------
(***************************************************************************)
(* What the journal promises: the state of a workspace changes with a      *)
(* committed batch and in no other way, closing a workspace keeps its      *)
(* state, and one open workspace is active.                                *)
(***************************************************************************)
CONSTANTS Workspaces, States, NoState, Nobody
VARIABLES state, open, active

Init ==
  /\ state \in [Workspaces -> States \cup {NoState}]
  /\ open = {w \in Workspaces : state[w] # NoState}
  /\ active \in open \cup {Nobody}

Commit(w) ==
  /\ \E s \in States : state' = [state EXCEPT ![w] = s]
  /\ open' = open \cup {w}
  /\ active' = IF w \in open THEN active ELSE w
\* An open or a closed workspace becomes the active one.
Activate(w) ==
  /\ state[w] # NoState
  /\ open' = open \cup {w} /\ active' = w /\ state' = state
Close(w) ==
  /\ w \in open /\ open' = open \ {w}
  /\ active' \in IF active # w THEN {active} ELSE IF open' = {} THEN {Nobody} ELSE open'
  /\ state' = state

Next == \E w \in Workspaces : Commit(w) \/ Activate(w) \/ Close(w)
Spec == Init /\ [][Next]_<<state, open, active>>
=============================================================================
