----------------------------- MODULE MCMessages ------------------------------
(***************************************************************************)
(* The way of a message in one run, from an agent's call to its prompt in  *)
(* the terminal of another agent, three instances side by side: the inbox  *)
(* of the IPC service (IpcService, with the constants of the cfg), and     *)
(* of Orchestration a task with a response deadline and a crash            *)
(* (Delegated), and the work of a routine for an agent whose window is     *)
(* closed and reopened, with an acknowledgement that fails (Dispatched).   *)
(* "part" says which of them a behaviour is about; the others stand still. *)
(***************************************************************************)
EXTENDS IpcService, TLC

VARIABLES part, db, store, inbox, boxes, inflight, up, archived, faults, pasted

handoffVars == <<db, store, inbox, boxes, inflight, up, archived, faults, pasted>>

-----------------------------------------------------------------------------
(* The inbox *)

Command(id, kind, to, ref) ==
  [id |-> id, kind |-> kind, to |-> to, ref |-> ref, outputs |-> FALSE, wellFormed |-> TRUE]
Call(sender, offers, c) == [sender |-> sender, offers |-> offers, command |-> c]

RoutineTask == Command("r1", "send_handoff", "b", Nobody)

\* Two agents: a handoff, a conflicting use of its
\* identifier, progress on it, and answers to the step of a routine: of an agent
\* it is not assigned to, and with outputs, which only version 4 may carry (the
\* first supported version a client lists is selected).
TwoAgentCalls ==
  { Call("a", <<4, 3, 2, 1>>, Command("m1", "send_handoff", "b", Nobody)),
    Call("b", <<4, 3, 2, 1>>, Command("m1", "send_handoff", "b", Nobody)),
    Call("a", <<2, 1>>, Command("m2", "respond_to_handoff", Nobody, "r1")),
    Call("b", <<1, 4>>, [Command("m2", "respond_to_handoff", Nobody, "r1") EXCEPT !.outputs = TRUE]),
    Call("b", <<4>>, [Command("m2", "respond_to_handoff", Nobody, "r1") EXCEPT !.outputs = TRUE]),
    Call("b", <<2, 1>>, Command("m3", "handoff_progress", Nobody, "m1")) }
\* Both agents, one without automatic delivery, and one deleted.
TwoAgentDirectories ==
  { [a |-> "connected", b |-> "connected"], [a |-> "connected", b |-> "unavailable"],
    [a |-> "connected", b |-> Absent] }
TwoAgentHandoffs == {RoutineTask}

-----------------------------------------------------------------------------
(* The handoffs of one sent message, from agent 1 or a routine to agent 2 *)

PostsOf(types) ==
  {[type |-> t, root |-> 1] : t \in types} \cup {[type |-> "respond", root |-> 1, status |-> "completed"]}

Delegated == INSTANCE Orchestration WITH
  NumAgents <- 2, Sends <- {1}, From <- 1 :> 1, To <- 1 :> 2, IsTask <- 1 :> TRUE,
  Timeout <- 1 :> 1, Posts <- PostsOf({"send", "progress", "cancel"}),
  Window <- 2, MaxShift <- 1, MaxUserHandoffs <- 0, Capacity <- 2,
  FaultKinds <- {"crash"}, MaxFaults <- 1, Archivable <- {}, UserActions <- {}

Dispatched == INSTANCE Orchestration WITH
  NumAgents <- 2, Sends <- {1}, From <- 1 :> 0, To <- 1 :> 2, IsTask <- 1 :> TRUE,
  Timeout <- 1 :> -1, Posts <- PostsOf({"progress"}),
  Window <- 2, MaxShift <- 1, MaxUserHandoffs <- 0, Capacity <- 2,
  FaultKinds <- {"ack"}, MaxFaults <- 1, Archivable <- {2}, UserActions <- {}

-----------------------------------------------------------------------------
MessagesInit ==
  /\ part \in {"inbox", "task", "work"}
  /\ Init
  /\ Delegated!Init

MessagesNext ==
  /\ UNCHANGED part
  /\ \/ part = "inbox" /\ Next /\ UNCHANGED handoffVars
     \/ part = "task" /\ Delegated!Next /\ UNCHANGED vars
     \/ part = "work" /\ Dispatched!Next /\ UNCHANGED vars

\* The application ticks for as long as it runs and is started again after a
\* crash; the worker threads of the service run.
MessagesFairness ==
  /\ WF_vars(part = "inbox" /\ TickStep)
  /\ \A w \in Workers : WF_vars(part = "inbox" /\ Work(w))
  /\ WF_handoffVars(\/ part = "task" /\ Delegated!Accept
                    \/ part = "work" /\ Dispatched!Accept)
  /\ WF_handoffVars(\/ part = "task" /\ Delegated!Deliver
                    \/ part = "work" /\ Dispatched!Deliver)
  /\ WF_handoffVars(part = "task" /\ Delegated!Expire)
  /\ WF_handoffVars(\/ part = "task" /\ Delegated!Tick
                    \/ part = "work" /\ Dispatched!Tick)
  /\ WF_handoffVars(part = "task" /\ Delegated!RecoverStep)

MessagesSpec == MessagesInit /\ [][MessagesNext]_<<part, vars, handoffVars>> /\ MessagesFairness

\* The three properties read the records of handoffs, mailboxes and messages,
\* which are the same in both instances of Orchestration.

\* Every message that was accepted and still has to reach an agent waits in its
\* mailbox, or the IPC message that caused it is still unprocessed, through a
\* crash or a failed acknowledgement (orchestration/engine.rs, recover).
NothingLost == Delegated!NothingLost

\* Every message to an agent is delivered, exhausted or dropped because its
\* handoff ended (orchestration/engine.rs, prepare_next and finish_delivery).
PromptSettles == Delegated!PromptSettles

\* A response deadline always ends the wait for an answer
\* (orchestration/engine.rs, expire_due).
DeadlineEnds == Delegated!DeadlineEnds
=============================================================================
