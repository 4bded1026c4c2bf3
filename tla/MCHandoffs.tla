----------------------------- MODULE MCHandoffs ------------------------------
(***************************************************************************)
(* Two small worlds of Orchestration in one run, chosen by "world": one    *)
(* task with its deadline, storage errors and the user's recovery controls *)
(* (the constants of the cfg), and the mailbox of one agent shared by      *)
(* routine work and a question, with lost acknowledgements and a closed    *)
(* window (Mixed).                                                         *)
(***************************************************************************)
EXTENDS HandoffSnapshot, TLC

VARIABLE world

PostsOf(s, types, statuses) ==
  {[type |-> t, root |-> s] : t \in types}
    \cup {[type |-> "respond", root |-> s, status |-> x] : x \in statuses}

\* One task from agent 1 to agent 2 with a response deadline.
TaskFrom == 1 :> 1
TaskTo == 1 :> 2
TaskKind == 1 :> TRUE
TaskTimeout == 1 :> 1
TaskPosts == PostsOf(1, {"send"}, {"completed", "blocked"})

\* Routine work and a question of agent 1 for the same recipient, agent 2.
MixedFrom == 1 :> Routine @@ 2 :> 1
MixedTo == 1 :> 2 @@ 2 :> 2
MixedKinds == 1 :> TRUE @@ 2 :> FALSE
MixedTimeout == 1 :> NoDeadline @@ 2 :> NoDeadline
MixedPosts == PostsOf(1, {"progress"}, {"completed"}) \cup PostsOf(2, {"send", "cancel"}, {"completed"})

Mixed == INSTANCE HandoffSnapshot WITH
  Sends <- {1, 2}, From <- MixedFrom, To <- MixedTo, IsTask <- MixedKinds,
  Timeout <- MixedTimeout, Posts <- MixedPosts, MaxUserHandoffs <- 0,
  FaultKinds <- {"crash", "ack"}, MaxFaults <- 1, Archivable <- {1}, UserActions <- {}

HandoffsInit == \/ world = "task" /\ Init
                \/ world = "mixed" /\ Mixed!Init

HandoffsNext == /\ UNCHANGED world
                /\ \/ world = "task" /\ Next
                   \/ world = "mixed" /\ Mixed!Next

HandoffsSpec == HandoffsInit /\ [][HandoffsNext]_<<vars, world>>

\* The messages of each agent wait in order, and no mailbox holds up another
\* one (orchestration/engine.rs, prepare_next).
MailboxesServe ==
  world = "mixed" => Mixed!MailboxOrder /\ Mixed!FrontDeliverable /\ Mixed!RecipientsIndependent

\* Handoffs, tasks and deliveries are well formed and name each other, and
\* every handoff survives its own record (domain/workspace.rs,
\* persistence/codec.rs).
RecordsRestore ==
  IF world = "task" THEN TypeOK /\ HandoffsRestore ELSE Mixed!HandoffsRestore
=============================================================================
