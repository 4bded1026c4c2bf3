----------------------------- MODULE ChatDomain -----------------------------
(***************************************************************************)
(* Threads, drafts, messages and attachments of src/src/domain/chat.rs and *)
(* their commands in src/src/domain/workspace.rs.  A workspace has two     *)
(* more collections: threads, each with its owner, draft and messages, and *)
(* attachments, each with its thread, size and file extension.             *)
(***************************************************************************)
EXTENDS WorkspaceAggregate

CONSTANTS MaxFiles, MaxTotal   \* attachments of a draft, and their bytes together

ASSUME ChatAssumption == MaxFiles \in Nat /\ MaxTotal \in Nat

NoDraft == [text |-> "", files |-> {}, mentions |-> {}]
Blank(text) == text \in {"", " "}
EmptyDraft(d) == Blank(d.text) /\ d.files = {} /\ d.mentions = {}
NewThread(a) == [owner |-> a, draft |-> NoDraft, messages |-> <<>>]

Sent(ws) == UNION {Range(ws.threads[t].messages) : t \in DOMAIN ws.threads}
MessageOf(id, draft) == [id |-> id, text |-> draft.text, files |-> draft.files, mentions |-> draft.mentions]
Bytes(ws, files) == MapThenSumSet(LAMBDA f : ws.attachments[f].size, files)

\* A card of the agent and a card of the target are connected, either way.
Linked(ws, a, x) ==
  \E e \in Range(ws.canvas.links) : {ws.canvas.nodes[e[1]], ws.canvas.nodes[e[2]]} = {Agent(a), x}

\* validate_chat_references.
MayMention(ws, t, x) == x \in Targets(ws) \ {NoteCard} /\ Linked(ws, ws.threads[t].owner, x)
MayRefer(ws, t, content) ==
  /\ \A f \in content.files : f \in DOMAIN ws.attachments /\ ws.attachments[f].thread = t
  /\ Bytes(ws, content.files) <= MaxTotal
  /\ \A x \in content.mentions : MayMention(ws, t, x)

-----------------------------------------------------------------------------
CanAddThread(ws, id, a) == id \notin DOMAIN ws.threads /\ a \in DOMAIN ws.agents
WithThread(ws, id, a) == [ws EXCEPT !.threads = With(@, id, NewThread(a))]

CanAttach(ws, id, file) == id \notin DOMAIN ws.attachments /\ file.thread \in DOMAIN ws.threads
WithAttachment(ws, id, file) == [ws EXCEPT !.attachments = With(@, id, file)]

CanDraft(ws, t, draft) ==
  /\ t \in DOMAIN ws.threads /\ ws.threads[t].draft # draft
  /\ Cardinality(draft.files) <= MaxFiles /\ MayRefer(ws, t, draft)
WithDraft(ws, t, draft) == [ws EXCEPT !.threads[t].draft = draft]

CanSubmit(ws, t, id) ==
  /\ t \in DOMAIN ws.threads /\ ~Blank(ws.threads[t].draft.text)
  /\ \A m \in Sent(ws) : m.id # id
  /\ MayRefer(ws, t, ws.threads[t].draft)
\* The message and the cleared draft are one event.
WithSubmitted(ws, t, id) ==
  [ws EXCEPT !.threads[t].messages = Append(@, MessageOf(id, ws.threads[t].draft)), !.threads[t].draft = NoDraft]

\* AgentState::can_transition_to.
AgentMoves == {"starting"} \X {"running", "failed", "stopped"}
         \cup {"running"} \X {"waiting", "completed", "failed", "stopped"}
         \cup {"waiting"} \X {"running", "completed", "failed", "stopped"}
CanMoveAgent(ws, a, to) == a \in DOMAIN ws.agents \ ws.closed /\ <<ws.agents[a].state, to>> \in AgentMoves
WithAgentMoved(ws, a, to) == [ws EXCEPT !.agents[a].state = to]

\* A command of a conversation, or one of the other commands.
ExecuteChat(ws, c) ==
  CASE ws = Refused -> Refused
    [] ws # Refused /\ c.op = "thread" -> IF CanAddThread(ws, c.id, c.val) THEN WithThread(ws, c.id, c.val) ELSE Refused
    [] ws # Refused /\ c.op = "attachment" -> IF CanAttach(ws, c.id, c.val) THEN WithAttachment(ws, c.id, c.val) ELSE Refused
    [] ws # Refused /\ c.op = "draft" -> IF CanDraft(ws, c.id, c.val) THEN WithDraft(ws, c.id, c.val) ELSE Refused
    [] ws # Refused /\ c.op = "submit" -> IF CanSubmit(ws, c.id, c.val) THEN WithSubmitted(ws, c.id, c.val) ELSE Refused
    [] ws # Refused /\ c.op = "agent state" -> IF CanMoveAgent(ws, c.id, c.val) THEN WithAgentMoved(ws, c.id, c.val) ELSE Refused
    [] OTHER -> Execute(ws, c)
=============================================================================
