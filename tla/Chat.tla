-------------------------------- MODULE Chat --------------------------------
(***************************************************************************)
(* The conversation handlers of src/src/app.rs with the attachment store   *)
(* of src/src/chat.rs, over the journal of src/src/persistence/storage.rs. *)
(* Every change of a draft is a transaction of its own, so that it         *)
(* survives a crash; attaching a file takes a file and two transactions.   *)
(*                                                                         *)
(* Every transaction stores a snapshot.  Recovery starts from the newest   *)
(* one that decodes: only that one and the events after it are kept here.  *)
(***************************************************************************)
EXTENDS SnapshotCodec

CONSTANTS Start,       \* the workspace of the first snapshot
          Texts, Sizes, Extensions,
          Cards,       \* bound: the cards that are connected, disconnected or closed
          MaxThreads,  \* bound: threads
          MaxSteps, MaxFaults   \* bounds

ASSUME HandlersAssumption == MaxSteps \in Nat /\ MaxThreads \in Nat /\ MaxFaults \in Nat /\ "" \in Texts

VARIABLES ws,        \* the workspace in memory
          base,      \* the newest snapshot that decodes, and what it decodes to
          later,     \* the events after it
          files,     \* the stored copies: thread, attachment id, extension
          prompted,  \* messages written to the terminal
          running, steps, faults
vars == <<ws, base, later, files, prompted, running, steps, faults>>

-----------------------------------------------------------------------------
(* The journal. *)
Event(w, c) == [op |-> c.op, id |-> c.id, val |-> c.val,
                from |-> IF c.op \in {"draft", "submit"} THEN w.threads[c.id].draft ELSE NoDraft]
Replayed(w, e) ==
  IF w # Refused /\ e.op \in {"draft", "submit"} /\ (e.id \in DOMAIN w.threads => w.threads[e.id].draft # e.from)
  THEN Refused ELSE ExecuteChat(w, e)
Recovered == FoldLeft(Replayed, base.decoded, later)

\* A command and its snapshot in one transaction.
Snapshot(w) == [stored |-> w, decoded |-> Restored(w)]
Committed(s, c) ==
  LET w == ExecuteChat(s.ws, c)
      snapshot == Snapshot(w)
  IN IF snapshot.decoded # Refused THEN [ws |-> w, base |-> snapshot, later |-> <<>>]
     ELSE [s EXCEPT !.ws = w, !.later = Append(@, Event(s.ws, c))]
Commit(commands) ==
  \E s \in {FoldLeft(Committed, [ws |-> ws, base |-> base, later |-> later], commands)} :
    ws' = s.ws /\ base' = s.base /\ later' = s.later
Accepted(commands) == FoldLeft(ExecuteChat, ws, commands) # Refused

-----------------------------------------------------------------------------
(* The handlers; each needs the card of the thread's owner to be selected. *)
HasCard(a) == Agent(a) \in Range(Visible(ws).nodes)
Open(t) == t \in DOMAIN ws.threads /\ HasCard(ws.threads[t].owner)
Draft(t) == ws.threads[t].draft
\* What the panel offers for a mention: connected_targets.
ConnectedTargets(a) == {x \in Targets(ws) \ {NoteCard, Agent(a)} : Linked(ws, a, x)}

Step == running /\ steps < MaxSteps /\ steps' = steps + 1
Perform(commands) == Accepted(commands) /\ Commit(commands) /\ Step /\ UNCHANGED <<files, prompted, running, faults>>

CreateThread(a) == Cardinality(DOMAIN ws.threads) < MaxThreads /\ HasCard(a) /\ Perform(Do("thread", NextId(ws.threads), a))
EditText(t, text) == Open(t) /\ Perform(Do("draft", t, [Draft(t) EXCEPT !.text = text]))
ToggleMention(t, x) ==
  /\ Open(t) /\ x \in ConnectedTargets(ws.threads[t].owner)
  /\ Perform(Do("draft", t, [Draft(t) EXCEPT !.mentions = IF x \in @ THEN @ \ {x} ELSE @ \cup {x}]))

\* attach_chat_file.  The file is copied, then its record and the draft that
\* holds it are committed, the draft as it was when the handler began.
Copy(t, ext) == <<t, NextId(ws.attachments), ext>>
RecordCommand(t, size, ext) == Do("attachment", NextId(ws.attachments), [thread |-> t, size |-> size, ext |-> ext])
DraftCommand(t) == Do("draft", t, [Draft(t) EXCEPT !.files = @ \cup {NextId(ws.attachments)}])
Importable(t, size, ext) ==
  /\ Open(t) /\ Cardinality(Draft(t).files) < MaxFiles
  /\ Copy(t, ext) \notin files /\ Bytes(ws, Draft(t).files) + size <= MaxTotal

Attach(t, size, ext) ==
  LET both == RecordCommand(t, size, ext) \o DraftCommand(t) IN
  /\ Importable(t, size, ext) /\ Step
  /\ Commit(IF Accepted(both) THEN both ELSE RecordCommand(t, size, ext))
  /\ files' = files \cup {Copy(t, ext)}
  /\ UNCHANGED <<prompted, running, faults>>

\* The process dies, or the database refuses and the copy cannot be removed,
\* before the record or between the record and the draft.
Fault == faults < MaxFaults /\ faults' = faults + 1
AttachCut(t, size, ext, recorded, dies) ==
  /\ Importable(t, size, ext) /\ Step /\ Fault
  /\ Commit(IF recorded THEN RecordCommand(t, size, ext) ELSE <<>>)
  /\ files' = files \cup {Copy(t, ext)} /\ running' = ~dies
  /\ UNCHANGED prompted

\* submit_chat_draft: the message is committed first; without a terminal, or
\* when the write fails, it stays and nothing is written.
NextMessage == Cardinality(Sent(ws)) + 1
Submit(t, written) ==
  LET message == Do("submit", t, NextMessage) IN
  /\ Open(t) /\ Accepted(message) /\ Step
  /\ Commit(message)
  /\ prompted' = IF written THEN Append(prompted, NextMessage) ELSE prompted
  /\ UNCHANGED <<files, running, faults>>
SubmitCut(t) ==
  LET message == Do("submit", t, NextMessage) IN
  /\ Open(t) /\ Accepted(message) /\ Step /\ Fault
  /\ Commit(message) /\ running' = FALSE
  /\ UNCHANGED <<files, prompted>>

\* What else happens in the workspace.
EditCanvas(after) == Perform(Do("canvas", Visible(ws), after))
ConnectCards(n, m) ==
  {n, m} \subseteq Shown(ws) /\ CanConnect(Visible(ws), n, m) /\ EditCanvas(Connected(Visible(ws), n, m, ws.canvas))
Disconnect(e) == EditCanvas([Visible(ws) EXCEPT !.links = Less(@, e)])
CloseCard(n) == EditCanvas(Removed(Visible(ws), {n}))
MoveAgent(a, to) == Perform(Do("agent state", a, to))

Crash == running /\ Fault /\ running' = FALSE /\ UNCHANGED <<ws, base, later, files, prompted, steps>>
Reopen ==
  /\ ~running /\ Recovered # Refused
  /\ ws' = Recovered /\ running' = TRUE
  /\ UNCHANGED <<base, later, files, prompted, steps, faults>>

Init ==
  /\ ws = Start /\ base = Snapshot(Start) /\ later = <<>>
  /\ files = {} /\ prompted = <<>> /\ running = TRUE /\ steps = 0 /\ faults = 0
Next ==
  \/ \E a \in DOMAIN ws.agents : CreateThread(a)
  \/ \E t \in DOMAIN ws.threads :
       \/ \E text \in Texts : EditText(t, text)
       \/ \E x \in Targets(ws) : ToggleMention(t, x)
       \/ \E size \in Sizes, ext \in Extensions :
            Attach(t, size, ext) \/ \E recorded, dies \in BOOLEAN : AttachCut(t, size, ext, recorded, dies)
       \/ \E written \in BOOLEAN : Submit(t, written)
       \/ SubmitCut(t)
  \/ \E n, m \in Cards : ConnectCards(n, m)
  \/ \E e \in DOMAIN Visible(ws).links : Disconnect(e)
  \/ \E n \in Cards \cap Shown(ws) : CloseCard(n)
  \/ \E a \in AgentsOn(ws.canvas), to \in {"running", "waiting"} : MoveAgent(a, to)
  \/ Crash \/ Reopen
Spec == Init /\ [][Next]_vars

-----------------------------------------------------------------------------
\* Reopening gives the workspace that was committed last, conversations, drafts
\* and all, from whichever snapshot it starts; the one exception is a snapshot
\* whose draft holds nothing but blanks, which StoredWorkspace::into_domain
\* leaves out (src/src/persistence/codec.rs).
BlankDraft(w) == \E t \in DOMAIN w.threads : EmptyDraft(w.threads[t].draft) /\ w.threads[t].draft # NoDraft
RecoveryExact == BlankDraft(base.stored) \/ Recovered = ws

\* As long as nothing that a draft or a message mentions was disconnected, the
\* snapshot stored last decodes, so that reopening replays no event: the order of
\* the commands of StoredWorkspace::into_domain satisfies each one's checks.
Contents(w, t) == {w.threads[t].draft} \cup Range(w.threads[t].messages)
MentionsStand(w) == \A t \in DOMAIN w.threads : \A c \in Contents(w, t) : \A x \in c.mentions : Linked(w, w.threads[t].owner, x)
NewestDecodes == MentionsStand(ws) => later = <<>>

\* Every attachment has its file, whatever failed while it was imported, and no
\* attachment is in two messages or in a message and a draft
\* (attach_chat_file and AttachmentStore::import; docs/chat.md, "Attachments").
Backed(f) == <<ws.attachments[f].thread, f, ws.attachments[f].ext>> \in files
FilesSound ==
  /\ \A f \in DOMAIN ws.attachments : Backed(f)
  /\ \A t, u \in DOMAIN ws.threads : \A c \in Contents(ws, t), d \in Contents(ws, u) :
       c # d => c.files \cap d.files = {}

\* What the terminal was given is in the thread, also after a crash, and was
\* given once (docs/chat.md, "Composer and runtime behavior").
PromptsRecorded ==
  /\ \A i, j \in DOMAIN prompted : i # j => prompted[i] # prompted[j]
  /\ Recovered # Refused => Range(prompted) \subseteq {m.id : m \in Sent(Recovered)}

\* A conversation can always be reopened, as its draft was (docs/chat.md, "Boundary").
ChatReopens == Recovered # Refused
=============================================================================
