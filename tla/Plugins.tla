-------------------------------- MODULE Plugins --------------------------------
(***************************************************************************)
(* The plugin catalog (plugins/catalog.rs) and a plugin session            *)
(* (plugins/protocol.rs): what is discovered and granted, and the exchange *)
(* with the child process, which may answer late, twice, wrongly or never. *)
(* Nothing in the application calls them yet: the callers are any.         *)
(***************************************************************************)
EXTENDS Integers, Sequences, FiniteSets

CONSTANTS
  Folders,         \* <<folders of the plugin roots, in path order>>
  Ids,             \* plugin identifiers manifests may claim
  Capabilities,    \* operations a plugin may declare and be granted
  Nothing, Invalid,   \* no record, call, session; a manifest that is not valid
  MaxEdits, MaxGrants, MaxSessions, MaxRequests, MaxReplies   \* bounds

VARIABLES
  disk,        \* the plugin.json of each folder: a manifest, Invalid, Nothing
  records,     \* PluginCatalog: the record of each identifier, or Nothing
  consented,   \* what the user granted to the code of a folder under an identifier
  session,     \* the PluginSession, Nothing when there is none
  edits, grants, sessions   \* bounds used up

vars == <<disk, records, consented, session, edits, grants, sessions>>

Positions == DOMAIN Folders
Manifests == [id : Ids, compatible : BOOLEAN, declares : SUBSET Capabilities]

-----------------------------------------------------------------------------
(* The catalog *)

\* load_record: a valid manifest makes a record that is not enabled.
Loaded(at) ==
  [folder |-> at, manifest |-> disk[at], granted |-> {},
   state |-> IF disk[at].compatible THEN "disabled" ELSE "incompatible"]

\* Faulty variant: grants pass to any code that claims the identifier.
CarriedById(record, existing) ==
  IF existing = Nothing THEN record
  ELSE [record EXCEPT !.granted = existing.granted \cap record.manifest.declares,
          !.state = IF existing.state = "enabled" /\ record.manifest.compatible THEN "enabled" ELSE @]

\* An update in place keeps the grants it still declares, and stays enabled.
Carried(record, existing) ==
  IF existing = Nothing \/ existing.folder # record.folder THEN record
  ELSE [record EXCEPT !.granted = existing.granted \cap record.manifest.declares,
          !.state = IF existing.state = "enabled" /\ record.manifest.compatible THEN "enabled" ELSE @]

\* The folder whose invalid manifest had a valid record before.
Retained(id) ==
  {at \in Positions : disk[at] = Invalid /\ records[id] # Nothing /\ records[id].folder = at}

\* refresh: per identifier, the first valid folder; a retained record is put
\* over it when its folder comes later, and is the first when it comes before.
Refreshed(id) ==
  LET valid == {at \in Positions : disk[at] \in Manifests /\ disk[at].id = id} IN
  IF Retained(id) # {} THEN records[id]
  ELSE IF valid = {} THEN Nothing
  ELSE Carried(Loaded(CHOOSE at \in valid : \A other \in valid : at <= other), records[id])

Refresh ==
  /\ records' = [id \in Ids |-> Refreshed(id)]
  /\ UNCHANGED <<disk, consented, session, edits, grants, sessions>>

\* Somebody installs, updates, breaks or removes a plugin.
EditFolder ==
  /\ edits < MaxEdits /\ edits' = edits + 1
  /\ \E at \in Positions, content \in Manifests \cup {Invalid, Nothing} :
       disk' = [disk EXCEPT ![at] = content]
  /\ UNCHANGED <<records, consented, session, grants, sessions>>

\* enable, with grants the manifest declares.
Enable(id) ==
  /\ records[id] # Nothing /\ records[id].manifest.compatible
  /\ grants < MaxGrants /\ grants' = grants + 1
  /\ \E grant \in SUBSET records[id].manifest.declares :
       /\ records' = [records EXCEPT ![id].granted = grant, ![id].state = "enabled"]
       /\ consented' = [consented EXCEPT ![<<records[id].folder, id>>] = grant]
  /\ UNCHANGED <<disk, session, edits, sessions>>

\* disable; a session that was started goes on.
Disable(id) ==
  /\ records[id] # Nothing
  /\ records' = [records EXCEPT ![id].granted = {},
       ![id].state = IF records[id].manifest.compatible THEN "disabled" ELSE "incompatible"]
  /\ consented' = [consented EXCEPT ![<<records[id].folder, id>>] = {}]
  /\ UNCHANGED <<disk, session, edits, grants, sessions>>

-----------------------------------------------------------------------------
(* The session *)

\* start: the process, and host_hello as the first exchange.
Start(id) ==
  /\ session = Nothing /\ sessions < MaxSessions /\ sessions' = sessions + 1
  /\ records[id] # Nothing /\ records[id].state = "enabled"
  /\ session' = [granted |-> records[id].granted, next |-> 1, quarantined |-> FALSE, alive |-> TRUE,
                 call |-> [id |-> 0, op |-> "hello", writing |-> FALSE], read |-> {}, replies |-> <<>>,
                 outcome |-> Nothing]
  /\ UNCHANGED <<disk, records, consented, edits, grants>>

\* quarantine, with stop_child.
Quarantined(s) == [s EXCEPT !.quarantined = TRUE, !.alive = FALSE, !.call = Nothing]

\* invoke_command, prepare_adapter, deliver_event, provide_settings: a granted
\* operation takes the next request number and is written.  A message of some
\* size is held up until the plugin reads; one beyond the limit is not sent.
Invoke(op) ==
  /\ session # Nothing /\ session.call = Nothing
  /\ op \in session.granted /\ ~session.quarantined /\ session.next <= MaxRequests
  /\ \/ session' = [session EXCEPT !.next = @ + 1, !.outcome = Nothing]
     \/ \E large \in BOOLEAN :
          session' = [session EXCEPT !.next = @ + 1, !.outcome = Nothing,
                        !.call = [id |-> session.next, op |-> op, writing |-> large]]
  /\ UNCHANGED <<disk, records, consented, edits, grants, sessions>>

\* The plugin reads the request.
PluginReads ==
  /\ session # Nothing /\ session.alive /\ session.call # Nothing
  /\ [id |-> session.call.id, op |-> session.call.op] \notin session.read
  /\ session' = [session EXCEPT !.read = @ \cup {[id |-> session.call.id, op |-> session.call.op]},
                   !.call.writing = FALSE]
  /\ UNCHANGED <<disk, records, consented, edits, grants, sessions>>

\* The plugin writes a line: an answer to a request it has read, however long
\* ago and whether answered or not, or something it must not write.
Lines == {"answer", "proposal", "error", "other", "malformed"}
PluginWrites ==
  /\ session # Nothing /\ session.alive /\ Len(session.replies) < MaxReplies
  /\ \E request \in session.read, kind \in Lines, needs \in Capabilities :
       session' = [session EXCEPT !.replies =
                     Append(@, [id |-> request.id, op |-> request.op, kind |-> kind, needs |-> needs])]
  /\ UNCHANGED <<disk, records, consented, edits, grants, sessions>>

PluginExits ==
  /\ session # Nothing /\ session.alive
  /\ session' = [session EXCEPT !.alive = FALSE]
  /\ UNCHANGED <<disk, records, consented, edits, grants, sessions>>

\* exchange, the match on the response, and validate_actions: what is not an
\* answer to this request, or proposes what was not granted, ends the session.
Taken(s, reply) ==
  IF \/ reply.kind \in {"other", "malformed"} \/ reply.id # s.call.id
     \/ reply.kind = "proposal" /\ (s.call.op = "hello" \/ reply.needs \notin s.granted)
     \/ reply.kind = "error" /\ s.call.op = "hello"
  THEN Quarantined(s)
  ELSE [s EXCEPT !.call = Nothing, !.replies = Tail(@),
          !.outcome = IF reply.kind = "error" THEN Nothing ELSE [to |-> s.call, reply |-> reply]]

\* A handshake that fails leaves no session behind.
Kept(s) == IF s.quarantined /\ session.call.op = "hello" THEN Nothing ELSE s

Receive ==
  /\ session # Nothing /\ session.call # Nothing /\ ~session.call.writing
  /\ session.replies # <<>>
  /\ session' = Kept(Taken(session, Head(session.replies)))
  /\ UNCHANGED <<disk, records, consented, edits, grants, sessions>>

\* Faulty variant: without a time limit only the end of the plugin is noticed.
EndOnly(s) == ~s.alive

\* recv_timeout: the time is over, or the reader has met the end of the output.
MayEnd(s) == TRUE

\* No response in time, the plugin exited, or the write failed.
TimesOut ==
  /\ session # Nothing /\ session.call # Nothing
  /\ session.call.writing => ~session.alive
  /\ session.replies = <<>> /\ MayEnd(session)
  /\ session' = Kept(Quarantined(session))
  /\ UNCHANGED <<disk, records, consented, edits, grants, sessions>>

\* shutdown, or the session is dropped.
Shutdown ==
  /\ session # Nothing /\ session.call = Nothing
  /\ session' = Nothing
  /\ UNCHANGED <<disk, records, consented, edits, grants, sessions>>

Init ==
  /\ disk = [at \in Positions |-> Nothing]
  /\ records = [id \in Ids |-> Nothing]
  /\ consented = [pair \in Positions \X Ids |-> {}]
  /\ session = Nothing /\ edits = 0 /\ grants = 0 /\ sessions = 0

Next ==
  \/ Refresh \/ EditFolder
  \/ \E id \in Ids : Enable(id) \/ Disable(id) \/ Start(id)
  \/ \E op \in Capabilities : Invoke(op)
  \/ PluginReads \/ PluginWrites \/ PluginExits \/ Receive \/ TimesOut \/ Shutdown

-----------------------------------------------------------------------------
(* Properties *)

\* Code never has a grant the user did not give to the code in that folder,
\* whatever identifier it claims and however folders are exchanged, broken and
\* repaired between refreshes (catalog.rs, refresh), and none it does not declare.
GrantsConsented ==
  \A id \in Ids : records[id] # Nothing =>
    /\ records[id].granted \subseteq consented[<<records[id].folder, id>>] \cap records[id].manifest.declares
    /\ records[id].state = "enabled" => records[id].manifest.compatible

\* What a caller is handed answers its own request, although the plugin may
\* answer an earlier one late or twice (protocol.rs, exchange), and a session
\* that failed once hands out nothing.
AnswersBelong ==
  session # Nothing /\ session.outcome # Nothing =>
    session.outcome.reply.id = session.outcome.to.id /\ session.outcome.reply.op = session.outcome.to.op

\* A plugin has what the user consented to, and a caller the answer to its call.
PluginsSafe == GrantsConsented /\ AnswersBelong

\* Every call comes to an end, whatever the plugin does, once it is written:
\* nothing bounds the time the write of a large request takes.
CallsEnd ==
  []((session # Nothing /\ session.call # Nothing) =>
       <>(session = Nothing \/ session.call = Nothing \/ session.call.writing))
=============================================================================
