------------------------------- MODULE MCPeers --------------------------------
(***************************************************************************)
(* Peers at the other end of a wire, two small instances explored in one   *)
(* run: a paired device (RemoteSession) and a plugin process with the      *)
(* catalog that admits it (Plugins).  "part" says which of the two a       *)
(* behaviour is about; the other one stands still.                         *)
(***************************************************************************)
EXTENDS RemoteSession, TLC

CONSTANTS
  Folders, Ids, Capabilities, Nothing, Invalid,
  MaxEdits, MaxGrants, MaxSessions, MaxRequests, MaxReplies   \* Plugins

\* The folders are a sequence.
ASSUME FoldersAssumption == Len(Folders) \in Nat /\ DOMAIN Folders = 1..Len(Folders)

VARIABLES part, disk, records, consented, pluginSession, edits, grants, sessions

Plugin == INSTANCE Plugins WITH session <- pluginSession
pluginVars == <<disk, records, consented, pluginSession, edits, grants, sessions>>

\* The device sends two commands, which may be the same one; the host one delta.
TwoCommands == "device" :> 2 @@ "host" :> 1
FewPackets == "device" :> 2 @@ "host" :> 1
TwoFolders == <<"f1", "f2">>

PeersInit == part \in {"device", "plugin"} /\ Init /\ Plugin!Init

PeersNext ==
  /\ UNCHANGED part
  /\ \/ part = "device" /\ Next /\ UNCHANGED pluginVars
     \/ part = "plugin" /\ Plugin!Next /\ UNCHANGED vars

\* Both ends of a connection run and the relay delivers (RemoteSession); the
\* reader of a plugin's answers or the timeout of a call acts.
PeersFairness ==
  /\ \A p \in Ends :
       /\ WF_vars(part = "device" /\ Reconnect(p)) /\ WF_vars(part = "device" /\ CommitDelivery(p))
       /\ SF_vars(part = "device" /\ \E k \in net : k.seq = ckpt[p].committed + 1 /\ Receive(p, k))
  /\ WF_vars(part = "device" /\ Handle)
  /\ WF_pluginVars(part = "plugin" /\ (Plugin!Receive \/ Plugin!TimesOut))

PeersSpec == PeersInit /\ [][PeersNext]_<<part, vars, pluginVars>> /\ PeersFairness

\* A plugin holds what the user consented to for its code, and each call gets
\* its own answer (plugins/catalog.rs, plugins/protocol.rs).
PluginsSafe == Plugin!PluginsSafe

\* What a device and the host recorded for each other arrives, and every call
\* of a plugin ends (remote/session.rs, plugins/protocol.rs).
PeersServe == EventuallyDelivered /\ Plugin!CallsEnd
=============================================================================
