SPECIFICATION PeersSpec
CONSTANTS
  Deltas = {"event"}
  Commands = {"prompt", "cancel"}
  MaxOutbox = 2
  MaxSent <- TwoCommands
  MaxNonce <- FewPackets
  FaultKinds = {"crash", "db", "garbled", "refused"}
  MaxFaults = 1
  Folders <- TwoFolders
  Ids = {"x"}
  Capabilities = {"commands"}
  Nothing = Nothing
  Invalid = Invalid
  MaxEdits = 3
  MaxGrants = 1
  MaxSessions = 1
  MaxRequests = 1
  MaxReplies = 1
INVARIANTS
  SessionSound PluginsSafe
PROPERTIES
  StreamsReliable PeersServe
CHECK_DEADLOCK FALSE
