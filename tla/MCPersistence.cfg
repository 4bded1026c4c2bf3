SPECIFICATION PersistenceSpec
CONSTANTS
  Nothing = Nothing
  MaxVersions = 2
  MaxEdits = 1
  Source <- SourceWorkspace
  Selections <- CardSelections
  Joined = {1, 2}
  MaxPlain = 3
  MaxImports = 1
  Workspaces <- TwoWorkspaces
  Agents = {"a"}
  Directories = {"d1", "d2"}
  MaxEvents = 4
  MaxBatch = 2
  MaxTime = 2
  MaxFailures = 1
  Refused = Refused
  MaxFiles = 2
  MaxTotal = 3
  Start <- SmallWorkspace
  Texts = {"", " ", "p"}
  Sizes = {2}
  Extensions = {"txt"}
  Cards = {1, 2}
  MaxThreads = 2
  MaxSteps = 4
  MaxFaults = 1
INVARIANTS StartsRecover ChatsRecover RoutinesRestore
PROPERTIES StoreImplemented RunEnds DocumentsImport
CHECK_DEADLOCK FALSE
