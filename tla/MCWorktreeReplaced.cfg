SPECIFICATION WorkbenchSpec
CONSTANTS
  Parts = {"floors"}
  Capacity = 2
  PtyOutput = 2
  PtyInput = 1
  MaxOutput = 5
  MaxWrites = 3
  Paths = {"p"}
  Nodes = {"n"}
  Branches = {"x", "y"}
  NewBranches = {"x"}
  MaxFloors = 2
  MaxChanges = 2
  MaxSwitches = 1
  MaxEdits = 2
  Directories = {"a", "b"}
  Unset = Unset
  MaxMoves = 1
  MaxFileChanges = 1
  MaxFailures = 1
  MaxScans = 2
PROPERTIES
  RevokedStays
CHECK_DEADLOCK FALSE
