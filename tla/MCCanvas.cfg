SPECIFICATION CanvasSpec
CONSTANTS
  FloorIds = {0, 1}
  Original = 0
  MaxAgents = 2
  MaxNodes = 2
  MaxEdits = 3
  MaxStarts = 2
  MaxOutputs = 1
  MaxResets = 1
  Places = {"main", "floor", "other"}
  WorkspaceOf <- TwoWorkspaces
  Nodes = {"n", "m"}
  Home <- NoteHomes
  Typed = {"t"}
  Written = {"x", Missing, Unreadable}
  Unreadable = Unreadable
  Nothing = Nothing
  Missing = Missing
  Empty = Empty
  MaxNoteEdits = 1
  MaxWrites = 2
  MaxMoves = 2
  MaxSaves = 1
INVARIANT WindowsHold
PROPERTIES
  HistoryHolds NotesKept
CHECK_DEADLOCK FALSE
