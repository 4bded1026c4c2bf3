SPECIFICATION HandoffsSpec
CONSTANTS
  NumAgents = 2
  Sends = {1}
  From <- TaskFrom
  To <- TaskTo
  IsTask <- TaskKind
  Timeout <- TaskTimeout
  Posts <- TaskPosts
  Window = 1
  MaxShift = 0
  MaxUserHandoffs = 1
  Capacity = 2
  FaultKinds = {"crash", "db"}
  MaxFaults = 2
  Archivable = {}
  UserActions = {"cancel", "resume", "retry"}
INVARIANTS
  TasksSound MailboxesServe RoutinePromptOnce RecordsRestore
CHECK_DEADLOCK FALSE
