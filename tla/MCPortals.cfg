SPECIFICATION PortalsSpec
CONSTANTS
  Agents = {"a"}
  Targets = {"u", "v"}
  Home = "u"
  Requests <- MixedRequests
  MaxPortals = 1
  MaxEvents = 2
  Texts = {"a", "b"}
  Nothing = Nothing
  MaxRecords = 3
  MaxChanges = 2
  MaxObservations = 2
  MaxViews = 2
INVARIANTS
  ExecutedAtMostOnce PortalsKept ViewsHold
PROPERTY ActsWithConsent
CHECK_DEADLOCK FALSE
