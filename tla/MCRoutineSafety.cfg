SPECIFICATION Spec
CONSTANTS
  Runs = {1, 2}
  RoutineOf <- ChainRoutine
  Steps = {1, 2, 3}
  RunOf <- ChainRun
  Deps <- ChainDeps
  AgentOf <- ChainAgent
  Claims <- ChainClaims
  MaxAttempts <- ChainAttempts
  Gated = {2}
  Movable = {"b"}
  Closable = {"c"}
  Controls <- ChainControls
  FaultKinds = {"crash", "db"}
  MaxFaults = 2
INVARIANTS
  ReservationsExclusive DispatchJustified WorkReserved
PROPERTY TableSpec
CHECK_DEADLOCK FALSE
