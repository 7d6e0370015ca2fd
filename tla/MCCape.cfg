SPECIFICATION Spec
CONSTANTS
  a1 = a1
  a2 = a2
  r1 = r1
  r2 = r2
  Assemblies = {a1, a2}
  Resources = {r1}
  Home <- HomeOne
  ResourceAnswers <- BothAnswers
  NodeAnswers <- BothAnswers
  ErrorCodes <- BothErrors
  Faults = {"service_dies", "node_fails", "plan_stale", "ops_lost"}
  MaxFaults = 3
  MaxJobs = 2
  MaxOps = 3
INVARIANTS
  TypeOK
  HoldersReferenced
  OwnTransition
  OneMonitor
  HistoryOfInstance
  NothingForgotten
  MonitorsStopped
PROPERTIES
  UsesTransport
CHECK_DEADLOCK FALSE
