SPECIFICATION FairSpec
CONSTANTS
  a1 = a1
  a2 = a2
  r1 = r1
  r2 = r2
  Assemblies = {a1}
  Resources = {r1, r2}
  Home <- HomeTwo
  ResourceAnswers = {"restart"}
  NodeAnswers = {"restart"}
  ErrorCodes = {}
  Faults = {"service_dies", "node_fails"}
  MaxFaults = 2
  MaxJobs = 2
  MaxOps = 2
PROPERTIES
  NodeAndResourceRestarted
  ResourceRestarted
  RunningGetsMonitored
