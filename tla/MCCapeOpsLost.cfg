SPECIFICATION FairSpec
CONSTANTS
  a1 = a1
  a2 = a2
  r1 = r1
  r2 = r2
  Assemblies = {a1}
  Resources = {r1}
  Home <- HomeOne
  ResourceAnswers = {"restart"}
  NodeAnswers = {"restart"}
  ErrorCodes = {}
  Faults = {"ops_lost"}
  MaxFaults = 1
  MaxJobs = 2
  MaxOps = 2
PROPERTY
  NodeAndResourceRestarted
