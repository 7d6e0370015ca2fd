SPECIFICATION FairSpec
CONSTANTS
  ResourceOps = {start, monitor}
  NodeAnswers = {"restart"}
  Faults <- MCOpenFail
PROPERTIES
  DeadInstanceReplaced
  QueueDrains
