SPECIFICATION FairSpec
CONSTANTS
  ResourceOps = {start}
  NodeAnswers = {"restart"}
  Faults = {"dies_early"}
PROPERTY
  DeadInstanceReplaced
