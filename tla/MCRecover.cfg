SPECIFICATION Spec
CONSTANTS
  NoNumber = NoNumber
  IntHalf <- MCIntHalf
  FailureArgs <- MCFailureArgs
  PeriodArgs <- MCPeriodArgs
  MaxTime = 7
  MaxFailures = 5
INVARIANTS
  TypeOK
  RingHoldsFailures
  RestartsSpaced
PROPERTY RefinesPolicy
