SPECIFICATION Spec
CONSTANTS
  ResourceOps = {start, monitor}
  NodeAnswers <- BothAnswers
  Faults <- FaultKinds
INVARIANTS
  TypeOK
  OneDriver
  CallbacksMatchSession
  OneExecution
  TimersMatchQueue
  RunningIsWatched
PROPERTIES
  ImplementsTransport
