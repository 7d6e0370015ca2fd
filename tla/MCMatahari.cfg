SPECIFICATION FairSpec
CONSTANTS
  v1 = v1
  v2 = v2
  h1 = h1
  s1 = s1
  h2 = h2
  r1 = r1
  None = None
  Agents = {h1, s1, h2}
  Serves <- OldAndNew
  Requests = {r1}
  Target <- Classes
  NodeAnswers <- BothAnswers
  SeqMod = 2
  MaxAdds = 3
  MaxStrays = 1
INVARIANTS
  TypeOK
  SentCallsSafe
  RequestsReferenced
  AgentPointersValid
  RunningIsChecked
PROPERTIES
  FailureHasCause
  SilenceNoticed
  SentCallAnswered
CHECK_DEADLOCK FALSE
