SPECIFICATION FairSpec
CONSTANTS
  v1 = v1
  v2 = v2
  h1 = h1
  s1 = s1
  h2 = h2
  r1 = r1
  None = None
  Agents = {v1, v2}
  Serves <- OldAndNew
  Requests = {r1}
  Target <- Classes
  NodeAnswers <- RestartOnly
  SeqMod = 2
  MaxAdds = 2
  MaxStrays = 1
PROPERTIES
  OperationAnswered
CHECK_DEADLOCK FALSE
