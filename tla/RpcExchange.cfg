CONSTANTS
  Requests = {q1, q2, q3}
  Apis = {"register", "report", "basal", "invalid"}
  Faults = {"coalesce", "network"}
  MaxPort = 2
  MaxLosses = 1
  Keep = 2
  NoRequest = NoRequest
SPECIFICATION FairSpec
INVARIANTS TypeOK AnswerFindsCall RegisteredAfterAck ReportsLatest SurvivesSteady
PROPERTIES ImplementsCall AnswersReturn
CHECK_DEADLOCK FALSE
