CONSTANTS
  Requests = {q1, q2}
  Apis = {"register", "report", "basal", "invalid", "unknown"}
  Faults = {}
  MaxPort = 1
  MaxLosses = 0
  Keep = 2
  NoRequest = NoRequest
SPECIFICATION Spec
SYMMETRY Symmetry
INVARIANT ErrorAnswered
CHECK_DEADLOCK FALSE
