CONSTANTS
  Calls = {c1, c2}
  NoCall = NoCall
  Infos = {i1}
  Noise = Noise
  Limits = {0, 2}
  MaxRetries = 2
  MaxAttempts = 2
SPECIFICATION FairSpec
PROPERTY TimeoutSettles
CHECK_DEADLOCK FALSE
