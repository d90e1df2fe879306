CONSTANTS
  Runs = {r1, r2, r3}
  NoRun = NoRun
  Peers = {p1, p2}
  MaxRetries = 2
  MaxAttempts = 3
SPECIFICATION FairSpec
INVARIANTS TypeOK OneServer ConnectionsCounted
PROPERTIES ImplementsConnection StopsReturn
CHECK_DEADLOCK FALSE
