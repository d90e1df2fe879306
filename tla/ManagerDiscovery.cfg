CONSTANTS
  Calls = {c1, c2}
  NoCall = NoCall
  Runs = {r1, r2}
  NoRun = NoRun
  Infos = {i1, i2}
  NoInfo = NoInfo
  Noise = Noise
  Limits = {0}
  MaxRetries = 2
  MaxAttempts = 2
SPECIFICATION Spec
SYMMETRY Symmetry
INVARIANTS TypeOK OneSocket Answerable
PROPERTIES FoundCloses ImplementsDirectory
