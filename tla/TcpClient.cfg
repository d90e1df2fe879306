CONSTANTS
  Runs = {r1, r2, r3}
  NoRun = NoRun
  MaxRetries = 2
  MaxAttempts = 3
SPECIFICATION FairSpec
INVARIANTS TypeOK OneSocket GivesUpLast ConnectionsCounted
PROPERTIES AbortIsFinal StartSettles ImplementsConnection
