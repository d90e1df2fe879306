CONSTANTS
  Calls = {c1, c2}
  Ticks = {}
  Heals = {}
  NoCall = NoCall
  Ops = {"activate", "halt", "restart", "shutdown", "start"}
  Kind = "manager"
  ReloadModes = {"None"}
  Faults = {"listen"}
  Limit = 1
SPECIFICATION ManagerSpec
SYMMETRY Symmetry
INVARIANTS ManagerTypeOK HaltCloses RunningAnnounced StoppedSilent
