CONSTANTS
  Calls = {c1, c2}
  Ticks = {}
  Heals = {h1}
  NoCall = NoCall
  Ops = {"start", "shutdown", "register"}
  Kind = "plain"
  ReloadModes = {"UDP"}
  Faults = {"probe", "connect"}
  Limit = 1
SPECIFICATION Spec
SYMMETRY Symmetry
INVARIANTS DiscoveryExclusive RegisterExclusive ManagerWatched
