CONSTANTS
  Calls = {c1}
  Ticks = {t1}
  Heals = {h1}
  NoCall = NoCall
  Ops = {"start", "stop"}
  Kind = "plain"
  ReloadModes = {"UDP"}
  Faults = {}
  Limit = 1
SPECIFICATION Spec
INVARIANT SysChannelKept
