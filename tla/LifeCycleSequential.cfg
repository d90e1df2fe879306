CONSTANTS
  Calls = {c1}
  Ticks = {t1}
  Heals = {h1}
  NoCall = NoCall
  Ops = {"activate", "halt", "reload", "restart", "shutdown", "start", "stop"}
  Kind = "api"
  ReloadModes = {"UDP"}
  Faults = {}
  Limit = 1
SPECIFICATION FairSpec
INVARIANTS TypeOK HandlersOnce TimersOwned ShutdownQuiet
PROPERTIES ImplementsService CallsReturn ManagerRegained
