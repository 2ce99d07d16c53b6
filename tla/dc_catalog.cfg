SPECIFICATION Spec
CONSTANTS
  Modems = {"own", "stub1", "stub2"}
  NoModem = "nobody"
  Serial <- Serials
  FakeSerials = {"stub"}
  Ports = {"1-1", "1-2"}
  Nodes = {0}
  Unbound = 9
  Gone = "gone"
  MaxEvents = 3
  MaxProbes = 2
  MaxCrashes = 1
INVARIANTS
  NothingInvented
  ReportIsOwn
