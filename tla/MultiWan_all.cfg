CONSTANTS
  a = a
  b = b
  g1 = g1
  g2 = g2
  g3 = g3
  d1 = d1
  Names <- TwoNames
  NoWan = NoWan
  Balanced = Balanced
  Gateways <- ThreeGateways
  NoGateway = NoGateway
  Tables <- TwoTables
  Settings <- SomeSettings
  Devices <- OneDevice
  MaxWans = 2
  FailThreshold = 2
  RecoverThreshold = 2
  Faults = {"refused", "link", "foreign", "restart"}
  MaxCommands = 3
  MaxMishaps = 1
SPECIFICATION FairSpec
INVARIANTS DefaultFollows PathAsPinned
PROPERTIES Hysteresis RouteNeverDropped FailsOver
CHECK_DEADLOCK FALSE
