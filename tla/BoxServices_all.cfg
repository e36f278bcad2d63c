CONSTANTS
  None = None
  Gadgets = {"g1"}
  Devices = {"d1"}
  Destinations = {"x", "y"}
  LearningTime = 1
  MaxTime = 1
  LanMacs = {"m1", "m2"}
  MaxQueue = 2
  MaxOrders = 2
  MaxReboots = 1
  Things = {"d1", "d2"}
  Endpoints = {"x", "y"}
  MaxCaptures = 3
  MaxMishaps = 1
  Events = {"e1", "e2", "e3"}
  MaxPerMin = 1
  Minute = 1
  MaxRetries = 2
  MaxTick = 2
  MaxDays = 1
  MaxConfigs = 2
  MaxDowns = 1
  Sources <- TwoSources
  Editions = {1, 2}
  MaxRefreshes = 2
  Users = {u1, u2}
  LastHost = 3
  MaxPeers = 2
  MaxVpnOrders = 1
  Patrons = {"c1", "c2"}
  Retentions = {0, 1}
  FirstRetention = 1
  ArchiveRetention = 0
  FlowsMax = 1
  ArchiveMax = 2
  Late = 1
  Early = 1
  LastHour = 2
  MaxReports = 2
  MaxWishes = 1
  MaxDeaths = 1
SPECIFICATION ServicesSpec
INVARIANT ServicesAsListed
PROPERTY TimersCatchUp
CHECK_DEADLOCK FALSE
