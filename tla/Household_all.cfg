CONSTANTS
  None = None
  Gadgets = {"kid"}
  Allowances = {1}
  DayLength = 2
  ReportEvery = 2
  MonthLength = 1
  MaxMinute = 3
  MaxEdits = 2
  MaxBytes = 1
  AlarmDevices = {"kid", "tv"}
  Kidlike = {"kid"}
  Gap = 2
  GcAge = 2
  KeptAlarms = 3
  KeptNotes = 1
  QuietHours = {1}
  Mutable = {"activity", "custom_rule"}
  Thresholds = {"quota_80"}
  AnomalyKinds <- OneAnomaly
  Window = 2
  ActivityLimit = 1
  AlarmDayLength = 2
  AlarmMonthLength = 3
  MaxTime = 3
  MaxEvents = 2
  MaxWanted = 1
  MaxSubs = 2
  MaxSwitches = 3
  MaxUpsets = 1
  Users = {u1, u2}
  LastHost = 3
  MaxPeers = 1
  MaxVpnOrders = 4
  Profiles = {"p1", "p2", "vpn"}
  Nameless = "vpn"
  MaxClientOrders = 4
  Sites = {"s1"}
  Leases = {"a", "b"}
  MaxRate = 1
  MaxMarks = 3
  MaxShapes = 5
  Hours = 3
  Days = 2
  SendHour = 1
  DripDays = {1, 2}
  MaxHours = 10
  MaxWishes = 2
  Domains = {"d", "e"}
  Countries = {"x"}
  NoCountry = "none"
  HoursOfDay = 1
  BaselineWindow = 2
  Learning = 2
  MinSamples = 1
  MinHits = 1
  Recent = 2
  MaxDomains = 1
  MaxCountries = 1
  MaxFindings = 1
  Lag = 1
  MaxHour = 5
  MaxFlows = 4
  Week = 3
  MinDays = 3
  MaxUse = 3
SPECIFICATION Spec
INVARIANTS ModeRuns VpnAsListed ShapingTrue
PROPERTIES DayCharged HouseholdTold
CHECK_DEADLOCK FALSE
