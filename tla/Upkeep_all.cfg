CONSTANTS
  Clients = {"c1", "c2"}
  Protocols = {"udp", "tcp"}
  DefaultProtocol = "udp"
  Missing = Missing
  MaxInstalls = 3
  Domains = {"a", "b"}
  MaxSnapshots = 2
  Urls = {"u", "v"}
  MaxBlocklists = 2
  MaxFetches = 3
  MaxListCalls = 4
  Runs = {1, 2}
  Boxes = {"b1", "b2", "b3"}
  Owner <- OneOwnsOne
  Offline = 3
  Forsaken = 6
  NewlyOff = 1
  Dedup = 3
  MinFleet = 3
  HomeDevices = {"d1", "d2", "d3"}
  Active = 1
  Familiar = 3
  MinSeen = 3
  MaxIncidents = 4
  MaxTurns = 3
  Images <- ThreeImages
  BoxModel = "navy"
  OwnVersion = 1
  Payloads = {"x", "y"}
  NoContent = NoContent
  Torn = Torn
  KeptReports = 2
  KeptChanges = 2
  ShippedEntries = 1
  MaxEdition = 2
  MaxUploads = 2
  MaxAccidents = 2
  MaxTouches = 1
SPECIFICATION CareSpec
INVARIANT RecordsTrue
PROPERTY UpkeepEnds
CHECK_DEADLOCK FALSE
