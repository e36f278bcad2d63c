CONSTANTS
  Customers = {"c1"}
  Emails = {"e1", "e2"}
  Addresses = {"a1"}
  Tickets = {"t1", "t2"}
  Gone = Gone
  Unborn = Unborn
  RecoveryCodes = 1
  MaxAttempts = 1
  AttemptWindow = 1
  MaxShares = 1
  SessionLife = 2
  SupportLife = 1
  ShareSession = 1
  MagicLife = 1
  LinkKept = 1
  InviteLife = 1
  EmailLife = 1
  ShareLife = 1
  MaxTime = 2
  MaxSecrets = 2
  MaxRequests = 4
  Admins = {"a1"}
  Keys = {"k1"}
  NoOne = NoOne
  MaxLog = 2
  KeptLog = 1
  MaxActs = 3
  MaxCrashes = 2
  Eids = {"box", "app"}
  Gids = {"g1"}
  NoEid = NoEid
  NoGroup = NoGroup
  NoInvite = NoInvite
  NoLicence = NoLicence
  MaxKeys = 2
  MaxGroups = 1
  Peers = {"box"}
  MaxRelay = 2
  KeptRelay = 1
  Page = 1
  MaxSent = 4
  MaxMs = 2
  BoxMacs = {"m1"}
  MaxLicences = 2
  MaxStops = 1
SPECIFICATION Spec
INVARIANTS AccessRight AuditTells
CHECK_DEADLOCK FALSE
