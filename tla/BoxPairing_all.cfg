CONSTANTS
  Macs = {m1, m2}
  Customers = {c1, c2}
  NoOne = NoOne
  Unauthorized = Unauthorized
  Demo = {c2}
  Channels = {"code", "auto", "prepair", "assign", "authorize", "stray", "revoke", "delete", "unseed"}
  MaxOps = 3
SPECIFICATION FairSpec
INVARIANTS OwnerExists ClaimableUnowned
PROPERTY EventuallyOnline
