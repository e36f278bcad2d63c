CONSTANTS
  Policies = {p1, p2}
  Scheduled = {p1}
  NoPolicy = NoPolicy
  NoEtag = NoEtag
  Versions = {0}
  Ticks = {t1}
  Faults = {"outage"}
  MaxChanges = 1
  MaxMishaps = 1
SPECIFICATION FairSpec
PROPERTY WindowUnblocks
