CONSTANTS
  Policies = {p1, p2}
  Scheduled = {p1}
  NoPolicy = NoPolicy
  NoEtag = NoEtag
  Versions = {0}
  Ticks = {t1, t2}
  Faults = {"outage", "reboot", "restart", "state", "cache", "qos"}
  MaxChanges = 2
  MaxMishaps = 2
SPECIFICATION FairSpec
PROPERTIES UnchangedIsTrue FailSafeKeeps Converges NeverLeftOpen WindowBlocks
