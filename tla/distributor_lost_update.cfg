SPECIFICATION Spec
CONSTANTS
  k1 = k1  g0 = g0  g1 = g1  g2 = g2
  Deployments <- Upgrade
  Rank <- UpgradeRank
  Installed <- Base
  Operations <- UpgradePlans
  Replies <- AnyPeer
  Digests = {g0, g1, g2}
  NoDigest = NoDigest
  NoDeployment = NoDeployment
  Atomic = TRUE
  Declared = TRUE
  MaxSessionErrors = 1
  MaxAttempts = 1
  MaxHistory = 1
  MaxEpoch = 2
  MaxFaults = 1
  MaxOps = 2
PROPERTIES TableAlways
CHECK_DEADLOCK FALSE
