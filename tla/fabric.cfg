SPECIFICATION FairSpec
CONSTANTS
  k1 = k1  g1 = g1  g2 = g2
  Deployments <- Upgrade
  Rank <- UpgradeRank
  Operations <- Plans
  Replies = {}
  Installed <- Old
  Digests = {g1, g2}
  NoDigest = NoDigest
  NoDeployment = NoDeployment
  Keys = {k1}
  NoKey = NoKey
  Atomic = FALSE
  Declared = FALSE
  MaxSessionErrors = 1
  MaxAttempts = 3
  MaxHistory = 1
  MaxArtifact = 1
  CheckpointChunks = 1
  RetainedPayloads = 2
  MaxFindings = 2
  MaxRollbacks = 9
  MaxTerm = 2
  MaxEpoch = 2
  MaxFaults = 1
  MaxOps = 1
INVARIANTS ClaimedWasLive ConvergedIsRunning
PROPERTIES EveryPlanConverges
CHECK_DEADLOCK FALSE
