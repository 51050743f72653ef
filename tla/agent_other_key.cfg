SPECIFICATION AgentSpec
CONSTANTS
  k1 = k1  k2 = k2  a = a  b = b
  Keys = {k1, k2}
  Digests = {a, b}
  NoDigest = NoDigest  NoDeployment = NoDeployment  NoKey = NoKey
  Deployments <- Twins
  Atomic = TRUE
  MaxArtifact = 1
  CheckpointChunks = 2
  RetainedPayloads = 4
  MaxFindings = 1
  MaxTerm = 1
  MaxRollbacks = 1
INVARIANTS AckedIsLive
