SPECIFICATION AgentSpec
CONSTANTS
  k1 = k1  k2 = k2  a = a  b = b
  Keys = {k1}
  Digests = {a, b}
  NoDigest = NoDigest  NoDeployment = NoDeployment  NoKey = NoKey
  Deployments <- Series
  Atomic = TRUE
  MaxArtifact = 1
  CheckpointChunks = 2
  RetainedPayloads = 3
  MaxFindings = 1
  MaxTerm = 2
  MaxRollbacks = 1
INVARIANTS PointerNamesPayload
