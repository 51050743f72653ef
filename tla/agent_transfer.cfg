SPECIFICATION CountSpec
CONSTANTS
  k1 = k1  k2 = k2  a = a  b = b
  Keys = {k1}
  Digests = {a, b}
  NoDigest = NoDigest  NoDeployment = NoDeployment  NoKey = NoKey
  Deployments <- Artifacts
  Atomic = TRUE
  MaxArtifact = 3
  CheckpointChunks = 2
  RetainedPayloads = 2
  MaxFindings = 2
  MaxTerm = 3
  MaxRollbacks = 1
INVARIANTS LiveAreaVerified TransferBacked MissingOnlyIfCrowded
