SPECIFICATION DamageFairSpec
CONSTANTS
  k1 = k1  k2 = k2  a = a  b = b
  Keys = {k1, k2}
  Digests = {a, b}
  NoDigest = NoDigest  NoDeployment = NoDeployment  NoKey = NoKey
  Deployments <- OnePerKey
  Atomic = FALSE
  MaxArtifact = 1
  CheckpointChunks = 1
  RetainedPayloads = 1
  MaxFindings = 2
  MaxTerm = 3
  MaxRollbacks = 2
INVARIANTS AgentTypeOK
PROPERTIES SwitchInsideWindow RecoveryClosesWindow ClaimIsIntact ServesAgain
