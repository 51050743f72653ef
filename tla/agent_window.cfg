SPECIFICATION AgentSpec
CONSTANTS
  k1 = k1  k2 = k2  a = a  b = b
  Keys = {k1}
  Digests = {a, b}
  NoDigest = NoDigest  NoDeployment = NoDeployment  NoKey = NoKey
  Deployments <- Rivals
  Atomic = FALSE
  MaxArtifact = 1
  CheckpointChunks = 2
  RetainedPayloads = 4
  MaxFindings = 1
  MaxTerm = 2
  MaxRollbacks = 1
INVARIANTS PointerNamesPayload RecordFollowsPointer AckedIsLive
PROPERTIES GenerationMonotone EvidenceKept
