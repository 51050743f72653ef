SPECIFICATION Spec
CONSTANTS
  small = small  large = large  t1 = t1  t2 = t2
  Digests = {large}
  NoDigest = NoDigest
  Size <- ThreeChunks
  MaxTotalBytes = 3
  MaxArtifacts = 1
  Threads = {t1}
INVARIANTS IntactIsServed
