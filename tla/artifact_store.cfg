SPECIFICATION Spec
CONSTANTS
  small = small  large = large  t1 = t1  t2 = t2
  Digests = {small, large}
  NoDigest = NoDigest
  Size <- TwoSizes
  MaxTotalBytes = 2
  MaxArtifacts = 2
  Threads = {t1, t2}
SYMMETRY AnyThread
INVARIANTS TypeOK Accounting BudgetKept PublishedIsKept
