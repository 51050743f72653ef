SPECIFICATION Spec
CONSTANTS
  c1 = c1  c2 = c2  a1 = a1  a2 = a2
  Controllers = {c1, c2}
  Agents = {a1, a2}
  Nobody = Nobody
  MaxStarts = 6
SYMMETRY Processes
INVARIANTS TypeOK OneControllerPerEpoch OneTargetPerTerm SessionAgrees
CHECK_DEADLOCK FALSE
