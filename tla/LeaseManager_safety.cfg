SPECIFICATION Spec
CONSTANTS
  Lease = {l1, l2, l3}
  Job = {j1, j2}
  Worker = {w1, w2}
  Key = {k1}
  None = None
  MaxRenewals = 1
SYMMETRY IdSymmetry
CHECK_DEADLOCK FALSE
INVARIANTS TypeOK IndexesSound
PROPERTIES EndedStaysEnded RevokedWorkerHoldsNothing
