SPECIFICATION Spec
CONSTANTS
  d1 = d1
  d2 = d2
  b1 = b1
  b2 = b2
  Devices = {d1, d2}
  Bodies = {b1, b2}
  None = None
  Started = TRUE
  MaxOps = 2
  MaxLate = 1
SYMMETRY SyncSymmetry
INVARIANTS
  SyncedIsPublished
PROPERTIES
  NoBlindOverwrite
  WorkIsNeverLost
  ServesVersionedDocs
