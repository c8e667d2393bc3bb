SPECIFICATION MCSpec
CONSTANTS
  d1 = d1
  d2 = d2
  u1 = u1
  u2 = u2
  b1 = b1
  b2 = b2
  None = None
  Users = {u1, u2}
  Bodies = {b1, b2}
  Devices = {d1, d2}
  Settings <- FiveSettings
  MaxLate = 1
INVARIANTS
  DirectoryInv
PROPERTIES
  NothingBlind
  WorkSurvives
  PrivateStaysTheirs
  DeletionIsDurable
  EverythingSettles
