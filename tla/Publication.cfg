SPECIFICATION MCSpec
CONSTANTS
  Devices = {d1, d2}
  Users = {ana}
  Orgs = {x, y}
  None = None
  MaxVersion = 3
  MaxSessions = 3
  MaxAsks = 2
  MaxEdicts = 1
  MaxId = 3
  MaxPresses = 2
  MaxRuns = 2
  PageSize = 1
SYMMETRY PublicationSymmetry
INVARIANTS
  PublicationInv
  PublishedUnderThePolicy
  ReadingIsComplete
PROPERTIES
  KnownNeverGoesBack
CHECK_DEADLOCK FALSE
