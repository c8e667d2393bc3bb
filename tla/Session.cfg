SPECIFICATION MCSpec
CONSTANTS
  a = a
  b = b
  x = x
  y = y
  l1 = l1
  l2 = l2
  Users = {a, b}
  Orgs = {x, y}
  Callers = {c1, c2}
  Attempts = {l1, l2}
  None = None
  MaxActs = 3
  MaxDays = 2
  MaxEdicts = 1
INVARIANTS
  SessionInv
  SlotIsFreed
PROPERTIES
  FollowsTheUser
  RenewalsResume
CHECK_DEADLOCK FALSE
