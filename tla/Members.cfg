SPECIFICATION MCSpec
CONSTANTS
  a = a
  b = b
  x = x
  y = y
  i1 = i1
  i2 = i2
  r1 = r1
  r2 = r2
  Users = {a, b}
  Orgs = {x, y}
  Requests = {r1, r2}
  Invitations = {i1, i2}
  None = None
  MaxOps = 3
INVARIANTS
  MembershipInv
PROPERTIES
  AccessIsLocal
  ActsWithPermission
  RequestsEnd
CHECK_DEADLOCK FALSE
