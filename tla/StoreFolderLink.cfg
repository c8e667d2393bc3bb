SPECIFICATION MCSpec
CONSTANTS
  o1 = o1
  o2 = o2
  m1 = m1
  m2 = m2
  m3 = m3
  p1 = p1
  p2 = p2
  c1 = c1
  f1 = f1
  b1 = b1
  b2 = b2
  Orgs = {o1}
  Members = {m1, m2}
  OrgOf <- OneTenant
  Projects = {p1}
  Bodies = {b1, b2}
  Clients = {c1}
  Folders = {f1}
  None = None
  MaxVersion = 3
  MaxDirVersion = 2
SYMMETRY DirectorySymmetry
INVARIANTS
  NoLinkToDeletedFolder
