SPECIFICATION MCSpec
CONSTANTS
  d1 = d1
  d2 = d2
  b1 = b1
  b2 = b2
  Devices = {d1}
  Bodies = {b1, b2}
  None = None
  Started = FALSE
  MaxOps = 3
  MaxLate = 1
PROPERTIES
  DevicesConverge
