SPECIFICATION MCSpec
CONSTANTS
  c1 = c1
  c2 = c2
  Clients = {c1, c2}
  Tools = {t1}
  None = None
  MaxCalls = 2
  MaxChanges = 1
  MaxLosses = 1
  MaxSwitches = 3
INVARIANTS
  BridgeInv
  EndsAsAsked
PROPERTIES
  BridgeSettles
CHECK_DEADLOCK FALSE
