SPECIFICATION Spec
CHECK_DEADLOCK FALSE
CONSTANTS
  gw = gw  gs = gs  gu = gu  w1 = w1  w2 = w2  sc = sc
  NoGroup = NoGroup
  Groups = {gw, gs}
  UserGroups = {}
  ScoutGroup <- SharedScout
  Pods = {w1, w2, sc}
  GroupOf <- SharedGroupOf
  UngatedBy <- SharedGates
  Successors = {}
  MinCount <- SharedMinCount
  EarlyDelete = TRUE
  MaxFaults = 1
  MaxMissed = 0
INVARIANTS
  TypeOK
  WorkersBacked
PROPERTIES
  LiveMemberKeepsGang
