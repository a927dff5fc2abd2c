SPECIFICATION FairSpec
CHECK_DEADLOCK FALSE
CONSTANTS
  gw = gw  gs = gs  gu = gu  w1 = w1  w2 = w2  sc = sc
  NoGroup = NoGroup
  Groups = {gw, gs, gu}
  UserGroups = {gu}
  ScoutGroup <- PlainScout
  Pods = {w1, w2}
  GroupOf <- PlainGroupOf
  UngatedBy <- NoGates
  Successors = {}
  MinCount <- PlainMinCount
  EarlyDelete = FALSE
  MaxFaults = 1
  MaxMissed = 1
PROPERTIES
  
  FinishedGangReleased
  AdmittedGangStarts
