SPECIFICATION Spec
CHECK_DEADLOCK FALSE
CONSTANTS
  a = a  b = b  a1 = a1  a2 = a2  b1 = b1
  n1 = n1  n2 = n2  s1 = s1  s2 = s2  s3 = s3
  Groups = {a, b}
  Grouped = {a}
  Pods = {a1, b1}
  GroupOf <- SoloGroupOf
  Leaders = {a1}
  Gated = {}
  MinCount <- SoloMinCount
  Nodes = {n1, n2}
  Slots = {s1, s3}
  NodeOf <- SoloNodeOf
  Incompat <- SoloIncompat
  Backends = {q1}
  NoBackend = NoBackend
  NoGroup = NoGroup
  NoPod = NoPod
  NoNode = NoNode
  GroupReject = TRUE
  EarlyDelete = TRUE
  MaxJobs = 4
  MaxFaults = 0
  MaxBusy = 0
  MaxRestarts = 0
  MaxRecreates = 1
INVARIANTS
  NoForeignReference
  MemoHeld
PROPERTIES
  RefinesGroupGrants
