SPECIFICATION Spec
CHECK_DEADLOCK FALSE
CONSTANTS
  a = a  b = b  a1 = a1  a2 = a2  b1 = b1
  n1 = n1  n2 = n2  s1 = s1  s2 = s2  s3 = s3
  Groups = {a, b}
  Grouped = {a}
  Pods = {a1, a2, b1}
  GroupOf <- MCGroupOf
  Leaders = {a1, b1}
  Gated = {}
  MinCount <- MCMinCount
  Nodes = {n1, n2}
  Slots = {s1, s2, s3}
  NodeOf <- MCNodeOf
  Incompat <- MCIncompat
  Backends = {q1}
  NoBackend = NoBackend
  NoGroup = NoGroup
  NoPod = NoPod
  NoNode = NoNode
  GroupReject = TRUE
  EarlyDelete = FALSE
  MaxJobs = 8
  MaxFaults = 0
  MaxBusy = 1
  MaxRestarts = 0
  MaxRecreates = 0
INVARIANTS
  TypeOK
  MemoAvoidsExcluded
  HeldAccounted
  BoundOnAllocation
  BoundSeesHeldBackend
