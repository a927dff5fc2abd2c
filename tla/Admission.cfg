SPECIFICATION Spec
CHECK_DEADLOCK FALSE
CONSTANTS
  ga = ga  a0 = a0  a1 = a1  b = b  c1 = c1  c2 = c2
  Pods = {a0, a1, b}
  Quantum = {a0, a1, b}
  Groups = {ga}
  GroupOf <- PairGroup
  NoGroup = NoGroup
  Labelled = {a0, a1}
  Shared = {a0, a1}
  Indexed = {}
  First = {}
  SizeFrom <- OwnerSize
  Size <- PairSize
  Cores <- MCCores
  Named = {b}
  SelfMarked = {}
  Classical = {c1, c2}
  High = {c1}
  Allocatable = 4
  Reserve = 0
  MaxInFlight = 2
  MaxFaults = 1
INVARIANTS
  TypeOK
  
  OneLiveScout
  GangSized
