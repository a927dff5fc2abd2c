SPECIFICATION Spec
CHECK_DEADLOCK FALSE
CONSTANTS
  qdevice = qdevice  qpu = qpu  fpga = fpga  east = east  west = west  fez = fez
  shared = shared  absent = absent  h1 = h1  h2 = h2
  Types = {qdevice, qpu, fpga}
  NoType = NoType
  Keys <- OneKey
  Values = {east, west}
  Unset = Unset
  Cleared = Cleared
  Registry <- MCRegistry
  NoRef = NoRef
  Names = {fez}
  NoName = NoName
  Cluster = Cluster
  Milli = 2
  Mib = 2
  Confs <- MCConfs
  HostLists <- MCHosts
  PodKinds <- MCPods
  MaxGroup = 2
INVARIANTS
  TypeOK
  ClassesReach
  InheritanceReaches
  
  SlotHoldsPod
  RequiredIsReadBack
