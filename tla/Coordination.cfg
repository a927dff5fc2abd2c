SPECIFICATION FairSpec
CHECK_DEADLOCK FALSE
CONSTANTS
  w1 = w1  w2 = w2
  Workers = {w1, w2}
  NoWorker = NoWorker
  Late = {w2}
  Gated2 = {w2}
  MaxErrors = 2
  MaxFaults = 2
INVARIANTS
  TypeOK
  UngatedOnlyWhenUsable
  SessionOutlivesWorkers
  JobIdBeforeStart
  
PROPERTIES
  
  
  GangServed
