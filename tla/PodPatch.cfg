SPECIFICATION Spec
CHECK_DEADLOCK FALSE
CONSTANTS
  Containers = 2
  UserWords <- MCUserWords
  Submissions <- MCSubmissions
  Flags <- MCFlags
  NotYet = NotYet
  Refused = Refused
INVARIANTS
  TypeOK
  PatchApplies
  NothingLost
  
