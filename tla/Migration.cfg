SPECIFICATION FairSpec
CONSTANTS
  old = old
  new = new
  branch = branch
  Runners = {old, new, branch}
  Checksums <- AllChecksums
  Bundle <- Deployments
  Origins <- AnyOrigin
  LockTimeout = {branch}
  AllowBackfill = {new}
  OwnClient = {old}
  MaxCalls = 3
  MaxTime = 1
  MaxFaults = 1
CHECK_DEADLOCK FALSE
INVARIANTS
  TypeOK
  LogMatchesSchema
  ReadsStayCurrent
  SuccessorIsAccepted
  MigratedStays
PROPERTIES
  RecordsAreKept
  ImplementsHistory
  EveryCallReturns
