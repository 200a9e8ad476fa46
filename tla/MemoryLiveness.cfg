SPECIFICATION FairSpec
CONSTANTS
  c1 = c1
  c2 = c2
  c3 = c3
  Calls = {c1, c2, c3}
  archive = archive
  Actions = {archive}
  Undoable = {archive}
  WithUndoHandler = {archive}
  UndoWindow <- OneTick
  alice = alice
  Actors = {alice}
  Tenants = {}
  Keys = {}
  i = i
  Inputs = {i}
  Targets = {}
  Effects <- Sent
  MaxTime = 1
  MaxRecords = 0
  MaxDeferred = 2
CHECK_DEADLOCK FALSE
PROPERTIES
  EveryCallReturns
  ConflictsReachTheAudit
