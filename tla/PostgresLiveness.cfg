SPECIFICATION FairSpec
CONSTANTS
  c1 = c1
  c2 = c2
  c3 = c3
  Calls = {c1, c2, c3}
  archive = archive
  Actions = {archive}
  Undoable = {archive}
  WithUndoHandler = {archive}
  UndoWindow <- OneTick
  alice = alice
  Actors = {alice}
  Tenants = {}
  Keys = {}
  i = i
  Inputs = {i}
  Targets = {}
  Effects <- NoEffects
  LockTimeout = FALSE
  MaxTime = 1
  MaxDeferred = 1
  MaxLost = 1
CHECK_DEADLOCK FALSE
PROPERTIES
  EveryCallReturns
  EveryRunIsMarked
  ConflictsReachTheAudit
