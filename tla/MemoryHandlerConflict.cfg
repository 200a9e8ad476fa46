SPECIFICATION Spec
CONSTANTS
  c1 = c1
  c2 = c2
  Calls = {c1, c2}
  archive = archive
  Actions = {archive}
  Undoable = {archive}
  WithUndoHandler = {archive}
  UndoWindow <- NoWindow
  alice = alice
  Actors = {alice}
  Tenants = {}
  Keys = {}
  i = i
  Inputs = {i}
  Targets = {}
  Effects <- Sent
  MaxTime = 0
  MaxRecords = 0
  MaxDeferred = 1
CHECK_DEADLOCK FALSE
INVARIANT
  NoUndoAfterConflict
