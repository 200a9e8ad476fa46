SPECIFICATION Spec
CONSTANTS
  c1 = c1
  c2 = c2
  c3 = c3
  Calls = {c1, c2, c3}
  archive = archive
  Actions = {archive}
  Undoable = {archive}
  WithUndoHandler = {archive}
  UndoWindow <- NoWindow
  alice = alice
  Actors = {alice}
  Tenants = {}
  k = k
  Keys = {k}
  i = i
  j = j
  Inputs = {i, j}
  Targets = {}
  Effects <- Sent
  MaxTime = 0
  MaxRecords = 1
  MaxDeferred = 1
SYMMETRY Interchangeable
CHECK_DEADLOCK FALSE
INVARIANTS
  TypeOK
  OpenRunsHaveOneOwner
  AcknowledgedIsKept
  FailedRunLeavesNothing
  UndoSeesNoConflict
PROPERTIES
  AuditIsAppendOnly
  ImplementsLifecycle
