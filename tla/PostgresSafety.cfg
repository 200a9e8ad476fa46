SPECIFICATION Spec
CONSTANTS
  c1 = c1
  c2 = c2
  c3 = c3
  Calls = {c1, c2, c3}
  archive = archive
  Actions = {archive}
  Undoable = {archive}
  WithUndoHandler = {archive}
  UndoWindow <- NoWindow
  alice = alice
  Actors = {alice}
  t = t
  Tenants = {t}
  k = k
  Keys = {k}
  i = i
  Inputs = {i}
  Targets = {}
  Effects <- Sent
  LockTimeout = TRUE
  MaxTime = 0
  MaxDeferred = 1
  MaxLost = 1
SYMMETRY Interchangeable
CHECK_DEADLOCK FALSE
INVARIANTS
  TypeOK
  AuditMatchesProduct
  OneOwnerPerRun
  AcknowledgedIsKept
  RecordsFollowCompletion
PROPERTY
  ImplementsLifecycle
