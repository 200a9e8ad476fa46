SPECIFICATION Spec
CONSTANTS
  c1 = c1
  c2 = c2
  c3 = c3
  c4 = c4
  Calls = {c1, c2, c3, c4}
  m1 = m1
  m2 = m2
  e1 = e1
  e2 = e2
  p = p
  d = d
  Members = {m1, m2}
  Emails = {e1, e2}
  Projects = {p}
  Documents = {d}
  Seeds <- Workspaces
  MaxEdits = 1
  MaxWork = 4
SYMMETRY Interchangeable
INVARIANT
  TypeOK
PROPERTIES
  SnapshotIsTrue
  UndoTakesBack
  ReverseOrderUndoSucceeds
