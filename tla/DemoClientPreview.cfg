SPECIFICATION Spec
CONSTANTS
  Tabs = {"t1"}
  Rows = {"member"}
  Controls = {"role", "remove"}
  RowOf <- MCRowOf
  Values = {"admin", "viewer"}
  Gone = "gone"
  Asks <- MCAsks
  Initially <- MCInitially
  Keys = {"k1", "k2"}
INVARIANTS
  ConfirmedWasPreviewed
