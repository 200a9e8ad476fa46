SPECIFICATION FairHistorySpec
CHECK_DEADLOCK FALSE
CONSTANTS
  Identifiers = {1, 2, 3}
  Claims = {}
  Scopes = {"a", "b"}
  Queries <- MCQueries
  ScopeOf <- MCScopeOf
  Times = {1, 2}
INVARIANTS
  StoresAgree
  NoRunTwice
  NothingMissed
PROPERTIES
  HistoryIsKept
  PagingGoesOn
  PagingEnds
