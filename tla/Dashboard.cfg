SPECIFICATION FairDashSpec
CONSTANTS
  Publishers = {p1}
  Streams = {s1, s2}
  MaxPublishes = 2
  Devices = {"core", "edge"}
  Access <- MCAccess
  Risks <- MCRisks
  Loads = {l1}
  Window = 1
  MaxEvents = 2
CHECK_DEADLOCK FALSE
INVARIANTS
  NoPhantomSnapshot
  RowsExplained
PROPERTY
  FailureReachesRow
