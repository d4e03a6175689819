\* A tab and the connection it lost compete for one place under the cap; it
\* reconnects to a list it has kept, twice in a row at most.
SPECIFICATION ViewerFairSpec
CONSTANTS
  Claude = {k1}
  Conn = {c1, c2}
  NoConn = NoConn
  TabConn = {c1, c2}
  MaxSid = 1
  MaxPid = 3
  MaxConnections = 1
  SnapshotLimit = 1
  MaxRetries = 3
INVARIANTS
  ListInOrder
  IndicatorTruthful
  CaughtUp
PROPERTIES
  GrowsWithoutHoles
  ConnectingResolves
