\* What the tab says while it reconnects, against ARCHITECTURE.md.
SPECIFICATION ViewerSpec
CONSTANTS
  Claude = {k1}
  Conn = {c1, c2}
  NoConn = NoConn
  TabConn = {c1}
  MaxSid = 1
  MaxPid = 1
  MaxConnections = 1
  SnapshotLimit = 1
  MaxRetries = 2
INVARIANTS
  ReconnectingIsTried
