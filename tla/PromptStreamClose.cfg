\* Graceful shutdown against what index.ts says of it.
SPECIFICATION Spec
CONSTANTS
  Claude = {k1}
  Conn = {c1}
  MaxSid = 1
  MaxPid = 1
  MaxConnections = 1
  SnapshotLimit = 1
INVARIANTS
  ClosedCleanly
