\* Three clients race for two places, so two listeners share an emitter and a third is
\* refused; two prompts, a snapshot shorter than the history, and a session that may be
\* deleted under its streams.
SPECIFICATION FairSpec
CONSTANTS
  Claude = {k1}
  Conn = {c1, c2, c3}
  MaxSid = 1
  MaxPid = 2
  MaxConnections = 2
  SnapshotLimit = 1
INVARIANTS
  NoLeak
  ExactlyOnceInOrder
  NoGap
  CountedAndCapped
PROPERTIES
  ImplementsFeed
  AbortReleases
  ShutdownEnds
