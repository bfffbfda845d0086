SPECIFICATION FairSpec
CONSTANTS
  MaxAttempts = 1
  Backoff = 1
  TestEnd = 3
  Second = 1
  Ttls = {0, 2}
  HbInterval = 2
  HbTimeout = 1
  Greetings = 2
  WriteCap = 1
  MaxUnread = 1
  MaxNow = 4
INVARIANTS
  ConnectionsAddUp
  ConnectsBounded
  SilenceNoticed
PROPERTIES
  SilentUnlessBlocked
  WorkerEnds
