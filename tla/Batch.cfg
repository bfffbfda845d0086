SPECIFICATION FairSpec
CONSTANTS
  w1 = w1
  w2 = w2
  e1 = e1
  e2 = e2
  a1 = a1
  a2 = a2
  None = None
  Worker = {w1, w2}
  Endpoint = {e1, e2}
  EndpointOf <- MCEndpointOf
  Asserted = {e1}
  AssertWorker = {a1, a2}
  QueueCap = 1
  Verbose = TRUE
  MaxRequests = 3
INVARIANTS
  Accounting
  ReportTrue
PROPERTIES
  ImplementsLoadTest
  TestEnds
  FullQueueDrains
