SPECIFICATION FairSpec
CONSTANTS
  w1 = w1
  w2 = w2
  w3 = w3
  j1 = j1
  Worker = {w1, w2, w3}
  Endpoints = 2
  EndpointOf <- MCEndpointOf
  Asserted = {1}
  Breakable = {2}
  AssertWorker = {j1}
  ConnectLimit = 1
  QueueCap = 1
  ChannelCap = 1
  MaxOpened = 2
  MaxReceived = 2
  MaxRaised = 1
  MaxTicks = 1
  None = None
INVARIANTS
  LimitsKept
  EveryMessageJudged
  NothingRunsOn
  ResultsDelivered
PROPERTY TestEnds
