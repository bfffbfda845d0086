SPECIFICATION FairSpec
CONSTANTS
  ChannelCap = 1
  Word = 8
  MaxRequests = 2
  MaxErrors = 1
  Means = {1}
  MaxRaised = 1
  MaxTicks = 2
INVARIANTS
  StreamSound
  EveryErrorReported
  FiguresSound
  RatesAddUp
PROPERTY EverybodyEnds
