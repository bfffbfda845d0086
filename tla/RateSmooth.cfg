SPECIFICATION RateSpec
CONSTANTS
  QueueCap <- ShortWindow
  EmaOn = TRUE
  Num = 1
  Den = 2
  Rates = {0, 4, 8}
  MaxTicks = 3
INVARIANT CurveSmoothed
