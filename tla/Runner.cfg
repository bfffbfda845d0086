SPECIFICATION FairRunnerSpec
CONSTANTS
  Runs = {1, 2}
  Stops = {s1, s2}
INVARIANTS
  StoppedStreamGone
  FirstResultsKept
  StoppedUntilReused
PROPERTIES
  CallsReturn
  IterationEnds
