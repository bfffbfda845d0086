SPECIFICATION RunnerSpec
CONSTANTS
  Runs = {1, 2}
  Stops = {}
INVARIANT ResultsKept
