SPECIFICATION Spec
CONSTANTS
  w1 = w1
  w2 = w2
  Worker = {w1, w2}
  Rows = 2
  Headers = {"user", "password"}
  Globals = {"region"}
  GlobalSetup <- MCGlobalSetup
  Setup <- MCSetup
  Teardown <- MCTeardown
  Faults = FALSE
  MaxRounds = 2
INVARIANT HigherTakesPlace
