SPECIFICATION FairSpec
CONSTANTS
  Plans <- MCPlans
  Fine = 16
INVARIANTS
  RampFaithful
  NeverAheadOfRamp
PROPERTY EveryWorkerExits
