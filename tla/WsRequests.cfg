SPECIFICATION Spec
CONSTANTS
  Last = 3
  a = a
  b = b
  NoKey = NoKey
  Keys = {a, b}
  KeyMaps <- MCKeyMaps
  Modes = {"RequestResponse", "OneWay"}
  MaxPending = 2
  Timeout = 1
  WriteCap = 1
  Deadline = 4
  MaxPushes = 1
INVARIANTS
  BooksBalance
  NoneOverstays
  AnswersInStep
PROPERTY EveryRequestOneOutcome
