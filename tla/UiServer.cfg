SPECIFICATION FairSpec
CONSTANTS
  Conn = {c1, c2}
  Client = {i1, i2}
  Results = 2
  Nobody = Nobody
INVARIANTS
  ResultsOnce
  ForgottenOnReconnect
PROPERTY EndIsTold
