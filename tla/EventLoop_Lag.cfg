SPECIFICATION Spec
CONSTANTS
  Turns = {t1, t2}
  Probes = {p1}
  MaxIterations = 2
  VerifyCalls = 1
  MaxRetries = 1
  BaseDelay = 2
  MaxDelay = 1
  MaxCall = 0
  MaxDb = 1
  MaxWait = 1
  Hops = 1
INVARIANTS
  LagBounded
