SPECIFICATION FairSpec
CONSTANTS
  Turns = {t1}
  Probes = {p1}
  MaxIterations = 2
  VerifyCalls = 2
  MaxRetries = 1
  BaseDelay = 2
  MaxDelay = 1
  MaxCall = 1
  MaxDb = 4
  MaxWait = 1
  Hops = 2
INVARIANTS
  HoldBounded
PROPERTIES
  EveryoneServed
