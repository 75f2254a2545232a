SPECIFICATION Spec
CONSTANTS
  Customers = {c1, c2}
  PerKeyLimit = 2
  GlobalLimit = 3
  Window = 3
  MaxTime = 7
SYMMETRY Symmetry
INVARIANTS
  ChargedOnlyIfAdmitted
  StraddleAtMostTwice
PROPERTY
  RetryAfterHonest
