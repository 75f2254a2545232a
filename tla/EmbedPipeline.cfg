SPECIFICATION Spec
CONSTANTS
  j1 = j1
  j2 = j2
  m1 = m1
  m2 = m2
  Jobs = {j1, j2}
  Vehicles = {1, 2}
  Docs = {1, 2}
  Models = {m1, m2}
  BatchSize = 1
  MaxRuns = 3
SYMMETRY Symmetry
INVARIANTS
  EmbeddedOnce
  NoGaps
  OneIngestion
  NoLockCycle
PROPERTY
  NeverEmptied
