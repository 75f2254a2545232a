SPECIFICATION Spec
CONSTANTS
  Customers = {c1, c2}
  Requests = {q1, q2, q3, q4}
  Refs = {f1, f2}
  Nobody = Nobody
SYMMETRY Symmetry
INVARIANTS
  NoHalfTurn
  OwnContext
  SequentialContext
PROPERTY
  ImplementsStore
