SPECIFICATION DatabaseSpec
CONSTANTS
  Customers = {c1, c2}
  Connections = {k1, k2}
  RowIds = {r1, r2, r3, r4}
  Nobody = Nobody
SYMMETRY Symmetry
INVARIANTS
  ReadsOwnRows
  WritesOwnRows
  ScopeExact
  GrantedMeansGuarded
  NoStatementFails
  PathIndependent
