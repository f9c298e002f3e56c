SPECIFICATION LocalsSpec
CONSTANTS
  Names = {x, y}
  Types <- FewTypes
  IntLimit = 64
  MaxObjects = 4
  MaxScopes = 4
  None = none
  Shapes <- Statements
  MaxStmts = 3
  MaxLocals = 3
  BodyObjects = 3
  BodyScopes = 3
INVARIANTS TypeOK UsesBind OwnSlots SameBehaviour OnlyUnreadStale
SYMMETRY Symmetry
