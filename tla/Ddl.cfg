SPECIFICATION Spec
CONSTANTS
  d = d
  t = t
  u = u
  Names <- MCNames
  Cols = {c}
  Keys = {k}
  Corrupt = Corrupt
  MaxPages = 2
  MaxFaults = 1
  MaxCrashes = 1
SYMMETRY Symmetric
INVARIANTS
  TypeOK
  RepliesAreKept
  CatalogBacked
  RowsKept
  IndexOfItsTable
  OpenAfterUse
