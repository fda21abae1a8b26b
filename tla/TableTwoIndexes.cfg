SPECIFICATION FairSpec
CONSTANTS
  a = a
  b = b
  s = s
  z = z
  xl = xl
  NULL = NULL
  Deleted = Deleted
  Malformed = Malformed
  NCols = 2
  Constraint <- TwoIndexes
  ColType <- TwoIndexesTypes
  Default <- TwoIndexesDefault
  Ints = {a, b}
  Strings = {s, z, xl}
  Oversize = {xl}
  Inserts <- TwoIndexesInserts
  Updates <- TwoIndexesUpdates
  Cuts <- MCCuts
  MaxSlots = 4
  MaxCrashes = 1
INVARIANTS
  TypeOK
  IndexExact
  UniqueKeys
  CheckSuffices
  IndexSound
  SelectAgrees
  SnapshotCurrent
  InsertPrefix
  RowsConform
PROPERTIES
  UpdateKeepsRows
  ImplementsTable
  StatementEnds
