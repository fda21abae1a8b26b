SPECIFICATION UseFirstSpec
CONSTANTS
  a = a
  b = b
  s = s
  z = z
  xl = xl
  NULL = NULL
  Deleted = Deleted
  Malformed = Malformed
  NCols = 2
  Constraint <- OneIndex
  ColType <- OneIndexTypes
  Default <- OneIndexDefault
  Ints = {a, b}
  Strings = {s, xl}
  Oversize = {xl}
  Inserts <- OneIndexInserts
  Updates <- OneIndexUpdates
  Cuts <- MCCuts
  MaxSlots = 4
  MaxCrashes = 1
INVARIANTS
  IndexedIsUnique
