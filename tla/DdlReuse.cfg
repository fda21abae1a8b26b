SPECIFICATION Spec
CONSTANTS
  d = d
  t = t
  u = u
  Names <- MCNames
  Cols = {c}
  Keys = {k}
  Corrupt = Corrupt
  MaxPages = 2
  MaxFaults = 0
  MaxCrashes = 0
INVARIANT EmptyTableHasNoKeys
