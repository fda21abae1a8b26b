SPECIFICATION Spec
CONSTANTS
  small = small
  whole = whole
  large = large
  wraps = wraps
  huge = huge
  Deleted = Deleted
  Rows = {small, whole, large, wraps, huge}
  Size <- MCSize
  Prefix <- MCPrefix
  PageSize = 16
  Word = 64
  MaxPages = 5
INVARIANTS
  TypeOK
  LayoutFits
  OnlyHugeHarmed
  FreshPages
  ViewsAgree
PROPERTIES
  ImplementsLog
